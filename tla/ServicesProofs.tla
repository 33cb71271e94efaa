--------------------------- MODULE ServicesProofs ---------------------------
(***************************************************************************)
(* Proofs about the parts of the program that share no state: the registry *)
(* of workers, plan mode, the board of tasks, the sub-agents and the hook  *)
(* commands, each by itself and as the parts that MCServices runs side by  *)
(* side.                                                                   *)
(***************************************************************************)
EXTENDS MCServices, Sequences, FiniteSets, TLAPS

-----------------------------------------------------------------------------
(***************************************************************************)
(* The registry of workers, for every set of prompts and every bound.  All *)
(* operations change one record, so the invariant is a property Sound(w)   *)
(* of a single record, and the proof is a lemma per record transformer     *)
(* (what a screen, a loss or an operation does to a sound record) and one  *)
(* lemma that lifts a sound record into the registry.                      *)
(***************************************************************************)

\* The six facts about one record that are preserved only together: the
\* count of misdeliveries needs the replay's state, the boot flag needs the
\* count, the error needs the boot flag's status.
ReplayFacts(w) ==
  w.replay # None => /\ w.replay = w.lastPrompt
                     /\ ~w.inFlight
                     /\ w.misdelivered > 0

GivenFacts(w) ==
  /\ w.lastPrompt \in w.given \cup {None}
  /\ w.replay \in w.given \cup {None}

CountFacts(w) ==
  w.misdelivered + (IF w.inFlight THEN 1 ELSE 0) <= w.attempts

BootFacts(w) ==
  (w.attempts > 0 \/ w.status \in {"ReadyForPrompt", "Running"}) => w.booted

ErrorFacts(w) ==
  /\ w.status = "TrustRequired" => w.lastError = "TrustGate" /\ ~w.gateCleared
  /\ w.status = "Failed" => w.lastError \in {"PromptDelivery", "Provider"}
  /\ w.status \in {"Spawning", "Running"} => w.lastError = None
  /\ w.status = "ReadyForPrompt" => w.lastError # "TrustGate"

FlightFacts(w) ==
  /\ w.inFlight => /\ w.lastPrompt # None
                   /\ w.status \in {"Running", "TrustRequired", "Spawning"}
  /\ w.status # "Running" => w.lastEvent = w.status

Sound(w) ==
  /\ w \in Worker
  /\ ReplayFacts(w)
  /\ GivenFacts(w)
  /\ CountFacts(w)
  /\ BootFacts(w)
  /\ ErrorFacts(w)
  /\ FlightFacts(w)

\* The inductive invariant: every record, handed out or not, is sound.
IInv ==
  /\ TypeOK
  /\ \A i \in Ids : Sound(worker[i])

-----------------------------------------------------------------------------
\* A record as create() and restart() leave it is sound.
LEMMA FreshSound ==
  \A a, r \in BOOLEAN : Sound(Fresh(a, r))
BY BootAssumption
   DEF Fresh, Sound, Worker, Status, Failure, ReplayFacts, GivenFacts,
       CountFacts, BootFacts, ErrorFacts, FlightFacts

\* The blocks of observe() keep a record sound.
LEMMA AfterTrustSound ==
  ASSUME NEW w, Sound(w), NEW s \in Screen
  PROVE  Sound(AfterTrust(w, s))
<1>1. CASE ~TrustPending(w, s)
  BY <1>1 DEF AfterTrust
<1>2. CASE TrustPending(w, s)
  <2> DEFINE v == [w EXCEPT !.gateCleared = TRUE, !.lastError = None,
                            !.status = "Spawning", !.lastEvent = "Spawning"]
  <2>1. v \in Worker
    BY DEF Sound, Worker, Status, Failure
  <2>2. ReplayFacts(v) /\ GivenFacts(v) /\ CountFacts(v) /\ BootFacts(v)
    BY DEF Sound, Worker, ReplayFacts, GivenFacts, CountFacts, BootFacts
  <2>3. ErrorFacts(v) /\ FlightFacts(v)
    BY DEF Sound, Worker, ErrorFacts, FlightFacts
  <2> QED
    BY <1>2, <2>1, <2>2, <2>3 DEF AfterTrust, Sound
<1> QED
  BY <1>1, <1>2

LEMMA AfterCueSound ==
  ASSUME NEW w, Sound(w), NEW s \in Screen
  PROVE  Sound(AfterCue(w, s))
<1>1. CASE ~(s.cue /\ w.inFlight)
  BY <1>1 DEF AfterCue
<1>2. CASE s.cue /\ w.inFlight
  <2> DEFINE v == [w EXCEPT !.inFlight = FALSE, !.status = "Running",
                            !.lastError = None]
  <2>1. v \in Worker
    BY DEF Sound, Worker, Status, Failure
  <2>2. ReplayFacts(v) /\ GivenFacts(v) /\ CountFacts(v)
    BY DEF Sound, Worker, ReplayFacts, GivenFacts, CountFacts
  <2>3. w.attempts > 0
    BY <1>2 DEF Sound, Worker, CountFacts
  <2>4. BootFacts(v)
    BY <2>3 DEF Sound, Worker, BootFacts
  <2>5. ErrorFacts(v) /\ FlightFacts(v)
    BY DEF Sound, Worker, ErrorFacts, FlightFacts
  <2> QED
    BY <1>2, <2>1, <2>2, <2>4, <2>5 DEF AfterCue, Sound
<1> QED
  BY <1>1, <1>2

LEMMA AfterReadySound ==
  ASSUME NEW w, Sound(w), NEW s \in Screen
  PROVE  Sound(AfterReady(w, s))
<1>1. CASE ~(s.ready /\ w.status # "ReadyForPrompt")
  BY <1>1 DEF AfterReady
<1>2. CASE s.ready /\ w.status # "ReadyForPrompt"
  <2> DEFINE e == IF w.lastError = "TrustGate" THEN None ELSE w.lastError
             v == [w EXCEPT !.status = "ReadyForPrompt", !.inFlight = FALSE,
                            !.lastError = e,
                            !.lastEvent = "ReadyForPrompt", !.booted = TRUE]
  <2>1. v \in Worker
    <3>1. w \in Worker /\ e \in Failure \cup {None}
      BY DEF Sound, Worker
    <3> HIDE DEF e
    <3> QED
      BY <3>1 DEF Worker, Status
  <2>2. ReplayFacts(v) /\ GivenFacts(v) /\ CountFacts(v) /\ BootFacts(v)
    BY DEF Sound, Worker, ReplayFacts, GivenFacts, CountFacts, BootFacts
  <2>3. ErrorFacts(v) /\ FlightFacts(v)
    BY BootAssumption DEF Sound, Worker, ErrorFacts, FlightFacts
  <2> QED
    BY <1>2, <2>1, <2>2, <2>3 DEF AfterReady, Sound
<1> QED
  BY <1>1, <1>2

\* Losing a prompt in flight keeps a record sound: the loss is counted
\* against the dispatch, and the replay is the prompt that was lost.
LEMMA LostSound ==
  ASSUME NEW w, Sound(w), NEW s \in Screen, Misdelivered(w, s)
  PROVE  Sound(Lost(w))
<1> DEFINE v == Lost(w)
           r == IF w.autoRecover THEN w.lastPrompt ELSE w.replay
           t == IF w.autoRecover THEN "ReadyForPrompt" ELSE "Failed"
<1>1. v \in Worker
  <2>1. w \in Worker /\ r \in Prompts \cup {None} /\ t \in Status
    BY DEF Sound, Worker, Status
  <2>2. v = [w EXCEPT !.lastError = "PromptDelivery", !.inFlight = FALSE,
                      !.misdelivered = w.misdelivered + 1, !.replay = r,
                      !.status = t, !.lastEvent = t]
    BY DEF Lost
  <2>3. w.misdelivered + 1 \in Nat
    BY <2>1 DEF Worker
  <2> HIDE DEF v, r, t
  <2> QED
    BY <2>1, <2>2, <2>3 DEF Worker, Failure
<1>2. w.inFlight
  BY DEF Misdelivered
<1>3. ReplayFacts(v) /\ GivenFacts(v)
  BY DEF Lost, Sound, Worker, ReplayFacts, GivenFacts
<1>4. w.misdelivered + 1 <= w.attempts
  BY <1>2 DEF Sound, CountFacts
<1>5. v.misdelivered = w.misdelivered + 1 /\ ~v.inFlight /\ v.attempts = w.attempts
  BY DEF Lost, Sound, Worker
<1>6. CountFacts(v)
  BY <1>1, <1>4, <1>5 DEF CountFacts, Worker
<1>7. w.attempts > 0 /\ w.booted
  BY <1>4 DEF Sound, Worker, BootFacts
<1>8. BootFacts(v)
  BY <1>7 DEF Lost, Sound, Worker, BootFacts
<1>9. ErrorFacts(v) /\ FlightFacts(v)
  BY DEF Lost, Sound, Worker, ErrorFacts, FlightFacts
<1> QED
  BY <1>1, <1>3, <1>6, <1>8, <1>9 DEF Sound

\* Putting a sound record back keeps the registry's invariant.
LEMMA PutSound ==
  ASSUME NEW i \in Ids, NEW w, Sound(w), IInv, Put(i, w)
  PROVE  IInv'
<1>1. TypeOK'
  BY DEF IInv, Put, TypeOK, Sound
<1>2. \A j \in Ids : worker'[j] = IF j = i THEN w ELSE worker[j]
  BY DEF IInv, Put, TypeOK
<1>3. \A j \in Ids : Sound(worker'[j])
  BY <1>2 DEF IInv
<1> QED
  BY <1>1, <1>3 DEF IInv

-----------------------------------------------------------------------------
\* The inductive step, one operation at a time.
LEMMA OperationSound ==
  ASSUME IInv, NEW i \in Created, Operation(i)
  PROVE  IInv'
<1> i \in Ids
  BY BootAssumption DEF Created, Ids, IInv, TypeOK
<1> DEFINE w == worker[i]
<1>1. Sound(w) /\ w \in Worker
  BY DEF IInv, Sound
<1> HIDE DEF w
<1>2. CASE ObserveTrustPrompt(i)
  <2>1. PICK s \in Screen :
          /\ TrustPending(w, s)
          /\ Put(i, [w EXCEPT !.status = "TrustRequired",
                              !.lastError = "TrustGate",
                              !.lastEvent = "TrustRequired"])
    BY <1>2 DEF ObserveTrustPrompt, w
  <2> DEFINE v == [w EXCEPT !.status = "TrustRequired",
                            !.lastError = "TrustGate",
                            !.lastEvent = "TrustRequired"]
  <2>2. v \in Worker
    BY <1>1 DEF Worker, Status, Failure
  <2>3. ReplayFacts(v) /\ GivenFacts(v) /\ CountFacts(v) /\ BootFacts(v)
    BY <1>1 DEF Sound, Worker, ReplayFacts, GivenFacts, CountFacts, BootFacts
  <2>4. ErrorFacts(v) /\ FlightFacts(v)
    BY <1>1, <2>1 DEF Sound, Worker, ErrorFacts, FlightFacts, TrustPending
  <2>5. Sound(v)
    BY <2>2, <2>3, <2>4 DEF Sound
  <2> QED
    BY <2>1, <2>5, PutSound
<1>3. CASE ObserveMisdelivery(i)
  <2>1. PICK s \in Screen : /\ Misdelivered(AfterTrust(w, s), s)
                            /\ Put(i, Lost(AfterTrust(w, s)))
    BY <1>3 DEF ObserveMisdelivery, w
  <2>2. Sound(AfterTrust(w, s))
    BY <1>1, AfterTrustSound
  <2>3. Sound(Lost(AfterTrust(w, s)))
    BY <2>1, <2>2, LostSound
  <2> QED
    BY <2>1, <2>3, PutSound
<1>4. CASE ObserveProgress(i)
  <2>1. PICK s \in Screen :
          Put(i, AfterReady(AfterCue(AfterTrust(w, s), s), s))
    BY <1>4 DEF ObserveProgress, w
  <2>2. Sound(AfterTrust(w, s))
    BY <1>1, AfterTrustSound
  <2>3. Sound(AfterCue(AfterTrust(w, s), s))
    BY <2>2, AfterCueSound
  <2>4. Sound(AfterReady(AfterCue(AfterTrust(w, s), s), s))
    BY <2>3, AfterReadySound
  <2> QED
    BY <2>1, <2>4, PutSound
<1>5. CASE ResolveTrust(i)
  <2> DEFINE v == [w EXCEPT !.gateCleared = TRUE, !.lastError = None,
                            !.status = "Spawning", !.lastEvent = "Spawning"]
  <2>1. v \in Worker
    BY <1>1 DEF Worker, Status, Failure
  <2>2. ReplayFacts(v) /\ GivenFacts(v) /\ CountFacts(v) /\ BootFacts(v)
    BY <1>1 DEF Sound, Worker, ReplayFacts, GivenFacts, CountFacts, BootFacts
  <2>3. ErrorFacts(v) /\ FlightFacts(v)
    BY <1>1 DEF Sound, Worker, ErrorFacts, FlightFacts
  <2>4. Sound(v)
    BY <2>1, <2>2, <2>3 DEF Sound
  <2>5. Put(i, v)
    BY <1>5 DEF ResolveTrust, w
  <2> QED
    BY <2>4, <2>5, PutSound
<1>6. ASSUME NEW p \in Prompts, NEW given \in SUBSET Prompts,
             p \in w.given \cup given, Dispatch(i, p, given)
      PROVE  IInv'
  <2> DEFINE v == [w EXCEPT !.attempts = @ + 1, !.inFlight = TRUE,
                            !.lastPrompt = p, !.replay = None,
                            !.lastError = None, !.status = "Running",
                            !.lastEvent = "Running", !.given = @ \cup given]
  <2>1. w.status = "ReadyForPrompt" /\ Put(i, v)
    BY <1>6 DEF Dispatch, w
  <2>2. v \in Worker
    <3>1. w.attempts + 1 \in Nat /\ w.given \cup given \in SUBSET Prompts
      BY <1>1 DEF Worker
    <3> QED
      BY <1>1, <3>1 DEF Worker, Status
  <2>3. ReplayFacts(v) /\ GivenFacts(v)
    BY <1>1, <1>6 DEF Worker, ReplayFacts, GivenFacts
  <2>4. ~w.inFlight /\ w.booted
    BY <1>1, <2>1 DEF Sound, FlightFacts, BootFacts
  <2>5. w.misdelivered <= w.attempts
    BY <1>1, <2>4 DEF Sound, Worker, CountFacts
  <2>6. CountFacts(v) /\ BootFacts(v)
    BY <1>1, <2>4, <2>5 DEF Worker, CountFacts, BootFacts
  <2>7. ErrorFacts(v) /\ FlightFacts(v)
    BY <1>1, BootAssumption DEF Worker, ErrorFacts, FlightFacts
  <2>8. Sound(v)
    BY <2>2, <2>3, <2>6, <2>7 DEF Sound
  <2> QED
    BY <2>1, <2>8, PutSound
<1>7. CASE SendPrompt(i)
  <2>1. PICK p \in Prompts : Dispatch(i, p, {p})
    BY <1>7 DEF SendPrompt
  <2> QED
    BY <1>6, <2>1
<1>8. CASE ReplayPrompt(i)
  <2>1. w.replay # None /\ Dispatch(i, w.replay, {})
    BY <1>8 DEF ReplayPrompt, w
  <2>2. w.replay \in Prompts /\ w.replay \in w.given
    BY <1>1, <2>1 DEF Sound, Worker, GivenFacts
  <2> QED
    BY <1>6, <2>1, <2>2
<1>9. CASE Restart(i)
  <2>1. w.autoResolve \in BOOLEAN /\ w.autoRecover \in BOOLEAN
    BY <1>1 DEF Worker
  <2>2. Put(i, Fresh(w.autoResolve, w.autoRecover))
    BY <1>9 DEF Restart, w
  <2> QED
    BY <2>1, <2>2, FreshSound, PutSound
<1>10. ASSUME NEW v, v \in Worker, Put(i, v),
              v.status \in {"Finished", "Failed"},
              v.status = "Failed" => v.lastError \in {"PromptDelivery", "Provider"},
              v.lastEvent = v.status, ~v.inFlight,
              v.attempts = w.attempts, v.booted = w.booted,
              v.misdelivered = w.misdelivered, v.given = w.given,
              v.lastPrompt = w.lastPrompt, v.replay = w.replay
       PROVE  IInv'
  <2>1. ReplayFacts(v) /\ GivenFacts(v)
    BY <1>1, <1>10 DEF Sound, ReplayFacts, GivenFacts
  <2>2. CountFacts(v)
    BY <1>1, <1>10 DEF Sound, CountFacts, Worker
  <2>3. BootFacts(v) /\ ErrorFacts(v) /\ FlightFacts(v)
    BY <1>1, <1>10 DEF Sound, BootFacts, ErrorFacts, FlightFacts
  <2> QED
    BY <1>10, <2>1, <2>2, <2>3, PutSound DEF Sound
<1>11. CASE Terminate(i)
  <2> DEFINE v == [w EXCEPT !.status = "Finished", !.inFlight = FALSE,
                            !.lastEvent = "Finished"]
  <2>1. Put(i, v)
    BY <1>11 DEF Terminate, w
  <2>2. v \in Worker
    BY <1>1 DEF Worker, Status
  <2> QED
    BY <1>1, <1>10, <2>1, <2>2 DEF Worker
<1>12. CASE ObserveCompletion(i)
  <2> DEFINE f == [w EXCEPT !.lastError = "Provider", !.status = "Failed",
                            !.inFlight = FALSE, !.lastEvent = "Failed"]
             d == [w EXCEPT !.status = "Finished", !.inFlight = FALSE,
                            !.lastError = None, !.lastEvent = "Finished"]
  <2>1. Put(i, f) \/ Put(i, d)
    BY <1>12 DEF ObserveCompletion, w
  <2>2. f \in Worker /\ d \in Worker
    BY <1>1 DEF Worker, Status, Failure
  <2>3. CASE Put(i, f)
    BY <1>1, <1>10, <2>2, <2>3 DEF Worker
  <2>4. CASE Put(i, d)
    BY <1>1, <1>10, <2>2, <2>4 DEF Worker
  <2> QED
    BY <2>1, <2>3, <2>4
<1> QED
  BY <1>2, <1>3, <1>4, <1>5, <1>7, <1>8, <1>9, <1>11, <1>12 DEF Operation

LEMMA CreateSound ==
  ASSUME IInv, Create
  PROVE  IInv'
<1>1. counter + 1 \in Ids /\ counter' \in 0..MaxWorkers
  BY BootAssumption DEF IInv, TypeOK, Create, Ids
<1>2. PICK a, r \in BOOLEAN :
        worker' = [worker EXCEPT ![counter + 1] = Fresh(a, r)]
  BY DEF Create
<1>3. Sound(Fresh(a, r))
  BY FreshSound
<1>4. TypeOK'
  BY <1>1, <1>2, <1>3 DEF IInv, TypeOK, Sound
<1>5. \A j \in Ids :
        worker'[j] = IF j = counter + 1 THEN Fresh(a, r) ELSE worker[j]
  BY <1>2 DEF IInv, TypeOK
<1> QED
  BY <1>3, <1>4, <1>5 DEF IInv

\* The registry is sound in every reachable state.
THEOREM Soundness == Spec => []IInv
<1>1. Init => IInv
  <2> SUFFICES ASSUME Init
               PROVE  IInv
    OBVIOUS
  <2>1. Sound(Fresh(FALSE, FALSE))
    BY FreshSound
  <2>2. \A i \in Ids : worker[i] = Fresh(FALSE, FALSE)
    BY DEF Init
  <2>3. Fresh(FALSE, FALSE) \in Worker
    BY <2>1 DEF Sound
  <2>4. worker \in [Ids -> Worker]
    BY <2>3 DEF Init
  <2>5. counter \in 0..MaxWorkers
    BY BootAssumption DEF Init
  <2> QED
    BY <2>1, <2>2, <2>4, <2>5 DEF IInv, TypeOK
<1>2. IInv /\ [Next]_vars => IInv'
  <2> SUFFICES ASSUME IInv, [Next]_vars
               PROVE  IInv'
    OBVIOUS
  <2>1. CASE UNCHANGED vars
    BY <2>1 DEF vars, IInv, TypeOK
  <2>2. CASE Create
    BY <2>2, CreateSound
  <2>3. CASE \E i \in Created : Operation(i)
    BY <2>3, OperationSound
  <2> QED
    BY <2>1, <2>2, <2>3 DEF Next
<1> QED
  BY <1>1, <1>2, PTL DEF Spec

-----------------------------------------------------------------------------
LEMMA CreatedIds ==
  ASSUME TypeOK
  PROVE  Created \subseteq Ids
BY BootAssumption DEF TypeOK, Created, Ids

\* Every record the registry hands out is well formed.
THEOREM TypeCorrect == Spec => []TypeOK
<1>1. IInv => TypeOK
  BY DEF IInv
<1> QED
  BY <1>1, Soundness, PTL

\* send_prompt(None) replays only the prompt that was dispatched last, and
\* only after it was lost.
THEOREM ReplaySafety == Spec => []ReplayIsLostPrompt
<1>1. IInv => ReplayIsLostPrompt
  BY CreatedIds DEF IInv, Sound, ReplayFacts, ReplayIsLostPrompt
<1> QED
  BY <1>1, Soundness, PTL

\* No prompt crosses a restart.
THEOREM RestartSafety == Spec => []NoPromptFromEarlierLife
<1>1. IInv => NoPromptFromEarlierLife
  BY CreatedIds DEF IInv, Sound, GivenFacts, NoPromptFromEarlierLife
<1> QED
  BY <1>1, Soundness, PTL

\* A dispatch is reported lost at most once.
THEOREM MisdeliveryOnce == Spec => []OneMisdeliveryPerDispatch
<1>1. IInv => OneMisdeliveryPerDispatch
  BY CreatedIds DEF IInv, Sound, CountFacts, OneMisdeliveryPerDispatch
<1> QED
  BY <1>1, Soundness, PTL

\* Nobody is prompted before it booted.
THEOREM BootBeforePrompt == Spec => []PromptedMeansBooted
<1>1. IInv => PromptedMeansBooted
  BY CreatedIds DEF IInv, Sound, BootFacts, PromptedMeansBooted
<1> QED
  BY <1>1, Soundness, PTL

\* What await_ready() reports as the error fits the status it reports.
THEOREM ErrorSafety == Spec => []ErrorExplainsStatus
<1>1. IInv => ErrorExplainsStatus
  BY CreatedIds DEF IInv, Sound, ErrorFacts, ErrorExplainsStatus
<1> QED
  BY <1>1, Soundness, PTL

\* The last event of the log names the worker's status, unless it runs.
THEOREM LogSafety == Spec => []LogTellsStatus
<1>1. IInv => LogTellsStatus
  BY CreatedIds DEF IInv, Sound, FlightFacts, LogTellsStatus
<1> QED
  BY <1>1, Soundness, PTL

-----------------------------------------------------------------------------
(***************************************************************************)
(* Plan mode: wherever a call is cut short, the mode that the override of  *)
(* the tool replaced is on disk.                                           *)
(***************************************************************************)

(* What is known between two steps of one call: while it prepares the      *)
(* override, plan is not in force yet, and what it read is still the mode. *)
CallFits ==
    /\ op \in [tool : {"none", "enter", "exit"}, read : P!Values,
               pc : {"idle", "dropStale", "keep", "override", "restore", "clear", "return"}]
    /\ op.pc \in {"dropStale", "keep", "override"} => mode # "plan" /\ op.read = mode
    /\ op.pc = "override" => kept = P!State(op.read)
    /\ op.pc = "clear" => mode # "plan" \/ before = P!ByHand

PlanInv == P!TypeOK /\ CallFits /\ P!PriorModeIsKept

USE DEF P!Values, P!ByHand

LEMMA PlanInit == P!Init => PlanInv
<1> SUFFICES ASSUME P!Init PROVE PlanInv
  OBVIOUS
<1> USE DEF P!Init
<1>1. P!TypeOK
  BY DEF P!TypeOK, P!NoState, P!NoOp, P!Unset
<1>2. CallFits
  BY DEF CallFits, P!NoOp, P!Unset
<1>3. P!PriorModeIsKept
  BY DEF P!PriorModeIsKept
<1> QED BY <1>1, <1>2, <1>3 DEF PlanInv

(* The mode kept in a state file is a mode.                                *)
LEMMA StateHolds ==
  ASSUME NEW m \in P!Values
  PROVE  P!State(m).prev = m /\ P!State(m).had \in BOOLEAN /\ P!State(m).there \in BOOLEAN
BY DEF P!State

LEMMA PlanNext == PlanInv /\ [P!Next]_P!vars => PlanInv'
<1> SUFFICES ASSUME PlanInv, [P!Next]_P!vars PROVE PlanInv'
  OBVIOUS
<1> USE DEF PlanInv, P!TypeOK, CallFits, P!PriorModeIsKept, P!Goto
<1>1. CASE P!Enter
  BY <1>1 DEF P!Enter, P!NoOp
<1>2. CASE P!DropStale
  BY <1>2 DEF P!DropStale, P!NoState, P!Unset
<1>3. CASE P!Keep
  BY <1>3, StateHolds DEF P!Keep
<1>4. CASE P!Override
  BY <1>4 DEF P!Override
<1>5. CASE P!Exit
  BY <1>5 DEF P!Exit, P!NoOp
<1>6. CASE P!Restore
  BY <1>6 DEF P!Restore
<1>7. CASE P!Clear
  BY <1>7 DEF P!Clear, P!NoState, P!Unset
<1>8. CASE P!Return
  BY <1>8 DEF P!Return, P!NoOp, P!Unset
<1>9. CASE P!CutShort
  <2>1. /\ op' = P!NoOp
        /\ kept' = kept \/ (op.pc = "keep" /\ kept' = P!NoState)
        /\ mode' = mode \/ mode' = P!Unset
        /\ before' = IF mode' = mode THEN before ELSE P!ByHand
    BY <1>9 DEF P!CutShort
  <2>2. P!TypeOK'
    <3>1. kept'.prev \in P!Values /\ kept'.had \in BOOLEAN /\ kept'.there \in BOOLEAN
      <4>1. CASE kept' = kept
        BY <4>1
      <4>2. CASE kept' = P!NoState
        BY <4>2 DEF P!NoState
      <4> QED BY <2>1, <4>1, <4>2
    <3>2. mode' \in P!Values /\ op'.read \in P!Values
      BY <2>1 DEF P!NoOp
    <3>3. before' \in P!Values \cup {P!ByHand}
      BY <2>1
    <3> QED BY <3>1, <3>2, <3>3
  <2>3. CallFits'
    BY <2>1 DEF P!NoOp, P!Unset
  <2>4. P!PriorModeIsKept'
    BY <2>1 DEF P!Unset
  <2> QED BY <2>2, <2>3, <2>4
<1>10. CASE P!SetByHand
  BY <1>10 DEF P!SetByHand, P!NoOp
<1>11. CASE UNCHANGED P!vars
  BY <1>11 DEF P!vars
<1> QED BY <1>1, <1>2, <1>3, <1>4, <1>5, <1>6, <1>7, <1>8, <1>9, <1>10, <1>11 DEF P!Next

-----------------------------------------------------------------------------
(* Wherever a call was cut short, ExitPlanMode finds the mode that         *)
(* EnterPlanMode replaced (tools/src/lib.rs, execute_enter_plan_mode).     *)
THEOREM PlanModeSafety == P!Spec => []P!PriorModeIsKept
<1>1. PlanInv => P!PriorModeIsKept
  BY DEF PlanInv
<1> QED BY PlanInit, PlanNext, <1>1, PTL DEF P!Spec

-----------------------------------------------------------------------------
(***************************************************************************)
(* Tasks: what the board says of a command that has ended is what became   *)
(* of it, for any number of tasks and teams.                               *)
(***************************************************************************)

TaskSteps == {"none", "made", "failed", "spawned", "attached", "watching",
          "reaped", "cleared", "noted", "done"}
TaskStatuses == T!Terminal \cup {"absent", "created", "running"}
TaskRecord == [status : TaskStatuses, pid : BOOLEAN, note : T!Codes \cup {"none"},
           team : Teams \cup {T!Unassigned}, messages : Nat]
TaskProcess == [st : {"none", "running", "exited", "reaped"}, code : T!Codes \cup {"none"}]

TaskTypes ==
    /\ task \in [Tasks -> TaskRecord]
    /\ spawn \in [Tasks -> TaskSteps]
    /\ child \in [Tasks -> TaskProcess]
    /\ killing \subseteq Tasks
    /\ joining \in [Teams -> SUBSET Tasks]

(* How far the two threads of a command are tells what is known of it: an  *)
(* outcome is set by the watcher's last step, after the ones before it.    *)
Followed(t) ==
    LET step == spawn[t] IN
    /\ ~T!Known(t) => step = "none"
    /\ step \in {"spawned", "attached", "watching"} => child[t].st \in {"running", "exited"}
    /\ step \in {"none", "made", "failed"} => child[t].st = "none"
    /\ step \in {"reaped", "cleared", "noted", "done"} => child[t].st = "reaped"
    /\ child[t].st \in {"exited", "reaped"} => child[t].code \in T!Codes
    /\ step \in {"cleared", "noted", "done"} => ~task[t].pid
    /\ step \in {"noted", "done"} => task[t].note = child[t].code
    /\ task[t].status \in {"completed", "failed"} =>
         step = "done" /\ (task[t].status = "completed") = (child[t].code = "zero")

TaskInv == TaskTypes /\ \A t \in Tasks : Followed(t)

(* What is meant by a step that concerns one task.                         *)
OtherTasks(t) == \A u \in Tasks \ {t} : task'[u] = task[u] /\ spawn'[u] = spawn[u] /\ child'[u] = child[u]

LEMMA OneTask ==
  ASSUME TaskInv, NEW t \in Tasks, OtherTasks(t), TaskTypes', Followed(t)'
  PROVE  TaskInv'
BY DEF TaskInv, OtherTasks, Followed, T!Known

(* A record with another field value is a record.                          *)
LEMMA TaskFields ==
  ASSUME NEW r \in TaskRecord
  PROVE  /\ \A s \in TaskStatuses : [r EXCEPT !.status = s] \in TaskRecord
         /\ \A b \in BOOLEAN : [r EXCEPT !.pid = b] \in TaskRecord
         /\ \A m \in Teams : [r EXCEPT !.team = m] \in TaskRecord
         /\ \A n \in T!Codes \cup {"none"} : [r EXCEPT !.note = n] \in TaskRecord
         /\ [r EXCEPT !.messages = r.messages + 1] \in TaskRecord
BY DEF TaskRecord

LEMMA TaskInit == T!Init => TaskInv
BY DEF T!Init, TaskInv, TaskTypes, Followed, T!Known, TaskRecord, TaskProcess, TaskStatuses,
   TaskSteps,
       T!Terminal, T!NoTask, T!NoChild, T!Unassigned, T!Codes

LEMMA TaskNext == TaskInv /\ [T!Next]_T!vars => TaskInv'
<1> SUFFICES ASSUME TaskInv, [T!Next]_T!vars PROVE TaskInv'
  OBVIOUS
<1> USE DEF TaskInv, TaskTypes, TaskProcess, TaskStatuses, TaskSteps, T!Terminal, T!Codes,
            T!Next2, T!AtSpawn, T!Known, T!teams
<1>1. ASSUME NEW t \in Tasks, T!Create(t) PROVE TaskInv'
  <2>1. TaskTypes'
    BY <1>1, TaskFields DEF T!Create
  <2>2. OtherTasks(t)
    BY <1>1 DEF T!Create, OtherTasks
  <2>3. Followed(t)'
    BY <1>1 DEF T!Create, Followed
  <2> QED BY <2>1, <2>2, <2>3, OneTask
<1>2. ASSUME NEW t \in Tasks, T!Update(t) PROVE TaskInv'
  <2>1. TaskTypes'
    <3>1. task' \in [Tasks -> TaskRecord]
      <4>1. task[t] \in TaskRecord /\ [task[t] EXCEPT !.messages = task[t].messages + 1] \in TaskRecord
        BY TaskFields
      <4>2. task' = [task EXCEPT ![t] = [task[t] EXCEPT !.messages = task[t].messages + 1]]
        BY <1>2 DEF T!Update
      <4> QED BY <4>1, <4>2
    <3>2. spawn' \in [Tasks -> TaskSteps] /\ child' \in [Tasks -> TaskProcess]
      BY <1>2 DEF T!Update
    <3> QED BY <1>2, <3>1, <3>2 DEF T!Update
  <2>2. OtherTasks(t)
    BY <1>2 DEF T!Update, OtherTasks
  <2>3. Followed(t)'
    BY <1>2 DEF T!Update, Followed
  <2> QED BY <2>1, <2>2, <2>3, OneTask
<1>3. ASSUME NEW t \in Tasks, T!Stop(t) PROVE TaskInv'
  <2>1. TaskTypes'
    <3>1. task' \in [Tasks -> TaskRecord]
      BY <1>3, TaskFields DEF T!Stop
    <3>2. spawn' \in [Tasks -> TaskSteps] /\ child' \in [Tasks -> TaskProcess]
      BY <1>3 DEF T!Stop
    <3> QED BY <1>3, <3>1, <3>2 DEF T!Stop
  <2>2. OtherTasks(t)
    BY <1>3 DEF T!Stop, OtherTasks
  <2>3. Followed(t)'
    BY <1>3 DEF T!Stop, Followed
  <2> QED BY <2>1, <2>2, <2>3, OneTask
<1>4. ASSUME NEW t \in Tasks, T!Kill(t) PROVE TaskInv'
  <2>1. TaskTypes'
    BY <1>4 DEF T!Kill
  <2>2. OtherTasks(t)
    BY <1>4 DEF T!Kill, OtherTasks
  <2>3. Followed(t)'
    BY <1>4 DEF T!Kill, Followed
  <2> QED BY <2>1, <2>2, <2>3, OneTask
<1>5. ASSUME NEW t \in Tasks, T!Background(t) PROVE TaskInv'
  <2>1. TaskTypes'
    <3>1. task' \in [Tasks -> TaskRecord]
      BY <1>5, TaskFields DEF T!Background
    <3>2. spawn' \in [Tasks -> TaskSteps] /\ child' \in [Tasks -> TaskProcess]
      BY <1>5 DEF T!Background
    <3> QED BY <1>5, <3>1, <3>2 DEF T!Background
  <2>2. OtherTasks(t)
    BY <1>5 DEF T!Background, OtherTasks
  <2>3. Followed(t)'
    BY <1>5 DEF T!Background, Followed
  <2> QED BY <2>1, <2>2, <2>3, OneTask
<1>6. ASSUME NEW t \in Tasks, T!Spawn(t) PROVE TaskInv'
  <2>1. TaskTypes'
    <3>1. task' \in [Tasks -> TaskRecord]
      BY <1>6, TaskFields DEF T!Spawn
    <3>2. spawn' \in [Tasks -> TaskSteps] /\ child' \in [Tasks -> TaskProcess]
      BY <1>6 DEF T!Spawn
    <3> QED BY <1>6, <3>1, <3>2 DEF T!Spawn
  <2>2. OtherTasks(t)
    BY <1>6 DEF T!Spawn, OtherTasks
  <2>3. Followed(t)'
    BY <1>6 DEF T!Spawn, Followed
  <2> QED BY <2>1, <2>2, <2>3, OneTask
<1>7. ASSUME NEW t \in Tasks, T!AttachProcess(t) PROVE TaskInv'
  <2>1. TaskTypes'
    <3>1. task' \in [Tasks -> TaskRecord]
      BY <1>7, TaskFields DEF T!AttachProcess
    <3>2. spawn' \in [Tasks -> TaskSteps] /\ child' \in [Tasks -> TaskProcess]
      BY <1>7 DEF T!AttachProcess
    <3> QED BY <1>7, <3>1, <3>2 DEF T!AttachProcess
  <2>2. OtherTasks(t)
    BY <1>7 DEF T!AttachProcess, OtherTasks
  <2>3. Followed(t)'
    BY <1>7 DEF T!AttachProcess, Followed
  <2> QED BY <2>1, <2>2, <2>3, OneTask
<1>8. ASSUME NEW t \in Tasks, T!SetRunning(t) PROVE TaskInv'
  <2>1. TaskTypes'
    <3>1. task' \in [Tasks -> TaskRecord]
      BY <1>8, TaskFields DEF T!SetRunning
    <3>2. spawn' \in [Tasks -> TaskSteps] /\ child' \in [Tasks -> TaskProcess]
      BY <1>8 DEF T!SetRunning
    <3> QED BY <1>8, <3>1, <3>2 DEF T!SetRunning
  <2>2. OtherTasks(t)
    BY <1>8 DEF T!SetRunning, OtherTasks
  <2>3. Followed(t)'
    BY <1>8 DEF T!SetRunning, Followed
  <2> QED BY <2>1, <2>2, <2>3, OneTask
<1>9. ASSUME NEW t \in Tasks, T!Exits(t) PROVE TaskInv'
  <2>1. TaskTypes'
    BY <1>9 DEF T!Exits
  <2>2. OtherTasks(t)
    BY <1>9 DEF T!Exits, OtherTasks
  <2>3. Followed(t)'
    BY <1>9 DEF T!Exits, Followed
  <2> QED BY <2>1, <2>2, <2>3, OneTask
<1>10. ASSUME NEW t \in Tasks, T!Reap(t) PROVE TaskInv'
  <2>1. TaskTypes'
    BY <1>10 DEF T!Reap
  <2>2. OtherTasks(t)
    BY <1>10 DEF T!Reap, OtherTasks
  <2>3. Followed(t)'
    BY <1>10 DEF T!Reap, Followed
  <2> QED BY <2>1, <2>2, <2>3, OneTask
<1>11. ASSUME NEW t \in Tasks, T!ClearPid(t) PROVE TaskInv'
  <2>1. TaskTypes'
    <3>1. task' \in [Tasks -> TaskRecord]
      BY <1>11, TaskFields DEF T!ClearPid
    <3>2. spawn' \in [Tasks -> TaskSteps] /\ child' \in [Tasks -> TaskProcess]
      BY <1>11 DEF T!ClearPid
    <3> QED BY <1>11, <3>1, <3>2 DEF T!ClearPid
  <2>2. OtherTasks(t)
    BY <1>11 DEF T!ClearPid, OtherTasks
  <2>3. Followed(t)'
    BY <1>11 DEF T!ClearPid, Followed
  <2> QED BY <2>1, <2>2, <2>3, OneTask
<1>12. ASSUME NEW t \in Tasks, T!AppendCode(t) PROVE TaskInv'
  <2>1. TaskTypes'
    <3>1. task' \in [Tasks -> TaskRecord]
      <4>1. child[t].code \in T!Codes \cup {"none"} /\ task[t] \in TaskRecord
        OBVIOUS
      <4> QED BY <1>12, <4>1, TaskFields DEF T!AppendCode
    <3>2. spawn' \in [Tasks -> TaskSteps] /\ child' \in [Tasks -> TaskProcess]
      BY <1>12 DEF T!AppendCode
    <3> QED BY <1>12, <3>1, <3>2 DEF T!AppendCode
  <2>2. OtherTasks(t)
    BY <1>12 DEF T!AppendCode, OtherTasks
  <2>3. Followed(t)'
    BY <1>12 DEF T!AppendCode, Followed
  <2> QED BY <2>1, <2>2, <2>3, OneTask
<1>13. ASSUME NEW t \in Tasks, T!SetOutcome(t) PROVE TaskInv'
  <2>1. TaskTypes'
    <3>1. task' \in [Tasks -> TaskRecord]
      BY <1>13, TaskFields DEF T!SetOutcome
    <3>2. spawn' \in [Tasks -> TaskSteps] /\ child' \in [Tasks -> TaskProcess]
      BY <1>13 DEF T!SetOutcome
    <3> QED BY <1>13, <3>1, <3>2 DEF T!SetOutcome
  <2>2. OtherTasks(t)
    BY <1>13 DEF T!SetOutcome, OtherTasks
  <2>3. Followed(t)'
    BY <1>13 DEF T!SetOutcome, Followed
  <2> QED BY <2>1, <2>2, <2>3, OneTask
<1>14. ASSUME NEW m \in Teams, T!TeamCreate(m) PROVE TaskInv'
  BY <1>14 DEF T!TeamCreate, Followed
<1>15. ASSUME NEW m \in Teams, T!Assign(m) PROVE TaskInv'
  <2>1. PICK t \in joining[m] : /\ joining' = [joining EXCEPT ![m] = @ \ {t}]
                               /\ task' = IF T!Known(t) THEN [task EXCEPT ![t].team = m] ELSE task
    BY <1>15 DEF T!Assign
  <2>2. UNCHANGED <<spawn, child, killing>> /\ t \in Tasks
    BY <1>15 DEF T!Assign
  <2>3. task' \in [Tasks -> TaskRecord]
    BY <2>1, <2>2, TaskFields
  <2>4. TaskTypes'
    BY <2>1, <2>2, <2>3
  <2>5. OtherTasks(t)
    BY <2>1, <2>2 DEF OtherTasks
  <2>6. Followed(t)'
    BY <2>1, <2>2 DEF Followed
  <2> QED BY <2>2, <2>4, <2>5, <2>6, OneTask
<1>16. ASSUME NEW m \in Teams, T!TeamDelete(m) PROVE TaskInv'
  BY <1>16 DEF T!TeamDelete, Followed
<1>17. CASE UNCHANGED T!vars
  BY <1>17 DEF T!vars, Followed
<1> QED BY <1>1, <1>2, <1>3, <1>4, <1>5, <1>6, <1>7, <1>8, <1>9, <1>10, <1>11, <1>12,
           <1>13, <1>14, <1>15, <1>16, <1>17 DEF T!Next, T!Begin, T!Watch

-----------------------------------------------------------------------------
(* A task that is seen completed or failed has its exit code on record, no *)
(* pid, and the outcome its command ended with (tools/src/lib.rs, the      *)
(* watcher of spawn_tracked_background_bash).                              *)
THEOREM TaskOutcomesAreReal == T!Spec => []T!OutcomeIsReal
<1>1. TaskInv => T!OutcomeIsReal
  BY DEF TaskInv, Followed, T!OutcomeIsReal
<1> QED BY TaskInit, TaskNext, <1>1, PTL DEF T!Spec

-----------------------------------------------------------------------------
(***************************************************************************)
(* Sub-agents: a manifest can be believed, for any number of agents,       *)
(* processes and slots.                                                    *)
(***************************************************************************)

AgentFile == [status : A!Final \cup {"none", "torn", "running"}, owner : Procs \cup {A!Nobody}]
AgentJob == [at : {"none", "queued", "waiting", "final", "notify", "done"},
        outcome : A!Outcomes \cup {"none"}]
AgentProcess == [st : {"off", "scanning", "on", "dead", "reused"}, todo : SUBSET Agents,
            held : [id : Agents \cup {A!Nobody}, status : {"none", "running"}],
            missed : SUBSET Agents, gone : SUBSET Procs]

AgentThreads == {"none", "running", "completed", "failed"}

AgentTypes ==
    /\ manifest \in [Agents -> AgentFile]
    /\ job \in [Agents -> AgentJob]
    /\ thread \in [Agents -> AgentThreads]
    /\ proc \in [Procs -> AgentProcess]

(* What a manifest, its supervisor, its worker and its process have to do  *)
(* with each other: threads live in a live process, the supervisor writes  *)
(* last, and it learns of an end from the worker alone.                    *)
FitTogether(m, j, w) ==
    /\ m.status = "none" => j.at = "none" /\ w = "none"
    /\ m.status # "none" => m.owner \in Procs /\ proc[m.owner].st # "off"
    /\ j.at \in {"queued", "waiting", "final", "notify"} => A!Alive(m.owner)
    /\ j.at \in {"queued", "waiting", "final"} => m.status = "running"
    /\ j.at = "queued" => w = "none"
    /\ j.at = "final" => j.outcome \in A!Outcomes
    /\ j.at = "final" /\ j.outcome # "timed_out" => w # "running"
    /\ m.status \in {"completed", "failed"} => w # "running"
    /\ m.status = "interrupted" => ~A!Alive(m.owner)

Fits(a) == FitTogether(manifest[a], job[a], thread[a])

(* A scan holds an agent whose manifest it has read.                       *)
HeldIsThere ==
    \A p \in Procs : proc[p].held.id # A!Nobody => manifest[proc[p].held.id].status # "none"

AgentInv == AgentTypes /\ HeldIsThere /\ \A a \in Agents : Fits(a)

LEMMA AgentInit == A!Init => AgentInv
<1> SUFFICES ASSUME A!Init PROVE AgentInv
  OBVIOUS
<1>1. AgentTypes
  BY DEF A!Init, AgentTypes, AgentFile, AgentJob, AgentProcess, AgentThreads, A!Final,
     A!Outcomes, A!NoFile, A!NoJob, A!Off, A!NotHeld
<1>2. HeldIsThere
  BY DEF A!Init, HeldIsThere, A!Off, A!NotHeld, A!Nobody
<1>3. \A a \in Agents : Fits(a)
  BY DEF A!Init, Fits, FitTogether, A!NoFile, A!NoJob
<1> QED BY <1>1, <1>2, <1>3 DEF AgentInv

-----------------------------------------------------------------------------
(* A step of the threads of one agent *)

LEMMA OneAgent ==
  ASSUME AgentInv, NEW a \in Agents, NEW m \in AgentFile, NEW j \in AgentJob, NEW w \in AgentThreads,
         manifest' = [manifest EXCEPT ![a] = m],
         job' = [job EXCEPT ![a] = j],
         thread' = [thread EXCEPT ![a] = w],
         UNCHANGED proc,
         m.status # "none", FitTogether(m, j, w)
  PROVE  AgentInv'
<1> USE DEF AgentInv
<1>1. AgentTypes'
  BY DEF AgentTypes
<1>2. HeldIsThere'
  BY DEF HeldIsThere, AgentTypes
<1>3. \A b \in Agents : Fits(b)'
  BY DEF Fits, FitTogether, AgentTypes, A!Alive
<1> QED BY <1>1, <1>2, <1>3

(* What becomes of an agent's supervisor when only its place changes.      *)
LEMMA MovedJob ==
  ASSUME NEW j \in AgentJob, NEW at \in {"none", "queued", "waiting", "notify", "done"}
  PROVE  LET k == [j EXCEPT !.at = at] IN k \in AgentJob /\ k.at = at /\ k.outcome = j.outcome
BY DEF AgentJob

(* The same of a manifest and its status.                                  *)
LEMMA MarkedFile ==
  ASSUME NEW m \in AgentFile, NEW status \in A!Final \cup {"torn", "running"}
  PROVE  LET n == [m EXCEPT !.status = status]
         IN  n \in AgentFile /\ n.status = status /\ n.owner = m.owner
BY DEF AgentFile

LEMMA LaunchIInv ==
  ASSUME AgentInv, NEW p \in Procs, NEW a \in Agents, A!Launch(p, a)
  PROVE  AgentInv'
<1>1. /\ job[a] \in AgentJob /\ thread[a] = "none" /\ A!Alive(p)
      /\ manifest \in [Agents -> AgentFile] /\ thread \in [Agents -> AgentThreads]
      /\ job \in [Agents -> AgentJob]
  BY DEF AgentInv, AgentTypes, Fits, FitTogether, A!Launch, A!Alive
<1>2. PICK s \in {"running", "failed"}, j \in AgentJob :
         /\ manifest' = [manifest EXCEPT ![a] = [status |-> s, owner |-> p]]
         /\ job' = [job EXCEPT ![a] = j]
         /\ (j.at = "queued" /\ s = "running") \/ j.at = "done"
  <2>1. CASE /\ manifest' = [manifest EXCEPT ![a] = [status |-> "running", owner |-> p]]
             /\ job' = [job EXCEPT ![a].at = "queued"]
    <3> DEFINE j == [job[a] EXCEPT !.at = "queued"]
    <3>1. j \in AgentJob /\ j.at = "queued" /\ job' = [job EXCEPT ![a] = j]
      BY <1>1, <2>1, MovedJob
    <3> QED BY <3>1, <2>1
  <2>2. CASE /\ \E status \in {"failed", "running"} :
                  manifest' = [manifest EXCEPT ![a] = [status |-> status, owner |-> p]]
             /\ job' = [job EXCEPT ![a] = [at |-> "done", outcome |-> "failed"]]
    <3> DEFINE j == [at |-> "done", outcome |-> "failed"]
    <3>1. j \in AgentJob /\ j.at = "done" /\ job' = [job EXCEPT ![a] = j]
      BY <2>2 DEF AgentJob, A!Outcomes
    <3> QED BY <3>1, <2>2
  <2> QED BY <2>1, <2>2 DEF A!Launch
<1> DEFINE m == [status |-> s, owner |-> p]
<1>3. m \in AgentFile /\ m.status = s /\ m.owner = p
  BY DEF AgentFile, A!Final, A!Outcomes
<1>4. thread' = [thread EXCEPT ![a] = "none"] /\ UNCHANGED proc
  BY <1>1 DEF A!Launch
<1>5. FitTogether(m, j, "none")
  BY <1>1, <1>2, <1>3 DEF FitTogether, A!Alive
<1> QED BY <1>2, <1>3, <1>4, <1>5, OneAgent DEF AgentThreads

LEMMA AcquireIInv ==
  ASSUME AgentInv, NEW a \in Agents, A!Acquire(a)
  PROVE  AgentInv'
<1>1. /\ job[a] \in AgentJob /\ job[a].at = "queued" /\ manifest[a] \in AgentFile /\ Fits(a)
      /\ manifest \in [Agents -> AgentFile] /\ thread \in [Agents -> AgentThreads]
      /\ job \in [Agents -> AgentJob]
      /\ manifest' = [manifest EXCEPT ![a] = manifest[a]] /\ UNCHANGED proc
  BY DEF AgentInv, AgentTypes, A!Acquire
<1>2. CASE job' = [job EXCEPT ![a].at = "waiting"] /\ thread' = [thread EXCEPT ![a] = "running"]
  <2> DEFINE j == [job[a] EXCEPT !.at = "waiting"]
  <2>1. j \in AgentJob /\ j.at = "waiting" /\ job' = [job EXCEPT ![a] = j]
    BY <1>1, <1>2, MovedJob
  <2>2. FitTogether(manifest[a], j, "running") /\ manifest[a].status # "none"
    BY <1>1, <2>1 DEF Fits, FitTogether
  <2> QED BY <1>1, <1>2, <2>1, <2>2, OneAgent DEF AgentThreads
<1>3. CASE job' = [job EXCEPT ![a] = [at |-> "final", outcome |-> "failed"]] /\ UNCHANGED thread
  <2> DEFINE j == [at |-> "final", outcome |-> "failed"]
  <2>1. j \in AgentJob /\ thread' = [thread EXCEPT ![a] = thread[a]] /\ thread[a] \in AgentThreads
    BY <1>1, <1>3 DEF AgentJob, A!Outcomes
  <2>2. FitTogether(manifest[a], j, thread[a]) /\ manifest[a].status # "none"
    BY <1>1 DEF Fits, FitTogether, A!Outcomes
  <2> QED BY <1>1, <1>3, <2>1, <2>2, OneAgent
<1> QED BY <1>2, <1>3 DEF A!Acquire

(* Of the worker's message and of the time limit.                          *)
LEMMA HearIInv ==
  ASSUME AgentInv, NEW a \in Agents, A!Receive(a) \/ A!TimeOut(a)
  PROVE  AgentInv'
<1>1. /\ job[a].at = "waiting" /\ manifest[a] \in AgentFile /\ thread[a] \in AgentThreads /\ Fits(a)
      /\ manifest' = [manifest EXCEPT ![a] = manifest[a]] /\ UNCHANGED proc
      /\ thread' = [thread EXCEPT ![a] = thread[a]]
  BY DEF AgentInv, AgentTypes, A!Receive, A!TimeOut
<1>2. PICK outcome \in A!Outcomes :
         /\ job' = [job EXCEPT ![a] = [at |-> "final", outcome |-> outcome]]
         /\ outcome # "timed_out" => thread[a] # "running"
  BY DEF A!Receive, A!TimeOut, A!Outcomes
<1> DEFINE j == [at |-> "final", outcome |-> outcome]
<1>3. j \in AgentJob
  BY DEF AgentJob
<1>4. FitTogether(manifest[a], j, thread[a]) /\ manifest[a].status # "none"
  BY <1>1, <1>2 DEF Fits, FitTogether
<1> QED BY <1>1, <1>2, <1>3, <1>4, OneAgent

LEMMA FinalizeIInv ==
  ASSUME AgentInv, NEW a \in Agents, A!Finalize(a)
  PROVE  AgentInv'
<1>1. /\ job[a] \in AgentJob /\ job[a].at = "final" /\ manifest[a] \in AgentFile /\ Fits(a)
      /\ manifest \in [Agents -> AgentFile] /\ job \in [Agents -> AgentJob]
      /\ thread[a] \in AgentThreads
      /\ thread' = [thread EXCEPT ![a] = thread[a]] /\ UNCHANGED proc
      /\ job' = [job EXCEPT ![a].at = "notify"]
  BY DEF AgentInv, AgentTypes, A!Finalize
<1>2. manifest[a].status = "running" /\ job[a].outcome \in A!Outcomes
  BY <1>1 DEF Fits, FitTogether
<1>3. PICK status \in {job[a].outcome, "torn", "running"} :
         manifest' = [manifest EXCEPT ![a].status = status]
  BY <1>2 DEF A!Finalize
<1> DEFINE m == [manifest[a] EXCEPT !.status = status]
           j == [job[a] EXCEPT !.at = "notify"]
<1>4. /\ j \in AgentJob /\ j.at = "notify" /\ job' = [job EXCEPT ![a] = j]
  BY <1>1, MovedJob
<1>5. /\ m \in AgentFile /\ m.status = status /\ m.owner = manifest[a].owner
      /\ manifest' = [manifest EXCEPT ![a] = m]
  BY <1>1, <1>2, <1>3, MarkedFile DEF A!Final
<1>6. FitTogether(m, j, thread[a]) /\ m.status # "none"
  BY <1>1, <1>2, <1>4, <1>5 DEF Fits, FitTogether, A!Outcomes
<1> HIDE DEF m, j
<1> QED BY <1>1, <1>4, <1>5, <1>6, OneAgent

LEMMA NotifyIInv ==
  ASSUME AgentInv, NEW a \in Agents, A!Notify(a)
  PROVE  AgentInv'
<1>1. /\ job[a] \in AgentJob /\ job[a].at = "notify" /\ manifest[a] \in AgentFile /\ Fits(a)
      /\ job \in [Agents -> AgentJob] /\ thread[a] \in AgentThreads
      /\ manifest' = [manifest EXCEPT ![a] = manifest[a]]
      /\ thread' = [thread EXCEPT ![a] = thread[a]] /\ UNCHANGED proc
      /\ job' = [job EXCEPT ![a].at = "done"]
  BY DEF AgentInv, AgentTypes, A!Notify
<1> DEFINE j == [job[a] EXCEPT !.at = "done"]
<1>2. /\ j \in AgentJob /\ j.at = "done" /\ job' = [job EXCEPT ![a] = j]
  BY <1>1, MovedJob
<1>3. FitTogether(manifest[a], j, thread[a]) /\ manifest[a].status # "none"
  BY <1>1, <1>2 DEF Fits, FitTogether
<1> HIDE DEF j
<1> QED BY <1>1, <1>2, <1>3, OneAgent

LEMMA WorkerEndsIInv ==
  ASSUME AgentInv, NEW a \in Agents, A!WorkerEnds(a)
  PROVE  AgentInv'
<1>1. /\ job[a] \in AgentJob /\ manifest[a] \in AgentFile /\ Fits(a) /\ thread[a] = "running"
      /\ manifest' = [manifest EXCEPT ![a] = manifest[a]]
      /\ job' = [job EXCEPT ![a] = job[a]] /\ UNCHANGED proc
  BY DEF AgentInv, AgentTypes, A!WorkerEnds
<1>2. PICK w \in {"completed", "failed"} : thread' = [thread EXCEPT ![a] = w]
  BY DEF A!WorkerEnds
<1>3. FitTogether(manifest[a], job[a], w) /\ manifest[a].status # "none"
  BY <1>1 DEF Fits, FitTogether
<1> QED BY <1>1, <1>2, <1>3, OneAgent DEF AgentThreads

-----------------------------------------------------------------------------
(* A step of a process *)

LEMMA OneProcess ==
  ASSUME AgentInv, NEW p \in Procs, NEW r \in AgentProcess,
         proc' = [proc EXCEPT ![p] = r],
         UNCHANGED <<manifest, job, thread>>,
         proc[p].st # "off" => (r.st \in {"scanning", "on"} <=> A!Alive(p)) /\ r.st # "off",
         r.held.id # A!Nobody => manifest[r.held.id].status # "none"
  PROVE  AgentInv'
<1> USE DEF AgentInv
<1>1. AgentTypes'
  BY DEF AgentTypes
<1>2. HeldIsThere'
  BY DEF HeldIsThere, AgentTypes
<1>3. \A b \in Agents : Fits(b)'
  <2>1. \A q \in Procs : proc[q].st # "off" => (A!Alive(q)' <=> A!Alive(q)) /\ proc'[q].st # "off"
    BY DEF AgentTypes, A!Alive
  <2> QED BY <2>1 DEF Fits, FitTogether, AgentTypes
<1> QED BY <1>1, <1>2, <1>3

LEMMA StartAgentInv ==
  ASSUME AgentInv, NEW p \in Procs, A!Start(p)
  PROVE  AgentInv'
<1>1. PICK r \in AgentProcess : proc' = [proc EXCEPT ![p] = r] /\ r.held.id = A!Nobody
  <2>1. PICK to \in {"scanning", "on"} :
          proc' = [proc EXCEPT ![p] =
                     IF to = "on" THEN [A!Off EXCEPT !.st = to]
                     ELSE [A!Off EXCEPT !.st = to, !.gone = {q \in Procs : proc[q].st = "dead"},
                                      !.todo = {a \in Agents : manifest[a].status # "none"}]]
    BY DEF A!Start
  <2>2. CASE to = "on"
    <3>1. [A!Off EXCEPT !.st = to] \in AgentProcess /\ [A!Off EXCEPT !.st = to].held.id = A!Nobody
      BY <2>2 DEF A!Off, A!NotHeld, AgentProcess
    <3> QED BY <2>1, <2>2, <3>1
  <2>3. CASE to = "scanning"
    <3> DEFINE r == [A!Off EXCEPT !.st = to, !.gone = {q \in Procs : proc[q].st = "dead"},
                                !.todo = {a \in Agents : manifest[a].status # "none"}]
    <3>1. r \in AgentProcess /\ r.held.id = A!Nobody
      BY <2>3 DEF A!Off, A!NotHeld, AgentProcess
    <3> QED BY <2>1, <2>3, <3>1
  <2> QED BY <2>2, <2>3
<1> QED BY <1>1, OneProcess DEF A!Start

LEMMA ScanReadIInv ==
  ASSUME AgentInv, NEW p \in Procs, NEW a \in Agents, A!ScanRead(p, a)
  PROVE  AgentInv'
<1> DEFINE taken == IF manifest[a].status = "running" THEN [id |-> a,
   status |-> "running"] ELSE A!NotHeld
           r == [proc[p] EXCEPT !.todo = @ \ {a}, !.held = taken]
<1>1. proc[p] \in AgentProcess /\ proc \in [Procs -> AgentProcess]
  BY DEF AgentInv, AgentTypes
<1>2. taken \in [id : Agents \cup {A!Nobody}, status : {"none", "running"}]
  BY DEF A!NotHeld
<1>3. r \in AgentProcess /\ r.st = proc[p].st /\ r.held = taken
  BY <1>1, <1>2 DEF AgentProcess
<1>4. proc' = [proc EXCEPT ![p] = r] /\ UNCHANGED <<manifest, job, thread>>
  BY <1>1 DEF A!ScanRead
<1>5. taken.id # A!Nobody => manifest[taken.id].status # "none"
  BY DEF A!NotHeld
<1> QED BY <1>3, <1>4, <1>5, OneProcess DEF A!Alive

LEMMA EndAgentInv ==
  ASSUME AgentInv, NEW p \in Procs, A!ScanEnds(p) \/ A!PidReused(p)
  PROVE  AgentInv'
<1>1. /\ proc[p] \in AgentProcess /\ proc \in [Procs -> AgentProcess]
      /\ UNCHANGED <<manifest, job, thread>>
  BY DEF AgentInv, AgentTypes, A!ScanEnds, A!PidReused
<1>2. CASE A!ScanEnds(p)
  <2>1. [A!Off EXCEPT !.st = "on"] \in AgentProcess /\ [A!Off EXCEPT !.st = "on"].held.id = A!Nobody
        /\ [A!Off EXCEPT !.st = "on"].st = "on"
    BY DEF A!Off, A!NotHeld, AgentProcess
  <2> QED BY <1>1, <1>2, <2>1, OneProcess DEF A!ScanEnds, A!Alive
<1>3. CASE A!PidReused(p)
  <2> DEFINE r == [proc[p] EXCEPT !.st = "reused"]
  <2>1. r \in AgentProcess /\ r.st = "reused" /\ r.held = proc[p].held /\ proc' = [proc EXCEPT ![p] = r]
    BY <1>1, <1>3 DEF AgentProcess, A!PidReused
  <2>2. r.held.id # A!Nobody => manifest[r.held.id].status # "none"
    BY <2>1 DEF AgentInv, HeldIsThere
  <2> HIDE DEF r
  <2> QED BY <1>1, <1>3, <2>1, <2>2, OneProcess DEF A!PidReused, A!Alive
<1> QED BY <1>2, <1>3

(* A step that may mark agents whose process is gone, or goes with it.     *)
LEMMA ScanWriteIInv ==
  ASSUME AgentInv, NEW p \in Procs, A!ScanWrite(p)
  PROVE  AgentInv'
<1>0. PICK a \in Agents : a = proc[p].held.id
  BY DEF A!ScanWrite, AgentInv, AgentTypes, AgentProcess
<1>1. /\ proc[p] \in AgentProcess /\ proc \in [Procs -> AgentProcess] /\ a # A!Nobody
      /\ manifest[a] \in AgentFile /\ Fits(a) /\ manifest[a].status # "none"
      /\ manifest \in [Agents -> AgentFile] /\ UNCHANGED <<job, thread>>
  BY <1>0 DEF A!ScanWrite, AgentInv, AgentTypes, HeldIsThere
<1>2. PICK r \in AgentProcess : proc' = [proc EXCEPT ![p] = r] /\ r.st = proc[p].st /\ r.held = A!NotHeld
  <2> DEFINE r1 == [proc[p] EXCEPT !.held = A!NotHeld]
             r2 == [proc[p] EXCEPT !.held = A!NotHeld, !.missed = @ \cup {a}]
  <2>1. r1 \in AgentProcess /\ r1.st = proc[p].st /\ r1.held = A!NotHeld
    BY <1>1 DEF AgentProcess, A!NotHeld
  <2>2. r2 \in AgentProcess /\ r2.st = proc[p].st /\ r2.held = A!NotHeld
    BY <1>1 DEF AgentProcess, A!NotHeld
  <2>3. proc' = [proc EXCEPT ![p] = r1] \/ proc' = [proc EXCEPT ![p] = r2]
    BY <1>0, <1>1 DEF A!ScanWrite
  <2> HIDE DEF r1, r2
  <2> QED BY <2>1, <2>2, <2>3
<1>3. CASE UNCHANGED manifest
  <2>1. r.held.id = A!Nobody /\ UNCHANGED <<manifest, job, thread>>
    BY <1>1, <1>2, <1>3 DEF A!NotHeld
  <2>2. proc[p].st # "off" => (r.st \in {"scanning", "on"} <=> A!Alive(p)) /\ r.st # "off"
    BY <1>2 DEF A!Alive
  <2> QED BY <1>2, <2>1, <2>2, OneProcess
<1>4. ASSUME NEW status \in {"interrupted", "torn"}, ~A!Alive(manifest[a].owner),
             manifest' = [manifest EXCEPT ![a].status = status]
      PROVE  AgentInv'
  <2> DEFINE m == [manifest[a] EXCEPT !.status = status]
  <2>1. m \in AgentFile /\ m.status = status /\ m.owner = manifest[a].owner
        /\ manifest' = [manifest EXCEPT ![a] = m]
    BY <1>1, <1>4, MarkedFile DEF A!Final
  <2> HIDE DEF m
  <2>2. \A q \in Procs : proc'[q].st = proc[q].st /\ (A!Alive(q)' <=> A!Alive(q))
    BY <1>1, <1>2 DEF A!Alive
  <2>3. AgentTypes'
    BY <1>1, <1>2, <2>1 DEF AgentInv, AgentTypes
  <2>4. HeldIsThere'
    BY <1>1, <1>2, <2>1 DEF AgentInv, HeldIsThere, A!NotHeld
  <2>5. Fits(a)'
    BY <1>1, <1>4, <2>1, <2>2 DEF Fits, FitTogether
  <2>6. ASSUME NEW b \in Agents \ {a} PROVE Fits(b)'
    BY <1>1, <2>1, <2>2 DEF AgentInv, AgentTypes, Fits, FitTogether
  <2> QED BY <2>3, <2>4, <2>5, <2>6 DEF AgentInv
<1> QED BY <1>0, <1>3, <1>4 DEF A!ScanWrite, A!PidAlive

(* The threads of a process go with it; files it was writing may be torn:  *)
(* those of its own agents, and of agents whose process is gone already.   *)
LEMMA DiesIInv ==
  ASSUME AgentInv, NEW p \in Procs, A!Dies(p)
  PROVE  AgentInv'
<1>1. /\ proc \in [Procs -> AgentProcess] /\ manifest \in [Agents -> AgentFile]
      /\ job \in [Agents -> AgentJob]
      /\ thread \in [Agents -> AgentThreads] /\ A!Alive(p)
  BY DEF AgentInv, AgentTypes, A!Dies
<1>2. PICK torn \in SUBSET Agents :
        /\ \A a \in torn : /\ manifest[a].status # "none"
                           /\ manifest[a].owner = p \/ ~A!Alive(manifest[a].owner)
        /\ manifest' = [a \in Agents |-> IF a \in torn THEN [manifest[a] EXCEPT !.status = "torn"]
                                         ELSE manifest[a]]
  <2> DEFINE writing == {a \in A!Owned(p) : job[a].at = "final"}
                        \cup {a \in Agents \ {A!Nobody} :
                                  a = proc[p].held.id /\ ~A!PidAlive(manifest[a].owner)}
  <2>1. \A a \in writing : a \in Agents
    BY DEF A!Owned
  <2>2. \A a \in writing : manifest[a].owner = p \/ ~A!Alive(manifest[a].owner)
    BY DEF A!Owned, A!PidAlive
  <2>3. \A a \in writing : manifest[a].status # "none"
    <3>1. ASSUME NEW a \in Agents, job[a].at = "final" PROVE manifest[a].status # "none"
      BY <3>1 DEF AgentInv, Fits, FitTogether
    <3>2. ASSUME NEW a \in Agents, a = proc[p].held.id, a # A!Nobody PROVE manifest[a].status # "none"
      BY <3>2 DEF AgentInv, HeldIsThere
    <3> QED BY <3>1, <3>2 DEF A!Owned
  <2>4. \E torn \in SUBSET writing :
          manifest' = [a \in Agents |-> IF a \in torn THEN [manifest[a] EXCEPT !.status = "torn"]
                                           ELSE manifest[a]]
    BY DEF A!Dies
  <2> QED BY <2>1, <2>2, <2>3, <2>4
<1>3. /\ proc' \in [Procs -> AgentProcess] /\ ~A!Alive(p)' /\ proc'[p].st # "off"
      /\ proc'[p].held.id = A!Nobody
      /\ \A q \in Procs \ {p} : proc'[q] = proc[q]
  <2>1. proc' = [proc EXCEPT ![p] = [A!Off EXCEPT !.st = "dead"]]
    BY DEF A!Dies
  <2>2. /\ [A!Off EXCEPT !.st = "dead"] \in AgentProcess /\ [A!Off EXCEPT !.st = "dead"].st = "dead"
        /\ [A!Off EXCEPT !.st = "dead"].held.id = A!Nobody
    BY DEF A!Off, A!NotHeld, AgentProcess
  <2> QED BY <1>1, <2>1, <2>2 DEF A!Alive
<1>4. ASSUME NEW a \in Agents
      PROVE  /\ manifest'[a] \in AgentFile /\ manifest'[a].owner = manifest[a].owner
             /\ manifest'[a].status = IF a \in torn THEN "torn" ELSE manifest[a].status
  <2>1. CASE a \in torn
    <3> DEFINE m == [manifest[a] EXCEPT !.status = "torn"]
    <3>1. m \in AgentFile /\ m.status = "torn" /\ m.owner = manifest[a].owner
      BY <1>1, MarkedFile
    <3>2. manifest'[a] = m
      BY <1>2, <2>1
    <3> QED BY <2>1, <3>1, <3>2
  <2>2. CASE a \notin torn
    BY <1>1, <1>2, <2>2
  <2> QED BY <2>1, <2>2
<1>5. ASSUME NEW a \in Agents
      PROVE  /\ job'[a] = IF a \in A!Owned(p) THEN [job[a] EXCEPT !.at = "none"] ELSE job[a]
             /\ thread'[a] = IF a \in A!Owned(p) THEN "none" ELSE thread[a]
  BY DEF A!Dies
<1>5a. ASSUME NEW a \in Agents
       PROVE  LET j == [job[a] EXCEPT !.at = "none"] IN j \in AgentJob /\ j.at = "none"
  BY <1>1, MovedJob
<1>6. AgentTypes'
  <2>1. manifest' \in [Agents -> AgentFile]
    BY <1>2, <1>4
  <2>2. job' \in [Agents -> AgentJob]
    <3>1. \A a \in Agents : job'[a] \in AgentJob
      BY <1>1, <1>5, <1>5a
    <3> QED BY <3>1 DEF A!Dies
  <2>3. thread' \in [Agents -> AgentThreads]
    <3>1. \A a \in Agents : thread'[a] \in AgentThreads
      BY <1>1, <1>5 DEF AgentThreads
    <3> QED BY <3>1 DEF A!Dies
  <2> QED BY <1>3, <2>1, <2>2, <2>3 DEF AgentTypes
<1>7. HeldIsThere'
  <2> SUFFICES ASSUME NEW q \in Procs, proc'[q].held.id # A!Nobody
               PROVE  manifest'[proc'[q].held.id].status # "none"
    BY DEF HeldIsThere
  <2>1. q # p /\ proc'[q] = proc[q] /\ proc[q].held.id \in Agents
    BY <1>1, <1>3 DEF AgentProcess
  <2>2. manifest[proc[q].held.id].status # "none"
    BY <2>1 DEF AgentInv, HeldIsThere
  <2> QED BY <1>4, <2>1, <2>2
<1>8. ASSUME NEW a \in Agents PROVE Fits(a)'
  <2>1. Fits(a) /\ job[a] \in AgentJob
    BY <1>1 DEF AgentInv
  <2>2. PICK o : o = manifest[a].owner /\ o = manifest'[a].owner
    BY <1>4
  <2>3. \A q \in Procs : /\ proc[q].st # "off" => proc'[q].st # "off"
                         /\ q # p => (A!Alive(q)' <=> A!Alive(q))
    BY <1>3 DEF A!Alive
  <2>4. CASE manifest[a].status = "none"
    <3>1. a \notin A!Owned(p) /\ manifest'[a].status = "none"
      BY <1>2, <1>4, <2>1, <2>4 DEF Fits, FitTogether, A!Owned
    <3> QED BY <1>5, <2>1, <2>4, <3>1 DEF Fits, FitTogether
  <2>5. CASE manifest[a].status # "none" /\ a \in A!Owned(p)
    <3>1. o = p /\ job'[a].at = "none" /\ thread'[a] = "none" /\ manifest'[a].status # "none"
      BY <1>4, <1>5, <1>5a, <2>1, <2>2, <2>5 DEF A!Owned
    <3> QED BY <1>3, <2>2, <3>1 DEF Fits, FitTogether
  <2>6. CASE manifest[a].status # "none" /\ a \notin A!Owned(p)
    <3>1. /\ job'[a] = job[a] /\ thread'[a] = thread[a] /\ manifest'[a].status # "none"
          /\ o \in Procs /\ proc[o].st # "off"
      BY <1>4, <1>5, <2>1, <2>2, <2>6 DEF Fits, FitTogether
    <3>2. o = p => job[a].at = "none"
      BY <2>2, <2>6 DEF A!Owned
    <3>3. a \in torn /\ o # p => job[a].at \in {"none", "done"}
      BY <1>1, <1>2, <2>1, <2>2 DEF Fits, FitTogether, AgentJob
    <3> QED BY <1>3, <1>4, <2>1, <2>2, <2>3, <3>1, <3>2, <3>3 DEF Fits, FitTogether
  <2> QED BY <2>4, <2>5, <2>6
<1> QED BY <1>6, <1>7, <1>8 DEF AgentInv

-----------------------------------------------------------------------------
LEMMA AgentNext == AgentInv /\ [A!Next]_A!vars => AgentInv'
<1> SUFFICES ASSUME AgentInv, [A!Next]_A!vars PROVE AgentInv'
  OBVIOUS
<1>1. ASSUME NEW p \in Procs, NEW a \in Agents, A!Launch(p, a) \/ A!ScanRead(p, a) PROVE AgentInv'
  BY <1>1, LaunchIInv, ScanReadIInv
<1>2. ASSUME NEW a \in Agents, A!Supervise(a) \/ A!WorkerEnds(a) PROVE AgentInv'
  BY <1>2, AcquireIInv, HearIInv, FinalizeIInv, NotifyIInv, WorkerEndsIInv DEF A!Supervise
<1>3. ASSUME NEW p \in Procs,
             A!Start(p) \/ A!ScanWrite(p) \/ A!ScanEnds(p) \/ A!Dies(p) \/ A!PidReused(p)
      PROVE  AgentInv'
  BY <1>3, StartAgentInv, ScanWriteIInv, EndAgentInv, DiesIInv
<1>4. ASSUME NEW p \in Procs, A!Drain(p) PROVE AgentInv'
  BY <1>4 DEF A!Drain, AgentInv, AgentTypes, HeldIsThere, Fits, FitTogether, A!Alive
<1>5. CASE UNCHANGED A!vars
  BY <1>5 DEF A!vars, AgentInv, AgentTypes, HeldIsThere, Fits, FitTogether, A!Alive
<1> QED BY <1>1, <1>2, <1>3, <1>4, <1>5 DEF A!Next

(* Of an agent said to have completed or failed no thread is at work, and  *)
(* none said to be interrupted has a live process (tools/src/lib.rs,       *)
(* persist_agent_terminal_state and reconcile_orphaned_agents).            *)
THEOREM ManifestsAreTrue == A!Spec => []A!StatusIsTrue
<1>1. AgentInv => A!StatusIsTrue
  BY DEF AgentInv, Fits, FitTogether, A!StatusIsTrue
<1> QED BY AgentInit, AgentNext, <1>1, PTL DEF A!Spec

-----------------------------------------------------------------------------
(***************************************************************************)
(* Hooks: a run keeps the promise of HookRun, and leaves neither a process *)
(* nor a thread behind, for any number of commands and sizes of pipes.     *)
(***************************************************************************)

Given(values) == {i \in DOMAIN values : values[i] # "none"}

(* LastGiven chooses a last one: there is one, if anything was given.      *)
HasLast(values) == Given(values) # {} => \E i \in Given(values) : \A j \in Given(values) : j <= i

Overrides(seq) == [i \in DOMAIN seq |-> seq[i].override]
Updates(seq) == [i \in DOMAIN seq |-> seq[i].updated]

(* What run_commands has merged is the verdict so far, and nobody has      *)
(* objected.                                                               *)
MergedSoFar ==
    result = [denied |-> FALSE, failed |-> FALSE, cancelled |-> FALSE,
              override |-> H!LastGiven(Overrides(outcomes)),
                 updated |-> H!LastGiven(Updates(outcomes))]

RunInv ==
    /\ outcomes \in Seq(H!Outcomes)
    /\ HasLast(Overrides(outcomes)) /\ HasLast(Updates(outcomes))
    /\ stage = "start" => outcomes = << >>
    /\ stage \in {"next", "poll", "collect", "join"} => MergedSoFar /\ Len(outcomes) < Commands
    /\ stage # "done" => verdict = H!NoVerdict
    /\ stage \in {"collect", "join"} => how \in {"cancelled", "timed_out", "finished"}
    /\ exit = H!NoExit \/ exit.answer \in Answers
    /\ stage \in {"collect", "join"} /\ how = "finished" => exit # H!NoExit
    /\ stage = "poll" /\ shell = "exited" => exit # H!NoExit
    /\ stage = "poll" => shell \in {"running", "exited"}

-----------------------------------------------------------------------------
(* What was given last *)

LEMMA LastOfEmpty == HasLast(<< >>) /\ H!LastGiven(<< >>) = "none"
BY DEF HasLast, Given, H!LastGiven

LEMMA LastOfAppend ==
  ASSUME NEW Vals, NEW values \in Seq(Vals), HasLast(values), NEW v
  PROVE  /\ HasLast(Append(values, v))
         /\ H!LastGiven(Append(values, v)) = IF v = "none" THEN H!LastGiven(values) ELSE v
<1> DEFINE n == Len(values)
           longer == Append(values, v)
<1>1. /\ n \in Nat /\ DOMAIN values = 1..n /\ DOMAIN longer = 1..(n + 1)
      /\ longer[n + 1] = v /\ \A i \in 1..n : longer[i] = values[i]
  OBVIOUS
<1> HIDE DEF n, longer
<1>2. CASE v = "none"
  <2>1. Given(longer) = Given(values)
    BY <1>1, <1>2 DEF Given
  <2>2. HasLast(longer)
    BY <2>1 DEF HasLast
  <2>3. H!LastGiven(longer) = H!LastGiven(values)
    <3>1. CASE Given(values) = {}
      BY <2>1, <3>1 DEF H!LastGiven, Given
    <3>2. CASE Given(values) # {}
      <4> DEFINE c == CHOOSE i \in Given(values) : \A j \in Given(values) : j <= i
      <4>1. c \in Given(values)
        BY <3>2 DEF HasLast
      <4>2. c \in 1..n
        BY <1>1, <4>1 DEF Given
      <4>3. H!LastGiven(values) = values[c]
        BY <3>2 DEF H!LastGiven, Given
      <4>4. H!LastGiven(longer) = longer[c]
        BY <2>1, <3>2 DEF H!LastGiven, Given
      <4> HIDE DEF c
      <4> QED BY <1>1, <4>2, <4>3, <4>4
    <3> QED BY <3>1, <3>2
  <2> QED BY <1>2, <2>2, <2>3 DEF longer
<1>3. CASE v # "none"
  <2>1. n + 1 \in Given(longer) /\ \A j \in Given(longer) : j <= n + 1 /\ j \in Nat
    BY <1>1, <1>3 DEF Given
  <2>2. HasLast(longer)
    BY <2>1 DEF HasLast
  <2> DEFINE c == CHOOSE i \in Given(longer) : \A j \in Given(longer) : j <= i
  <2>3. c = n + 1
    <3>1. c \in Given(longer) /\ \A j \in Given(longer) : j <= c
      BY <2>1
    <3> HIDE DEF c
    <3> QED BY <1>1, <2>1, <3>1
  <2>4. H!LastGiven(longer) = longer[c]
    BY <2>1 DEF H!LastGiven, Given
  <2> HIDE DEF c
  <2> QED BY <1>1, <1>3, <2>2, <2>3, <2>4 DEF longer
<1> QED BY <1>2, <1>3

LEMMA LastOfOutcomes ==
  ASSUME NEW seq \in Seq(H!Outcomes), HasLast(Overrides(seq)), HasLast(Updates(seq)),
         NEW o \in H!Outcomes
  PROVE  /\ HasLast(Overrides(Append(seq, o))) /\ HasLast(Updates(Append(seq, o)))
         /\ H!LastGiven(Overrides(Append(seq, o))) =
              IF o.override = "none" THEN H!LastGiven(Overrides(seq)) ELSE o.override
         /\ H!LastGiven(Updates(Append(seq, o))) =
              IF o.updated = "none" THEN H!LastGiven(Updates(seq)) ELSE o.updated
<1>1. /\ Overrides(Append(seq, o)) = Append(Overrides(seq), o.override)
      /\ Updates(Append(seq, o)) = Append(Updates(seq), o.updated)
  BY DEF Overrides, Updates
<1> DEFINE Old == {seq[i].override : i \in DOMAIN seq}
           New == {seq[i].updated : i \in DOMAIN seq}
<1>2. Overrides(seq) \in Seq(Old) /\ Updates(seq) \in Seq(New)
  BY DEF Overrides, Updates
<1> HIDE DEF Old, New
<1> QED BY <1>1, <1>2, LastOfAppend

-----------------------------------------------------------------------------
(* Settling an outcome *)

(* The outcome of a command that has ended is one of those of HookRun.     *)
LEMMA EndedIsOutcome ==
  ASSUME RunInv, stage = "join"
  PROVE  H!Ended \in H!Outcomes
<1>1. CASE how = "finished"
  <2> DEFINE kind == IF exit.code = "0" THEN (IF exit.answer.deny THEN "deny" ELSE "allow")
                     ELSE IF exit.code = "2" THEN "deny" ELSE "failed"
  <2>1. H!Ended = H!Outcome(kind, exit.answer) /\ exit.answer \in Answers
    BY <1>1 DEF H!Ended, RunInv
  <2>2. kind \in {"allow", "deny", "failed"}
    OBVIOUS
  <2> HIDE DEF kind
  <2> QED BY <2>1, <2>2 DEF H!Outcomes
<1>2. CASE how \in {"cancelled", "timed_out"}
  <2>1. H!Ended \in {H!Outcome("cancelled", H!Silent), H!Outcome("timed_out", H!Silent)}
    BY <1>2 DEF H!Ended
  <2> QED BY <2>1 DEF H!Outcomes
<1> QED BY <1>1, <1>2 DEF RunInv

LEMMA OutcomeKinds ==
  ASSUME NEW o \in H!Outcomes
  PROVE  /\ o.kind \in {"allow", "deny", "failed", "cancelled", "timed_out"}
         /\ o = [kind |-> o.kind, override |-> o.override, updated |-> o.updated]
BY DEF H!Outcomes, H!Outcome

(* The two updates of a HookRunResult, field by field.                     *)
LEMMA MergedFields ==
  ASSUME NEW d, NEW f, NEW c, NEW ov, NEW up, NEW o, NEW r,
         r = [denied |-> d, failed |-> f, cancelled |-> c, override |-> ov, updated |-> up]
  PROVE  H!Merged(r, o) =
           [denied |-> d, failed |-> f, cancelled |-> c,
            override |-> IF o.override = "none" THEN ov ELSE o.override,
            updated |-> IF o.updated = "none" THEN up ELSE o.updated]
<1> DEFINE x == IF o.override = "none" THEN ov ELSE o.override
           y == IF o.updated = "none" THEN up ELSE o.updated
<1>1. r.override = ov /\ r.updated = up
  OBVIOUS
<1>2. H!Merged(r, o) = [r EXCEPT !.override = x, !.updated = y]
  BY <1>1 DEF H!Merged
<1> HIDE DEF x, y
<1> DEFINE q == [r EXCEPT !.override = x, !.updated = y]
<1>3. q = [r EXCEPT !.override = x, !.updated = y]
  OBVIOUS
<1> HIDE DEF q
<1>4. q = [denied |-> d, failed |-> f, cancelled |-> c, override |-> x, updated |-> y]
  BY <1>3
<1> QED BY <1>2, <1>3, <1>4 DEF x, y

LEMMA FlaggedFields ==
  ASSUME NEW d, NEW f, NEW c, NEW ov, NEW up, NEW o, NEW r,
         r = [denied |-> d, failed |-> f, cancelled |-> c, override |-> ov, updated |-> up]
  PROVE  H!Flagged(r, o) =
           [denied |-> o.kind = "deny", failed |-> o.kind \in {"failed", "timed_out"},
            cancelled |-> o.kind = "cancelled", override |-> ov, updated |-> up]
<1> DEFINE x == o.kind = "deny"
           y == o.kind \in {"failed", "timed_out"}
           z == o.kind = "cancelled"
<1>1. H!Flagged(r, o) = [r EXCEPT !.denied = x, !.failed = y, !.cancelled = z]
  BY DEF H!Flagged
<1> HIDE DEF x, y, z
<1> DEFINE q == [r EXCEPT !.denied = x, !.failed = y, !.cancelled = z]
<1>2. q = [r EXCEPT !.denied = x, !.failed = y, !.cancelled = z]
  OBVIOUS
<1> HIDE DEF q
<1>3. q = [denied |-> x, failed |-> y, cancelled |-> z, override |-> ov, updated |-> up]
  BY <1>2
<1> QED BY <1>1, <1>2, <1>3 DEF x, y, z

(* The merged result with the flags of the last outcome is the verdict.    *)
LEMMA VerdictIsMerged ==
  ASSUME RunInv, MergedSoFar, NEW o \in H!Outcomes
  PROVE  /\ H!Stops(o) <=> H!Objects(o)
         /\ H!Merged(result, o) =
              [denied |-> FALSE, failed |-> FALSE, cancelled |-> FALSE,
               override |-> H!LastGiven(Overrides(Append(outcomes, o))),
               updated |-> H!LastGiven(Updates(Append(outcomes, o)))]
         /\ H!Stops(o) => H!Returned(H!Flagged(H!Merged(result, o), o)) = H!Verdict(Append(outcomes, o))
         /\ ~H!Stops(o) => H!Returned(H!Merged(result, o)) = H!Verdict(Append(outcomes, o))
<1> DEFINE seq == Append(outcomes, o)
           ov == H!LastGiven(Overrides(seq))
           up == H!LastGiven(Updates(seq))
           m == H!Merged(result, o)
<1>1. m = [denied |-> FALSE, failed |-> FALSE, cancelled |-> FALSE, override |-> ov, updated |-> up]
  <2> DEFINE ov0 == H!LastGiven(Overrides(outcomes))
             up0 == H!LastGiven(Updates(outcomes))
             no == FALSE
  <2>1. /\ ov = IF o.override = "none" THEN ov0 ELSE o.override
        /\ up = IF o.updated = "none" THEN up0 ELSE o.updated
    BY LastOfOutcomes DEF RunInv
  <2>2. result = [denied |-> no, failed |-> no, cancelled |-> no, override |-> ov0, updated |-> up0]
    BY DEF MergedSoFar
  <2> HIDE DEF ov, up, ov0, up0, no
  <2>3. m = [denied |-> no, failed |-> no, cancelled |-> no,
             override |-> IF o.override = "none" THEN ov0 ELSE o.override,
             updated |-> IF o.updated = "none" THEN up0 ELSE o.updated]
    BY <2>2, MergedFields
  <2> HIDE DEF m
  <2>4. m = [denied |-> no, failed |-> no, cancelled |-> no, override |-> ov, updated |-> up]
    BY <2>1, <2>3
  <2> QED BY <2>4 DEF no
<1>2. seq # << >> /\ seq[Len(seq)] = o
  BY DEF RunInv
<1>3. H!Verdict(seq) = [kind |-> "verdict", denied |-> o.kind = "deny", failed |-> o.kind \in H!FailureKinds,
                      cancelled |-> o.kind = "cancelled", override |-> ov, updated |-> up]
  BY <1>2 DEF H!Verdict, Overrides, Updates
<1> HIDE DEF seq, ov, up, m
<1>4. H!Stops(o) <=> H!Objects(o)
  BY OutcomeKinds DEF H!Stops, H!Objects, H!FailureKinds
<1>5. ASSUME H!Stops(o) PROVE H!Returned(H!Flagged(m, o)) = H!Verdict(seq)
  <2>1. (o.kind \in {"failed", "timed_out"}) = (o.kind \in H!FailureKinds)
    BY <1>5, OutcomeKinds DEF H!Stops, H!FailureKinds
  <2>2. H!Flagged(m, o) = [denied |-> o.kind = "deny", failed |-> o.kind \in {"failed", "timed_out"},
                         cancelled |-> o.kind = "cancelled", override |-> ov, updated |-> up]
    BY <1>1, FlaggedFields
  <2> QED BY <1>3, <2>1, <2>2 DEF H!Returned
<1>6. ASSUME ~H!Stops(o) PROVE H!Returned(m) = H!Verdict(seq)
  <2>1. /\ (o.kind = "deny") = FALSE /\ (o.kind \in H!FailureKinds) = FALSE
        /\ (o.kind = "cancelled") = FALSE
    BY <1>6, OutcomeKinds DEF H!Stops, H!FailureKinds
  <2> QED BY <1>1, <1>3, <2>1 DEF H!Returned
<1> QED BY <1>1, <1>4, <1>5, <1>6 DEF seq, ov, up, m

(* A step that settles an outcome is one of HookRun and leads on.          *)
LEMMA SettledStep ==
  ASSUME Commands \in Nat, RunInv, stage \in {"next", "join"}, NEW o \in H!Outcomes, H!Settled(o),
         UNCHANGED <<event, exit>>
  PROVE  H!Answer(o) /\ RunInv'
<1>1. MergedSoFar /\ Len(outcomes) < Commands /\ verdict = H!NoVerdict /\ outcomes \in Seq(H!Outcomes)
  BY DEF RunInv
<1>2. /\ outcomes' = Append(outcomes, o) /\ outcomes' \in Seq(H!Outcomes)
      /\ Len(outcomes') = Len(outcomes) + 1
  BY <1>1 DEF H!Settled
<1>3. /\ H!Stops(o) \/ Len(outcomes') = Commands => stage' = "done" /\ verdict' = H!Verdict(outcomes')
      /\ ~H!Stops(o) /\ Len(outcomes') # Commands =>
           stage' = "next" /\ verdict' = verdict /\ result' = H!Merged(result, o)
  BY <1>1, <1>2, VerdictIsMerged DEF H!Settled, H!Return
<1>4. H!Answer(o)
  BY <1>1, <1>2, <1>3, VerdictIsMerged DEF H!Answer
<1>5. RunInv'
  <2>1. HasLast(Overrides(outcomes'))
    BY <1>1, <1>2, LastOfOutcomes DEF RunInv
  <2>2. HasLast(Updates(outcomes'))
    BY <1>1, <1>2, LastOfOutcomes DEF RunInv
  <2>3. stage' \in {"next", "done"} /\ (stage' = "next" => MergedSoFar' /\ Len(outcomes') < Commands)
    <3>1. stage' = "next" => result' = H!Merged(result, o) /\ Len(outcomes') # Commands
      BY <1>3
    <3>2. stage' = "next" => MergedSoFar'
      BY <1>1, <1>2, <3>1, VerdictIsMerged DEF MergedSoFar
    <3>3. stage' = "next" => Len(outcomes') < Commands
      BY <1>1, <1>2, <3>1
    <3> QED BY <1>3, <3>2, <3>3
  <2>4. stage' # "done" => verdict' = H!NoVerdict
    BY <1>1, <1>3
  <2>5. exit' = H!NoExit \/ exit'.answer \in Answers
    BY DEF RunInv
  <2> QED BY <1>2, <2>1, <2>2, <2>3, <2>4, <2>5 DEF RunInv
<1> QED BY <1>4, <1>5

-----------------------------------------------------------------------------
(* The refinement *)

(* What the processes, pipes and clocks do is nothing to the caller.       *)
LEMMA OutsideStep ==
  ASSUME RunInv,
         \/ H!Spawn \/ H!Poll \/ H!Drain \/ H!Collect \/ H!Feed \/ H!BrokenPipe \/ H!Emit \/ H!Read
         \/ H!LeaveHelper \/ H!HelperEnds \/ H!Expire \/ H!Abort \/ UNCHANGED H!vars
         \/ \E code \in {"0", "1", "2", "signal"}, answer \in Answers : H!Exit(code, answer)
  PROVE  UNCHANGED <<event, outcomes, verdict>> /\ RunInv'
<1>1. UNCHANGED <<event, outcomes, verdict, result>>
  BY DEF H!Spawn, H!Poll, H!Drain, H!Collect, H!Feed, H!BrokenPipe, H!Emit, H!Read,
     H!LeaveHelper, H!HelperEnds,
         H!Expire, H!Abort, H!Exit, H!turn, H!vars
<1>2. /\ stage = "start" <=> stage' = "start"
      /\ stage = "done" <=> stage' = "done"
      /\ stage \in {"next", "poll", "collect", "join"} <=> stage' \in {"next", "poll", "collect", "join"}
  BY DEF H!Spawn, H!Poll, H!Drain, H!Collect, H!Feed, H!BrokenPipe, H!Emit, H!Read,
     H!LeaveHelper, H!HelperEnds,
         H!Expire, H!Abort, H!Exit, H!turn, H!vars
<1>3. /\ exit' = H!NoExit \/ exit'.answer \in Answers
      /\ stage' \in {"collect", "join"} => how' \in {"cancelled", "timed_out", "finished"}
      /\ stage' \in {"collect", "join"} /\ how' = "finished" => exit' # H!NoExit
      /\ stage' = "poll" /\ shell' = "exited" => exit' # H!NoExit
      /\ stage' = "poll" => shell' \in {"running", "exited"}
  <2>1. CASE \E code \in {"0", "1", "2", "signal"}, answer \in Answers : H!Exit(code, answer)
    <3>1. PICK code \in {"0", "1", "2", "signal"}, answer \in Answers : H!Exit(code, answer)
      BY <2>1
    <3>2. exit' = [code |-> code, answer |-> answer] /\ exit' # H!NoExit /\ exit'.answer \in Answers
      BY <3>1 DEF H!Exit, H!NoExit
    <3> QED BY <3>1, <3>2 DEF H!Exit, H!turn, RunInv
  <2>2. CASE H!Spawn
    BY <2>2 DEF H!Spawn
  <2>3. CASE H!Poll
    BY <2>3 DEF H!Poll, RunInv
  <2>4. CASE H!Collect
    BY <2>4 DEF H!Collect, H!process, RunInv
  <2>5. CASE H!Drain \/ H!Feed \/ H!BrokenPipe \/ H!Emit \/ H!Read \/ H!LeaveHelper \/ H!HelperEnds
             \/ H!Expire \/ H!Abort \/ UNCHANGED H!vars
    <3>1. UNCHANGED <<stage, how, shell, exit>>
      BY <2>5 DEF H!Drain, H!Feed, H!BrokenPipe, H!Emit, H!Read, H!LeaveHelper, H!HelperEnds,
         H!Expire, H!Abort,
                  H!turn, H!process, H!vars
    <3> QED BY <3>1 DEF RunInv
  <2> QED BY <2>1, <2>2, <2>3, <2>4, <2>5
<1> QED BY <1>1, <1>2, <1>3 DEF RunInv, MergedSoFar

LEMMA BeginStep ==
  ASSUME Commands \in Nat, RunInv, H!Begin
  PROVE  (H!EndAtOnce \/ UNCHANGED <<event, outcomes, verdict>>) /\ RunInv'
<1>1. /\ stage = "start" /\ outcomes = << >> /\ verdict = H!NoVerdict /\ result' = H!Fresh
      /\ UNCHANGED <<event, outcomes, exit>>
  BY DEF H!Begin, RunInv, H!process
<1>2. Overrides(<< >>) = << >> /\ Updates(<< >>) = << >>
  BY DEF Overrides, Updates
<1>3. H!Returned(H!Fresh) = H!Verdict(<< >>)
  <2>1. /\ ("allow" = "deny") = FALSE /\ ("allow" \in H!FailureKinds) = FALSE
        /\ ("allow" = "cancelled") = FALSE
    BY DEF H!FailureKinds
  <2>2. H!Verdict(<< >>) = [kind |-> "verdict", denied |-> FALSE, failed |-> FALSE, cancelled |-> FALSE,
                          override |-> "none", updated |-> "none"]
    BY <1>2, <2>1, LastOfEmpty DEF H!Verdict, Overrides, Updates
  <2> QED BY <2>2 DEF H!Returned, H!Fresh
<1>4. H!Returned([H!Fresh EXCEPT !.cancelled = TRUE]) = H!CancelledVerdict
  <2> DEFINE o == H!Outcome("cancelled", H!Silent)
             seq == <<o>>
  <2>1. o.kind = "cancelled" /\ o.override = "none" /\ o.updated = "none"
    BY DEF H!Outcome, H!Silent
  <2>2. seq # << >> /\ seq[Len(seq)] = o
    OBVIOUS
  <2>3. Overrides(seq) = Append(<< >>, "none") /\ Updates(seq) = Append(<< >>, "none")
    BY <2>1 DEF Overrides, Updates
  <2>4. H!LastGiven(Overrides(seq)) = "none" /\ H!LastGiven(Updates(seq)) = "none"
    <3>1. << >> \in Seq({"none"})
      OBVIOUS
    <3> QED BY <2>3, <3>1, LastOfEmpty, LastOfAppend
  <2>5. /\ (o.kind = "deny") = FALSE /\ (o.kind \in H!FailureKinds) = FALSE
        /\ (o.kind = "cancelled") = TRUE
    BY <2>1 DEF H!FailureKinds
  <2> HIDE DEF o, seq
  <2>6. H!Verdict(seq) = [kind |-> "verdict", denied |-> FALSE, failed |-> FALSE, cancelled |-> TRUE,
                        override |-> "none", updated |-> "none"]
    BY <2>2, <2>4, <2>5 DEF H!Verdict, Overrides, Updates
  <2> DEFINE r == [H!Fresh EXCEPT !.cancelled = TRUE]
  <2>7. /\ r.denied = FALSE /\ r.failed = FALSE /\ r.cancelled = TRUE
        /\ r.override = "none" /\ r.updated = "none"
    BY DEF H!Fresh
  <2> HIDE DEF r
  <2>8. H!Returned(r) = H!Verdict(seq)
    BY <2>6, <2>7 DEF H!Returned
  <2> QED BY <2>8 DEF H!CancelledVerdict, o, seq, r
<1>5. MergedSoFar'
  <2>1. H!LastGiven(Overrides(outcomes')) = "none" /\ H!LastGiven(Updates(outcomes')) = "none"
    BY <1>1, <1>2, LastOfEmpty
  <2> QED BY <1>1, <2>1 DEF MergedSoFar, H!Fresh
<1>6. CASE Commands = 0
  BY <1>1, <1>3, <1>6 DEF H!Begin, H!Return, H!EndAtOnce, RunInv
<1>7. CASE Commands # 0 /\ aborted
  BY <1>1, <1>4, <1>7 DEF H!Begin, H!Return, H!EndAtOnce, RunInv
<1>8. CASE Commands # 0 /\ ~aborted
  BY <1>1, <1>5, <1>8 DEF H!Begin, RunInv
<1> QED BY <1>6, <1>7, <1>8

LEMMA InitRun ==
  ASSUME H!CommandInit
  PROVE  RunInv
BY LastOfEmpty DEF H!CommandInit, H!Init, RunInv, Overrides, Updates

LEMMA NextRun ==
  ASSUME Commands \in Nat, RunInv, [H!CommandNext]_H!vars
  PROVE  RunInv' /\ [H!Next]_<<event, outcomes, verdict>>
<1>1. CASE H!Begin
  BY <1>1, BeginStep DEF H!Next
<1>2. CASE H!Conclude
  BY <1>2, EndedIsOutcome, SettledStep DEF H!Conclude, H!Next, H!process
<1>3. CASE H!SpawnFails
  <2>1. H!Outcome("failed", H!Silent) \in H!Outcomes
    BY DEF H!Outcomes
  <2> QED BY <1>3, <2>1, SettledStep DEF H!SpawnFails, H!Next, H!process
<1> QED BY <1>1, <1>2, <1>3, OutsideStep DEF H!CommandNext, H!Runner, H!Writer

(* Whatever the commands do with their pipes, however they end and whoever *)
(* aborts them: what run_commands returns is the verdict on the outcomes   *)
(* of its commands in their order (hooks.rs, run_commands).                *)
THEOREM Refinement == ASSUME Commands \in Nat PROVE H!CommandSpec => H!Implements
<1>1. H!CommandInit => RunInv /\ H!Init
  BY InitRun DEF H!CommandInit
<1>2. RunInv /\ [H!CommandNext]_H!vars => RunInv' /\ [H!Next]_<<event, outcomes, verdict>>
  BY NextRun
<1> QED BY <1>1, <1>2, PTL DEF H!CommandSpec, H!Implements, H!Spec

-----------------------------------------------------------------------------
(* What a run leaves *)

(* Once the shell is collected nothing can appear behind it.               *)
CleanInv ==
    /\ stage \in {"start", "next", "done"} => shell # "running" /\ ~helper /\ left = 0
    /\ stage = "join" => shell # "running" /\ ~helper
    /\ stage = "collect" => shell # "running"

LEMMA NextClean ==
  ASSUME CleanInv, [H!CommandNext]_H!vars
  PROVE  CleanInv'
<1> USE DEF CleanInv
<1>1. CASE H!Begin
  BY <1>1 DEF H!Begin, H!Return, H!process, H!stdin
<1>2. CASE H!Spawn
  BY <1>2 DEF H!Spawn
<1>3. CASE H!SpawnFails \/ H!Conclude
  <2>1. stage' \in {"next", "done"} /\ UNCHANGED <<shell, helper, left>>
    BY <1>3 DEF H!SpawnFails, H!Conclude, H!Settled, H!Return, H!process, H!stdin
  <2> QED BY <1>3, <2>1 DEF H!SpawnFails, H!Conclude
<1>4. CASE H!Poll
  BY <1>4 DEF H!Poll
<1>5. CASE H!Collect
  BY <1>5 DEF H!Collect, H!process, H!stdin
<1>6. CASE H!Writer
  <2>1. stage \notin {"start", "next", "done"} /\ UNCHANGED <<H!turn, H!process>>
    BY <1>6 DEF H!Writer, H!Feed, H!BrokenPipe
  <2> QED BY <2>1 DEF H!turn, H!process
<1>7. CASE H!Emit \/ H!Read \/ H!LeaveHelper
  <2>1. stage \notin {"start", "next", "collect", "join", "done"} /\ UNCHANGED H!turn
    BY <1>7 DEF H!Emit, H!Read, H!LeaveHelper
  <2> QED BY <2>1 DEF H!turn
<1>8. CASE \E code \in {"0", "1", "2", "signal"}, answer \in Answers : H!Exit(code, answer)
  BY <1>8 DEF H!Exit, H!turn, H!stdin
<1>9. CASE H!Drain \/ H!HelperEnds \/ H!Expire \/ H!Abort \/ UNCHANGED H!vars
  BY <1>9 DEF H!Drain, H!HelperEnds, H!Expire, H!Abort, H!turn, H!process, H!stdin, H!vars
<1> QED BY <1>1, <1>2, <1>3, <1>4, <1>5, <1>6, <1>7, <1>8, <1>9 DEF H!CommandNext, H!Runner

(* Between two commands and after the run no shell runs, no helper holds a *)
(* pipe and no thread writes (hooks.rs, output_with_stdin).                *)
THEOREM LeavesNothing == H!CommandSpec => []H!NothingLeftBehind
<1>1. H!CommandInit => CleanInv
  BY DEF H!CommandInit, CleanInv
<1>2. CleanInv /\ [H!CommandNext]_H!vars => CleanInv'
  BY NextClean
<1>3. CleanInv => H!NothingLeftBehind
  BY DEF CleanInv, H!NothingLeftBehind
<1> QED BY <1>1, <1>2, <1>3, PTL DEF H!CommandSpec

-----------------------------------------------------------------------------
(***************************************************************************)
(* The parts side by side: what a part does is a step of its own module,   *)
(* and no step of another.                                                 *)
(***************************************************************************)

(* The registry in the whole: a worker's replay, error, boot flag, log and *)
(* count of losses agree with each other, and nothing of an earlier life   *)
(* comes back (worker_boot.rs).                                            *)
THEOREM WorkersSafety == ServicesSpec => []WorkersAreTrue
<1>1. ServicesInit => Init
  BY DEF ServicesInit
<1>2. [ServicesNext]_all => [Next]_vars
  BY DEF ServicesNext, InAgents, InTasks, InPlan, InProvider, InHooks, all, vars
<1>3. ServicesSpec => Spec
  BY <1>1, <1>2, PTL DEF ServicesSpec, Spec
<1>4. ReplayIsLostPrompt /\ NoPromptFromEarlierLife /\ OneMisdeliveryPerDispatch
      /\ PromptedMeansBooted /\ ErrorExplainsStatus /\ LogTellsStatus => WorkersAreTrue
  BY DEF WorkersAreTrue
<1> QED BY <1>3, <1>4, ReplaySafety, RestartSafety, MisdeliveryOnce, BootBeforePrompt, ErrorSafety,
           LogSafety, PTL

(* Plan mode in the whole: the prior mode is on disk (tools/src/lib.rs,    *)
(* execute_enter_plan_mode).                                               *)
THEOREM PriorModeSafety == ServicesSpec => []PriorModeIsKept
<1>1. ServicesInit => PlanInv
  BY PlanInit DEF ServicesInit
<1>2. PlanInv /\ [ServicesNext]_all => PlanInv'
  <2>1. [ServicesNext]_all => [P!Next]_P!vars
    BY DEF ServicesNext, InBoot, InAgents, InTasks, InProvider, InHooks, all, plan, P!vars
  <2> QED BY <2>1, PlanNext
<1>3. PlanInv => PriorModeIsKept
  BY DEF PlanInv, PriorModeIsKept
<1> QED BY <1>1, <1>2, <1>3, PTL DEF ServicesSpec

(* Hooks in the whole: the run of a hook's commands delivers a verdict     *)
(* that HookRun allows (plugins/src/hooks.rs, run_commands).               *)
THEOREM HooksImplement == ASSUME Commands \in Nat PROVE ServicesSpec => Implements
<1>1. ServicesInit => H!CommandInit
  BY DEF ServicesInit
<1>2. [ServicesNext]_all => [H!CommandNext]_H!vars
  BY DEF ServicesNext, InBoot, InAgents, InTasks, InPlan, InProvider, all, hooks, H!vars,
         H!turn, H!process, H!stdin
<1>3. ServicesSpec => H!CommandSpec
  BY <1>1, <1>2, PTL DEF ServicesSpec, H!CommandSpec
<1> QED BY <1>3, Refinement DEF Implements
=============================================================================
