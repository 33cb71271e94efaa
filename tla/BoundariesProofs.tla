-------------------------- MODULE BoundariesProofs --------------------------
(***************************************************************************)
(* Proofs about the parts that MCBoundaries composes: the policy for tool  *)
(* calls, for every set of tools, inputs and rules; consultations, for     *)
(* every set of texts; streams, for every number of frames; shells, for    *)
(* every size of pipe and output.                                          *)
(***************************************************************************)
EXTENDS MCBoundaries, Integers, SequenceTheorems, WellFoundedInduction, TLAPS

-----------------------------------------------------------------------------
(* The composition *)

(* What the composition does to the policy, a consultation, a stream or a  *)
(* shell is a step of theirs or none.                                      *)
LEMMA PartsStep ==
  ASSUME [BoundariesNext]_all
  PROVE  /\ [Next]_policy
         /\ [C!Next]_consult \/ part # "consult"
         /\ [F!Next]_frames
         /\ [S!Next]_shells
         /\ part' = part
BY DEF BoundariesNext, all, InPermissions, InConsult, InStream, InShell, consult, frames, shells

LEMMA PartsStart ==
  ASSUME BoundariesInit
  PROVE  Init /\ F!Init /\ S!Init /\ (part = "consult" => C!Init)
BY DEF BoundariesInit

(* A behaviour of the composition is one of the policy: what is shown of   *)
(* those below holds in the composition as well.                           *)
THEOREM PolicyComposition == BoundariesSpec => Spec
BY PartsStart, PartsStep, PTL DEF BoundariesSpec, Spec

-----------------------------------------------------------------------------
(* The policy *)

(* The policy stays well formed: what /permissions and the configuration   *)
(* do to it (permissions.rs 119-153).                                      *)
THEOREM TypeCorrect == Spec => []TypeOK
<1>1. Init => TypeOK
  BY DEF Init, TypeOK, Policies, Modes
<1>2. TypeOK /\ [Next]_policy => TypeOK'
  <2> SUFFICES ASSUME TypeOK, [Next]_policy PROVE TypeOK'
    OBVIOUS
  <2>1. ASSUME NEW mode \in Modes, SwitchMode(mode) PROVE TypeOK'
    BY <2>1 DEF TypeOK, SwitchMode, Policies
  <2>2. ASSUME NEW list \in {"allow", "deny", "ask"}, NEW rule \in Rules,
               AddRule(list, rule)
        PROVE  TypeOK'
    BY <2>2 DEF TypeOK, AddRule, Policies
  <2>3. CASE UNCHANGED policy
    BY <2>3 DEF TypeOK
  <2> QED BY <2>1, <2>2, <2>3 DEF Next
<1> QED BY <1>1, <1>2, PTL DEF Spec

-----------------------------------------------------------------------------
(* The decision, for any policy *)

(* A call under a deny rule is refused, whatever else holds                *)
(* (permissions.rs 182-189).                                               *)
LEMMA DenyIsFinal ==
  ASSUME NEW p, NEW tool, NEW input, NEW override, NEW reply,
         SomeMatches(p.deny, tool, input)
  PROVE  ~AllowedUnder(p, tool, input, override, reply)
BY DEF AllowedUnder, Authorize, Denied

(* A call is allowed without a question only if the policy grants it, no   *)
(* ask rule covers it and no hook asked; with a question, only if the      *)
(* answer was yes.                                                         *)
LEMMA AllowedMeans ==
  ASSUME NEW p, NEW tool, NEW input, NEW override, NEW reply,
         AllowedUnder(p, tool, input, override, reply)
  PROVE  /\ ~SomeMatches(p.deny, tool, input)
         /\ override # "deny"
         /\ \/ /\ override # "ask"
               /\ ~SomeMatches(p.ask, tool, input)
               /\ Granted(p, tool, input)
            \/ /\ Authorize(p, tool, input, override, reply).asked
               /\ reply = "allow"
BY DEF AllowedUnder, Authorize, Denied, Allowed, PromptOrDeny

(* The converse, for the calls a hook neither refuses nor questions.       *)
LEMMA GrantedIsAllowed ==
  ASSUME NEW p, NEW tool, NEW input, NEW override, NEW reply,
         ~SomeMatches(p.deny, tool, input),
         override \notin {"deny", "ask"},
         ~SomeMatches(p.ask, tool, input),
         Granted(p, tool, input)
  PROVE  AllowedUnder(p, tool, input, override, reply)
BY DEF AllowedUnder, Authorize, Allowed

(* A hook's "allow" changes no decision (permissions.rs 219-241).          *)
LEMMA HookAllowIsSilence ==
  ASSUME NEW p, NEW tool, NEW input, NEW reply
  PROVE  Authorize(p, tool, input, "allow", reply) = Authorize(p, tool, input, "none", reply)
BY DEF Authorize

-----------------------------------------------------------------------------
(* The safety properties *)

(* No deny rule is passed, and no ask rule without an agreement.           *)
THEOREM Unasked == Spec => []NothingPassesUnasked
<1>1. NothingPassesUnasked
  BY AllowedMeans DEF NothingPassesUnasked, AllowedUnder
<1> QED BY <1>1, PTL

(* Hooks only take permissions away.                                       *)
THEOREM HookSafety == Spec => []HooksOnlyRestrict
<1>1. HooksOnlyRestrict
  <2> SUFFICES ASSUME NEW tool \in Tools, NEW input \in Inputs, NEW reply \in Replies
               PROVE  /\ Authorize(policy, tool, input, "allow", reply)
                           = Authorize(policy, tool, input, "none", reply)
                      /\ ~Authorize(policy, tool, input, "deny", reply).allowed
                      /\ Authorize(policy, tool, input, "ask", reply).allowed
                           => reply = "allow"
    BY DEF HooksOnlyRestrict
  <2>1. ~Authorize(policy, tool, input, "deny", reply).allowed
    BY DEF Authorize, Denied
  <2>2. Authorize(policy, tool, input, "ask", reply).allowed => reply = "allow"
    BY DEF Authorize, Denied, PromptOrDeny
  <2> QED BY <2>1, <2>2, HookAllowIsSilence
<1> QED BY <1>1, PTL

LEMMA Answered ==
  ASSUME NEW reply
  PROVE  /\ PromptOrDeny(reply).allowed <=> reply = "allow"
         /\ PromptOrDeny(reply).asked <=> reply # "none"
         /\ ~Denied.allowed /\ Allowed.allowed /\ ~Allowed.asked
BY DEF PromptOrDeny, Denied, Allowed

(* An answer makes no difference to a call that needs no question, nor to  *)
(* whether it needs one; where nobody can answer, the question is a no.    *)
LEMMA AllowedUnasked ==
  ASSUME NEW p, NEW tool, NEW input, NEW override \in {"none", "allow"}, NEW reply \in Replies
  PROVE  LET first == Authorize(p, tool, input, override, reply)
         IN  AllowedUnder(p, tool, input, "none", "none") <=> first.allowed /\ ~first.asked
<1> DEFINE asks == SomeMatches(p.ask, tool, input)
           first == Authorize(p, tool, input, override, reply)
           alone == Authorize(p, tool, input, "none", "none")
<1>1. CASE SomeMatches(p.deny, tool, input)
  BY <1>1 DEF AllowedUnder, Authorize, Denied
<1>2. CASE ~SomeMatches(p.deny, tool, input) /\ (asks \/ ~Granted(p, tool, input))
  <2>1. first = PromptOrDeny(reply) \/ first = Denied
    BY <1>2 DEF Authorize
  <2>2. alone = PromptOrDeny("none") \/ alone = Denied
    BY <1>2 DEF Authorize
  <2> HIDE DEF first, alone
  <2>3. ~alone.allowed
    BY <2>2, Answered
  <2>4. ~(first.allowed /\ ~first.asked)
    BY <2>1, Answered
  <2> QED BY <2>3, <2>4 DEF AllowedUnder, first, alone
<1>3. CASE ~SomeMatches(p.deny, tool, input) /\ ~asks /\ Granted(p, tool, input)
  BY <1>3 DEF AllowedUnder, Authorize, Allowed
<1> QED BY <1>1, <1>2, <1>3

(* The enforcer takes the decisions of the first gate that need nobody's   *)
(* answer, and only those (permission_enforcer.rs 39-63).                  *)
THEOREM GateAgreement == Spec => []GatesAgree
<1>1. GatesAgree
  <2> SUFFICES ASSUME NEW tool \in Tools, NEW input \in Inputs,
                      NEW override \in Overrides, NEW reply \in Replies
               PROVE  LET first == Authorize(policy, tool, input, override, reply)
                          second == EnforcerAllows(policy, tool, input)
                      IN  /\ policy.mode # "prompt" /\ override \in {"none", "allow"} =>
                                (second <=> first.allowed /\ ~first.asked)
                          /\ first.allowed /\ ~second => first.asked /\ reply = "allow"
    BY DEF GatesAgree
  <2> DEFINE first == Authorize(policy, tool, input, override, reply)
             second == EnforcerAllows(policy, tool, input)
  <2>1. policy.mode # "prompt" => (second <=> AllowedUnder(policy, tool, input, "none", "none"))
    BY DEF EnforcerAllows, AllowedUnder
  <2>2. ASSUME policy.mode # "prompt", override \in {"none", "allow"}
        PROVE  second <=> first.allowed /\ ~first.asked
    BY <2>1, <2>2, AllowedUnasked
  <2>3. ASSUME first.allowed, ~second
        PROVE  first.asked /\ reply = "allow"
    <3>1. policy.mode # "prompt" /\ ~AllowedUnder(policy, tool, input, "none", "none")
      BY <2>1, <2>3 DEF EnforcerAllows
    <3>2. AllowedUnder(policy, tool, input, override, reply)
      BY <2>3 DEF AllowedUnder
    <3>3. \/ override # "ask" /\ ~SomeMatches(policy.ask, tool, input) /\ Granted(policy, tool, input)
          \/ first.asked /\ reply = "allow"
      BY <3>2, AllowedMeans
    <3>4. ~SomeMatches(policy.deny, tool, input)
      BY <3>2, AllowedMeans
    <3> QED BY <3>1, <3>3, <3>4, GrantedIsAllowed
  <2> QED BY <2>2, <2>3
<1> QED BY <1>1, PTL

-----------------------------------------------------------------------------
(* The steps of the configuration *)

LEMMA RankNat == ASSUME NEW m \in Modes PROVE Rank(m) \in Nat
BY DEF Modes, Rank

(* What the policy grants it still grants in a higher mode.                *)
LEMMA GrantedGrows ==
  ASSUME NEW p, NEW q, NEW tool \in Tools, NEW input,
         p.mode \in Modes, q.mode \in Modes,
         p.allow \subseteq q.allow,
         Rank(q.mode) >= Rank(p.mode),
         Granted(p, tool, input)
  PROVE  Granted(q, tool, input)
<1>1. CASE SomeMatches(p.allow, tool, input)
  BY <1>1 DEF Granted, SomeMatches
<1>2. CASE p.mode = "allow"
  BY <1>2 DEF Granted, Modes, Rank
<1>3. CASE Rank(p.mode) >= Rank(RequiredMode(tool))
  <2>1. RequiredMode(tool) \in Modes
    BY RequiredAssumption DEF RequiredMode, Modes
  <2> QED BY <1>3, <2>1, RankNat DEF Granted
<1> QED BY <1>1, <1>2, <1>3 DEF Granted

(* A question asked in a lower mode is asked, or not needed, in a higher.  *)
LEMMA EscalatesGrows ==
  ASSUME NEW p, NEW q, NEW tool \in Tools, NEW input,
         p.mode \in Modes, q.mode \in Modes,
         Rank(q.mode) >= Rank(p.mode),
         Escalates(p, tool)
  PROVE  Escalates(q, tool) \/ Granted(q, tool, input)
<1>1. RequiredMode(tool) \in Modes
  BY RequiredAssumption DEF RequiredMode, Modes
<1> QED BY <1>1 DEF Escalates, Granted, Modes, Rank

(* Raising the mode takes no permission away.                              *)
THEOREM ModeMonotone == Spec => ModeIsMonotone
<1>1. ASSUME TypeOK, TypeOK', Rank(policy'.mode) > Rank(policy.mode), SameRules,
             NEW tool \in Tools, NEW input \in Inputs,
             NEW override \in Overrides, NEW reply \in Replies,
             AllowedUnder(policy, tool, input, override, reply)
      PROVE  AllowedUnder(policy', tool, input, override, reply)
  <2>1. policy.mode \in Modes /\ policy'.mode \in Modes
    BY <1>1 DEF TypeOK, Policies
  <2>2. Rank(policy'.mode) >= Rank(policy.mode)
    BY <1>1, <2>1, RankNat
  <2>3. Granted(policy, tool, input) => Granted(policy', tool, input)
    BY <1>1, <2>1, <2>2, GrantedGrows DEF SameRules
  <2>4. Escalates(policy, tool) => Escalates(policy', tool) \/ Granted(policy', tool, input)
    BY <2>1, <2>2, EscalatesGrows
  <2>5. /\ SomeMatches(policy'.deny, tool, input) = SomeMatches(policy.deny, tool, input)
        /\ SomeMatches(policy'.ask, tool, input) = SomeMatches(policy.ask, tool, input)
    BY <1>1 DEF SameRules
  <2> QED BY <1>1, <2>3, <2>4, <2>5
          DEF AllowedUnder, Authorize, Denied, Allowed, PromptOrDeny
<1>2. TypeOK /\ TypeOK' => [HigherModeGrants]_policy
  BY <1>1 DEF HigherModeGrants
<1> QED BY <1>2, TypeCorrect, PTL DEF ModeIsMonotone

(* A call under a deny rule stays refused over any change of the mode and  *)
(* any rule that is added.                                                 *)
THEOREM DenyLasts == Spec => DenyOutlivesMode
<1>1. ASSUME TypeOK, Next, NEW tool \in Tools, NEW input \in Inputs,
             SomeMatches(policy.deny, tool, input),
             NEW override \in Overrides, NEW reply \in Replies
      PROVE  ~AllowedUnder(policy', tool, input, override, reply)
  <2>1. policy.deny \subseteq policy'.deny
    BY <1>1 DEF TypeOK, Policies, Next, SwitchMode, AddRule
  <2>2. SomeMatches(policy'.deny, tool, input)
    BY <1>1, <2>1 DEF SomeMatches
  <2> QED BY <2>2, DenyIsFinal
<1>2. TypeOK /\ [Next]_policy => [RefusedStays]_policy
  BY <1>1 DEF RefusedStays
<1> QED BY <1>2, TypeCorrect, PTL DEF Spec, DenyOutlivesMode

(* One more deny or ask rule lets nothing more through unasked, and one    *)
(* more allow rule refuses nothing.                                        *)
THEOREM RulesMonotone == Spec => RulesAreMonotone
<1>1. ASSUME TypeOK, Next, policy'.mode = policy.mode,
             NEW tool \in Tools, NEW input \in Inputs,
             NEW override \in Overrides, NEW reply \in Replies
      PROVE  LET before == AllowedUnder(policy, tool, input, override, reply)
                 after == AllowedUnder(policy', tool, input, override, reply)
             IN  /\ (policy'.allow = policy.allow /\ reply # "allow") => (after => before)
                 /\ (policy'.deny = policy.deny /\ policy'.ask = policy.ask)
                       => (before => after)
  <2>1. /\ policy.allow \subseteq policy'.allow
        /\ policy.deny \subseteq policy'.deny
        /\ policy.ask \subseteq policy'.ask
    BY <1>1 DEF TypeOK, Policies, Next, SwitchMode, AddRule
  <2>2. /\ SomeMatches(policy.deny, tool, input) => SomeMatches(policy'.deny, tool, input)
        /\ SomeMatches(policy.ask, tool, input) => SomeMatches(policy'.ask, tool, input)
    BY <2>1 DEF SomeMatches
  <2>3. Granted(policy, tool, input) => Granted(policy', tool, input)
    BY <1>1, <2>1 DEF Granted, SomeMatches
  <2>4. Escalates(policy', tool) = Escalates(policy, tool)
    BY <1>1 DEF Escalates
  <2>5. policy'.allow = policy.allow => (Granted(policy', tool, input)
                                           => Granted(policy, tool, input))
    BY <1>1 DEF Granted
  <2>6. ASSUME policy'.allow = policy.allow, reply # "allow",
               AllowedUnder(policy', tool, input, override, reply)
        PROVE  AllowedUnder(policy, tool, input, override, reply)
    BY <2>2, <2>5, <2>6, AllowedMeans, GrantedIsAllowed
  <2>7. ASSUME policy'.deny = policy.deny, policy'.ask = policy.ask,
               AllowedUnder(policy, tool, input, override, reply)
        PROVE  AllowedUnder(policy', tool, input, override, reply)
    BY <2>3, <2>4, <2>7
       DEF AllowedUnder, Authorize, Denied, Allowed, PromptOrDeny
  <2> QED BY <2>6, <2>7
<1>2. TypeOK /\ [Next]_policy => [RulesCount]_policy
  BY <1>1 DEF RulesCount
<1> QED BY <1>2, TypeCorrect, PTL DEF Spec, RulesAreMonotone

-----------------------------------------------------------------------------
(* Least and greatest *)

(* A set of numbers has a least one.                                       *)
LEMMA LeastNat ==
  ASSUME NEW T \in SUBSET Nat, T # {}
  PROVE  \E x \in T : \A y \in T : x <= y
<1> DEFINE less == {ss \in Nat \X Nat : ss[1] < ss[2]}
<1>1. IsWellFoundedOn(less, Nat)
  BY NatLessThanWellFounded DEF OpToRel
<1> HIDE DEF less
<1>2. PICK x \in T : \A y \in T : ~(<<y, x>> \in less)
  BY <1>1, WFMin
<1>3. ASSUME NEW y \in T, ~(x <= y) PROVE FALSE
  <2>1. <<y, x>> \in Nat \X Nat /\ y < x
    BY <1>3
  <2>2. <<y, x>> \in less
    BY <2>1 DEF less
  <2> QED BY <1>2, <2>2
<1> QED BY <1>3

(* A set of numbers with a bound has a greatest one.                       *)
LEMMA HasGreatest ==
  ASSUME NEW N \in Nat, NEW T, \A x \in T : x \in Nat /\ x <= N, NEW t \in T
  PROVE  \E e \in T : \A f \in T : e >= f
<1> DEFINE over == {k \in Nat : \A x \in T : x <= k}
<1>1. N \in over
  OBVIOUS
<1>2. PICK k \in over : \A j \in over : k <= j
  BY <1>1, LeastNat
<1>3. k \in T
  <2> SUFFICES ASSUME k \notin T PROVE FALSE
    OBVIOUS
  <2>1. \A x \in T : x <= k - 1
    BY <1>2
  <2>2. k - 1 \in over
    BY <1>2, <2>1
  <2> QED BY <1>2, <2>2
<1> QED BY <1>2, <1>3

-----------------------------------------------------------------------------
(* Shells *)

(* Whatever was put into the pipe is in it or was read, until bash gives   *)
(* the pipe up at the limit; a shell that has ended has no more to print.  *)
Chunks ==
    /\ printed + want \in 0..MaxOutput
    /\ ~(program = "bash" /\ result = "timeout") => got + pipe = printed
    /\ shell # "running" => want = 0
    /\ shell = "none" => printed = 0

(* bash reads on until the whole output is there, to the end of its last   *)
(* character.                                                              *)
Written ==
    /\ shell = "running" => open \/ result = "timeout"
    /\ shell # "none" /\ program = "bash" /\ result # "timeout" =>
          ends \in S!Characters(printed + want)

(* A limit that has passed was set, and only PowerShell polls and kills.   *)
UnderWay ==
    /\ program \in {"bash", "powershell"}
    /\ late => limited
    /\ pc = "start" => shell = "none"
    /\ pc = "poll" => program = "powershell"
    /\ pc = "killed" => late /\ program = "powershell" /\ shell = "exited"

ShellInv == S!TypeOK /\ S!ResultsTell /\ Chunks /\ Written /\ UnderWay

LEMMA GreatestIs ==
  ASSUME NEW T, \E e \in T : \A f \in T : e >= f
  PROVE  S!Max(T) \in T /\ \A f \in T : S!Max(T) >= f
BY DEF S!Max

(* Of an output that does not fit, the cut tells whole characters, and     *)
(* less than one more would have fitted.                                   *)
LEMMA CutToCharacter ==
  ASSUME NEW n \in Nat, ends \in S!Characters(n), MaxBytes < n
  PROVE  LET told == S!Truncated(n)
         IN  /\ told.marked /\ told.bytes \in ends /\ told.bytes \in 0..n
             /\ told.bytes <= MaxBytes /\ MaxBytes < told.bytes + 4
<1> DEFINE fit == {e \in ends : e <= MaxBytes}
           m == S!Max(fit)
<1>1. MaxBytes \in Nat
  BY ShellAssumption DEF S!SizesFit
<1>2. ends \subseteq 0..n /\ 0 \in ends /\ \A i \in ends \ {n} : \E j \in ends : i < j /\ j <= i + 4
  BY DEF S!Characters
<1>3. 0 \in fit /\ \A x \in fit : x \in Nat /\ x <= MaxBytes
  BY <1>1, <1>2
<1> HIDE DEF fit
<1>4. \E e \in fit : \A f \in fit : e >= f
  BY <1>1, <1>3, HasGreatest
<1>5. m \in fit /\ \A f \in fit : m >= f
  BY <1>4, GreatestIs
<1> USE DEF fit
<1>6. S!Truncated(n) = [bytes |-> m, marked |-> TRUE]
  BY <1>1 DEF S!Truncated
<1> HIDE DEF m
<1>7. m \in ends /\ m \in 0..n /\ m <= MaxBytes /\ m # n
  BY <1>1, <1>2, <1>5
<1>8. PICK j \in ends : m < j /\ j <= m + 4
  BY <1>2, <1>7
<1>9. j \in Nat /\ ~(j <= MaxBytes)
  BY <1>2, <1>5, <1>7, <1>8
<1>10. MaxBytes < m + 4
  BY <1>1, <1>7, <1>8, <1>9
<1> QED BY <1>6, <1>7, <1>10

LEMMA NothingAdded == \A n \in Int : 0 + n = n
OBVIOUS

LEMMA FitsWhole ==
  ASSUME NEW n \in Nat, n <= MaxBytes
  PROVE  S!Truncated(n) = S!Whole(n)
BY DEF S!Truncated

LEMMA ShellStarts == S!Init => ShellInv
BY ShellAssumption
   DEF S!Init, ShellInv, S!TypeOK, S!ResultsTell, S!AllRead, S!Whole, Chunks, Written, UnderWay,
       S!SizesFit

LEMMA ShellSteps == ShellInv /\ [S!Next]_shells => ShellInv'
<1> SUFFICES ASSUME ShellInv, [S!Next]_shells PROVE ShellInv'
  OBVIOUS
<1> USE ShellAssumption
    DEF ShellInv, S!TypeOK, S!ResultsTell, S!ToldInPart, S!AllRead, S!Whole, Chunks, Written,
        UnderWay, S!SizesFit, S!call, S!process, S!answer
<1>1. CASE S!Start
  <2>1. /\ shell = "none" /\ result = "none" /\ printed = 0 /\ want = 0 /\ got = 0 /\ pipe = 0
        /\ UNCHANGED <<program, limited, late, helper, pipe, printed, got>>
    BY <1>1 DEF S!Start
  <2>2. CASE \E is \in {"stale", "error"} :
               S!Return(is, [bytes |-> 0, marked |-> FALSE]) /\ UNCHANGED <<shell, want, ends, open>>
    <3>1. /\ pc' = "done" /\ result' \in {"stale", "error"}
          /\ output' = [bytes |-> 0, marked |-> FALSE]
          /\ UNCHANGED <<shell, want, ends, open>>
      BY <2>2 DEF S!Return
    <3> QED BY <2>1, <3>1
  <2>3. CASE /\ pc' = (IF S!Polls THEN "poll" ELSE "wait") /\ shell' = "running"
             /\ want' \in 0..MaxOutput /\ ends' \in S!Characters(want')
             /\ open' = TRUE /\ UNCHANGED <<result, output>>
    <3>1. ends' \subseteq 0..MaxOutput
      BY <2>3 DEF S!Characters
    <3>2. printed' + want' = want' /\ want' \in 0..MaxOutput
      <4>1. printed' = 0 /\ want' \in 0..MaxOutput
        BY <2>1, <2>3
      <4>2. want' \in Int
        BY <4>1
      <4>3. 0 + want' = want'
        BY <4>2, NothingAdded
      <4> QED BY ONLY <4>1, <4>3
    <3>3. pc' \in {"wait", "poll"} /\ (pc' = "poll" => program = "powershell")
      BY <2>3 DEF S!Polls
    <3>4. S!TypeOK' /\ S!ResultsTell'
      <4>1. pc' \in {"start", "wait", "poll", "collect", "killed", "done"} /\ pc' # "done"
        BY <3>3
      <4>2. result' = "none" /\ output' = output
        BY <2>1, <2>3
      <4>3. S!ResultsTell'
        BY <4>2
      <4>4. /\ shell' \in {"none", "running", "exited"} /\ want' \in 0..MaxOutput
            /\ UNCHANGED <<pipe, printed, got>>
        BY <2>1, <2>3
      <4> QED BY <3>1, <4>1, <4>2, <4>3, <4>4
    <3>5. Written'
      BY <2>3, <3>2
    <3> QED BY <2>1, <2>3, <3>2, <3>3, <3>4, <3>5
  <2> QED BY <1>1, <2>2, <2>3 DEF S!Start
<1>2. CASE S!Read
  BY <1>2 DEF S!Read
<1>3. CASE S!Finish
  <2>1. /\ shell = "exited" /\ ~helper /\ pipe = 0 /\ result # "timeout" /\ want = 0
        /\ printed \in Nat /\ got = printed /\ printed <= MaxOutput
    BY <1>3 DEF S!Finish
  <2>2. CASE program = "bash" /\ MaxBytes < got
    <3>1. ends \in S!Characters(got)
      BY <2>1, <2>2
    <3>2. /\ output'.marked /\ output'.bytes \in ends /\ output'.bytes \in 0..got
          /\ output'.bytes <= MaxBytes /\ MaxBytes < output'.bytes + 4
      BY <1>3, <2>1, <2>2, <3>1, CutToCharacter DEF S!Finish, S!Return
    <3>3. output' \in [bytes : 0..MaxOutput, marked : BOOLEAN]
      <4>1. output' = S!Truncated(got)
        BY <1>3, <2>2 DEF S!Finish, S!Return
      <4> QED BY <2>1, <2>2, <3>2, <4>1 DEF S!Truncated
    <3> QED BY <1>3, <2>1, <2>2, <3>2, <3>3 DEF S!Finish, S!Return
  <2>3. CASE ~(program = "bash" /\ MaxBytes < got)
    <3>1. MaxBytes \in Nat /\ (program = "bash" => got <= MaxBytes)
      BY <2>1, <2>3
    <3>2. output' = (IF program = "bash" THEN S!Truncated(got) ELSE S!Whole(got))
      BY <1>3 DEF S!Finish, S!Return
    <3>3. got \in Nat
      BY <2>1
    <3> HIDE DEF S!Whole
    <3>4. output' = S!Whole(got)
      BY <3>1, <3>2, <3>3, FitsWhole
    <3> USE DEF S!Whole
    <3>5. S!TypeOK'
      <4>1. output' \in [bytes : 0..MaxOutput, marked : BOOLEAN]
        BY <2>1, <3>4
      <4>2. /\ pc' = "done" /\ result' = "finished"
            /\ UNCHANGED <<shell, want, ends, pipe, printed, got>>
        BY <1>3 DEF S!Finish, S!Return
      <4> QED BY <4>1, <4>2
    <3>6. program = "powershell" \/ printed <= MaxBytes
      BY <2>1, <2>3, <3>1
    <3> QED BY <1>3, <2>1, <3>4, <3>5, <3>6 DEF S!Finish, S!Return
  <2> QED BY <2>2, <2>3
<1>4. CASE S!TimeOut
  BY <1>4 DEF S!TimeOut, S!Return
<1>5. CASE S!Poll
  <2>1. CASE shell = "exited"
    BY <1>5, <2>1 DEF S!Poll
  <2>2. CASE shell # "exited"
    BY <1>5, <2>2 DEF S!Poll
  <2> QED BY <2>1, <2>2
<1>6. CASE S!CollectKilled
  BY <1>6 DEF S!CollectKilled, S!Return
<1>7. CASE S!PrintMore
  BY <1>7 DEF S!PrintMore
<1>8. CASE S!LeaveHelper
  BY <1>8 DEF S!LeaveHelper
<1>9. CASE S!Exit
  BY <1>9 DEF S!Exit
<1>10. CASE S!HelperEnds
  BY <1>10 DEF S!HelperEnds
<1>11. CASE S!Expire
  BY <1>11 DEF S!Expire
<1>12. CASE UNCHANGED shells
  BY <1>12 DEF shells
<1> QED BY <1>1, <1>2, <1>3, <1>4, <1>5, <1>6, <1>7, <1>8, <1>9, <1>10, <1>11, <1>12
        DEF S!Next, S!Tool

(* What a call answers with is of a shell that has ended, all that it      *)
(* printed was read, and bash tells it all unless it says by a mark that   *)
(* the ceiling left it the first characters; only bash, at its limit,      *)
(* leaves a shell running (bash.rs, tools/lib.rs).                         *)
THEOREM ShellSafety == BoundariesSpec => []ShellResults
<1>1. BoundariesInit => ShellInv
  BY PartsStart, ShellStarts
<1>2. ShellInv /\ [BoundariesNext]_all => ShellInv'
  BY PartsStep, ShellSteps
<1>3. ShellInv => ShellResults
  BY DEF ShellInv, ShellResults
<1> QED BY <1>1, <1>2, <1>3, PTL DEF BoundariesSpec

-----------------------------------------------------------------------------
(* Numbers *)

(* A set of numbers that has 0, and with each number below a limit its     *)
(* successor, has all numbers up to the limit.                             *)
LEMMA UpTo ==
  ASSUME NEW limit \in Nat, NEW T, 0 \in T,
         \A n \in 0..limit : n < limit /\ n \in T => n + 1 \in T
  PROVE  \A n \in 0..limit : n \in T
<1> DEFINE bad == {n \in 0..limit : n \notin T}
<1>1. ASSUME NEW n \in bad, \A k \in bad : n <= k
      PROVE  FALSE
  <2>1. n \in 0..limit /\ n \notin T /\ n # 0
    OBVIOUS
  <2>2. n - 1 \in 0..limit /\ n - 1 < limit /\ ~(n <= n - 1) /\ (n - 1) + 1 = n
    BY <2>1
  <2>3. n - 1 \notin bad
    BY <1>1, <2>2
  <2>4. n - 1 \in T
    BY <2>2, <2>3
  <2> QED BY <2>1, <2>2, <2>4
<1>2. bad \in SUBSET Nat
  OBVIOUS
<1> QED
  <2>1. bad = {}
    <3> HIDE DEF bad
    <3> QED BY <1>1, <1>2, LeastNat
  <2> QED BY <2>1

-----------------------------------------------------------------------------
(* The Anonymizer *)

(* The map is sound if every name in it has a placeholder that was given   *)
(* out, and no two have the same.                                          *)
Issued(m) == {C!Placeholder("T", k) : k \in 1..m.types}
             \cup {C!Placeholder("N", k) : k \in 1..m.namespaces}
Sound(m) ==
    /\ m.types \in Nat /\ m.namespaces \in Nat
    /\ \A w \in DOMAIN m.forward : m.forward[w] \in Issued(m)
    /\ \A v, w \in DOMAIN m.forward : m.forward[v] = m.forward[w] => v = w

(* What m knows, n knows as well.                                          *)
Grown(m, n) ==
    \A w \in DOMAIN m.forward : w \in DOMAIN n.forward /\ n.forward[w] = m.forward[w]

(* The words of these places that are hidden are in the map.               *)
Covered(m, place) == C!Hides(place.word, place.inPath) => place.word \in DOMAIN m.forward

LEMMA FreshIsSound == Sound(C!Fresh)
BY DEF Sound, C!Fresh, C!Anonymizer

LEMMA GrownFurther ==
  ASSUME NEW m, NEW n, NEW k, Grown(m, n), Grown(n, k)
  PROVE  Grown(m, k)
BY DEF Grown

LEMMA CoveredFurther ==
  ASSUME NEW m, NEW n, NEW place, Grown(m, n), Covered(m, place)
  PROVE  Covered(n, place)
BY DEF Grown, Covered

(* A number that was not given out makes a placeholder that was not.       *)
LEMMA NextIsNew ==
  ASSUME NEW m, Sound(m)
  PROVE  /\ C!Placeholder("T", m.types + 1) \notin Issued(m)
         /\ C!Placeholder("N", m.namespaces + 1) \notin Issued(m)
<1>1. ASSUME NEW k, NEW j, NEW kind, NEW sort, kind # sort \/ k # j
      PROVE  C!Placeholder(kind, k) # C!Placeholder(sort, j)
  <2>1. /\ C!Placeholder(kind, k).kind = kind /\ C!Placeholder(sort, j).kind = sort
        /\ C!Placeholder(kind, k).n = k /\ C!Placeholder(sort, j).n = j
    BY DEF C!Placeholder
  <2> QED BY <1>1, <2>1
<1>2. \A k \in 1..m.types : k # m.types + 1
  BY DEF Sound
<1>3. \A k \in 1..m.namespaces : k # m.namespaces + 1
  BY DEF Sound
<1>4. C!Placeholder("T", m.types + 1) \notin Issued(m)
  <2>1. \A k \in 1..m.types : C!Placeholder("T", m.types + 1) # C!Placeholder("T", k)
    BY <1>1, <1>2
  <2>2. \A k \in 1..m.namespaces : C!Placeholder("T", m.types + 1) # C!Placeholder("N", k)
    BY <1>1
  <2> QED BY <2>1, <2>2 DEF Issued
<1>5. C!Placeholder("N", m.namespaces + 1) \notin Issued(m)
  <2>1. \A k \in 1..m.namespaces : C!Placeholder("N", m.namespaces + 1) # C!Placeholder("N", k)
    BY <1>1, <1>3
  <2>2. \A k \in 1..m.types : C!Placeholder("N", m.namespaces + 1) # C!Placeholder("T", k)
    BY <1>1
  <2> QED BY <2>1, <2>2 DEF Issued
<1> QED BY <1>4, <1>5

(* A name is entered under a placeholder of its own.                       *)
LEMMA EnteredIsSound ==
  ASSUME NEW m, NEW n, NEW w, NEW ph, Sound(m), w \notin DOMAIN m.forward,
         n.types \in Nat, n.namespaces \in Nat,
         Issued(m) \subseteq Issued(n), ph \in Issued(n), ph \notin Issued(m),
         n.forward = C!With(m.forward, w, ph)
  PROVE  Sound(n) /\ Grown(m, n) /\ w \in DOMAIN n.forward
<1>1. DOMAIN n.forward = DOMAIN m.forward \cup {w}
  BY DEF C!With
<1>2. n.forward[w] = ph
  BY DEF C!With
<1>3. ASSUME NEW v \in DOMAIN m.forward
      PROVE  n.forward[v] = m.forward[v] /\ m.forward[v] \in Issued(m)
  BY DEF C!With, Sound
<1>4. \A v \in DOMAIN n.forward : n.forward[v] \in Issued(n)
  BY <1>1, <1>2, <1>3
<1>5. ASSUME NEW v \in DOMAIN n.forward, NEW u \in DOMAIN n.forward, n.forward[v] = n.forward[u]
      PROVE  v = u
  <2>1. CASE v = w
    BY <1>1, <1>2, <1>3, <1>5, <2>1
  <2>2. CASE u = w
    BY <1>1, <1>2, <1>3, <1>5, <2>2
  <2>3. CASE v \in DOMAIN m.forward /\ u \in DOMAIN m.forward
    BY <1>3, <1>5, <2>3 DEF Sound
  <2> QED BY <1>1, <2>1, <2>2, <2>3
<1>6. Grown(m, n)
  BY <1>1, <1>3 DEF Grown
<1> QED BY <1>1, <1>4, <1>5, <1>6 DEF Sound

LEMMA NotedIsSound ==
  ASSUME NEW m, NEW w, Sound(m)
  PROVE  Sound(C!Noted(m, w)) /\ Grown(m, C!Noted(m, w)) /\ w \in DOMAIN C!Noted(m, w).forward
<1>1. CASE w \in DOMAIN m.forward
  BY <1>1 DEF C!Noted, Grown
<1>2. CASE w \notin DOMAIN m.forward /\ w.kind = "type"
  <2> DEFINE n == C!Noted(m, w)
             ph == C!Placeholder("T", m.types + 1)
  <2>1. /\ n.types = m.types + 1 /\ n.namespaces = m.namespaces
        /\ n.forward = C!With(m.forward, w, ph)
    BY <1>2 DEF C!Noted, C!Anonymizer, C!NotedAs
  <2>2. ph \notin Issued(m)
    BY NextIsNew
  <2> HIDE DEF n
  <2>3. n.types \in Nat /\ n.namespaces \in Nat /\ m.types \in Nat /\ m.namespaces \in Nat
    BY <2>1 DEF Sound
  <2>4. ph \in Issued(n)
    BY <2>1, <2>3 DEF Issued
  <2>5. Issued(m) \subseteq Issued(n)
    <3>1. 1..m.types \subseteq 1..n.types /\ 1..m.namespaces = 1..n.namespaces
      BY <2>1, <2>3
    <3> QED BY <3>1 DEF Issued
  <2> HIDE DEF ph
  <2>6. Sound(n) /\ Grown(m, n) /\ w \in DOMAIN n.forward
    BY <1>2, <2>1, <2>2, <2>3, <2>4, <2>5, EnteredIsSound
  <2> QED BY <2>6 DEF n
<1>3. CASE w \notin DOMAIN m.forward /\ w.kind # "type"
  <2> DEFINE n == C!Noted(m, w)
             ph == C!Placeholder("N", m.namespaces + 1)
  <2>1. /\ n.types = m.types /\ n.namespaces = m.namespaces + 1
        /\ n.forward = C!With(m.forward, w, ph)
    BY <1>3 DEF C!Noted, C!Anonymizer, C!NotedAs
  <2>2. ph \notin Issued(m)
    BY NextIsNew
  <2> HIDE DEF n
  <2>3. n.types \in Nat /\ n.namespaces \in Nat /\ m.types \in Nat /\ m.namespaces \in Nat
    BY <2>1 DEF Sound
  <2>4. ph \in Issued(n)
    BY <2>1, <2>3 DEF Issued
  <2>5. Issued(m) \subseteq Issued(n)
    <3>1. 1..m.types = 1..n.types /\ 1..m.namespaces \subseteq 1..n.namespaces
      BY <2>1, <2>3
    <3> QED BY <3>1 DEF Issued
  <2> HIDE DEF ph
  <2>6. Sound(n) /\ Grown(m, n) /\ w \in DOMAIN n.forward
    BY <1>3, <2>1, <2>2, <2>3, <2>4, <2>5, EnteredIsSound
  <2> QED BY <2>6 DEF n
<1> QED BY <1>1, <1>2, <1>3

LEMMA PassedIsSound ==
  ASSUME NEW m, NEW place, Sound(m)
  PROVE  /\ Sound(C!Passed(m, place)) /\ Grown(m, C!Passed(m, place))
         /\ Covered(C!Passed(m, place), place)
<1>1. CASE C!Hides(place.word, place.inPath)
  BY <1>1, NotedIsSound DEF C!Passed, Covered
<1>2. CASE ~C!Hides(place.word, place.inPath)
  BY <1>2 DEF C!Passed, Covered, Grown
<1> QED BY <1>1, <1>2

(* The map after so many of the places, as NotedAll builds it.             *)
PassThen(m, places, g, n) == IF n = 0 THEN m ELSE C!Passed(g[n - 1], places[n])
Passes(m, places, g, n) == g = [k \in 0..n |-> PassThen(m, places, g, k)]

LEMMA PassesExist ==
  ASSUME NEW m, NEW places, Len(places) \in Nat
  PROVE  \E g : Passes(m, places, g, Len(places))
<1> DEFINE T == {n \in 0..Len(places) : \E g : Passes(m, places, g, n)}
<1>1. 0 \in T
  <2> DEFINE g == [k \in 0..0 |-> m]
  <2>1. Passes(m, places, g, 0)
    BY DEF Passes, PassThen
  <2> HIDE DEF g
  <2> QED BY <2>1
<1>2. ASSUME NEW n \in 0..Len(places), n < Len(places), n \in T
      PROVE  n + 1 \in T
  <2>1. PICK g : Passes(m, places, g, n)
    BY <1>2
  <2> DEFINE h == [k \in 0..(n + 1) |-> IF k = n + 1 THEN PassThen(m, places, g, n + 1) ELSE g[k]]
  <2>2. ASSUME NEW k \in 0..(n + 1)
        PROVE  h[k] = PassThen(m, places, h, k)
    <3>1. CASE k = n + 1
      <4>1. k # 0 /\ k - 1 \in 0..(n + 1) /\ k - 1 # n + 1
        BY <3>1
      <4>2. h[k - 1] = g[k - 1] /\ h[k] = PassThen(m, places, g, k)
        BY <3>1, <4>1
      <4> QED BY <4>1, <4>2 DEF PassThen
    <3>2. CASE k # n + 1
      <4>1. k \in 0..n /\ h[k] = g[k]
        BY <3>2
      <4>2. g[k] = PassThen(m, places, g, k)
        BY <2>1, <4>1 DEF Passes
      <4>3. CASE k = 0
        BY <4>1, <4>2, <4>3 DEF PassThen
      <4>4. CASE k # 0
        <5>1. k - 1 \in 0..(n + 1) /\ k - 1 # n + 1
          BY <4>1, <4>4
        <5>2. h[k - 1] = g[k - 1]
          BY <5>1
        <5> QED BY <4>1, <4>2, <4>4, <5>2 DEF PassThen
      <4> QED BY <4>3, <4>4
    <3> QED BY <3>1, <3>2
  <2>3. Passes(m, places, h, n + 1)
    <3>1. h = [k \in 0..(n + 1) |-> h[k]]
      OBVIOUS
    <3> HIDE DEF h
    <3> QED BY <2>2, <3>1 DEF Passes
  <2> HIDE DEF h
  <2> QED BY <1>2, <2>3
<1> HIDE DEF T
<1>3. \A n \in 0..Len(places) : n \in T
  BY <1>1, <1>2, UpTo
<1>4. Len(places) \in 0..Len(places)
  OBVIOUS
<1> QED BY <1>3, <1>4 DEF T

(* After all words of a phrase those that are hidden are in the map, and   *)
(* those that were there are as they were.                                 *)
Entered(m, places, n) ==
    /\ Sound(n) /\ Grown(m, n)
    /\ \A i \in 1..Len(places) : Covered(n, places[i])

LEMMA NotedAllEnters ==
  ASSUME NEW m, NEW places, Len(places) \in Nat, Sound(m)
  PROVE  Entered(m, places, C!NotedAll(m, places))
<1> DEFINE g == CHOOSE f : f = [n \in 0..Len(places) |-> PassThen(m, places, f, n)]
<1>1. C!NotedAll(m, places) = g[Len(places)]
  BY DEF C!NotedAll, PassThen
<1>2. Passes(m, places, g, Len(places))
  BY PassesExist DEF Passes
<1> HIDE DEF g
<1>3. \A k \in 0..Len(places) : g[k] = PassThen(m, places, g, k)
  BY <1>2 DEF Passes
<1> DEFINE Upto(n) == Sound(g[n]) /\ Grown(m, g[n]) /\ \A i \in 1..n : Covered(g[n], places[i])
           T == {n \in 0..Len(places) : Upto(n)}
<1>4. Upto(0)
  <2>1. g[0] = m
    BY <1>3 DEF PassThen
  <2> QED BY <2>1 DEF Grown
<1>5. ASSUME NEW n \in 0..Len(places), n < Len(places), Upto(n)
      PROVE  Upto(n + 1)
  <2>1. n + 1 \in 0..Len(places) /\ n + 1 # 0 /\ (n + 1) - 1 = n
    BY <1>5
  <2>2. g[n + 1] = C!Passed(g[n], places[n + 1])
    BY <1>3, <2>1 DEF PassThen
  <2>3. Sound(g[n + 1]) /\ Grown(g[n], g[n + 1]) /\ Covered(g[n + 1], places[n + 1])
    BY <1>5, <2>2, PassedIsSound
  <2>4. \A i \in 1..n : Covered(g[n + 1], places[i])
    BY <1>5, <2>3, CoveredFurther
  <2>5. Grown(m, g[n + 1])
    BY <1>5, <2>3, GrownFurther
  <2>6. \A i \in 1..(n + 1) : i \in 1..n \/ i = n + 1
    OBVIOUS
  <2> QED BY <2>3, <2>4, <2>5, <2>6
<1> HIDE DEF Upto
<1>6. \A n \in 0..Len(places) : n \in T
  <2>1. 0 \in T
    BY <1>4
  <2>2. \A n \in 0..Len(places) : n < Len(places) /\ n \in T => n + 1 \in T
    BY <1>5
  <2> HIDE DEF T
  <2> QED BY <2>1, <2>2, UpTo
<1>7. Upto(Len(places))
  BY <1>6
<1> QED BY <1>1, <1>7 DEF Upto, Entered

(* And the same for the phrases of a text, as NotedEach goes through them. *)
NoteThen(m, phrases, g, n) == IF n = 0 THEN m ELSE C!NotedAll(g[n - 1], phrases[n])
Notes(m, phrases, g, n) == g = [k \in 0..n |-> NoteThen(m, phrases, g, k)]

LEMMA NotesExist ==
  ASSUME NEW m, NEW phrases, Len(phrases) \in Nat
  PROVE  \E g : Notes(m, phrases, g, Len(phrases))
<1> DEFINE T == {n \in 0..Len(phrases) : \E g : Notes(m, phrases, g, n)}
<1>1. 0 \in T
  <2> DEFINE g == [k \in 0..0 |-> m]
  <2>1. Notes(m, phrases, g, 0)
    BY DEF Notes, NoteThen
  <2> HIDE DEF g
  <2> QED BY <2>1
<1>2. ASSUME NEW n \in 0..Len(phrases), n < Len(phrases), n \in T
      PROVE  n + 1 \in T
  <2>1. PICK g : Notes(m, phrases, g, n)
    BY <1>2
  <2> DEFINE h == [k \in 0..(n + 1) |-> IF k = n + 1 THEN NoteThen(m, phrases, g, n + 1) ELSE g[k]]
  <2>2. ASSUME NEW k \in 0..(n + 1)
        PROVE  h[k] = NoteThen(m, phrases, h, k)
    <3>1. CASE k = n + 1
      <4>1. k # 0 /\ k - 1 \in 0..(n + 1) /\ k - 1 # n + 1
        BY <3>1
      <4>2. h[k - 1] = g[k - 1] /\ h[k] = NoteThen(m, phrases, g, k)
        BY <3>1, <4>1
      <4> QED BY <4>1, <4>2 DEF NoteThen
    <3>2. CASE k # n + 1
      <4>1. k \in 0..n /\ h[k] = g[k]
        BY <3>2
      <4>2. g[k] = NoteThen(m, phrases, g, k)
        BY <2>1, <4>1 DEF Notes
      <4>3. CASE k = 0
        BY <4>1, <4>2, <4>3 DEF NoteThen
      <4>4. CASE k # 0
        <5>1. k - 1 \in 0..(n + 1) /\ k - 1 # n + 1
          BY <4>1, <4>4
        <5>2. h[k - 1] = g[k - 1]
          BY <5>1
        <5> QED BY <4>1, <4>2, <4>4, <5>2 DEF NoteThen
      <4> QED BY <4>3, <4>4
    <3> QED BY <3>1, <3>2
  <2>3. Notes(m, phrases, h, n + 1)
    <3>1. h = [k \in 0..(n + 1) |-> h[k]]
      OBVIOUS
    <3> HIDE DEF h
    <3> QED BY <2>2, <3>1 DEF Notes
  <2> HIDE DEF h
  <2> QED BY <1>2, <2>3
<1> HIDE DEF T
<1>3. \A n \in 0..Len(phrases) : n \in T
  BY <1>1, <1>2, UpTo
<1>4. Len(phrases) \in 0..Len(phrases)
  OBVIOUS
<1> QED BY <1>3, <1>4 DEF T

CoveredAll(m, places) == \A i \in 1..Len(places) : Covered(m, places[i])
EnteredEach(m, phrases, n) ==
    /\ Sound(n) /\ Grown(m, n)
    /\ \A j \in 1..Len(phrases) : CoveredAll(n, phrases[j])

LEMMA NotedEachEnters ==
  ASSUME NEW m, NEW phrases, Len(phrases) \in Nat, Sound(m),
         \A j \in 1..Len(phrases) : Len(phrases[j]) \in Nat
  PROVE  EnteredEach(m, phrases, C!NotedEach(m, phrases))
<1> DEFINE g == CHOOSE f : f = [n \in 0..Len(phrases) |-> NoteThen(m, phrases, f, n)]
<1>1. C!NotedEach(m, phrases) = g[Len(phrases)]
  BY DEF C!NotedEach, NoteThen
<1>2. Notes(m, phrases, g, Len(phrases))
  BY NotesExist DEF Notes
<1> HIDE DEF g
<1>3. \A k \in 0..Len(phrases) : g[k] = NoteThen(m, phrases, g, k)
  BY <1>2 DEF Notes
<1> DEFINE Upto(n) == Sound(g[n]) /\ Grown(m, g[n]) /\ \A j \in 1..n : CoveredAll(g[n], phrases[j])
           T == {n \in 0..Len(phrases) : Upto(n)}
<1>4. Upto(0)
  <2>1. g[0] = m
    BY <1>3 DEF NoteThen
  <2> QED BY <2>1 DEF Grown
<1>5. ASSUME NEW n \in 0..Len(phrases), n < Len(phrases), Upto(n)
      PROVE  Upto(n + 1)
  <2>1. n + 1 \in 0..Len(phrases) /\ n + 1 \in 1..Len(phrases) /\ n + 1 # 0 /\ (n + 1) - 1 = n
    BY <1>5
  <2>2. g[n + 1] = C!NotedAll(g[n], phrases[n + 1])
    BY <1>3, <2>1 DEF NoteThen
  <2>3. Sound(g[n + 1]) /\ Grown(g[n], g[n + 1]) /\ CoveredAll(g[n + 1], phrases[n + 1])
    BY <1>5, <2>1, <2>2, NotedAllEnters DEF Entered, CoveredAll
  <2>4. \A j \in 1..n : CoveredAll(g[n + 1], phrases[j])
    BY <1>5, <2>3, CoveredFurther DEF CoveredAll
  <2>5. Grown(m, g[n + 1])
    BY <1>5, <2>3, GrownFurther
  <2>6. \A j \in 1..(n + 1) : j \in 1..n \/ j = n + 1
    OBVIOUS
  <2> QED BY <2>3, <2>4, <2>5, <2>6
<1> HIDE DEF Upto
<1>6. \A n \in 0..Len(phrases) : n \in T
  <2>1. 0 \in T
    BY <1>4
  <2>2. \A n \in 0..Len(phrases) : n < Len(phrases) /\ n \in T => n + 1 \in T
    BY <1>5
  <2> HIDE DEF T
  <2> QED BY <2>1, <2>2, UpTo
<1>7. Upto(Len(phrases))
  BY <1>6
<1> QED BY <1>1, <1>7 DEF Upto, EnteredEach

(* What words become: names, or placeholders that were given out.          *)
Stands == {C!Placeholder("T", k) : k \in Nat} \cup {C!Placeholder("N", k) : k \in Nat}
Spoken == Words \cup Stands
SpokenPhrases == [declares : BOOLEAN, before : Seq(Spoken), path : Seq(Spoken) \ {<< >>}]

LEMMA SpokenKinds ==
  ASSUME NEW w \in Spoken
  PROVE  /\ w.kind \in {"type", "lower", "known", "T", "N"}
         /\ w \in Stands => C!IsPlaceholder(w)
<1>1. CASE w \in Words
  <2>1. w.kind \in {"type", "lower", "known", "T", "N"}
    BY <1>1, ConsultAssumption DEF C!WellFormed
  <2>2. w \in Stands => C!IsPlaceholder(w)
    BY DEF Stands, C!IsPlaceholder, C!Placeholder
  <2> QED BY <2>1, <2>2
<1>2. CASE w \in Stands
  BY <1>2 DEF Stands, C!IsPlaceholder, C!Placeholder
<1> QED BY <1>1, <1>2 DEF Spoken

LEMMA IssuedArePlaced ==
  ASSUME NEW m, Sound(m), NEW w \in DOMAIN m.forward
  PROVE  m.forward[w] \in Stands /\ C!IsPlaceholder(m.forward[w])
<1>1. m.forward[w] \in Stands
  BY DEF Sound, Issued, Stands
<1> QED BY <1>1 DEF Stands, C!IsPlaceholder, C!Placeholder

(* A hidden word tells nothing: no type, and no other name where all are   *)
(* hidden.  What is no type stays where only types are hidden.             *)
LEMMA HiddenTellsNothing ==
  ASSUME NEW m, Sound(m), NEW w \in Spoken, NEW inPath \in BOOLEAN, Covered(m, C!Place(w, inPath))
  PROVE  /\ C!Hidden(m, w, inPath) \in Spoken
         /\ C!Hidden(m, w, inPath).kind # "type"
         /\ inPath => C!Hidden(m, w, inPath).kind # "lower"
         /\ w.kind # "type" /\ ~inPath => C!Hidden(m, w, inPath) = w
<1>1. w.kind \in {"type", "lower", "known", "T", "N"}
  BY SpokenKinds
<1>2. CASE C!Hides(w, inPath)
  <2>1. w \in DOMAIN m.forward /\ C!Hidden(m, w, inPath) = m.forward[w]
    BY <1>2 DEF Covered, C!Place, C!Hidden
  <2>2. m.forward[w] \in Stands /\ C!IsPlaceholder(m.forward[w])
    BY <2>1, IssuedArePlaced
  <2>3. ~(w.kind # "type" /\ ~inPath)
    BY <1>2 DEF C!Hides
  <2> QED BY <2>1, <2>2, <2>3 DEF Spoken, C!IsPlaceholder
<1>3. CASE ~C!Hides(w, inPath)
  <2>1. C!Hidden(m, w, inPath) = w
    BY <1>3 DEF C!Hidden
  <2> QED BY <1>1, <1>3, <2>1 DEF C!Hides
<1> QED BY <1>2, <1>3

LEMMA HiddenInPath ==
  ASSUME NEW m, Sound(m), NEW w \in Spoken, Covered(m, C!Place(w, TRUE))
  PROVE  C!Hidden(m, w, TRUE).kind # "type" /\ C!Hidden(m, w, TRUE).kind # "lower"
BY HiddenTellsNothing

(* A placeholder leads back to the one name it was given to, whatever else *)
(* was entered since.                                                      *)
LEMMA HiddenComesBack ==
  ASSUME NEW m, NEW k, Sound(m), Sound(k), Grown(m, k), NEW w, NEW inPath,
         Covered(m, C!Place(w, inPath)), ~C!IsPlaceholder(w)
  PROVE  C!Real(k, C!Hidden(m, w, inPath)) = w
<1>1. CASE C!Hides(w, inPath)
  <2>1. w \in DOMAIN m.forward /\ C!Hidden(m, w, inPath) = m.forward[w]
    BY <1>1 DEF Covered, C!Place, C!Hidden
  <2>2. w \in DOMAIN k.forward /\ k.forward[w] = m.forward[w]
    BY <2>1 DEF Grown
  <2>3. C!IsPlaceholder(k.forward[w])
    BY <2>2, IssuedArePlaced
  <2>4. \A v \in DOMAIN k.forward : k.forward[v] = k.forward[w] => v = w
    BY <2>2 DEF Sound
  <2>5. (CHOOSE v \in DOMAIN k.forward : k.forward[v] = k.forward[w]) = w
    BY <2>2, <2>4
  <2> QED BY <2>1, <2>2, <2>3, <2>5 DEF C!Real
<1>2. CASE ~C!Hides(w, inPath)
  BY <1>2 DEF C!Hidden, C!Real
<1> QED BY <1>1, <1>2

-----------------------------------------------------------------------------
(* Phrases, before and after *)

LEMMA Lengths ==
  ASSUME NEW set, NEW p \in Seq(set)
  PROVE  Len(p) \in Nat /\ DOMAIN p = 1..Len(p) /\ \A i \in DOMAIN p : p[i] \in set
OBVIOUS

LEMMA MadeSequence ==
  ASSUME NEW set, NEW n \in Nat, NEW f, DOMAIN f = 1..n, f = [i \in DOMAIN f |-> f[i]],
         \A i \in 1..n : f[i] \in set
  PROVE  f \in Seq(set) /\ Len(f) = n
<1>1. f \in [1..n -> set]
  OBVIOUS
<1> QED BY <1>1

(* The words that a first pass hides, all as where a namespace stands.     *)
DeclaredCovered(m, p) ==
    /\ \A i \in DOMAIN p.before : Covered(m, C!Place(p.before[i], TRUE))
    /\ Covered(m, C!Place(p.path[1], TRUE))

LEMMA DeclaredCover ==
  ASSUME NEW m, NEW p \in SpokenPhrases
  PROVE  /\ Len(C!DeclaredPlaces(p)) \in Nat
         /\ p.declares /\ CoveredAll(m, C!DeclaredPlaces(p)) => DeclaredCovered(m, p)
<1>1. p.before \in Seq(Spoken)
  BY DEF SpokenPhrases
<1>2. Len(p.before) \in Nat /\ DOMAIN p.before = 1..Len(p.before)
  BY <1>1
<1>3. CASE ~p.declares
  BY <1>3 DEF C!DeclaredPlaces
<1>4. CASE p.declares
  <2> DEFINE places == [i \in 1..Len(p.before) + 1 |-> C!Place(C!Dotted(p)[i], TRUE)]
  <2>1. C!DeclaredPlaces(p) = places
    BY <1>4 DEF C!DeclaredPlaces
  <2>2. Len(p.before) + 1 \in Nat
    BY <1>2
  <2>3. Len(places) = Len(p.before) + 1
    <3>1. places \in Seq({places[i] : i \in 1..Len(p.before) + 1})
      <4>1. places \in [1..Len(p.before) + 1 -> {places[i] : i \in 1..Len(p.before) + 1}]
        OBVIOUS
      <4> HIDE DEF places
      <4> QED BY <2>2, <4>1
    <3>2. DOMAIN places = 1..Len(p.before) + 1
      OBVIOUS
    <3> HIDE DEF places
    <3> QED BY <2>2, <3>1, <3>2
  <2>4. /\ C!Dotted(p)[Len(p.before) + 1] = p.path[1]
        /\ \A i \in DOMAIN p.before : C!Dotted(p)[i] = p.before[i]
    BY <1>1, <1>2 DEF C!Dotted
  <2>5. /\ \A i \in DOMAIN p.before : places[i] = C!Place(p.before[i], TRUE)
        /\ places[Len(p.before) + 1] = C!Place(p.path[1], TRUE)
    <3>1. \A i \in 1..Len(p.before) + 1 : places[i] = C!Place(C!Dotted(p)[i], TRUE)
      OBVIOUS
    <3>2. Len(p.before) + 1 \in 1..Len(p.before) + 1 /\ DOMAIN p.before \subseteq 1..Len(p.before) + 1
      BY <1>2
    <3> HIDE DEF places
    <3> QED BY <2>4, <3>1, <3>2
  <2> HIDE DEF places
  <2>6. ASSUME CoveredAll(m, places)
        PROVE  /\ \A i \in DOMAIN p.before : Covered(m, C!Place(p.before[i], TRUE))
               /\ Covered(m, C!Place(p.path[1], TRUE))
    <3>1. \A i \in 1..(Len(p.before) + 1) : Covered(m, places[i])
      BY <2>3, <2>6 DEF CoveredAll
    <3>2. Len(p.before) + 1 \in 1..(Len(p.before) + 1) /\ DOMAIN p.before \subseteq 1..(Len(p.before) + 1)
      BY <1>2
    <3> QED BY <2>5, <3>1, <3>2
  <2> QED BY <2>1, <2>2, <2>3, <2>6 DEF DeclaredCovered
<1> QED BY <1>3, <1>4 DEF DeclaredCovered

(* And those that the second hides: the last of a path as what it is.      *)
UsedCovered(m, p) ==
    /\ \A i \in DOMAIN p.before : Covered(m, C!Place(p.before[i], FALSE))
    /\ \A i \in DOMAIN p.path : Covered(m, C!Place(p.path[i], i < Len(p.path)))

LEMMA UsedCover ==
  ASSUME NEW m, NEW p \in SpokenPhrases
  PROVE  /\ Len(C!UsedPlaces(p)) \in Nat
         /\ CoveredAll(m, C!UsedPlaces(p)) => UsedCovered(m, p)
<1> DEFINE before == Len(p.before)
           path == Len(p.path)
           places == C!UsedPlaces(p)
<1>1. p.before \in Seq(Spoken) /\ p.path \in Seq(Spoken)
  BY DEF SpokenPhrases
<1>2. /\ before \in Nat /\ DOMAIN p.before = 1..before
      /\ path \in Nat /\ DOMAIN p.path = 1..path
  BY <1>1
<1>3. places = [i \in 1..(before + path) |->
                  IF i <= before THEN C!Place(p.before[i], FALSE)
                  ELSE C!Place(p.path[i - before], i < before + path)]
  BY DEF C!UsedPlaces
<1> HIDE DEF before, path, places
<1>4. DOMAIN places = 1..(before + path) /\ before + path \in Nat /\ places = [i \in DOMAIN places |-> places[i]]
  BY <1>2, <1>3
<1>5. ASSUME NEW i \in 1..before
      PROVE  i \in 1..(before + path) /\ places[i] = C!Place(p.before[i], FALSE)
  <2>1. i \in 1..(before + path) /\ i <= before
    BY <1>2
  <2> QED BY <1>3, <2>1
<1>6. ASSUME NEW i \in 1..path
      PROVE  /\ before + i \in 1..(before + path)
             /\ places[before + i] = C!Place(p.path[i], i < path)
  <2>1. /\ before + i \in 1..(before + path) /\ ~(before + i <= before)
        /\ (before + i) - before = i
    BY <1>2
  <2>2. places[before + i] = C!Place(p.path[i], before + i < before + path)
    BY <1>3, <2>1
  <2>3. CASE i < path
    <3>1. before + i < before + path
      BY <1>2, <2>3
    <3> QED BY <2>1, <2>2, <2>3, <3>1 DEF C!Place
  <2>4. CASE ~(i < path)
    <3>1. ~(before + i < before + path)
      BY <1>2, <2>4
    <3> QED BY <2>1, <2>2, <2>4, <3>1 DEF C!Place
  <2> QED BY <2>3, <2>4
<1>7. Len(places) = before + path
  <2>1. places \in Seq({places[i] : i \in DOMAIN places}) /\ Len(places) = before + path
    <3>1. \A i \in 1..(before + path) : places[i] \in {places[j] : j \in DOMAIN places}
      BY <1>4
    <3> QED BY <1>4, <3>1, MadeSequence
  <2> QED BY <2>1
<1>8. ASSUME CoveredAll(m, places)
      PROVE  /\ \A i \in DOMAIN p.before : Covered(m, C!Place(p.before[i], FALSE))
             /\ \A i \in DOMAIN p.path : Covered(m, C!Place(p.path[i], i < Len(p.path)))
  <2>1. \A i \in 1..(before + path) : Covered(m, places[i])
    BY <1>7, <1>8 DEF CoveredAll
  <2> QED BY <1>2, <1>5, <1>6, <2>1 DEF path
<1> QED BY <1>4, <1>7, <1>8 DEF places, UsedCovered

(* A phrase after the first pass.                                          *)
DeclaredAs(m, p, d) ==
    /\ d \in SpokenPhrases /\ d.declares = p.declares
    /\ DOMAIN d.before = DOMAIN p.before
    /\ DOMAIN d.path = DOMAIN p.path /\ Len(d.path) = Len(p.path)
    /\ ~p.declares => d = p
    /\ p.declares => d.path[1] = C!Hidden(m, p.path[1], TRUE)
    /\ \A i \in DOMAIN p.before : p.declares => d.before[i] = C!Hidden(m, p.before[i], TRUE)

LEMMA DeclaredIs ==
  ASSUME NEW m, Sound(m), NEW p \in SpokenPhrases, CoveredAll(m, C!DeclaredPlaces(p))
  PROVE  DeclaredAs(m, p, C!Declared(m, p))
<1> DEFINE d == C!Declared(m, p)
<1>1. /\ p.before \in Seq(Spoken) /\ p.path \in Seq(Spoken) /\ p.path # << >> /\ p.declares \in BOOLEAN
  BY DEF SpokenPhrases
<1>2. /\ Len(p.before) \in Nat /\ DOMAIN p.before = 1..Len(p.before)
      /\ Len(p.path) \in Nat /\ DOMAIN p.path = 1..Len(p.path) /\ 1 \in DOMAIN p.path
  BY <1>1
<1>3. CASE ~p.declares
  BY <1>3 DEF C!Declared, DeclaredAs
<1>4. CASE p.declares
  <2> DEFINE before == [i \in DOMAIN p.before |-> C!Hidden(m, p.before[i], TRUE)]
             path == [i \in DOMAIN p.path |->
                        IF i = 1 THEN C!Hidden(m, p.path[i], TRUE) ELSE p.path[i]]
  <2>1. d = C!Phrase(TRUE, before, path)
    BY <1>4 DEF C!Declared
  <2>2. before \in Seq(Spoken)
    <3>1. \A i \in DOMAIN p.before : before[i] \in Spoken
      <4>1. \A i \in DOMAIN p.before : p.before[i] \in Spoken
        BY <1>1
      <4>2. \A i \in DOMAIN p.before : Covered(m, C!Place(p.before[i], TRUE))
        BY <1>4, DeclaredCover DEF DeclaredCovered
      <4> QED BY <4>1, <4>2, HiddenTellsNothing
    <3>2. DOMAIN before = 1..Len(p.before) /\ before = [i \in DOMAIN before |-> before[i]]
      BY <1>2
    <3> HIDE DEF before
    <3> QED BY <1>2, <3>1, <3>2, MadeSequence
  <2>3. path \in Seq(Spoken) /\ Len(path) = Len(p.path)
    <3>1. \A i \in DOMAIN p.path : path[i] \in Spoken
      <4>1. \A i \in DOMAIN p.path : p.path[i] \in Spoken
        BY <1>1
      <4>2. Covered(m, C!Place(p.path[1], TRUE))
        BY <1>4, DeclaredCover DEF DeclaredCovered
      <4>3. C!Hidden(m, p.path[1], TRUE) \in Spoken
        BY <1>2, <4>1, <4>2, HiddenTellsNothing
      <4> QED BY <4>1, <4>3
    <3>2. DOMAIN path = 1..Len(p.path) /\ path = [i \in DOMAIN path |-> path[i]]
      BY <1>2
    <3> HIDE DEF path
    <3> QED BY <1>2, <3>1, <3>2, MadeSequence
  <2>4. DOMAIN before = DOMAIN p.before /\ DOMAIN path = DOMAIN p.path /\ 1 \in DOMAIN path
    BY <1>2
  <2>5. \A i \in DOMAIN p.before : before[i] = C!Hidden(m, p.before[i], TRUE)
    OBVIOUS
  <2>6. path[1] = C!Hidden(m, p.path[1], TRUE)
    BY <1>2
  <2> HIDE DEF before, path
  <2>7. d.declares = TRUE /\ d.before = before /\ d.path = path
    BY <2>1 DEF C!Phrase
  <2>8. path # << >>
    BY <2>4
  <2>9. d \in SpokenPhrases
    BY <2>1, <2>2, <2>3, <2>8 DEF C!Phrase, SpokenPhrases
  <2> HIDE DEF d
  <2>10. d.declares = p.declares
    BY <1>1, <1>4, <2>7
  <2>11. \A i \in DOMAIN p.before : p.declares => d.before[i] = C!Hidden(m, p.before[i], TRUE)
    BY <2>5, <2>7
  <2>12. ~p.declares => d = p
    BY <1>4
  <2>13. p.declares => d.path[1] = C!Hidden(m, p.path[1], TRUE)
    BY <2>6, <2>7
  <2>14. /\ DOMAIN d.before = DOMAIN p.before
         /\ DOMAIN d.path = DOMAIN p.path /\ Len(d.path) = Len(p.path)
    BY <2>3, <2>4, <2>7
  <2>15. DeclaredAs(m, p, d)
    BY <2>9, <2>10, <2>11, <2>12, <2>13, <2>14 DEF DeclaredAs
  <2> QED BY <2>15 DEF d
<1> QED BY <1>1, <1>3, <1>4

(* And after the second.                                                   *)
UsedAs(m, p, u) ==
    /\ u \in SpokenPhrases /\ u.declares = p.declares
    /\ DOMAIN u.before = DOMAIN p.before
    /\ DOMAIN u.path = DOMAIN p.path /\ Len(u.path) = Len(p.path)
    /\ \A i \in DOMAIN p.before : u.before[i] = C!Hidden(m, p.before[i], FALSE)
    /\ \A i \in DOMAIN p.path : u.path[i] = C!Hidden(m, p.path[i], i < Len(p.path))

LEMMA UsedIs ==
  ASSUME NEW m, Sound(m), NEW p \in SpokenPhrases, CoveredAll(m, C!UsedPlaces(p))
  PROVE  UsedAs(m, p, C!Used(m, p))
<1> DEFINE u == C!Used(m, p)
<1>1. /\ p.before \in Seq(Spoken) /\ p.path \in Seq(Spoken) /\ p.path # << >> /\ p.declares \in BOOLEAN
  BY DEF SpokenPhrases
<1>2. /\ Len(p.before) \in Nat /\ DOMAIN p.before = 1..Len(p.before)
      /\ Len(p.path) \in Nat /\ DOMAIN p.path = 1..Len(p.path) /\ 1 \in DOMAIN p.path
  BY <1>1
<1> DEFINE before == [i \in DOMAIN p.before |-> C!Hidden(m, p.before[i], FALSE)]
           path == [i \in DOMAIN p.path |-> C!Hidden(m, p.path[i], i < Len(p.path))]
<1>3. u = C!Phrase(p.declares, before, path)
  BY DEF C!Used
<1>4. before \in Seq(Spoken)
  <2>1. \A i \in DOMAIN p.before : before[i] \in Spoken
    <3>1. \A i \in DOMAIN p.before : p.before[i] \in Spoken
      BY <1>1
    <3>2. \A i \in DOMAIN p.before : Covered(m, C!Place(p.before[i], FALSE))
      BY UsedCover DEF UsedCovered
    <3> QED BY <3>1, <3>2, HiddenTellsNothing
  <2>2. DOMAIN before = 1..Len(p.before) /\ before = [i \in DOMAIN before |-> before[i]]
    BY <1>2
  <2> HIDE DEF before
  <2> QED BY <1>2, <2>1, <2>2, MadeSequence
<1>5. path \in Seq(Spoken) /\ Len(path) = Len(p.path)
  <2>1. ASSUME NEW i \in DOMAIN p.path
        PROVE  path[i] \in Spoken
    <3>1. p.path[i] \in Spoken
      BY <1>1
    <3>2. Covered(m, C!Place(p.path[i], i < Len(p.path)))
      BY UsedCover DEF UsedCovered
    <3>3. (i < Len(p.path)) \in BOOLEAN
      OBVIOUS
    <3>4. C!Hidden(m, p.path[i], i < Len(p.path)) \in Spoken
      BY <3>1, <3>2, <3>3, HiddenTellsNothing
    <3> QED BY <3>4
  <2>2. DOMAIN path = 1..Len(p.path) /\ path = [i \in DOMAIN path |-> path[i]]
    BY <1>2
  <2> HIDE DEF path
  <2> QED BY <1>2, <2>1, <2>2, MadeSequence
<1>6. DOMAIN before = DOMAIN p.before /\ DOMAIN path = DOMAIN p.path /\ 1 \in DOMAIN path
  BY <1>2
<1>7. /\ \A i \in DOMAIN p.before : before[i] = C!Hidden(m, p.before[i], FALSE)
      /\ \A i \in DOMAIN p.path : path[i] = C!Hidden(m, p.path[i], i < Len(p.path))
  OBVIOUS
<1> HIDE DEF before, path
<1>8. u.declares = p.declares /\ u.before = before /\ u.path = path
  BY <1>3 DEF C!Phrase
<1>9. u \in SpokenPhrases
  <2>1. path # << >>
    BY <1>6
  <2> QED BY <1>1, <1>3, <1>4, <1>5, <2>1 DEF C!Phrase, SpokenPhrases
<1> HIDE DEF u
<1>10. UsedAs(m, p, u)
  BY <1>5, <1>6, <1>7, <1>8, <1>9 DEF UsedAs
<1> QED BY <1>10 DEF u

(* A phrase after both, by a map m and one that has grown out of it.       *)
Twice(m, n, p) == C!Used(n, C!Declared(m, p))

(* What a map makes of a phrase that comes back.                           *)
Restored(m, p) ==
    C!Phrase(p.declares, [i \in DOMAIN p.before |-> C!Real(m, p.before[i])],
             [i \in DOMAIN p.path |-> C!Real(m, p.path[i])])

BothCovered(m, n, p) ==
    /\ CoveredAll(m, C!DeclaredPlaces(p))
    /\ CoveredAll(n, C!UsedPlaces(C!Declared(m, p)))

(* No phrase tells a name after both passes.                               *)
LEMMA TwiceTellsNothing ==
  ASSUME NEW m, NEW n, Sound(m), Sound(n), NEW p \in SpokenPhrases, BothCovered(m, n, p)
  PROVE  Twice(m, n, p) \in SpokenPhrases /\ ~C!Tells(Twice(m, n, p))
<1> DEFINE d == C!Declared(m, p)
           u == Twice(m, n, p)
<1>1. DeclaredAs(m, p, d) /\ (p.declares => DeclaredCovered(m, p))
  BY DeclaredIs, DeclaredCover DEF BothCovered
<1>2. d \in SpokenPhrases
  BY <1>1 DEF DeclaredAs
<1>3. UsedAs(n, d, u) /\ UsedCovered(n, d)
  BY <1>2, UsedIs, UsedCover DEF BothCovered, Twice
<1> HIDE DEF d, u
<1>4. /\ d.before \in Seq(Spoken) /\ d.path \in Seq(Spoken) /\ d.path # << >>
      /\ u.before \in Seq(Spoken) /\ u.path \in Seq(Spoken)
      /\ p.before \in Seq(Spoken) /\ p.path \in Seq(Spoken) /\ p.path # << >>
  BY <1>1, <1>3 DEF SpokenPhrases, DeclaredAs, UsedAs
<1>5. ASSUME NEW i \in DOMAIN u.before
      PROVE  /\ u.before[i].kind # "type"
             /\ d.before[i].kind # "type" => u.before[i] = d.before[i]
  <2>1. i \in DOMAIN d.before
    BY <1>3 DEF UsedAs
  <2>2. d.before[i] \in Spoken
    BY <1>4, <2>1
  <2>3. Covered(n, C!Place(d.before[i], FALSE)) /\ u.before[i] = C!Hidden(n, d.before[i], FALSE)
    BY <1>3, <2>1, Zenon DEF UsedAs, UsedCovered
  <2> QED BY <2>2, <2>3, HiddenTellsNothing
<1>6. ASSUME NEW i \in DOMAIN u.path
      PROVE  /\ u.path[i].kind # "type"
             /\ i < Len(u.path) => u.path[i].kind # "lower"
             /\ ~(i < Len(u.path)) /\ d.path[i].kind # "type" => u.path[i] = d.path[i]
  <2>1. i \in DOMAIN d.path /\ Len(u.path) = Len(d.path)
    BY <1>3 DEF UsedAs
  <2>2. d.path[i] \in Spoken
    BY <1>4, <2>1
  <2>3. /\ Covered(n, C!Place(d.path[i], i < Len(d.path)))
        /\ u.path[i] = C!Hidden(n, d.path[i], i < Len(d.path))
    BY <1>3, <2>1, Zenon DEF UsedAs, UsedCovered
  <2>5. /\ u.path[i].kind # "type"
        /\ (i < Len(d.path)) => u.path[i].kind # "lower"
        /\ d.path[i].kind # "type" /\ ~(i < Len(d.path)) => u.path[i] = d.path[i]
    <3>1. CASE i < Len(d.path)
      <4>1. Covered(n, C!Place(d.path[i], TRUE)) /\ u.path[i] = C!Hidden(n, d.path[i], TRUE)
        BY <2>3, <3>1
      <4>2. u.path[i].kind # "type" /\ u.path[i].kind # "lower"
        BY <2>2, <4>1, HiddenInPath
      <4> QED BY <3>1, <4>2
    <3>2. CASE ~(i < Len(d.path))
      <4>1. Covered(n, C!Place(d.path[i], FALSE)) /\ u.path[i] = C!Hidden(n, d.path[i], FALSE)
        <5>1. (i < Len(d.path)) = FALSE
          BY <3>2
        <5> QED BY <2>3, <5>1
      <4> QED BY <2>2, <3>2, <4>1, HiddenTellsNothing
    <3> QED BY <3>1, <3>2
  <2> QED BY <2>1, <2>5
<1>7. ASSUME p.declares
      PROVE  \A i \in DOMAIN C!Dotted(u) : C!Dotted(u)[i].kind # "lower"
  <2>1. \A i \in DOMAIN u.before : u.before[i].kind # "lower"
    <3>1. ASSUME NEW i \in DOMAIN u.before
          PROVE  d.before[i].kind # "type" /\ d.before[i].kind # "lower"
      <4>1. i \in DOMAIN p.before
        BY <1>1, <1>3 DEF DeclaredAs, UsedAs
      <4>2. p.before[i] \in Spoken
        BY <1>4, <4>1
      <4>3. Covered(m, C!Place(p.before[i], TRUE))
        BY <1>1, <1>7, <4>1, Zenon DEF DeclaredCovered
      <4>4. d.before[i] = C!Hidden(m, p.before[i], TRUE)
        BY <1>1, <1>7, <4>1 DEF DeclaredAs
      <4> QED BY <4>2, <4>3, <4>4, HiddenInPath
    <3> QED BY <1>5, <3>1
  <2>2. 1 \in DOMAIN u.path /\ u.path[1].kind # "lower"
    <3>1. 1 \in DOMAIN d.path /\ 1 \in DOMAIN p.path
      BY <1>4
    <3>2. p.path[1] \in Spoken
      BY <1>4, <3>1
    <3>3. Covered(m, C!Place(p.path[1], TRUE)) /\ d.path[1] = C!Hidden(m, p.path[1], TRUE)
      BY <1>1, <1>7, Zenon DEF DeclaredAs, DeclaredCovered
    <3>4. d.path[1].kind # "type" /\ d.path[1].kind # "lower"
      BY <3>2, <3>3, HiddenInPath
    <3>5. 1 \in DOMAIN u.path
      BY <1>3, <3>1 DEF UsedAs
    <3> QED BY <1>6, <3>4, <3>5
  <2>3. ASSUME NEW i \in DOMAIN C!Dotted(u)
        PROVE  C!Dotted(u)[i].kind # "lower"
    <3>1. C!Dotted(u)[i] = u.path[1] \/ (i \in DOMAIN u.before /\ C!Dotted(u)[i] = u.before[i])
      BY <1>4, <2>3 DEF C!Dotted
    <3> QED BY <2>1, <2>2, <3>1
  <2> QED BY <2>3
<1>8. ~C!Tells(u)
  BY <1>1, <1>3, <1>5, <1>6, <1>7 DEF C!Tells, DeclaredAs, UsedAs
<1> QED BY <1>3, <1>8 DEF u, UsedAs

(* And an ordinary one comes back.                                         *)
LEMMA TwiceComesBack ==
  ASSUME NEW m, NEW n, NEW k, Sound(m), Sound(n), Sound(k), Grown(m, n), Grown(n, k),
         NEW p \in SpokenPhrases, BothCovered(m, n, p), C!Ordinary(p)
  PROVE  Restored(k, Twice(m, n, p)) = p
<1> DEFINE d == C!Declared(m, p)
           u == Twice(m, n, p)
<1>1. DeclaredAs(m, p, d) /\ (p.declares => DeclaredCovered(m, p))
  BY DeclaredIs, DeclaredCover DEF BothCovered
<1>2. d \in SpokenPhrases
  BY <1>1 DEF DeclaredAs
<1>3. UsedAs(n, d, u) /\ UsedCovered(n, d)
  BY <1>2, UsedIs, UsedCover DEF BothCovered, Twice
<1> HIDE DEF d, u
<1>4. /\ d.before \in Seq(Spoken) /\ d.path \in Seq(Spoken)
      /\ p.before \in Seq(Spoken) /\ p.path \in Seq(Spoken) /\ p.path # << >>
  BY <1>1 DEF SpokenPhrases, DeclaredAs
<1>5. Grown(m, k)
  BY GrownFurther
<1>6. ASSUME NEW i \in DOMAIN p.before
      PROVE  C!Real(k, u.before[i]) = p.before[i]
  <2>1. ~C!IsPlaceholder(p.before[i]) /\ p.before[i] \in Spoken
    BY <1>4 DEF C!Ordinary
  <2>2. i \in DOMAIN d.before
    BY <1>1 DEF DeclaredAs
  <2>5. d.before[i] \in Spoken
    BY <1>4, <2>2
  <2>6. Covered(n, C!Place(d.before[i], FALSE)) /\ u.before[i] = C!Hidden(n, d.before[i], FALSE)
    BY <1>3, <2>2, Zenon DEF UsedAs, UsedCovered
  <2>3. CASE p.declares
    <3>1. Covered(m, C!Place(p.before[i], TRUE)) /\ d.before[i] = C!Hidden(m, p.before[i], TRUE)
      BY <1>1, <2>3 DEF DeclaredAs, DeclaredCovered
    <3>2. d.before[i].kind # "type"
      BY <2>1, <3>1, HiddenTellsNothing
    <3>3. u.before[i] = d.before[i]
      BY <2>5, <2>6, <3>2, HiddenTellsNothing
    <3>4. C!Real(k, C!Hidden(m, p.before[i], TRUE)) = p.before[i]
      BY <1>5, <2>1, <3>1, HiddenComesBack
    <3> QED BY <3>1, <3>3, <3>4
  <2>4. CASE ~p.declares
    <3>1. d = p
      BY <1>1, <2>4 DEF DeclaredAs
    <3>2. Covered(n, C!Place(p.before[i], FALSE)) /\ u.before[i] = C!Hidden(n, p.before[i], FALSE)
      BY <2>6, <3>1
    <3>3. C!Real(k, C!Hidden(n, p.before[i], FALSE)) = p.before[i]
      BY <2>1, <3>2, HiddenComesBack
    <3> QED BY <3>2, <3>3
  <2> QED BY <2>3, <2>4
<1>7. ASSUME NEW i \in DOMAIN p.path
      PROVE  C!Real(k, u.path[i]) = p.path[i]
  <2>1. ~C!IsPlaceholder(p.path[i]) /\ p.path[i] \in Spoken
    BY <1>4 DEF C!Ordinary
  <2>2. i \in DOMAIN d.path
    BY <1>1 DEF DeclaredAs
  <2>5. d.path[i] \in Spoken
    BY <1>4, <2>2
  <2>6. /\ Covered(n, C!Place(d.path[i], i < Len(d.path)))
        /\ u.path[i] = C!Hidden(n, d.path[i], i < Len(d.path))
    BY <1>3, <2>2, Zenon DEF UsedAs, UsedCovered
  <2>3. CASE p.declares
    <3>1. Len(p.path) = 1 /\ i = 1 /\ Len(d.path) = 1
      BY <1>1, <1>4, <2>3 DEF C!Ordinary, DeclaredAs
    <3>2. Covered(m, C!Place(p.path[1], TRUE)) /\ d.path[1] = C!Hidden(m, p.path[1], TRUE)
      BY <1>1, <2>3 DEF DeclaredAs, DeclaredCovered
    <3>3. d.path[1].kind # "type"
      BY <2>1, <3>1, <3>2, HiddenTellsNothing
    <3>4. ~(i < Len(d.path)) /\ (i < Len(d.path)) \in BOOLEAN
      BY <3>1
    <3>5. u.path[i] = d.path[i]
      BY <2>5, <2>6, <3>1, <3>3, <3>4, HiddenTellsNothing
    <3>6. Covered(m, C!Place(p.path[i], TRUE)) /\ u.path[i] = C!Hidden(m, p.path[i], TRUE)
      BY <3>1, <3>2, <3>5
    <3>7. C!Real(k, C!Hidden(m, p.path[i], TRUE)) = p.path[i]
      BY <1>5, <2>1, <3>6, HiddenComesBack
    <3> QED BY <3>6, <3>7
  <2>4. CASE ~p.declares
    <3>1. d = p
      BY <1>1, <2>4 DEF DeclaredAs
    <3>2. /\ Covered(n, C!Place(p.path[i], i < Len(p.path)))
          /\ u.path[i] = C!Hidden(n, p.path[i], i < Len(p.path))
      BY <2>6, <3>1
    <3>3. C!Real(k, C!Hidden(n, p.path[i], i < Len(p.path))) = p.path[i]
      BY <2>1, <3>2, HiddenComesBack
    <3> QED BY <3>2, <3>3
  <2> QED BY <2>3, <2>4
<1>8. /\ [i \in DOMAIN u.before |-> C!Real(k, u.before[i])] = p.before
      /\ [i \in DOMAIN u.path |-> C!Real(k, u.path[i])] = p.path
  BY <1>1, <1>3, <1>4, <1>6, <1>7 DEF DeclaredAs, UsedAs
<1>9. p = [declares |-> p.declares, before |-> p.before, path |-> p.path]
  BY DEF SpokenPhrases
<1>10. Restored(k, u) = p
  BY <1>1, <1>3, <1>8, <1>9 DEF Restored, C!Phrase, DeclaredAs, UsedAs
<1> QED BY <1>10 DEF u

-----------------------------------------------------------------------------
(* Texts, and the consultation *)

(* What a map makes of a text that was anonymized and comes back.          *)
ComesBack(n, text, said) ==
    \A k : Sound(k) /\ Grown(n, k) =>
      \A i \in DOMAIN text : C!Ordinary(text[i]) => Restored(k, said[i]) = text[i]

AnonymizedAs(m, text, q) ==
    /\ Sound(q.map) /\ Grown(m, q.map)
    /\ q.text \in Seq(SpokenPhrases) /\ Len(q.text) = Len(text)
    /\ \A i \in DOMAIN text : ~C!Tells(q.text[i])
    /\ ComesBack(q.map, text, q.text)

(* No phrase of an anonymized text tells a name, and the names come back   *)
(* by the map it was made with or any that has grown out of it.            *)
LEMMA AnonymizedIs ==
  ASSUME NEW m, Sound(m), NEW text \in Seq(SpokenPhrases)
  PROVE  AnonymizedAs(m, text, C!Anonymized(m, text))
<1> DEFINE first == [i \in DOMAIN text |-> C!DeclaredPlaces(text[i])]
           m1 == C!NotedEach(m, first)
           once == [i \in DOMAIN text |-> C!Declared(m1, text[i])]
           second == [i \in DOMAIN once |-> C!UsedPlaces(once[i])]
           m2 == C!NotedEach(m1, second)
           said == [i \in DOMAIN once |-> C!Used(m2, once[i])]
           q == C!Anonymized(m, text)
<1>1. q = [map |-> m2, text |-> said]
  BY DEF C!Anonymized
<1>2. Len(text) \in Nat /\ DOMAIN text = 1..Len(text) /\ \A i \in DOMAIN text : text[i] \in SpokenPhrases
  OBVIOUS
<1>3. EnteredEach(m, first, m1) /\ Len(first) = Len(text)
  <2>1. DOMAIN first = 1..Len(text) /\ first = [i \in DOMAIN first |-> first[i]]
    BY <1>2
  <2>2. \A i \in 1..Len(text) : first[i] = C!DeclaredPlaces(text[i])
    BY <1>2
  <2>3. \A i \in 1..Len(text) : first[i] \in {first[j] : j \in DOMAIN first}
    BY <2>1
  <2> HIDE DEF first
  <2>4. Len(first) = Len(text)
    BY <1>2, <2>1, <2>3, MadeSequence
  <2>5. \A i \in 1..Len(first) : Len(first[i]) \in Nat
    BY <1>2, <2>2, <2>4, DeclaredCover
  <2> QED BY <1>2, <2>4, <2>5, NotedEachEnters
<1>4. Sound(m1) /\ Grown(m, m1)
  BY <1>3 DEF EnteredEach
<1>5. ASSUME NEW i \in DOMAIN text
      PROVE  CoveredAll(m1, C!DeclaredPlaces(text[i])) /\ once[i] = C!Declared(m1, text[i])
  <2>1. first[i] = C!DeclaredPlaces(text[i])
    OBVIOUS
  <2>2. once[i] = C!Declared(m1, text[i])
    OBVIOUS
  <2> HIDE DEF first, m1, once
  <2> QED BY <1>2, <1>3, <2>1, <2>2 DEF EnteredEach
<1>6. DOMAIN once = 1..Len(text) /\ DOMAIN said = 1..Len(text)
  BY <1>2
<1>7. \A i \in 1..Len(text) : second[i] = C!UsedPlaces(once[i])
  BY <1>6
<1>8. /\ DOMAIN second = 1..Len(text) /\ second = [i \in DOMAIN second |-> second[i]]
      /\ \A i \in 1..Len(text) : second[i] \in {second[j] : j \in DOMAIN second}
  BY <1>6
<1>9. said = [i \in DOMAIN said |-> said[i]] /\ \A i \in 1..Len(text) : said[i] = C!Used(m2, once[i])
  BY <1>6
<1> HIDE DEF first, m1, once, second
<1>10. ASSUME NEW i \in DOMAIN text
       PROVE  once[i] \in SpokenPhrases
  <2>1. DeclaredAs(m1, text[i], C!Declared(m1, text[i]))
    BY <1>2, <1>4, <1>5, DeclaredIs
  <2> QED BY <1>5, <2>1 DEF DeclaredAs
<1>11. EnteredEach(m1, second, m2) /\ Len(second) = Len(text)
  <2>1. Len(second) = Len(text)
    BY <1>2, <1>8, MadeSequence
  <2>2. \A i \in 1..Len(second) : Len(second[i]) \in Nat
    BY <1>2, <1>7, <1>10, <2>1, UsedCover
  <2> QED BY <1>2, <1>4, <2>1, <2>2, NotedEachEnters
<1> HIDE DEF m2, said, q
<1>12. Sound(m2) /\ Grown(m1, m2) /\ Grown(m, m2)
  BY <1>4, <1>11, GrownFurther DEF EnteredEach
<1>13. ASSUME NEW i \in DOMAIN text
       PROVE  BothCovered(m1, m2, text[i]) /\ said[i] = Twice(m1, m2, text[i])
  <2>1. CoveredAll(m2, C!UsedPlaces(once[i]))
    BY <1>2, <1>7, <1>11 DEF EnteredEach
  <2> QED BY <1>2, <1>5, <1>9, <2>1 DEF BothCovered, Twice
<1>14. \A i \in DOMAIN text : said[i] \in SpokenPhrases /\ ~C!Tells(said[i])
  BY <1>2, <1>4, <1>12, <1>13, TwiceTellsNothing
<1>15. said \in Seq(SpokenPhrases) /\ Len(said) = Len(text)
  BY <1>2, <1>6, <1>9, <1>14, MadeSequence
<1>16. ComesBack(m2, text, said)
  <2>1. ASSUME NEW k, Sound(k), Grown(m2, k), NEW i \in DOMAIN text, C!Ordinary(text[i])
        PROVE  Restored(k, said[i]) = text[i]
    <3>1. Restored(k, Twice(m1, m2, text[i])) = text[i]
      BY <1>2, <1>4, <1>12, <1>13, <2>1, TwiceComesBack
    <3> QED BY <1>13, <3>1
  <2> QED BY <2>1 DEF ComesBack
<1>17. AnonymizedAs(m, text, q)
  <2>1. q.map = m2 /\ q.text = said
    BY <1>1
  <2> QED BY <1>12, <1>14, <1>15, <1>16, <2>1 DEF AnonymizedAs
<1> QED BY <1>17 DEF q

(* What is ready to be sent: nothing in it tells a name, and the names     *)
(* come back, if the phrases are ordinary.                                 *)
Ready(n, asked, said) ==
    /\ said # << >>
    /\ \A i \in DOMAIN said : ~C!Tells(said[i])
    /\ (\A i \in DOMAIN asked : C!Ordinary(asked[i])) => C!Deanonymized(n, said) = asked

LEMMA TextsAreSpoken ==
  ASSUME NEW text \in Texts
  PROVE  text \in Seq(SpokenPhrases) /\ text # << >>
<1>1. text \in Seq(C!Phrases) /\ text # << >>
  BY ConsultAssumption DEF C!WellFormed
<1>2. \A i \in DOMAIN text : text[i] \in SpokenPhrases
  <2>1. ASSUME NEW i \in DOMAIN text
        PROVE  text[i] \in SpokenPhrases
    <3>1. text[i] \in C!Phrases
      BY <1>1
    <3>2. PICK p \in C!Phrases : p = text[i]
      BY <3>1
    <3>3. \A w \in Seq(Words) : w \in Seq(Spoken)
      BY DEF Spoken
    <3> QED BY <3>2, <3>3 DEF C!Phrases, SpokenPhrases
  <2> QED BY <2>1
<1>3. Len(text) \in Nat /\ DOMAIN text = 1..Len(text) /\ text = [i \in DOMAIN text |-> text[i]]
  BY <1>1
<1> QED BY <1>1, <1>2, <1>3, MadeSequence

(* Question and example, made with one map.                                *)
LEMMA HiddenIsReady ==
  ASSUME request \in C!Requests, C!Hide
  PROVE  Ready(map', C!Asked, payload')
<1> DEFINE question == request.question
           example == request.example
           q == C!Anonymized(C!Fresh, question)
           e == IF example = NoText THEN [map |-> q.map, text |-> << >>]
                ELSE C!Anonymized(q.map, example)
           told == IF example = NoText THEN << >> ELSE example
<1>1. map' = e.map /\ payload' = q.text \o e.text
  BY DEF C!Hide
<1>2. question \in Texts /\ (example # NoText => example \in Texts)
  BY DEF C!Requests
<1>3. question \in Seq(SpokenPhrases) /\ question # << >> /\ told \in Seq(SpokenPhrases)
  BY <1>2, TextsAreSpoken
<1>4. C!Asked = question \o told
  <2>1. CASE example = NoText
    <3>1. C!Asked = question /\ told = << >>
      BY <2>1 DEF C!Asked
    <3> HIDE DEF question, told
    <3> QED BY <1>3, <3>1, ConcatEmptySeq
  <2>2. CASE example # NoText
    BY <2>2 DEF C!Asked
  <2> QED BY <2>1, <2>2
<1>5. AnonymizedAs(C!Fresh, question, q)
  BY <1>3, AnonymizedIs, FreshIsSound
<1>6. AnonymizedAs(q.map, told, e)
  <2>1. Sound(q.map)
    BY <1>5 DEF AnonymizedAs
  <2>2. CASE example = NoText
    <3>1. e = [map |-> q.map, text |-> << >>] /\ told = << >>
      BY <2>2
    <3> HIDE DEF e, q, told
    <3>2. e.map = q.map /\ e.text = << >>
      BY <3>1
    <3>3. Grown(q.map, q.map)
      BY DEF Grown
    <3>4. << >> \in Seq(SpokenPhrases) /\ DOMAIN << >> = {}
      OBVIOUS
    <3>5. ComesBack(e.map, told, e.text) /\ \A i \in DOMAIN told : ~C!Tells(e.text[i])
      BY <3>1, <3>4 DEF ComesBack
    <3> QED BY <2>1, <3>1, <3>2, <3>3, <3>4, <3>5 DEF AnonymizedAs
  <2>3. CASE example # NoText
    <3>1. e = C!Anonymized(q.map, example) /\ told = example
      BY <2>3
    <3> HIDE DEF e, q, told, example
    <3> QED BY <1>3, <2>1, <3>1, AnonymizedIs
  <2> QED BY <2>2, <2>3
<1> HIDE DEF question, q, e, told
<1> DEFINE said == q.text \o e.text
           asked == question \o told
<1>7. /\ q.text \in Seq(SpokenPhrases) /\ Len(q.text) = Len(question)
      /\ e.text \in Seq(SpokenPhrases) /\ Len(e.text) = Len(told)
      /\ Sound(q.map) /\ Sound(e.map) /\ Grown(q.map, e.map)
  BY <1>5, <1>6 DEF AnonymizedAs
<1>8. /\ said \in Seq(SpokenPhrases) /\ asked \in Seq(SpokenPhrases)
      /\ Len(said) = Len(asked) /\ DOMAIN said = DOMAIN asked /\ said # << >>
      /\ DOMAIN asked = 1..(Len(question) + Len(told))
  <2>1. Len(question) \in Nat /\ Len(told) \in Nat /\ Len(question) # 0
    BY <1>3
  <2>2. asked \in Seq(SpokenPhrases) /\ Len(asked) = Len(question) + Len(told)
    BY <1>3, ConcatProperties
  <2>4. said \in Seq(SpokenPhrases) /\ Len(said) = Len(q.text) + Len(e.text)
    BY <1>7, ConcatProperties
  <2> HIDE DEF said, asked
  <2>5. Len(said) = Len(question) + Len(told)
    BY <1>7, <2>4
  <2>6. Len(said) # 0
    BY <2>1, <2>5
  <2>7. DOMAIN said = 1..Len(said) /\ said # << >>
    <3>1. DOMAIN said = 1..Len(said)
      BY <2>4
    <3>2. Len(<< >>) = 0
      OBVIOUS
    <3>3. said # << >>
      BY <2>6, <3>2
    <3> QED BY <3>1, <3>3
  <2>8. DOMAIN asked = 1..Len(asked)
    BY <2>2
  <2> QED BY <2>2, <2>4, <2>5, <2>7, <2>8
<1>9. ASSUME NEW i \in DOMAIN asked
      PROVE  \/ i \in DOMAIN question /\ said[i] = q.text[i] /\ asked[i] = question[i]
             \/ \E j \in DOMAIN told : said[i] = e.text[j] /\ asked[i] = told[j]
  <2>1. Len(question) \in Nat /\ Len(told) \in Nat /\ i \in 1..(Len(question) + Len(told))
    BY <1>3, <1>8
  <2>4. /\ asked[i] = IF i <= Len(question) THEN question[i] ELSE told[i - Len(question)]
        /\ said[i] = IF i <= Len(question) THEN q.text[i] ELSE e.text[i - Len(question)]
    <3>1. asked[i] = IF i <= Len(question) THEN question[i] ELSE told[i - Len(question)]
      BY <1>3, <2>1, ConcatProperties
    <3>2. Len(q.text) = Len(question) /\ Len(e.text) = Len(told)
      BY <1>7
    <3>3. i \in 1..(Len(q.text) + Len(e.text))
      BY <2>1, <3>2
    <3>4. said[i] = IF i <= Len(q.text) THEN q.text[i] ELSE e.text[i - Len(q.text)]
      BY <1>7, <3>3, ConcatProperties
    <3> HIDE DEF said, asked
    <3> QED BY <3>1, <3>2, <3>4
  <2> HIDE DEF said, asked
  <2>2. CASE i <= Len(question)
    BY <1>3, <2>1, <2>2, <2>4
  <2>3. CASE ~(i <= Len(question))
    <3>1. i - Len(question) \in DOMAIN told
      BY <1>3, <2>1, <2>3
    <3>2. said[i] = e.text[i - Len(question)] /\ asked[i] = told[i - Len(question)]
      BY <2>3, <2>4
    <3> QED BY <3>1, <3>2
  <2> QED BY <2>2, <2>3
<1> HIDE DEF said, asked
<1>10. \A i \in DOMAIN said : ~C!Tells(said[i])
  BY <1>5, <1>6, <1>8, <1>9 DEF AnonymizedAs
<1>11. ASSUME \A i \in DOMAIN asked : C!Ordinary(asked[i])
       PROVE  C!Deanonymized(e.map, said) = asked
  <2>1. Grown(e.map, e.map)
    BY DEF Grown
  <2>2. ASSUME NEW i \in DOMAIN asked
        PROVE  Restored(e.map, said[i]) = asked[i]
    <3>1. C!Ordinary(asked[i])
      BY <1>11
    <3>2. ASSUME i \in DOMAIN question, said[i] = q.text[i], asked[i] = question[i]
          PROVE  Restored(e.map, said[i]) = asked[i]
      BY <1>5, <1>7, <3>1, <3>2 DEF AnonymizedAs, ComesBack
    <3>3. ASSUME NEW j \in DOMAIN told, said[i] = e.text[j], asked[i] = told[j]
          PROVE  Restored(e.map, said[i]) = asked[i]
      BY <1>6, <1>7, <2>1, <3>1, <3>3 DEF AnonymizedAs, ComesBack
    <3> QED BY <1>9, <3>2, <3>3
  <2>3. C!Deanonymized(e.map, said) = [i \in DOMAIN said |-> Restored(e.map, said[i])]
    BY DEF C!Deanonymized, Restored
  <2>4. asked = [i \in DOMAIN asked |-> asked[i]]
    BY <1>8
  <2> QED BY <1>8, <2>2, <2>3, <2>4
<1>12. Ready(e.map, asked, said)
  BY <1>8, <1>10, <1>11 DEF Ready
<1> QED BY <1>1, <1>4, <1>12 DEF said, asked

(* Until it is over nothing has left and nothing is logged; past the scan  *)
(* there is no secret; what goes on to be sent is ready, and was seen, or  *)
(* need not be.                                                            *)
ConsultInv ==
    /\ request \in C!Requests
    /\ stage \in {"scan", "hide", "review", "send", "done"}
    /\ stage # "done" => log = << >> /\ left = << >> /\ answer.is = "none"
    /\ stage \in {"hide", "review", "send"} => request.secret \in {"nowhere", "sample"}
    /\ stage \in {"review", "send"} => Ready(map, C!Asked, payload)
    /\ stage = "send" => setup.waived \/ (shown = payload /\ setup.desk # "none")
    /\ C!NothingLeavesUnseen /\ C!NamesComeBack /\ C!LogIsTrue

LEMMA ConsultStarts == C!Init => ConsultInv
BY DEF C!Init, ConsultInv, C!Without, C!NothingLeavesUnseen, C!NamesComeBack, C!LogIsTrue

LEMMA ConsultSteps == ConsultInv /\ [C!Next]_consult => ConsultInv'
<1> SUFFICES ASSUME ConsultInv, [C!Next]_consult PROVE ConsultInv'
  OBVIOUS
<1>1. CASE C!Scan
  <2>1. CASE request.secret \in {"question", "example"}
    <3>1. log' = <<"blocked-secrets">> /\ answer'.is = "blocked" /\ left' = << >> /\ stage' = "done"
      BY <1>1, <2>1 DEF C!Scan, ConsultInv, C!Ends, C!Without, C!Log
    <3> QED BY <1>1, <3>1 DEF C!Scan, ConsultInv, C!NothingLeavesUnseen, C!NamesComeBack, C!LogIsTrue
  <2>2. CASE request.secret \notin {"question", "example"}
    <3>1. stage' = "hide" /\ UNCHANGED <<answer, log>> /\ stage = "scan" /\ request.secret \in {"nowhere", "sample"}
      BY <1>1, <2>2 DEF C!Scan, ConsultInv, C!Requests
    <3> QED BY <1>1, <3>1
            DEF C!Scan, ConsultInv, C!Asked, C!NothingLeavesUnseen, C!NamesComeBack, C!LogIsTrue
  <2> QED BY <2>1, <2>2
<1>2. CASE C!Hide
  <2>1. Ready(map', C!Asked, payload')
    BY <1>2, HiddenIsReady DEF ConsultInv
  <2> QED BY <1>2, <2>1
          DEF C!Hide, ConsultInv, C!Asked, C!NothingLeavesUnseen, C!NamesComeBack, C!LogIsTrue
<1>3. CASE C!Review
  <2>1. /\ stage = "review" /\ log = << >> /\ left = << >> /\ answer.is = "none"
        /\ UNCHANGED <<request, setup, map, payload, left>>
    BY <1>3 DEF C!Review, ConsultInv
  <2>2. \/ stage' = "send" /\ UNCHANGED <<answer, log>> /\ setup.desk # "none" /\ shown' = payload
        \/ /\ stage' = "done" /\ answer'.is \in {"skipped", "declined"}
           /\ log' \in {<<"declined-noninteractive">>, <<"declined">>}
        \/ stage' = "done" /\ answer'.is = "error" /\ log' = << >>
    BY <1>3, <2>1 DEF C!Review, C!Ends, C!Without, C!Log
  <2>3. CASE stage' = "send" /\ UNCHANGED <<answer, log>>
    BY <2>1, <2>2, <2>3
       DEF ConsultInv, C!Asked, C!NothingLeavesUnseen, C!NamesComeBack, C!LogIsTrue
  <2>4. CASE /\ stage' = "done" /\ answer'.is \in {"skipped", "declined"}
             /\ log' \in {<<"declined-noninteractive">>, <<"declined">>}
    <3>1. Len(log') = 1 /\ \A i \in DOMAIN log' : log'[i] \notin {"sent", "sent-auto"}
      BY <2>4
    <3> QED BY <2>1, <2>4, <3>1
            DEF ConsultInv, C!NothingLeavesUnseen, C!NamesComeBack, C!LogIsTrue
  <2>5. CASE stage' = "done" /\ answer'.is = "error" /\ log' = << >>
    BY <2>1, <2>5 DEF ConsultInv, C!NothingLeavesUnseen, C!NamesComeBack, C!LogIsTrue
  <2> QED BY <2>2, <2>3, <2>4, <2>5
<1>4. CASE C!Send
  <2>1. /\ stage = "send" /\ stage' = "done" /\ left' = payload /\ Len(log') = 1
        /\ answer' = [is |-> "answer", text |-> C!Deanonymized(map, payload)]
        /\ UNCHANGED <<request, setup, map, payload, shown>>
    BY <1>4 DEF C!Send, ConsultInv, C!Ends, C!Log
  <2>2. Ready(map, C!Asked, payload)
    BY <2>1 DEF ConsultInv
  <2>3. C!NothingLeavesUnseen'
    BY <2>1, <2>2 DEF ConsultInv, C!NothingLeavesUnseen, Ready
  <2>4. C!NamesComeBack'
    BY <2>1, <2>2 DEF C!NamesComeBack, C!Asked, Ready
  <2>5. C!LogIsTrue'
    BY <2>1, <2>2 DEF C!LogIsTrue, Ready
  <2> QED BY <2>1, <2>3, <2>4, <2>5 DEF ConsultInv
<1>5. CASE C!SendFails
  <2>1. /\ stage = "send" /\ stage' = "done" /\ left' \in {payload, << >>} /\ log' = << >>
        /\ answer'.is = "error" /\ UNCHANGED <<request, setup, map, payload, shown>>
    BY <1>5 DEF C!SendFails, ConsultInv, C!Ends, C!Without
  <2>2. Ready(map, C!Asked, payload)
    BY <2>1 DEF ConsultInv
  <2>3. C!NothingLeavesUnseen'
    BY <2>1, <2>2 DEF ConsultInv, C!NothingLeavesUnseen, Ready
  <2> QED BY <2>1, <2>3 DEF ConsultInv, C!NamesComeBack, C!LogIsTrue
<1>6. CASE UNCHANGED consult
  <2>1. UNCHANGED <<request, setup, stage, map, payload, shown, left, log, answer>>
    BY <1>6 DEF consult
  <2>2. C!Asked' = C!Asked
    BY <2>1 DEF C!Asked
  <2>3. Ready(map, C!Asked, payload) = Ready(map, C!Asked, payload)'
    BY <2>1, <2>2 DEF Ready, C!Deanonymized
  <2>4. C!NothingLeavesUnseen' /\ C!NamesComeBack' /\ C!LogIsTrue'
    BY <2>1, <2>2 DEF ConsultInv, C!NothingLeavesUnseen, C!NamesComeBack, C!LogIsTrue
  <2> QED BY <2>1, <2>2, <2>3, <2>4 DEF ConsultInv
<1> QED BY <1>1, <1>2, <1>3, <1>4, <1>5, <1>6 DEF C!Next

(* Whatever is asked, and whatever words are in it: no secret and no name  *)
(* leaves, and nothing that the user has not seen and agreed to, unless he *)
(* waived that; the answer comes with the names that were asked about; and *)
(* the log does not lie.                                                   *)
THEOREM ConsultSafety == BoundariesSpec => []ConsultationsAreSafe
<1> DEFINE Inv == part = "consult" => ConsultInv
<1>1. BoundariesInit => Inv
  BY PartsStart, ConsultStarts
<1>2. Inv /\ [BoundariesNext]_all => Inv'
  BY PartsStep, ConsultSteps
<1>3. Inv => ConsultationsAreSafe
  BY DEF ConsultInv, ConsultationsAreSafe
<1> QED BY <1>1, <1>2, <1>3, PTL DEF BoundariesSpec

-----------------------------------------------------------------------------
(* Streams: the bytes of a frame *)

Streaming ==
    /\ dialect \in {"anthropic", "openai"} /\ eol \in {"lf", "crlf"}
    /\ stream \in Seq(F!Kinds)

Bytes == [is : {"LF", "CR", "note", "data"}, of : Nat, half : 0..2]
Breaks == {"LF", "CR"}
EolLen == IF eol = "lf" THEN 1 ELSE 2

LEMMA SomeBytes ==
  /\ F!LF \in Bytes /\ F!CR \in Bytes /\ F!Note \in Bytes
  /\ F!LF.is = "LF" /\ F!CR.is = "CR" /\ F!Note.is = "note"
  /\ F!LF # F!CR
BY DEF F!LF, F!CR, F!Note, F!Byte, Bytes

LEMMA DataBytes ==
  ASSUME NEW k \in Nat, NEW j \in 1..2
  PROVE  /\ F!Byte("data", k, j) \in Bytes /\ F!Byte("data", k, j).is = "data"
         /\ F!Byte("data", k, j).of = k /\ F!Byte("data", k, j).half = j
BY DEF F!Byte, Bytes

LEMMA EolIs ==
  ASSUME Streaming
  PROVE  /\ F!EndOfLine \in Seq(Bytes) /\ Len(F!EndOfLine) = EolLen /\ EolLen \in {1, 2}
         /\ F!EndOfLine[EolLen] = F!LF /\ (EolLen = 2 => F!EndOfLine[1] = F!CR)
         /\ (eol = "lf" <=> EolLen = 1)
<1>1. CASE eol = "lf"
  <2>1. F!EndOfLine = <<F!LF>>
    BY <1>1 DEF F!EndOfLine
  <2> QED BY <1>1, <2>1, SomeBytes DEF EolLen
<1>2. CASE eol = "crlf"
  <2>1. F!EndOfLine = <<F!CR, F!LF>>
    BY <1>2 DEF F!EndOfLine
  <2> QED BY <1>2, <2>1, SomeBytes DEF EolLen
<1> QED BY <1>1, <1>2 DEF Streaming

LEMMA HalvesAre ==
  ASSUME NEW k \in Nat
  PROVE  /\ F!Halves(k) \in Seq(Bytes) /\ Len(F!Halves(k)) = 2
         /\ F!Halves(k)[1] = F!Byte("data", k, 1) /\ F!Halves(k)[2] = F!Byte("data", k, 2)
BY DataBytes DEF F!Halves

(* A body begins and ends with a byte that breaks no line, no two breaks   *)
(* of lines are next to each other in it, and its data come last.          *)
DataOf(x) == {i \in 1..Len(x) : x[i].is = "data"}
BodyFits(x, k) ==
    /\ x \in Seq(Bytes) /\ Len(x) \in Nat \ {0}
    /\ x[1].is \notin Breaks /\ x[Len(x)].is \notin Breaks
    /\ \A i \in 1..(Len(x) - 1) : x[i].is = "LF" => x[i + 1].is \notin Breaks
    /\ IF stream[k] = "note" THEN DataOf(x) = {} /\ Len(x) = 1
       ELSE /\ Len(x) >= 2 /\ DataOf(x) = {Len(x) - 1, Len(x)}
            /\ x[Len(x) - 1] = F!Byte("data", k, 1)
            /\ x[Len(x)] = F!Byte("data", k, IF stream[k] = "bad" THEN 1 ELSE 2)

LEMMA BodyIs ==
  ASSUME Streaming, NEW k \in 1..Len(stream)
  PROVE  BodyFits(F!Body(k), k)
<1>1. k \in Nat /\ stream[k] \in {"event", "noted", "note", "bad"}
  BY Lengths DEF Streaming, F!Kinds
<1>2. CASE stream[k] = "event"
  <2> DEFINE x == F!Body(k)
  <2>1. x = F!Halves(k)
    BY <1>2 DEF F!Body
  <2> HIDE DEF x
  <2>2. /\ x \in Seq(Bytes) /\ Len(x) = 2
        /\ x[1] = F!Byte("data", k, 1) /\ x[2] = F!Byte("data", k, 2)
    BY <1>1, <2>1, HalvesAre
  <2>3. x[1].is = "data" /\ x[2].is = "data"
    BY <1>1, <2>2, DataBytes
  <2>4. DataOf(x) = {1, 2}
    BY <2>2, <2>3 DEF DataOf
  <2> QED BY <1>2, <2>2, <2>3, <2>4 DEF BodyFits, Breaks, x
<1>3. CASE stream[k] = "noted"
  <2> DEFINE y == <<F!Note>> \o F!EndOfLine
             x == y \o F!Halves(k)
             e == EolLen
  <2>1. /\ e \in {1, 2} /\ F!EndOfLine \in Seq(Bytes) /\ Len(F!EndOfLine) = e
        /\ F!EndOfLine[e] = F!LF /\ (e = 2 => F!EndOfLine[1] = F!CR)
    BY EolIs
  <2> HIDE DEF e
  <2>2. /\ <<F!Note>> \in Seq(Bytes) /\ Len(<<F!Note>>) = 1 /\ <<F!Note>>[1] = F!Note
    BY SomeBytes
  <2>3. /\ y \in Seq(Bytes) /\ Len(y) = 1 + e
        /\ \A i \in 1..(1 + e) : y[i] = IF i <= 1 THEN F!Note ELSE F!EndOfLine[i - 1]
    BY <2>1, <2>2, ConcatProperties
  <2> HIDE DEF y
  <2>4. /\ x \in Seq(Bytes) /\ Len(x) = 3 + e
        /\ \A i \in 1..(3 + e) : x[i] = IF i <= 1 + e THEN y[i] ELSE F!Halves(k)[i - (1 + e)]
    BY <1>1, <2>1, <2>3, HalvesAre, ConcatProperties
  <2>5. F!Body(k) = x
    BY <1>3 DEF F!Body, y
  <2> HIDE DEF x
  <2>6. /\ x[1] = F!Note /\ x[1 + e] = F!LF /\ (e = 2 => x[2] = F!CR)
        /\ x[2 + e] = F!Byte("data", k, 1) /\ x[3 + e] = F!Byte("data", k, 2)
    BY <1>1, <2>1, <2>3, <2>4, HalvesAre
  <2>7. /\ x[1].is = "note" /\ x[1 + e].is = "LF" /\ (e = 2 => x[2].is = "CR")
        /\ x[2 + e].is = "data" /\ x[3 + e].is = "data"
    BY <1>1, <2>6, SomeBytes, DataBytes
  <2>8. \A i \in 1..(3 + e) : i \in {1, 1 + e, 2 + e, 3 + e} \/ (e = 2 /\ i = 2)
    BY <2>1
  <2>9. DataOf(x) = {2 + e, 3 + e}
    <3>1. \A i \in 1..(3 + e) : x[i].is = "data" => i \in {2 + e, 3 + e}
      BY <2>1, <2>7, <2>8
    <3>2. 2 + e \in 1..Len(x) /\ 3 + e \in 1..Len(x) /\ Len(x) = 3 + e
      BY <2>1, <2>4
    <3> QED BY <2>7, <3>1, <3>2 DEF DataOf
  <2>10. \A i \in 1..(2 + e) : x[i].is = "LF" => x[i + 1].is = "data"
    BY <2>1, <2>7, <2>8
  <2>11. Len(x) \in Nat \ {0} /\ Len(x) - 1 = 2 + e /\ Len(x) >= 2
    BY <2>1, <2>4
  <2>12. BodyFits(x, k)
    BY <1>3, <2>4, <2>6, <2>7, <2>9, <2>10, <2>11 DEF BodyFits, Breaks
  <2> QED BY <2>5, <2>12
<1>4. CASE stream[k] = "note"
  <2>1. F!Body(k) = <<F!Note>>
    BY <1>4 DEF F!Body
  <2>2. F!Note \in Bytes /\ F!Note.is = "note"
    BY SomeBytes
  <2> QED BY <1>4, <2>1, <2>2 DEF BodyFits, Breaks, DataOf
<1>5. CASE stream[k] = "bad"
  <2> DEFINE x == F!Body(k)
  <2>1. x = <<F!Byte("data", k, 1), F!Byte("data", k, 1)>>
    BY <1>5 DEF F!Body
  <2> HIDE DEF x
  <2>2. /\ x \in Seq(Bytes) /\ Len(x) = 2
        /\ x[1] = F!Byte("data", k, 1) /\ x[2] = F!Byte("data", k, 1)
    BY <1>1, <2>1, DataBytes
  <2>3. x[1].is = "data" /\ x[2].is = "data"
    BY <1>1, <2>2, DataBytes
  <2>4. DataOf(x) = {1, 2}
    BY <2>2, <2>3 DEF DataOf
  <2> QED BY <1>5, <2>2, <2>3, <2>4 DEF BodyFits, Breaks, x
<1> QED BY <1>1, <1>2, <1>3, <1>4, <1>5

(* A frame: its body, then the break of a line twice.                      *)
FrameFits(x, k) ==
    /\ x \in Seq(Bytes) /\ Len(x) = Len(F!Body(k)) + EolLen + EolLen
    /\ \A i \in 1..Len(F!Body(k)) : x[i] = F!Body(k)[i]
    /\ x[Len(F!Body(k)) + EolLen] = F!LF /\ x[Len(F!Body(k)) + EolLen + EolLen] = F!LF
    /\ EolLen = 2 => x[Len(F!Body(k)) + 1] = F!CR /\ x[Len(F!Body(k)) + 3] = F!CR

LEMMA FrameIs ==
  ASSUME Streaming, NEW k \in 1..Len(stream)
  PROVE  FrameFits(F!Frame(k), k)
<1> DEFINE body == F!Body(k)
           eols == F!EndOfLine
           e == EolLen
           z == body \o eols
           x == z \o eols
<1>1. body \in Seq(Bytes) /\ Len(body) \in Nat \ {0}
  BY BodyIs DEF BodyFits
<1>2. /\ eols \in Seq(Bytes) /\ Len(eols) = e /\ e \in {1, 2}
      /\ eols[e] = F!LF /\ (e = 2 => eols[1] = F!CR)
  BY EolIs
<1>3. F!Frame(k) = x
  BY DEF F!Frame
<1> HIDE DEF body, eols, e
<1>4. /\ z \in Seq(Bytes) /\ Len(z) = Len(body) + e
      /\ \A i \in 1..(Len(body) + e) : z[i] = IF i <= Len(body) THEN body[i] ELSE eols[i - Len(body)]
  BY <1>1, <1>2, ConcatProperties
<1> HIDE DEF z
<1>5. /\ x \in Seq(Bytes) /\ Len(x) = Len(body) + e + e
      /\ \A i \in 1..(Len(body) + e + e) :
           x[i] = IF i <= Len(body) + e THEN z[i] ELSE eols[i - (Len(body) + e)]
  BY <1>1, <1>2, <1>4, ConcatProperties
<1> HIDE DEF x
<1>6. \A i \in 1..Len(body) : x[i] = body[i]
  BY <1>1, <1>2, <1>4, <1>5
<1>7. x[Len(body) + e] = F!LF /\ x[Len(body) + e + e] = F!LF
  <2>1. Len(body) + e \in 1..(Len(body) + e) /\ ~(Len(body) + e <= Len(body))
    BY <1>1, <1>2
  <2>2. x[Len(body) + e] = z[Len(body) + e]
    BY <1>1, <1>2, <1>5
  <2>3. z[Len(body) + e] = eols[(Len(body) + e) - Len(body)]
    BY <1>4, <2>1
  <2>4. Len(body) + e + e \in 1..(Len(body) + e + e) /\ ~(Len(body) + e + e <= Len(body) + e)
    BY <1>1, <1>2
  <2>5. x[Len(body) + e + e] = eols[(Len(body) + e + e) - (Len(body) + e)]
    BY <1>5, <2>4
  <2>6. (Len(body) + e) - Len(body) = e /\ (Len(body) + e + e) - (Len(body) + e) = e
    BY <1>1, <1>2
  <2> QED BY <1>2, <2>2, <2>3, <2>5, <2>6
<1>8. ASSUME e = 2 PROVE x[Len(body) + 1] = F!CR /\ x[Len(body) + 3] = F!CR
  <2> DEFINE n == Len(body)
  <2>1. n \in Nat /\ Len(body) = n
    BY <1>1
  <2> HIDE DEF n
  <2>2. /\ n + 1 \in 1..(n + e) /\ n + 1 \in 1..(n + e + e) /\ n + 3 \in 1..(n + e + e)
        /\ ~(n + 1 <= n) /\ n + 1 <= n + e /\ ~(n + 3 <= n + e)
        /\ (n + 1) - n = 1 /\ (n + 3) - (n + e) = 1
    BY <1>8, <2>1
  <2>3. x[n + 1] = z[n + 1] /\ x[n + 3] = eols[(n + 3) - (n + e)]
    BY <1>5, <2>1, <2>2
  <2>4. z[n + 1] = eols[(n + 1) - n]
    BY <1>4, <2>1, <2>2
  <2> QED BY <1>2, <1>8, <2>1, <2>2, <2>3, <2>4
<1> QED BY <1>3, <1>5, <1>6, <1>7, <1>8 DEF FrameFits, body, e

(* A function that each step takes from one value of a set to another.     *)
StepsThrough(start, step, g, n) == g[0] = start /\ \A k \in 1..n : g[k] = step[k][g[k - 1]]

LEMMA StepsExist ==
  ASSUME NEW limit \in Nat, NEW set, NEW start \in set, NEW step \in [1..limit -> [set -> set]]
  PROVE  \E g \in [0..limit -> set] : StepsThrough(start, step, g, limit)
<1> DEFINE T == {n \in 0..limit : \E g \in [0..n -> set] : StepsThrough(start, step, g, n)}
<1>1. 0 \in T
  <2> DEFINE g == [k \in 0..0 |-> start]
  <2>1. g \in [0..0 -> set] /\ StepsThrough(start, step, g, 0)
    BY DEF StepsThrough
  <2> HIDE DEF g
  <2> QED BY <2>1
<1>2. ASSUME NEW n \in 0..limit, n < limit, n \in T
      PROVE  n + 1 \in T
  <2>1. PICK g \in [0..n -> set] : StepsThrough(start, step, g, n)
    BY <1>2
  <2> DEFINE h == [k \in 0..(n + 1) |-> IF k <= n THEN g[k] ELSE step[n + 1][g[n]]]
  <2>2. step[n + 1][g[n]] \in set
    <3>1. n + 1 \in 1..limit /\ g[n] \in set
      BY <1>2, <2>1
    <3>2. step[n + 1] \in [set -> set]
      BY <3>1
    <3> QED BY <3>1, <3>2
  <2>3. h \in [0..(n + 1) -> set]
    BY <2>1, <2>2
  <2>4. h[0] = start
    BY <2>1 DEF StepsThrough
  <2>5. ASSUME NEW k \in 1..(n + 1)
        PROVE  h[k] = step[k][h[k - 1]]
    <3>1. k - 1 \in 0..n /\ h[k - 1] = g[k - 1]
      OBVIOUS
    <3>2. CASE k = n + 1
      <4>1. h[k] = step[n + 1][g[n]] /\ k - 1 = n
        BY <3>2
      <4> QED BY <3>1, <3>2, <4>1
    <3>3. CASE k # n + 1
      <4>1. k \in 1..n /\ h[k] = g[k]
        BY <3>3
      <4> QED BY <2>1, <3>1, <4>1 DEF StepsThrough
    <3> QED BY <3>2, <3>3
  <2> HIDE DEF h
  <2>6. StepsThrough(start, step, h, n + 1)
    BY <2>4, <2>5 DEF StepsThrough
  <2> QED BY <1>2, <2>3, <2>6
<1> HIDE DEF T
<1>3. \A n \in 0..limit : n \in T
  BY <1>1, <1>2, UpTo
<1>4. limit \in T
  BY <1>3
<1> QED BY <1>4 DEF T

LEMMA WireIs ==
  ASSUME Streaming
  PROVE  /\ F!Wire(0) = << >>
         /\ \A n \in 1..Len(stream) : F!Wire(n) = F!Wire(n - 1) \o F!Frame(n)
<1> DEFINE count == Len(stream)
           Then(f, n) == IF n = 0 THEN << >> ELSE f[n - 1] \o F!Frame(n)
           g == CHOOSE f : f = [n \in 0..count |-> Then(f, n)]
           step == [n \in 1..count |-> [s \in Seq(Bytes) |-> s \o F!Frame(n)]]
<1>1. \A n : F!Wire(n) = g[n]
  BY DEF F!Wire
<1>2. count \in Nat /\ << >> \in Seq(Bytes)
  BY Lengths DEF Streaming
<1>3. step \in [1..count -> [Seq(Bytes) -> Seq(Bytes)]]
  <2>1. ASSUME NEW n \in 1..count, NEW s \in Seq(Bytes)
        PROVE  s \o F!Frame(n) \in Seq(Bytes)
    <3>1. F!Frame(n) \in Seq(Bytes)
      BY FrameIs DEF FrameFits
    <3> QED BY <3>1, ConcatProperties
  <2> QED BY <2>1
<1> HIDE DEF count, step
<1>4. PICK h \in [0..count -> Seq(Bytes)] : StepsThrough(<< >>, step, h, count)
  BY <1>2, <1>3, StepsExist
<1>5. h = [n \in 0..count |-> Then(h, n)]
  <2>1. ASSUME NEW n \in 0..count PROVE h[n] = Then(h, n)
    <3>1. CASE n = 0
      BY <1>4, <3>1 DEF StepsThrough
    <3>2. CASE n # 0
      <4>1. n \in 1..count /\ n - 1 \in 0..count
        BY <1>2, <3>2
      <4>2. h[n] = step[n][h[n - 1]] /\ h[n - 1] \in Seq(Bytes)
        BY <1>4, <4>1 DEF StepsThrough
      <4>3. step[n][h[n - 1]] = h[n - 1] \o F!Frame(n)
        BY <4>1, <4>2 DEF step
      <4> QED BY <3>2, <4>2, <4>3
    <3> QED BY <3>1, <3>2
  <2>2. h = [n \in 0..count |-> h[n]]
    OBVIOUS
  <2> QED BY <2>1, <2>2
<1>6. g = [n \in 0..count |-> Then(g, n)]
  BY <1>5
<1> HIDE DEF g
<1>7. \A n \in 0..count : g[n] = Then(g, n)
  BY <1>6
<1>8. g[0] = << >>
  BY <1>2, <1>7
<1>9. ASSUME NEW n \in 1..count PROVE g[n] = g[n - 1] \o F!Frame(n)
  <2>1. n \in 0..count /\ n # 0
    BY <1>2
  <2> QED BY <1>7, <2>1
<1> QED BY <1>1, <1>8, <1>9 DEF count

Off(n) == Len(F!Wire(n))

LEMMA WireSteps ==
  ASSUME Streaming, NEW n \in 1..Len(stream), F!Wire(n - 1) \in Seq(Bytes)
  PROVE  /\ F!Wire(n) \in Seq(Bytes) /\ Off(n) = Off(n - 1) + Len(F!Frame(n))
         /\ \A i \in 1..Off(n - 1) : F!Wire(n)[i] = F!Wire(n - 1)[i]
         /\ \A i \in 1..Len(F!Frame(n)) : F!Wire(n)[Off(n - 1) + i] = F!Frame(n)[i]
<1> DEFINE x == F!Wire(n - 1)
           y == F!Frame(n)
           z == x \o y
<1>1. y \in Seq(Bytes)
  BY FrameIs DEF FrameFits
<1>2. F!Wire(n) = z
  BY WireIs
<1> HIDE DEF x, y
<1>3. x \in Seq(Bytes) /\ Len(x) \in Nat /\ Len(y) \in Nat
  BY <1>1 DEF x
<1>4. /\ z \in Seq(Bytes) /\ Len(z) = Len(x) + Len(y)
      /\ \A i \in 1..Len(x) + Len(y) : z[i] = IF i <= Len(x) THEN x[i] ELSE y[i - Len(x)]
  BY <1>1, <1>3, ConcatProperties
<1> HIDE DEF z
<1>5. \A i \in 1..Len(x) : z[i] = x[i]
  BY <1>3, <1>4
<1>6. ASSUME NEW i \in 1..Len(y) PROVE z[Len(x) + i] = y[i]
  <2>1. /\ Len(x) + i \in 1..Len(x) + Len(y) /\ ~(Len(x) + i <= Len(x))
        /\ (Len(x) + i) - Len(x) = i
    BY <1>3
  <2> QED BY <1>4, <2>1
<1> QED BY <1>2, <1>4, <1>5, <1>6 DEF Off, x, y

LEMMA WireFits ==
  ASSUME Streaming, NEW n \in 0..Len(stream)
  PROVE  F!Wire(n) \in Seq(Bytes) /\ Off(n) \in Nat
<1> DEFINE count == Len(stream)
           T == {k \in 0..count : F!Wire(k) \in Seq(Bytes)}
<1>1. count \in Nat
  BY Lengths DEF Streaming
<1>2. 0 \in T
  <2>1. << >> \in Seq(Bytes) /\ 0 \in 0..count
    BY <1>1
  <2>2. F!Wire(0) = << >>
    BY WireIs
  <2> QED BY <2>1, <2>2
<1>3. ASSUME NEW k \in 0..count, k < count, k \in T PROVE k + 1 \in T
  <2>1. k + 1 \in 1..count /\ (k + 1) - 1 = k
    BY <1>1, <1>3
  <2> QED BY <1>3, <2>1, WireSteps
<1> HIDE DEF T, count
<1>4. \A k \in 0..count : k \in T
  BY <1>1, <1>2, <1>3, UpTo
<1>5. n \in T
  BY <1>4 DEF count
<1> QED BY <1>5 DEF T, Off

(* Each frame adds bytes, and leaves those before it as they are.          *)
Grows(m, n) ==
    /\ Off(m) + (n - m) <= Off(n)
    /\ \A i \in 1..Off(m) : F!Wire(n)[i] = F!Wire(m)[i]

LEMMA WireGrows ==
  ASSUME Streaming, NEW m \in 0..Len(stream), NEW n \in 0..Len(stream), m <= n
  PROVE  Grows(m, n)
<1> DEFINE count == Len(stream)
           T == {k \in 0..count : m <= k => Grows(m, k)}
<1>1. count \in Nat /\ m \in Nat /\ Off(m) \in Nat
  BY Lengths, WireFits DEF Streaming
<1>2. Grows(m, m)
  BY <1>1 DEF Grows
<1>3. 0 \in T
  <2>1. m <= 0 => m = 0
    BY <1>1
  <2> QED BY <1>1, <1>2, <2>1
<1>4. ASSUME NEW k \in 0..count, k < count, k \in T PROVE k + 1 \in T
  <2>1. k + 1 \in 1..count /\ (k + 1) - 1 = k /\ k + 1 \in 0..count
    BY <1>1, <1>4
  <2>2. CASE m = k + 1
    BY <1>2, <2>1, <2>2
  <2>3. CASE m <= k
    <3>1. Grows(m, k)
      BY <1>4, <2>3
    <3>2. F!Wire(k) \in Seq(Bytes) /\ Off(k) \in Nat /\ Off(k + 1) \in Nat
      BY <1>4, <2>1, WireFits
    <3>3. /\ Off(k + 1) = Off(k) + Len(F!Frame(k + 1))
          /\ \A i \in 1..Off(k) : F!Wire(k + 1)[i] = F!Wire(k)[i]
      BY <2>1, <3>2, WireSteps
    <3>4. FrameFits(F!Frame(k + 1), k + 1) /\ BodyFits(F!Body(k + 1), k + 1) /\ EolLen \in {1, 2}
      BY <2>1, FrameIs, BodyIs, EolIs
    <3>5. Len(F!Frame(k + 1)) \in Nat \ {0}
      BY <3>4 DEF FrameFits, BodyFits
    <3>6. Off(m) + ((k + 1) - m) <= Off(k + 1)
      BY <1>1, <2>1, <3>1, <3>2, <3>3, <3>5 DEF Grows
    <3>7. \A i \in 1..Off(m) : i \in 1..Off(k)
      BY <1>1, <1>4, <2>3, <3>1, <3>2 DEF Grows
    <3>8. Grows(m, k + 1)
      BY <3>1, <3>3, <3>6, <3>7 DEF Grows
    <3> QED BY <2>1, <3>8
  <2>4. CASE ~(m <= k + 1)
    BY <2>1, <2>4
  <2> QED BY <1>1, <2>1, <2>2, <2>3, <2>4
<1> HIDE DEF T, count
<1>5. \A k \in 0..count : k \in T
  BY <1>1, <1>3, <1>4, UpTo
<1>6. n \in T
  BY <1>5 DEF count
<1> QED BY <1>6 DEF T

LEMMA WholeWire ==
  ASSUME Streaming, NEW c \in 0..Len(stream), c < Len(stream)
  PROVE  /\ c + 1 \in 1..Len(stream) /\ Off(c) \in Nat /\ Off(Len(stream)) \in Nat
         /\ Off(c + 1) = Off(c) + Len(F!Frame(c + 1)) /\ Off(c + 1) <= Off(Len(stream))
         /\ Len(F!Frame(c + 1)) \in Nat
         /\ \A i \in 1..Len(F!Frame(c + 1)) :
              F!Wire(Len(stream))[Off(c) + i] = F!Frame(c + 1)[i]
<1>1. Len(stream) \in Nat
  BY Lengths DEF Streaming
<1>2. /\ c + 1 \in 1..Len(stream) /\ c + 1 \in 0..Len(stream) /\ c + 1 <= Len(stream)
      /\ (c + 1) - 1 = c /\ Len(stream) \in 0..Len(stream) /\ Len(stream) - (c + 1) \in Nat
  BY <1>1
<1>3. /\ F!Wire(c) \in Seq(Bytes) /\ Off(c) \in Nat /\ Off(c + 1) \in Nat
      /\ Off(Len(stream)) \in Nat
  BY <1>2, WireFits
<1>4. /\ Off(c + 1) = Off(c) + Len(F!Frame(c + 1))
      /\ \A i \in 1..Len(F!Frame(c + 1)) : F!Wire(c + 1)[Off(c) + i] = F!Frame(c + 1)[i]
  BY <1>2, <1>3, WireSteps
<1>5. Grows(c + 1, Len(stream))
  BY <1>2, WireGrows
<1>6. Off(c + 1) <= Off(Len(stream))
  BY <1>2, <1>3, <1>5 DEF Grows
<1>7. Len(F!Frame(c + 1)) \in Nat
  BY <1>2, FrameIs, Lengths DEF FrameFits
<1>8. \A i \in 1..Len(F!Frame(c + 1)) : Off(c) + i \in 1..Off(c + 1)
  BY <1>3, <1>4, <1>7
<1>9. ASSUME NEW i \in 1..Len(F!Frame(c + 1))
      PROVE  F!Wire(Len(stream))[Off(c) + i] = F!Frame(c + 1)[i]
  BY <1>4, <1>5, <1>8, <1>9 DEF Grows
<1> QED BY <1>2, <1>3, <1>4, <1>6, <1>7, <1>9

(* With CR LF for the end of a line no two LF are next to each other.      *)
Single(x) == \A i \in 1..(Len(x) - 1) : x[i] = F!LF => x[i + 1] # F!LF

LEMMA FrameIsSingle ==
  ASSUME Streaming, eol = "crlf", NEW k \in 1..Len(stream)
  PROVE  Single(F!Frame(k)) /\ F!Frame(k)[1] # F!LF
<1> DEFINE x == F!Frame(k)
           n == Len(F!Body(k))
<1>1. FrameFits(x, k) /\ BodyFits(F!Body(k), k) /\ EolLen = 2
  BY FrameIs, BodyIs DEF EolLen
<1>2. F!LF.is = "LF" /\ F!CR # F!LF
  BY SomeBytes
<1>3. /\ n \in Nat \ {0} /\ Len(x) = n + 4
      /\ x[n + 1] = F!CR /\ x[n + 3] = F!CR /\ \A i \in 1..n : x[i] = F!Body(k)[i]
  BY <1>1 DEF BodyFits, FrameFits
<1>4. x[1].is \notin Breaks /\ x[n].is \notin Breaks
  BY <1>1, <1>3 DEF BodyFits
<1>5. \A i \in 1..(n - 1) : x[i].is = "LF" => x[i + 1].is \notin Breaks
  <2> SUFFICES ASSUME NEW i \in 1..(n - 1), x[i].is = "LF" PROVE x[i + 1].is \notin Breaks
    OBVIOUS
  <2>1. i \in 1..n /\ i + 1 \in 1..n
    BY <1>3
  <2> QED BY <1>1, <1>3, <2>1 DEF BodyFits
<1> HIDE DEF x, n
<1>6. ASSUME NEW i \in 1..(Len(x) - 1), x[i] = F!LF PROVE x[i + 1] # F!LF
  <2>1. CASE i < n
    BY <1>2, <1>3, <1>5, <1>6, <2>1 DEF Breaks
  <2>2. CASE i = n
    BY <1>2, <1>4, <1>6, <2>2 DEF Breaks
  <2>3. CASE i > n
    <3>1. i \in {n + 1, n + 2, n + 3}
      BY <1>3, <1>6, <2>3
    <3>2. i = n + 2 => x[i + 1] = F!CR
      BY <1>3
    <3> QED BY <1>2, <1>3, <1>6, <3>1, <3>2
  <2> QED BY <1>3, <1>6, <2>1, <2>2, <2>3
<1>7. x[1] # F!LF
  BY <1>2, <1>4 DEF Breaks
<1> QED BY <1>6, <1>7 DEF Single, x

LEMMA WireIsSingle ==
  ASSUME Streaming, eol = "crlf"
  PROVE  Single(F!Wire(Len(stream)))
<1> DEFINE count == Len(stream)
           T == {k \in 0..count : Single(F!Wire(k))}
<1>1. count \in Nat
  BY Lengths DEF Streaming
<1>2. 0 \in T
  <2>1. Len(F!Wire(0)) = 0
    BY WireIs
  <2> QED BY <1>1, <2>1 DEF Single
<1>3. ASSUME NEW k \in 0..count, k < count, k \in T PROVE k + 1 \in T
  <2> DEFINE x == F!Wire(k)
             y == F!Frame(k + 1)
             z == F!Wire(k + 1)
             m == Off(k)
  <2>1. k + 1 \in 1..count /\ (k + 1) - 1 = k /\ k + 1 \in 0..count
    BY <1>1, <1>3
  <2>2. x \in Seq(Bytes) /\ m \in Nat /\ Len(x) = m
    BY <1>3, WireFits DEF Off
  <2>3. /\ Len(z) = m + Len(y)
        /\ \A i \in 1..m : z[i] = x[i]
        /\ \A i \in 1..Len(y) : z[m + i] = y[i]
    BY <2>1, <2>2, WireSteps DEF Off
  <2>4. Single(y) /\ y[1] # F!LF /\ Single(x)
    BY <1>3, <2>1, FrameIsSingle
  <2>5. FrameFits(y, k + 1) /\ BodyFits(F!Body(k + 1), k + 1) /\ EolLen \in {1, 2}
    BY <2>1, FrameIs, BodyIs, EolIs
  <2>6. Len(y) \in Nat \ {0}
    BY <2>5 DEF FrameFits, BodyFits
  <2> HIDE DEF x, y, z, m
  <2>7. ASSUME NEW i \in 1..(Len(z) - 1), z[i] = F!LF PROVE z[i + 1] # F!LF
    <3>1. CASE i < m
      <4>1. i \in 1..(Len(x) - 1) /\ i \in 1..m /\ i + 1 \in 1..m
        BY <2>2, <3>1
      <4>2. z[i] = x[i] /\ z[i + 1] = x[i + 1]
        BY <2>3, <4>1
      <4> QED BY <2>4, <2>7, <4>1, <4>2 DEF Single
    <3>2. CASE i = m
      <4>1. z[i + 1] = y[1]
        BY <2>2, <2>3, <2>6, <3>2
      <4> QED BY <2>4, <4>1
    <3>3. CASE i > m
      <4> DEFINE j == i - m
      <4>1. /\ j \in 1..(Len(y) - 1) /\ j \in 1..Len(y) /\ j + 1 \in 1..Len(y)
            /\ m + j = i /\ m + (j + 1) = i + 1
        BY <2>2, <2>3, <2>6, <2>7, <3>3
      <4> HIDE DEF j
      <4>2. z[i] = y[j] /\ z[i + 1] = y[j + 1]
        BY <2>3, <4>1
      <4> QED BY <2>4, <2>7, <4>1, <4>2 DEF Single
    <3> QED BY <2>2, <2>7, <3>1, <3>2, <3>3
  <2>8. Single(z)
    BY <2>7 DEF Single
  <2> QED BY <2>1, <2>8 DEF z
<1> HIDE DEF T, count
<1>4. \A k \in 0..count : k \in T
  BY <1>1, <1>2, <1>3, UpTo
<1>5. count \in T
  BY <1>1, <1>4
<1> QED BY <1>5 DEF T, count

(* What the parser holds after c whole frames of the first m bytes.        *)
Held(c, m) == SubSeq(F!Wire(Len(stream)), Off(c) + 1, m)
Within(c, m) == c \in 0..Len(stream) /\ m \in Nat /\ Off(c) <= m /\ m <= Off(Len(stream))

HeldFits(x, c, m) ==
    /\ x \in Seq(Bytes) /\ Len(x) = m - Off(c) /\ Len(x) \in Nat
    /\ \A i \in 1..Len(x) : x[i] = F!Wire(Len(stream))[Off(c) + i]
    /\ c < Len(stream) =>
         \A i \in 1..Len(x) : i <= Len(F!Frame(c + 1)) => x[i] = F!Frame(c + 1)[i]
    /\ eol = "crlf" => Single(x)

LEMMA HeldIs ==
  ASSUME Streaming, NEW c, NEW m, Within(c, m)
  PROVE  HeldFits(Held(c, m), c, m)
<1> DEFINE w == F!Wire(Len(stream))
           x == Held(c, m)
           o == Off(c)
<1>1. c \in 0..Len(stream) /\ m \in Nat /\ Len(stream) \in 0..Len(stream)
  BY Lengths DEF Within, Streaming
<1>2. /\ w \in Seq(Bytes) /\ Len(w) \in Nat /\ o \in Nat /\ Len(w) = Off(Len(stream))
      /\ o <= m /\ m <= Len(w)
  BY <1>1, WireFits DEF Off, Within
<1>3. x = SubSeq(w, o + 1, m)
  BY DEF Held
<1>4. eol = "crlf" => Single(w)
  BY WireIsSingle
<1>5. ASSUME c < Len(stream)
      PROVE  /\ Len(F!Frame(c + 1)) \in Nat
             /\ \A i \in 1..Len(F!Frame(c + 1)) : w[o + i] = F!Frame(c + 1)[i]
  BY <1>1, <1>5, WholeWire
<1> HIDE DEF w, x, o
<1>6. \A i \in (o + 1)..m : w[i] \in Bytes
  BY <1>1, <1>2
<1>7. /\ x \in Seq(Bytes) /\ Len(x) = m - o /\ Len(x) \in Nat
      /\ \A i \in 1..(m - (o + 1) + 1) : x[i] = w[(o + 1) + i - 1]
  <2>1. o + 1 \in Int /\ m \in Int
    BY <1>1, <1>2
  <2>2. /\ SubSeq(w, o + 1, m) \in Seq(Bytes)
        /\ Len(SubSeq(w, o + 1, m)) = IF o + 1 <= m THEN m - (o + 1) + 1 ELSE 0
        /\ \A i \in 1..(m - (o + 1) + 1) : SubSeq(w, o + 1, m)[i] = w[(o + 1) + i - 1]
    BY <1>6, <2>1, SubSeqProperties
  <2> QED BY <1>1, <1>2, <1>3, <2>2
<1>8. \A i \in 1..Len(x) : x[i] = w[o + i]
  <2>1. \A i \in 1..Len(x) : i \in 1..(m - (o + 1) + 1) /\ (o + 1) + i - 1 = o + i
    BY <1>1, <1>2, <1>7
  <2> QED BY <1>7, <2>1
<1>9. c < Len(stream) => \A i \in 1..Len(x) : i <= Len(F!Frame(c + 1)) => x[i] = F!Frame(c + 1)[i]
  <2> SUFFICES ASSUME c < Len(stream), NEW i \in 1..Len(x), i <= Len(F!Frame(c + 1))
               PROVE  x[i] = F!Frame(c + 1)[i]
    OBVIOUS
  <2>1. i \in 1..Len(F!Frame(c + 1))
    BY <1>5, <1>7
  <2> QED BY <1>5, <1>8, <2>1
<1>10. eol = "crlf" => Single(x)
  <2> SUFFICES ASSUME eol = "crlf", NEW i \in 1..(Len(x) - 1), x[i] = F!LF
               PROVE  x[i + 1] # F!LF
    BY DEF Single
  <2>1. /\ i \in 1..Len(x) /\ i + 1 \in 1..Len(x)
        /\ o + i \in 1..(Len(w) - 1) /\ o + (i + 1) = (o + i) + 1
    BY <1>1, <1>2, <1>7
  <2> QED BY <1>4, <1>8, <2>1 DEF Single
<1> QED BY <1>7, <1>8, <1>9, <1>10 DEF HeldFits, x, w, o

-----------------------------------------------------------------------------
(* Streams: what the parser finds in the bytes it holds *)

TwoAt(x, p, q) == {i \in 1..(Len(x) - 1) : x[i] = p /\ x[i + 1] = q}

LEMMA TwoPlaces ==
  ASSUME NEW x, NEW p, NEW q, x \in Seq(Bytes)
  PROVE  F!Places(<<p, q>>, x) = TwoAt(x, p, q)
<1> DEFINE sep == <<p, q>>
<1>1. Len(x) \in Nat
  OBVIOUS
<1>2. Len(sep) = 2 /\ DOMAIN sep = 1..2 /\ sep[1] = p /\ sep[2] = q
  OBVIOUS
<1> HIDE DEF sep
<1>3. Len(x) - Len(sep) + 1 = Len(x) - 1
  BY <1>1, <1>2
<1>4. ASSUME NEW i \in 1..(Len(x) - 1)
      PROVE  (\A j \in DOMAIN sep : x[i + j - 1] = sep[j]) <=> x[i] = p /\ x[i + 1] = q
  <2>1. i + 1 - 1 = i /\ i + 2 - 1 = i + 1 /\ 1..2 = {1, 2}
    BY <1>4
  <2> QED BY <1>2, <2>1
<1>5. F!Places(sep, x) = {i \in 1..(Len(x) - 1) : \A j \in DOMAIN sep : x[i + j - 1] = sep[j]}
  BY <1>3 DEF F!Places
<1> QED BY <1>4, <1>5 DEF sep, TwoAt

FourAt(x, p, q) ==
    {i \in 1..(Len(x) - 3) : x[i] = p /\ x[i + 1] = q /\ x[i + 2] = p /\ x[i + 3] = q}

LEMMA FourPlaces ==
  ASSUME NEW x, NEW p, NEW q, x \in Seq(Bytes)
  PROVE  F!Places(<<p, q, p, q>>, x) = FourAt(x, p, q)
<1> DEFINE sep == <<p, q, p, q>>
<1>1. Len(x) \in Nat
  OBVIOUS
<1>2. /\ Len(sep) = 4 /\ DOMAIN sep = 1..4
      /\ sep[1] = p /\ sep[2] = q /\ sep[3] = p /\ sep[4] = q
  OBVIOUS
<1> HIDE DEF sep
<1>3. Len(x) - Len(sep) + 1 = Len(x) - 3
  BY <1>1, <1>2
<1>4. ASSUME NEW i \in 1..(Len(x) - 3)
      PROVE  (\A j \in DOMAIN sep : x[i + j - 1] = sep[j])
               <=> x[i] = p /\ x[i + 1] = q /\ x[i + 2] = p /\ x[i + 3] = q
  <2>1. /\ i + 1 - 1 = i /\ i + 2 - 1 = i + 1 /\ i + 3 - 1 = i + 2 /\ i + 4 - 1 = i + 3
        /\ 1..4 = {1, 2, 3, 4}
    BY <1>4
  <2> QED BY <1>2, <2>1
<1>5. F!Places(sep, x) = {i \in 1..(Len(x) - 3) : \A j \in DOMAIN sep : x[i + j - 1] = sep[j]}
  BY <1>3 DEF F!Places
<1> QED BY <1>4, <1>5 DEF sep, FourAt

LEMMA LeastIs ==
  ASSUME NEW T, NEW n \in T, \A k \in T : n <= k, T \subseteq Nat
  PROVE  F!Min(T) = n
<1>1. \E y \in T : \A k \in T : y <= k
  OBVIOUS
<1>2. /\ F!Min(T) \in T /\ \A k \in T : F!Min(T) <= k
  BY <1>1 DEF F!Min
<1> DEFINE m == F!Min(T)
<1>3. m \in Nat /\ n \in Nat /\ n <= m /\ m <= n
  BY <1>2
<1> HIDE DEF m
<1>4. m = n
  BY <1>3
<1> QED BY <1>4 DEF m

(* What begins as frame k does.                                            *)
Begins(x, k) ==
    /\ x \in Seq(Bytes)
    /\ \A i \in 1..Len(x) : i <= Len(F!Frame(k)) => x[i] = F!Frame(k)[i]

LEMMA BodyInFrame ==
  ASSUME Streaming, NEW k \in 1..Len(stream)
  PROVE  /\ Len(F!Body(k)) \in Nat \ {0} /\ EolLen \in {1, 2}
         /\ Len(F!Frame(k)) = Len(F!Body(k)) + EolLen + EolLen
         /\ F!Frame(k)[Len(F!Body(k))].is \notin Breaks
         /\ \A j \in 1..(Len(F!Body(k)) - 1) :
              F!Frame(k)[j].is = "LF" => F!Frame(k)[j + 1].is \notin Breaks
<1> DEFINE n == Len(F!Body(k))
           y == F!Frame(k)
<1>1. FrameFits(y, k) /\ BodyFits(F!Body(k), k) /\ EolLen \in {1, 2}
  BY FrameIs, BodyIs, EolIs
<1>2. /\ n \in Nat \ {0} /\ Len(y) = n + EolLen + EolLen
      /\ \A j \in 1..n : y[j] = F!Body(k)[j]
  BY <1>1 DEF BodyFits, FrameFits
<1>3. y[n].is \notin Breaks
  BY <1>1, <1>2 DEF BodyFits
<1>4. ASSUME NEW j \in 1..(n - 1), y[j].is = "LF" PROVE y[j + 1].is \notin Breaks
  <2>1. j \in 1..n /\ j + 1 \in 1..n
    BY <1>2
  <2> QED BY <1>1, <1>2, <1>4, <2>1 DEF BodyFits
<1> QED BY <1>1, <1>2, <1>3, <1>4

(* No empty line is in a body.                                             *)
LEMMA BodyHasNoBreak ==
  ASSUME Streaming, NEW k \in 1..Len(stream), NEW x, Begins(x, k),
         NEW i \in 1..(Len(x) - EolLen - EolLen + 1),
         x[i] \in {F!LF, F!CR},
         x[i + EolLen - 1] = F!LF, x[i + EolLen] \in {F!LF, F!CR}
  PROVE  i > Len(F!Body(k))
<1> DEFINE n == Len(F!Body(k))
           e == EolLen
           y == F!Frame(k)
<1>1. /\ n \in Nat \ {0} /\ e \in {1, 2} /\ Len(y) = n + e + e
      /\ y[n].is \notin Breaks
      /\ \A j \in 1..(n - 1) : y[j].is = "LF" => y[j + 1].is \notin Breaks
  BY BodyInFrame
<1>2. F!LF.is = "LF" /\ F!CR.is = "CR"
  BY SomeBytes
<1>3. x \in Seq(Bytes) /\ Len(x) \in Nat /\ \A j \in 1..Len(x) : j <= Len(y) => x[j] = y[j]
  BY DEF Begins
<1>4. /\ i \in 1..(Len(x) - e - e + 1) /\ x[i] \in {F!LF, F!CR}
      /\ x[i + e - 1] = F!LF /\ x[i + e] \in {F!LF, F!CR}
  OBVIOUS
<1> HIDE DEF n, e, y
<1>5. ASSUME i <= n PROVE FALSE
  <2>1. i \in 1..Len(x) /\ i <= Len(y) /\ x[i] = y[i]
    BY <1>1, <1>3, <1>4, <1>5
  <2>2. i # n
    BY <1>1, <1>2, <1>4, <2>1 DEF Breaks
  <2>3. i + e \in 1..Len(x) /\ i + e - 1 \in 1..Len(x)
    <3>1. i \in Nat /\ i >= 1 /\ i <= Len(x) - e - e + 1
      BY <1>4
    <3> QED BY <1>1, <1>3, <3>1
  <2>4. i + e - 1 <= n /\ i + e - 1 <= Len(y)
    <3>1. i \in Nat /\ i < n
      BY <1>1, <1>4, <1>5, <2>2
    <3> QED BY <1>1, <3>1
  <2>5. y[i + e - 1] = F!LF
    BY <1>3, <1>4, <2>3, <2>4
  <2>6. i + e - 1 # n
    BY <1>1, <1>2, <2>5 DEF Breaks
  <2>7. i + e - 1 \in 1..(n - 1) /\ (i + e - 1) + 1 = i + e /\ i + e <= Len(y)
    BY <1>1, <1>4, <2>3, <2>4, <2>6
  <2>8. y[i + e].is \notin Breaks
    BY <1>1, <1>2, <2>5, <2>7
  <2>9. y[i + e] \in {F!LF, F!CR}
    BY <1>3, <1>4, <2>3, <2>7
  <2> QED BY <1>2, <2>8, <2>9 DEF Breaks
<1>6. i > n
  BY <1>1, <1>4, <1>5
<1> QED BY <1>6 DEF n

(* The separator of the first frame is found when it is whole, and no      *)
(* other before.                                                           *)
SeparatorFits(s, x, k) ==
    IF Len(x) >= Len(F!Frame(k)) THEN s.at = Len(F!Body(k)) + 1 /\ s.len = EolLen + EolLen
    ELSE s.at = 0

LEMMA SeparatorIs ==
  ASSUME Streaming, NEW k \in 1..Len(stream), NEW x, Begins(x, k), eol = "crlf" => Single(x)
  PROVE  SeparatorFits(F!Separator(x), x, k)
<1> DEFINE n == Len(F!Body(k))
           y == F!Frame(k)
           two == F!Places(<<F!LF, F!LF>>, x)
           four == F!Places(<<F!CR, F!LF, F!CR, F!LF>>, x)
<1>1. /\ n \in Nat \ {0} /\ EolLen \in {1, 2} /\ Len(y) = n + EolLen + EolLen
      /\ \A j \in 1..(n - 1) : y[j].is = "LF" => y[j + 1].is \notin Breaks
  BY BodyInFrame
<1>2. /\ y[n + EolLen] = F!LF /\ y[n + EolLen + EolLen] = F!LF
      /\ EolLen = 2 => y[n + 1] = F!CR /\ y[n + 3] = F!CR
  BY FrameIs DEF FrameFits
<1>3. x \in Seq(Bytes) /\ Len(x) \in Nat /\ \A j \in 1..Len(x) : j <= Len(y) => x[j] = y[j]
  BY DEF Begins
<1>4. two = {i \in 1..(Len(x) - 1) : x[i] = F!LF /\ x[i + 1] = F!LF}
  <2>1. two = TwoAt(x, F!LF, F!LF)
    BY <1>3, TwoPlaces
  <2> HIDE DEF two
  <2> QED BY <2>1 DEF TwoAt
<1>5. four = {i \in 1..(Len(x) - 3) :
                x[i] = F!CR /\ x[i + 1] = F!LF /\ x[i + 2] = F!CR /\ x[i + 3] = F!LF}
  <2>1. four = FourAt(x, F!CR, F!LF)
    BY <1>3, FourPlaces
  <2> HIDE DEF four
  <2> QED BY <2>1 DEF FourAt
<1>6. F!Separator(x) = IF two # {} THEN [at |-> F!Min(two), len |-> 2]
                       ELSE IF four # {} THEN [at |-> F!Min(four), len |-> 4]
                       ELSE [at |-> 0, len |-> 0]
  BY DEF F!Separator
<1>7. two \subseteq Nat /\ four \subseteq Nat
  BY <1>4, <1>5
<1> HIDE DEF n, y, two, four
<1>8. CASE eol = "lf"
  <2>1. EolLen = 1
    BY <1>8 DEF EolLen
  <2>2. ASSUME NEW i \in two PROVE i >= n + 1
    <3>1. /\ i \in 1..(Len(x) - EolLen - EolLen + 1) /\ x[i] = F!LF
          /\ x[i + EolLen - 1] = F!LF /\ x[i + EolLen] = F!LF
      BY <1>3, <1>4, <2>1
    <3>2. i > n
      BY <3>1, BodyHasNoBreak DEF n
    <3> QED BY <1>1, <3>1, <3>2
  <2>3. CASE Len(x) >= Len(y)
    <3>1. n + 1 \in 1..Len(x) /\ n + 2 \in 1..Len(x) /\ n + 1 \in 1..(Len(x) - 1)
      BY <1>1, <1>3, <2>1, <2>3
    <3>2. x[n + 1] = F!LF /\ x[n + 2] = F!LF /\ (n + 1) + 1 = n + 2
      BY <1>1, <1>2, <1>3, <2>1, <2>3, <3>1
    <3>3. n + 1 \in two
      BY <1>4, <3>1, <3>2
    <3>4. F!Min(two) = n + 1
      BY <1>7, <2>2, <3>3, LeastIs
    <3> QED BY <1>6, <2>1, <2>3, <3>3, <3>4 DEF SeparatorFits, n, y
  <2>4. CASE ~(Len(x) >= Len(y))
    <3>1. two = {}
      BY <1>1, <1>3, <1>4, <2>1, <2>2, <2>4
    <3>2. ASSUME NEW i \in four PROVE FALSE
      <4>1. i \in 1..(Len(x) - 3) /\ x[i + 1] = F!LF /\ x[i + 2] = F!CR
        BY <1>5
      <4>2. /\ i + 1 \in 1..Len(x) /\ i + 2 \in 1..Len(x) /\ i + 1 \in 1..(n - 1)
            /\ (i + 1) + 1 = i + 2 /\ i + 1 <= Len(y) /\ i + 2 <= Len(y)
        <5>1. Len(y) = n + 2 /\ Len(x) < n + 2 /\ n \in Nat /\ Len(x) \in Nat
          BY <1>1, <1>3, <2>1, <2>4
        <5>2. i \in Nat /\ i >= 1 /\ i + 3 <= Len(x)
          BY <4>1, <5>1
        <5> QED BY <5>1, <5>2
      <4>3. y[i + 1] = F!LF /\ y[i + 2] = F!CR
        BY <1>3, <4>1, <4>2
      <4> QED BY <1>1, <4>2, <4>3, SomeBytes DEF Breaks
    <3> QED BY <1>6, <2>4, <3>1, <3>2 DEF SeparatorFits, y
  <2> QED BY <2>3, <2>4
<1>9. CASE eol = "crlf"
  <2>1. EolLen = 2 /\ two = {}
    BY <1>4, <1>9 DEF EolLen, Single
  <2>2. ASSUME NEW i \in four PROVE i >= n + 1
    <3>1. /\ i \in 1..(Len(x) - EolLen - EolLen + 1) /\ x[i] = F!CR
          /\ x[i + EolLen - 1] = F!LF /\ x[i + EolLen] = F!CR
      BY <1>3, <1>5, <2>1
    <3>2. i > n
      BY <3>1, BodyHasNoBreak DEF n
    <3> QED BY <1>1, <3>1, <3>2
  <2>3. CASE Len(x) >= Len(y)
    <3>1. /\ n + 1 \in 1..Len(x) /\ n + 2 \in 1..Len(x) /\ n + 3 \in 1..Len(x)
          /\ n + 4 \in 1..Len(x) /\ n + 1 \in 1..(Len(x) - 3)
      BY <1>1, <1>3, <2>1, <2>3
    <3>2. x[n + 1] = F!CR /\ x[n + 2] = F!LF /\ x[n + 3] = F!CR /\ x[n + 4] = F!LF
      BY <1>1, <1>2, <1>3, <2>1, <2>3, <3>1
    <3>3. (n + 1) + 1 = n + 2 /\ (n + 1) + 2 = n + 3 /\ (n + 1) + 3 = n + 4
      BY <1>1
    <3>4. n + 1 \in four
      BY <1>5, <3>1, <3>2, <3>3
    <3>5. F!Min(four) = n + 1
      BY <1>7, <2>2, <3>4, LeastIs
    <3> QED BY <1>6, <2>1, <2>3, <3>4, <3>5 DEF SeparatorFits, n, y
  <2>4. CASE ~(Len(x) >= Len(y))
    <3>1. ASSUME NEW i \in four PROVE FALSE
      <4>1. i >= n + 1
        BY <2>2
      <4>2. i \in Nat /\ i <= Len(x) - 3
        BY <1>3, <1>5
      <4>3. Len(x) < n + 4
        BY <1>1, <1>3, <2>1, <2>4
      <4> QED BY <1>1, <1>3, <4>1, <4>2, <4>3
    <3> QED BY <1>6, <2>1, <2>4, <3>1 DEF SeparatorFits, y
  <2> QED BY <2>3, <2>4
<1> QED BY <1>8, <1>9 DEF Streaming

LEMMA NoSeparator ==
  ASSUME NEW x \in Seq(Bytes), Len(x) = 0
  PROVE  F!Separator(x).at = 0
<1>1. ASSUME NEW sep, Len(sep) \in Nat, Len(sep) >= 2 PROVE F!Places(sep, x) = {}
  <2>1. 1..(Len(x) - Len(sep) + 1) = {}
    <3>1. Len(x) - Len(sep) + 1 < 1
      BY <1>1
    <3> QED BY <3>1
  <2> QED BY <2>1 DEF F!Places
<1>2. F!Places(<<F!LF, F!LF>>, x) = {}
  <2>1. Len(<<F!LF, F!LF>>) = 2
    OBVIOUS
  <2> QED BY <1>1, <2>1
<1>3. F!Places(<<F!CR, F!LF, F!CR, F!LF>>, x) = {}
  <2>1. Len(<<F!CR, F!LF, F!CR, F!LF>>) = 4
    OBVIOUS
  <2> QED BY <1>1, <2>1
<1> QED BY <1>2, <1>3 DEF F!Separator

(* What a frame, or what came of it, is read as.                           *)
IsEvent(k) == stream[k] \in {"event", "noted"}
ParsedFits(p, x, k) ==
    IF Len(x) >= Len(F!Body(k))
    THEN /\ p.fails = (stream[k] = "bad")
         /\ p.events = IF IsEvent(k) THEN <<k>> ELSE << >>
    ELSE p.events = << >> /\ (IsEvent(k) /\ Len(x) = Len(F!Body(k)) - 1 => p.fails)

(* What begins as the body of frame k does, with breaks of lines after.    *)
OfBody(x, k) ==
    /\ x \in Seq(Bytes)
    /\ \A i \in 1..Len(x) : IF i <= Len(F!Body(k)) THEN x[i] = F!Body(k)[i]
                            ELSE x[i].is \in Breaks

LEMMA ParsedIs ==
  ASSUME Streaming, NEW k \in 1..Len(stream), NEW x, OfBody(x, k)
  PROVE  ParsedFits(F!Parsed(x), x, k)
<1> DEFINE y == F!Body(k)
           n == Len(y)
           data == DataOf(x)
           first == x[F!Min(data)]
           p == F!Parsed(x)
<1>1. k \in Nat /\ stream[k] \in {"event", "noted", "note", "bad"}
  BY Lengths DEF Streaming, F!Kinds
<1>2. x \in Seq(Bytes) /\ Len(x) \in Nat /\ DOMAIN x = 1..Len(x)
  BY DEF OfBody
<1>3. data = {i \in DOMAIN x : x[i].is = "data"}
  BY <1>2 DEF DataOf
<1>4. p = IF data = {} THEN [events |-> << >>, fails |-> FALSE]
          ELSE IF \E i \in data : data = {F!Min(data), i} /\ <<first, x[i]>> = F!Halves(first.of)
          THEN [events |-> <<first.of>>, fails |-> FALSE]
          ELSE [events |-> << >>, fails |-> TRUE]
  BY <1>3 DEF F!Parsed
<1>5. BodyFits(y, k)
  BY BodyIs
<1>6. n \in Nat \ {0}
  BY <1>5 DEF BodyFits
<1>7. \A i \in 1..Len(x) : IF i <= n THEN x[i] = y[i] ELSE x[i].is \in Breaks
  BY DEF OfBody
<1>8. data = {i \in DataOf(y) : i <= Len(x)}
  <2>1. \A i : i \in data <=> i \in 1..Len(x) /\ i <= n /\ y[i].is = "data"
    BY <1>2, <1>6, <1>7 DEF DataOf, Breaks
  <2>2. \A i : i \in DataOf(y) <=> i \in 1..n /\ y[i].is = "data"
    BY DEF DataOf
  <2> QED BY <1>2, <1>6, <2>1, <2>2
<1>9. data \subseteq Nat
  BY DEF DataOf
<1> HIDE DEF p, data, y, n, first
<1>10. CASE stream[k] = "note"
  <2>1. DataOf(y) = {} /\ n = 1
    BY <1>5, <1>10 DEF BodyFits, n
  <2>2. p.fails = FALSE /\ p.events = << >>
    BY <1>4, <1>8, <2>1
  <2> QED BY <1>2, <1>10, <2>1, <2>2 DEF ParsedFits, IsEvent, p, n, y
<1>11. CASE stream[k] # "note"
  <2>1. /\ n >= 2 /\ DataOf(y) = {n - 1, n} /\ y[n - 1] = F!Byte("data", k, 1)
        /\ y[n] = F!Byte("data", k, IF stream[k] = "bad" THEN 1 ELSE 2)
    BY <1>5, <1>11 DEF BodyFits, n
  <2>2. CASE Len(x) >= n
    <3>1. data = {n - 1, n} /\ n - 1 \in 1..Len(x) /\ n \in 1..Len(x)
      BY <1>2, <1>6, <1>8, <2>1, <2>2
    <3>2. F!Min(data) = n - 1
      <4>1. n - 1 \in data /\ \A i \in data : n - 1 <= i
        BY <1>6, <3>1
      <4> QED BY <1>9, <4>1, LeastIs
    <3>3. first = F!Byte("data", k, 1) /\ x[n] = y[n] /\ first.of = k
      BY <1>1, <1>6, <1>7, <2>1, <3>1, <3>2, DataBytes DEF first
    <3>4. CASE stream[k] = "bad"
      <4>1. x[n].half = 1 /\ x[n - 1].half = 1
        BY <1>1, <2>1, <3>2, <3>3, <3>4, DataBytes DEF first
      <4>2. F!Halves(k)[2].half = 2
        BY <1>1, HalvesAre, DataBytes
      <4>3. \A i \in data : <<first, x[i]>> # F!Halves(first.of)
        BY <3>1, <3>3, <4>1, <4>2
      <4>4. p.fails = TRUE /\ p.events = << >>
        BY <1>4, <3>1, <4>3
      <4> QED BY <2>2, <3>4, <4>4 DEF ParsedFits, IsEvent, p, n, y
    <3>5. CASE stream[k] # "bad"
      <4>1. <<first, x[n]>> = F!Halves(k)
        BY <2>1, <3>3, <3>5 DEF F!Halves
      <4>2. \E i \in data : data = {F!Min(data), i} /\ <<first, x[i]>> = F!Halves(first.of)
        BY <3>1, <3>2, <3>3, <4>1
      <4>3. p.fails = FALSE /\ p.events = <<k>>
        BY <1>4, <3>1, <3>3, <4>2
      <4> QED BY <1>1, <1>11, <2>2, <3>5, <4>3 DEF ParsedFits, IsEvent, p, n, y
    <3> QED BY <3>4, <3>5
  <2>3. CASE Len(x) = n - 1
    <3>1. data = {n - 1} /\ n - 1 \in 1..Len(x)
      BY <1>2, <1>6, <1>8, <2>1, <2>3
    <3>2. F!Min(data) = n - 1
      <4>1. n - 1 \in data /\ \A i \in data : n - 1 <= i
        BY <1>6, <3>1
      <4> QED BY <1>9, <4>1, LeastIs
    <3>3. first = F!Byte("data", k, 1) /\ first.of = k /\ x[n - 1].half = 1
      BY <1>1, <1>6, <1>7, <2>1, <3>1, <3>2, DataBytes DEF first
    <3>4. F!Halves(k)[2].half = 2
      BY <1>1, HalvesAre, DataBytes
    <3>5. \A i \in data : <<first, x[i]>> # F!Halves(first.of)
      BY <3>1, <3>3, <3>4
    <3>6. p.fails = TRUE /\ p.events = << >>
      BY <1>4, <3>1, <3>5
    <3> QED BY <1>6, <2>3, <3>6 DEF ParsedFits, p, n, y
  <2>4. CASE Len(x) < n - 1
    <3>1. data = {}
      BY <1>2, <1>6, <1>8, <2>1, <2>4
    <3>2. p.events = << >>
      BY <1>4, <3>1
    <3> QED BY <1>2, <1>6, <2>4, <3>2 DEF ParsedFits, p, n, y
  <2> QED BY <1>2, <1>6, <2>2, <2>3, <2>4
<1> QED BY <1>10, <1>11

LEMMA NothingParsed ==
  ASSUME NEW x \in Seq(Bytes), Len(x) = 0
  PROVE  F!Parsed(x) = [events |-> << >>, fails |-> FALSE]
<1>1. {i \in DOMAIN x : x[i].is = "data"} = {}
  OBVIOUS
<1> QED BY <1>1 DEF F!Parsed

-----------------------------------------------------------------------------
(* Streams: what the parser takes from the bytes it holds *)

EventIn(n) == IF IsEvent(n) THEN <<n>> ELSE << >>

LEMMA EventsAre ==
  ASSUME Streaming
  PROVE  /\ F!EventsOf(0) = << >>
         /\ \A n \in 0..Len(stream) : F!EventsOf(n) \in Seq(Nat)
         /\ \A n \in 1..Len(stream) : F!EventsOf(n) = F!EventsOf(n - 1) \o EventIn(n)
<1> DEFINE count == Len(stream)
           Then(f, n) == IF n = 0 THEN << >>
                         ELSE IF stream[n] \in {"event", "noted"} THEN Append(f[n - 1], n)
                         ELSE f[n - 1]
           g == CHOOSE f : f = [n \in 0..count |-> Then(f, n)]
           step == [n \in 1..count |-> [s \in Seq(Nat) |->
                      IF stream[n] \in {"event", "noted"} THEN Append(s, n) ELSE s]]
<1>1. \A n : F!EventsOf(n) = g[n]
  BY DEF F!EventsOf
<1>2. count \in Nat /\ << >> \in Seq(Nat)
  BY Lengths DEF Streaming
<1>3. step \in [1..count -> [Seq(Nat) -> Seq(Nat)]]
  <2>1. ASSUME NEW n \in 1..count, NEW s \in Seq(Nat)
        PROVE  (IF stream[n] \in {"event", "noted"} THEN Append(s, n) ELSE s) \in Seq(Nat)
    <3>1. n \in Nat
      OBVIOUS
    <3>2. Append(s, n) \in Seq(Nat)
      BY <3>1
    <3> QED BY <3>2
  <2> QED BY <2>1
<1> HIDE DEF count, step
<1>4. PICK h \in [0..count -> Seq(Nat)] : StepsThrough(<< >>, step, h, count)
  BY <1>2, <1>3, StepsExist
<1>5. h = [n \in 0..count |-> Then(h, n)]
  <2>1. ASSUME NEW n \in 0..count PROVE h[n] = Then(h, n)
    <3>1. CASE n = 0
      BY <1>4, <3>1 DEF StepsThrough
    <3>2. CASE n # 0
      <4>1. n \in 1..count /\ n - 1 \in 0..count
        BY <1>2, <3>2
      <4>2. h[n] = step[n][h[n - 1]] /\ h[n - 1] \in Seq(Nat)
        BY <1>4, <4>1 DEF StepsThrough
      <4>3. step[n][h[n - 1]]
              = IF stream[n] \in {"event", "noted"} THEN Append(h[n - 1], n) ELSE h[n - 1]
        BY <4>1, <4>2 DEF step
      <4> QED BY <3>2, <4>2, <4>3
    <3> QED BY <3>1, <3>2
  <2>2. h = [n \in 0..count |-> h[n]]
    OBVIOUS
  <2> HIDE DEF Then
  <2> QED BY <2>1, <2>2
<1>6. g = [n \in 0..count |-> Then(g, n)]
  <2> HIDE DEF Then
  <2> QED BY <1>5
<1> HIDE DEF g
<1>7. \A n \in 0..count : g[n] = Then(g, n)
  <2> HIDE DEF Then
  <2> QED BY <1>6
<1>8. g[0] = << >>
  BY <1>2, <1>7
<1>9. ASSUME NEW n \in 1..count, g[n - 1] \in Seq(Nat)
      PROVE  g[n] \in Seq(Nat) /\ g[n] = g[n - 1] \o EventIn(n)
  <2>1. n \in 0..count /\ n # 0 /\ n \in Nat
    BY <1>2
  <2>2. g[n] = IF stream[n] \in {"event", "noted"} THEN Append(g[n - 1], n) ELSE g[n - 1]
    BY <1>7, <2>1
  <2>3. Append(g[n - 1], n) = g[n - 1] \o <<n>> /\ Append(g[n - 1], n) \in Seq(Nat)
    BY <1>9, <2>1, AppendIsConcat, AppendProperties
  <2>4. g[n - 1] \o << >> = g[n - 1]
    BY <1>9, ConcatEmptySeq
  <2> QED BY <1>9, <2>2, <2>3, <2>4 DEF EventIn, IsEvent
<1> DEFINE T == {n \in 0..count : g[n] \in Seq(Nat)}
<1>10. 0 \in T
  <2>1. 0 \in 0..count /\ g[0] \in Seq(Nat)
    BY <1>2, <1>8
  <2> QED BY <2>1
<1>11. ASSUME NEW n \in 0..count, n < count, n \in T PROVE n + 1 \in T
  <2>1. n + 1 \in 1..count /\ n + 1 \in 0..count /\ (n + 1) - 1 = n
    BY <1>2, <1>11
  <2> QED BY <1>9, <1>11, <2>1
<1> HIDE DEF T
<1>12. \A n \in 0..count : n \in T
  BY <1>2, <1>10, <1>11, UpTo
<1>13. \A n \in 0..count : g[n] \in Seq(Nat)
  BY <1>12 DEF T
<1>14. ASSUME NEW n \in 1..count PROVE g[n] = g[n - 1] \o EventIn(n)
  <2>1. n - 1 \in 0..count
    BY <1>2
  <2> QED BY <1>9, <1>13, <2>1
<1> QED BY <1>1, <1>8, <1>13, <1>14 DEF count

(* A parser that has taken the frames after c and up to d.                 *)
Takings == [buffer : Seq(Bytes), events : Seq(Nat), fails : BOOLEAN]
At(d, m) == Within(d, m) /\ (d < Len(stream) => Off(d + 1) > m)
Taken(s, c, d, m) ==
    /\ Within(d, m) /\ c <= d
    /\ s.buffer = Held(d, m) /\ F!EventsOf(c) \o s.events = F!EventsOf(d)
    /\ \A k \in (c + 1)..d : stream[k] # "bad"

Joins(w, u, v, set) ==
    /\ w \in Seq(set) /\ Len(w) = Len(u) + Len(v)
    /\ \A i \in 1..Len(u) + Len(v) : w[i] = IF i <= Len(u) THEN u[i] ELSE v[i - Len(u)]

LEMMA ConcatJoins ==
  ASSUME NEW set, NEW u, NEW v, u \in Seq(set), v \in Seq(set)
  PROVE  Joins(u \o v, u, v, set)
BY ConcatProperties DEF Joins

LEMMA JoinedAgain ==
  ASSUME NEW set, NEW x, NEW y, NEW z, x \in Seq(set), y \in Seq(set), z \in Seq(set)
  PROVE  x \o (y \o z) = (x \o y) \o z
<1> DEFINE yz == y \o z
           xy == x \o y
           one == x \o yz
           two == xy \o z
<1>1. Len(x) \in Nat /\ Len(y) \in Nat /\ Len(z) \in Nat
  OBVIOUS
<1>2. Joins(yz, y, z, set) /\ Joins(xy, x, y, set)
  BY ConcatJoins
<1>3. yz \in Seq(set) /\ xy \in Seq(set)
  BY <1>2 DEF Joins
<1> HIDE DEF yz, xy
<1>4. Joins(one, x, yz, set) /\ Joins(two, xy, z, set)
  BY <1>3, ConcatJoins
<1> HIDE DEF one, two
<1> DEFINE lx == Len(x)
           ly == Len(y)
           lz == Len(z)
<1>6. /\ lx \in Nat /\ ly \in Nat /\ lz \in Nat
      /\ Len(one) = lx + ly + lz /\ Len(two) = lx + ly + lz
  <2>1. /\ Len(yz) = ly + lz /\ Len(xy) = lx + ly
        /\ Len(one) = lx + Len(yz) /\ Len(two) = Len(xy) + lz
    BY <1>2, <1>4 DEF Joins
  <2> HIDE DEF lx, ly, lz
  <2> QED BY <1>1, <2>1 DEF lx, ly, lz
<1>7. ASSUME NEW i \in 1..Len(one) PROVE one[i] = two[i]
  <2>1. /\ \A k \in 1..ly + lz : yz[k] = IF k <= ly THEN y[k] ELSE z[k - ly]
        /\ \A k \in 1..lx + ly : xy[k] = IF k <= lx THEN x[k] ELSE y[k - lx]
        /\ \A k \in 1..lx + (ly + lz) : one[k] = IF k <= lx THEN x[k] ELSE yz[k - lx]
        /\ \A k \in 1..(lx + ly) + lz : two[k] = IF k <= lx + ly THEN xy[k] ELSE z[k - (lx + ly)]
    <3>1. Len(yz) = ly + lz /\ Len(xy) = lx + ly
      BY <1>2 DEF Joins
    <3> QED BY <1>2, <1>4, <3>1 DEF Joins
  <2> HIDE DEF lx, ly, lz
  <2>2. i \in Nat /\ i >= 1 /\ i <= lx + ly + lz
    BY <1>6
  <2>3. i \in 1..lx + (ly + lz) /\ i \in 1..(lx + ly) + lz
    BY <1>6, <2>2
  <2>4. CASE i <= lx
    <3>1. i \in 1..lx + ly /\ i <= lx + ly
      BY <1>6, <2>2, <2>4
    <3> QED BY <2>1, <2>3, <2>4, <3>1
  <2>5. CASE i > lx /\ i <= lx + ly
    <3>1. i \in 1..lx + ly /\ ~(i <= lx) /\ i - lx \in 1..ly + lz /\ i - lx <= ly
      BY <1>6, <2>2, <2>5
    <3> QED BY <2>1, <2>3, <2>5, <3>1
  <2>6. CASE i > lx + ly
    <3>1. /\ ~(i <= lx) /\ ~(i <= lx + ly) /\ i - lx \in 1..ly + lz /\ ~(i - lx <= ly)
          /\ (i - lx) - ly = i - (lx + ly)
      BY <1>6, <2>2, <2>6
    <3> QED BY <2>1, <2>3, <3>1
  <2> QED BY <1>6, <2>2, <2>4, <2>5, <2>6
<1>8. one = two
  <2>1. one \in Seq(set) /\ two \in Seq(set) /\ Len(one) = Len(two)
    BY <1>4, <1>6 DEF Joins
  <2> QED BY <1>7, <2>1, SeqEqual
<1> QED BY <1>8 DEF one, two, yz, xy

LEMMA RestIsHeld ==
  ASSUME Streaming, NEW d, NEW m, Within(d, m), d < Len(stream), Off(d + 1) <= m
  PROVE  /\ Within(d + 1, m)
         /\ SubSeq(Held(d, m), Len(F!Frame(d + 1)) + 1, Len(Held(d, m))) = Held(d + 1, m)
<1> DEFINE x == Held(d, m)
           z == Held(d + 1, m)
           n == Len(F!Frame(d + 1))
           rest == SubSeq(x, n + 1, Len(x))
           w == F!Wire(Len(stream))
           o == Off(d)
           o1 == Off(d + 1)
<1>1. /\ d \in 0..Len(stream) /\ m \in Nat /\ d + 1 \in 0..Len(stream) /\ n \in Nat
      /\ o \in Nat /\ o1 = o + n /\ o1 <= m /\ m <= Off(Len(stream))
  BY WholeWire DEF Within
<1>2. Within(d + 1, m)
  BY <1>1 DEF Within
<1>3. /\ x \in Seq(Bytes) /\ Len(x) = m - o /\ Len(x) \in Nat
      /\ \A i \in 1..Len(x) : x[i] = w[o + i]
  BY HeldIs DEF HeldFits
<1>4. /\ z \in Seq(Bytes) /\ Len(z) = m - o1 /\ Len(z) \in Nat
      /\ \A i \in 1..Len(z) : z[i] = w[o1 + i]
  BY <1>2, HeldIs DEF HeldFits
<1> HIDE DEF x, z, n, w, o, o1
<1>5. /\ rest \in Seq(Bytes) /\ Len(rest) = Len(x) - n
      /\ \A i \in 1..(Len(x) - n) : rest[i] = x[n + i]
  <2>1. n + 1 \in Int /\ Len(x) \in Int /\ \A i \in (n + 1)..Len(x) : x[i] \in Bytes
    BY <1>1, <1>3
  <2>2. /\ rest \in Seq(Bytes)
        /\ Len(rest) = IF n + 1 <= Len(x) THEN Len(x) - (n + 1) + 1 ELSE 0
        /\ \A i \in 1..(Len(x) - (n + 1) + 1) : rest[i] = x[(n + 1) + i - 1]
    BY <2>1, SubSeqProperties
  <2> HIDE DEF rest
  <2>3. Len(x) >= n /\ Len(x) - (n + 1) + 1 = Len(x) - n
    BY <1>1, <1>3
  <2>4. \A i \in 1..(Len(x) - n) : (n + 1) + i - 1 = n + i
    BY <1>1
  <2> QED BY <1>1, <1>3, <2>2, <2>3, <2>4
<1> HIDE DEF rest
<1>6. Len(rest) = Len(z)
  BY <1>1, <1>3, <1>4, <1>5
<1>7. ASSUME NEW i \in 1..Len(z) PROVE rest[i] = z[i]
  <2>1. /\ i \in 1..(Len(x) - n) /\ n + i \in 1..Len(x) /\ o + (n + i) = o1 + i
    BY <1>1, <1>3, <1>4
  <2> QED BY <1>3, <1>4, <1>5, <2>1
<1>8. rest = z
  BY <1>4, <1>5, <1>6, <1>7, SeqEqual
<1> QED BY <1>2, <1>8 DEF rest, x, z, n

LEMMA FirstIsBody ==
  ASSUME Streaming, NEW k \in 1..Len(stream), NEW x, Begins(x, k), Len(x) >= Len(F!Frame(k))
  PROVE  /\ OfBody(SubSeq(x, 1, Len(F!Body(k))), k)
         /\ Len(SubSeq(x, 1, Len(F!Body(k)))) = Len(F!Body(k))
<1> DEFINE n == Len(F!Body(k))
           y == F!Frame(k)
           z == SubSeq(x, 1, n)
<1>1. n \in Nat \ {0} /\ EolLen \in {1, 2} /\ Len(y) = n + EolLen + EolLen
  BY BodyInFrame
<1>2. \A i \in 1..n : y[i] = F!Body(k)[i]
  BY FrameIs DEF FrameFits
<1>3. x \in Seq(Bytes) /\ Len(x) \in Nat /\ \A i \in 1..Len(x) : i <= Len(y) => x[i] = y[i]
  BY DEF Begins
<1>4. Len(x) >= Len(y)
  OBVIOUS
<1> HIDE DEF n, y
<1>5. z \in Seq(Bytes) /\ Len(z) = n /\ \A i \in 1..n : z[i] = x[i]
  <2>1. 1 \in Int /\ n \in Int /\ \A i \in 1..n : x[i] \in Bytes
    BY <1>1, <1>3, <1>4
  <2>2. /\ z \in Seq(Bytes) /\ Len(z) = IF 1 <= n THEN n - 1 + 1 ELSE 0
        /\ \A i \in 1..(n - 1 + 1) : z[i] = x[1 + i - 1]
    BY <2>1, SubSeqProperties
  <2> HIDE DEF z
  <2>3. n - 1 + 1 = n /\ \A i \in 1..n : 1 + i - 1 = i
    BY <1>1
  <2> QED BY <1>1, <2>2, <2>3
<1> HIDE DEF z
<1>6. ASSUME NEW i \in 1..Len(z) PROVE i <= n /\ z[i] = F!Body(k)[i]
  <2>1. i \in 1..n /\ i \in 1..Len(x) /\ i <= Len(y)
    BY <1>1, <1>3, <1>4, <1>5
  <2> QED BY <1>2, <1>3, <1>5, <2>1
<1> QED BY <1>5, <1>6 DEF OfBody, n, z

Took(s, t, c, d, m) ==
    /\ t \in Takings
    /\ t.fails \/ (At(d, m) /\ t = s) \/ (d < Len(stream) /\ Taken(t, c, d + 1, m))

LEMMA TakeIs ==
  ASSUME Streaming, NEW c \in 0..Len(stream), NEW d, NEW m, NEW s \in Takings, ~s.fails,
         Taken(s, c, d, m)
  PROVE  Took(s, F!TakeFrame(s), c, d, m)
<1> DEFINE x == s.buffer
           t == F!TakeFrame(s)
           sep == F!Separator(x)
<1>1. /\ Within(d, m) /\ c <= d /\ x = Held(d, m)
      /\ F!EventsOf(c) \o s.events = F!EventsOf(d)
      /\ \A k \in (c + 1)..d : stream[k] # "bad"
  BY DEF Taken
<1>2. d \in 0..Len(stream) /\ m \in Nat /\ Len(stream) \in Nat
  BY <1>1, Lengths DEF Within, Streaming
<1>3. HeldFits(x, d, m)
  BY <1>1, HeldIs
<1>4. sep.at = 0 => t = s
  BY DEF F!TakeFrame
<1>5. CASE d = Len(stream)
  <2>1. /\ Off(d) <= m /\ m <= Off(d) /\ Off(d) \in Nat
    BY <1>1, <1>2, <1>5, WireFits DEF Within
  <2>2. x \in Seq(Bytes) /\ Len(x) = 0
    BY <1>2, <1>3, <2>1 DEF HeldFits
  <2>3. t = s
    BY <1>4, <2>2, NoSeparator
  <2>4. At(d, m)
    BY <1>1, <1>2, <1>5 DEF At
  <2> QED BY <2>3, <2>4 DEF Took
<1>6. CASE d < Len(stream)
  <2> DEFINE k == d + 1
             n == Len(F!Body(k))
             y == F!Frame(k)
  <2>1. /\ k \in 1..Len(stream) /\ Off(d) \in Nat /\ Off(k) = Off(d) + Len(y)
        /\ Len(y) \in Nat
    BY <1>2, <1>6, WholeWire
  <2>2. Begins(x, k) /\ (eol = "crlf" => Single(x)) /\ Len(x) = m - Off(d) /\ Len(x) \in Nat
    BY <1>3, <1>6 DEF HeldFits, Begins
  <2>3. SeparatorFits(sep, x, k)
    BY <2>1, <2>2, SeparatorIs
  <2>4. n \in Nat \ {0} /\ EolLen \in {1, 2} /\ Len(y) = n + EolLen + EolLen
    BY <2>1, BodyInFrame
  <2>5. CASE Off(k) > m
    <3>1. ~(Len(x) >= Len(y))
      BY <1>2, <2>1, <2>2, <2>5
    <3>2. t = s
      BY <1>4, <2>3, <3>1 DEF SeparatorFits
    <3>3. At(d, m)
      BY <1>1, <2>5 DEF At
    <3> QED BY <3>2, <3>3 DEF Took
  <2>6. CASE Off(k) <= m
    <3> DEFINE z == SubSeq(x, 1, n)
               p == F!Parsed(z)
    <3>1. Len(x) >= Len(y)
      BY <1>2, <2>1, <2>2, <2>6
    <3>2. sep.at = n + 1 /\ sep.len = EolLen + EolLen
      BY <2>3, <3>1 DEF SeparatorFits
    <3>3. sep.at # 0 /\ sep.at - 1 = n /\ sep.at + sep.len = Len(y) + 1
      BY <2>4, <3>2
    <3>4. t = [buffer |-> SubSeq(x, Len(y) + 1, Len(x)),
               events |-> s.events \o p.events, fails |-> p.fails]
      BY <3>3 DEF F!TakeFrame
    <3>5. Within(k, m) /\ SubSeq(x, Len(y) + 1, Len(x)) = Held(k, m)
      BY <1>1, <1>6, <2>6, RestIsHeld
    <3>6. OfBody(z, k) /\ Len(z) = n
      BY <2>1, <2>2, <3>1, FirstIsBody
    <3>7. ParsedFits(p, z, k)
      BY <2>1, <3>6, ParsedIs
    <3>8. p.fails = (stream[k] = "bad") /\ p.events = EventIn(k)
      BY <2>4, <3>6, <3>7 DEF ParsedFits, EventIn
    <3> HIDE DEF p, z, sep, n, y
    <3>9. EventIn(k) \in Seq(Nat) /\ s.events \in Seq(Nat)
      BY <2>1 DEF EventIn, Takings
    <3>10. Held(k, m) \in Seq(Bytes)
      BY <3>5, HeldIs DEF HeldFits
    <3>11. s.events \o EventIn(k) \in Seq(Nat)
      BY <3>9, ConcatProperties
    <3>12. t = [buffer |-> Held(k, m), events |-> s.events \o EventIn(k), fails |-> p.fails]
      BY <3>4, <3>5, <3>8
    <3> HIDE DEF t
    <3>13. t \in Takings
      BY <3>8, <3>10, <3>11, <3>12 DEF Takings
    <3>14. CASE stream[k] = "bad"
      <4>1. t.fails
        BY <3>8, <3>12, <3>14
      <4> QED BY <3>13, <4>1 DEF Took, t
    <3>15. CASE stream[k] # "bad"
      <4>1. F!EventsOf(c) \in Seq(Nat) /\ F!EventsOf(k) = F!EventsOf(d) \o EventIn(k)
        <5>1. k - 1 = d
          BY <1>2
        <5> QED BY <2>1, <5>1, EventsAre
      <4>2. F!EventsOf(c) \o (s.events \o EventIn(k)) = F!EventsOf(k)
        <5> DEFINE u == F!EventsOf(c)
                   v == s.events
                   w == EventIn(k)
                   numbers == Nat
        <5>1. u \in Seq(numbers) /\ v \in Seq(numbers) /\ w \in Seq(numbers)
          BY <3>9, <4>1
        <5> HIDE DEF u, v, w, numbers
        <5>2. u \o (v \o w) = (u \o v) \o w
          BY <5>1, JoinedAgain
        <5> QED BY <1>1, <4>1, <5>2 DEF u, v, w
      <4>3. \A j \in (c + 1)..k : stream[j] # "bad"
        <5>1. \A j \in (c + 1)..k : j \in (c + 1)..d \/ j = k
          BY <1>2
        <5> QED BY <1>1, <3>15, <5>1
      <4>4. c <= k
        BY <1>1, <1>2
      <4>5. t.buffer = Held(k, m) /\ t.events = s.events \o EventIn(k)
        BY <3>12
      <4>6. Taken(t, c, k, m)
        BY <3>5, <4>2, <4>3, <4>4, <4>5 DEF Taken
      <4> QED BY <1>6, <3>13, <4>6 DEF Took, t
    <3> QED BY <3>14, <3>15
  <2>7. Off(k) \in Nat
    BY <2>1
  <2> QED BY <1>2, <2>5, <2>6, <2>7
<1> QED BY <1>2, <1>5, <1>6

(* All whole frames are taken, or one of them cannot be read.              *)
Reached(s, c, m, n) ==
    /\ s \in Takings
    /\ s.fails \/ \E d \in 0..Len(stream) : Taken(s, c, d, m) /\ (At(d, m) \/ d >= c + n)

LEMMA TakeReaches ==
  ASSUME Streaming, NEW c \in 0..Len(stream), NEW m, NEW s, NEW n \in Nat, Reached(s, c, m, n)
  PROVE  Reached(F!TakeFrame(s), c, m, n + 1)
<1> DEFINE t == F!TakeFrame(s)
<1>1. s \in Takings
  BY DEF Reached
<1>2. CASE s.fails
  <2>1. t = s
    BY <1>2 DEF F!TakeFrame
  <2> QED BY <1>1, <1>2, <2>1 DEF Reached
<1>3. CASE ~s.fails
  <2>1. PICK d \in 0..Len(stream) : Taken(s, c, d, m) /\ (At(d, m) \/ d >= c + n)
    BY <1>3 DEF Reached
  <2>2. Took(s, t, c, d, m)
    BY <1>1, <1>3, <2>1, TakeIs
  <2> HIDE DEF t
  <2>3. t \in Takings
    BY <2>2 DEF Took
  <2>4. CASE t.fails
    BY <2>3, <2>4 DEF Reached, t
  <2>5. CASE At(d, m) /\ t = s
    BY <2>1, <2>3, <2>5 DEF Reached, t
  <2>6. CASE d < Len(stream) /\ Taken(t, c, d + 1, m)
    <3>1. Within(d + 1, m) /\ Len(stream) \in Nat
      BY <2>6, Lengths DEF Taken, Streaming
    <3>2. m \in Nat /\ Off(d + 1) <= m /\ d + 1 \in 0..Len(stream) /\ Off(d + 1) \in Nat
      BY <3>1, WireFits DEF Within
    <3>3. ~At(d, m)
      BY <2>6, <3>2 DEF At
    <3>4. d + 1 >= c + (n + 1)
      BY <2>1, <3>3
    <3> QED BY <2>3, <2>6, <3>2, <3>4 DEF Reached, t
  <2> QED BY <2>2, <2>4, <2>5, <2>6 DEF Took
<1> QED BY <1>2, <1>3

PushFits(p, c, m) ==
    /\ p \in Takings
    /\ p.fails \/ \E d \in 0..Len(stream) : At(d, m) /\ Taken(p, c, d, m)

(* Each frame takes a byte at least, so that as many steps as there are    *)
(* bytes take all that are whole.                                          *)
LEMMA ReachedIsAll ==
  ASSUME Streaming, NEW c, NEW m, Within(c, m), NEW p, Reached(p, c, m, m - Off(c))
  PROVE  PushFits(p, c, m)
<1>1. p \in Takings
  BY DEF Reached
<1>2. CASE p.fails
  BY <1>1, <1>2 DEF PushFits
<1>3. CASE ~p.fails
  <2>1. PICK d \in 0..Len(stream) :
          Taken(p, c, d, m) /\ (At(d, m) \/ d >= c + (m - Off(c)))
    BY <1>3 DEF Reached
  <2>2. /\ c \in 0..Len(stream) /\ m \in Nat /\ Off(c) <= m /\ Within(d, m) /\ c <= d
        /\ Off(d) <= m
    BY <2>1 DEF Within, Taken
  <2>3. Off(c) \in Nat /\ Off(d) \in Nat /\ Len(stream) \in Nat
    BY <2>2, WireFits, Lengths DEF Streaming
  <2>4. Off(c) + (d - c) <= Off(d)
    BY <2>2, WireGrows DEF Grows
  <2>5. CASE d >= c + (m - Off(c))
    <3>1. Off(d) = m
      BY <2>2, <2>3, <2>4, <2>5
    <3>2. ASSUME d < Len(stream) PROVE Off(d + 1) > m
      <4>1. d + 1 \in 1..Len(stream) /\ Off(d + 1) = Off(d) + Len(F!Frame(d + 1))
        BY <2>1, <3>2, WholeWire
      <4>2. Len(F!Frame(d + 1)) \in Nat \ {0}
        BY <4>1, BodyInFrame
      <4> QED BY <2>2, <3>1, <4>1, <4>2
    <3>3. At(d, m)
      BY <2>2, <3>2 DEF At
    <3> QED BY <1>1, <2>1, <3>3 DEF PushFits
  <2>6. CASE At(d, m)
    BY <1>1, <2>1, <2>6 DEF PushFits
  <2> QED BY <2>1, <2>5, <2>6
<1> QED BY <1>2, <1>3

LEMMA PushIs ==
  ASSUME Streaming, NEW c, NEW m, Within(c, m), NEW x, x = Held(c, m)
  PROVE  PushFits(F!Pushed(x), c, m)
<1> DEFINE limit == Len(x)
           start == [buffer |-> x, events |-> << >>, fails |-> FALSE]
           Then(f, n) == IF n = 0 THEN start ELSE F!TakeFrame(f[n - 1])
           g == CHOOSE f : f = [n \in 0..limit |-> Then(f, n)]
           set == {s \in Takings : Reached(s, c, m, 0)}
           step == [n \in 1..limit |-> [s \in set |-> F!TakeFrame(s)]]
<1>1. F!Pushed(x) = g[limit]
  BY DEF F!Pushed
<1>2. c \in 0..Len(stream) /\ Len(stream) \in Nat /\ m \in Nat
  BY Lengths DEF Within, Streaming
<1>3. x \in Seq(Bytes) /\ limit = m - Off(c) /\ limit \in Nat
  BY HeldIs DEF HeldFits
<1>4. start \in Takings /\ ~start.fails /\ Taken(start, c, c, m)
  <2>1. start \in Takings
    <3>1. << >> \in Seq(Nat)
      OBVIOUS
    <3> QED BY <1>3, <3>1 DEF Takings
  <2>2. start.buffer = x /\ start.events = << >>
    OBVIOUS
  <2>3. F!EventsOf(c) \o << >> = F!EventsOf(c)
    <3>1. F!EventsOf(c) \in Seq(Nat)
      BY <1>2, EventsAre
    <3> QED BY <3>1, ConcatEmptySeq
  <2>4. \A k \in (c + 1)..c : stream[k] # "bad"
    BY <1>2
  <2>5. c <= c
    BY <1>2
  <2> HIDE DEF start
  <2>6. Taken(start, c, c, m)
    BY <2>2, <2>3, <2>4, <2>5 DEF Taken
  <2> QED BY <2>1, <2>6 DEF start
<1> HIDE DEF start, limit
<1>5. Reached(start, c, m, 0)
  <2>1. c >= c + 0
    BY <1>2
  <2> QED BY <1>2, <1>4, <2>1 DEF Reached
<1>6. start \in set
  BY <1>4, <1>5
<1>7. ASSUME NEW s \in set PROVE F!TakeFrame(s) \in set
  <2>1. Reached(s, c, m, 0)
    OBVIOUS
  <2>2. Reached(F!TakeFrame(s), c, m, 0 + 1)
    BY <1>2, <2>1, TakeReaches
  <2>3. \A d \in 0..Len(stream) : d >= c + (0 + 1) => d >= c + 0
    BY <1>2
  <2> QED BY <2>2, <2>3 DEF Reached
<1> HIDE DEF set
<1>8. step \in [1..limit -> [set -> set]]
  BY <1>7
<1> HIDE DEF step
<1>9. PICK h \in [0..limit -> set] : StepsThrough(start, step, h, limit)
  BY <1>3, <1>6, <1>8, StepsExist
<1>10. h = [n \in 0..limit |-> Then(h, n)]
  <2>1. ASSUME NEW n \in 0..limit PROVE h[n] = Then(h, n)
    <3>1. CASE n = 0
      BY <1>9, <3>1 DEF StepsThrough
    <3>2. CASE n # 0
      <4>1. n \in 1..limit /\ n - 1 \in 0..limit
        BY <1>3, <3>2
      <4>2. h[n] = step[n][h[n - 1]] /\ h[n - 1] \in set
        BY <1>9, <4>1 DEF StepsThrough
      <4>3. step[n][h[n - 1]] = F!TakeFrame(h[n - 1])
        BY <4>1, <4>2 DEF step
      <4> QED BY <3>2, <4>2, <4>3
    <3> QED BY <3>1, <3>2
  <2>2. h = [n \in 0..limit |-> h[n]]
    OBVIOUS
  <2> HIDE DEF Then
  <2> QED BY <2>1, <2>2
<1>11. g = [n \in 0..limit |-> Then(g, n)]
  <2> HIDE DEF Then
  <2> QED BY <1>10
<1> HIDE DEF g
<1>12. ASSUME NEW n \in 0..limit PROVE g[n] = Then(g, n)
  <2> HIDE DEF Then
  <2> QED BY <1>11
<1> DEFINE T == {n \in 0..limit : Reached(g[n], c, m, n)}
<1>13. 0 \in T
  <2>1. 0 \in 0..limit
    BY <1>3
  <2>2. g[0] = start
    BY <1>12, <2>1
  <2> QED BY <1>5, <2>1, <2>2
<1>14. ASSUME NEW n \in 0..limit, n < limit, n \in T PROVE n + 1 \in T
  <2>1. n + 1 \in 0..limit /\ n + 1 # 0 /\ (n + 1) - 1 = n /\ n \in Nat
    BY <1>3, <1>14
  <2>2. g[n + 1] = F!TakeFrame(g[n])
    BY <1>12, <2>1
  <2> QED BY <1>2, <1>14, <2>1, <2>2, TakeReaches
<1> HIDE DEF T
<1>15. \A n \in 0..limit : n \in T
  BY <1>3, <1>13, <1>14, UpTo
<1>16. Reached(g[limit], c, m, m - Off(c))
  <2>1. limit \in T
    BY <1>3, <1>15
  <2> QED BY <1>3, <2>1 DEF T
<1> QED BY <1>1, <1>16, ReachedIsAll

-----------------------------------------------------------------------------
(* Streams: the steps *)

LEMMA FrameStays ==
  ASSUME UNCHANGED <<eol, stream>>, NEW k
  PROVE  F!Body(k)' = F!Body(k) /\ F!Frame(k)' = F!Frame(k)
<1>1. F!EndOfLine' = F!EndOfLine
  BY DEF F!EndOfLine
<1>2. F!Body(k)' = F!Body(k)
  BY <1>1 DEF F!Body
<1> QED BY <1>1, <1>2 DEF F!Frame

LEMMA WireStays ==
  ASSUME UNCHANGED <<eol, stream>>, NEW n
  PROVE  F!Wire(n)' = F!Wire(n)
BY DEF F!Wire, F!Frame, F!Body, F!EndOfLine

LEMMA EventsStay ==
  ASSUME UNCHANGED stream, NEW n
  PROVE  F!EventsOf(n)' = F!EventsOf(n)
BY DEF F!EventsOf

(* So many frames are whole, and there is one such number.                 *)
LEMMA SomeAt ==
  ASSUME Streaming, NEW m \in Nat, m <= Off(Len(stream))
  PROVE  \E d \in 0..Len(stream) : At(d, m)
<1> DEFINE count == Len(stream)
           T == {k \in 0..count : Off(k) <= m}
<1>1. count \in Nat
  BY Lengths DEF Streaming
<1>2. \A k \in 0..count : Off(k) \in Nat
  BY WireFits
<1>3. SUFFICES ASSUME \A d \in 0..count : ~At(d, m) PROVE FALSE
  OBVIOUS
<1>4. 0 \in T
  <2>1. Off(0) = 0 /\ 0 \in 0..count
    BY <1>1, WireIs DEF Off
  <2> QED BY <2>1
<1>5. ASSUME NEW k \in 0..count, k < count, k \in T PROVE k + 1 \in T
  <2>1. Within(k, m)
    BY <1>5 DEF Within
  <2>2. ~(Off(k + 1) > m)
    BY <1>3, <1>5, <2>1 DEF At
  <2>3. k + 1 \in 0..count /\ Off(k + 1) \in Nat
    BY <1>1, <1>2, <1>5
  <2> QED BY <2>2, <2>3
<1> HIDE DEF T
<1>6. \A k \in 0..count : k \in T
  BY <1>1, <1>4, <1>5, UpTo
<1>7. count \in 0..count /\ Off(count) <= m
  BY <1>1, <1>6 DEF T
<1>8. At(count, m)
  BY <1>1, <1>7 DEF At, Within
<1> QED BY <1>3, <1>7, <1>8

LEMMA AtIsLast ==
  ASSUME Streaming, NEW c, NEW d, NEW m, Within(c, m), At(d, m)
  PROVE  c <= d
<1>1. c \in 0..Len(stream) /\ d \in 0..Len(stream) /\ Len(stream) \in Nat /\ m \in Nat
  BY Lengths DEF Within, At, Streaming
<1>2. ASSUME d < c PROVE FALSE
  <2>1. d + 1 \in 0..Len(stream) /\ d + 1 <= c /\ d < Len(stream)
    BY <1>1, <1>2
  <2>2. Off(d + 1) + (c - (d + 1)) <= Off(c)
    BY <1>1, <2>1, WireGrows DEF Grows
  <2>3. Off(d + 1) > m /\ Off(c) <= m /\ Off(d + 1) \in Nat /\ Off(c) \in Nat
    BY <1>1, <2>1, WireFits DEF At, Within
  <2> QED BY <1>1, <2>1, <2>2, <2>3
<1> QED BY <1>1, <1>2

LEMMA CompleteIs ==
  ASSUME Streaming, NEW c, At(c, at)
  PROVE  F!Complete = c
<1>1. c \in 0..Len(stream)
  BY DEF At, Within
<1>2. ASSUME NEW d \in 0..Len(stream),
             Len(F!Wire(d)) <= at, d < Len(stream) => Len(F!Wire(d + 1)) > at
      PROVE  d = c
  <2>1. At(d, at)
    BY <1>2 DEF At, Within, Off
  <2>2. c <= d /\ d <= c
    BY <2>1, AtIsLast DEF At
  <2> QED BY <1>1, <2>2
<1>3. Len(F!Wire(c)) <= at /\ (c < Len(stream) => Len(F!Wire(c + 1)) > at)
  BY DEF At, Within, Off
<1> QED BY <1>1, <1>2, <1>3 DEF F!Complete

(* What was handed on before is a prefix of what is handed on after.       *)
Longer(s, t) == Len(s) <= Len(t) /\ \A i \in 1..Len(s) : t[i] = s[i]

LEMMA LongerHasPrefix ==
  ASSUME NEW s, NEW t, s \in Seq(Nat), t \in Seq(Nat), Longer(s, t)
  PROVE  F!IsPrefix(s, t)
<1> DEFINE n == Len(s)
<1>1. n \in Nat /\ n <= Len(t) /\ Len(t) \in Nat
  BY DEF Longer
<1>2. 1 \in Int /\ n \in Int /\ \A i \in 1..n : s[i] \in Nat /\ t[i] \in Nat
  BY <1>1
<1> HIDE DEF n
<1>3. /\ SubSeq(s, 1, n) \in Seq(Nat) /\ SubSeq(t, 1, n) \in Seq(Nat)
      /\ Len(SubSeq(s, 1, n)) = IF 1 <= n THEN n - 1 + 1 ELSE 0
      /\ Len(SubSeq(t, 1, n)) = IF 1 <= n THEN n - 1 + 1 ELSE 0
      /\ \A i \in 1..(n - 1 + 1) : SubSeq(s, 1, n)[i] = s[1 + i - 1]
      /\ \A i \in 1..(n - 1 + 1) : SubSeq(t, 1, n)[i] = t[1 + i - 1]
  BY <1>2, SubSeqProperties
<1> DEFINE u == SubSeq(s, 1, n)
           v == SubSeq(t, 1, n)
<1>4. Len(u) = n /\ Len(v) = n
  BY <1>1, <1>3
<1>5. \A i \in 1..n : i \in 1..(n - 1 + 1) /\ 1 + i - 1 = i
  BY <1>1
<1>6. \A i \in 1..n : u[i] = v[i]
  BY <1>3, <1>5 DEF Longer, n
<1>7. u = v
  <2>1. u \in Seq(Nat) /\ v \in Seq(Nat)
    BY <1>3
  <2> HIDE DEF u, v
  <2> QED BY <1>4, <1>6, <2>1, SeqEqual
<1> QED BY <1>1, <1>7 DEF F!IsPrefix, n

LEMMA EventsGrow ==
  ASSUME Streaming, NEW c \in 0..Len(stream), NEW d \in 0..Len(stream), c <= d
  PROVE  F!IsPrefix(F!EventsOf(c), F!EventsOf(d))
<1> DEFINE count == Len(stream)
           T == {k \in 0..count : c <= k => Longer(F!EventsOf(c), F!EventsOf(k))}
<1>1. count \in Nat
  BY Lengths DEF Streaming
<1>2. ASSUME NEW k \in 0..count
      PROVE  F!EventsOf(k) \in Seq(Nat) /\ Len(F!EventsOf(k)) \in Nat
  BY EventsAre
<1>3. Longer(F!EventsOf(c), F!EventsOf(c))
  BY <1>2 DEF Longer
<1>4. 0 \in T
  <2>1. 0 \in 0..count /\ (c <= 0 => c = 0)
    BY <1>1
  <2> QED BY <1>3, <2>1
<1>5. ASSUME NEW k \in 0..count, k < count, k \in T PROVE k + 1 \in T
  <2>1. k + 1 \in 1..count /\ k + 1 \in 0..count /\ (k + 1) - 1 = k
    BY <1>1, <1>5
  <2>2. CASE c = k + 1
    BY <1>3, <2>1, <2>2
  <2>3. CASE c <= k
    <3> DEFINE x == F!EventsOf(k)
               y == EventIn(k + 1)
               z == x \o y
               u == F!EventsOf(c)
    <3>1. F!EventsOf(k + 1) = z
      BY <2>1, EventsAre
    <3>2. Longer(u, x)
      BY <1>5, <2>3
    <3>3. x \in Seq(Nat) /\ y \in Seq(Nat)
      <4>1. k + 1 \in Nat
        BY <2>1
      <4> QED BY <1>2, <4>1 DEF EventIn
    <3>4. u \in Seq(Nat)
      BY <1>2
    <3> HIDE DEF x, y, u
    <3>5. /\ z \in Seq(Nat) /\ Len(z) = Len(x) + Len(y)
          /\ \A i \in 1..Len(x) + Len(y) : z[i] = IF i <= Len(x) THEN x[i] ELSE y[i - Len(x)]
      BY <3>3, ConcatProperties
    <3> HIDE DEF z
    <3>6. Len(x) \in Nat /\ Len(y) \in Nat /\ Len(u) \in Nat
      BY <3>3, <3>4
    <3>7. Longer(u, z)
      <4>1. Len(u) <= Len(z)
        BY <3>2, <3>5, <3>6 DEF Longer
      <4>2. ASSUME NEW i \in 1..Len(u) PROVE z[i] = u[i]
        <5>1. i \in 1..Len(x) + Len(y) /\ i <= Len(x)
          BY <3>2, <3>6 DEF Longer
        <5> QED BY <3>2, <3>5, <5>1 DEF Longer
      <4> QED BY <4>1, <4>2 DEF Longer
    <3> QED BY <2>1, <3>1, <3>7 DEF u
  <2>4. CASE ~(c <= k + 1)
    BY <2>1, <2>4
  <2> QED BY <1>1, <2>1, <2>2, <2>3, <2>4
<1> HIDE DEF T, count
<1>6. \A k \in 0..count : k \in T
  BY <1>1, <1>4, <1>5, UpTo
<1>7. d \in T
  BY <1>6 DEF count
<1>8. Longer(F!EventsOf(c), F!EventsOf(d))
  BY <1>7 DEF T
<1> QED BY <1>8, EventsAre, LongerHasPrefix

(* After m bytes, of which c frames are whole: what the parser holds, what *)
(* was handed on, and what an answer that has ended must have had.         *)
Cut(c, m, held, handed, at_state) ==
    LET next == c + 1
        trailing == dialect = "anthropic" /\ next <= Len(stream) /\ m >= F!AllOf(next)
        half == next <= Len(stream) /\ IsEvent(next) /\ m = F!AllOf(next) - 1
        n == IF trailing THEN next ELSE c
    IN  /\ At(c, m)
        /\ at_state = "open" =>
             held = Held(c, m) /\ F!Readable(c) /\ handed = F!EventsOf(c)
        /\ at_state = "closed" =>
             F!Readable(n) /\ handed = F!EventsOf(n) /\ ~(dialect = "anthropic" /\ half)
        /\ at_state = "failed" => F!IsPrefix(handed, F!EventsOf(c))

StreamInv == Streaming /\ \E c \in 0..Len(stream) : Cut(c, at, buffer, given, state)

LEMMA StreamIsSafe ==
  ASSUME StreamInv
  PROVE  F!CutsDoNotMatter
<1>1. PICK c \in 0..Len(stream) : Cut(c, at, buffer, given, state)
  BY DEF StreamInv
<1>2. F!Complete = c
  BY <1>1, CompleteIs DEF Cut, StreamInv
<1> QED BY <1>1, <1>2 DEF Cut, F!CutsDoNotMatter, IsEvent

LEMMA CutStays ==
  ASSUME UNCHANGED <<dialect, eol, stream>>, Streaming,
         \E c \in 0..Len(stream) : Cut(c, at', buffer', given', state')
  PROVE  StreamInv'
<1>1. PICK c \in 0..Len(stream) : Cut(c, at', buffer', given', state')
  OBVIOUS
<1>2. Streaming'
  BY DEF Streaming, F!Kinds
<1>3. \A n : /\ F!Wire(n)' = F!Wire(n) /\ F!EventsOf(n)' = F!EventsOf(n)
             /\ F!Body(n)' = F!Body(n)
  BY WireStays, EventsStay, FrameStays
<1>4. Cut(c, at, buffer, given, state)'
  BY <1>1, <1>3 DEF Cut, At, Within, Off, Held, IsEvent, F!AllOf, F!Readable
<1> QED BY <1>1, <1>2, <1>4 DEF StreamInv

LEMMA StreamStarts == F!Init => StreamInv
<1> SUFFICES ASSUME F!Init PROVE StreamInv
  OBVIOUS
<1>1. Streaming
  <2>1. PICK n \in 1..MaxFrames : stream \in [1..n -> F!Kinds]
    BY DEF F!Init
  <2>2. n \in Nat
    OBVIOUS
  <2>3. stream \in Seq(F!Kinds)
    BY <2>1, <2>2
  <2> QED BY <2>3 DEF F!Init, Streaming
<1>2. PICK c \in 0..Len(stream) : At(c, 0)
  <2>1. Len(stream) \in Nat
    BY <1>1, Lengths DEF Streaming
  <2>2. Off(Len(stream)) \in Nat
    BY <1>1, <2>1, WireFits
  <2> QED BY <1>1, <2>2, SomeAt
<1>3. c = 0
  <2>1. Len(stream) \in Nat
    BY <1>1, Lengths DEF Streaming
  <2>2. Off(0) = 0
    BY <1>1, WireIs DEF Off
  <2>3. Off(0) + (c - 0) <= Off(c)
    BY <1>1, <1>2, <2>1, WireGrows DEF Grows
  <2> QED BY <1>1, <1>2, <2>1, <2>2, <2>3, WireFits DEF At, Within
<1>4. Held(0, 0) = << >>
  <2>1. Off(0) = 0
    BY <1>1, WireIs DEF Off
  <2> DEFINE w == F!Wire(Len(stream))
  <2>2. 1 \in Int /\ 0 \in Int /\ 0 < 1
    OBVIOUS
  <2> HIDE DEF w
  <2>3. SubSeq(w, 1, 0) = << >>
    BY <2>2, SubSeqEmpty
  <2>4. Off(0) + 1 = 1
    BY <2>1
  <2> QED BY <2>3, <2>4 DEF Held, w
<1>5. Cut(c, at, buffer, given, state)
  BY <1>1, <1>2, <1>3, <1>4, EventsAre DEF F!Init, Cut, F!Readable
<1> QED BY <1>1, <1>5 DEF StreamInv

LEMMA ChunkCuts ==
  ASSUME StreamInv, F!Chunk
  PROVE  StreamInv'
<1> DEFINE w == F!Wire(Len(stream))
<1>1. Streaming /\ state = "open" /\ UNCHANGED <<dialect, eol, stream>>
  BY DEF F!Chunk, StreamInv
<1>2. PICK c \in 0..Len(stream) : Cut(c, at, buffer, given, state)
  BY DEF StreamInv
<1>3. At(c, at) /\ buffer = Held(c, at) /\ F!Readable(c) /\ given = F!EventsOf(c)
  BY <1>1, <1>2 DEF Cut
<1>4. PICK n \in 1..(Len(w) - at) :
        LET p == F!Pushed(buffer \o SubSeq(w, at + 1, at + n)) IN
        /\ at' = at + n /\ buffer' = p.buffer
        /\ IF p.fails THEN state' = "failed" /\ UNCHANGED given
           ELSE given' = given \o p.events /\ UNCHANGED state
  BY DEF F!Chunk
<1> DEFINE m == at + n
           x == buffer \o SubSeq(w, at + 1, m)
           p == F!Pushed(x)
<1>5. /\ Len(stream) \in 0..Len(stream) /\ w \in Seq(Bytes) /\ Len(w) = Off(Len(stream))
      /\ Len(w) \in Nat /\ Off(c) \in Nat
  BY <1>1, <1>2, Lengths, WireFits DEF Streaming, Off
<1>6. at \in Nat /\ Off(c) <= at /\ at <= Len(w)
  BY <1>3, <1>5 DEF At, Within
<1>7. m \in Nat /\ m <= Len(w) /\ at <= m
  BY <1>5, <1>6
<1>8. Within(c, m)
  BY <1>2, <1>5, <1>6, <1>7 DEF Within
<1>9. x = Held(c, m)
  <2> DEFINE from == Off(c) + 1
             mid == at
  <2>1. /\ from \in 1..(Len(w) + 1) /\ mid \in (from - 1)..Len(w)
        /\ m \in mid..Len(w) /\ w \in Seq(Bytes)
    BY <1>5, <1>6, <1>7
  <2> HIDE DEF w, m, from, mid
  <2>2. SubSeq(w, from, mid) \o SubSeq(w, mid + 1, m) = SubSeq(w, from, m)
    BY <2>1, ConcatAdjacentSubSeq
  <2> QED BY <1>3, <2>2 DEF Held, w, from, mid
<1>10. PushFits(p, c, m)
  BY <1>1, <1>8, <1>9, PushIs
<1>11. /\ at' = m /\ buffer' = p.buffer
       /\ IF p.fails THEN state' = "failed" /\ given' = given
          ELSE given' = given \o p.events /\ state' = "open"
  BY <1>1, <1>4
<1> HIDE DEF m, x, p
<1>12. CASE p.fails
  <2>1. PICK d \in 0..Len(stream) : At(d, m)
    BY <1>1, <1>5, <1>7, SomeAt
  <2>2. c <= d
    BY <1>1, <1>8, <2>1, AtIsLast
  <2>3. F!IsPrefix(given, F!EventsOf(d))
    BY <1>1, <1>2, <1>3, <2>1, <2>2, EventsGrow
  <2>4. Cut(d, m, p.buffer, given, "failed")
    BY <2>1, <2>3 DEF Cut
  <2> QED BY <1>1, <1>11, <1>12, <2>1, <2>4, CutStays
<1>13. CASE ~p.fails
  <2>1. PICK d \in 0..Len(stream) : At(d, m) /\ Taken(p, c, d, m)
    BY <1>10, <1>13 DEF PushFits
  <2>2. p.buffer = Held(d, m) /\ given \o p.events = F!EventsOf(d)
    BY <1>3, <2>1 DEF Taken
  <2>3. F!Readable(d)
    <3>1. ASSUME NEW k \in 1..d PROVE k \in 1..c \/ k \in (c + 1)..d
      BY <1>2, <2>1
    <3> QED BY <1>3, <2>1, <3>1 DEF F!Readable, Taken
  <2>4. Cut(d, m, p.buffer, given \o p.events, "open")
    BY <2>1, <2>2, <2>3 DEF Cut
  <2> QED BY <1>1, <1>11, <1>13, <2>1, <2>4, CutStays
<1> QED BY <1>12, <1>13

(* What the buffer holds of a frame that is not whole.                     *)
LEMMA HeldOfBody ==
  ASSUME Streaming, NEW c, NEW m, At(c, m), c < Len(stream), NEW x, x = Held(c, m)
  PROVE  /\ OfBody(x, c + 1) /\ c + 1 \in 1..Len(stream)
         /\ Len(x) \in Nat /\ Len(F!Body(c + 1)) \in Nat
         /\ Len(x) >= Len(F!Body(c + 1)) <=> m >= F!AllOf(c + 1)
         /\ Len(x) = Len(F!Body(c + 1)) - 1 <=> m = F!AllOf(c + 1) - 1
<1> DEFINE k == c + 1
           n == Len(F!Body(k))
           y == F!Frame(k)
<1>1. /\ c \in 0..Len(stream) /\ m \in Nat /\ Within(c, m) /\ Off(k) > m
  BY DEF At, Within
<1>2. /\ k \in 1..Len(stream) /\ Off(c) \in Nat /\ Off(k) = Off(c) + Len(y)
  BY <1>1, WholeWire
<1>3. /\ x \in Seq(Bytes) /\ Len(x) = m - Off(c) /\ Len(x) \in Nat
      /\ \A i \in 1..Len(x) : i <= Len(y) => x[i] = y[i]
  BY <1>1, HeldIs DEF HeldFits
<1>4. n \in Nat \ {0} /\ EolLen \in {1, 2} /\ Len(y) = n + EolLen + EolLen
  BY <1>2, BodyInFrame
<1>5. /\ \A i \in 1..n : y[i] = F!Body(k)[i]
      /\ y[n + EolLen] = F!LF /\ y[n + EolLen + EolLen] = F!LF
      /\ EolLen = 2 => y[n + 1] = F!CR /\ y[n + 3] = F!CR
  BY <1>2, FrameIs DEF FrameFits
<1>6. F!AllOf(k) = Off(c) + n
  <2>1. k - 1 = c
    BY <1>1
  <2> QED BY <2>1 DEF F!AllOf, Off
<1> HIDE DEF n, y, k
<1>7. Len(x) < Len(y)
  BY <1>1, <1>2, <1>3, <1>4
<1>8. ASSUME NEW i \in 1..Len(x)
      PROVE  IF i <= n THEN x[i] = F!Body(k)[i] ELSE x[i].is \in Breaks
  <2>1. x[i] = y[i] /\ i \in Nat /\ i >= 1 /\ i < Len(y)
    BY <1>3, <1>4, <1>7
  <2>2. CASE i <= n
    BY <1>4, <1>5, <2>1, <2>2
  <2>3. CASE i > n
    <3>1. i \in {n + 1, n + 2, n + 3}
      BY <1>4, <2>1, <2>3
    <3>2. EolLen = 1 => i = n + 1
      BY <1>4, <2>1, <2>3
    <3>3. y[i] \in {F!LF, F!CR}
      BY <1>4, <1>5, <3>1, <3>2
    <3>4. x[i].is \in {"LF", "CR"}
      BY <2>1, <3>3, SomeBytes
    <3> QED BY <1>4, <2>1, <2>3, <3>4 DEF Breaks
  <2> QED BY <1>4, <2>1, <2>2, <2>3
<1>9. OfBody(x, k)
  BY <1>3, <1>8 DEF OfBody, n
<1>10. m \in Nat /\ Off(c) \in Nat /\ n \in Nat /\ Len(x) = m - Off(c)
  BY <1>1, <1>2, <1>3, <1>4
<1>11. Len(x) >= n <=> m >= F!AllOf(k)
  BY <1>6, <1>10
<1>12. Len(x) = n - 1 <=> m = F!AllOf(k) - 1
  BY <1>6, <1>10
<1> QED BY <1>2, <1>3, <1>4, <1>9, <1>11, <1>12 DEF n, k

LEMMA CloseCuts ==
  ASSUME StreamInv, F!Close
  PROVE  StreamInv'
<1>1. Streaming /\ state = "open" /\ UNCHANGED <<dialect, eol, stream, at>>
  BY DEF F!Close, StreamInv
<1>2. PICK c \in 0..Len(stream) : Cut(c, at, buffer, given, state)
  BY DEF StreamInv
<1>3. At(c, at) /\ buffer = Held(c, at) /\ F!Readable(c) /\ given = F!EventsOf(c)
  BY <1>1, <1>2 DEF Cut
<1>4. F!EventsOf(c) \in Seq(Nat) /\ Len(stream) \in Nat
  BY <1>1, EventsAre, Lengths DEF Streaming
<1>5. given \o << >> = given
  BY <1>3, <1>4, ConcatEmptySeq
<1>6. F!IsPrefix(given, F!EventsOf(c))
  <2>1. c <= c
    BY <1>2
  <2> QED BY <1>1, <1>3, <2>1, EventsGrow
<1>7. CASE dialect = "openai"
  <2>1. Cut(c, at, buffer, given, "closed")
    BY <1>3, <1>7 DEF Cut
  <2>2. at' = at /\ buffer' = buffer /\ given' = given /\ state' = "closed"
    BY <1>7 DEF F!Close
  <2> QED BY <1>1, <2>1, <2>2, CutStays
<1>8. CASE dialect = "anthropic"
  <2> DEFINE p == F!Parsed(buffer)
  <2>1. /\ buffer' = << >> /\ given' = given \o p.events
        /\ state' = IF p.fails THEN "failed" ELSE "closed"
    BY <1>8 DEF F!Close
  <2> HIDE DEF p
  <2> SUFFICES Cut(c, at, << >>, given \o p.events, IF p.fails THEN "failed" ELSE "closed")
    BY <1>1, <2>1, CutStays
  <2>2. CASE c = Len(stream)
    <3>1. Within(c, at) /\ Off(c) <= at /\ at <= Off(c) /\ Off(c) \in Nat /\ at \in Nat
      BY <1>1, <1>3, <2>2, WireFits DEF At, Within
    <3>2. buffer \in Seq(Bytes) /\ Len(buffer) = 0
      BY <1>1, <1>3, <3>1, HeldIs DEF HeldFits
    <3>3. p = [events |-> << >>, fails |-> FALSE]
      BY <3>2, NothingParsed DEF p
    <3>4. ~(c + 1 <= Len(stream))
      BY <1>4, <2>2
    <3> QED BY <1>3, <1>5, <3>3, <3>4 DEF Cut
  <2>3. CASE c < Len(stream)
    <3> DEFINE k == c + 1
               n == Len(F!Body(k))
    <3>1. /\ OfBody(buffer, k) /\ k \in 1..Len(stream) /\ Len(buffer) \in Nat /\ n \in Nat
          /\ Len(buffer) >= n <=> at >= F!AllOf(k)
          /\ Len(buffer) = n - 1 <=> at = F!AllOf(k) - 1
      BY <1>1, <1>3, <2>3, HeldOfBody
    <3>2. ParsedFits(p, buffer, k)
      BY <1>1, <3>1, ParsedIs DEF p
    <3>3. F!EventsOf(k) = F!EventsOf(c) \o EventIn(k)
      <4>1. k - 1 = c
        BY <1>4
      <4> QED BY <1>1, <3>1, <4>1, EventsAre
    <3>4. k <= Len(stream)
      BY <3>1
    <3>5. CASE Len(buffer) >= n
      <4>1. p.fails = (stream[k] = "bad") /\ p.events = EventIn(k)
        BY <3>2, <3>5 DEF ParsedFits, EventIn
      <4>2. CASE p.fails
        <5>1. ~IsEvent(k)
          BY <4>1, <4>2 DEF IsEvent
        <5>2. p.events = << >>
          BY <4>1, <5>1 DEF EventIn
        <5> QED BY <1>3, <1>5, <1>6, <4>2, <5>2 DEF Cut
      <4>3. CASE ~p.fails
        <5>1. F!Readable(k)
          <6>1. \A i \in 1..k : i \in 1..c \/ i = k
            BY <1>4
          <6> QED BY <1>3, <4>1, <4>3, <6>1 DEF F!Readable
        <5>2. at # F!AllOf(k) - 1 /\ at >= F!AllOf(k)
          BY <3>1, <3>5
        <5> QED BY <1>3, <1>8, <3>3, <3>4, <4>1, <4>3, <5>1, <5>2 DEF Cut
      <4> QED BY <4>2, <4>3
    <3>6. CASE ~(Len(buffer) >= n)
      <4>1. p.events = << >> /\ (IsEvent(k) /\ at = F!AllOf(k) - 1 => p.fails)
        BY <3>1, <3>2, <3>6 DEF ParsedFits
      <4>2. ~(at >= F!AllOf(k))
        BY <3>1, <3>6
      <4> QED BY <1>3, <1>5, <1>6, <4>1, <4>2 DEF Cut
    <3> QED BY <3>5, <3>6
  <2> QED BY <1>2, <1>4, <2>2, <2>3
<1> QED BY <1>1, <1>7, <1>8 DEF Streaming

LEMMA StreamSteps == StreamInv /\ [F!Next]_frames => StreamInv'
<1> SUFFICES ASSUME StreamInv, [F!Next]_frames PROVE StreamInv'
  OBVIOUS
<1>1. PICK c \in 0..Len(stream) : Streaming /\ Cut(c, at, buffer, given, state)
  BY DEF StreamInv
<1>2. CASE F!Break
  <2>1. F!EventsOf(c) = given /\ At(c, at) /\ c <= c
    BY <1>1, <1>2 DEF F!Break, Cut
  <2>2. Cut(c, at, buffer, given, "failed")
    BY <1>1, <2>1, EventsGrow DEF Cut
  <2> QED BY <1>1, <1>2, <2>2, CutStays DEF F!Break
<1>3. CASE UNCHANGED frames
  <2>1. /\ UNCHANGED <<dialect, eol, stream>>
        /\ at' = at /\ buffer' = buffer /\ given' = given /\ state' = state
    BY <1>3 DEF frames
  <2> QED BY <1>1, <2>1, CutStays
<1> QED BY <1>2, <1>3, ChunkCuts, CloseCuts DEF F!Next

(* However the bytes of a stream are cut, the events that it gives are     *)
(* those of the frames that have come (SseParser::push and finish of       *)
(* sse.rs, OpenAiSseParser::push of openai_compat.rs).                     *)
THEOREM CutSafety == BoundariesSpec => []CutsDoNotMatter
<1>1. BoundariesInit => StreamInv
  BY PartsStart, StreamStarts
<1>2. StreamInv /\ [BoundariesNext]_all => StreamInv'
  BY PartsStep, StreamSteps
<1>3. StreamInv => CutsDoNotMatter
  BY StreamIsSafe DEF CutsDoNotMatter
<1> QED BY <1>1, <1>2, <1>3, PTL DEF BoundariesSpec
=============================================================================
