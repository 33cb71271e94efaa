---------------------------- MODULE EngineProofs ----------------------------
(***************************************************************************)
(* Proofs about the turn loop (ConversationTurn) and the manager of MCP    *)
(* servers (McpManager), for any tools, rules, hooks, servers, sizes and   *)
(* bounds: what runs was allowed, what a request sends is paired, results  *)
(* are what happened, and the servers' pipes are in step.                  *)
(***************************************************************************)
EXTENDS MCEngine, SequenceTheorems, WellFoundedInduction, TLAPS

(* A tool runs only on what the policy allowed: the decision is kept with  *)
(* the call from the gate to the end of its execution.                     *)
CurShape == DOMAIN cur = {"input", "refused", "override", "reply", "error"}
Decision == Perm!Authorize(policy, call.tool, InputOf[cur.input], cur.override, cur.reply)
AllowedInv == CurShape /\ (pc \in {"execute", "post"} => ~cur.refused /\ Decision.allowed)

(* The decision in the next state is the same function of that state.      *)
LEMMA DecisionNext ==
  Decision' = Perm!Authorize(policy', call'.tool, InputOf[cur'.input], cur'.override, cur'.reply)
BY DEF Decision, Perm!Authorize, Perm!SomeMatches, Perm!Matches, Perm!Subject, Perm!SubjectKeys,
       Perm!StartsWith, Perm!Granted, Perm!Escalates, Perm!Rank, Perm!RequiredMode, Perm!Denied,
       Perm!Allowed, Perm!PromptOrDeny

LEMMA NextAllowed ==
  ASSUME AllowedInv, [Next]_vars
  PROVE  AllowedInv'
<1> USE DEF AllowedInv
<1>1. ASSUME pc' \notin {"execute", "post"}, cur' \in {cur, NoCall} PROVE AllowedInv'
  BY <1>1 DEF CurShape, NoCall
<1>2. CASE Rebuild \/ StartTurn \/ GiveUp \/ PushResult \/ EndTurn
           \/ \E k \in 0..(MaxCalls - calls), n \in Usages : \E cs \in Requested(k) : Reply(cs, n)
  <2>1. pc' \notin {"execute", "post"} /\ cur' \in {cur, NoCall}
    BY <1>2 DEF Rebuild, StartTurn, GiveUp, PushResult, EndTurn, Reply, TurnOver
  <2> QED BY <1>1, <2>1
<1>3. ASSUME NEW v \in PreVerdicts, PreHook(v) PROVE AllowedInv'
  <2>1. pc' \in {"push", "gate"}
    BY <1>3 DEF PreHook
  <2> QED BY <1>3, <2>1 DEF PreHook, CurShape, NoCall
<1>4. ASSUME NEW reply, Gate(reply) PROVE AllowedInv'
  <2> DEFINE d == Perm!Authorize(policy, call.tool, InputOf[cur.input], cur.override, reply)
             refused == ~d.allowed
  <2>1. /\ cur' = [cur EXCEPT !.reply = reply, !.refused = refused]
        /\ pc' = IF d.allowed THEN "execute" ELSE "push"
        /\ UNCHANGED <<policy, todo>>
    BY <1>4 DEF Gate, setup
  <2> HIDE DEF d, refused
  <2>2. /\ cur'.input = cur.input /\ cur'.override = cur.override /\ cur'.reply = reply
        /\ cur'.refused = refused /\ CurShape'
    BY <2>1 DEF CurShape
  <2>3. CASE d.allowed
    <3>1. ~cur'.refused
      BY <2>2, <2>3 DEF refused
    <3>2. Decision' = d
      BY <2>1, <2>2, DecisionNext DEF call, d
    <3> QED BY <2>2, <2>3, <3>1, <3>2
  <2>4. CASE ~d.allowed
    BY <2>1, <2>2, <2>4
  <2> QED BY <2>3, <2>4
<1>5. ASSUME pc \in {"execute", "post"}, UNCHANGED <<policy, todo>>,
             NEW e, cur' = [cur EXCEPT !.error = e]
      PROVE  AllowedInv'
  <2>1. /\ cur'.input = cur.input /\ cur'.override = cur.override /\ cur'.reply = cur.reply
        /\ cur'.refused = cur.refused /\ CurShape'
    BY <1>5 DEF CurShape
  <2>2. Decision' = Decision
    BY <1>5, <2>1, DecisionNext DEF Decision, call
  <2> QED BY <1>5, <2>1, <2>2
<1>6. ASSUME NEW ok, Execute(ok) PROVE AllowedInv'
  <2> DEFINE e == ~ok
  <2>1. cur' = [cur EXCEPT !.error = e] /\ pc = "execute" /\ UNCHANGED <<policy, todo>>
    BY <1>6 DEF Execute, setup
  <2> HIDE DEF e
  <2> QED BY <1>5, <2>1
<1>7. ASSUME NEW v, PostHook(v) PROVE AllowedInv'
  <2> DEFINE e == cur.error \/ Refuses(v)
  <2>1. cur' = [cur EXCEPT !.error = e] /\ pc = "post" /\ UNCHANGED <<policy, todo>>
    BY <1>7 DEF PostHook, setup
  <2> HIDE DEF e
  <2> QED BY <1>5, <2>1
<1>8. CASE UNCHANGED vars
  <2>1. UNCHANGED <<policy, todo, cur, pc>>
    BY <1>8 DEF vars, setup
  <2>2. Decision' = Decision
    BY <2>1, DecisionNext DEF Decision, call
  <2> QED BY <2>1, <2>2 DEF CurShape
<1> QED BY <1>2, <1>3, <1>4, <1>6, <1>7, <1>8 DEF Next, TurnStep

(* For every policy, every hook and every answer of the user: between the  *)
(* gate and the end of its execution a call is one the policy allows, on   *)
(* the input it runs on (conversation.rs, run_turn).                       *)
THEOREM OnlyAllowedRuns == Spec => []RunsWhatWasAllowed
<1>1. Init => AllowedInv
  BY DEF Init, AllowedInv, CurShape, NoCall
<1>2. AllowedInv /\ [Next]_vars => AllowedInv'
  BY NextAllowed
<1>3. AllowedInv => RunsWhatWasAllowed
  BY DEF AllowedInv, RunsWhatWasAllowed, Decision
<1> QED BY <1>1, <1>2, <1>3, PTL DEF Spec

-----------------------------------------------------------------------------
(* Sessions *)

Call == [id : Nat, tool : Tools, input : InputNames]
Message == [role : {"user", "assistant", "tool", "system"}, calls : Seq(Call), answers : Nat,
            error : BOOLEAN, tokens : Nat]

Paired(seq) == Answered(seq) /\ Rooted(seq)

(* The reply at b has the results of all its calls but the last ones.      *)
AnsweredBut(seq, b, rest) ==
    LET d == Len(seq) - b IN
    /\ b \in 1..Len(seq) /\ Len(seq[b].calls) = d + Len(rest)
    /\ \A k \in 1..d : seq[b + k].role = "tool" /\ seq[b + k].answers = seq[b].calls[k].id
    /\ \A k \in 1..Len(rest) : seq[b].calls[d + k] = rest[k]
    /\ \A i \in DOMAIN seq \ {b} : \A k \in DOMAIN seq[i].calls :
          i + k \in DOMAIN seq /\ seq[i + k].role = "tool" /\ seq[i + k].answers = seq[i].calls[k].id

LEMMA MessageKinds ==
  /\ User \in Message /\ User.role = "user" /\ User.calls = << >>
  /\ Summary \in Message /\ Summary.role = "system" /\ Summary.calls = << >>
  /\ \A cs \in Seq(Call), n \in Nat :
       Assistant(cs, n) \in Message /\ Assistant(cs, n).role = "assistant" /\ Assistant(cs, n).calls = cs
  /\ \A id \in Nat, e \in BOOLEAN :
       /\ ToolResult(id, e) \in Message /\ ToolResult(id, e).role = "tool"
       /\ ToolResult(id, e).calls = << >> /\ ToolResult(id, e).answers = id
<1>1. /\ Plain.role = "user" /\ Plain.calls = << >> /\ Plain.error = FALSE
      /\ Plain.answers = 0 /\ Plain.tokens = 0 /\ Plain \in Message
  BY DEF Plain, Message
<1>2. User \in Message /\ User.role = "user" /\ User.calls = << >>
  BY <1>1 DEF User
<1>3. Summary \in Message /\ Summary.role = "system" /\ Summary.calls = << >>
  BY <1>1 DEF Summary, Message
<1>4. ASSUME NEW cs \in Seq(Call), NEW n \in Nat
      PROVE  Assistant(cs, n) \in Message /\ Assistant(cs, n).role = "assistant" /\ Assistant(cs, n).calls = cs
  BY <1>1 DEF Assistant, Message
<1>5. ASSUME NEW id \in Nat, NEW e \in BOOLEAN
      PROVE  /\ ToolResult(id, e) \in Message /\ ToolResult(id, e).role = "tool"
             /\ ToolResult(id, e).calls = << >> /\ ToolResult(id, e).answers = id
  BY <1>1 DEF ToolResult, Message
<1> QED BY <1>2, <1>3, <1>4, <1>5

LEMMA CallsOf ==
  ASSUME NEW seq \in Seq(Message), NEW i \in 1..Len(seq)
  PROVE  /\ seq[i] \in Message /\ seq[i].calls \in Seq(Call)
         /\ Len(seq[i].calls) \in Nat /\ DOMAIN seq[i].calls = 1..Len(seq[i].calls)
<1>1. seq[i] \in Message
  OBVIOUS
<1>2. seq[i].calls \in Seq(Call)
  BY <1>1 DEF Message
<1> QED BY <1>1, <1>2

LEMMA AppendOne ==
  ASSUME NEW seq \in Seq(Message), NEW m \in Message
  PROVE  /\ Len(seq) \in Nat /\ DOMAIN seq = 1..Len(seq)
         /\ Append(seq, m) \in Seq(Message) /\ DOMAIN Append(seq, m) = 1..(Len(seq) + 1)
         /\ Len(Append(seq, m)) = Len(seq) + 1
         /\ \A i \in 1..Len(seq) : Append(seq, m)[i] = seq[i]
         /\ Append(seq, m)[Len(seq) + 1] = m
OBVIOUS

(* What comes after a message takes nothing from it; a new result has its  *)
(* call, or is none.                                                       *)
LEMMA AppendRooted ==
  ASSUME NEW seq \in Seq(Message), NEW m \in Message, Rooted(seq),
         \/ m.role # "tool"
         \/ \E i \in 1..Len(seq) : LET k == Len(seq) + 1 - i IN
              k \in DOMAIN seq[i].calls /\ seq[i].calls[k].id = m.answers
  PROVE  Rooted(Append(seq, m))
<1> DEFINE longer == Append(seq, m)
           n == Len(seq)
<1>1. /\ n \in Nat /\ DOMAIN longer = 1..(n + 1) /\ longer[n + 1] = m
      /\ \A i \in 1..n : longer[i] = seq[i]
      /\ DOMAIN seq = 1..n
  BY AppendOne
<1> HIDE DEF longer
<1> SUFFICES ASSUME NEW j \in 1..(n + 1), longer[j].role = "tool"
             PROVE  \/ \E i \in 1..(j - 1) :
                         j - i \in DOMAIN longer[i].calls /\ longer[i].calls[j - i].id = longer[j].answers
                    \/ \A i \in 1..(j - 1) : longer[i].role \in {"system", "tool"}
  BY <1>1 DEF Rooted, longer
<1>2. CASE j \in 1..n
  <2>1. /\ longer[j] = seq[j] /\ j \in DOMAIN seq
        /\ \A i \in 1..(j - 1) : longer[i] = seq[i]
    BY <1>1, <1>2
  <2>2. \/ \E i \in 1..(j - 1) :
              j - i \in DOMAIN seq[i].calls /\ seq[i].calls[j - i].id = seq[j].answers
        \/ \A i \in 1..(j - 1) : seq[i].role \in {"system", "tool"}
    BY <2>1 DEF Rooted
  <2> QED BY <2>1, <2>2
<1>3. CASE j = n + 1
  <2>1. PICK i \in 1..n : n + 1 - i \in DOMAIN seq[i].calls /\ seq[i].calls[n + 1 - i].id = m.answers
    BY <1>1, <1>3
  <2>2. i \in 1..(j - 1) /\ longer[i] = seq[i] /\ j - i = n + 1 - i /\ longer[j] = m
    BY <1>1, <1>3
  <2> QED BY <2>1, <2>2
<1> QED BY <1>1, <1>2, <1>3

LEMMA AppendPlain ==
  ASSUME NEW seq \in Seq(Message), NEW m \in Message, Paired(seq),
         m.role # "tool", m.calls = << >>
  PROVE  Paired(Append(seq, m))
<1>1. Rooted(Append(seq, m))
  BY AppendRooted DEF Paired
<1>2. Answered(Append(seq, m))
  <2>1. DOMAIN m.calls = {}
    OBVIOUS
  <2> QED BY <2>1, AppendOne DEF Paired, Answered
<1> QED BY <1>1, <1>2 DEF Paired

(* A reply asks for its calls, none of which is answered yet.              *)
LEMMA AppendReply ==
  ASSUME NEW seq \in Seq(Message), NEW m \in Message, Paired(seq), m.role # "tool"
  PROVE  Rooted(Append(seq, m)) /\ AnsweredBut(Append(seq, m), Len(seq) + 1, m.calls)
<1> DEFINE longer == Append(seq, m)
           n == Len(seq)
<1>1. /\ n \in Nat /\ DOMAIN longer = 1..(n + 1) /\ longer[n + 1] = m /\ Len(longer) = n + 1
      /\ \A i \in 1..n : longer[i] = seq[i]
      /\ DOMAIN seq = 1..n
  BY AppendOne
<1>2. m.calls \in Seq(Call) /\ Len(m.calls) \in Nat
  BY DEF Message
<1> HIDE DEF longer, n
<1>3. ASSUME NEW i \in DOMAIN longer \ {n + 1}, NEW k \in DOMAIN longer[i].calls
      PROVE  /\ i + k \in DOMAIN longer /\ longer[i + k].role = "tool"
             /\ longer[i + k].answers = longer[i].calls[k].id
  <2>1. i \in 1..n /\ longer[i] = seq[i]
    BY <1>1
  <2>2. i + k \in 1..n /\ seq[i + k].role = "tool" /\ seq[i + k].answers = seq[i].calls[k].id
    BY <1>1, <1>3, <2>1 DEF Paired, Answered
  <2> QED BY <1>1, <2>1, <2>2
<1>4. AnsweredBut(longer, n + 1, m.calls)
  BY <1>1, <1>2, <1>3 DEF AnsweredBut
<1>5. Rooted(longer)
  BY AppendRooted DEF Paired, longer
<1> QED BY <1>4, <1>5 DEF longer, n

(* A result answers the first of the calls that wait.                      *)
LEMMA AppendResult ==
  ASSUME NEW seq \in Seq(Message), NEW m \in Message, NEW b, NEW rest \in Seq(Call),
         Rooted(seq), AnsweredBut(seq, b, rest), rest # << >>,
         m.role = "tool", m.calls = << >>, m.answers = Head(rest).id
  PROVE  /\ Rooted(Append(seq, m))
         /\ Tail(rest) # << >> => AnsweredBut(Append(seq, m), b, Tail(rest))
         /\ Tail(rest) = << >> => Answered(Append(seq, m))
<1> DEFINE longer == Append(seq, m)
           n == Len(seq)
           d == n - b
<1>1. /\ n \in Nat /\ DOMAIN longer = 1..(n + 1) /\ longer[n + 1] = m /\ Len(longer) = n + 1
      /\ \A i \in 1..n : longer[i] = seq[i]
      /\ DOMAIN seq = 1..n
  BY AppendOne
<1>2. b \in 1..n /\ d \in Nat
  BY <1>1 DEF AnsweredBut
<1>3. seq[b].calls \in Seq(Call) /\ DOMAIN seq[b].calls = 1..Len(seq[b].calls)
  BY <1>2, CallsOf
<1>4. /\ Len(rest) \in Nat \ {0} /\ Head(rest) = rest[1]
      /\ Len(Tail(rest)) = Len(rest) - 1 /\ \A k \in 1..(Len(rest) - 1) : Tail(rest)[k] = rest[k + 1]
  BY HeadTailProperties
<1>5. /\ Len(seq[b].calls) = d + Len(rest)
      /\ \A k \in 1..d : seq[b + k].role = "tool" /\ seq[b + k].answers = seq[b].calls[k].id
      /\ \A k \in 1..Len(rest) : seq[b].calls[d + k] = rest[k]
      /\ \A i \in 1..n \ {b} : \A k \in DOMAIN seq[i].calls :
            i + k \in 1..n /\ seq[i + k].role = "tool" /\ seq[i + k].answers = seq[i].calls[k].id
  BY <1>1 DEF AnsweredBut
<1> HIDE DEF longer, n
<1>6. n + 1 - b = d + 1 /\ d + 1 \in 1..Len(seq[b].calls) /\ seq[b].calls[d + 1].id = m.answers
  BY <1>1, <1>2, <1>4, <1>5
<1>7. Rooted(longer)
  BY <1>2, <1>3, <1>6, AppendRooted DEF longer, n
<1>8. \A i \in 1..(n + 1) \ {b} : \A k \in DOMAIN longer[i].calls :
        /\ i + k \in 1..(n + 1) /\ longer[i + k].role = "tool"
        /\ longer[i + k].answers = longer[i].calls[k].id
  <2>1. ASSUME NEW i \in 1..n, i # b, NEW k \in DOMAIN longer[i].calls
        PROVE  /\ i + k \in 1..(n + 1) /\ longer[i + k].role = "tool"
               /\ longer[i + k].answers = longer[i].calls[k].id
    <3>1. longer[i] = seq[i]
      BY <1>1
    <3>2. i + k \in 1..n /\ seq[i + k].role = "tool" /\ seq[i + k].answers = seq[i].calls[k].id
      BY <1>5, <2>1, <3>1
    <3> QED BY <1>1, <3>1, <3>2
  <2>2. DOMAIN longer[n + 1].calls = {}
    BY <1>1
  <2> QED BY <1>1, <2>1, <2>2
<1>9. \A k \in 1..(d + 1) : longer[b + k].role = "tool" /\ longer[b + k].answers = longer[b].calls[k].id
  <2> SUFFICES ASSUME NEW k \in 1..(d + 1)
               PROVE  longer[b + k].role = "tool" /\ longer[b + k].answers = longer[b].calls[k].id
    OBVIOUS
  <2>1. longer[b] = seq[b]
    BY <1>1, <1>2
  <2>2. CASE k \in 1..d
    <3>1. b + k \in 1..n
      BY <1>1, <1>2, <2>2
    <3> QED BY <1>1, <1>5, <2>1, <2>2, <3>1
  <2>3. CASE k = d + 1
    <3>1. b + k = n + 1
      BY <1>1, <1>2, <2>3
    <3> QED BY <1>1, <1>6, <2>1, <2>3, <3>1
  <2> QED BY <1>2, <2>2, <2>3
<1>10. ASSUME Tail(rest) # << >> PROVE AnsweredBut(longer, b, Tail(rest))
  <2>1. longer[b] = seq[b] /\ Len(longer) - b = d + 1 /\ b \in 1..Len(longer)
    BY <1>1, <1>2
  <2>2. \A k \in 1..Len(Tail(rest)) : longer[b].calls[d + 1 + k] = Tail(rest)[k]
    <3> SUFFICES ASSUME NEW k \in 1..Len(Tail(rest)) PROVE longer[b].calls[d + 1 + k] = Tail(rest)[k]
      OBVIOUS
    <3>1. k + 1 \in 1..Len(rest) /\ d + 1 + k = d + (k + 1)
      BY <1>2, <1>4
    <3> QED BY <1>4, <1>5, <2>1, <3>1
  <2>3. Len(longer[b].calls) = d + 1 + Len(Tail(rest))
    BY <1>2, <1>4, <1>5, <2>1
  <2> HIDE DEF d
  <2> QED BY <1>1, <1>8, <1>9, <2>1, <2>2, <2>3 DEF AnsweredBut
<1>11. ASSUME Tail(rest) = << >> PROVE Answered(longer)
  <2>1. Len(rest) = 1
    <3>1. Tail(rest) \in Seq(Call) /\ Len(Tail(rest)) = Len(rest) - 1 /\ Len(rest) \in Nat
      BY HeadTailProperties
    <3>2. Len(Tail(rest)) = 0
      BY <1>11, <3>1, EmptySeq
    <3>3. \A a, c \in Int : a = c - 1 /\ a = 0 => c = 1
      OBVIOUS
    <3>4. Len(Tail(rest)) \in Int /\ Len(rest) \in Int
      BY <3>1
    <3> QED BY <3>1, <3>2, <3>3, <3>4, Zenon
  <2>2. DOMAIN longer[b].calls = 1..(d + 1)
    BY <1>1, <1>2, <1>3, <1>5, <2>1
  <2>3. \A k \in 1..(d + 1) : b + k \in 1..(n + 1)
    BY <1>1, <1>2
  <2> HIDE DEF d
  <2>4. ASSUME NEW i \in DOMAIN longer, NEW k \in DOMAIN longer[i].calls
        PROVE  /\ i + k \in DOMAIN longer /\ longer[i + k].role = "tool"
               /\ longer[i + k].answers = longer[i].calls[k].id
    <3>1. CASE i = b
      BY <1>1, <1>9, <2>2, <2>3, <2>4, <3>1
    <3>2. CASE i # b
      BY <1>1, <1>8, <2>4, <3>2
    <3> QED BY <3>1, <3>2
  <2> QED BY <2>4 DEF Answered
<1> QED BY <1>7, <1>10, <1>11 DEF longer

-----------------------------------------------------------------------------
(* Compaction *)

LEMMA CompactedShape ==
  ASSUME NEW seq \in Seq(Message), Len(seq) - SummaryLength(seq) > Preserve
  PROVE  /\ Preserve \in Nat /\ Len(seq) \in Nat /\ Preserve <= Len(seq)
         /\ Compacted(seq) \in Seq(Message)
         /\ DOMAIN Compacted(seq) = 1..(Preserve + 1)
         /\ Compacted(seq)[1] = Summary
         /\ \A j \in 2..(Preserve + 1) : /\ j + (Len(seq) - Preserve - 1) \in 1..Len(seq)
                                         /\ Compacted(seq)[j] = seq[j + (Len(seq) - Preserve - 1)]
<1> DEFINE n == Len(seq)
           recent == SubSeq(seq, n - Preserve + 1, n)
<1>1. Preserve \in Nat /\ n \in Nat
  BY NumbersAssumption
<1>2. Preserve <= n
  BY <1>1 DEF SummaryLength
<1>3. /\ recent \in Seq(Message) /\ Len(recent) = Preserve
      /\ \A i \in 1..Preserve : recent[i] = seq[n - Preserve + i]
  <2>1. \A i \in (n - Preserve + 1)..n : seq[i] \in Message
    BY <1>1, <1>2
  <2>2. n - Preserve + 1 \in Int /\ n \in Int
    BY <1>1
  <2>3. /\ recent \in Seq(Message)
        /\ Len(recent) = IF n - Preserve + 1 <= n THEN n - (n - Preserve + 1) + 1 ELSE 0
        /\ \A i \in 1..(n - (n - Preserve + 1) + 1) : recent[i] = seq[(n - Preserve + 1) + i - 1]
    BY <2>1, <2>2, SubSeqProperties
  <2> HIDE DEF recent
  <2> QED BY <1>1, <1>2, <2>3
<1>4. Compacted(seq) = <<Summary>> \o recent
  BY DEF Compacted
<1>5. <<Summary>> \in Seq(Message) /\ Len(<<Summary>>) = 1 /\ <<Summary>>[1] = Summary
  BY MessageKinds
<1> HIDE DEF recent
<1>6. /\ Compacted(seq) \in Seq(Message) /\ Len(Compacted(seq)) = 1 + Preserve
      /\ \A i \in 1..(1 + Preserve) : Compacted(seq)[i] = IF i <= 1 THEN <<Summary>>[i] ELSE recent[i - 1]
  BY <1>3, <1>4, <1>5, ConcatProperties
<1>7. DOMAIN Compacted(seq) = 1..(Preserve + 1)
  BY <1>1, <1>6
<1>8. ASSUME NEW j \in 2..(Preserve + 1)
      PROVE  j + (n - Preserve - 1) \in 1..n /\ Compacted(seq)[j] = seq[j + (n - Preserve - 1)]
  <2>1. j - 1 \in 1..Preserve /\ n - Preserve + (j - 1) = j + (n - Preserve - 1)
    BY <1>1, <1>8
  <2> QED BY <1>1, <1>2, <1>3, <1>6, <2>1
<1>9. Compacted(seq)[1] = Summary
  BY <1>1, <1>5, <1>6
<1> QED BY <1>1, <1>2, <1>6, <1>7, <1>8, <1>9

(* A compaction may cut a call off its results, never a result off a call  *)
(* that stays.                                                             *)
LEMMA CompactionPairs ==
  ASSUME NEW seq \in Seq(Message), Paired(seq)
  PROVE  Compacted(seq) \in Seq(Message) /\ Paired(Compacted(seq))
<1>1. CASE ~(Len(seq) - SummaryLength(seq) > Preserve)
  BY <1>1 DEF Compacted
<1>2. CASE Len(seq) - SummaryLength(seq) > Preserve
  <2> DEFINE short == Compacted(seq)
             P == Preserve
             n == Len(seq)
             s == n - P - 1
  <2>1. /\ P \in Nat /\ n \in Nat /\ P <= n /\ s \in Int
        /\ short \in Seq(Message) /\ DOMAIN short = 1..(P + 1) /\ DOMAIN seq = 1..n
        /\ short[1] = Summary
        /\ \A j \in 2..(P + 1) : j + s \in 1..n /\ short[j] = seq[j + s]
    BY <1>2, CompactedShape
  <2>2. Summary.role = "system" /\ Summary.calls = << >>
    BY MessageKinds
  <2>3. P \in Int /\ n \in Int /\ s \in Int /\ s = n - P - 1
    BY <2>1
  <2> HIDE DEF short, P, n, s
  <2>4. Answered(short)
    <3> SUFFICES ASSUME NEW i \in 1..(P + 1), NEW k \in DOMAIN short[i].calls
                 PROVE  /\ i + k \in 1..(P + 1) /\ short[i + k].role = "tool"
                        /\ short[i + k].answers = short[i].calls[k].id
      BY <2>1 DEF Answered
    <3>1. i # 1
      BY <2>1, <2>2
    <3>2. i + s \in 1..n /\ short[i] = seq[i + s]
      BY <2>1, <3>1
    <3>3. /\ (i + s) + k \in 1..n /\ seq[(i + s) + k].role = "tool"
          /\ seq[(i + s) + k].answers = seq[i + s].calls[k].id
      BY <2>1, <3>2 DEF Paired, Answered
    <3>4. k \in Nat \ {0}
      <4>1. DOMAIN seq[i + s].calls = 1..Len(seq[i + s].calls) /\ Len(seq[i + s].calls) \in Nat
        BY <3>2, CallsOf DEF n
      <4> QED BY <3>2, <4>1
    <3>5. i + k \in 2..(P + 1) /\ (i + k) + s = (i + s) + k
      BY <2>1, <2>3, <3>1, <3>3, <3>4
    <3> QED BY <2>1, <3>2, <3>3, <3>5
  <2>5. Rooted(short)
    <3> SUFFICES ASSUME NEW j \in 1..(P + 1), short[j].role = "tool"
                 PROVE  \/ \E i \in 1..(j - 1) :
                             j - i \in DOMAIN short[i].calls /\ short[i].calls[j - i].id = short[j].answers
                        \/ \A i \in 1..(j - 1) : short[i].role \in {"system", "tool"}
      BY <2>1 DEF Rooted
    <3>1. j \in 2..(P + 1) /\ j + s \in 1..n /\ short[j] = seq[j + s]
      <4>1. j # 1
        BY <2>1, <2>2
      <4>2. j \in 2..(P + 1)
        BY <2>3, <4>1
      <4> QED BY <2>1, <4>2
    <3>2. ASSUME NEW i \in 1..(j - 1), i # 1
          PROVE  i \in 2..(P + 1) /\ i + s \in 1..((j + s) - 1) /\ short[i] = seq[i + s]
      <4>1. i \in 2..(P + 1) /\ i + s <= (j + s) - 1
        <5>1. i \in Int /\ j \in Int /\ 2 <= i /\ i <= j - 1 /\ j <= P + 1
          BY <2>3, <3>1, <3>2
        <5>2. i <= P + 1
          BY <2>3, <5>1
        <5>3. i + s <= (j + s) - 1
          BY <2>3, <5>1
        <5> QED BY <2>3, <5>1, <5>2, <5>3
      <4>2. i + s \in 1..n /\ short[i] = seq[i + s]
        BY <2>1, <4>1
      <4>3. i + s \in 1..((j + s) - 1)
        BY <2>3, <3>1, <4>1, <4>2
      <4> QED BY <4>1, <4>2, <4>3
    <3> DEFINE Has == \E x \in 1..((j + s) - 1) :
                        (j + s) - x \in DOMAIN seq[x].calls /\ seq[x].calls[(j + s) - x].id = seq[j + s].answers
               HasNone == \A x \in 1..((j + s) - 1) : seq[x].role \in {"system", "tool"}
    <3>3. CASE Has
      <4>1. PICK x \in 1..((j + s) - 1) :
              (j + s) - x \in DOMAIN seq[x].calls /\ seq[x].calls[(j + s) - x].id = seq[j + s].answers
        BY <3>3
      <4>2. x \in Int /\ 1 <= x /\ x <= (j + s) - 1 /\ x \in 1..n
        BY <2>3, <3>1
      <4>3. DOMAIN seq[x].calls = 1..Len(seq[x].calls) /\ Len(seq[x].calls) \in Nat
        BY <4>2, CallsOf DEF n
      <4>4. CASE x - s >= 2
        <5>1. /\ x - s \in 1..(j - 1) /\ x - s \in 2..(P + 1)
              /\ (x - s) + s = x /\ j - (x - s) = (j + s) - x
          BY <2>3, <3>1, <4>2, <4>4
        <5>2. short[x - s] = seq[x]
          BY <2>1, <5>1
        <5> QED BY <3>1, <4>1, <5>1, <5>2
      <4>5. CASE ~(x - s >= 2)
        <5>1. ASSUME NEW i \in 1..(j - 1), i # 1 PROVE short[i].role = "tool"
          <6>1. short[i] = seq[i + s]
            BY <3>2, <5>1
          <6>2. /\ i \in Int /\ i >= 2 /\ i <= j - 1
                /\ 1 <= (i + s) - x /\ (i + s) - x <= (j + s) - x /\ (i + s) - x \in Int
                /\ x + ((i + s) - x) = i + s
            BY <2>3, <3>1, <4>2, <4>5, <5>1
          <6>3. (j + s) - x \in 1..Len(seq[x].calls)
            BY <4>1, <4>3
          <6>4. (i + s) - x \in DOMAIN seq[x].calls
            BY <2>3, <3>1, <4>2, <4>3, <6>2, <6>3
          <6>5. seq[x + ((i + s) - x)].role = "tool"
            BY <2>1, <4>2, <6>4 DEF Paired, Answered
          <6> QED BY <6>1, <6>2, <6>5
        <5>2. \A i \in 1..(j - 1) : short[i].role \in {"system", "tool"}
          BY <2>1, <2>2, <5>1
        <5> QED BY <5>2
      <4> QED BY <4>4, <4>5
    <3>4. CASE HasNone
      <4>1. ASSUME NEW i \in 1..(j - 1) PROVE short[i].role \in {"system", "tool"}
        <5>1. CASE i = 1
          BY <2>1, <2>2, <5>1
        <5>2. CASE i # 1
          BY <3>2, <3>4, <5>2
        <5> QED BY <5>1, <5>2
      <4> QED BY <4>1
    <3>5. j + s \in DOMAIN seq /\ seq[j + s].role = "tool" /\ Rooted(seq)
      BY <2>1, <3>1 DEF Paired
    <3> HIDE DEF s
    <3>6. Has \/ HasNone
      BY <3>5, Zenon DEF Rooted
    <3> HIDE DEF Has, HasNone
    <3> QED BY <3>3, <3>4, <3>6
  <2> QED BY <2>1, <2>4, <2>5 DEF Paired, short
<1> QED BY <1>1, <1>2
-----------------------------------------------------------------------------
(* The turn *)

Types == /\ messages \in Seq(Message) /\ kept \in Seq(Message)
         /\ todo \in Seq(Call) /\ calls \in Nat
         /\ torn \in BOOLEAN /\ driver \in {"repl", "tab"} /\ (torn => driver = "tab")

Waiting(seq, rest) == Rooted(seq) /\ \E b \in 1..Len(seq) : AnsweredBut(seq, b, rest)

Answering == {"pre", "gate", "execute", "post", "push"}

(* The session is paired between replies; while the calls of a reply are   *)
(* answered, those in todo are what it lacks.  What a driver keeps is      *)
(* paired always: the REPL forgets the turns that fail.                    *)
PairInv ==
  /\ Types
  /\ torn \/ Paired(kept)
  /\ pc \in {"ready", "loop", "end"} => torn \/ Paired(messages)
  /\ pc \in Answering => todo # << >> /\ (torn \/ Waiting(messages, todo))

LEMMA OverKeepsPairs ==
  ASSUME PairInv, messages' \in Seq(Message), calls' \in Nat, UNCHANGED driver,
         torn' \in BOOLEAN, torn => torn', torn' => driver = "tab",
         pc' = IF driver = "repl" THEN "idle" ELSE "ready", todo' = << >>,
         \/ driver = "repl" /\ kept' = kept
         \/ kept' = messages' /\ (torn' \/ Paired(messages'))
  PROVE  PairInv'
<1>1. Types'
  BY DEF PairInv, Types
<1>2. (torn \/ Paired(kept)) /\ driver \in {"repl", "tab"}
  BY DEF PairInv, Types
<1>3. torn' \/ Paired(kept')
  BY <1>2
<1>4. pc' \in {"ready", "loop", "end"} => torn' \/ Paired(messages')
  BY <1>2
<1>5. pc' \notin Answering
  BY DEF Answering
<1> QED BY <1>1, <1>3, <1>4, <1>5 DEF PairInv

LEMMA RebuildKeepsPairs ==
  ASSUME PairInv, Rebuild
  PROVE  PairInv'
<1>1. /\ pc' = "ready" /\ messages' = kept
      /\ UNCHANGED <<driver, kept, todo, torn, calls>>
  BY DEF Rebuild, setup, counters
<1>2. Types' /\ (torn' \/ Paired(kept')) /\ (torn' \/ Paired(messages'))
  BY <1>1 DEF PairInv, Types
<1> QED BY <1>1, <1>2 DEF PairInv, Answering

LEMMA StartKeepsPairs ==
  ASSUME PairInv, StartTurn
  PROVE  PairInv'
<1>1. /\ messages \in Seq(Message) /\ (torn \/ Paired(messages))
      /\ UNCHANGED <<driver, torn, calls>> /\ torn \in BOOLEAN /\ calls \in Nat /\ (torn => driver = "tab")
      /\ driver \in {"repl", "tab"}
  BY DEF StartTurn, setup, PairInv, Types
<1>2. ASSUME Pushed(User), pc' = "loop", UNCHANGED <<kept, todo>> PROVE PairInv'
  <2>1. messages' = Append(messages, User)
    BY <1>2 DEF Pushed
  <2>2. messages' \in Seq(Message) /\ (torn' \/ Paired(messages'))
    <3>1. Append(messages, User) \in Seq(Message)
      BY <1>1, MessageKinds, AppendOne
    <3>2. torn \/ Paired(Append(messages, User))
      BY <1>1, MessageKinds, AppendPlain
    <3> QED BY <1>1, <2>1, <3>1, <3>2
  <2>3. Types' /\ (torn' \/ Paired(kept'))
    BY <1>1, <1>2, <2>2 DEF PairInv, Types
  <2> QED BY <1>2, <2>2, <2>3 DEF PairInv, Answering
<1>3. ASSUME NotPushed, TurnOver(FALSE) PROVE PairInv'
  <2>1. UNCHANGED messages
    BY <1>3 DEF NotPushed
  <2>2. messages' \in Seq(Message) /\ (torn' \/ Paired(messages'))
    BY <1>1, <2>1
  <2>3. /\ pc' = IF driver = "repl" THEN "idle" ELSE "ready"
        /\ kept' = (IF driver = "tab" THEN messages' ELSE kept) /\ todo' = << >>
    BY <1>3 DEF TurnOver
  <2> QED BY <1>1, <2>2, <2>3, OverKeepsPairs
<1> QED BY <1>2, <1>3 DEF StartTurn

LEMMA GiveUpKeepsPairs ==
  ASSUME PairInv, GiveUp
  PROVE  PairInv'
<1>1. /\ messages \in Seq(Message) /\ (torn \/ Paired(messages))
      /\ UNCHANGED <<driver, torn, calls, messages>> /\ torn \in BOOLEAN /\ calls \in Nat /\ (torn => driver = "tab")
      /\ driver \in {"repl", "tab"}
  BY DEF GiveUp, setup, counters, PairInv, Types
<1>2. messages' \in Seq(Message) /\ (torn' \/ Paired(messages')) /\ TurnOver(FALSE)
  BY <1>1 DEF GiveUp
<1>3. /\ pc' = IF driver = "repl" THEN "idle" ELSE "ready"
      /\ kept' = (IF driver = "tab" THEN messages' ELSE kept) /\ todo' = << >>
  BY <1>2 DEF TurnOver
<1> QED BY <1>1, <1>2, <1>3, OverKeepsPairs

LEMMA EndKeepsPairs ==
  ASSUME PairInv, EndTurn
  PROVE  PairInv'
<1>1. /\ messages \in Seq(Message) /\ (torn \/ Paired(messages))
      /\ UNCHANGED <<driver, torn, calls>> /\ torn \in BOOLEAN /\ calls \in Nat /\ (torn => driver = "tab")
      /\ messages' \in {Compacted(messages), messages} /\ TurnOver(TRUE)
  BY DEF EndTurn, setup, counters, PairInv, Types
<1>2. Compacted(messages) \in Seq(Message)
  <2>1. CASE Len(messages) - SummaryLength(messages) > Preserve
    BY <1>1, <2>1, CompactedShape
  <2>2. CASE ~(Len(messages) - SummaryLength(messages) > Preserve)
    BY <1>1, <2>2 DEF Compacted
  <2> QED BY <2>1, <2>2
<1>3. messages' \in Seq(Message) /\ (torn' \/ Paired(messages'))
  <2>1. torn \/ (Paired(messages) /\ Paired(Compacted(messages)))
    BY <1>1, CompactionPairs
  <2> QED BY <1>1, <1>2, <2>1
<1>4. /\ pc' = IF driver = "repl" THEN "idle" ELSE "ready"
      /\ kept' = messages' /\ todo' = << >>
  BY <1>1 DEF TurnOver
<1> QED BY <1>1, <1>3, <1>4, OverKeepsPairs

(* The calls of a reply have ids that are new.                             *)
LEMMA RequestedCalls ==
  ASSUME NEW k \in Nat, NEW cs \in Requested(k)
  PROVE  cs \in Seq(Call) /\ Len(cs) = k
<1>1. cs \in [1..k -> Calls]
  BY DEF Requested
<1>2. Calls \subseteq Call
  BY NumbersAssumption DEF Calls, Call
<1>3. cs \in [1..k -> Call]
  BY <1>1, <1>2
<1> QED BY <1>3

LEMMA ReplyKeepsPairs ==
  ASSUME PairInv, NEW k \in 0..(MaxCalls - calls), NEW n \in Usages,
         NEW cs \in Requested(k), Reply(cs, n)
  PROVE  PairInv'
<1>1. /\ messages \in Seq(Message) /\ (torn \/ Paired(messages)) /\ calls \in Nat
      /\ UNCHANGED <<driver, torn>> /\ torn \in BOOLEAN /\ (torn => driver = "tab")
      /\ k \in Nat /\ n \in Nat /\ driver \in {"repl", "tab"}
  BY NumbersAssumption DEF Reply, setup, PairInv, Types
<1>2. cs \in Seq(Call) /\ calls' = calls + k /\ calls' \in Nat
  BY <1>1, RequestedCalls DEF Reply
<1> DEFINE m == Assistant(cs, n)
<1>3. m \in Message /\ m.role = "assistant" /\ m.calls = cs
  BY <1>1, <1>2, MessageKinds
<1>4. ASSUME Pushed(m), pc' = IF cs = << >> THEN "end" ELSE "pre", todo' = cs, UNCHANGED kept
      PROVE  PairInv'
  <2> HIDE DEF m
  <2>1. messages' = Append(messages, m) /\ messages' \in Seq(Message)
    BY <1>1, <1>3, <1>4, AppendOne DEF Pushed
  <2>2. Types' /\ (torn' \/ Paired(kept'))
    BY <1>1, <1>2, <1>4, <2>1 DEF PairInv, Types
  <2>3. CASE cs = << >>
    <3>1. torn \/ Paired(Append(messages, m))
      BY <1>1, <1>3, <2>3, AppendPlain
    <3>2. torn' \/ Paired(messages')
      BY <1>1, <2>1, <3>1
    <3>3. pc' = "end"
      BY <1>4, <2>3
    <3> QED BY <2>2, <3>2, <3>3 DEF PairInv, Answering
  <2>4. CASE cs # << >>
    <3>1. torn \/ Waiting(Append(messages, m), cs)
      <4>1. Len(messages) + 1 \in 1..Len(Append(messages, m))
        BY <1>1, <1>3, AppendOne
      <4> QED BY <1>1, <1>3, <4>1, AppendReply DEF Waiting
    <3>2. torn' \/ Waiting(messages', todo')
      BY <1>1, <1>4, <2>1, <3>1
    <3>3. pc' = "pre" /\ todo' # << >>
      BY <1>4, <2>4
    <3> QED BY <2>2, <3>2, <3>3 DEF PairInv, Answering
  <2> QED BY <2>3, <2>4
<1>5. ASSUME NotPushed, TurnOver(FALSE) PROVE PairInv'
  <2>1. UNCHANGED messages
    BY <1>5 DEF NotPushed
  <2>2. messages' \in Seq(Message) /\ (torn' \/ Paired(messages'))
    BY <1>1, <2>1
  <2>3. /\ pc' = IF driver = "repl" THEN "idle" ELSE "ready"
        /\ kept' = (IF driver = "tab" THEN messages' ELSE kept) /\ todo' = << >>
    BY <1>5 DEF TurnOver
  <2> QED BY <1>1, <1>2, <2>2, <2>3, OverKeepsPairs
<1> QED BY <1>4, <1>5 DEF Reply

LEMMA CallStepsKeepPairs ==
  ASSUME PairInv, pc \in Answering, pc' \in Answering, UNCHANGED <<setup, session, todo, counters>>
  PROVE  PairInv'
<1>1. UNCHANGED <<driver, messages, kept, todo, torn, calls>>
  BY DEF setup, session, counters
<1>2. /\ Types' = Types /\ Paired(kept') = Paired(kept) /\ Paired(messages') = Paired(messages)
      /\ Waiting(messages', todo') = Waiting(messages, todo)
  BY <1>1 DEF Types
<1> QED BY <1>1, <1>2 DEF PairInv, Answering

LEMMA PushKeepsPairs ==
  ASSUME PairInv, PushResult
  PROVE  PairInv'
<1> DEFINE e == cur.refused \/ cur.error
           m == ToolResult(call.id, e)
<1>1. /\ messages \in Seq(Message) /\ todo \in Seq(Call) /\ todo # << >> /\ calls \in Nat
      /\ (torn \/ Waiting(messages, todo)) /\ UNCHANGED <<driver, calls>>
      /\ torn \in BOOLEAN /\ (torn => driver = "tab") /\ driver \in {"repl", "tab"}
      /\ kept \in Seq(Message) /\ (torn \/ Paired(kept))
  BY DEF PushResult, setup, PairInv, Types, Answering
<1>2. call.id \in Nat /\ call.id = Head(todo).id
  <2>1. Head(todo) \in Call
    BY <1>1, HeadTailProperties
  <2> QED BY <2>1 DEF call, Call
<1>3. e \in BOOLEAN
  OBVIOUS
<1> HIDE DEF e
<1>4. m \in Message /\ m.role = "tool" /\ m.calls = << >> /\ m.answers = Head(todo).id
  BY <1>2, <1>3, MessageKinds
<1>5. Tail(todo) \in Seq(Call)
  BY <1>1
<1>6. ASSUME Pushed(m), todo' = Tail(todo), UNCHANGED <<kept, torn>>,
             pc' = IF Tail(todo) = << >> THEN "loop" ELSE "pre"
      PROVE  PairInv'
  <2> HIDE DEF m
  <2>1. messages' = Append(messages, m) /\ messages' \in Seq(Message) /\ Len(messages) \in Nat
        /\ Len(Append(messages, m)) = Len(messages) + 1
    BY <1>1, <1>4, <1>6, AppendOne DEF Pushed
  <2>2. Types' /\ (torn' \/ Paired(kept'))
    BY <1>1, <1>5, <1>6, <2>1 DEF Types
  <2>3. ASSUME ~torn
        PROVE  /\ Rooted(Append(messages, m))
               /\ Tail(todo) # << >> => Waiting(Append(messages, m), Tail(todo))
               /\ Tail(todo) = << >> => Answered(Append(messages, m))
    <3>1. PICK b \in 1..Len(messages) : AnsweredBut(messages, b, todo)
      BY <1>1, <2>3 DEF Waiting
    <3>2. Rooted(messages) /\ b \in 1..Len(Append(messages, m))
      BY <1>1, <2>1, <2>3 DEF Waiting
    <3>3. /\ Rooted(Append(messages, m))
          /\ Tail(todo) # << >> => AnsweredBut(Append(messages, m), b, Tail(todo))
          /\ Tail(todo) = << >> => Answered(Append(messages, m))
      BY <1>1, <1>4, <3>1, <3>2, AppendResult
    <3> QED BY <3>2, <3>3 DEF Waiting
  <2>4. CASE Tail(todo) = << >>
    <3>1. torn' \/ Paired(messages')
      BY <1>6, <2>1, <2>3, <2>4 DEF Paired
    <3>2. pc' = "loop"
      BY <1>6, <2>4
    <3> QED BY <2>2, <3>1, <3>2 DEF PairInv, Answering
  <2>5. CASE Tail(todo) # << >>
    <3>1. torn' \/ Waiting(messages', todo')
      BY <1>6, <2>1, <2>3, <2>5
    <3>2. pc' = "pre" /\ todo' # << >>
      BY <1>6, <2>5
    <3> QED BY <2>2, <3>1, <3>2 DEF PairInv, Answering
  <2> QED BY <2>4, <2>5
<1>7. ASSUME NotPushed, TurnOver(FALSE), torn' = (driver = "tab") PROVE PairInv'
  <2>1. messages' \in Seq(Message) /\ torn' \in BOOLEAN /\ (torn => torn') /\ (torn' => driver = "tab")
    BY <1>1, <1>7 DEF NotPushed
  <2>2. /\ pc' = IF driver = "repl" THEN "idle" ELSE "ready"
        /\ kept' = (IF driver = "tab" THEN messages' ELSE kept) /\ todo' = << >>
    BY <1>7 DEF TurnOver
  <2> QED BY <1>1, <1>7, <2>1, <2>2, OverKeepsPairs
<1> QED BY <1>6, <1>7 DEF PushResult, e, m

LEMMA NextKeepsPairs ==
  ASSUME PairInv, [Next]_vars
  PROVE  PairInv'
<1>1. CASE Rebuild
  BY <1>1, RebuildKeepsPairs
<1>2. CASE StartTurn
  BY <1>2, StartKeepsPairs
<1>3. ASSUME NEW k \in 0..(MaxCalls - calls), NEW n \in Usages, NEW cs \in Requested(k), Reply(cs, n)
      PROVE  PairInv'
  BY <1>3, ReplyKeepsPairs
<1>4. CASE GiveUp
  BY <1>4, GiveUpKeepsPairs
<1>5. ASSUME NEW v \in PreVerdicts, PreHook(v) PROVE PairInv'
  <2>1. pc \in Answering /\ pc' \in Answering /\ UNCHANGED <<setup, session, todo, counters>>
    BY <1>5 DEF PreHook, Answering
  <2> QED BY <2>1, CallStepsKeepPairs
<1>6. ASSUME NEW reply, Gate(reply) PROVE PairInv'
  <2>1. pc \in Answering /\ pc' \in Answering /\ UNCHANGED <<setup, session, todo, counters>>
    BY <1>6 DEF Gate, Answering
  <2> QED BY <2>1, CallStepsKeepPairs
<1>7. ASSUME NEW ok \in BOOLEAN, Execute(ok) PROVE PairInv'
  <2>1. pc \in Answering /\ pc' \in Answering /\ UNCHANGED <<setup, session, todo, counters>>
    BY <1>7 DEF Execute, Answering
  <2> QED BY <2>1, CallStepsKeepPairs
<1>8. ASSUME NEW v \in PostVerdicts, PostHook(v) PROVE PairInv'
  <2>1. pc \in Answering /\ pc' \in Answering /\ UNCHANGED <<setup, session, todo, counters>>
    BY <1>8 DEF PostHook, Answering
  <2> QED BY <2>1, CallStepsKeepPairs
<1>9. CASE PushResult
  BY <1>9, PushKeepsPairs
<1>10. CASE EndTurn
  BY <1>10, EndKeepsPairs
<1>11. CASE UNCHANGED vars
  <2>1. UNCHANGED <<driver, messages, kept, pc, todo, torn, calls>>
    BY <1>11 DEF vars, setup, session, counters
  <2>2. /\ Types' = Types /\ Paired(kept') = Paired(kept) /\ Paired(messages') = Paired(messages)
        /\ Waiting(messages', todo') = Waiting(messages, todo)
    BY <2>1 DEF Types
  <2> QED BY <2>1, <2>2 DEF PairInv, Answering
<1> QED BY <1>1, <1>2, <1>3, <1>4, <1>5, <1>6, <1>7, <1>8, <1>9, <1>10, <1>11 DEF Next, TurnStep

(* For every sequence of replies, failures, refusals and compactions, and  *)
(* for every size of what a compaction preserves: what a request sends is  *)
(* paired (conversation.rs, run_turn; compact.rs, compact_session).        *)
THEOREM RequestsPaired == Spec => []RequestsArePaired
<1>1. Init => PairInv
  <2> SUFFICES ASSUME Init PROVE PairInv
    OBVIOUS
  <2>1. Types
    <3>1. /\ messages = << >> /\ kept = << >> /\ todo = << >> /\ calls = 0 /\ torn = FALSE
          /\ driver \in {"repl", "tab"}
      BY DriversAssumption DEF Init
    <3>2. << >> \in Seq(Message) /\ << >> \in Seq(Call)
      BY EmptySeq
    <3> QED BY <3>1, <3>2 DEF Types
  <2>2. Paired(kept) /\ pc \notin Answering \cup {"ready", "loop", "end"}
    BY DEF Init, Paired, Answered, Rooted, Answering
  <2> QED BY <2>1, <2>2 DEF PairInv
<1>2. PairInv /\ [Next]_vars => PairInv'
  BY NextKeepsPairs
<1>3. PairInv => RequestsArePaired
  BY DEF PairInv, RequestsArePaired, Paired
<1> QED BY <1>1, <1>2, <1>3, PTL DEF Spec

-----------------------------------------------------------------------------
(* Tokens *)

(* A set of numbers has a least one; the sets below are of counterexamples. *)
LEMMA LeastNat ==
  ASSUME NEW T \in SUBSET Nat, T # {}
  PROVE  \E x \in T : \A y \in T : x <= y
<1> DEFINE R == {ss \in Nat \X Nat : ss[1] < ss[2]}
<1>1. IsWellFoundedOn(R, Nat)
  BY NatLessThanWellFounded DEF OpToRel
<1> HIDE DEF R
<1>2. PICK x \in T : \A y \in T : ~(<<y, x>> \in R)
  BY <1>1, WFMin
<1>3. ASSUME NEW y \in T, ~(x <= y) PROVE FALSE
  <2>1. <<y, x>> \in Nat \X Nat /\ y < x
    BY <1>3
  <2>2. <<y, x>> \in R
    BY <2>1 DEF R
  <2> QED BY <1>2, <2>2
<1> QED BY <1>3

(* The sums over the first messages of a session.                          *)
Adds(f, seq, n) == f = [i \in 0..n |-> IF i = 0 THEN 0 ELSE f[i - 1] + seq[i].tokens]
Sums(seq) == CHOOSE f : f = [i \in 0..Len(seq) |-> IF i = 0 THEN 0 ELSE f[i - 1] + seq[i].tokens]

LEMMA TokensIsSum == \A seq : Tokens(seq) = Sums(seq)[Len(seq)]
BY DEF Tokens, Sums

LEMMA SumsExist ==
  ASSUME NEW seq \in Seq(Message), NEW n \in 0..Len(seq)
  PROVE  \E f : Adds(f, seq, n)
<1> DEFINE T == {i \in 0..Len(seq) : ~\E f : Adds(f, seq, i)}
<1> SUFFICES ASSUME T # {} PROVE FALSE
  OBVIOUS
<1>1. T \in SUBSET Nat /\ Len(seq) \in Nat
  BY LenProperties
<1>2. PICK i \in T : \A j \in T : i <= j
  BY <1>1, LeastNat
<1>3. i \in Nat /\ i <= Len(seq) /\ ~\E f : Adds(f, seq, i)
  BY <1>1, <1>2
<1>4. i # 0
  <2> DEFINE f == [j \in 0..0 |-> 0]
  <2>1. Adds(f, seq, 0)
    BY DEF Adds
  <2> HIDE DEF f
  <2> QED BY <1>3, <2>1
<1>5. PICK h : Adds(h, seq, i - 1)
  <2>1. i - 1 \in 0..Len(seq) /\ i - 1 \notin T
    BY <1>1, <1>2, <1>3, <1>4
  <2> QED BY <2>1
<1> DEFINE f == [j \in 0..i |-> IF j = i THEN h[i - 1] + seq[i].tokens ELSE h[j]]
<1>6. /\ DOMAIN f = 0..i /\ f[i] = h[i - 1] + seq[i].tokens
      /\ \A j \in 0..(i - 1) : f[j] = h[j]
  BY <1>3, <1>4
<1>7. \A j \in 0..(i - 1) : h[j] = IF j = 0 THEN 0 ELSE h[j - 1] + seq[j].tokens
  BY <1>5 DEF Adds
<1>8. f = [j \in DOMAIN f |-> f[j]]
  OBVIOUS
<1> HIDE DEF f
<1>9. ASSUME NEW j \in 0..i PROVE f[j] = IF j = 0 THEN 0 ELSE f[j - 1] + seq[j].tokens
  <2>1. CASE j = i
    <3>1. f[i - 1] = h[i - 1]
      BY <1>3, <1>4, <1>6
    <3> QED BY <1>4, <1>6, <2>1, <3>1
  <2>2. CASE j # i
    <3>1. j \in 0..(i - 1) /\ (j # 0 => j - 1 \in 0..(i - 1))
      BY <1>3, <2>2
    <3> QED BY <1>6, <1>7, <3>1
  <2> QED BY <2>1, <2>2
<1>10. Adds(f, seq, i)
  BY <1>6, <1>8, <1>9 DEF Adds
<1> QED BY <1>3, <1>10

LEMMA SumsFacts ==
  ASSUME NEW seq \in Seq(Message)
  PROVE  /\ Len(seq) \in Nat /\ Sums(seq)[0] = 0
         /\ \A i \in 1..Len(seq) : /\ Sums(seq)[i] = Sums(seq)[i - 1] + seq[i].tokens
                                  /\ seq[i].tokens \in Nat
         /\ \A i \in 0..Len(seq) : Sums(seq)[i] \in Nat
<1> DEFINE n == Len(seq)
           f == Sums(seq)
<1>1. n \in Nat
  BY LenProperties
<1>2. f = [i \in 0..n |-> IF i = 0 THEN 0 ELSE f[i - 1] + seq[i].tokens]
  <2>1. n \in 0..Len(seq)
    BY <1>1
  <2>2. \E g : Adds(g, seq, n)
    BY <2>1, SumsExist
  <2> QED BY <2>2 DEF Adds, Sums
<1> HIDE DEF f
<1>3. f[0] = 0 /\ \A i \in 1..n : f[i] = f[i - 1] + seq[i].tokens
  <2>1. 0 \in 0..n /\ \A i \in 1..n : i \in 0..n /\ i # 0
    BY <1>1
  <2> HIDE DEF n
  <2> QED BY <1>2, <2>1
<1>4. \A i \in 1..n : seq[i].tokens \in Nat
  <2> TAKE i \in 1..n
  <2>1. seq[i] \in Message
    BY ElementOfSeq
  <2> QED BY <2>1 DEF Message
<1>5. \A i \in 0..n : f[i] \in Nat
  <2> DEFINE T == {i \in 0..n : f[i] \notin Nat}
  <2> SUFFICES ASSUME T # {} PROVE FALSE
    OBVIOUS
  <2>0. T \in SUBSET Nat
    BY <1>1
  <2>1. PICK i \in T : \A j \in T : i <= j
    BY <2>0, LeastNat
  <2>2. i \in 0..n /\ f[i] \notin Nat
    BY <2>1
  <2>3. i # 0
    BY <1>3, <2>2
  <2>4. i - 1 \in 0..n /\ i \in 1..n /\ ~(i <= i - 1)
    BY <1>1, <2>2, <2>3
  <2>5. f[i - 1] \in Nat
    BY <2>1, <2>4
  <2>6. f[i] = f[i - 1] + seq[i].tokens /\ seq[i].tokens \in Nat
    BY <1>3, <1>4, <2>4
  <2> QED BY <2>2, <2>5, <2>6
<1> QED BY <1>1, <1>3, <1>4, <1>5 DEF f

LEMMA TokensType ==
  ASSUME NEW seq \in Seq(Message)
  PROVE  Tokens(seq) \in Nat /\ (seq = << >> => Tokens(seq) = 0)
<1>1. Len(seq) \in 0..Len(seq) /\ (seq = << >> => Len(seq) = 0)
  BY SumsFacts, EmptySeq
<1> QED BY <1>1, SumsFacts, TokensIsSum

LEMMA TokensAppend ==
  ASSUME NEW seq \in Seq(Message), NEW m \in Message
  PROVE  Tokens(Append(seq, m)) = Tokens(seq) + m.tokens
<1> DEFINE longer == Append(seq, m)
           n == Len(seq)
           f == Sums(seq)
           g == Sums(longer)
<1>1. /\ n \in Nat /\ longer \in Seq(Message) /\ Len(longer) = n + 1 /\ longer[n + 1] = m
      /\ \A i \in 1..n : longer[i] = seq[i]
  BY AppendOne
<1>2. /\ f[0] = 0 /\ \A i \in 1..n : f[i] = f[i - 1] + seq[i].tokens
      /\ g[0] = 0 /\ \A i \in 1..(n + 1) : g[i] = g[i - 1] + longer[i].tokens
  BY <1>1, SumsFacts
<1>3. Tokens(longer) = g[n + 1] /\ Tokens(seq) = f[n]
  BY <1>1, TokensIsSum
<1> HIDE DEF longer, n, f, g
<1>4. g[n] = f[n]
  <2> DEFINE T == {i \in 0..n : g[i] # f[i]}
  <2>1. ASSUME T # {} PROVE FALSE
    <3>1. T \in SUBSET Nat
      BY <1>1
    <3>2. PICK i \in T : \A j \in T : i <= j
      BY <2>1, <3>1, LeastNat
    <3>3. i \in 0..n /\ g[i] # f[i]
      BY <3>2
    <3>4. i # 0
      BY <1>2, <3>3
    <3>5. i \in 1..n /\ i \in 1..(n + 1) /\ i - 1 \in 0..n /\ ~(i <= i - 1)
      BY <1>1, <3>3, <3>4
    <3>6. g[i - 1] = f[i - 1]
      BY <3>2, <3>5
    <3> QED BY <1>1, <1>2, <3>3, <3>5, <3>6
  <2>2. n \in 0..n
    BY <1>1
  <2> QED BY <2>1, <2>2
<1>5. n + 1 \in 1..(n + 1) /\ (n + 1) - 1 = n
  BY <1>1
<1>6. g[n + 1] = g[n] + m.tokens
  BY <1>1, <1>2, <1>5
<1> QED BY <1>3, <1>4, <1>6 DEF longer

(* What a compaction leaves is no more than there was.                     *)
LEMMA TokensCompacted ==
  ASSUME NEW seq \in Seq(Message)
  PROVE  Tokens(Compacted(seq)) <= Tokens(seq)
<1>1. CASE ~(Len(seq) - SummaryLength(seq) > Preserve)
  <2>1. Compacted(seq) = seq
    BY <1>1 DEF Compacted
  <2> QED BY <2>1, TokensType
<1>2. CASE Len(seq) - SummaryLength(seq) > Preserve
  <2> DEFINE short == Compacted(seq)
             P == Preserve
             n == Len(seq)
             s == n - P
             f == Sums(seq)
             g == Sums(short)
  <2>1. /\ P \in Nat /\ n \in Nat /\ P <= n /\ short \in Seq(Message)
        /\ DOMAIN short = 1..(P + 1) /\ short[1] = Summary
        /\ \A j \in 2..(P + 1) : j + (n - P - 1) \in 1..n /\ short[j] = seq[j + (n - P - 1)]
    BY <1>2, CompactedShape
  <2>2. Len(short) = P + 1 /\ Summary.tokens = 0
    <3>1. Len(short) = P + 1
      BY <2>1, LenProperties
    <3>2. Summary.tokens = 0
      BY DEF Summary, Plain
    <3> QED BY <3>1, <3>2
  <2>3. /\ \A i \in 1..n : f[i] = f[i - 1] + seq[i].tokens /\ seq[i].tokens \in Nat
        /\ \A i \in 0..n : f[i] \in Nat
        /\ g[0] = 0 /\ \A i \in 1..(P + 1) : g[i] = g[i - 1] + short[i].tokens
        /\ \A i \in 0..(P + 1) : g[i] \in Nat
    BY <2>1, <2>2, SumsFacts
  <2>4. Tokens(short) = g[P + 1] /\ Tokens(seq) = f[n]
    BY <2>2, TokensIsSum
  <2>5. s \in Nat /\ n = s + P
    BY <2>1
  <2> HIDE DEF short, P, n, s, f, g
  <2>6. g[P + 1] <= f[s + P]
    <3> DEFINE T == {i \in 0..P : ~(g[i + 1] <= f[s + i])}
    <3>1. ASSUME T # {} PROVE FALSE
      <4>1. T \in SUBSET Nat
        BY <2>1
      <4>2. PICK i \in T : \A j \in T : i <= j
        BY <3>1, <4>1, LeastNat
      <4>3. i \in 0..P /\ ~(g[i + 1] <= f[s + i])
        BY <4>2
      <4>4. i # 0
        <5>1. 1 \in 1..(P + 1) /\ 1 - 1 = 0 /\ s + 0 \in 0..n
          BY <2>1, <2>5
        <5>2. g[1] = 0 /\ f[s + 0] \in Nat
          BY <2>1, <2>2, <2>3, <5>1
        <5>3. g[0 + 1] <= f[s + 0]
          BY <5>2
        <5> QED BY <4>3, <5>3
      <4>5. /\ i + 1 \in 2..(P + 1) /\ i + 1 \in 1..(P + 1) /\ (i + 1) - 1 = i /\ i \in 0..(P + 1)
            /\ s + i \in 1..n /\ (s + i) - 1 = s + (i - 1) /\ s + (i - 1) \in 0..n
            /\ i - 1 \in 0..P /\ ~(i <= i - 1) /\ (i - 1) + 1 = i
        BY <2>1, <2>5, <4>3, <4>4
      <4>6. g[i] <= f[s + (i - 1)]
        <5>1. i - 1 \notin T
          BY <4>2, <4>5
        <5> QED BY <4>5, <5>1
      <4>7. short[i + 1] = seq[s + i]
        <5>1. (i + 1) + (n - P - 1) = s + i
          BY <2>1, <2>5, <4>3
        <5> QED BY <2>1, <4>5, <5>1
      <4>8. g[i + 1] = g[i] + seq[s + i].tokens /\ f[s + i] = f[s + (i - 1)] + seq[s + i].tokens
        BY <2>3, <4>5, <4>7
      <4>9. g[i] \in Nat /\ f[s + (i - 1)] \in Nat /\ seq[s + i].tokens \in Nat
        BY <2>3, <4>5
      <4> QED BY <4>3, <4>6, <4>8, <4>9
    <3>2. P \in 0..P
      BY <2>1
    <3> QED BY <3>1, <3>2
  <2> QED BY <2>4, <2>5, <2>6 DEF short
<1> QED BY <1>1, <1>2

-----------------------------------------------------------------------------
(* Control: where a turn is, and the calls it has still to answer *)

Fact == [ran : BOOLEAN, ok : BOOLEAN, posts : Seq({"failure", "success"}), objected : BOOLEAN]

(* The calls that wait are the last ones that were asked for.              *)
Last(rest, n) ==
    Len(rest) <= n /\ \A i \in 1..Len(rest) : rest[i] \in Calls /\ rest[i].id = n - Len(rest) + i

Controlled(where, rest) == /\ where \in {"idle", "ready", "loop", "end"} \cup Answering
                           /\ rest # << >> => where \in Answering

ControlInv ==
  /\ policy \in TurnPolicies /\ driver \in Drivers
  /\ Controlled(pc, todo) /\ Last(todo, calls) /\ calls <= MaxCalls
  /\ iterations \in 0..MaxIterations /\ total \in Nat
  /\ cur.input \in InputNames \cup {"none"} /\ cur.refused \in BOOLEAN /\ cur.error \in BOOLEAN
  /\ facts \in [1..MaxCalls -> Fact]

(* All that holds of a turn: what was proved above, and its control.       *)
Basics == PairInv /\ AllowedInv /\ ControlInv

LEMMA NoCallFacts ==
  /\ NoCall.input = "none" /\ NoCall.refused = FALSE /\ NoCall.error = FALSE
  /\ NoFact \in Fact /\ NoFact.ran = FALSE /\ NoFact.posts = << >>
BY EmptySeq DEF NoCall, NoFact, Fact

(* A call at the head of todo.                                             *)
LEMMA HeadCall ==
  ASSUME Basics, pc \in Answering
  PROVE  /\ todo # << >> /\ todo \in Seq(Call) /\ Len(todo) \in Nat \ {0} /\ calls \in Nat
         /\ call = todo[1] /\ call \in Calls /\ call.id = calls - Len(todo) + 1
         /\ call.id \in 1..MaxCalls /\ call.input \in InputNames
         /\ facts[call.id] \in Fact
<1>1. todo # << >> /\ todo \in Seq(Call) /\ calls \in Nat
  BY DEF Basics, PairInv, Types
<1>2. Len(todo) \in Nat \ {0} /\ call = todo[1]
  BY <1>1, EmptySeq, HeadTailProperties DEF call
<1>3. call \in Calls /\ call.id = calls - Len(todo) + 1
  BY <1>2 DEF Basics, ControlInv, Last
<1>4. call.id \in 1..MaxCalls /\ call.input \in InputNames
  BY <1>3 DEF Calls
<1> QED BY <1>1, <1>2, <1>3, <1>4 DEF Basics, ControlInv

LEMMA PreVerdictInput ==
  ASSUME NEW v \in PreVerdicts
  PROVE  v.updated \in InputNames \cup {"none"}
<1>1. ASSUME NEW o \in Pre!Outcomes PROVE Pre!Verdict(<<o>>).updated \in InputNames \cup {"none"}
  <2> DEFINE values == [i \in DOMAIN <<o>> |-> (<<o>>)[i].updated]
             given == {i \in DOMAIN values : values[i] # "none"}
  <2>1. DOMAIN <<o>> = {1} /\ DOMAIN values = {1} /\ values[1] = o.updated
    OBVIOUS
  <2>2. o.updated \in InputNames \cup {"none"}
    BY AnswersAssumption DEF Pre!Outcomes, Pre!Outcome, Pre!Silent
  <2>3. Pre!Verdict(<<o>>).updated = Pre!LastGiven(values)
    BY DEF Pre!Verdict
  <2>4. Pre!LastGiven(values) = IF given = {} THEN "none"
          ELSE values[CHOOSE i \in given : \A j \in given : j <= i]
    BY DEF Pre!LastGiven
  <2>5. given \subseteq {1}
    BY <2>1
  <2> HIDE DEF values
  <2>6. CASE given = {}
    BY <2>3, <2>4, <2>6
  <2>7. CASE given # {}
    <3>1. given = {1}
      BY <2>5, <2>7
    <3>2. (CHOOSE i \in given : \A j \in given : j <= i) = 1
      BY <3>1
    <3> QED BY <2>1, <2>2, <2>3, <2>4, <2>7, <3>2
  <2> QED BY <2>6, <2>7
<1>2. Pre!Verdict(<< >>).updated = "none"
  <2> DEFINE values == [i \in DOMAIN << >> |-> (<< >>)[i].updated]
             given == {i \in DOMAIN values : values[i] # "none"}
  <2>1. DOMAIN << >> = {} /\ given = {}
    OBVIOUS
  <2>2. Pre!LastGiven(values) = "none"
    BY <2>1 DEF Pre!LastGiven
  <2> QED BY <2>2 DEF Pre!Verdict
<1> QED BY <1>1, <1>2 DEF PreVerdicts

LEMMA OverControlled ==
  ASSUME Basics, TurnOver(TRUE) \/ TurnOver(FALSE), UNCHANGED <<setup, facts>>,
         total' \in Nat, calls' \in 0..MaxCalls
  PROVE  ControlInv'
<1>1. /\ pc' \in {"idle", "ready"} /\ iterations' = 0 /\ todo' = << >> /\ cur' = NoCall
  BY DEF TurnOver
<1>2. Len(todo') = 0 /\ calls' \in Nat /\ calls' <= MaxCalls
  BY <1>1, EmptySeq, NumbersAssumption
<1>3. Last(todo', calls')
  BY <1>2 DEF Last
<1>4. Controlled(pc', todo')
  BY <1>1 DEF Controlled
<1>5. iterations' \in 0..MaxIterations
  BY <1>1, NumbersAssumption
<1> QED BY <1>1, <1>2, <1>3, <1>4, <1>5, NoCallFacts DEF Basics, ControlInv, setup

LEMMA ReplyControlled ==
  ASSUME Basics, NEW k \in 0..(MaxCalls - calls), NEW n \in Usages, NEW cs \in Requested(k),
         Reply(cs, n)
  PROVE  ControlInv'
<1>1. /\ n \in Nat /\ k \in Nat /\ calls \in Nat /\ MaxCalls \in Nat /\ k <= MaxCalls - calls
      /\ total \in Nat /\ iterations \in 0..MaxIterations /\ MaxIterations \in Nat
  BY NumbersAssumption DEF Basics, ControlInv, PairInv, Types
<1>2. cs \in Seq(Call) /\ Len(cs) = k
  BY <1>1, RequestedCalls
<1>3. total' = total + n /\ calls' = calls + k /\ UNCHANGED <<setup, facts>>
  BY <1>2 DEF Reply
<1>4. total' \in Nat /\ calls' \in 0..MaxCalls
  BY <1>1, <1>3
<1>5. CASE NotPushed /\ TurnOver(FALSE)
  BY <1>3, <1>4, <1>5, OverControlled
<1>6. CASE /\ iterations' = iterations + 1 /\ todo' = cs /\ UNCHANGED cur
           /\ pc' = IF cs = << >> THEN "end" ELSE "pre"
  <2>1. iterations' \in 0..MaxIterations
    BY <1>1, <1>6 DEF Reply
  <2>2. \A i \in 1..k : cs[i] \in Calls /\ cs[i].id = calls + i
    BY DEF Requested
  <2>3. Last(cs, calls + k)
    <3>1. k <= calls + k /\ \A i \in 1..k : calls + i = calls + k - k + i
      BY <1>1
    <3>2. \A i \in 1..Len(cs) : cs[i] \in Calls /\ cs[i].id = (calls + k) - Len(cs) + i
      BY <1>1, <1>2, <2>2, <3>1
    <3>3. Len(cs) <= calls + k
      BY <1>2, <3>1
    <3> QED BY <3>2, <3>3 DEF Last
  <2>4. Controlled(pc', todo')
    BY <1>6 DEF Controlled, Answering
  <2> QED BY <1>3, <1>4, <1>6, <2>1, <2>3, <2>4 DEF Basics, ControlInv, setup
<1> QED BY <1>5, <1>6 DEF Reply

LEMMA CallControlled ==
  ASSUME Basics, pc' \in Answering, pc \in Answering,
         UNCHANGED <<setup, session, total, iterations, todo, counters>>,
         cur'.input \in InputNames \cup {"none"}, cur'.refused \in BOOLEAN, cur'.error \in BOOLEAN,
         facts' \in [1..MaxCalls -> Fact]
  PROVE  ControlInv'
<1>1. Controlled(pc', todo') /\ Last(todo', calls')
  BY DEF Basics, ControlInv, Controlled, counters
<1> QED BY <1>1 DEF Basics, ControlInv, setup, counters

LEMMA HooksControlled ==
  ASSUME Basics,
         \/ \E v \in PreVerdicts : PreHook(v)
         \/ \E reply \in IF HasPrompter THEN {"none", "allow", "deny"} ELSE {"none"} : Gate(reply)
         \/ \E ok \in BOOLEAN : Execute(ok)
         \/ \E v \in PostVerdicts : PostHook(v)
  PROVE  ControlInv'
<1>1. /\ CurShape /\ cur.input \in InputNames \cup {"none"} /\ cur.refused \in BOOLEAN
      /\ cur.error \in BOOLEAN /\ facts \in [1..MaxCalls -> Fact]
  BY DEF Basics, AllowedInv, ControlInv
<1>2. ASSUME NEW v \in PreVerdicts, PreHook(v) PROVE ControlInv'
  <2> DEFINE input == IF v.updated = "none" THEN call.input ELSE v.updated
             refused == Refuses(v)
  <2>1. /\ cur' = [NoCall EXCEPT !.input = input, !.refused = refused, !.override = v.override]
        /\ pc = "pre" /\ pc' \in {"push", "gate"}
        /\ facts' = [facts EXCEPT ![call.id] = NoFact]
        /\ UNCHANGED <<setup, session, total, iterations, todo, counters>>
    BY <1>2 DEF PreHook
  <2>2. input \in InputNames \cup {"none"}
    BY <2>1, HeadCall, PreVerdictInput DEF Answering
  <2>3. refused \in BOOLEAN
    BY DEF Refuses
  <2> HIDE DEF input, refused
  <2>4. cur'.input = input /\ cur'.refused = refused /\ cur'.error = FALSE
    BY <2>1 DEF NoCall
  <2>5. facts' \in [1..MaxCalls -> Fact]
    BY <1>1, <2>1, NoCallFacts
  <2> QED BY <2>1, <2>2, <2>3, <2>4, <2>5, CallControlled DEF Answering
<1>3. ASSUME NEW reply, Gate(reply) PROVE ControlInv'
  <2> DEFINE d == Perm!Authorize(policy, call.tool, InputOf[cur.input], cur.override, reply)
             refused == ~d.allowed
  <2>1. /\ cur' = [cur EXCEPT !.reply = reply, !.refused = refused]
        /\ pc = "gate" /\ pc' \in {"push", "execute"}
        /\ UNCHANGED <<setup, session, total, iterations, todo, facts, counters>>
    BY <1>3 DEF Gate
  <2>2. refused \in BOOLEAN
    OBVIOUS
  <2> HIDE DEF d, refused
  <2>3. cur'.input = cur.input /\ cur'.refused = refused /\ cur'.error = cur.error
    BY <1>1, <2>1 DEF CurShape
  <2> QED BY <1>1, <2>1, <2>2, <2>3, CallControlled DEF Answering
<1>4. ASSUME NEW ok \in BOOLEAN, Execute(ok) PROVE ControlInv'
  <2> DEFINE e == ~ok
             f == [facts[call.id] EXCEPT !.ran = TRUE, !.ok = ok]
  <2>1. /\ cur' = [cur EXCEPT !.error = e] /\ facts' = [facts EXCEPT ![call.id] = f]
        /\ pc = "execute" /\ pc' = "post"
        /\ UNCHANGED <<setup, session, total, iterations, todo, counters>>
    BY <1>4 DEF Execute
  <2>2. e \in BOOLEAN /\ f \in Fact
    BY <2>1, HeadCall DEF Fact, Answering
  <2> HIDE DEF e, f
  <2>3. cur'.input = cur.input /\ cur'.refused = cur.refused /\ cur'.error = e
    BY <1>1, <2>1 DEF CurShape
  <2>4. facts' \in [1..MaxCalls -> Fact]
    BY <1>1, <2>1, <2>2
  <2> QED BY <1>1, <2>1, <2>2, <2>3, <2>4, CallControlled DEF Answering
<1>5. ASSUME NEW v \in PostVerdicts, PostHook(v) PROVE ControlInv'
  <2> DEFINE e == cur.error \/ Refuses(v)
             refused == Refuses(v)
             kind == IF cur.error THEN "failure" ELSE "success"
             posts == Append(facts[call.id].posts, kind)
             f == [facts[call.id] EXCEPT !.posts = posts, !.objected = refused]
  <2>0. call.id \in 1..MaxCalls
    BY <1>5, HeadCall DEF PostHook, Answering
  <2>1. /\ cur' = [cur EXCEPT !.error = e] /\ facts' = [facts EXCEPT ![call.id] = f]
        /\ pc = "post" /\ pc' = "push"
        /\ UNCHANGED <<setup, session, total, iterations, todo, counters>>
    <3>1. cur' = [cur EXCEPT !.error = e] /\ pc = "post" /\ pc' = "push"
      BY <1>5 DEF PostHook
    <3>2. facts' = [facts EXCEPT ![call.id].posts = Append(@, kind),
                                 ![call.id].objected = refused]
      BY <1>5, Zenon DEF PostHook
    <3>3. facts' = [facts EXCEPT ![call.id] = f]
      <4> DEFINE id == call.id
      <4>1. id \in 1..MaxCalls /\ facts \in [1..MaxCalls -> Fact]
        BY <1>1, <2>0
      <4>2. facts' = [facts EXCEPT ![id].posts = Append(@, kind), ![id].objected = refused]
        BY <3>2
      <4> HIDE DEF kind, refused, id
      <4>3. facts' = [facts EXCEPT ![id] =
                        [facts[id] EXCEPT !.posts = Append(facts[id].posts, kind), !.objected = refused]]
        BY <4>1, <4>2
      <4> QED BY <4>3 DEF id
    <3> QED BY <1>5, <3>1, <3>3 DEF PostHook
  <2>2. e \in BOOLEAN /\ refused \in BOOLEAN /\ kind \in {"failure", "success"}
    BY DEF Refuses
  <2>3. facts[call.id] \in Fact
    BY <2>1, HeadCall DEF Answering
  <2>4. posts \in Seq({"failure", "success"})
    BY <2>2, <2>3, AppendProperties DEF Fact
  <2> HIDE DEF e, refused, kind, posts
  <2>5. f \in Fact
    BY <2>2, <2>3, <2>4 DEF Fact
  <2> HIDE DEF f
  <2>6. cur'.input = cur.input /\ cur'.refused = cur.refused /\ cur'.error = e
    BY <1>1, <2>1 DEF CurShape
  <2>7. facts' \in [1..MaxCalls -> Fact]
    BY <1>1, <2>1, <2>5
  <2> QED BY <1>1, <2>1, <2>2, <2>6, <2>7, CallControlled DEF Answering
<1> QED BY <1>2, <1>3, <1>4, <1>5

LEMMA NextControlled == ASSUME Basics, [Next]_vars PROVE ControlInv'
<1>1. /\ ControlInv /\ total \in Nat /\ calls \in Nat /\ calls <= MaxCalls /\ MaxCalls \in Nat
      /\ messages \in Seq(Message) /\ kept \in Seq(Message) /\ todo \in Seq(Call)
  BY NumbersAssumption DEF Basics, ControlInv, PairInv, Types
<1>2. calls \in 0..MaxCalls
  BY <1>1
<1>3. CASE Rebuild
  <2>1. /\ pc \in {"idle", "ready"} /\ pc' = "ready" /\ total' = Tokens(kept)
        /\ UNCHANGED <<setup, iterations, todo, cur, facts, calls>>
    BY <1>3 DEF Rebuild, counters
  <2>2. todo = << >> /\ total' \in Nat
    BY <1>1, <2>1, TokensType DEF ControlInv, Controlled, Answering
  <2>3. Controlled(pc', todo')
    BY <2>1, <2>2 DEF Controlled
  <2> QED BY <1>1, <2>1, <2>2, <2>3 DEF ControlInv, setup
<1>4. CASE StartTurn
  <2>1. UNCHANGED <<setup, total, facts, calls>> /\ pc = "ready"
    BY <1>4 DEF StartTurn
  <2>2. CASE pc' = "loop" /\ UNCHANGED <<iterations, todo, cur>>
    <3>1. todo = << >>
      BY <1>1, <2>1 DEF ControlInv, Controlled, Answering
    <3>2. Controlled(pc', todo')
      BY <2>2, <3>1 DEF Controlled
    <3> QED BY <1>1, <2>1, <2>2, <3>2 DEF ControlInv, setup
  <2>3. CASE TurnOver(FALSE)
    BY <1>1, <1>2, <2>1, <2>3, OverControlled
  <2> QED BY <1>4, <2>2, <2>3 DEF StartTurn
<1>5. ASSUME NEW k \in 0..(MaxCalls - calls), NEW n \in Usages, NEW cs \in Requested(k), Reply(cs, n)
      PROVE  ControlInv'
  BY <1>5, ReplyControlled
<1>6. CASE GiveUp \/ EndTurn
  <2>1. /\ TurnOver(TRUE) \/ TurnOver(FALSE)
        /\ UNCHANGED <<setup, total, facts, calls>>
    BY <1>6 DEF GiveUp, EndTurn, counters
  <2> QED BY <1>1, <1>2, <2>1, OverControlled
<1>7. CASE \/ \E v \in PreVerdicts : PreHook(v)
           \/ \E reply \in IF HasPrompter THEN {"none", "allow", "deny"} ELSE {"none"} : Gate(reply)
           \/ \E ok \in BOOLEAN : Execute(ok)
           \/ \E v \in PostVerdicts : PostHook(v)
  BY <1>7, HooksControlled
<1>8. CASE PushResult
  <2>1. UNCHANGED <<setup, total, facts, calls>> /\ pc = "push"
    BY <1>8 DEF PushResult
  <2>2. CASE /\ todo' = Tail(todo) /\ cur' = NoCall /\ UNCHANGED iterations
             /\ pc' = IF Tail(todo) = << >> THEN "loop" ELSE "pre"
    <3>1. /\ todo # << >> /\ Len(todo) \in Nat \ {0}
      BY <2>1, HeadCall DEF Answering
    <3>2. /\ Len(Tail(todo)) = Len(todo) - 1
          /\ \A i \in 1..(Len(todo) - 1) : Tail(todo)[i] = todo[i + 1] /\ i + 1 \in 1..Len(todo)
      BY <1>1, <3>1, HeadTailProperties
    <3>3. Last(Tail(todo), calls)
      <4>1. \A i \in 1..Len(todo) : todo[i] \in Calls /\ todo[i].id = calls - Len(todo) + i
        BY <1>1 DEF ControlInv, Last
      <4>2. Len(todo) <= calls
        BY <1>1 DEF ControlInv, Last
      <4>3. ASSUME NEW i \in 1..Len(Tail(todo))
            PROVE  Tail(todo)[i] \in Calls /\ Tail(todo)[i].id = calls - Len(Tail(todo)) + i
        <5>1. i \in 1..(Len(todo) - 1) /\ i \in Int
          BY <3>1, <3>2
        <5>2. Tail(todo)[i] = todo[i + 1] /\ i + 1 \in 1..Len(todo)
          BY <3>2, <5>1
        <5>3. todo[i + 1] \in Calls /\ todo[i + 1].id = calls - Len(todo) + (i + 1)
          BY <4>1, <5>2
        <5>4. calls - Len(todo) + (i + 1) = calls - Len(Tail(todo)) + i
          BY <1>1, <3>1, <3>2, <5>1
        <5> QED BY <5>2, <5>3, <5>4
      <4>4. Len(Tail(todo)) <= calls
        BY <1>1, <3>1, <3>2, <4>2
      <4> QED BY <4>3, <4>4 DEF Last
    <3>4. Controlled(pc', todo')
      BY <2>2 DEF Controlled, Answering
    <3> QED BY <1>1, <2>1, <2>2, <3>3, <3>4, NoCallFacts DEF ControlInv, setup
  <2>3. CASE TurnOver(FALSE)
    BY <1>1, <1>2, <2>1, <2>3, OverControlled
  <2> QED BY <1>8, <2>2, <2>3 DEF PushResult
<1>9. CASE UNCHANGED vars
  BY <1>1, <1>9 DEF vars, setup, counters, ControlInv
<1> QED BY <1>3, <1>4, <1>5, <1>6, <1>7, <1>8, <1>9 DEF Next, TurnStep

LEMMA InitBasics == ASSUME Init PROVE Basics
<1>1. PairInv
  <2>1. Types
    <3>1. /\ messages = << >> /\ kept = << >> /\ todo = << >> /\ calls = 0 /\ torn = FALSE
          /\ driver \in {"repl", "tab"}
      BY DriversAssumption DEF Init
    <3>2. << >> \in Seq(Message) /\ << >> \in Seq(Call)
      BY EmptySeq
    <3> QED BY <3>1, <3>2 DEF Types
  <2>2. Paired(kept) /\ pc \notin Answering \cup {"ready", "loop", "end"}
    BY DEF Init, Paired, Answered, Rooted, Answering
  <2> QED BY <2>1, <2>2 DEF PairInv
<1>2. AllowedInv
  BY DEF Init, AllowedInv, CurShape, NoCall
<1>3. ControlInv
  <2>1. Len(<< >>) = 0 /\ 0 \in Nat
    BY EmptySeq
  <2>2. Last(<< >>, 0) /\ Controlled("idle", << >>)
    BY <2>1 DEF Last, Controlled
  <2>3. 0 <= MaxCalls /\ 0 \in 0..MaxIterations
    BY NumbersAssumption
  <2> QED BY <2>1, <2>2, <2>3, NoCallFacts DEF Init, ControlInv
<1> QED BY <1>1, <1>2, <1>3 DEF Basics

LEMMA NextBasics == ASSUME Basics, [Next]_vars PROVE Basics'
<1>1. PairInv' /\ AllowedInv'
  BY NextKeepsPairs, NextAllowed DEF Basics
<1> QED BY <1>1, NextControlled DEF Basics

-----------------------------------------------------------------------------
(* The tracker *)

TotalInv == pc # "idle" => total >= Tokens(messages)

LEMMA PushTokens ==
  ASSUME NEW seq \in Seq(Message)
  PROVE  /\ Tokens(Append(seq, User)) = Tokens(seq)
         /\ \A id \in Nat, e \in BOOLEAN : Tokens(Append(seq, ToolResult(id, e))) = Tokens(seq)
         /\ \A cs \in Seq(Call), n \in Nat : Tokens(Append(seq, Assistant(cs, n))) = Tokens(seq) + n
<1>1. /\ Plain \in Message /\ User.tokens = 0
      /\ \A id \in Nat, e \in BOOLEAN : ToolResult(id, e).tokens = 0
      /\ \A cs \in Seq(Call), n \in Nat : Assistant(cs, n).tokens = n
  BY DEF Plain, User, ToolResult, Assistant, Message
<1>2. Tokens(seq) \in Nat
  BY TokensType
<1>3. Tokens(Append(seq, User)) = Tokens(seq)
  <2>1. User \in Message
    BY MessageKinds
  <2>2. Tokens(Append(seq, User)) = Tokens(seq) + User.tokens
    BY <2>1, TokensAppend
  <2> QED BY <1>1, <1>2, <2>2
<1>4. ASSUME NEW id \in Nat, NEW e \in BOOLEAN
      PROVE  Tokens(Append(seq, ToolResult(id, e))) = Tokens(seq)
  <2>1. ToolResult(id, e) \in Message
    BY MessageKinds
  <2>2. Tokens(Append(seq, ToolResult(id, e))) = Tokens(seq) + ToolResult(id, e).tokens
    BY <2>1, TokensAppend
  <2> QED BY <1>1, <1>2, <2>2
<1>5. ASSUME NEW cs \in Seq(Call), NEW n \in Nat
      PROVE  Tokens(Append(seq, Assistant(cs, n))) = Tokens(seq) + n
  <2>1. Assistant(cs, n) \in Message
    BY MessageKinds
  <2>2. Tokens(Append(seq, Assistant(cs, n))) = Tokens(seq) + Assistant(cs, n).tokens
    BY <2>1, TokensAppend
  <2> QED BY <1>1, <1>2, <2>2
<1> QED BY <1>3, <1>4, <1>5

LEMMA NextTotal == ASSUME Basics, TotalInv, [Next]_vars PROVE TotalInv'
<1>1. /\ messages \in Seq(Message) /\ kept \in Seq(Message) /\ Tokens(messages) \in Nat
      /\ Tokens(kept) \in Nat /\ total \in Nat
  BY TokensType DEF Basics, PairInv, Types, ControlInv
<1>2. CASE Rebuild
  <2>1. total' = Tokens(kept) /\ messages' = kept
    BY <1>2 DEF Rebuild
  <2> QED BY <1>1, <2>1 DEF TotalInv
<1>3. CASE StartTurn
  <2>1. pc = "ready" /\ total' = total
    BY <1>3 DEF StartTurn
  <2>2. messages' \in {Append(messages, User), messages}
    BY <1>3 DEF StartTurn, Pushed, NotPushed
  <2>3. Tokens(messages') = Tokens(messages)
    BY <1>1, <2>2, PushTokens
  <2> QED BY <2>1, <2>3 DEF TotalInv
<1>4. ASSUME NEW k \in 0..(MaxCalls - calls), NEW n \in Usages, NEW cs \in Requested(k), Reply(cs, n)
      PROVE  TotalInv'
  <2>1. pc = "loop" /\ total' = total + n /\ n \in Nat
    BY <1>4, NumbersAssumption DEF Reply
  <2>2. cs \in Seq(Call)
    BY <1>4, RequestedCalls, NumbersAssumption DEF Basics, PairInv, Types
  <2>3. messages' = Append(messages, Assistant(cs, n)) \/ messages' = messages
    BY <1>4 DEF Reply, Pushed, NotPushed
  <2>4. Tokens(messages') \in {Tokens(messages) + n, Tokens(messages)}
    <3>1. Tokens(Append(messages, Assistant(cs, n))) = Tokens(messages) + n
      BY <1>1, <2>1, <2>2, PushTokens
    <3> QED BY <2>3, <3>1
  <2>5. total >= Tokens(messages)
    BY <2>1 DEF TotalInv
  <2>6. total + n >= Tokens(messages')
    BY <1>1, <2>1, <2>4, <2>5
  <2> QED BY <2>1, <2>6 DEF TotalInv
<1>5. CASE GiveUp
  BY <1>5 DEF GiveUp, TotalInv
<1>6. CASE \/ \E v \in PreVerdicts : PreHook(v)
           \/ \E reply \in IF HasPrompter THEN {"none", "allow", "deny"} ELSE {"none"} : Gate(reply)
           \/ \E ok \in BOOLEAN : Execute(ok)
           \/ \E v \in PostVerdicts : PostHook(v)
  <2>1. UNCHANGED <<messages, total>> /\ pc # "idle"
    BY <1>6 DEF PreHook, Gate, Execute, PostHook, session
  <2> QED BY <2>1 DEF TotalInv
<1>7. CASE PushResult
  <2> DEFINE e == cur.refused \/ cur.error
  <2>1. pc = "push" /\ total' = total /\ e \in BOOLEAN
    BY <1>7 DEF PushResult
  <2>2. call.id \in 1..MaxCalls
    BY <2>1, HeadCall DEF Answering
  <2>3. call.id \in Nat
    BY <2>2, NumbersAssumption
  <2>4. messages' = Append(messages, ToolResult(call.id, e)) \/ messages' = messages
    BY <1>7 DEF PushResult, Pushed, NotPushed
  <2> HIDE DEF e
  <2>5. Tokens(messages') = Tokens(messages)
    <3>1. Tokens(Append(messages, ToolResult(call.id, e))) = Tokens(messages)
      BY <1>1, <2>1, <2>3, PushTokens
    <3> QED BY <2>4, <3>1
  <2> QED BY <2>1, <2>5 DEF TotalInv
<1>8. CASE EndTurn
  <2>1. pc = "end" /\ total' = total /\ messages' \in {Compacted(messages), messages}
    BY <1>8 DEF EndTurn
  <2>2. Tokens(Compacted(messages)) <= Tokens(messages) /\ Compacted(messages) \in Seq(Message)
    <3>1. CASE Len(messages) - SummaryLength(messages) > Preserve
      BY <1>1, <3>1, CompactedShape, TokensCompacted
    <3>2. CASE ~(Len(messages) - SummaryLength(messages) > Preserve)
      BY <1>1, <3>2, TokensCompacted DEF Compacted
    <3> QED BY <3>1, <3>2
  <2>3. Tokens(Compacted(messages)) \in Nat
    BY <2>2, TokensType
  <2>4. total >= Tokens(messages)
    BY <2>1 DEF TotalInv
  <2>5. total >= Tokens(messages')
    BY <1>1, <2>1, <2>2, <2>3, <2>4
  <2> QED BY <2>1, <2>5 DEF TotalInv
<1>9. CASE UNCHANGED vars
  BY <1>9 DEF vars, session, TotalInv
<1> QED BY <1>2, <1>3, <1>4, <1>5, <1>6, <1>7, <1>8, <1>9 DEF Next, TurnStep

-----------------------------------------------------------------------------
(* Results and what happened *)

Right(error, f) ==
    /\ error = ~(f.ran /\ f.ok /\ ~f.objected)
    /\ f.posts = IF ~f.ran THEN << >> ELSE IF f.ok THEN <<"success">> ELSE <<"failure">>

(* The results of a session are of the calls up to n, and right.           *)
Honest(seq, n, fs) ==
    \A i \in DOMAIN seq : seq[i].role = "tool" =>
        seq[i].answers \in 1..n /\ Right(seq[i].error, fs[seq[i].answers])

(* What is known of the call at the head of todo, by the place of the turn. *)
Known(where, refused, error, f) ==
    /\ where \in {"gate", "execute"} => f = NoFact /\ ~refused /\ ~error
    /\ where = "post" => /\ ~refused /\ f.ran /\ f.ok = ~error /\ ~f.objected
                        /\ f.posts = << >>
    /\ where = "push" => Right(refused \/ error, f)

(* The calls that are over.                                                *)
Done == calls - Len(todo)

TruthInv == /\ Honest(messages, Done, facts) /\ Honest(kept, Done, facts)
            /\ Known(pc, cur.refused, cur.error, facts[call.id])

LEMMA HonestMore ==
  ASSUME NEW seq, NEW n \in Nat, NEW k \in Nat, NEW fs, NEW gs, Honest(seq, n, fs), n <= k,
         \A id \in 1..n : gs[id] = fs[id]
  PROVE  Honest(seq, k, gs)
<1> SUFFICES ASSUME NEW i \in DOMAIN seq, seq[i].role = "tool"
             PROVE  seq[i].answers \in 1..k /\ Right(seq[i].error, gs[seq[i].answers])
  BY DEF Honest
<1>1. seq[i].answers \in 1..n /\ Right(seq[i].error, fs[seq[i].answers])
  BY DEF Honest
<1>2. gs[seq[i].answers] = fs[seq[i].answers] /\ seq[i].answers \in 1..k
  BY <1>1
<1> QED BY <1>1, <1>2

LEMMA HonestSame ==
  ASSUME NEW seq, NEW n \in Nat, NEW fs, NEW gs, Honest(seq, n, fs),
         \A id \in 1..n : gs[id] = fs[id]
  PROVE  Honest(seq, n, gs)
<1>1. n <= n
  OBVIOUS
<1> QED BY <1>1, HonestMore

LEMMA HonestAppend ==
  ASSUME NEW seq \in Seq(Message), NEW m \in Message, NEW n \in Nat, NEW fs, Honest(seq, n, fs),
         m.role = "tool" => m.answers \in 1..n /\ Right(m.error, fs[m.answers])
  PROVE  Honest(Append(seq, m), n, fs)
<1> SUFFICES ASSUME NEW i \in DOMAIN Append(seq, m), Append(seq, m)[i].role = "tool"
             PROVE  /\ Append(seq, m)[i].answers \in 1..n
                    /\ Right(Append(seq, m)[i].error, fs[Append(seq, m)[i].answers])
  BY DEF Honest
<1>1. i \in 1..(Len(seq) + 1) /\ Len(seq) \in Nat /\ DOMAIN seq = 1..Len(seq)
  BY AppendOne
<1>2. CASE i = Len(seq) + 1
  BY <1>2, AppendOne
<1>3. CASE i # Len(seq) + 1
  <2>1. i \in 1..Len(seq)
    BY <1>1, <1>3
  <2>2. Append(seq, m)[i] = seq[i] /\ i \in DOMAIN seq
    BY <1>1, <2>1, AppendOne
  <2> QED BY <2>2 DEF Honest
<1> QED BY <1>2, <1>3

LEMMA HonestCompacted ==
  ASSUME NEW seq \in Seq(Message), NEW n \in Nat, NEW fs, Honest(seq, n, fs)
  PROVE  Honest(Compacted(seq), n, fs)
<1>1. CASE ~(Len(seq) - SummaryLength(seq) > Preserve)
  BY <1>1 DEF Compacted
<1>2. CASE Len(seq) - SummaryLength(seq) > Preserve
  <2> DEFINE short == Compacted(seq)
             far == Len(seq) - Preserve - 1
  <2> SUFFICES ASSUME NEW i \in DOMAIN short, short[i].role = "tool"
               PROVE  short[i].answers \in 1..n /\ Right(short[i].error, fs[short[i].answers])
    BY DEF Honest
  <2>1. /\ DOMAIN short = 1..(Preserve + 1) /\ short[1].role = "system" /\ Preserve \in Nat
        /\ \A j \in 2..(Preserve + 1) : j + far \in DOMAIN seq /\ short[j] = seq[j + far]
    BY <1>2, CompactedShape, MessageKinds
  <2> HIDE DEF short, far
  <2>2. i \in 2..(Preserve + 1)
    BY <2>1
  <2> QED BY <2>1, <2>2 DEF Honest
<1> QED BY <1>1, <1>2

(* The turn is over: every call that was asked for is.                     *)
LEMMA OverTruth ==
  ASSUME Basics, TruthInv, TurnOver(TRUE) \/ TurnOver(FALSE), UNCHANGED facts,
         calls' \in Nat, calls' >= calls, Honest(messages', Done, facts)
  PROVE  TruthInv'
<1>1. /\ pc' \in {"idle", "ready"} /\ todo' = << >> /\ kept' \in {messages', kept}
  BY DEF TurnOver
<1>2. Len(todo') = 0 /\ Len(todo) \in Nat /\ calls \in Nat /\ Len(todo) <= calls
  BY <1>1, EmptySeq, LenProperties DEF Basics, PairInv, Types, ControlInv, Last
<1>3. Done \in Nat /\ Done' \in Nat /\ Done <= Done'
  <2>1. Done = calls - Len(todo) /\ Done' = calls' - 0
    BY <1>2 DEF Done
  <2>2. \A a, b, c \in Nat : b <= a /\ c >= a => a - b \in Nat /\ c - 0 \in Nat /\ a - b <= c - 0
    OBVIOUS
  <2>3. calls - Len(todo) \in Nat /\ calls' - 0 \in Nat /\ calls - Len(todo) <= calls' - 0
    BY <1>2, <2>2
  <2> QED BY <2>1, <2>3
<1>4. Honest(messages', Done', facts') /\ Honest(kept, Done', facts')
  BY <1>3, HonestMore DEF TruthInv
<1>5. Known(pc', cur'.refused, cur'.error, facts'[call'.id])
  BY <1>1 DEF Known
<1> QED BY <1>1, <1>4, <1>5 DEF TruthInv

(* A step at the call at the head of todo changes nothing about others.    *)
LEMMA CallTruth ==
  ASSUME Basics, TruthInv, pc \in Answering, UNCHANGED <<session, todo, counters>>,
         NEW f, facts' = [facts EXCEPT ![call.id] = f],
         Known(pc', cur'.refused, cur'.error, f)
  PROVE  TruthInv'
<1>1. /\ call.id = Done + 1 /\ Done \in Nat /\ call.id \in 1..MaxCalls
      /\ facts \in [1..MaxCalls -> Fact] /\ MaxCalls \in Nat
  <2>1. /\ call.id = calls - Len(todo) + 1 /\ Len(todo) \in Nat /\ calls \in Nat
        /\ call.id \in 1..MaxCalls
    BY HeadCall
  <2>2. Len(todo) <= calls
    BY DEF Basics, ControlInv, Last
  <2> QED BY <2>1, <2>2, NumbersAssumption DEF Basics, ControlInv, Done
<1>2. \A id \in 1..Done : facts'[id] = facts[id]
  <2> TAKE id \in 1..Done
  <2> DEFINE c == call.id
             n == Done
  <2>1. c = n + 1 /\ n \in Nat /\ c \in 1..MaxCalls /\ id \in 1..n
    BY <1>1
  <2>2. facts' = [facts EXCEPT ![c] = f] /\ facts \in [1..MaxCalls -> Fact]
    BY <1>1
  <2> HIDE DEF c, n
  <2>3. id # c /\ id \in 1..MaxCalls
    BY <1>1, <2>1
  <2> QED BY <2>2, <2>3
<1>3. Honest(messages, Done, facts') /\ Honest(kept, Done, facts')
  <2>1. Done \in Nat
    BY <1>1
  <2>2. Honest(messages, Done, facts) /\ Honest(kept, Done, facts)
    BY DEF TruthInv
  <2>3. \A seq, n, fs, gs : n \in Nat /\ Honest(seq, n, fs) /\ (\A id \in 1..n : gs[id] = fs[id])
                            => Honest(seq, n, gs)
    BY HonestSame
  <2> DEFINE fs == facts
             gs == facts'
             n == Done
  <2>4. n \in Nat /\ Honest(messages, n, fs) /\ Honest(kept, n, fs) /\ (\A id \in 1..n : gs[id] = fs[id])
    BY <1>2, <2>1, <2>2
  <2> HIDE DEF fs, gs, n
  <2>5. Honest(messages, n, gs) /\ Honest(kept, n, gs)
    BY <2>3, <2>4
  <2> QED BY <2>5 DEF fs, gs, n
<1>4. call' = call /\ facts'[call.id] = f
  BY <1>1 DEF call
<1>5. Done' = Done /\ messages' = messages /\ kept' = kept
  BY DEF Done, session, counters
<1> QED BY <1>3, <1>4, <1>5 DEF TruthInv

LEMMA ReplyTruth ==
  ASSUME Basics, TruthInv, NEW k \in 0..(MaxCalls - calls), NEW n \in Usages,
         NEW cs \in Requested(k), Reply(cs, n)
  PROVE  TruthInv'
<1>1. /\ n \in Nat /\ k \in Nat /\ calls \in Nat /\ messages \in Seq(Message) /\ pc = "loop"
      /\ UNCHANGED facts /\ calls' = calls + Len(cs)
  BY NumbersAssumption DEF Basics, ControlInv, PairInv, Types, Reply
<1>2. cs \in Seq(Call) /\ Len(cs) = k
  BY <1>1, RequestedCalls
<1>3. todo = << >> /\ Done = calls
  <2>1. todo = << >>
    BY <1>1 DEF Basics, ControlInv, Controlled, Answering
  <2>2. Len(todo) = 0
    BY <2>1, EmptySeq
  <2> QED BY <1>1, <2>1, <2>2 DEF Done
<1>4. Honest(messages', Done, facts)
  <2>1. Honest(Append(messages, Assistant(cs, n)), Done, facts)
    BY <1>1, <1>2, <1>3, MessageKinds, HonestAppend DEF TruthInv
  <2> QED BY <2>1 DEF Reply, Pushed, NotPushed, TruthInv
<1>5. CASE TurnOver(FALSE)
  BY <1>1, <1>2, <1>4, <1>5, OverTruth
<1>6. CASE todo' = cs /\ pc' \in {"end", "pre"} /\ UNCHANGED kept
  <2>1. Done' = Done
    <3>1. Done' = calls' - Len(todo')
      BY DEF Done
    <3> QED BY <1>1, <1>2, <1>3, <1>6, <3>1
  <2>2. Known(pc', cur'.refused, cur'.error, facts'[call'.id])
    BY <1>6 DEF Known
  <2> QED BY <1>1, <1>4, <1>6, <2>1, <2>2 DEF TruthInv
<1> QED BY <1>5, <1>6 DEF Reply

LEMMA HooksTruth ==
  ASSUME Basics, TruthInv,
         \/ \E v \in PreVerdicts : PreHook(v)
         \/ \E reply \in IF HasPrompter THEN {"none", "allow", "deny"} ELSE {"none"} : Gate(reply)
         \/ \E ok \in BOOLEAN : Execute(ok)
         \/ \E v \in PostVerdicts : PostHook(v)
  PROVE  TruthInv'
<1>1. /\ CurShape /\ cur.refused \in BOOLEAN /\ cur.error \in BOOLEAN
      /\ facts \in [1..MaxCalls -> Fact]
  BY DEF Basics, AllowedInv, ControlInv
<1>2. pc \in Answering => call.id \in 1..MaxCalls /\ facts[call.id] \in Fact
  BY HeadCall
<1>3. NoFact.ran = FALSE /\ NoFact.ok = FALSE /\ NoFact.objected = FALSE /\ NoFact.posts = << >>
  BY DEF NoFact
<1>4. ASSUME NEW v \in PreVerdicts, PreHook(v) PROVE TruthInv'
  <2> DEFINE input == IF v.updated = "none" THEN call.input ELSE v.updated
             refused == Refuses(v)
  <2>1. /\ cur' = [NoCall EXCEPT !.input = input, !.refused = refused, !.override = v.override]
        /\ pc = "pre" /\ pc' = (IF refused THEN "push" ELSE "gate")
        /\ facts' = [facts EXCEPT ![call.id] = NoFact]
        /\ UNCHANGED <<session, todo, counters>>
    BY <1>4 DEF PreHook
  <2>2. refused \in BOOLEAN
    BY DEF Refuses
  <2> HIDE DEF input, refused
  <2>3. cur'.refused = refused /\ cur'.error = FALSE
    BY <2>1 DEF NoCall
  <2>4. Known(pc', cur'.refused, cur'.error, NoFact)
    BY <1>3, <2>1, <2>2, <2>3 DEF Known, Right
  <2> QED BY <2>1, <2>4, CallTruth DEF Answering
<1>5. ASSUME NEW reply, Gate(reply) PROVE TruthInv'
  <2> DEFINE d == Perm!Authorize(policy, call.tool, InputOf[cur.input], cur.override, reply)
             refused == ~d.allowed
  <2>1. /\ cur' = [cur EXCEPT !.reply = reply, !.refused = refused]
        /\ pc = "gate" /\ pc' = (IF refused THEN "push" ELSE "execute")
        /\ UNCHANGED <<session, todo, facts, counters>>
    BY <1>5 DEF Gate
  <2>2. refused \in BOOLEAN
    OBVIOUS
  <2> HIDE DEF d, refused
  <2>3. cur'.refused = refused /\ cur'.error = cur.error
    BY <1>1, <2>1 DEF CurShape
  <2>4. facts[call.id] = NoFact /\ ~cur.error
    BY <2>1 DEF TruthInv, Known
  <2>5. Known(pc', cur'.refused, cur'.error, NoFact)
    BY <1>3, <2>1, <2>2, <2>3, <2>4 DEF Known, Right
  <2>6. facts' = [facts EXCEPT ![call.id] = NoFact]
    BY <1>1, <2>1, <2>4
  <2> QED BY <2>1, <2>5, <2>6, CallTruth DEF Answering
<1>6. ASSUME NEW ok \in BOOLEAN, Execute(ok) PROVE TruthInv'
  <2> DEFINE e == ~ok
             f == [facts[call.id] EXCEPT !.ran = TRUE, !.ok = ok]
  <2>1. /\ cur' = [cur EXCEPT !.error = e] /\ facts' = [facts EXCEPT ![call.id] = f]
        /\ pc = "execute" /\ pc' = "post" /\ UNCHANGED <<session, todo, counters>>
    BY <1>6 DEF Execute
  <2>2. facts[call.id] = NoFact /\ ~cur.refused
    BY <2>1 DEF TruthInv, Known
  <2>3. f.ran = TRUE /\ f.ok = ok /\ f.objected = FALSE /\ f.posts = << >> /\ e = ~ok
    BY <2>2 DEF NoFact
  <2> HIDE DEF e, f
  <2>4. cur'.refused = cur.refused /\ cur'.error = e
    BY <1>1, <2>1 DEF CurShape
  <2>5. Known(pc', cur'.refused, cur'.error, f)
    BY <2>1, <2>2, <2>3, <2>4 DEF Known
  <2> QED BY <2>1, <2>5, CallTruth DEF Answering
<1>7. ASSUME NEW v \in PostVerdicts, PostHook(v) PROVE TruthInv'
  <2> DEFINE refused == Refuses(v)
             e == cur.error \/ refused
             kind == IF cur.error THEN "failure" ELSE "success"
             old == facts[call.id]
             posts == Append(old.posts, kind)
             f == [old EXCEPT !.posts = posts, !.objected = refused]
  <2>1. pc = "post" /\ pc' = "push" /\ UNCHANGED <<session, todo, counters>>
    BY <1>7 DEF PostHook
  <2>2. cur' = [cur EXCEPT !.error = e]
    BY <1>7 DEF PostHook
  <2>3. facts' = [facts EXCEPT ![call.id].posts = Append(@, kind), ![call.id].objected = refused]
    BY <1>7, Zenon DEF PostHook
  <2>4. /\ old \in Fact /\ ~cur.refused /\ old.ran /\ old.ok = ~cur.error
        /\ ~old.objected /\ old.posts = << >> /\ call.id \in 1..MaxCalls
    BY <1>2, <2>1 DEF TruthInv, Known, Answering
  <2>5. facts' = [facts EXCEPT ![call.id] = f]
    <3> DEFINE id == call.id
    <3>1. /\ id \in 1..MaxCalls /\ facts \in [1..MaxCalls -> Fact]
          /\ facts' = [facts EXCEPT ![id].posts = Append(@, kind), ![id].objected = refused]
      BY <1>1, <2>3, <2>4
    <3> HIDE DEF kind, refused, id
    <3>2. facts' = [facts EXCEPT ![id] =
                      [facts[id] EXCEPT !.posts = Append(facts[id].posts, kind), !.objected = refused]]
      BY <3>1
    <3> QED BY <3>2 DEF id
  <2>6. e = (cur.error \/ refused) /\ refused \in BOOLEAN /\ posts = <<kind>>
    BY <2>4 DEF Refuses
  <2> HIDE DEF refused, e, posts, old
  <2>7. /\ f.posts = posts /\ f.objected = refused /\ f.ran = old.ran /\ f.ok = old.ok
    BY <2>4 DEF Fact
  <2>8. kind = IF cur.error THEN "failure" ELSE "success"
    OBVIOUS
  <2> HIDE DEF f, kind
  <2>9. cur'.refused = cur.refused /\ cur'.error = e
    BY <1>1, <2>2 DEF CurShape
  <2>10. Right(e, f)
    <3>1. old.ran \in BOOLEAN /\ old.ok \in BOOLEAN /\ e \in BOOLEAN
      BY <1>1, <2>4, <2>6 DEF Fact
    <3> QED BY <1>1, <2>4, <2>6, <2>7, <2>8, <3>1 DEF Right
  <2>11. Known(pc', cur'.refused, cur'.error, f)
    <3>1. (cur'.refused \/ cur'.error) = e
      BY <1>1, <2>4, <2>6, <2>9
    <3> QED BY <2>1, <2>10, <3>1 DEF Known
  <2> QED BY <2>1, <2>5, <2>11, CallTruth DEF Answering
<1> QED BY <1>4, <1>5, <1>6, <1>7

LEMMA PushTruth == ASSUME Basics, TruthInv, PushResult PROVE TruthInv'
<1> DEFINE e == cur.refused \/ cur.error
           m == ToolResult(call.id, e)
<1>1. /\ messages \in Seq(Message) /\ todo \in Seq(Call) /\ todo # << >> /\ calls \in Nat
      /\ call.id \in Nat /\ call.id = calls - Len(todo) + 1 /\ Len(todo) \in Nat \ {0}
      /\ Len(todo) <= calls /\ pc = "push" /\ UNCHANGED <<facts, calls>>
  <2>1. pc = "push" /\ UNCHANGED <<facts, calls>>
    BY DEF PushResult
  <2>2. call.id \in 1..MaxCalls /\ MaxCalls \in Nat
    BY <2>1, HeadCall, NumbersAssumption DEF Answering
  <2> QED BY <2>1, <2>2, HeadCall DEF Basics, PairInv, Types, ControlInv, Last, Answering
<1>2. e \in BOOLEAN /\ Right(e, facts[call.id])
  BY <1>1 DEF TruthInv, Known
<1> HIDE DEF e
<1>3. m \in Message /\ m.role = "tool" /\ m.answers = call.id /\ m.error = e
  <2>1. m.error = e
    BY DEF ToolResult, Plain
  <2> QED BY <1>1, <1>2, <2>1, MessageKinds
<1>4. Done \in Nat /\ call.id = Done + 1
  BY <1>1 DEF Done
<1>5. CASE Pushed(m) /\ todo' = Tail(todo) /\ UNCHANGED kept /\ pc' \in {"loop", "pre"}
  <2> HIDE DEF m
  <2>1. Done' = Done + 1
    <3>1. Done' = calls' - Len(todo') /\ Done = calls - Len(todo)
      BY DEF Done
    <3>2. Len(todo') = Len(todo) - 1
      BY <1>1, <1>5, HeadTailProperties
    <3> QED BY <1>1, <3>1, <3>2
  <2>2. Honest(messages, Done + 1, facts) /\ Honest(kept, Done + 1, facts)
    BY <1>4, HonestMore DEF TruthInv
  <2>3. Honest(Append(messages, m), Done + 1, facts)
    BY <1>1, <1>2, <1>3, <1>4, <2>2, HonestAppend
  <2>4. Known(pc', cur'.refused, cur'.error, facts'[call'.id])
    BY <1>5 DEF Known
  <2> QED BY <1>1, <1>5, <2>1, <2>2, <2>3, <2>4 DEF TruthInv, Pushed
<1>6. CASE NotPushed /\ TurnOver(FALSE)
  <2>1. Honest(messages', Done, facts)
    BY <1>6 DEF NotPushed, TruthInv
  <2> QED BY <1>1, <1>6, <2>1, OverTruth
<1> QED BY <1>5, <1>6 DEF PushResult, e

LEMMA NextTruth == ASSUME Basics, TruthInv, [Next]_vars PROVE TruthInv'
<1>1. messages \in Seq(Message) /\ calls \in Nat
  BY DEF Basics, PairInv, Types
<1>2. Done \in Nat
  <2>1. Len(todo) \in Nat /\ Len(todo) <= calls
    BY LenProperties DEF Basics, PairInv, Types, ControlInv, Last
  <2> QED BY <1>1, <2>1 DEF Done
<1>3. CASE Rebuild
  <2>1. /\ pc' = "ready" /\ messages' = kept /\ UNCHANGED <<kept, todo, calls, facts>>
    BY <1>3 DEF Rebuild, counters
  <2> QED BY <2>1 DEF TruthInv, Done, Known
<1>4. CASE StartTurn
  <2>1. /\ UNCHANGED <<facts, calls>> /\ messages' \in {Append(messages, User), messages}
    BY <1>4 DEF StartTurn, Pushed, NotPushed
  <2>2. Honest(messages', Done, facts)
    <3>1. Honest(Append(messages, User), Done, facts)
      BY <1>1, <1>2, MessageKinds, HonestAppend DEF TruthInv
    <3> QED BY <2>1, <3>1 DEF TruthInv
  <2>3. CASE TurnOver(FALSE)
    BY <1>1, <2>1, <2>2, <2>3, OverTruth
  <2>4. CASE pc' = "loop" /\ UNCHANGED <<kept, todo>>
    BY <2>1, <2>2, <2>4 DEF TruthInv, Done, Known
  <2> QED BY <1>4, <2>3, <2>4 DEF StartTurn
<1>5. ASSUME NEW k \in 0..(MaxCalls - calls), NEW n \in Usages, NEW cs \in Requested(k), Reply(cs, n)
      PROVE  TruthInv'
  BY <1>5, ReplyTruth
<1>6. CASE GiveUp \/ EndTurn
  <2>1. /\ TurnOver(TRUE) \/ TurnOver(FALSE)
        /\ UNCHANGED <<facts, calls>> /\ messages' \in {Compacted(messages), messages}
    BY <1>6 DEF GiveUp, EndTurn, counters
  <2>2. Honest(messages', Done, facts)
    BY <1>1, <1>2, <2>1, HonestCompacted DEF TruthInv
  <2>3. calls' \in Nat /\ calls' >= calls
    BY <1>1, <2>1
  <2> QED BY <2>1, <2>2, <2>3, OverTruth
<1>7. CASE \/ \E v \in PreVerdicts : PreHook(v)
           \/ \E reply \in IF HasPrompter THEN {"none", "allow", "deny"} ELSE {"none"} : Gate(reply)
           \/ \E ok \in BOOLEAN : Execute(ok)
           \/ \E v \in PostVerdicts : PostHook(v)
  BY <1>7, HooksTruth
<1>8. CASE PushResult
  BY <1>8, PushTruth
<1>9. CASE UNCHANGED vars
  <2>1. UNCHANGED <<messages, kept, pc, todo, cur, facts, calls>>
    BY <1>9 DEF vars, session, counters
  <2> QED BY <2>1 DEF TruthInv, Done, call
<1> QED BY <1>3, <1>4, <1>5, <1>6, <1>7, <1>8, <1>9 DEF Next, TurnStep

LEMMA InitResults == ASSUME Init PROVE TotalInv /\ TruthInv
<1>1. messages = << >> /\ kept = << >> /\ pc = "idle"
  BY DEF Init
<1>2. DOMAIN messages = {} /\ DOMAIN kept = {}
  BY <1>1
<1> QED BY <1>1, <1>2 DEF TotalInv, TruthInv, Honest, Known

(* What holds of a turn between any two of its steps.                      *)
TurnInv == Basics /\ TotalInv /\ TruthInv

LEMMA NextTurn == ASSUME TurnInv, [Next]_vars PROVE TurnInv'
BY NextBasics, NextTotal, NextTruth DEF TurnInv

LEMMA TurnResults == ASSUME TurnInv PROVE ResultsAreTrue
<1>1. TypeOK
  <2>1. \A i \in DOMAIN todo : todo[i] \in Calls
    <3>1. DOMAIN todo = 1..Len(todo)
      BY DEF TurnInv, Basics, PairInv, Types
    <3> QED BY <3>1 DEF TurnInv, Basics, ControlInv, Last
  <2>2. (pc \in Answering) = (todo # << >>)
    BY DEF TurnInv, Basics, PairInv, ControlInv, Controlled
  <2>3. torn \in BOOLEAN
    BY DEF TurnInv, Basics, PairInv, Types
  <2> QED BY <2>1, <2>2, <2>3 DEF TypeOK, TurnInv, Basics, ControlInv, Controlled, Answering
<1>2. ResultsAreHonest
  BY DEF TurnInv, TruthInv, Honest, Right, ResultsAreHonest
<1>3. TotalCoversSession
  BY DEF TurnInv, TotalInv, TotalCoversSession
<1> QED BY <1>1, <1>2, <1>3 DEF ResultsAreTrue

(* For every number of turns, calls and iterations and every verdict of    *)
(* the hooks: a result is an error exactly if its call did not run, failed *)
(* or was objected to, and the tracker counts at least the session         *)
(* (conversation.rs, run_turn; usage.rs, from_session).                    *)
THEOREM ResultsSafety == EngineSpec => []ResultsAreTrue
<1>1. EngineInit => TurnInv
  BY InitBasics, InitResults DEF EngineInit, TurnInv
<1>2. TurnInv /\ [EngineNext]_all => TurnInv'
  BY NextTurn DEF EngineNext, InMcp, all
<1>3. TurnInv => ResultsAreTrue
  BY TurnResults
<1> QED BY <1>1, <1>2, <1>3, PTL DEF EngineSpec

-----------------------------------------------------------------------------
(* What a session may become *)

(* Between turns the runtime holds the session it would be rebuilt from.   *)
HeldInv == pc = "ready" => messages = kept

LEMMA NextHeld ==
  ASSUME HeldInv, driver \in {"repl", "tab"}, [Next]_vars
  PROVE  HeldInv'
<1>1. ASSUME NEW ok, TurnOver(ok) PROVE HeldInv'
  BY <1>1 DEF TurnOver, HeldInv
<1>2. CASE Rebuild
  BY <1>2 DEF Rebuild, HeldInv
<1>3. CASE StartTurn
  BY <1>1, <1>3 DEF StartTurn, HeldInv
<1>4. CASE \E k \in 0..(MaxCalls - calls), n \in Usages : \E cs \in Requested(k) : Reply(cs, n)
  BY <1>1, <1>4 DEF Reply, HeldInv
<1>5. CASE GiveUp \/ EndTurn
  BY <1>1, <1>5 DEF GiveUp, EndTurn
<1>6. CASE \/ \E v \in PreVerdicts : PreHook(v)
           \/ \E reply \in IF HasPrompter THEN {"none", "allow", "deny"} ELSE {"none"} : Gate(reply)
           \/ \E ok \in BOOLEAN : Execute(ok)
           \/ \E v \in PostVerdicts : PostHook(v)
  <2>1. pc' # "ready"
    BY <1>6 DEF PreHook, Gate, Execute, PostHook
  <2> QED BY <2>1 DEF HeldInv
<1>7. CASE PushResult
  BY <1>1, <1>7 DEF PushResult, HeldInv
<1>8. CASE UNCHANGED vars
  BY <1>8 DEF vars, session, HeldInv
<1> QED BY <1>2, <1>3, <1>4, <1>5, <1>6, <1>7, <1>8 DEF Next, TurnStep

Grown == Len(messages') = Len(messages) + 1 /\ messages = SubSeq(messages', 1, Len(messages))
Shortened == /\ messages' # << >> /\ messages'[1] = Summary
             /\ IsSuffix(Tail(messages'), messages) /\ Len(messages') = Preserve + 1
Forgotten == pc = "idle" /\ messages' = kept

LEMMA AppendGrows ==
  ASSUME NEW seq \in Seq(Message), NEW m \in Message
  PROVE  Len(Append(seq, m)) = Len(seq) + 1 /\ seq = SubSeq(Append(seq, m), 1, Len(seq))
<1> DEFINE more == Append(seq, m)
           front == SubSeq(more, 1, Len(seq))
<1>1. /\ Len(seq) \in Nat /\ more \in Seq(Message) /\ Len(more) = Len(seq) + 1
      /\ \A i \in 1..Len(seq) : more[i] = seq[i]
  BY AppendOne
<1> HIDE DEF more
<1>2. \A i \in 1..Len(seq) : more[i] \in Message
  BY <1>1
<1>3. front \in Seq(Message) /\ Len(front) = Len(seq) /\ \A i \in 1..Len(seq) : front[i] = more[i]
  BY <1>1, <1>2, SubSeqProperties
<1> HIDE DEF front
<1>4. front = seq
  BY <1>1, <1>3, SeqEqual
<1> QED BY <1>1, <1>4 DEF front, more

LEMMA CompactedShortens ==
  ASSUME NEW seq \in Seq(Message), Len(seq) - SummaryLength(seq) > Preserve
  PROVE  /\ Compacted(seq) # << >> /\ Compacted(seq)[1] = Summary
         /\ IsSuffix(Tail(Compacted(seq)), seq) /\ Len(Compacted(seq)) = Preserve + 1
<1> DEFINE n == Len(seq)
           recent == SubSeq(seq, n - Preserve + 1, n)
           short == <<Summary>> \o recent
<1>1. /\ Preserve \in Nat /\ n \in Nat /\ Preserve <= n /\ Compacted(seq) = short
      /\ Compacted(seq) \in Seq(Message) /\ DOMAIN Compacted(seq) = 1..(Preserve + 1)
      /\ Compacted(seq)[1] = Summary
  BY CompactedShape DEF Compacted
<1>2. recent \in Seq(Message) /\ Len(recent) = Preserve
  <2>1. n - Preserve + 1 \in 1..(n + 1) /\ \A i \in (n - Preserve + 1)..n : seq[i] \in Message
    BY <1>1
  <2> QED BY <1>1, <2>1, SubSeqProperties
<1> HIDE DEF recent
<1>3. Tail(short) = recent /\ short # << >> /\ Len(short) = Preserve + 1
  <2>1. Summary \in Message
    BY MessageKinds
  <2> QED BY <1>1, <1>2, <2>1
<1>4. recent = SubSeq(seq, n - Len(recent) + 1, n)
  BY <1>2 DEF recent
<1>5. IsSuffix(recent, seq)
  BY <1>1, <1>2, <1>4 DEF IsSuffix
<1> QED BY <1>1, <1>3, <1>5

LEMMA NextHistory ==
  ASSUME Basics, HeldInv, [Next]_vars
  PROVE  [Grown \/ Shortened \/ Forgotten]_messages
<1>1. messages \in Seq(Message) /\ MaxCalls \in Nat
  BY NumbersAssumption DEF Basics, PairInv, Types
<1>2. ASSUME NEW m \in Message, Pushed(m) PROVE Grown
  BY <1>1, <1>2, AppendGrows DEF Pushed, Grown
<1>3. CASE Rebuild
  BY <1>3 DEF Rebuild, HeldInv, Forgotten
<1>4. CASE StartTurn
  <2>1. Pushed(User) \/ UNCHANGED messages
    BY <1>4 DEF StartTurn, NotPushed
  <2> QED BY <1>2, <2>1, MessageKinds
<1>5. ASSUME NEW k \in 0..(MaxCalls - calls), NEW n \in Usages, NEW cs \in Requested(k), Reply(cs, n)
      PROVE  Grown \/ UNCHANGED messages
  <2>1. n \in Nat /\ cs \in Seq(Call)
    BY <1>1, <1>5, RequestedCalls, NumbersAssumption DEF Basics, PairInv, Types
  <2>2. Assistant(cs, n) \in Message
    BY <2>1, MessageKinds
  <2> QED BY <1>2, <1>5, <2>2 DEF Reply, NotPushed
<1>6. CASE PushResult
  <2> DEFINE e == cur.refused \/ cur.error
  <2>1. call.id \in Nat
    <3>1. call.id \in 1..MaxCalls
      BY <1>6, HeadCall DEF PushResult, Answering
    <3> QED BY <1>1, <3>1
  <2>2. e \in BOOLEAN
    OBVIOUS
  <2>3. Pushed(ToolResult(call.id, e)) \/ UNCHANGED messages
    BY <1>6 DEF PushResult, NotPushed
  <2> HIDE DEF e
  <2>4. ToolResult(call.id, e) \in Message
    BY <2>1, <2>2, MessageKinds
  <2> QED BY <1>2, <2>3, <2>4
<1>7. CASE EndTurn
  <2>1. messages' = messages \/ messages' = Compacted(messages)
    BY <1>7 DEF EndTurn
  <2>2. CASE messages' = Compacted(messages) /\ Len(messages) - SummaryLength(messages) > Preserve
    BY <1>1, <2>2, CompactedShortens DEF Shortened
  <2>3. CASE messages' = Compacted(messages) /\ ~(Len(messages) - SummaryLength(messages) > Preserve)
    BY <2>3 DEF Compacted
  <2> QED BY <2>1, <2>2, <2>3
<1>8. CASE \/ GiveUp
           \/ \E v \in PreVerdicts : PreHook(v)
           \/ \E reply \in IF HasPrompter THEN {"none", "allow", "deny"} ELSE {"none"} : Gate(reply)
           \/ \E ok \in BOOLEAN : Execute(ok)
           \/ \E v \in PostVerdicts : PostHook(v)
           \/ UNCHANGED vars
  BY <1>8 DEF GiveUp, PreHook, Gate, Execute, PostHook, session, vars
<1> QED BY <1>3, <1>4, <1>5, <1>6, <1>7, <1>8 DEF Next, TurnStep

(* For every session and every size of a compaction: a session grows by a  *)
(* message, or becomes a summary and its last messages word for word, or   *)
(* loses the failed turn of the REPL (session.rs, push_message; compact.rs,*)
(* compact_session).                                                       *)
THEOREM HistorySafety == EngineSpec => HistoryIsKept
<1>1. EngineInit => Basics /\ HeldInv
  BY InitBasics DEF EngineInit, Init, HeldInv
<1>2. Basics /\ HeldInv /\ [EngineNext]_all => (Basics /\ HeldInv)'
  <2> SUFFICES ASSUME Basics, HeldInv, [EngineNext]_all PROVE (Basics /\ HeldInv)'
    OBVIOUS
  <2>1. [Next]_vars
    BY DEF EngineNext, InMcp, all
  <2>2. driver \in {"repl", "tab"}
    BY DriversAssumption DEF Basics, PairInv, Types
  <2> QED BY <2>1, <2>2, NextBasics, NextHeld
<1>3. Basics /\ HeldInv /\ [EngineNext]_all => [Grown \/ Shortened \/ Forgotten]_messages
  <2> SUFFICES ASSUME Basics, HeldInv, [EngineNext]_all
               PROVE  [Grown \/ Shortened \/ Forgotten]_messages
    OBVIOUS
  <2>1. [Next]_vars
    BY DEF EngineNext, InMcp, all
  <2> QED BY <2>1, NextHistory
<1> QED BY <1>1, <1>2, <1>3, PTL DEF EngineSpec, HistoryIsKept, Grown, Shortened, Forgotten

-----------------------------------------------------------------------------
(* The manager: its call *)

(* What is read from a pipe and written into one.                          *)
Methods == {"initialize", "tools/list", "tools/call", "resources/list", "resources/read"}
Request == [id : Nat, method : Methods]
Response == [id : Nat, body : {"result", "error", "empty", "more", "junk"}]

Process == [server : Servers \cup {NoServer}, alive : BOOLEAN, inbox : Seq(Request),
            outbox : Seq(Response)]
Handle == [proc : 0..MaxProcs, initialized : BOOLEAN]
Operation == [kind : M!Kinds \cup {"none"}, server : Servers \cup {NoServer}, todo : SUBSET Servers,
              attempts : 0..1, handshakes : 0..1, method : Methods \cup {"none"}, id : Nat]

(* The call under way: whose it is, what it asks, whether it was sent.     *)
Underway(where, o, n, k) ==
    /\ where \in {"idle", "next", "check", "ready", "send", "wait"}
    /\ where # "idle" => o.kind \in M!Kinds
    /\ where \in {"check", "ready", "send", "wait"} => o.server \in Servers
    /\ where \in {"send", "wait"} => o.method \in {"initialize", M!MethodOf[o.kind]}
    /\ where = "wait" => o.id = n - 1
    /\ k \in 0..1
    /\ k = 1 => where = "idle" \/ (where = "wait" /\ o.method = "tools/call")

CallInv == /\ op \in Operation /\ nextId \in Nat \ {0} /\ indexed \subseteq Servers
           /\ Underway(at, op, nextId, sent)

(* A message that no request waits for.                                    *)
Late(m, n) == m.body = "junk" \/ m.id < n - 1
AllLate(box, n) == \A i \in DOMAIN box : Late(box[i], n)

Settled(r, n) == r.inbox = << >> /\ AllLate(r.outbox, n)

(* The request is in one pipe, or its one answer in the other.             *)
Expecting(r, n) ==
    \/ r.inbox = << >> /\ \A i, j \in DOMAIN r.outbox : Late(r.outbox[i], n) \/ Late(r.outbox[j], n) \/ i = j
    \/ Len(r.inbox) = 1 /\ r.inbox[1].id = n - 1 /\ AllLate(r.outbox, n)

(* A server and its process know each other.                               *)
Owned(sv, ps) ==
    /\ sv \in [Servers -> Handle] /\ ps \in [M!Procs -> Process]
    /\ \A s \in Servers : /\ sv[s].proc # 0 => ps[sv[s].proc].server = s
                          /\ sv[s].initialized => sv[s].proc # 0
    /\ \A p \in M!Procs : /\ ps[p].server \in Servers => sv[ps[p].server].proc = p
                          /\ ps[p].alive => ps[p].server \in Servers

Asked == IF at = "wait" THEN M!Current ELSE 0

Quiet(ps, n, busy) ==
    \A p \in M!Procs : IF p = busy THEN Expecting(ps[p], n) ELSE Settled(ps[p], n)

PipesInv == /\ Owned(server, process) /\ Quiet(process, nextId, Asked)
            /\ at \in {"send", "wait"} => M!Current # 0

McpInv == CallInv /\ PipesInv

(* The call has got an outcome that sends nothing more.                    *)
Left == /\ op' \in Operation /\ indexed' \subseteq Servers
        /\ at' \in {"idle", "next", "check", "ready"}
        /\ at' # "idle" => op'.kind \in M!Kinds /\ sent = 0
        /\ at' \in {"check", "ready"} => op'.server \in Servers

LEMMA LeftCall ==
  ASSUME CallInv, Left, sent' = sent, nextId' \in {nextId, nextId + 1}
  PROVE  CallInv'
<1>1. nextId' \in Nat \ {0} /\ sent \in 0..1
  BY DEF CallInv, Underway
<1>2. Underway(at', op', nextId', sent')
  BY <1>1 DEF Left, Underway
<1> QED BY <1>1, <1>2 DEF Left, CallInv

(* What a field of an operation may become.                                *)
LEMMA OperationUpdates ==
  ASSUME NEW o \in Operation
  PROVE  /\ [o EXCEPT !.attempts = 1] \in Operation
         /\ [o EXCEPT !.handshakes = 1] \in Operation
         /\ [o EXCEPT !.handshakes = 0] \in Operation
         /\ [o EXCEPT !.server = NoServer, !.attempts = 0, !.method = "none"] \in Operation
         /\ \A m \in Methods : [o EXCEPT !.method = m] \in Operation
         /\ \A i \in Nat : [o EXCEPT !.id = i] \in Operation
<1>1. 0 \in 0..1 /\ 1 \in 0..1
  OBVIOUS
<1>2. [o EXCEPT !.attempts = 1] \in Operation
  BY <1>1 DEF Operation
<1>3. [o EXCEPT !.handshakes = 1] \in Operation /\ [o EXCEPT !.handshakes = 0] \in Operation
  BY <1>1 DEF Operation
<1>4. [o EXCEPT !.server = NoServer, !.attempts = 0, !.method = "none"] \in Operation
  BY <1>1 DEF Operation
<1>5. ASSUME NEW m \in Methods PROVE [o EXCEPT !.method = m] \in Operation
  BY <1>5 DEF Operation
<1>6. ASSUME NEW i \in Nat PROVE [o EXCEPT !.id = i] \in Operation
  BY <1>6 DEF Operation
<1> QED BY <1>2, <1>3, <1>4, <1>5, <1>6

LEMMA FirstOperations ==
  /\ M!NoOp \in Operation
  /\ \A k \in M!Kinds : [M!NoOp EXCEPT !.kind = k, !.todo = Servers] \in Operation
  /\ \A k \in M!Kinds, s \in Servers : [M!NoOp EXCEPT !.kind = k, !.server = s] \in Operation
<1>1. M!NoOp \in Operation
  <2>1. 0 \in 0..1 /\ 0 \in Nat
    OBVIOUS
  <2> QED BY <2>1 DEF M!NoOp, Operation
<1>2. ASSUME NEW k \in M!Kinds PROVE [M!NoOp EXCEPT !.kind = k, !.todo = Servers] \in Operation
  BY <1>1 DEF Operation
<1>3. ASSUME NEW k \in M!Kinds, NEW s \in Servers
      PROVE  [M!NoOp EXCEPT !.kind = k, !.server = s] \in Operation
  BY <1>1 DEF Operation
<1> QED BY <1>1, <1>2, <1>3

LEMMA OverLeaves ==
  ASSUME CallInv, op.kind \in M!Kinds, op.server \in Servers, sent = 0 \/ op.kind = "call",
         NEW ok \in BOOLEAN, M!Over(ok)
  PROVE  Left
<1>1. CASE /\ op.kind \in M!Discoveries
           /\ indexed' = IF ok THEN indexed \cup {op.server} ELSE indexed \ {op.server}
           /\ at' = "next"
           /\ op' = [op EXCEPT !.server = NoServer, !.attempts = 0, !.method = "none"]
  <2>1. op' \in Operation /\ op'.kind = op.kind
    BY <1>1, OperationUpdates DEF CallInv, Operation
  <2>2. indexed' \subseteq Servers /\ sent = 0
    BY <1>1 DEF CallInv, M!Discoveries
  <2> QED BY <1>1, <2>1, <2>2 DEF Left
<1>2. CASE at' = "idle" /\ op' = M!NoOp /\ UNCHANGED indexed
  BY <1>2, FirstOperations DEF CallInv, Left
<1> QED BY <1>1, <1>2 DEF M!Over

(* Only a tool call is sent where the counter says so.                     *)
LEMMA SentIsCall ==
  ASSUME CallInv, at \in {"ready", "send", "wait"}
  PROVE  /\ op.kind \in M!Kinds /\ op.server \in Servers
         /\ sent = 0 \/ (at = "wait" /\ op.kind = "call" /\ op.method = "tools/call")
<1>1. op.kind \in M!Kinds /\ op.server \in Servers
  BY DEF CallInv, Underway
<1>2. ASSUME sent # 0
      PROVE  at = "wait" /\ op.kind = "call" /\ op.method = "tools/call"
  <2>1. sent = 1 /\ at = "wait" /\ op.method = "tools/call"
    BY <1>2 DEF CallInv, Underway
  <2>2. op.method = M!MethodOf[op.kind]
    BY <2>1 DEF CallInv, Underway
  <2> QED BY <1>1, <2>1, <2>2 DEF M!MethodOf, M!Kinds
<1> QED BY <1>1, <1>2

LEMMA FailLeaves ==
  ASSUME CallInv, at \in {"ready", "send", "wait"}, NEW e, M!Fail(e)
  PROVE  Left /\ (e \in M!Resetting => M!Reset) /\ (e \notin M!Resetting => M!Keep)
<1>1. op.kind \in M!Kinds /\ op.server \in Servers /\ (sent = 0 \/ op.kind = "call")
  BY SentIsCall
<1>2. CASE M!Retried(e)
  <2>1. M!Reset /\ at' = "check" /\ op' = [op EXCEPT !.attempts = 1] /\ UNCHANGED indexed
    BY <1>2 DEF M!Fail
  <2>2. op' \in Operation /\ op'.kind = op.kind /\ op'.server = op.server
    BY <2>1, OperationUpdates DEF CallInv, Operation
  <2>3. sent = 0 /\ e \in M!Resetting
    BY <1>1, <1>2 DEF M!Retried, M!Retryable, M!Resetting
  <2> QED BY <1>1, <2>1, <2>2, <2>3 DEF Left, CallInv
<1>3. CASE ~M!Retried(e)
  <2>1. (IF e \in M!Resetting THEN M!Reset ELSE M!Keep) /\ M!Over(FALSE)
    BY <1>3 DEF M!Fail
  <2>2. Left
    BY <1>1, <2>1, OverLeaves
  <2> QED BY <2>1, <2>2
<1> QED BY <1>2, <1>3

LEMMA OutcomeLeaves ==
  ASSUME CallInv, at \in {"send", "wait"}, NEW e \in M!Resetting, M!Outcome(e)
  PROVE  Left /\ M!Reset
<1>1. CASE M!Fail(e)
  BY <1>1, FailLeaves
<1>2. CASE /\ op.method = "initialize" /\ M!Reset /\ at' = "ready"
           /\ op' = [op EXCEPT !.handshakes = 1] /\ UNCHANGED indexed
  <2>1. op' \in Operation /\ op'.kind = op.kind /\ op'.server = op.server
    BY <1>2, OperationUpdates DEF CallInv, Operation
  <2>2. sent = 0 /\ op.kind \in M!Kinds /\ op.server \in Servers
    BY <1>2, SentIsCall
  <2> QED BY <1>2, <2>1, <2>2 DEF Left, CallInv
<1> QED BY <1>1, <1>2 DEF M!Outcome, M!HandshakeFails

(* The pipe has been read: the answer was for the request.                 *)
Taken == /\ process' = M!Taken(process)
         /\ \/ server' = server
            \/ server' = [server EXCEPT ![op.server].initialized = TRUE]

(* The next page is asked for.                                             *)
Again == at' = "send" /\ UNCHANGED <<server, op, indexed>> /\ op.method \in M!Paged

LEMMA AcceptLeaves ==
  ASSUME CallInv, at = "wait", NEW body, M!Accept(body)
  PROVE  (Taken /\ (Left \/ Again)) \/ (M!Reset /\ Left)
<1>1. op.kind \in M!Kinds /\ op.server \in Servers /\ (sent = 0 \/ op.kind = "call")
  BY SentIsCall
<1>2. CASE /\ op.method = "initialize" /\ body = "result"
           /\ server' = [server EXCEPT ![op.server].initialized = TRUE]
           /\ process' = M!Taken(process)
           /\ at' = "ready" /\ UNCHANGED <<op, indexed>>
  <2>1. sent = 0
    BY <1>2, SentIsCall
  <2> QED BY <1>1, <1>2, <2>1 DEF Taken, Left, CallInv
<1>3. CASE /\ op.method \in M!Paged /\ body = "more"
           /\ process' = M!Taken(process)
           /\ at' = "send" /\ UNCHANGED <<server, op, indexed>>
  BY <1>3 DEF Taken, Again
<1>4. CASE process' = M!Taken(process) /\ UNCHANGED server /\ (M!Over(TRUE) \/ M!Over(FALSE))
  BY <1>1, <1>4, OverLeaves DEF Taken
<1>5. CASE M!Outcome("invalid")
  <2>1. "invalid" \in M!Resetting
    BY DEF M!Resetting
  <2> QED BY <1>5, <2>1, OutcomeLeaves
<1> QED BY <1>2, <1>3, <1>4, <1>5 DEF M!Accept

(* What a step of a waiting caller does.                                   *)
LEMMA WaitLeaves ==
  ASSUME CallInv, M!Receive \/ M!EndOfFile \/ M!Timeout
  PROVE  /\ at = "wait" /\ UNCHANGED <<nextId, sent>>
         /\ \/ M!Reset /\ Left
            \/ /\ Taken /\ (Left \/ Again)
               /\ process[M!Current].outbox # << >>
               /\ Head(process[M!Current].outbox).body # "junk"
               /\ Head(process[M!Current].outbox).id = op.id
<1>1. "invalid" \in M!Resetting /\ "transport" \in M!Resetting /\ "timeout" \in M!Resetting
  BY DEF M!Resetting
<1>2. CASE M!EndOfFile \/ M!Timeout
  BY <1>1, <1>2, OutcomeLeaves DEF M!EndOfFile, M!Timeout
<1>3. CASE M!Receive
  <2> DEFINE r == Head(process[M!Current].outbox)
  <2>1. /\ at = "wait" /\ process[M!Current].outbox # << >> /\ UNCHANGED <<nextId, sent>>
        /\ IF r.body = "junk" \/ r.id # op.id THEN M!Outcome("invalid") ELSE M!Accept(r.body)
    BY <1>3 DEF M!Receive
  <2> HIDE DEF r
  <2>2. CASE r.body = "junk" \/ r.id # op.id
    BY <1>1, <2>1, <2>2, OutcomeLeaves
  <2>3. CASE r.body # "junk" /\ r.id = op.id
    <3>1. M!Accept(r.body)
      BY <2>1, <2>3
    <3>2. (Taken /\ (Left \/ Again)) \/ (M!Reset /\ Left)
      BY <2>1, <3>1, AcceptLeaves
    <3> QED BY <2>1, <2>3, <3>2 DEF r
  <2> QED BY <2>2, <2>3
<1> QED BY <1>2, <1>3

LEMMA WaitCall ==
  ASSUME CallInv, M!Receive \/ M!EndOfFile \/ M!Timeout
  PROVE  CallInv'
<1>1. nextId \in Nat \ {0} /\ nextId' = nextId /\ sent' = sent /\ at = "wait"
  BY WaitLeaves DEF CallInv
<1>2. CASE Left
  BY <1>1, <1>2, LeftCall
<1>3. CASE Again
  <2>1. sent = 0
    BY <1>1, <1>3, SentIsCall DEF Again, M!Paged
  <2> QED BY <1>1, <1>3, <2>1 DEF Again, CallInv, Underway
<1> QED BY <1>2, <1>3, WaitLeaves

LEMMA BeginCall ==
  ASSUME CallInv, NEW kind \in M!Kinds, NEW s \in Servers \cup {NoServer},
         kind \in M!Discoveries \/ s \in Servers, M!Begin(kind, s)
  PROVE  CallInv'
<1>1. UNCHANGED <<indexed, nextId>> /\ sent' = 0
  BY DEF M!Begin
<1>2. CASE kind \in M!Discoveries
  <2>1. at' = "next" /\ op' = [M!NoOp EXCEPT !.kind = kind, !.todo = Servers]
    BY <1>2 DEF M!Begin
  <2>2. op' \in Operation /\ op'.kind = kind
    BY <2>1, FirstOperations DEF M!NoOp
  <2> QED BY <1>1, <2>1, <2>2 DEF CallInv, Underway
<1>3. CASE kind \notin M!Discoveries
  <2>1. at' = "check" /\ op' = [M!NoOp EXCEPT !.kind = kind, !.server = s] /\ s \in Servers
    BY <1>3 DEF M!Begin
  <2>2. op' \in Operation /\ op'.kind = kind /\ op'.server = s
    BY <2>1, FirstOperations DEF M!NoOp
  <2> QED BY <1>1, <2>1, <2>2 DEF CallInv, Underway
<1> QED BY <1>2, <1>3

LEMMA NextCall ==
  ASSUME CallInv, M!Next \/ UNCHANGED mcp
  PROVE  CallInv'
<1>1. CASE M!Discover \/ \E s \in Servers : M!CallTool(s) \/ M!Resources(s)
  <2>1. /\ M!Discoveries \subseteq M!Kinds /\ {"call", "list", "read"} \subseteq M!Kinds
    BY DEF M!Discoveries, M!Kinds
  <2>2. \/ \E kind \in M!Discoveries : M!Begin(kind, NoServer)
        \/ \E s \in Servers, kind \in {"call", "list", "read"} : M!Begin(kind, s)
    BY <1>1 DEF M!Discover, M!CallTool, M!Resources
  <2> QED BY <2>1, <2>2, BeginCall
<1>2. CASE M!NextServer
  <2>1. at = "next" /\ UNCHANGED <<indexed, nextId, sent>>
    BY <1>2 DEF M!NextServer
  <2>2. op.kind \in M!Kinds /\ sent = 0
    BY <2>1 DEF CallInv, Underway
  <2>3. CASE at' = "idle" /\ op' = M!NoOp
    BY <2>1, <2>3, FirstOperations DEF CallInv, Underway
  <2>4. ASSUME NEW s \in op.todo, at' = "check", op' = [op EXCEPT !.server = s, !.todo = op.todo \ {s}]
        PROVE  CallInv'
    <3>1. s \in Servers
      BY DEF CallInv, Operation
    <3> DEFINE rest == op.todo \ {s}
    <3>2. rest \in SUBSET Servers
      BY DEF CallInv, Operation
    <3> HIDE DEF rest
    <3>3. op' \in Operation /\ op'.kind = op.kind /\ op'.server = s
      BY <2>4, <3>1, <3>2 DEF CallInv, Operation, rest
    <3> QED BY <2>1, <2>2, <2>4, <3>1, <3>3 DEF CallInv, Underway
  <2> QED BY <1>2, <2>3, <2>4 DEF M!NextServer
<1>3. CASE M!Shutdown
  <2>1. UNCHANGED <<indexed, at, op, nextId, sent>>
    BY <1>3 DEF M!Shutdown
  <2> QED BY <2>1 DEF CallInv
<1>4. CASE M!Check
  <2>1. /\ at = "check" /\ at' = "ready" /\ op' = [op EXCEPT !.handshakes = 0]
        /\ UNCHANGED <<indexed, nextId, sent>>
    BY <1>4 DEF M!Check
  <2>2. op' \in Operation /\ op'.kind = op.kind /\ op'.server = op.server
    BY <2>1, OperationUpdates DEF CallInv, Operation
  <2> QED BY <2>1, <2>2 DEF CallInv, Underway
<1>5. CASE M!Spawn
  <2>1. at = "ready" /\ UNCHANGED <<nextId, sent>> /\ (UNCHANGED <<at, op, indexed>> \/ M!Fail("io"))
    BY <1>5 DEF M!Spawn
  <2>2. CASE UNCHANGED <<at, op, indexed>>
    BY <2>1, <2>2 DEF CallInv
  <2>3. CASE M!Fail("io")
    <3>1. Left
      BY <2>1, <2>3, FailLeaves
    <3> QED BY <2>1, <3>1, LeftCall
  <2> QED BY <2>1, <2>2, <2>3
<1>6. CASE M!Ready
  <2> DEFINE m == IF server[op.server].initialized THEN M!MethodOf[op.kind] ELSE "initialize"
  <2>1. /\ at = "ready" /\ at' = "send" /\ op' = [op EXCEPT !.method = m]
        /\ UNCHANGED <<indexed, nextId, sent>>
    BY <1>6 DEF M!Ready
  <2>2. op.kind \in M!Kinds /\ sent = 0 /\ op.server \in Servers
    BY <2>1 DEF CallInv, Underway
  <2>3. m \in Methods /\ m \in {"initialize", M!MethodOf[op.kind]}
    BY <2>2 DEF M!Kinds, M!MethodOf, Methods
  <2> HIDE DEF m
  <2>4. op' \in Operation /\ op'.kind = op.kind /\ op'.server = op.server /\ op'.method = m
    BY <2>1, <2>3, OperationUpdates DEF CallInv, Operation
  <2> QED BY <2>1, <2>2, <2>3, <2>4 DEF CallInv, Underway
<1>7. CASE M!Send
  <2>1. at = "send" /\ nextId' = nextId + 1 /\ nextId \in Nat \ {0}
    BY <1>7 DEF M!Send, CallInv
  <2>2. /\ sent = 0 /\ op.kind \in M!Kinds /\ op.server \in Servers
        /\ op.method \in {"initialize", M!MethodOf[op.kind]}
    BY <2>1, SentIsCall DEF CallInv, Underway
  <2>3. CASE /\ at' = "wait" /\ op' = [op EXCEPT !.id = nextId] /\ UNCHANGED indexed
             /\ sent' = IF op.method = "tools/call" THEN sent + 1 ELSE sent
    <3>1. /\ op' \in Operation /\ op'.kind = op.kind /\ op'.server = op.server
          /\ op'.method = op.method /\ op'.id = nextId
      BY <2>1, <2>3, OperationUpdates DEF CallInv, Operation
    <3>2. op'.id = nextId' - 1 /\ nextId' \in Nat \ {0}
      BY <2>1, <3>1
    <3>3. sent' \in 0..1 /\ (sent' = 1 => op.method = "tools/call")
      BY <2>2, <2>3
    <3> QED BY <2>2, <2>3, <3>1, <3>2, <3>3 DEF CallInv, Underway
  <2>4. CASE M!Outcome("transport") /\ UNCHANGED sent
    <3>1. Left
      BY <2>1, <2>4, OutcomeLeaves DEF M!Resetting
    <3> QED BY <2>1, <2>4, <3>1, LeftCall
  <2> QED BY <1>7, <2>3, <2>4 DEF M!Send
<1>8. CASE M!Receive \/ M!EndOfFile \/ M!Timeout
  BY <1>8, WaitCall
<1>9. CASE (\E p \in M!Procs : M!Reply(p) \/ M!Babble(p) \/ M!Die(p)) \/ UNCHANGED mcp
  <2>1. UNCHANGED <<indexed, at, op, nextId, sent>>
    BY <1>9 DEF M!Reply, M!Babble, M!Die, M!manager, mcp
  <2> QED BY <2>1 DEF CallInv
<1> QED BY <1>1, <1>2, <1>3, <1>4, <1>5, <1>6, <1>7, <1>8, <1>9 DEF M!Next, M!Caller, M!Step

(* Pipes *)

LEMMA UnusedFacts ==
  /\ M!Unused \in Process /\ M!Unused.server = NoServer /\ M!Unused.alive = FALSE
  /\ M!Unused.inbox = << >> /\ M!Unused.outbox = << >>
  /\ \A n : Settled(M!Unused, n)
<1>1. << >> \in Seq(Request) /\ << >> \in Seq(Response)
  OBVIOUS
<1>2. /\ M!Unused.server = NoServer /\ M!Unused.alive = FALSE
      /\ M!Unused.inbox = << >> /\ M!Unused.outbox = << >>
  BY DEF M!Unused
<1>3. M!Unused \in Process
  BY <1>1 DEF M!Unused, Process
<1>4. DOMAIN << >> = {}
  OBVIOUS
<1> QED BY <1>2, <1>3, <1>4 DEF Settled, AllLate

LEMMA SettledMore ==
  ASSUME NEW r \in Process, NEW n \in Nat, Settled(r, n)
  PROVE  Settled(r, n + 1)
<1>1. r.outbox \in Seq(Response)
  BY DEF Process
<1>2. ASSUME NEW i \in DOMAIN r.outbox PROVE Late(r.outbox[i], n + 1)
  <2>1. r.outbox[i] \in Response
    BY <1>1
  <2>2. r.outbox[i].id \in Nat
    BY <2>1 DEF Response
  <2>3. Late(r.outbox[i], n)
    BY DEF Settled, AllLate
  <2> QED BY <2>2, <2>3 DEF Late
<1> QED BY <1>2 DEF Settled, AllLate

(* Where nobody waits, every pipe is settled.                              *)
LEMMA QuietFacts ==
  ASSUME PipesInv
  PROVE  /\ \A p \in M!Procs : p # M!Current \/ at # "wait" => Settled(process[p], nextId)
         /\ at = "wait" => M!Current # 0 /\ (M!Current \in M!Procs => Expecting(process[M!Current], nextId))
<1>1. \A p \in M!Procs : p # 0
  BY DEF M!Procs
<1>2. ASSUME NEW p \in M!Procs, p # M!Current \/ at # "wait"
      PROVE  Settled(process[p], nextId)
  <2>1. p # Asked
    BY <1>1, <1>2 DEF Asked
  <2> QED BY <2>1 DEF PipesInv, Quiet
<1>3. ASSUME at = "wait", M!Current \in M!Procs
      PROVE  Expecting(process[M!Current], nextId)
  <2>1. Asked = M!Current
    BY <1>3 DEF Asked
  <2> QED BY <1>3, <2>1 DEF PipesInv, Quiet
<1> QED BY <1>2, <1>3 DEF PipesInv

LEMMA CurrentFacts ==
  ASSUME PipesInv, op.server \in Servers
  PROVE  /\ M!Current \in 0..MaxProcs
         /\ M!Current # 0 => M!Current \in M!Procs /\ process[M!Current].server = op.server
<1>1. server[op.server] \in Handle
  BY DEF PipesInv, Owned
<1>2. M!Current \in 0..MaxProcs
  BY <1>1 DEF M!Current, Handle
<1>3. M!Current # 0 => M!Current \in M!Procs
  BY <1>2, ServersAssumption DEF M!Procs
<1>4. M!Current # 0 => process[M!Current].server = op.server
  BY DEF PipesInv, Owned, M!Current
<1> QED BY <1>2, <1>3, <1>4

(* Every pipe is settled and nobody waits.                                 *)
LEMMA AllSettled ==
  ASSUME Owned(server', process'), at' \notin {"send", "wait"},
         \A p \in M!Procs : Settled(process'[p], nextId')
  PROVE  PipesInv'
<1>1. Asked' = 0
  BY DEF Asked
<1>2. \A p \in M!Procs : p # 0
  BY DEF M!Procs
<1>3. Quiet(process', nextId', Asked')
  BY <1>1, <1>2 DEF Quiet
<1> QED BY <1>3 DEF PipesInv

LEMMA ResetPipes ==
  ASSUME PipesInv, op.server \in Servers, M!Reset, at' \notin {"send", "wait"},
         nextId \in Nat, nextId' \in {nextId, nextId + 1}
  PROVE  PipesInv'
<1> DEFINE c == M!Current
           o == op.server
           h == [proc |-> 0, initialized |-> FALSE]
<1>1. /\ server' = [server EXCEPT ![o] = h]
      /\ process' = [p \in M!Procs |-> IF p = c THEN M!Unused ELSE process[p]]
  BY DEF M!Reset
<1>2. /\ server \in [Servers -> Handle] /\ process \in [M!Procs -> Process] /\ o \in Servers
      /\ \A s \in Servers : /\ server[s].proc # 0 => process[server[s].proc].server = s
                            /\ server[s].initialized => server[s].proc # 0
                            /\ server[s].proc # 0 => server[s].proc \in M!Procs
      /\ \A p \in M!Procs : /\ process[p].server \in Servers => server[process[p].server].proc = p
                            /\ process[p].alive => process[p].server \in Servers
  <2>1. \A s \in Servers : server[s].proc \in 0..MaxProcs
    BY DEF PipesInv, Owned, Handle
  <2>2. \A s \in Servers : server[s].proc # 0 => server[s].proc \in M!Procs
    BY <2>1, ServersAssumption DEF M!Procs
  <2> QED BY <2>2 DEF PipesInv, Owned
<1>3. c = server[o].proc
  BY DEF M!Current
<1>4. h \in Handle /\ h.proc = 0 /\ h.initialized = FALSE
  BY ServersAssumption DEF Handle
<1> HIDE DEF c, o, h
<1>5. server' \in [Servers -> Handle] /\ process' \in [M!Procs -> Process]
  BY <1>1, <1>2, <1>4, UnusedFacts
<1>6. ASSUME NEW s \in Servers
      PROVE  /\ server'[s].proc # 0 => process'[server'[s].proc].server = s
             /\ server'[s].initialized => server'[s].proc # 0
  <2>1. CASE s = o
    BY <1>1, <1>2, <1>4, <2>1
  <2>2. CASE s # o
    <3>1. server'[s] = server[s]
      BY <1>1, <1>2, <2>2
    <3>2. ASSUME server[s].proc # 0 PROVE process'[server[s].proc] = process[server[s].proc]
      <4>1. server[s].proc # c /\ server[s].proc \in M!Procs
        BY <1>2, <1>3, <2>2, <3>2
      <4> QED BY <1>1, <4>1
    <3> QED BY <1>2, <3>1, <3>2
  <2> QED BY <2>1, <2>2
<1>7. ASSUME NEW p \in M!Procs
      PROVE  /\ process'[p].server \in Servers => server'[process'[p].server].proc = p
             /\ process'[p].alive => process'[p].server \in Servers
             /\ Settled(process'[p], nextId')
  <2>1. CASE p = c
    <3>1. process'[p] = M!Unused
      BY <1>1, <2>1
    <3> QED BY <3>1, UnusedFacts, ServersAssumption
  <2>2. CASE p # c
    <3>1. process'[p] = process[p] /\ process[p] \in Process
      BY <1>1, <1>2, <2>2
    <3>2. process[p].server \in Servers => server'[process[p].server] = server[process[p].server]
      BY <1>1, <1>2, <1>3, <2>2
    <3>3. Settled(process[p], nextId)
      BY <2>2, QuietFacts DEF c
    <3>4. Settled(process[p], nextId')
      BY <3>1, <3>3, SettledMore
    <3> QED BY <1>2, <3>1, <3>2, <3>4
  <2> QED BY <2>1, <2>2
<1>8. Owned(server', process')
  BY <1>5, <1>6, <1>7 DEF Owned
<1> QED BY <1>7, <1>8, AllSettled

(* Servers, processes and pipes are left alone.                            *)
LEMMA KeepPipes ==
  ASSUME PipesInv, M!Keep, nextId' = nextId, at # "wait", at' # "wait",
         at' = "send" => M!Current' # 0
  PROVE  PipesInv'
<1>1. Asked = 0 /\ Asked' = 0
  BY DEF Asked
<1>2. server' = server /\ process' = process
  BY DEF M!Keep
<1> QED BY <1>1, <1>2 DEF PipesInv

(* What is read is the one answer: what stays behind is late.              *)
LEMMA TakenSettles ==
  ASSUME NEW r \in Process, NEW n \in Nat, Expecting(r, n), r.outbox # << >>,
         Head(r.outbox).body # "junk", Head(r.outbox).id = n - 1
  PROVE  /\ r.inbox = << >> /\ Tail(r.outbox) \in Seq(Response) /\ AllLate(Tail(r.outbox), n)
<1>1. r.outbox \in Seq(Response) /\ r.inbox \in Seq(Request)
  BY DEF Process
<1>2. /\ Tail(r.outbox) \in Seq(Response) /\ 1 \in DOMAIN r.outbox /\ Head(r.outbox) = r.outbox[1]
      /\ \A i \in DOMAIN Tail(r.outbox) : /\ i + 1 \in DOMAIN r.outbox /\ i + 1 # 1
                                          /\ Tail(r.outbox)[i] = r.outbox[i + 1]
  <2> DEFINE box == r.outbox
  <2>1. box \in Seq(Response) /\ box # << >>
    BY <1>1
  <2> HIDE DEF box
  <2>2. /\ Tail(box) \in Seq(Response) /\ 1 \in DOMAIN box /\ Head(box) = box[1]
        /\ \A i \in DOMAIN Tail(box) : i + 1 \in DOMAIN box /\ i + 1 # 1 /\ Tail(box)[i] = box[i + 1]
    BY <2>1
  <2> QED BY <2>2 DEF box
<1>3. ~Late(r.outbox[1], n)
  <2>1. r.outbox[1].id = n - 1 /\ ~(n - 1 < n - 1)
    BY <1>2
  <2> QED BY <1>2, <2>1 DEF Late
<1>4. ~AllLate(r.outbox, n)
  BY <1>2, <1>3 DEF AllLate
<1>5. /\ r.inbox = << >>
      /\ \A i, j \in DOMAIN r.outbox : Late(r.outbox[i], n) \/ Late(r.outbox[j], n) \/ i = j
  BY <1>4 DEF Expecting
<1>6. ASSUME NEW i \in DOMAIN Tail(r.outbox) PROVE Late(Tail(r.outbox)[i], n)
  <2>1. i + 1 \in DOMAIN r.outbox /\ i + 1 # 1 /\ Tail(r.outbox)[i] = r.outbox[i + 1]
    BY <1>2
  <2>2. Late(r.outbox[i + 1], n) \/ Late(r.outbox[1], n) \/ i + 1 = 1
    BY <1>2, <1>5, <2>1
  <2> QED BY <1>3, <2>1, <2>2
<1> QED BY <1>2, <1>5, <1>6 DEF AllLate

LEMMA TakenPipes ==
  ASSUME McpInv, at = "wait", Taken, Left \/ Again, nextId' = nextId,
         process[M!Current].outbox # << >>,
         Head(process[M!Current].outbox).body # "junk",
         Head(process[M!Current].outbox).id = op.id
  PROVE  PipesInv'
<1> DEFINE c == M!Current
           o == op.server
           box == Tail(process[c].outbox)
<1>1. o \in Servers /\ nextId \in Nat /\ op.id = nextId - 1
  BY DEF McpInv, CallInv, Underway
<1>2. c \in M!Procs /\ process[c].server = o /\ c = server[o].proc /\ c # 0
  BY <1>1, CurrentFacts, QuietFacts DEF McpInv, M!Current
<1>3. /\ server \in [Servers -> Handle] /\ process \in [M!Procs -> Process]
      /\ \A s \in Servers : /\ server[s].proc # 0 => process[server[s].proc].server = s
                            /\ server[s].initialized => server[s].proc # 0
      /\ \A p \in M!Procs : /\ process[p].server \in Servers => server[process[p].server].proc = p
                            /\ process[p].alive => process[p].server \in Servers
  BY DEF McpInv, PipesInv, Owned
<1>4. process' = [process EXCEPT ![c].outbox = Tail(@)]
  BY DEF Taken, M!Taken
<1>5. process[c].inbox = << >> /\ box \in Seq(Response) /\ AllLate(box, nextId)
  <2>1. process[c] \in Process /\ Expecting(process[c], nextId)
    BY <1>2, <1>3, QuietFacts DEF McpInv
  <2> QED BY <1>1, <2>1, TakenSettles
<1> DEFINE h == [server[o] EXCEPT !.initialized = TRUE]
<1>6. server' = server \/ server' = [server EXCEPT ![o] = h]
  BY DEF Taken
<1>7. process' = [process EXCEPT ![c] = [process[c] EXCEPT !.outbox = box]]
  BY <1>4
<1> HIDE DEF c, o, box, h
<1>8. /\ process' \in [M!Procs -> Process]
      /\ process'[c].inbox = << >> /\ process'[c].outbox = box
      /\ \A p \in M!Procs : p # c => process'[p] = process[p]
      /\ \A p \in M!Procs : process'[p].server = process[p].server /\ process'[p].alive = process[p].alive
  <2> DEFINE r == [process[c] EXCEPT !.outbox = box]
  <2>1. r \in Process /\ r.server = process[c].server /\ r.alive = process[c].alive
        /\ r.inbox = process[c].inbox /\ r.outbox = box
    BY <1>2, <1>3, <1>5 DEF Process
  <2>2. process' = [process EXCEPT ![c] = r]
    BY <1>7
  <2> HIDE DEF r
  <2> QED BY <1>2, <1>3, <1>5, <2>1, <2>2
<1>9. /\ server' \in [Servers -> Handle] /\ \A s \in Servers : server'[s].proc = server[s].proc
      /\ \A s \in Servers : server'[s].initialized => server'[s].proc # 0
  <2>1. CASE server' = server
    BY <1>3, <2>1
  <2>2. CASE server' = [server EXCEPT ![o] = h]
    <3>1. h \in Handle /\ h.proc = c /\ o \in Servers
      BY <1>1, <1>2, <1>3 DEF Handle, o, h
    <3> QED BY <1>2, <1>3, <2>2, <3>1
  <2> QED BY <1>6, <2>1, <2>2
<1>10. Owned(server', process')
  <2>1. ASSUME NEW s \in Servers, server'[s].proc # 0
        PROVE  process'[server'[s].proc].server = s
    <3>1. server[s].proc # 0 /\ server[s].proc \in M!Procs /\ server'[s].proc = server[s].proc
      BY <1>3, <1>9, <2>1, ServersAssumption DEF Handle, M!Procs
    <3> QED BY <1>3, <1>8, <3>1
  <2>2. ASSUME NEW p \in M!Procs
        PROVE  /\ process'[p].server \in Servers => server'[process'[p].server].proc = p
               /\ process'[p].alive => process'[p].server \in Servers
    <3>1. process'[p].server = process[p].server /\ process'[p].alive = process[p].alive
      BY <1>8
    <3> QED BY <1>3, <1>9, <3>1
  <2> QED BY <1>8, <1>9, <2>1, <2>2 DEF Owned
<1>11. \A p \in M!Procs : Settled(process'[p], nextId')
  <2> TAKE p \in M!Procs
  <2>1. CASE p = c
    BY <1>5, <1>8, <2>1 DEF Settled
  <2>2. CASE p # c
    BY <1>8, <2>2, QuietFacts DEF McpInv, c
  <2> QED BY <2>1, <2>2
<1>12. CASE Left
  BY <1>10, <1>11, <1>12, AllSettled DEF Left
<1>13. CASE Again
  <2>1. Asked' = 0 /\ \A p \in M!Procs : p # 0
    BY <1>13 DEF Again, Asked, M!Procs
  <2>2. M!Current' = c
    BY <1>13 DEF Again, M!Current, c
  <2>3. Quiet(process', nextId', Asked')
    BY <1>11, <2>1 DEF Quiet
  <2> QED BY <1>2, <1>10, <2>2, <2>3 DEF PipesInv
<1> QED BY <1>12, <1>13

LEMMA SpawnPipes ==
  ASSUME McpInv, M!Spawn
  PROVE  PipesInv'
<1>1. at = "ready" /\ M!Current = 0 /\ UNCHANGED <<nextId, sent>>
  BY DEF M!Spawn
<1>2. op.server \in Servers /\ nextId \in Nat
  BY <1>1 DEF McpInv, CallInv, Underway
<1>3. CASE M!Fail("io")
  <2>1. Left /\ M!Keep
    BY <1>1, <1>3, FailLeaves DEF M!Resetting, McpInv
  <2> QED BY <1>1, <2>1, KeepPipes DEF Left, McpInv
<1>4. ASSUME NEW c \in M!Procs, process[c] = M!Unused,
             process' = [process EXCEPT ![c].server = op.server, ![c].alive = TRUE],
             server' = [server EXCEPT ![op.server] = [proc |-> c, initialized |-> FALSE]],
             UNCHANGED <<at, op, indexed>>
      PROVE  PipesInv'
  <2> DEFINE o == op.server
             h == [proc |-> c, initialized |-> FALSE]
             r == [M!Unused EXCEPT !.server = o, !.alive = TRUE]
  <2>1. /\ server \in [Servers -> Handle] /\ process \in [M!Procs -> Process]
        /\ \A s \in Servers : /\ server[s].proc # 0 => process[server[s].proc].server = s
                              /\ server[s].initialized => server[s].proc # 0
        /\ \A p \in M!Procs : /\ process[p].server \in Servers => server[process[p].server].proc = p
                              /\ process[p].alive => process[p].server \in Servers
    BY DEF McpInv, PipesInv, Owned
  <2>2. o \in Servers /\ server[o].proc = 0
    BY <1>1, <1>2 DEF M!Current
  <2>3. h \in Handle /\ h.proc = c /\ h.initialized = FALSE /\ c # 0
    BY ServersAssumption DEF Handle, M!Procs
  <2>4. /\ r \in Process /\ r.server = o /\ r.alive = TRUE /\ r.inbox = << >> /\ r.outbox = << >>
    BY <2>2, UnusedFacts DEF Process
  <2>5. process' = [process EXCEPT ![c] = r]
    BY <1>4
  <2>6. server' = [server EXCEPT ![o] = h]
    BY <1>4
  <2> HIDE DEF o, h, r
  <2>7. server' \in [Servers -> Handle] /\ process' \in [M!Procs -> Process]
    BY <2>1, <2>2, <2>3, <2>4, <2>5, <2>6
  <2>8. ASSUME NEW s \in Servers
        PROVE  /\ server'[s].proc # 0 => process'[server'[s].proc].server = s
               /\ server'[s].initialized => server'[s].proc # 0
    <3>1. CASE s = o
      BY <1>4, <2>1, <2>2, <2>3, <2>4, <2>5, <2>6, <3>1
    <3>2. CASE s # o
      <4>1. server'[s] = server[s]
        BY <2>1, <2>6, <3>2
      <4>2. server[s].proc # c
        BY <1>4, <2>1, <2>3, UnusedFacts, ServersAssumption
      <4>3. server[s].proc # 0 => process'[server[s].proc] = process[server[s].proc]
        <5>1. server[s].proc # 0 => server[s].proc \in M!Procs
          BY <2>1, ServersAssumption DEF Handle, M!Procs
        <5> QED BY <2>1, <2>5, <4>2, <5>1
      <4> QED BY <2>1, <4>1, <4>3
    <3> QED BY <3>1, <3>2
  <2>9. ASSUME NEW p \in M!Procs
        PROVE  /\ process'[p].server \in Servers => server'[process'[p].server].proc = p
               /\ process'[p].alive => process'[p].server \in Servers
               /\ Settled(process'[p], nextId)
    <3>1. CASE p = c
      <4>1. process'[p] = r /\ server'[o] = h
        BY <2>1, <2>2, <2>5, <2>6, <3>1
      <4>2. DOMAIN << >> = {}
        OBVIOUS
      <4> QED BY <2>2, <2>3, <2>4, <3>1, <4>1, <4>2 DEF Settled, AllLate
    <3>2. CASE p # c
      <4>1. process'[p] = process[p]
        BY <2>1, <2>5, <3>2
      <4>2. process[p].server \in Servers =>
              process[p].server # o /\ server'[process[p].server] = server[process[p].server]
        <5>1. p # 0
          BY DEF M!Procs
        <5> QED BY <2>1, <2>2, <2>6, <5>1
      <4>3. Settled(process[p], nextId)
        BY <1>1, QuietFacts DEF McpInv
      <4> QED BY <2>1, <4>1, <4>2, <4>3
    <3> QED BY <3>1, <3>2
  <2>10. Owned(server', process')
    BY <2>7, <2>8, <2>9 DEF Owned
  <2> QED BY <1>1, <1>4, <2>9, <2>10, AllSettled
<1> QED BY <1>3, <1>4 DEF M!Spawn

LEMMA OneRequest ==
  ASSUME NEW m \in Request
  PROVE  Append(<< >>, m) \in Seq(Request) /\ Len(Append(<< >>, m)) = 1 /\ Append(<< >>, m)[1] = m
OBVIOUS

LEMMA SendPipes ==
  ASSUME McpInv, M!Send
  PROVE  PipesInv'
<1>1. at = "send" /\ nextId' = nextId + 1 /\ nextId \in Nat /\ op.server \in Servers /\ M!Current # 0
  BY DEF M!Send, McpInv, CallInv, Underway, PipesInv
<1>2. CASE M!Outcome("transport")
  <2>1. Left /\ M!Reset
    BY <1>1, <1>2, OutcomeLeaves DEF M!Resetting, McpInv
  <2> QED BY <1>1, <2>1, ResetPipes DEF Left, McpInv
<1>3. CASE /\ process' = [process EXCEPT ![M!Current].inbox =
                            Append(@, [id |-> nextId, method |-> op.method])]
           /\ at' = "wait" /\ op' = [op EXCEPT !.id = nextId]
           /\ UNCHANGED <<server, indexed>>
  <2> DEFINE c == M!Current
             m == [id |-> nextId, method |-> op.method]
             r == [process[c] EXCEPT !.inbox = Append(process[c].inbox, m)]
             n == nextId
  <2>1. /\ server \in [Servers -> Handle] /\ process \in [M!Procs -> Process]
        /\ \A s \in Servers : /\ server[s].proc # 0 => process[server[s].proc].server = s
                              /\ server[s].initialized => server[s].proc # 0
        /\ \A p \in M!Procs : /\ process[p].server \in Servers => server[process[p].server].proc = p
                              /\ process[p].alive => process[p].server \in Servers
    BY DEF McpInv, PipesInv, Owned
  <2>2. c \in M!Procs /\ process[c] \in Process /\ Settled(process[c], n)
    BY <1>1, <2>1, CurrentFacts, QuietFacts DEF McpInv
  <2>3. m \in Request /\ m.id = n
    <3>1. op.method \in Methods
      <4>1. op.kind \in M!Kinds /\ op.method \in {"initialize", M!MethodOf[op.kind]}
        BY <1>1 DEF McpInv, CallInv, Underway
      <4> QED BY <4>1 DEF M!Kinds, M!MethodOf, Methods
    <3> QED BY <1>1, <3>1 DEF Request
  <2>4. process' = [process EXCEPT ![c] = r]
    BY <1>3
  <2> HIDE DEF m
  <2>5. /\ r \in Process /\ r.server = process[c].server /\ r.alive = process[c].alive
        /\ Len(r.inbox) = 1 /\ r.inbox[1].id = n /\ r.outbox = process[c].outbox
    <3>1. process[c].inbox = << >>
      BY <2>2 DEF Settled
    <3>2. r = [process[c] EXCEPT !.inbox = Append(<< >>, m)]
      BY <3>1
    <3> DEFINE box == Append(<< >>, m)
    <3>3. box \in Seq(Request) /\ Len(box) = 1 /\ box[1].id = n
      BY <2>3, OneRequest
    <3> HIDE DEF box, c, n
    <3>4. [process[c] EXCEPT !.inbox = box] \in Process
      BY <2>2, <3>3 DEF Process
    <3>5. /\ [process[c] EXCEPT !.inbox = box].server = process[c].server
          /\ [process[c] EXCEPT !.inbox = box].alive = process[c].alive
          /\ [process[c] EXCEPT !.inbox = box].outbox = process[c].outbox
          /\ [process[c] EXCEPT !.inbox = box].inbox = box
      BY <2>2 DEF Process
    <3> QED BY <3>2, <3>3, <3>4, <3>5 DEF box
  <2>6. c' = c
    <3>1. op'.server = op.server
      BY <1>3 DEF McpInv, CallInv, Operation
    <3> QED BY <1>3, <3>1 DEF M!Current
  <2> HIDE DEF c, r, n
  <2>7. /\ process' \in [M!Procs -> Process] /\ process'[c] = r
        /\ \A p \in M!Procs : p # c => process'[p] = process[p]
        /\ \A p \in M!Procs : process'[p].server = process[p].server /\ process'[p].alive = process[p].alive
    BY <2>1, <2>2, <2>4, <2>5
  <2>8. Owned(server', process')
    BY <1>3, <2>1, <2>7 DEF Owned
  <2>9. ASSUME NEW p \in M!Procs, p # c PROVE Settled(process'[p], n + 1)
    <3>1. Settled(process[p], n) /\ process[p] \in Process /\ process'[p] = process[p]
      BY <1>1, <2>1, <2>7, <2>9, QuietFacts DEF McpInv, n
    <3> QED BY <1>1, <3>1, SettledMore DEF n
  <2>10. Expecting(r, n + 1)
    <3>1. Settled(process[c], n + 1)
      BY <1>1, <2>2, SettledMore DEF n
    <3>2. n = (n + 1) - 1
      BY <1>1 DEF n
    <3> QED BY <2>5, <3>1, <3>2 DEF Expecting, Settled
  <2>11. Quiet(process', n + 1, c)
    BY <2>7, <2>9, <2>10 DEF Quiet
  <2>12. Asked' = c /\ M!Current' # 0 /\ nextId' = n + 1
    BY <1>1, <1>3, <2>6 DEF Asked, c, n
  <2> QED BY <2>8, <2>11, <2>12 DEF PipesInv
<1> QED BY <1>2, <1>3 DEF M!Send

(* One process is another one now, with the same owner: the rest is as     *)
(* it was.                                                                 *)
LEMMA ProcessPipes ==
  ASSUME McpInv, UNCHANGED M!manager, NEW p \in M!Procs, NEW r \in Process,
         process' = [process EXCEPT ![p] = r], r.server = process[p].server,
         r.alive => process[p].alive,
         Settled(process[p], nextId) => Settled(r, nextId),
         Expecting(process[p], nextId) => Expecting(r, nextId)
  PROVE  PipesInv'
<1>1. UNCHANGED <<server, at, op, nextId>>
  BY DEF M!manager
<1>2. Asked' = Asked /\ M!Current' = M!Current
  BY <1>1 DEF Asked, M!Current
<1>3. process \in [M!Procs -> Process] /\ Owned(server, process) /\ Quiet(process, nextId, Asked)
  BY DEF McpInv, PipesInv, Owned
<1>4. /\ process' \in [M!Procs -> Process] /\ process'[p] = r
      /\ \A q \in M!Procs : q # p => process'[q] = process[q]
      /\ \A q \in M!Procs : process'[q].server = process[q].server
      /\ \A q \in M!Procs : process'[q].alive => process[q].alive
  BY <1>3
<1>5. Owned(server', process')
  <2>1. ASSUME NEW s \in Servers, server[s].proc # 0
        PROVE  process'[server[s].proc].server = s
    <3>1. server[s].proc \in M!Procs
      BY <1>3, <2>1, ServersAssumption DEF Owned, Handle, M!Procs
    <3> QED BY <1>3, <1>4, <2>1, <3>1 DEF Owned
  <2>2. ASSUME NEW q \in M!Procs
        PROVE  /\ process'[q].server \in Servers => server[process'[q].server].proc = q
               /\ process'[q].alive => process'[q].server \in Servers
    <3>1. process'[q].server = process[q].server /\ (process'[q].alive => process[q].alive)
      BY <1>4
    <3> QED BY <1>3, <3>1 DEF Owned
  <2>3. server \in [Servers -> Handle] /\ \A s \in Servers : server[s].initialized => server[s].proc # 0
    BY <1>3 DEF Owned
  <2> QED BY <1>1, <1>4, <2>1, <2>2, <2>3 DEF Owned
<1>6. Quiet(process', nextId, Asked)
  <2> SUFFICES ASSUME NEW q \in M!Procs
               PROVE  IF q = Asked THEN Expecting(process'[q], nextId) ELSE Settled(process'[q], nextId)
    BY DEF Quiet
  <2>1. CASE q = p
    BY <1>3, <1>4, <2>1 DEF Quiet
  <2>2. CASE q # p
    BY <1>3, <1>4, <2>2 DEF Quiet
  <2> QED BY <2>1, <2>2
<1> QED BY <1>1, <1>2, <1>5, <1>6 DEF McpInv, PipesInv

LEMMA AppendLate ==
  ASSUME NEW box \in Seq(Response), NEW m \in Response, NEW n
  PROVE  /\ Append(box, m) \in Seq(Response)
         /\ DOMAIN Append(box, m) = DOMAIN box \cup {Len(box) + 1} /\ Len(box) + 1 \notin DOMAIN box
         /\ Append(box, m)[Len(box) + 1] = m
         /\ \A i \in DOMAIN box : Append(box, m)[i] = box[i]
         /\ AllLate(box, n) /\ Late(m, n) => AllLate(Append(box, m), n)
<1>1. /\ Append(box, m) \in Seq(Response)
      /\ DOMAIN Append(box, m) = DOMAIN box \cup {Len(box) + 1} /\ Len(box) + 1 \notin DOMAIN box
      /\ Append(box, m)[Len(box) + 1] = m
      /\ \A i \in DOMAIN box : Append(box, m)[i] = box[i]
  OBVIOUS
<1>2. ASSUME AllLate(box, n), Late(m, n), NEW i \in DOMAIN Append(box, m)
      PROVE  Late(Append(box, m)[i], n)
  <2>1. CASE i = Len(box) + 1
    BY <1>1, <1>2, <2>1
  <2>2. CASE i # Len(box) + 1
    BY <1>1, <1>2, <2>2 DEF AllLate
  <2> QED BY <2>1, <2>2
<1> QED BY <1>1, <1>2 DEF AllLate

LEMMA DiePipes == ASSUME McpInv, NEW p \in M!Procs, M!Die(p) PROVE PipesInv'
<1> DEFINE r == [process[p] EXCEPT !.alive = FALSE]
<1>1. process' = [process EXCEPT ![p] = r] /\ UNCHANGED M!manager
  BY DEF M!Die
<1>2. process[p] \in Process
  BY DEF McpInv, PipesInv, Owned
<1>3. /\ r \in Process /\ r.server = process[p].server /\ r.alive = FALSE
      /\ r.inbox = process[p].inbox /\ r.outbox = process[p].outbox
  BY <1>2 DEF Process
<1> HIDE DEF r
<1>4. Settled(process[p], nextId) => Settled(r, nextId)
  BY <1>3 DEF Settled
<1>5. Expecting(process[p], nextId) => Expecting(r, nextId)
  BY <1>3 DEF Expecting
<1> QED BY <1>1, <1>3, <1>4, <1>5, ProcessPipes

LEMMA BabblePipes == ASSUME McpInv, NEW p \in M!Procs, M!Babble(p) PROVE PipesInv'
<1>1. nextId \in Nat \ {0}
  BY DEF McpInv, CallInv
<1>2. PICK m : /\ m \in {[id |-> 0, body |-> "junk"]} \cup
                     {[id |-> i, body |-> "result"] : i \in {nextId - 2} \cap (1..nextId)}
               /\ process' = [process EXCEPT ![p].outbox = Append(@, m)]
  BY DEF M!Babble
<1>3. m \in Response /\ Late(m, nextId)
  <2>1. CASE m = [id |-> 0, body |-> "junk"]
    BY <2>1 DEF Response, Late
  <2>2. CASE \E i \in 1..nextId : i = nextId - 2 /\ m = [id |-> i, body |-> "result"]
    BY <1>1, <2>2 DEF Response, Late
  <2> QED BY <1>2, <2>1, <2>2
<1> DEFINE box == process[p].outbox
           more == Append(box, m)
           r == [process[p] EXCEPT !.outbox = more]
           n == nextId
<1>4. process' = [process EXCEPT ![p] = r] /\ UNCHANGED M!manager
  BY <1>2 DEF M!Babble
<1>5. process[p] \in Process /\ box \in Seq(Response)
  BY DEF McpInv, PipesInv, Owned, Process
<1> HIDE DEF box, n
<1>6. /\ more \in Seq(Response) /\ DOMAIN more = DOMAIN box \cup {Len(box) + 1}
      /\ more[Len(box) + 1] = m /\ \A i \in DOMAIN box : more[i] = box[i]
      /\ AllLate(box, n) => AllLate(more, n)
  BY <1>3, <1>5, AppendLate DEF n
<1> HIDE DEF more
<1>7. /\ r \in Process /\ r.server = process[p].server /\ r.alive = process[p].alive
      /\ r.inbox = process[p].inbox /\ r.outbox = more
  BY <1>5, <1>6 DEF Process
<1> HIDE DEF r
<1>8. Settled(process[p], n) => Settled(r, n)
  BY <1>6, <1>7 DEF Settled, box
<1>9. Expecting(process[p], n) => Expecting(r, n)
  <2>1. ASSUME r.inbox = << >>,
               \A i, j \in DOMAIN box : Late(box[i], n) \/ Late(box[j], n) \/ i = j
        PROVE  \A i, j \in DOMAIN more : Late(more[i], n) \/ Late(more[j], n) \/ i = j
    <3>1. Late(m, n)
      BY <1>3 DEF n
    <3> QED BY <1>6, <2>1, <3>1
  <2>2. ASSUME Expecting(process[p], n)
        PROVE  Expecting(r, n)
    <3>1. CASE /\ process[p].inbox = << >>
               /\ \A i, j \in DOMAIN box : Late(box[i], n) \/ Late(box[j], n) \/ i = j
      BY <1>7, <2>1, <3>1 DEF Expecting
    <3>2. CASE Len(process[p].inbox) = 1 /\ process[p].inbox[1].id = n - 1 /\ AllLate(box, n)
      BY <1>6, <1>7, <3>2 DEF Expecting
    <3> QED BY <2>2, <3>1, <3>2 DEF Expecting, box
  <2> QED BY <2>2
<1> QED BY <1>4, <1>7, <1>8, <1>9, ProcessPipes DEF n

LEMMA ReplyPipes == ASSUME McpInv, NEW p \in M!Procs, M!Reply(p) PROVE PipesInv'
<1> DEFINE in == process[p].inbox
           request == Head(in)
<1>1. PICK body \in M!MayAnswer(request.method) :
        process' = [process EXCEPT ![p].inbox = Tail(@),
                       ![p].outbox = Append(@, [id |-> request.id, body |-> body])]
  BY DEF M!Reply
<1> DEFINE m == [id |-> request.id, body |-> body]
           box == process[p].outbox
           more == Append(box, m)
           rest == Tail(in)
           r == [process[p] EXCEPT !.inbox = rest, !.outbox = more]
           n == nextId
<1>2. process' = [process EXCEPT ![p] = r] /\ UNCHANGED M!manager /\ in # << >>
  BY <1>1 DEF M!Reply
<1>3. process[p] \in Process /\ box \in Seq(Response) /\ in \in Seq(Request)
  BY DEF McpInv, PipesInv, Owned, Process
<1> HIDE DEF box, n, in
<1>4. /\ request \in Request /\ rest \in Seq(Request) /\ request = in[1]
      /\ Len(in) = 1 => rest = << >>
  <2>1. request = in[1] /\ 1 \in 1..Len(in) /\ rest \in Seq(Request) /\ Len(rest) = Len(in) - 1
    BY <1>2, <1>3, HeadTailProperties, EmptySeq
  <2>2. request \in Request
    BY <1>3, <2>1, ElementOfSeq
  <2>3. Len(in) = 1 => rest = << >>
    <3>1. Len(in) = 1 => Len(rest) = 0
      BY <2>1
    <3>2. \A s \in Seq(Request) : Len(s) = 0 => s = << >>
      BY EmptySeq
    <3> QED BY <2>1, <3>1, <3>2
  <2> QED BY <2>1, <2>2, <2>3
<1>5. m \in Response /\ m.id = in[1].id
  <2>1. body \in {"result", "error", "empty", "more", "junk"}
    BY <1>1 DEF M!MayAnswer
  <2> QED BY <1>4, <2>1 DEF Request, Response
<1> HIDE DEF m, request
<1>6. /\ more \in Seq(Response) /\ DOMAIN more = DOMAIN box \cup {Len(box) + 1}
      /\ more[Len(box) + 1] = m /\ \A i \in DOMAIN box : more[i] = box[i]
  BY <1>3, <1>5, AppendLate
<1> HIDE DEF more, rest
<1>7. /\ r \in Process /\ r.server = process[p].server /\ r.alive = process[p].alive
      /\ r.inbox = rest /\ r.outbox = more
  BY <1>3, <1>4, <1>6 DEF Process
<1> HIDE DEF r
<1>8. ~Settled(process[p], n)
  BY <1>2 DEF Settled, in
<1>9. Expecting(process[p], n) => Expecting(r, n)
  <2>1. ASSUME Expecting(process[p], n)
        PROVE  /\ r.inbox = << >>
               /\ \A i, j \in DOMAIN more : Late(more[i], n) \/ Late(more[j], n) \/ i = j
    <3>1. Len(in) = 1 /\ AllLate(box, n)
      BY <1>2, <2>1 DEF Expecting, in, box
    <3> QED BY <1>4, <1>6, <1>7, <3>1 DEF AllLate
  <2> QED BY <1>7, <2>1 DEF Expecting
<1> QED BY <1>2, <1>7, <1>8, <1>9, ProcessPipes DEF n

LEMMA NextPipes ==
  ASSUME McpInv, M!Next \/ UNCHANGED mcp
  PROVE  PipesInv'
<1>1. CallInv /\ PipesInv /\ nextId \in Nat
  BY DEF McpInv, CallInv
<1>2. CASE M!Discover \/ (\E s \in Servers : M!CallTool(s) \/ M!Resources(s)) \/ M!NextServer
  <2>1. CASE \E kind, s : M!Begin(kind, s)
    <3>1. /\ at = "idle" /\ at' \in {"next", "check"} /\ UNCHANGED <<server, process, nextId>>
      BY <2>1 DEF M!Begin
    <3> QED BY <1>1, <3>1, KeepPipes DEF M!Keep
  <2>2. CASE M!NextServer
    <3>1. /\ at = "next" /\ at' \in {"idle", "check"} /\ UNCHANGED <<server, process, nextId>>
      BY <2>2 DEF M!NextServer
    <3> QED BY <1>1, <3>1, KeepPipes DEF M!Keep
  <2> QED BY <1>2, <2>1, <2>2 DEF M!Discover, M!CallTool, M!Resources
<1>3. CASE M!Shutdown
  <2> DEFINE h == [proc |-> 0, initialized |-> FALSE]
  <2>1. /\ at' = "idle" /\ nextId' = nextId
        /\ server' = [s \in Servers |-> h] /\ process' = [p \in M!Procs |-> M!Unused]
    BY <1>3 DEF M!Shutdown
  <2>2. h \in Handle /\ h.proc = 0 /\ h.initialized = FALSE
    BY ServersAssumption DEF Handle
  <2> HIDE DEF h
  <2>3. Owned(server', process')
    BY <2>1, <2>2, UnusedFacts, ServersAssumption DEF Owned
  <2>4. \A p \in M!Procs : Settled(process'[p], nextId')
    BY <2>1, UnusedFacts
  <2> QED BY <2>1, <2>3, <2>4, AllSettled
<1>4. CASE M!Check
  <2>1. at = "check" /\ at' = "ready" /\ (M!Reset \/ M!Keep) /\ nextId' = nextId
    BY <1>4 DEF M!Check
  <2>2. op.server \in Servers
    BY <1>1, <2>1 DEF CallInv, Underway
  <2> QED BY <1>1, <2>1, <2>2, ResetPipes, KeepPipes
<1>5. CASE M!Spawn
  BY <1>5, SpawnPipes
<1>6. CASE M!Ready
  <2> DEFINE m == IF server[op.server].initialized THEN M!MethodOf[op.kind] ELSE "initialize"
  <2>1. /\ at = "ready" /\ at' = "send" /\ M!Current # 0 /\ op' = [op EXCEPT !.method = m]
        /\ UNCHANGED <<server, process, nextId>>
    BY <1>6 DEF M!Ready
  <2> HIDE DEF m
  <2>2. op'.server = op.server
    BY <1>1, <2>1 DEF CallInv, Operation
  <2>3. M!Current' = M!Current
    BY <2>1, <2>2 DEF M!Current
  <2> QED BY <1>1, <2>1, <2>3, KeepPipes DEF M!Keep
<1>7. CASE M!Send
  BY <1>7, SendPipes
<1>8. CASE M!Receive \/ M!EndOfFile \/ M!Timeout
  <2>1. op.server \in Servers /\ nextId' = nextId /\ at = "wait"
    BY <1>1, <1>8, WaitLeaves DEF CallInv, Underway
  <2>2. CASE M!Reset /\ Left
    BY <1>1, <2>1, <2>2, ResetPipes DEF Left
  <2>3. CASE /\ Taken /\ (Left \/ Again)
             /\ process[M!Current].outbox # << >>
             /\ Head(process[M!Current].outbox).body # "junk"
             /\ Head(process[M!Current].outbox).id = op.id
    BY <2>1, <2>3, TakenPipes
  <2> QED BY <1>1, <1>8, <2>2, <2>3, WaitLeaves
<1>9. CASE \E p \in M!Procs : M!Reply(p) \/ M!Babble(p) \/ M!Die(p)
  BY <1>9, ReplyPipes, BabblePipes, DiePipes
<1>10. CASE UNCHANGED mcp
  <2>1. UNCHANGED <<server, process, at, op, nextId>>
    BY <1>10 DEF mcp
  <2> QED BY <1>1, <2>1 DEF PipesInv, Asked, M!Current
<1> QED BY <1>2, <1>3, <1>4, <1>5, <1>6, <1>7, <1>8, <1>9, <1>10 DEF M!Next, M!Caller, M!Step

LEMMA InitMcp == ASSUME M!Init PROVE McpInv
<1> DEFINE h == [proc |-> 0, initialized |-> FALSE]
<1>1. /\ server = [s \in Servers |-> h] /\ process = [p \in M!Procs |-> M!Unused]
      /\ indexed = {} /\ at = "idle" /\ op = M!NoOp /\ nextId = 1 /\ sent = 0
  BY DEF M!Init
<1>2. h \in Handle /\ h.proc = 0 /\ h.initialized = FALSE
  BY ServersAssumption DEF Handle
<1> HIDE DEF h
<1>3. Owned(server, process)
  BY <1>1, <1>2, UnusedFacts, ServersAssumption DEF Owned
<1>4. Quiet(process, nextId, Asked)
  <2>1. Asked = 0 /\ \A p \in M!Procs : p # 0
    BY <1>1 DEF Asked, M!Procs
  <2> QED BY <1>1, <2>1, UnusedFacts DEF Quiet
<1>5. CallInv
  <2>1. 1 \in Nat \ {0} /\ 0 \in 0..1 /\ 0 # 1
    OBVIOUS
  <2>2. Underway(at, op, nextId, sent)
    BY <1>1, <2>1 DEF Underway
  <2> QED BY <1>1, <2>1, <2>2, FirstOperations DEF CallInv
<1> QED BY <1>1, <1>3, <1>4, <1>5 DEF McpInv, PipesInv

LEMMA McpResults == ASSUME McpInv PROVE ServersInStep
<1>1. /\ server \in [Servers -> Handle] /\ process \in [M!Procs -> Process]
      /\ Owned(server, process) /\ CallInv
  BY DEF McpInv, PipesInv, Owned
<1>2. M!TypeOK
  <2>1. op.kind \in M!Kinds \cup {"none"} /\ op.todo \subseteq Servers
    BY <1>1 DEF CallInv, Operation
  <2>2. server \in [Servers -> [proc : 0..MaxProcs, initialized : BOOLEAN]]
    BY <1>1 DEF Handle
  <2>3. at \in {"send", "wait"} => M!Current # 0
    BY DEF McpInv, PipesInv
  <2> QED BY <1>1, <2>1, <2>2, <2>3 DEF Owned, CallInv, Underway, M!TypeOK
<1>3. M!InSync
  <2> SUFFICES ASSUME at = "idle", NEW s \in Servers, server[s].proc # 0
               PROVE  LET p == process[server[s].proc] IN
                      /\ p.inbox = << >>
                      /\ \A i \in DOMAIN p.outbox : p.outbox[i].body = "junk" \/ p.outbox[i].id < nextId - 1
    BY DEF M!InSync
  <2>1. server[s].proc \in M!Procs
    BY <1>1, ServersAssumption DEF Handle, M!Procs
  <2>2. Settled(process[server[s].proc], nextId)
    BY <2>1, QuietFacts DEF McpInv
  <2> QED BY <2>2 DEF Settled, AllLate, Late
<1>4. M!NoOrphans
  BY <1>1 DEF Owned, M!NoOrphans
<1>5. M!CallSentOnce
  BY <1>1 DEF CallInv, Underway, M!CallSentOnce
<1> QED BY <1>2, <1>3, <1>4, <1>5 DEF ServersInStep

(* For every number of servers, processes and operations, and whatever the *)
(* servers print, answer late or not at all: between operations no pipe    *)
(* holds an answer that the next request could take for its own, no        *)
(* process runs that the manager has lost, and no tool call is sent twice  *)
(* (mcp_stdio.rs, reset_server, call_tool, request).                       *)
THEOREM ServersSafety == EngineSpec => []ServersInStep
<1>1. EngineInit => McpInv
  BY InitMcp DEF EngineInit
<1>2. McpInv /\ [EngineNext]_all => McpInv'
  <2> SUFFICES ASSUME McpInv, [EngineNext]_all PROVE McpInv'
    OBVIOUS
  <2>1. M!Next \/ UNCHANGED mcp
    BY DEF EngineNext, InTurn, all
  <2> QED BY <2>1, NextCall, NextPipes DEF McpInv
<1>3. McpInv => ServersInStep
  BY McpResults
<1> QED BY <1>1, <1>2, <1>3, PTL DEF EngineSpec
=============================================================================
