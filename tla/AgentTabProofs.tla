--------------------------- MODULE AgentTabProofs ---------------------------
(***************************************************************************)
(* Proofs about AgentTab, for any number of turns, agents and tools and    *)
(* any size of what a compaction keeps: questions and answers pair up, an  *)
(* idle tab has an idle agent with its session on file, and a cancelled    *)
(* turn starts no tool.                                                    *)
(***************************************************************************)
EXTENDS AgentTab, SequenceTheorems, FiniteSetTheorems, TLAPS

Ends == {"done", "error"}

(* Of the current agent a, with the modal m on screen: QuestionsMatchAnswers. *)
Waits(a, m) ==
  \A ask \in Asks :
    Count(a.outbox, {ask}) + (IF m = ask THEN 1 ELSE 0) + Len(a.replies[ask])
      = IF a.pc = ask THEN 1 ELSE 0

(* A prompt is in the channel, being run, or over with its end on the way  *)
(* to the user, and the indicator r is on just then; an agent that never   *)
(* came up has no prompts.                                                 *)
Busy(a, r) ==
  IF a.pc = "gone" THEN a.inbox = <<>>
  ELSE Len(a.inbox) + (IF a.pc \in InTurn THEN 1 ELSE 0) + Count(a.outbox, Ends)
         = IF r THEN 1 ELSE 0

(* Esc is remembered while the flag is up and the turn runs.               *)
Told(a) == a.told => a.cancel /\ a.pc \in InTurn

Saved(a, d) == a.pc \in {"start", "wait"} => a.session.messages = <<>> \/ d = a.session

(* An agent that takes nothing up any more.                                *)
Resting(a) == a.pc \in {"start", "wait", "gone"} /\ a.inbox = <<>>

CurrentInv == Open => Waits(agent[current], modal) /\ Busy(agent[current], running)
FilesInv ==
  Open /\ ~overlapped =>
    /\ Saved(agent[current], disk)
    /\ \A g \in Spawned : g # current => Resting(agent[g])

IInv == TypeOK /\ CurrentInv /\ FilesInv /\ \A g \in Agents : Told(agent[g])

-----------------------------------------------------------------------------
(* Counting the entries of a channel *)

LEMMA FinitePart ==
  ASSUME NEW n \in Nat, NEW A \in SUBSET (1..n)
  PROVE  IsFiniteSet(A) /\ Cardinality(A) \in Nat
<1>1. IsFiniteSet(1..n)
  BY FS_Interval
<1>2. IsFiniteSet(A)
  BY <1>1, FS_Subset
<1> QED BY <1>2, FS_CardinalityType

LEMMA CountNat ==
  ASSUME NEW T, NEW q \in Seq(T), NEW S
  PROVE  Count(q, S) \in Nat
<1> DEFINE A == {i \in DOMAIN q : q[i] \in S}
<1>1. A \in SUBSET (1..Len(q)) /\ Len(q) \in Nat
  BY LenProperties
<1>2. Count(q, S) = Cardinality(A)
  BY DEF Count
<1> HIDE DEF A
<1> QED BY <1>1, <1>2, FinitePart

LEMMA CountEmpty == ASSUME NEW S PROVE Count(<<>>, S) = 0
<1>1. {i \in DOMAIN <<>> : <<>>[i] \in S} = {}
  OBVIOUS
<1> QED BY <1>1, FS_EmptySet DEF Count

LEMMA CountAppend ==
  ASSUME NEW T, NEW q \in Seq(T), NEW e \in T, NEW S
  PROVE  Count(Append(q, e), S) = Count(q, S) + IF e \in S THEN 1 ELSE 0
<1> DEFINE A == {i \in DOMAIN q : q[i] \in S}
           B == {i \in DOMAIN Append(q, e) : Append(q, e)[i] \in S}
           n == Len(q) + 1
<1>1. B = IF e \in S THEN A \cup {n} ELSE A
  BY LenProperties, AppendProperties
<1>2. A \in SUBSET (1..Len(q)) /\ Len(q) \in Nat /\ n \notin A
  BY LenProperties
<1>3. Cardinality(A \cup {n}) = Cardinality(A) + 1 /\ Cardinality(A) \in Nat
  <2> HIDE DEF A, n
  <2> QED BY <1>2, FinitePart, FS_AddElement
<1>5. Count(q, S) = Cardinality(A) /\ Count(Append(q, e), S) = Cardinality(B)
  BY DEF Count
<1> HIDE DEF A, B, n
<1> QED BY <1>1, <1>3, <1>5

LEMMA CountTail ==
  ASSUME NEW T, NEW q \in Seq(T), q # <<>>, NEW S
  PROVE  Count(q, S) = Count(Tail(q), S) + IF Head(q) \in S THEN 1 ELSE 0
<1> DEFINE A == {i \in DOMAIN Tail(q) : Tail(q)[i] \in S}
           B == {i \in DOMAIN q : q[i] \in S}
           f == [i \in A |-> i + 1]
<1>1. /\ Tail(q) \in Seq(T) /\ DOMAIN Tail(q) = 1..(Len(q) - 1) /\ DOMAIN q = 1..Len(q)
      /\ Len(q) \in Nat \ {0} /\ Head(q) = q[1]
      /\ \A i \in 1..(Len(q) - 1) : Tail(q)[i] = q[i + 1]
  BY HeadTailProperties, LenProperties, EmptySeq
<1>2. IsFiniteSet(A) /\ IsFiniteSet(B) /\ Cardinality(A) \in Nat /\ Cardinality(B) \in Nat
  <2>1. A \in SUBSET (1..(Len(q) - 1)) /\ B \in SUBSET (1..Len(q)) /\ Len(q) - 1 \in Nat
    BY <1>1
  <2> HIDE DEF A, B
  <2> QED BY <1>1, <2>1, FinitePart
<1>3. f \in Bijection(A, B \ {1})
  <2>1. f \in [A -> B \ {1}]
    BY <1>1
  <2>2. \A a, b \in A : f[a] = f[b] => a = b
    BY <1>1
  <2>3. \A t \in B \ {1} : \E a \in A : f[a] = t
    <3> SUFFICES ASSUME NEW t \in B \ {1} PROVE \E a \in A : f[a] = t
      OBVIOUS
    <3>1. t - 1 \in A /\ f[t - 1] = t
      BY <1>1
    <3> QED BY <3>1
  <2> QED BY <2>1, <2>2, <2>3 DEF Bijection, Injection, Surjection, IsInjective
<1>4. Cardinality(B \ {1}) = Cardinality(A)
  <2>1. ExistsBijection(A, B \ {1})
    BY <1>3 DEF ExistsBijection
  <2> HIDE DEF A, B
  <2> QED BY <1>2, <2>1, FS_Bijection
<1>5. Cardinality(B \ {1}) = IF 1 \in B THEN Cardinality(B) - 1 ELSE Cardinality(B)
  BY <1>2, FS_RemoveElement
<1>6. 1 \in B <=> Head(q) \in S
  BY <1>1
<1>7. Count(q, S) = Cardinality(B) /\ Count(Tail(q), S) = Cardinality(A)
  BY DEF Count
<1> HIDE DEF A, B
<1> QED BY <1>2, <1>4, <1>5, <1>6, <1>7

-----------------------------------------------------------------------------
(* Sessions *)

LEMMA PushedType ==
  ASSUME NEW a \in Agent, NEW by \in {"user", "agent"}
  PROVE  Pushed(a, by) \in Seq(Message)
BY AppendProperties DEF Pushed, Agent, Session, Message

LEMMA CompactedType ==
  ASSUME NEW s \in Session
  PROVE  Compacted(s) \in Session
<1> DEFINE cut == Len(s.messages) - Preserve
<1>1. /\ s.messages \in Seq(Message) /\ s.summary \in SUBSET Turns /\ cut \in Int
      /\ Len(s.messages) \in Nat /\ Preserve \in Nat
      /\ \A i \in 1..Len(s.messages) : s.messages[i] \in Message
  BY TabAssumption, LenProperties, ElementOfSeq DEF Session
<1>2. CASE cut <= 0
  BY <1>2 DEF Compacted
<1>3. CASE cut > 0
  <2>1. SubSeq(s.messages, cut + 1, Len(s.messages)) \in Seq(Message)
    BY <1>1, <1>3, SubSeqProperties
  <2>2. {s.messages[i].turn : i \in 1..cut} \subseteq Turns
    BY <1>1, <1>3 DEF Message
  <2>3. Compacted(s) = [summary  |-> s.summary \cup {s.messages[i].turn : i \in 1..cut},
                        messages |-> SubSeq(s.messages, cut + 1, Len(s.messages))]
    BY <1>1, <1>3 DEF Compacted
  <2> QED BY <1>1, <2>1, <2>2, <2>3 DEF Session
<1> QED BY <1>1, <1>2, <1>3

(* A set of numbers has a least one; the sets below are of counterexamples. *)
LEMMA LeastNat ==
  ASSUME NEW T \in SUBSET Nat, T # {}
  PROVE  \E x \in T : \A y \in T : x <= y
<1> DEFINE R == {ss \in Nat \X Nat : ss[1] < ss[2]}
<1>1. IsWellFoundedOn(R, Nat)
  BY NatLessThanWellFounded DEF OpToRel
<1> HIDE DEF R
<1>2. PICK x \in T : \A y \in T : ~(<<y, x>> \in R)
  BY <1>1, WFMin
<1>3. ASSUME NEW y \in T, ~(x <= y) PROVE FALSE
  <2>1. <<y, x>> \in Nat \X Nat /\ y < x
    BY <1>3
  <2>2. <<y, x>> \in R
    BY <2>1 DEF R
  <2> QED BY <1>2, <2>2
<1> QED BY <1>3

(* Sets of numbers with the same members are equal.                        *)
LEMMA SameNumbers ==
  ASSUME NEW U \in SUBSET Nat, NEW V \in SUBSET Nat, \A j \in Nat : j \in U <=> j \in V
  PROVE  U = V
OBVIOUS

(* In a set of numbers up to n there is one with k smaller ones, for each  *)
(* k that leaves one over.                                                 *)
LEMMA NumberOfRank ==
  ASSUME NEW n \in Nat, NEW U \in SUBSET (1..n), NEW k \in Nat, k < Cardinality(U)
  PROVE  \E i \in U : Cardinality({j \in U : j < i}) = k
<1> DEFINE upto == [i \in Nat |-> {j \in U : j <= i}]
           below == [i \in Nat |-> {j \in U : j < i}]
           T == {i \in Nat : Cardinality(upto[i]) > k}
<1>1. /\ \A i \in Nat : upto[i] \in SUBSET U /\ \A j \in U : j \in upto[i] <=> j <= i
      /\ \A i \in Nat : below[i] \in SUBSET U /\ \A j \in U : j \in below[i] <=> j < i
      /\ \A j \in U : j \in Nat /\ j # 0 /\ j <= n
  OBVIOUS
<1>2. T \in SUBSET Nat /\ \A i \in Nat : i \in T <=> Cardinality(upto[i]) > k
  OBVIOUS
<1>3. \A i \in U : i \in Nat /\ below[i] = {j \in U : j < i}
  OBVIOUS
<1> HIDE DEF upto, below, T
<1>4. \A i \in Nat : IsFiniteSet(upto[i]) /\ Cardinality(upto[i]) \in Nat
  <2> TAKE i \in Nat
  <2>1. upto[i] \in SUBSET (1..n)
    BY <1>1
  <2> QED BY <2>1, FinitePart
<1>5. n \in T
  <2>1. upto[n] = U
    BY <1>1
  <2> QED BY <1>2, <2>1
<1>6. PICK i \in T : \A y \in T : i <= y
  BY <1>2, <1>5, LeastNat
<1>7. i # 0
  <2>1. upto[0] = {}
    <3>1. \A j \in U : j \notin upto[0]
      BY <1>1
    <3> QED BY <1>1, <3>1
  <2>2. Cardinality(upto[0]) = 0
    BY <2>1, FS_EmptySet
  <2> QED BY <1>2, <1>6, <2>2
<1>8. i \in Nat /\ i - 1 \in Nat /\ Cardinality(upto[i]) > k /\ Cardinality(upto[i - 1]) <= k
  BY <1>2, <1>4, <1>6, <1>7
<1>9. i \in U /\ upto[i] = upto[i - 1] \cup {i}
  <2>1. upto[i] \in SUBSET Nat /\ upto[i - 1] \in SUBSET Nat
    BY <1>1, <1>8
  <2>2. \A j \in Nat : j \in upto[i] <=> j \in upto[i - 1] \/ (j = i /\ i \in U)
    BY <1>1, <1>8
  <2>3. CASE i \in U
    <3>1. upto[i - 1] \cup {i} \in SUBSET Nat
      BY <1>8, <2>1
    <3>2. \A j \in Nat : j \in upto[i] <=> j \in upto[i - 1] \cup {i}
      BY <2>2, <2>3
    <3> QED BY <2>1, <2>3, <3>1, <3>2, SameNumbers
  <2>4. CASE i \notin U
    <3>1. \A j \in Nat : j \in upto[i] <=> j \in upto[i - 1]
      BY <2>2, <2>4
    <3>2. upto[i] = upto[i - 1]
      BY <2>1, <3>1, SameNumbers
    <3> QED BY <1>4, <1>8, <3>2
  <2> QED BY <2>3, <2>4
<1>10. Cardinality(upto[i]) = Cardinality(upto[i - 1]) + 1
  <2>1. i \notin upto[i - 1]
    BY <1>1, <1>8, <1>9
  <2> QED BY <1>4, <1>8, <1>9, <2>1, FS_AddElement
<1>11. below[i] = upto[i - 1]
  <2>1. upto[i - 1] \in SUBSET Nat /\ below[i] \in SUBSET Nat
    BY <1>1, <1>8
  <2>2. \A j \in Nat : j \in below[i] <=> j \in upto[i - 1]
    BY <1>1, <1>8
  <2> QED BY <2>1, <2>2, SameNumbers
<1>12. Cardinality(below[i]) = k
  BY <1>4, <1>8, <1>10, <1>11
<1> QED BY <1>3, <1>9, <1>12

LEMMA RewoundType ==
  ASSUME NEW s \in Session, NEW n \in 1..2
  PROVE  Rewound(s, n) \in Session
<1> DEFINE U == UserPositions(s)
           kept == Cardinality(U) - n
           at == CHOOSE i \in U : Cardinality({j \in U : j < i}) = kept
<1>1. s.messages \in Seq(Message) /\ s.summary \in SUBSET Turns /\ U \in SUBSET (1..Len(s.messages))
  BY LenProperties DEF Session, UserPositions
<1>2. NewSession \in Session
  BY EmptySeq DEF NewSession, Session
<1>3. CASE kept <= 0
  BY <1>2, <1>3 DEF Rewound
<1>4. CASE kept > 0
  <2>1. Cardinality(U) \in Nat /\ Len(s.messages) \in Nat
    BY <1>1, FinitePart, LenProperties
  <2>2. kept \in Nat /\ kept < Cardinality(U)
    BY <1>4, <2>1
  <2>3. at \in U
    <3> HIDE DEF U, kept
    <3>1. \E i \in U : Cardinality({j \in U : j < i}) = kept
      BY <1>1, <2>1, <2>2, NumberOfRank
    <3> QED BY <3>1
  <2>4. SubSeq(s.messages, 1, at - 1) \in Seq(Message)
    <3>1. \A i \in 1..(at - 1) : s.messages[i] \in Message
      BY <1>1, <2>1, <2>3, ElementOfSeq
    <3>2. at - 1 \in Int
      BY <1>1, <2>3
    <3> HIDE DEF at
    <3> QED BY <3>1, <3>2, SubSeqProperties
  <2>5. Rewound(s, n) = [s EXCEPT !.messages = SubSeq(@, 1, at - 1)]
    BY <1>4, <2>1 DEF Rewound
  <2> HIDE DEF at
  <2> QED BY <2>4, <2>5 DEF Session
<1>5. kept \in Int
  <2>1. Cardinality(U) \in Nat
    <3> HIDE DEF U
    <3> QED BY <1>1, FinitePart, LenProperties
  <2> QED BY <2>1
<1> QED BY <1>3, <1>4, <1>5

-----------------------------------------------------------------------------
(* A step of a thread *)

LEMMA ThreadStep ==
  ASSUME IInv, NEW g \in Spawned, NEW b \in Agent,
         Become(g, b), UNCHANGED <<ui, history>>, disk' \in Session \cup {NoFile},
         Told(b),
         g = current => Waits(b, modal) /\ Busy(b, running) /\ (~overlapped => Saved(b, disk')),
         g # current /\ Resting(agent[g]) => Resting(b) /\ disk' = disk
  PROVE  IInv'
<1> USE DEF IInv, Become, ui, history
<1>1. /\ TypeOK' /\ spawned \in Agents /\ g \in Agents /\ current \in Int
      /\ agent \in [Agents -> Agent]
  BY TabAssumption DEF TypeOK, Agents, Spawned
<1>2. /\ agent'[g] = b
      /\ \A h \in Agents : h # g => agent'[h] = agent[h]
      /\ Open => current \in Agents /\ current \in Spawned
  BY <1>1, TabAssumption DEF TypeOK, Agents, Spawned, Open
<1>3. CurrentInv'
  BY <1>1, <1>2 DEF CurrentInv, Open, Waits, Busy
<1>4. FilesInv'
  <2>1. Spawned' = Spawned
    BY DEF Spawned
  <2>2. Spawned \subseteq Agents
    BY <1>1, TabAssumption DEF Spawned, Agents
  <2> QED BY <1>1, <1>2, <2>1, <2>2 DEF FilesInv, Open, Saved, Resting
<1>5. \A h \in Agents : Told(agent[h])'
  BY <1>1, <1>2 DEF Told
<1> QED BY <1>1, <1>3, <1>4, <1>5

(* What is known of the thread that takes a step.                          *)
Known(g) ==
  /\ g \in Agents /\ agent[g] \in Agent /\ Told(agent[g])
  /\ g = current => Waits(agent[g], modal) /\ Busy(agent[g], running)
                    /\ (~overlapped => Saved(agent[g], disk))
  /\ modal \in Asks \cup {"none"} /\ running \in BOOLEAN
  /\ disk \in Session \cup {NoFile}

LEMMA KnownOf == ASSUME IInv, NEW g \in Spawned PROVE Known(g)
<1>1. spawned \in Agents /\ g \in Agents /\ agent \in [Agents -> Agent]
  BY TabAssumption DEF IInv, TypeOK, Agents, Spawned
<1>2. g = current => Open
  BY <1>1, TabAssumption DEF Open, Spawned
<1> QED BY <1>1, <1>2 DEF IInv, TypeOK, CurrentInv, FilesInv, Known

(* The record of an agent whose fields are these.                          *)
LEMMA Fields ==
  ASSUME NEW a \in Agent
  PROVE  /\ a.pc \in Pc /\ a.cancel \in BOOLEAN /\ a.session \in Session
         /\ a.persists \in BOOLEAN /\ a.turn \in Turns /\ a.tools \in Nat
         /\ a.inbox \in Seq(Turns) /\ a.outbox \in Seq(Asks \cup Ends)
         /\ a.replies \in [Asks -> Seq(BOOLEAN)] /\ a.told \in BOOLEAN
         /\ \A ask \in Asks : a.replies[ask] \in Seq(BOOLEAN) /\ Len(a.replies[ask]) \in Nat
         /\ Len(a.inbox) \in Nat
         /\ \A S : Count(a.outbox, S) \in Nat
<1>1. a.outbox \in Seq(Asks \cup Ends) /\ a.inbox \in Seq(Turns)
      /\ a.replies \in [Asks -> Seq(BOOLEAN)]
  BY DEF Agent, Ends, Asks
<1>2. \A S : Count(a.outbox, S) \in Nat
  BY <1>1, CountNat
<1>3. Len(a.inbox) \in Nat /\ \A ask \in Asks : Len(a.replies[ask]) \in Nat
  BY <1>1, LenProperties
<1> QED BY <1>1, <1>2, <1>3 DEF Agent

(* Outside a turn the place alone changes.                                 *)
LEMMA IdleStep ==
  ASSUME IInv, NEW g \in Spawned, NEW pc \in {"wait", "gone"},
         Become(g, [agent[g] EXCEPT !.pc = pc]), UNCHANGED <<ui, disk, history>>,
         agent[g].pc \in {"start", "wait"},
         pc = "gone" => g # current /\ agent[g].inbox = <<>>
  PROVE  IInv'
<1> DEFINE a == agent[g]
           b == [a EXCEPT !.pc = pc]
<1>1. Known(g)
  BY KnownOf
<1>2. /\ b \in Agent /\ b.pc = pc /\ b.session = a.session /\ b.inbox = a.inbox
      /\ b.outbox = a.outbox /\ b.replies = a.replies /\ b.told = a.told /\ b.cancel = a.cancel
  BY <1>1 DEF Known, Agent, Pc
<1>3. g = current => Waits(b, modal) /\ Busy(b, running) /\ (~overlapped => Saved(b, disk'))
  BY <1>1, <1>2 DEF Known, Waits, Busy, Saved, Asks, InTurn
<1>4. Told(b) /\ (Resting(a) => Resting(b))
  BY <1>1, <1>2 DEF Known, Told, Resting, InTurn
<1>5. Become(g, b) /\ UNCHANGED <<ui, history>> /\ disk' = disk /\ disk \in Session \cup {NoFile}
  BY <1>1 DEF Known
<1> HIDE DEF b
<1> QED BY <1>2, <1>3, <1>4, <1>5, ThreadStep

LEMMA StartIInv == ASSUME IInv, NEW g \in Spawned, Start(g) PROVE IInv'
BY IdleStep DEF Start

LEMMA ExitIInv == ASSUME IInv, NEW g \in Spawned, Exit(g) PROVE IInv'
BY IdleStep DEF Exit, Connected

(* Within a turn: nothing is announced, and questions keep pairing up.     *)
LEMMA TurnGoesOn ==
  ASSUME IInv, NEW g \in Spawned, NEW b \in Agent,
         Become(g, b), UNCHANGED <<ui, disk, history>>,
         agent[g].pc \in InTurn, b.pc \in InTurn,
         b.inbox = agent[g].inbox, b.told = agent[g].told, b.cancel = agent[g].cancel,
         g = current => /\ Count(b.outbox, Ends) = Count(agent[g].outbox, Ends)
                        /\ Waits(b, modal)
  PROVE  IInv'
<1>1. Known(g)
  BY KnownOf
<1>2. g = current => Busy(b, running) /\ (~overlapped => Saved(b, disk'))
  BY <1>1 DEF Known, Busy, Saved, InTurn
<1>3. Told(b) /\ ~Resting(agent[g])
  BY <1>1 DEF Known, Told, Resting, InTurn
<1> QED BY <1>1, <1>2, <1>3, ThreadStep DEF Known

(* A call has its result, in what has become of the agent by then.         *)
LEMMA ContinueIInv ==
  ASSUME IInv, NEW g \in Spawned, NEW a \in Agent,
         Continue(g, a), UNCHANGED <<ui, disk, history>>,
         agent[g].pc \in InTurn,
         a.inbox = agent[g].inbox, a.told = agent[g].told, a.cancel = agent[g].cancel,
         a.outbox = agent[g].outbox,
         g = current =>
           \A ask \in Asks : Count(a.outbox, {ask}) + (IF modal = ask THEN 1 ELSE 0)
                               + Len(a.replies[ask]) = 0
  PROVE  IInv'
<1> DEFINE n == a.tools + 1
           b1 == [a EXCEPT !.pc = "request"]
           b2 == [a EXCEPT !.pc = "dispatch", !.tools = n]
<1>0. /\ b1 \in Agent /\ b1.inbox = a.inbox /\ b1.outbox = a.outbox /\ b1.replies = a.replies
      /\ b1.told = a.told /\ b1.cancel = a.cancel /\ b1.pc = "request"
  BY DEF Agent, Pc, InTurn
<1>1. /\ b2 \in Agent /\ b2.inbox = a.inbox /\ b2.outbox = a.outbox /\ b2.replies = a.replies
      /\ b2.told = a.told /\ b2.cancel = a.cancel /\ b2.pc = "dispatch"
  <2>1. n \in Nat
    BY Fields
  <2> HIDE DEF n
  <2> QED BY <2>1 DEF Agent, Pc, InTurn
<1>2. PICK b \in {b1, b2} : Become(g, b)
  BY DEF Continue
<1> HIDE DEF b1, b2
<1>3. /\ b \in Agent /\ b.inbox = a.inbox /\ b.outbox = a.outbox /\ b.replies = a.replies
      /\ b.told = a.told /\ b.cancel = a.cancel /\ b.pc \in InTurn /\ b.pc \notin Asks
  BY <1>0, <1>1, <1>2 DEF InTurn, Asks
<1>4. g = current => Waits(b, modal)
  BY <1>3 DEF Waits
<1> QED BY <1>2, <1>3, <1>4, TurnGoesOn

(* The place alone changes.                                                *)
LEMMA MoveInTurn ==
  ASSUME IInv, NEW g \in Spawned, NEW pc \in InTurn,
         Become(g, [agent[g] EXCEPT !.pc = pc]), UNCHANGED <<ui, disk, history>>,
         agent[g].pc \in InTurn, pc \notin Asks, agent[g].pc \notin Asks
  PROVE  IInv'
<1> DEFINE b == [agent[g] EXCEPT !.pc = pc]
<1>1. Known(g)
  BY KnownOf
<1>2. /\ b \in Agent /\ b.pc = pc /\ b.inbox = agent[g].inbox /\ b.outbox = agent[g].outbox
      /\ b.replies = agent[g].replies /\ b.told = agent[g].told /\ b.cancel = agent[g].cancel
  BY <1>1 DEF Known, Agent, Pc
<1>3. g = current => Waits(b, modal)
  BY <1>1, <1>2 DEF Known, Waits
<1> HIDE DEF b
<1> QED BY <1>2, <1>3, TurnGoesOn DEF b

LEMMA BeginStreamIInv == ASSUME IInv, NEW g \in Spawned, BeginStream(g) PROVE IInv'
<1>1. "stream" \in InTurn /\ "stream" \notin Asks /\ "request" \in InTurn /\ "request" \notin Asks
  BY DEF InTurn, Asks
<1> QED BY <1>1, MoveInTurn DEF BeginStream

(* An agent asks: its question is on the way.                              *)
LEMMA AskIInv ==
  ASSUME IInv, NEW g \in Spawned, NEW ask \in Asks,
         Become(g, [agent[g] EXCEPT !.pc = ask, !.outbox = Sent(g, ask)]),
         UNCHANGED <<ui, disk, history>>,
         agent[g].pc \in InTurn, agent[g].pc \notin Asks
  PROVE  IInv'
<1> DEFINE a == agent[g]
           b == [a EXCEPT !.pc = ask, !.outbox = Sent(g, ask)]
<1>1. Known(g) /\ a \in Agent /\ a.outbox \in Seq(Asks \cup Ends)
  BY KnownOf, Fields DEF Known
<1>2. Append(a.outbox, ask) \in Seq(Asks \cup Ends)
  BY <1>1, AppendProperties
<1>3. Sent(g, ask) \in Seq(Asks \cup Ends)
  BY <1>1, <1>2 DEF Sent
<1>4. /\ b \in Agent /\ b.pc = ask /\ b.inbox = a.inbox /\ b.outbox = Sent(g, ask)
      /\ b.replies = a.replies /\ b.told = a.told /\ b.cancel = a.cancel
  BY <1>1, <1>3 DEF Agent, Pc, InTurn, Asks, Ends
<1> HIDE DEF b
<1>5. ASSUME g = current
      PROVE  Count(b.outbox, Ends) = Count(a.outbox, Ends) /\ Waits(b, modal)
  <2>1. \A S : Count(b.outbox, S) = Count(a.outbox, S) + IF ask \in S THEN 1 ELSE 0
    BY <1>1, <1>4, <1>5, CountAppend DEF Sent, Connected
  <2>2. ask \notin Ends /\ \A other \in Asks : ask \in {other} <=> ask = other
    BY DEF Asks, Ends
  <2>3. \A S : Count(a.outbox, S) \in Nat
    BY <1>1, Fields
  <2>4. \A other \in Asks : Len(a.replies[other]) \in Nat
    BY <1>1, Fields
  <2>5. Waits(a, modal)
    BY <1>1, <1>5 DEF Known
  <2>6. ASSUME NEW other \in Asks
        PROVE  Count(b.outbox, {other}) + (IF modal = other THEN 1 ELSE 0) + Len(b.replies[other])
                 = IF b.pc = other THEN 1 ELSE 0
    <3>1. Count(b.outbox, {other}) = Count(a.outbox, {other}) + IF ask = other THEN 1 ELSE 0
      BY <2>1, <2>2
    <3>2. Count(a.outbox, {other}) \in Nat /\ Len(a.replies[other]) \in Nat
      BY <2>3, <2>4
    <3>3. Count(a.outbox, {other}) + (IF modal = other THEN 1 ELSE 0) + Len(a.replies[other]) = 0
      BY <2>5 DEF Waits
    <3>4. Count(a.outbox, {other}) = 0 /\ Len(a.replies[other]) = 0 /\ modal # other
      BY <3>2, <3>3
    <3>5. b.pc = ask /\ b.replies = a.replies
      BY <1>4
    <3>6. Count(b.outbox, {other}) = IF ask = other THEN 1 ELSE 0
      BY <3>1, <3>4
    <3> QED BY <3>4, <3>5, <3>6
  <2>7. Count(b.outbox, Ends) = Count(a.outbox, Ends)
    BY <2>1, <2>2, <2>3
  <2> QED BY <2>6, <2>7 DEF Waits
<1>6. ask \in InTurn
  BY DEF Asks, InTurn
<1> QED BY <1>4, <1>5, <1>6, TurnGoesOn DEF b

(* An agent that waits for no answer has none on the way.                  *)
LEMMA NothingAsked ==
  ASSUME IInv, NEW g \in Spawned, g = current, agent[g].pc \notin Asks
  PROVE  \A ask \in Asks :
           /\ Count(agent[g].outbox, {ask}) + (IF modal = ask THEN 1 ELSE 0)
                + Len(agent[g].replies[ask]) = 0
           /\ Count(agent[g].outbox, {ask}) = 0 /\ Len(agent[g].replies[ask]) = 0
           /\ modal # ask
<1>1. Waits(agent[g], modal) /\ agent[g] \in Agent
  BY KnownOf DEF Known
<1> TAKE ask \in Asks
<1>2. Count(agent[g].outbox, {ask}) \in Nat /\ Len(agent[g].replies[ask]) \in Nat
  BY <1>1, Fields
<1>3. Count(agent[g].outbox, {ask}) + (IF modal = ask THEN 1 ELSE 0)
        + Len(agent[g].replies[ask]) = 0
  BY <1>1 DEF Waits
<1> QED BY <1>2, <1>3

LEMMA CallToolsIInv == ASSUME IInv, NEW g \in Spawned, CallTools(g) PROVE IInv'
<1> DEFINE n == agent[g].tools + 1
           b == [agent[g] EXCEPT !.pc = "dispatch", !.tools = n]
<1>1. Known(g) /\ n \in Nat
  BY KnownOf, Fields DEF Known
<1> HIDE DEF n
<1>2. /\ b \in Agent /\ b.pc = "dispatch" /\ b.inbox = agent[g].inbox
      /\ b.outbox = agent[g].outbox /\ b.replies = agent[g].replies
      /\ b.told = agent[g].told /\ b.cancel = agent[g].cancel
  BY <1>1 DEF Known, Agent, Pc, InTurn
<1>3. Become(g, b) /\ UNCHANGED <<ui, disk, history>> /\ agent[g].pc = "stream"
  BY DEF CallTools, n
<1> HIDE DEF b
<1>4. g = current => Waits(b, modal)
  BY <1>1, <1>2, <1>3 DEF Known, Waits, Asks
<1>5. agent[g].pc \in InTurn /\ b.pc \in InTurn
  BY <1>2, <1>3 DEF InTurn
<1> QED BY <1>2, <1>3, <1>4, <1>5, TurnGoesOn

LEMMA DispatchIInv == ASSUME IInv, NEW g \in Spawned, Dispatch(g) PROVE IInv'
<1>1. /\ agent[g].pc = "dispatch" /\ agent[g].pc \in InTurn /\ agent[g].pc \notin Asks
      /\ "execute" \in InTurn /\ "execute" \notin Asks /\ "permission" \in Asks
      /\ UNCHANGED <<ui, disk, history>> /\ agent[g] \in Agent
  BY KnownOf DEF Dispatch, InTurn, Asks, Known
<1>2. CASE Become(g, [agent[g] EXCEPT !.pc = "execute"])
  BY <1>1, <1>2, MoveInTurn
<1>3. CASE Become(g, [agent[g] EXCEPT !.pc = "permission", !.outbox = Sent(g, "permission")])
  BY <1>1, <1>3, AskIInv
<1>4. CASE Continue(g, agent[g])
  BY <1>1, <1>4, NothingAsked, ContinueIInv
<1> QED BY <1>2, <1>3, <1>4 DEF Dispatch

LEMMA ExecuteIInv == ASSUME IInv, NEW g \in Spawned, Execute(g) PROVE IInv'
<1>1. /\ agent[g].pc = "execute" /\ agent[g].pc \in InTurn /\ agent[g].pc \notin Asks
      /\ "work" \in InTurn /\ "work" \notin Asks /\ "question" \in Asks
      /\ UNCHANGED <<ui, disk, history>> /\ agent[g] \in Agent
  BY KnownOf DEF Execute, InTurn, Asks, Known
<1>2. CASE Become(g, [agent[g] EXCEPT !.pc = "work"])
  BY <1>1, <1>2, MoveInTurn
<1>3. CASE Become(g, [agent[g] EXCEPT !.pc = "question", !.outbox = Sent(g, "question")])
  BY <1>1, <1>3, AskIInv
<1>4. CASE Continue(g, agent[g])
  BY <1>1, <1>4, NothingAsked, ContinueIInv
<1> QED BY <1>2, <1>3, <1>4 DEF Execute

LEMMA FinishWorkIInv == ASSUME IInv, NEW g \in Spawned, FinishWork(g) PROVE IInv'
<1>1. agent[g].pc \in InTurn /\ agent[g].pc \notin Asks /\ agent[g] \in Agent
  BY KnownOf DEF FinishWork, InTurn, Asks, Known
<1> QED BY <1>1, NothingAsked, ContinueIInv DEF FinishWork

(* A reply is taken: none is left, and no question is under way.           *)
LEMMA TakenReply ==
  ASSUME IInv, NEW g \in Spawned, NEW ask \in Asks, agent[g].pc = ask,
         NEW r \in Received(g, ask)
  PROVE  /\ r.agent \in Agent /\ r.agent.outbox = agent[g].outbox
         /\ r.agent.inbox = agent[g].inbox /\ r.agent.told = agent[g].told
         /\ r.agent.cancel = agent[g].cancel /\ r.yes \in BOOLEAN
         /\ g = current => \A other \in Asks :
              Count(r.agent.outbox, {other}) + (IF modal = other THEN 1 ELSE 0)
                + Len(r.agent.replies[other]) = 0
<1> DEFINE a == agent[g]
<1>1. Known(g) /\ a \in Agent /\ a.replies \in [Asks -> Seq(BOOLEAN)]
  BY KnownOf, Fields DEF Known
<1>2. CASE a.replies[ask] = <<>>
  <2>1. g # current /\ r = [agent |-> a, yes |-> FALSE]
    BY <1>2 DEF Received, Connected
  <2> QED BY <1>1, <2>1
<1>3. CASE a.replies[ask] # <<>>
  <2> DEFINE rest == Tail(a.replies[ask])
             replies == [a.replies EXCEPT ![ask] = rest]
             b == [a EXCEPT !.replies = replies]
  <2>1. a.replies[ask] \in Seq(BOOLEAN)
    BY <1>1
  <2>2. /\ rest \in Seq(BOOLEAN) /\ Len(rest) = Len(a.replies[ask]) - 1
        /\ Head(a.replies[ask]) \in BOOLEAN /\ Len(a.replies[ask]) \in Nat
    BY <1>3, <2>1, HeadTailProperties, LenProperties
  <2> HIDE DEF rest
  <2>3. /\ replies \in [Asks -> Seq(BOOLEAN)] /\ replies[ask] = rest
        /\ \A other \in Asks : other # ask => replies[other] = a.replies[other]
    BY <1>1, <2>2
  <2> HIDE DEF replies
  <2>4. /\ b \in Agent /\ b.replies = replies /\ b.outbox = a.outbox /\ b.inbox = a.inbox
        /\ b.told = a.told /\ b.cancel = a.cancel
    BY <1>1, <2>3 DEF Agent
  <2>5. r.agent = b /\ r.yes = Head(a.replies[ask])
    BY <1>1, <1>3 DEF Received, replies, rest
  <2> HIDE DEF b
  <2>6. ASSUME g = current, NEW other \in Asks
        PROVE  Count(b.outbox, {other}) + (IF modal = other THEN 1 ELSE 0)
                 + Len(b.replies[other]) = 0
    <3>0. b.outbox = a.outbox /\ b.replies = replies
      BY <2>4
    <3>1. Count(a.outbox, {other}) \in Nat /\ Len(a.replies[other]) \in Nat
      BY <1>1, Fields
    <3>2. Count(a.outbox, {other}) + (IF modal = other THEN 1 ELSE 0) + Len(a.replies[other])
            = IF ask = other THEN 1 ELSE 0
      BY <1>1, <2>6 DEF Known, Waits
    <3>3. Len(replies[other]) = Len(a.replies[other]) - IF ask = other THEN 1 ELSE 0
      BY <2>2, <2>3, <3>1
    <3>4. Len(replies[other]) \in Nat
      BY <2>2, <2>3, <3>1, LenProperties
    <3>5. CASE ask = other
      BY <3>0, <3>1, <3>2, <3>3, <3>4, <3>5
    <3>6. CASE ask # other
      BY <3>0, <3>1, <3>2, <3>3, <3>6
    <3> QED BY <3>5, <3>6
  <2> QED BY <2>2, <2>4, <2>5, <2>6
<1> QED BY <1>2, <1>3

LEMMA TakePermissionIInv == ASSUME IInv, NEW g \in Spawned, TakePermission(g) PROVE IInv'
<1>1. agent[g].pc = "permission" /\ "permission" \in Asks /\ "permission" \in InTurn
      /\ UNCHANGED <<ui, disk, history>>
  BY DEF TakePermission, Asks, InTurn
<1>2. PICK r \in Received(g, "permission") :
         \/ Become(g, [r.agent EXCEPT !.pc = "execute"])
         \/ Continue(g, r.agent)
  BY Zenon DEF TakePermission
<1>3. /\ r.agent \in Agent /\ r.agent.outbox = agent[g].outbox
      /\ r.agent.inbox = agent[g].inbox /\ r.agent.told = agent[g].told
      /\ r.agent.cancel = agent[g].cancel
      /\ g = current => \A other \in Asks :
            Count(r.agent.outbox, {other}) + (IF modal = other THEN 1 ELSE 0)
              + Len(r.agent.replies[other]) = 0
  BY <1>1, TakenReply
<1>5. CASE Continue(g, r.agent)
  BY <1>1, <1>3, <1>5, ContinueIInv
<1>4. CASE Become(g, [r.agent EXCEPT !.pc = "execute"])
  <2> DEFINE b == [r.agent EXCEPT !.pc = "execute"]
  <2>1. /\ r.agent \in Agent /\ r.agent.outbox = agent[g].outbox
        /\ r.agent.inbox = agent[g].inbox /\ r.agent.told = agent[g].told
        /\ r.agent.cancel = agent[g].cancel
        /\ g = current => \A other \in Asks :
              Count(r.agent.outbox, {other}) + (IF modal = other THEN 1 ELSE 0)
                + Len(r.agent.replies[other]) = 0
    BY <1>3
  <2>2. /\ b \in Agent /\ b.pc = "execute" /\ b.inbox = agent[g].inbox
        /\ b.outbox = agent[g].outbox /\ b.replies = r.agent.replies
        /\ b.told = agent[g].told /\ b.cancel = agent[g].cancel
    BY <2>1 DEF Agent, Pc, InTurn
  <2> HIDE DEF b
  <2>3. g = current => Waits(b, modal)
    BY <2>1, <2>2 DEF Waits, Asks
  <2>4. "execute" \in InTurn
    BY DEF InTurn
  <2> QED BY <1>1, <1>4, <2>2, <2>3, <2>4, TurnGoesOn DEF b
<1> QED BY <1>2, <1>4, <1>5

LEMMA TakeAnswerIInv == ASSUME IInv, NEW g \in Spawned, TakeAnswer(g) PROVE IInv'
<1>1. agent[g].pc = "question" /\ "question" \in Asks /\ "question" \in InTurn
      /\ UNCHANGED <<ui, disk, history>>
  BY DEF TakeAnswer, Asks, InTurn
<1>2. PICK r \in Received(g, "question") : Continue(g, r.agent)
  BY DEF TakeAnswer
<1>3. /\ r.agent \in Agent /\ r.agent.outbox = agent[g].outbox
      /\ r.agent.inbox = agent[g].inbox /\ r.agent.told = agent[g].told
      /\ r.agent.cancel = agent[g].cancel
      /\ g = current => \A other \in Asks :
            Count(r.agent.outbox, {other}) + (IF modal = other THEN 1 ELSE 0)
              + Len(r.agent.replies[other]) = 0
  BY <1>1, TakenReply
<1>4. agent[g].pc \in InTurn
  BY <1>1
<1> QED BY <1>1, <1>2, <1>3, <1>4, ContinueIInv

(* An end is put into the channel of an agent that asks nothing.           *)
LEMMA EndSent ==
  ASSUME NEW a \in Agent, NEW e \in Ends, NEW b \in Agent,
         b.outbox = Append(a.outbox, e), b.replies = a.replies,
         a.pc \notin Asks, b.pc \notin Asks, NEW m, Waits(a, m)
  PROVE  Waits(b, m) /\ Count(b.outbox, Ends) = Count(a.outbox, Ends) + 1
<1>1. a.outbox \in Seq(Asks \cup Ends) /\ e \in Asks \cup Ends
  BY Fields
<1>2. \A S : Count(b.outbox, S) = Count(a.outbox, S) + IF e \in S THEN 1 ELSE 0
  BY <1>1, CountAppend
<1>3. ASSUME NEW ask \in Asks
      PROVE  Count(b.outbox, {ask}) + (IF m = ask THEN 1 ELSE 0) + Len(b.replies[ask]) = 0
  <2>1. e \notin {ask}
    BY DEF Asks, Ends
  <2>2. Count(a.outbox, {ask}) \in Nat
    BY Fields
  <2>3. Count(b.outbox, {ask}) = Count(a.outbox, {ask})
    BY <1>2, <2>1, <2>2
  <2>4. Count(a.outbox, {ask}) + (IF m = ask THEN 1 ELSE 0) + Len(a.replies[ask]) = 0
    BY DEF Waits
  <2> QED BY <2>3, <2>4
<1> QED BY <1>2, <1>3 DEF Waits

LEMMA FailToStartIInv == ASSUME IInv, NEW g \in Spawned, FailToStart(g) PROVE IInv'
<1> DEFINE a == agent[g]
           outbox == Append(a.outbox, "error")
           b == [a EXCEPT !.pc = "gone", !.inbox = <<>>, !.outbox = outbox]
<1>1. Known(g) /\ a \in Agent /\ a.pc = "start"
  BY KnownOf DEF Known, FailToStart
<1>2. outbox \in Seq(Asks \cup Ends)
  BY <1>1, Fields, AppendProperties DEF Ends
<1> HIDE DEF outbox
<1>3. /\ b \in Agent /\ b.pc = "gone" /\ b.inbox = <<>> /\ b.outbox = outbox
      /\ b.replies = a.replies /\ b.told = a.told /\ b.cancel = a.cancel
  BY <1>1, <1>2, EmptySeq DEF Agent, Pc, Ends, Asks
<1>4. Become(g, b) /\ UNCHANGED <<ui, disk, history>>
  BY DEF FailToStart, outbox
<1> HIDE DEF b
<1>5. g = current => Waits(b, modal)
  <2>1. a.pc \notin Asks /\ b.pc \notin Asks /\ "error" \in Ends
    BY <1>1, <1>3 DEF Asks, Ends
  <2> QED BY <1>1, <1>3, <2>1, EndSent DEF Known, outbox
<1>6. Busy(b, running) /\ Saved(b, disk') /\ Resting(b) /\ Told(b)
  BY <1>1, <1>3 DEF Known, Busy, Saved, Resting, Told, InTurn
<1>7. disk' \in Session \cup {NoFile} /\ disk' = disk
  BY <1>1, <1>4 DEF Known
<1> QED BY <1>3, <1>4, <1>5, <1>6, <1>7, ThreadStep

(* The end of a turn: it is told, the session s is still to be saved.      *)
LEMMA TurnOver ==
  ASSUME IInv, NEW g \in Spawned, NEW e \in Ends, NEW s \in Session,
         agent[g].pc \in InTurn, agent[g].pc \notin Asks,
         Become(g, [agent[g] EXCEPT !.pc = "save", !.outbox = Sent(g, e), !.told = FALSE,
                                    !.session = s]),
         UNCHANGED <<ui, history>>, disk' \in Session \cup {NoFile}
  PROVE  IInv'
<1> DEFINE a == agent[g]
           outbox == Sent(g, e)
           b == [a EXCEPT !.pc = "save", !.outbox = outbox, !.told = FALSE, !.session = s]
<1>1. Known(g) /\ a \in Agent /\ a.outbox \in Seq(Asks \cup Ends)
  BY KnownOf, Fields DEF Known
<1>2. outbox \in Seq(Asks \cup Ends) /\ (g = current => outbox = Append(a.outbox, e))
  BY <1>1, AppendProperties DEF Sent, Connected
<1> HIDE DEF outbox
<1>3. /\ b \in Agent /\ b.pc = "save" /\ b.inbox = a.inbox /\ b.outbox = outbox
      /\ b.replies = a.replies /\ b.told = FALSE /\ b.cancel = a.cancel
  BY <1>1, <1>2 DEF Agent, Pc, Ends
<1>4. Become(g, b)
  BY DEF outbox
<1> HIDE DEF b
<1>5. g = current => Waits(b, modal) /\ Count(b.outbox, Ends) = Count(a.outbox, Ends) + 1
  <2>1. a.pc \notin Asks /\ b.pc \notin Asks
    BY <1>3 DEF Asks
  <2> QED BY <1>1, <1>2, <1>3, <2>1, EndSent DEF Known
<1>6. g = current => Busy(b, running)
  <2>1. Len(a.inbox) \in Nat /\ Count(a.outbox, Ends) \in Nat
    BY <1>1, Fields
  <2> QED BY <1>1, <1>3, <1>5, <2>1 DEF Known, Busy, InTurn
<1>7. Saved(b, disk') /\ ~Resting(a) /\ Told(b)
  BY <1>3 DEF Saved, Resting, Told, InTurn
<1> QED BY <1>3, <1>4, <1>5, <1>6, <1>7, ThreadStep

LEMMA FailTurnIInv == ASSUME IInv, NEW g \in Spawned, FailTurn(g) PROVE IInv'
<1> DEFINE a == agent[g]
<1>1. /\ agent[g].pc \in InTurn /\ agent[g].pc \notin Asks /\ "error" \in Ends
      /\ UNCHANGED <<ui, history>> /\ disk' \in Session \cup {NoFile} /\ a \in Agent
  BY KnownOf DEF FailTurn, InTurn, Asks, Ends, Known
<1>2. a.session \in Session
  BY <1>1, Fields
<1>3. [a EXCEPT !.pc = "save", !.outbox = Sent(g, "error"), !.told = FALSE]
        = [a EXCEPT !.pc = "save", !.outbox = Sent(g, "error"), !.told = FALSE,
                    !.session = a.session]
  BY <1>1 DEF Agent
<1>4. Become(g, [a EXCEPT !.pc = "save", !.outbox = Sent(g, "error"), !.told = FALSE,
                          !.session = a.session])
  BY <1>3 DEF FailTurn
<1> QED BY <1>1, <1>2, <1>4, TurnOver

(* What is appended to the file is a session again.                        *)
LEMMA PersistType ==
  ASSUME NEW a \in Agent, NEW by \in {"user", "agent"}, disk \in Session \cup {NoFile},
         Persist(a, by)
  PROVE  disk' \in Session \cup {NoFile}
<1>1. Pushed(a, by) \in Seq(Message) /\ a.session \in Session /\ a.turn \in Turns
  BY PushedType, Fields
<1>2. CASE ~a.persists
  BY <1>2 DEF Persist
<1>3. CASE a.persists /\ disk = NoFile
  BY <1>1, <1>3 DEF Persist, Session
<1>4. CASE a.persists /\ disk # NoFile
  <2> DEFINE m == [turn |-> a.turn, by |-> by]
             messages == Append(disk.messages, m)
  <2>1. disk \in Session /\ disk.messages \in Seq(Message) /\ m \in Message
    BY <1>1, <1>4 DEF Session, Message
  <2>2. messages \in Seq(Message)
    BY <2>1, AppendProperties
  <2>3. disk' = [disk EXCEPT !.messages = messages]
    BY <1>4 DEF Persist
  <2> HIDE DEF messages
  <2> QED BY <2>1, <2>2, <2>3 DEF Session
<1> QED BY <1>2, <1>3, <1>4

LEMMA AnswerIInv == ASSUME IInv, NEW g \in Spawned, Answer(g) PROVE IInv'
<1> DEFINE pushed == Pushed(agent[g], "agent")
           a == [agent[g] EXCEPT !.session.messages = pushed]
           t == [agent[g].session EXCEPT !.messages = pushed]
<1>1. Known(g) /\ agent[g] \in Agent /\ agent[g].session \in Session
      /\ disk \in Session \cup {NoFile} /\ pushed \in Seq(Message)
  BY KnownOf, PushedType, Fields DEF Known
<1> HIDE DEF pushed
<1>2. t \in Session /\ a = [agent[g] EXCEPT !.session = t] /\ a.session = t /\ a.pc = agent[g].pc
  BY <1>1 DEF Session, Agent
<1>3. PICK s \in {t, Compacted(t)} :
         Become(g, [a EXCEPT !.pc = "save", !.outbox = Sent(g, "done"), !.told = FALSE,
                             !.session = s])
  BY <1>2 DEF Answer, pushed
<1>4. s \in Session
  BY <1>2, CompactedType
<1>5. [a EXCEPT !.pc = "save", !.outbox = Sent(g, "done"), !.told = FALSE, !.session = s]
        = [agent[g] EXCEPT !.pc = "save", !.outbox = Sent(g, "done"), !.told = FALSE, !.session = s]
  BY <1>1, <1>2 DEF Agent
<1>6. /\ agent[g].pc \in InTurn /\ agent[g].pc \notin Asks /\ "done" \in Ends
      /\ UNCHANGED <<ui, history>> /\ Persist(agent[g], "agent")
  BY <1>2 DEF Answer, InTurn, Asks, Ends, pushed
<1>7. disk' \in Session \cup {NoFile}
  BY <1>1, <1>6, PersistType
<1>8. Become(g, [agent[g] EXCEPT !.pc = "save", !.outbox = Sent(g, "done"), !.told = FALSE,
                                 !.session = s])
  BY <1>3, <1>5
<1> QED BY <1>4, <1>6, <1>7, <1>8, TurnOver

LEMMA SaveIInv == ASSUME IInv, NEW g \in Spawned, Save(g) PROVE IInv'
<1> DEFINE a == agent[g]
           b == [a EXCEPT !.pc = "wait"]
<1>1. Known(g) /\ a \in Agent /\ a.session \in Session /\ a.pc = "save"
  BY KnownOf, Fields DEF Known, Save
<1>2. /\ b \in Agent /\ b.pc = "wait" /\ b.inbox = a.inbox /\ b.outbox = a.outbox
      /\ b.replies = a.replies /\ b.told = a.told /\ b.cancel = a.cancel /\ b.session = a.session
  BY <1>1 DEF Agent, Pc
<1>3. Become(g, b) /\ UNCHANGED <<ui, history>> /\ disk' = a.session
  BY DEF Save
<1> HIDE DEF b
<1>4. g = current => Waits(b, modal) /\ Busy(b, running)
  BY <1>1, <1>2 DEF Known, Waits, Busy, Asks, InTurn
<1>5. Saved(b, disk') /\ Told(b) /\ ~Resting(a)
  BY <1>1, <1>2, <1>3 DEF Known, Saved, Told, Resting, InTurn
<1> QED BY <1>1, <1>2, <1>3, <1>4, <1>5, ThreadStep

LEMMA ReceivePromptIInv == ASSUME IInv, NEW g \in Spawned, ReceivePrompt(g) PROVE IInv'
<1> DEFINE t == Head(agent[g].inbox)
           a == [agent[g] EXCEPT !.turn = t]
           pushed == Pushed(a, "user")
           rest == Tail(agent[g].inbox)
           session == [agent[g].session EXCEPT !.messages = pushed]
           b == [agent[g] EXCEPT !.turn = t, !.pc = "request", !.cancel = FALSE, !.tools = 0,
                                 !.inbox = rest, !.told = FALSE, !.session = session]
<1>1. /\ Known(g) /\ agent[g] \in Agent /\ agent[g].inbox \in Seq(Turns) /\ agent[g].inbox # <<>>
      /\ agent[g].session \in Session /\ agent[g].pc = "wait"
  BY KnownOf, Fields DEF Known, ReceivePrompt
<1>2. t \in Turns /\ rest \in Seq(Turns) /\ Len(rest) = Len(agent[g].inbox) - 1
      /\ Len(agent[g].inbox) \in Nat
  BY <1>1, HeadTailProperties, LenProperties
<1> HIDE DEF t, rest
<1>3. a \in Agent /\ a.session = agent[g].session
  BY <1>1, <1>2 DEF Agent
<1>4. pushed \in Seq(Message)
  BY <1>3, PushedType
<1>5. session \in Session
  <2> HIDE DEF pushed
  <2> QED BY <1>1, <1>4 DEF Session
<1>6. Become(g, b) /\ UNCHANGED <<ui, history>> /\ Persist(a, "user")
  <2>1. [a EXCEPT !.pc = "request", !.cancel = FALSE, !.tools = 0, !.inbox = Tail(@),
                  !.told = FALSE, !.session.messages = pushed] = b
    <3> HIDE DEF pushed
    <3> QED BY <1>1, <1>2 DEF Agent, rest
  <2> QED BY <2>1 DEF ReceivePrompt, t
<1> HIDE DEF session
<1>7. /\ b \in Agent /\ b.pc = "request" /\ b.inbox = rest /\ b.outbox = agent[g].outbox
      /\ b.replies = agent[g].replies /\ b.told = FALSE
  <2>1. 0 \in Nat
    OBVIOUS
  <2> QED BY <1>1, <1>2, <1>5, <2>1 DEF Agent, Pc, InTurn
<1> HIDE DEF b, a
<1>8. disk' \in Session \cup {NoFile}
  BY <1>1, <1>3, <1>6, PersistType DEF Known
<1>9. g = current => Waits(b, modal) /\ Busy(b, running)
  <2>1. Len(agent[g].inbox) \in Nat /\ Count(agent[g].outbox, Ends) \in Nat
    BY <1>1, Fields
  <2> QED BY <1>1, <1>2, <1>7, <2>1 DEF Known, Waits, Busy, Asks, InTurn
<1>10. Saved(b, disk') /\ Told(b) /\ ~Resting(agent[g])
  BY <1>1, <1>7 DEF Saved, Told, Resting
<1> QED BY <1>6, <1>7, <1>8, <1>9, <1>10, ThreadStep

LEMMA AgentStepIInv == ASSUME IInv, NEW g \in Spawned, AgentStep(g) PROVE IInv'
BY StartIInv, FailToStartIInv, ReceivePromptIInv, ExitIInv, BeginStreamIInv, FailTurnIInv,
   AnswerIInv, CallToolsIInv, DispatchIInv, TakePermissionIInv, ExecuteIInv, FinishWorkIInv,
   TakeAnswerIInv, SaveIInv DEF AgentStep

-----------------------------------------------------------------------------
(* A step of the tab *)

LEMMA CurrentKnown ==
  ASSUME IInv, Open
  PROVE  /\ current \in Spawned /\ current \in Agents /\ agent[current] \in Agent
         /\ Waits(agent[current], modal) /\ Busy(agent[current], running)
         /\ Told(agent[current]) /\ (~overlapped => Saved(agent[current], disk))
         /\ spawned \in Agents /\ Spawned \subseteq Agents /\ agent \in [Agents -> Agent]
<1>1. spawned \in Agents /\ current \in Spawned /\ Spawned \subseteq Agents
  BY TabAssumption DEF IInv, TypeOK, Agents, Spawned, Open
<1> QED BY <1>1 DEF IInv, TypeOK, CurrentInv, FilesInv

(* What the indicator says of an agent that is there.                      *)
LEMMA BusyMeans ==
  ASSUME NEW a \in Agent, NEW r \in BOOLEAN, Busy(a, r), a.pc # "gone"
  PROVE  /\ ~r => a.pc \notin InTurn /\ Len(a.inbox) = 0 /\ Count(a.outbox, Ends) = 0
         /\ Count(a.outbox, Ends) # 0 => a.pc \notin InTurn /\ Len(a.inbox) = 0
                                         /\ Count(a.outbox, Ends) = 1
<1> DEFINE k == IF a.pc \in InTurn THEN 1 ELSE 0
           all == IF r THEN 1 ELSE 0
<1>1. Len(a.inbox) \in Nat /\ Count(a.outbox, Ends) \in Nat
  BY Fields
<1>2. Len(a.inbox) + k + Count(a.outbox, Ends) = all
  BY DEF Busy
<1>3. k \in {0, 1} /\ (k = 1 <=> a.pc \in InTurn) /\ all \in {0, 1} /\ (all = 0 <=> ~r)
  OBVIOUS
<1> HIDE DEF k, all
<1> QED BY <1>1, <1>2, <1>3

LEMMA TabStep ==
  ASSUME IInv, Open, NEW b \in Agent,
         agent' = [agent EXCEPT ![current] = b],
         UNCHANGED <<current, spawned, disk, rewound, overlapped>>,
         running' \in BOOLEAN, cancelRequested' \in BOOLEAN, modal' \in Asks \cup {"none"},
         turns' \in Turns, reported' \subseteq Turns,
         Told(b), Waits(b, modal'), Busy(b, running'), b.pc = agent[current].pc,
         b.session = agent[current].session
  PROVE  IInv'
<1>1. /\ current \in Spawned /\ current \in Agents /\ agent \in [Agents -> Agent]
      /\ spawned \in Agents /\ Spawned \subseteq Agents
  BY CurrentKnown
<1>2. agent'[current] = b /\ \A h \in Agents : h # current => agent'[h] = agent[h]
  BY <1>1
<1>3. TypeOK'
  BY <1>1 DEF IInv, TypeOK
<1>4. CurrentInv'
  BY <1>2 DEF CurrentInv, Waits, Busy
<1>5. FilesInv'
  <2>1. Spawned' = Spawned
    BY DEF Spawned
  <2> QED BY <1>1, <1>2, <2>1 DEF IInv, FilesInv, Saved, Resting, Open
<1>6. \A h \in Agents : Told(agent[h])'
  BY <1>2 DEF IInv, Told
<1> QED BY <1>3, <1>4, <1>5, <1>6 DEF IInv

LEMMA SubmitIInv == ASSUME IInv, Submit PROVE IInv'
<1> DEFINE a == agent[current]
           n == turns + 1
           inbox == Append(a.inbox, n)
<1>1. /\ Open /\ a \in Agent /\ Waits(a, modal) /\ Busy(a, running) /\ Told(a)
      /\ agent \in [Agents -> Agent] /\ ~running /\ modal = "none"
  BY CurrentKnown DEF Submit, NoModal
<1>2. /\ n \in Turns /\ cancelRequested' \in BOOLEAN /\ reported' \subseteq Turns
      /\ modal' = modal /\ turns' = n
      /\ running' = TRUE /\ UNCHANGED <<current, spawned, disk, rewound, overlapped>>
  <2>1. turns \in Nat /\ turns < MaxTurns /\ MaxTurns \in Nat /\ reported \subseteq Turns
    BY TabAssumption DEF Submit, IInv, TypeOK, Turns
  <2>2. n \in Turns
    BY <2>1 DEF Turns
  <2> QED BY <2>1, <2>2 DEF Submit, history
<1>3. a.inbox \in Seq(Turns) /\ Len(a.inbox) \in Nat /\ Count(a.outbox, Ends) \in Nat
  BY <1>1, Fields
<1>4. inbox \in Seq(Turns) /\ Len(inbox) = Len(a.inbox) + 1
  BY <1>2, <1>3, AppendProperties
<1>5. CASE a.pc = "gone"
  <2>1. agent' = [agent EXCEPT ![current] = a]
    BY <1>1, <1>5 DEF Submit
  <2>2. Busy(a, running')
    BY <1>1, <1>2, <1>5 DEF Busy
  <2> QED BY <1>1, <1>2, <2>1, <2>2, TabStep
<1>6. CASE a.pc # "gone"
  <2> DEFINE b == [a EXCEPT !.inbox = inbox]
  <2>1. agent' = [agent EXCEPT ![current] = b]
    BY <1>1, <1>6, CurrentKnown DEF Submit
  <2> HIDE DEF inbox, n
  <2>2. /\ b \in Agent /\ b.pc = a.pc /\ b.inbox = inbox /\ b.outbox = a.outbox
        /\ b.replies = a.replies /\ b.told = a.told /\ b.cancel = a.cancel
        /\ b.session = a.session
    BY <1>1, <1>4 DEF Agent
  <2> HIDE DEF b
  <2>3. Waits(b, modal') /\ Told(b)
    BY <1>1, <1>2, <2>2 DEF Waits, Told
  <2>4. a.pc \notin InTurn /\ Len(a.inbox) = 0 /\ Count(a.outbox, Ends) = 0
    BY <1>1, <1>6, BusyMeans DEF IInv, TypeOK
  <2>5. b.pc \notin InTurn /\ Len(b.inbox) = 1 /\ Count(b.outbox, Ends) = 0
    BY <1>4, <2>2, <2>4
  <2>6. Busy(b, running')
    BY <1>2, <1>6, <2>2, <2>5 DEF Busy
  <2> QED BY <1>1, <1>2, <2>1, <2>2, <2>3, <2>6, TabStep
<1> QED BY <1>5, <1>6

LEMMA DrainAskIInv == ASSUME IInv, DrainAsk PROVE IInv'
<1> DEFINE a == agent[current]
           e == Head(a.outbox)
           outbox == Tail(a.outbox)
           b == [a EXCEPT !.outbox = outbox]
<1>1. /\ Open /\ a \in Agent /\ Waits(a, modal) /\ Busy(a, running) /\ Told(a)
      /\ agent \in [Agents -> Agent]
      /\ a.outbox \in Seq(Asks \cup Ends) /\ a.outbox # <<>> /\ e \in Asks
      /\ modal \in Asks \cup {"none"} /\ current \in Agents
  BY CurrentKnown, Fields DEF DrainAsk, IInv, TypeOK
<1>2. /\ modal' = e /\ running' = running /\ running \in BOOLEAN /\ cancelRequested' \in BOOLEAN
      /\ turns' \in Turns /\ reported' \subseteq Turns
      /\ UNCHANGED <<current, spawned, disk, rewound, overlapped>>
  BY DEF DrainAsk, IInv, TypeOK, history
<1>3. agent' = [agent EXCEPT ![current] = b]
  BY <1>1 DEF DrainAsk
<1>4. outbox \in Seq(Asks \cup Ends)
  BY <1>1, HeadTailProperties
<1>5. \A S : Count(a.outbox, S) = Count(outbox, S) + (IF e \in S THEN 1 ELSE 0)
             /\ Count(outbox, S) \in Nat
  BY <1>1, <1>4, CountTail, CountNat
<1> HIDE DEF outbox, e
<1>6. /\ b \in Agent /\ b.pc = a.pc /\ b.inbox = a.inbox /\ b.outbox = outbox
      /\ b.replies = a.replies /\ b.told = a.told /\ b.cancel = a.cancel
      /\ b.session = a.session
  BY <1>1, <1>4 DEF Agent, Ends
<1> HIDE DEF b
<1>7. ASSUME NEW ask \in Asks
      PROVE  Count(b.outbox, {ask}) + (IF modal' = ask THEN 1 ELSE 0) + Len(b.replies[ask])
               = IF b.pc = ask THEN 1 ELSE 0
  <2>1. \A other \in Asks :
          /\ Count(a.outbox, {other}) + (IF modal = other THEN 1 ELSE 0) + Len(a.replies[other])
               = IF a.pc = other THEN 1 ELSE 0
          /\ Len(a.replies[other]) \in Nat
    BY <1>1, Fields DEF Waits
  <2>2. \A other \in Asks :
          /\ Count(a.outbox, {other}) = Count(outbox, {other}) + IF e = other THEN 1 ELSE 0
          /\ Count(outbox, {other}) \in Nat
    <3> TAKE other \in Asks
    <3>1. Count(a.outbox, {other}) = Count(outbox, {other}) + (IF e \in {other} THEN 1 ELSE 0)
          /\ Count(outbox, {other}) \in Nat
      BY <1>5
    <3> QED BY <3>1
  <2>3. a.pc = e /\ modal # e
    <3>1. /\ Count(a.outbox, {e}) = Count(outbox, {e}) + 1 /\ Count(outbox, {e}) \in Nat
          /\ Count(a.outbox, {e}) + (IF modal = e THEN 1 ELSE 0) + Len(a.replies[e])
               = IF a.pc = e THEN 1 ELSE 0
          /\ Len(a.replies[e]) \in Nat
      BY <1>1, <2>1, <2>2
    <3> QED BY <3>1
  <2>4. modal # ask
    <3>1. CASE ask # e
      <4>1. Count(a.outbox, {ask}) \in Nat /\ Len(a.replies[ask]) \in Nat
        BY <1>1, Fields
      <4>2. Count(a.outbox, {ask}) + (IF modal = ask THEN 1 ELSE 0) + Len(a.replies[ask]) = 0
        BY <2>1, <2>3, <3>1
      <4> QED BY <4>1, <4>2
    <3> QED BY <2>3, <3>1
  <2>5. CASE ask = e
    BY <1>2, <1>6, <2>1, <2>2, <2>3, <2>5
  <2>6. CASE ask # e
    BY <1>2, <1>6, <2>1, <2>2, <2>3, <2>4, <2>6
  <2> QED BY <2>5, <2>6
<1>8. Busy(b, running')
  <2>1. e \notin Ends
    BY <1>1 DEF Asks, Ends
  <2>2. Count(b.outbox, Ends) = Count(a.outbox, Ends)
    BY <1>5, <1>6, <2>1
  <2> QED BY <1>1, <1>2, <1>6, <2>2 DEF Busy
<1>9. Waits(b, modal') /\ Told(b)
  BY <1>1, <1>6, <1>7 DEF Waits, Told
<1> QED BY <1>1, <1>2, <1>3, <1>6, <1>8, <1>9, TabStep

LEMMA DrainEndIInv == ASSUME IInv, DrainEnd PROVE IInv'
<1> DEFINE a == agent[current]
           e == Head(a.outbox)
           outbox == Tail(a.outbox)
           b == [a EXCEPT !.outbox = outbox, !.cancel = FALSE]
<1>1. /\ Open /\ a \in Agent /\ Waits(a, modal) /\ Busy(a, running) /\ Told(a)
      /\ agent \in [Agents -> Agent] /\ a.turn \in Turns
      /\ a.outbox \in Seq(Asks \cup Ends) /\ a.outbox # <<>> /\ e \in Ends
      /\ modal \in Asks \cup {"none"} /\ current \in Agents
      /\ Len(a.inbox) \in Nat
  BY CurrentKnown, Fields DEF DrainEnd, IInv, TypeOK, Ends
<1>2. /\ modal' = modal /\ running' = FALSE /\ cancelRequested' \in BOOLEAN
      /\ turns' \in Turns /\ reported' \subseteq Turns
      /\ UNCHANGED <<current, spawned, disk, rewound, overlapped>>
  BY <1>1 DEF DrainEnd, IInv, TypeOK
<1>3. agent' = [agent EXCEPT ![current] = b]
  BY <1>1 DEF DrainEnd
<1>4. outbox \in Seq(Asks \cup Ends)
  BY <1>1, HeadTailProperties
<1>5. \A S : Count(a.outbox, S) = Count(outbox, S) + (IF e \in S THEN 1 ELSE 0)
             /\ Count(outbox, S) \in Nat
  BY <1>1, <1>4, CountTail, CountNat
<1> HIDE DEF outbox, e
<1>6. /\ b \in Agent /\ b.pc = a.pc /\ b.inbox = a.inbox /\ b.outbox = outbox
      /\ b.replies = a.replies /\ b.told = a.told /\ b.cancel = FALSE
      /\ b.session = a.session
  BY <1>1, <1>4 DEF Agent, Ends
<1> HIDE DEF b
<1>7. Waits(b, modal')
  <2>1. ASSUME NEW ask \in Asks PROVE Count(b.outbox, {ask}) = Count(a.outbox, {ask})
    <3>1. e \notin {ask}
      BY <1>1 DEF Asks, Ends
    <3> QED BY <1>5, <1>6, <3>1
  <2> QED BY <1>1, <1>2, <1>6, <2>1 DEF Waits
<1>8. a.pc = "gone" \/ (a.pc \notin InTurn /\ Len(a.inbox) = 0 /\ Count(outbox, Ends) = 0)
  <2>1. Count(a.outbox, Ends) = Count(outbox, Ends) + 1 /\ Count(outbox, Ends) \in Nat
    BY <1>1, <1>5
  <2>2. running \in BOOLEAN
    BY DEF IInv, TypeOK
  <2> QED BY <1>1, <2>1, <2>2, BusyMeans
<1>9. Busy(b, running')
  <2>1. CASE a.pc = "gone"
    BY <1>1, <1>6, <2>1 DEF Busy
  <2>2. CASE a.pc # "gone"
    <3>1. /\ Len(b.inbox) = 0 /\ b.pc \notin InTurn /\ Count(b.outbox, Ends) = 0
          /\ b.pc # "gone"
      BY <1>6, <1>8, <2>2
    <3> QED BY <1>2, <3>1 DEF Busy
  <2> QED BY <2>1, <2>2
<1>10. Told(b)
  BY <1>1, <1>6, <1>8 DEF Told, InTurn
<1> QED BY <1>1, <1>2, <1>3, <1>6, <1>7, <1>9, <1>10, TabStep

LEMMA ReplyIInv == ASSUME IInv, Reply PROVE IInv'
<1> DEFINE a == agent[current]
<1>1. /\ Open /\ a \in Agent /\ Waits(a, modal) /\ Busy(a, running) /\ Told(a)
      /\ agent \in [Agents -> Agent] /\ current \in Agents /\ modal \in Asks
      /\ a.replies \in [Asks -> Seq(BOOLEAN)]
  BY CurrentKnown, Fields DEF Reply, IInv, TypeOK
<1>2. /\ modal' = "none" /\ running' = running /\ running \in BOOLEAN
      /\ cancelRequested' \in BOOLEAN /\ turns' \in Turns /\ reported' \subseteq Turns
      /\ UNCHANGED <<current, spawned, disk, rewound, overlapped>>
  BY DEF Reply, IInv, TypeOK, history
<1>3. PICK yes \in BOOLEAN :
        agent' = [agent EXCEPT ![current].replies[modal] = Append(@, yes)]
  BY DEF Reply
<1> DEFINE more == Append(a.replies[modal], yes)
           replies == [a.replies EXCEPT ![modal] = more]
           b == [a EXCEPT !.replies = replies]
<1>4. more \in Seq(BOOLEAN) /\ Len(more) = Len(a.replies[modal]) + 1
  BY <1>1, AppendProperties
<1> HIDE DEF more
<1>5. /\ replies \in [Asks -> Seq(BOOLEAN)] /\ replies[modal] = more
      /\ \A ask \in Asks : ask # modal => replies[ask] = a.replies[ask]
  BY <1>1, <1>4
<1>6. agent' = [agent EXCEPT ![current] = b]
  BY <1>1, <1>3 DEF more, Agent
<1> HIDE DEF replies
<1>7. /\ b \in Agent /\ b.pc = a.pc /\ b.inbox = a.inbox /\ b.outbox = a.outbox
      /\ b.replies = replies /\ b.told = a.told /\ b.cancel = a.cancel
      /\ b.session = a.session
  BY <1>1, <1>5 DEF Agent
<1> HIDE DEF b
<1>8. ASSUME NEW ask \in Asks
      PROVE  Count(b.outbox, {ask}) + (IF modal' = ask THEN 1 ELSE 0) + Len(b.replies[ask])
               = IF b.pc = ask THEN 1 ELSE 0
  <2>1. /\ Count(a.outbox, {ask}) + (IF modal = ask THEN 1 ELSE 0) + Len(a.replies[ask])
             = IF a.pc = ask THEN 1 ELSE 0
        /\ Len(a.replies[ask]) \in Nat /\ Count(a.outbox, {ask}) \in Nat
    BY <1>1, Fields DEF Waits
  <2>2. modal' # ask
    BY <1>2 DEF Asks
  <2>3. CASE ask = modal
    BY <1>4, <1>5, <1>7, <2>1, <2>2, <2>3
  <2>4. CASE ask # modal
    BY <1>5, <1>7, <2>1, <2>2, <2>4
  <2> QED BY <2>3, <2>4
<1>9. Busy(b, running') /\ Told(b)
  BY <1>1, <1>2, <1>7 DEF Busy, Told
<1>10. Waits(b, modal')
  BY <1>8 DEF Waits
<1> QED BY <1>1, <1>2, <1>6, <1>7, <1>9, <1>10, TabStep

LEMMA CancelTurnIInv == ASSUME IInv, CancelTurn PROVE IInv'
<1> DEFINE a == agent[current]
           told == a.pc \in InTurn
           b == [a EXCEPT !.cancel = TRUE, !.told = told]
<1>1. /\ Open /\ a \in Agent /\ Waits(a, modal) /\ Busy(a, running)
      /\ agent \in [Agents -> Agent] /\ current \in Agents
      /\ modal \in Asks \cup {"none"}
  BY CurrentKnown DEF CancelTurn, NoModal, IInv, TypeOK
<1>2. /\ modal' = modal /\ running' = running /\ running \in BOOLEAN
      /\ cancelRequested' \in BOOLEAN /\ turns' \in Turns /\ reported' \subseteq Turns
      /\ UNCHANGED <<current, spawned, disk, rewound, overlapped>>
  BY DEF CancelTurn, IInv, TypeOK, history
<1>3. agent' = [agent EXCEPT ![current] = b]
  BY <1>1 DEF CancelTurn
<1>4. told \in BOOLEAN /\ (told => a.pc \in InTurn)
  OBVIOUS
<1> HIDE DEF told
<1>5. /\ b \in Agent /\ b.pc = a.pc /\ b.inbox = a.inbox /\ b.outbox = a.outbox
      /\ b.replies = a.replies /\ b.told = told /\ b.cancel = TRUE
      /\ b.session = a.session
  BY <1>1, <1>4 DEF Agent
<1> HIDE DEF b
<1>6. Busy(b, running')
  BY <1>1, <1>2, <1>5 DEF Busy
<1>7. Told(b)
  BY <1>4, <1>5 DEF Told
<1>8. Waits(b, modal')
  BY <1>1, <1>2, <1>5 DEF Waits
<1> QED BY <1>1, <1>2, <1>3, <1>5, <1>6, <1>7, <1>8, TabStep

(* A fresh agent gets the session s, which is the file or empty.           *)
LEMMA FreshAgent ==
  ASSUME NEW s \in Session, NEW persists \in BOOLEAN, NEW d, d = s \/ s.messages = <<>>
  PROVE  LET b == NewAgent(s, persists) IN
         b \in Agent /\ Waits(b, "none") /\ Busy(b, FALSE) /\ Told(b) /\ Saved(b, d)
<1> DEFINE none == [ask \in Asks |-> <<>>]
           b == NewAgent(s, persists)
<1>1. none \in [Asks -> Seq(BOOLEAN)] /\ \A ask \in Asks : Len(none[ask]) = 0
  BY EmptySeq
<1> HIDE DEF none
<1>2. /\ b \in Agent /\ b.pc = "start" /\ b.session = s /\ b.inbox = <<>> /\ b.outbox = <<>>
      /\ b.replies = none /\ b.told = FALSE
  <2>1. <<>> \in Seq(Turns) /\ <<>> \in Seq(Asks \cup {"done", "error"})
    BY EmptySeq
  <2>2. 0 \in Turns /\ 0 \in Nat
    BY TabAssumption DEF Turns
  <2>3. b = [pc |-> "start", cancel |-> FALSE, session |-> s, persists |-> persists, turn |-> 0,
             tools |-> 0, inbox |-> <<>>, outbox |-> <<>>, replies |-> none, told |-> FALSE]
    BY DEF NewAgent, none
  <2> QED BY <1>1, <2>1, <2>2, <2>3 DEF Agent, Pc
<1> HIDE DEF b
<1>3. \A S : Count(<<>>, S) = 0
  BY CountEmpty
<1>4. Waits(b, "none")
  <2> SUFFICES ASSUME NEW ask \in Asks
               PROVE  Count(b.outbox, {ask}) + (IF "none" = ask THEN 1 ELSE 0)
                        + Len(b.replies[ask]) = IF b.pc = ask THEN 1 ELSE 0
    BY DEF Waits
  <2>1. Count(b.outbox, {ask}) = 0 /\ Len(b.replies[ask]) = 0
    BY <1>1, <1>2, <1>3
  <2>2. "none" # ask /\ b.pc # ask
    BY <1>2 DEF Asks
  <2> QED BY <2>1, <2>2
<1>5. Busy(b, FALSE)
  <2>1. Count(b.outbox, Ends) = 0 /\ Len(b.inbox) = 0 /\ b.pc \notin InTurn /\ b.pc # "gone"
    BY <1>2, <1>3 DEF InTurn
  <2> QED BY <2>1 DEF Busy
<1>6. Told(b) /\ Saved(b, d)
  BY <1>2 DEF Told, Saved
<1> QED BY <1>2, <1>4, <1>5, <1>6 DEF b

(* A fresh agent takes the tab over from c, which is left as it is or told *)
(* to end.                                                                 *)
LEMMA ReplaceStep ==
  ASSUME IInv, Open, NEW c \in Agent, NEW s \in Session, NEW persists \in BOOLEAN,
         modal = "none", UNCHANGED <<modal, turns, reported>>, running' = FALSE,
         cancelRequested' \in BOOLEAN, rewound' \subseteq Turns,
         disk' \in Session \cup {NoFile}, disk' = s \/ s.messages = <<>>,
         Replace([agent EXCEPT ![current] = c], s, persists),
         c.pc = agent[current].pc, c.inbox = agent[current].inbox, Told(c)
  PROVE  IInv'
<1> DEFINE n == spawned + 1
           a == [agent EXCEPT ![current] = c]
           b == NewAgent(s, persists)
<1>1. /\ current \in Spawned /\ current \in Agents /\ agent \in [Agents -> Agent]
      /\ spawned \in Agents /\ Spawned \subseteq Agents /\ spawned < MaxAgents
      /\ n \in Agents /\ n \notin Spawned /\ current # n
  <2>1. spawned < MaxAgents
    BY DEF Replace
  <2>2. spawned \in 1..MaxAgents /\ MaxAgents \in Nat
    BY CurrentKnown, TabAssumption DEF Agents
  <2> QED BY <2>1, <2>2, CurrentKnown DEF Agents, Spawned
<1>2. b \in Agent /\ Waits(b, "none") /\ Busy(b, FALSE) /\ Told(b) /\ Saved(b, disk')
  BY FreshAgent
<1> HIDE DEF b
<1>3. /\ a \in [Agents -> Agent] /\ a[current] = c
      /\ \A h \in Agents : h # current => a[h] = agent[h]
  BY <1>1
<1>4. /\ agent' = [a EXCEPT ![n] = b] /\ spawned' = n /\ current' = n
      /\ overlapped' = (overlapped \/ a[current].pc \notin {"start", "wait", "gone"}
                                   \/ a[current].inbox # <<>>)
  BY DEF Replace, b
<1> HIDE DEF a
<1>5. /\ agent' \in [Agents -> Agent] /\ agent'[n] = b /\ agent'[current] = c
      /\ \A h \in Agents : h # current /\ h # n => agent'[h] = agent[h]
  BY <1>1, <1>2, <1>3, <1>4
<1> HIDE DEF n
<1>6. TypeOK'
  <2>1. /\ overlapped \in BOOLEAN /\ turns \in Turns /\ modal \in Asks \cup {"none"}
        /\ reported \subseteq Turns
    BY DEF IInv, TypeOK
  <2>2. overlapped' \in BOOLEAN
    BY <1>4, <2>1
  <2>3. n \in 0..n
    BY <1>1 DEF Agents
  <2> QED BY <1>1, <1>4, <1>5, <2>1, <2>2, <2>3 DEF TypeOK
<1>7. CurrentInv'
  BY <1>2, <1>4, <1>5 DEF CurrentInv
<1>8. FilesInv'
  <2>1. Spawned' = Spawned \cup {n}
    BY <1>1, <1>4 DEF Spawned, Agents, n
  <2>2. ASSUME ~overlapped', NEW h \in Spawned PROVE Resting(agent'[h])
    <3>1. CASE h = current
      BY <1>3, <1>4, <1>5, <2>2, <3>1 DEF Resting, IInv, TypeOK
    <3>2. CASE h # current
      <4>1. agent'[h] = agent[h] /\ ~overlapped
        BY <1>1, <1>4, <1>5, <2>2, <3>2
      <4> QED BY <2>2, <3>2, <4>1 DEF IInv, FilesInv
    <3> QED BY <3>1, <3>2
  <2> QED BY <1>2, <1>4, <1>5, <2>1, <2>2 DEF FilesInv
<1>9. \A h \in Agents : Told(agent'[h])
  BY <1>2, <1>5 DEF IInv
<1> QED BY <1>6, <1>7, <1>8, <1>9 DEF IInv

(* The same when the agent that is replaced is left as it is.              *)
LEMMA ReplaceIdle ==
  ASSUME IInv, Command, NEW s \in Session,
         UNCHANGED <<running, cancelRequested, modal, turns, reported>>,
         rewound' \subseteq Turns, disk' = s, Replace(agent, s, TRUE)
  PROVE  IInv'
<1>1. /\ Open /\ modal = "none" /\ running = FALSE /\ agent[current] \in Agent
      /\ Told(agent[current]) /\ agent \in [Agents -> Agent] /\ current \in Agents
  BY CurrentKnown DEF Command, NoModal, IInv, TypeOK
<1>2. [agent EXCEPT ![current] = agent[current]] = agent
  BY <1>1
<1>3. cancelRequested' \in BOOLEAN
  BY DEF IInv, TypeOK
<1> QED BY <1>1, <1>2, <1>3, ReplaceStep

LEMMA SavedFile == ASSUME IInv, Command PROVE disk \in Session
BY DEF IInv, TypeOK, Command

LEMMA TurnsInType == ASSUME NEW s \in Session PROVE TurnsIn(s) \subseteq Turns
<1>1. s.messages \in Seq(Message) /\ s.summary \subseteq Turns
  BY DEF Session
<1>2. \A i \in DOMAIN s.messages : s.messages[i].turn \in Turns
  <2> TAKE i \in DOMAIN s.messages
  <2>1. i \in 1..Len(s.messages)
    BY <1>1, LenProperties
  <2>2. s.messages[i] \in Message
    BY <1>1, <2>1, ElementOfSeq
  <2> QED BY <2>2 DEF Message
<1> QED BY <1>1, <1>2 DEF TurnsIn

LEMMA ForceAbortIInv == ASSUME IInv, ForceAbort PROVE IInv'
<1> DEFINE a == agent[current]
           c == [a EXCEPT !.cancel = TRUE]
<1>1. /\ Open /\ modal = "none" /\ a \in Agent /\ Told(a) /\ agent \in [Agents -> Agent]
      /\ current \in Agents /\ disk \in Session \cup {NoFile} /\ rewound \subseteq Turns
  BY CurrentKnown DEF ForceAbort, NoModal, IInv, TypeOK
<1>2. c \in Agent /\ c.pc = a.pc /\ c.inbox = a.inbox /\ c.told = a.told /\ c.cancel = TRUE
  BY <1>1 DEF Agent
<1>3. [agent EXCEPT ![current].cancel = TRUE] = [agent EXCEPT ![current] = c]
  BY <1>1
<1> HIDE DEF c
<1>4. Told(c)
  BY <1>1, <1>2 DEF Told
<1>5. /\ UNCHANGED <<modal, turns, reported>> /\ running' = FALSE /\ cancelRequested' \in BOOLEAN
      /\ rewound' \subseteq Turns /\ disk' = disk
  BY <1>1 DEF ForceAbort
<1>6. CASE disk = NoFile
  <2>1. NewSession \in Session /\ NewSession.messages = <<>>
    BY EmptySeq DEF NewSession, Session
  <2>2. Replace([agent EXCEPT ![current] = c], NewSession, FALSE)
    BY <1>3, <1>6 DEF ForceAbort
  <2> QED BY <1>1, <1>2, <1>4, <1>5, <2>1, <2>2, ReplaceStep
<1>7. CASE disk # NoFile
  <2>1. disk \in Session
    BY <1>1, <1>7
  <2>2. Replace([agent EXCEPT ![current] = c], disk, TRUE)
    BY <1>3, <1>7 DEF ForceAbort
  <2> QED BY <1>1, <1>2, <1>4, <1>5, <2>1, <2>2, ReplaceStep
<1> QED BY <1>6, <1>7

LEMMA CommandsIInv == ASSUME IInv, Respawn \/ Compact \/ Rewind PROVE IInv'
<1>1. Command /\ disk \in Session /\ rewound \subseteq Turns
  BY SavedFile DEF Respawn, Compact, Rewind, IInv, TypeOK
<1>2. CASE Respawn
  BY <1>1, <1>2, ReplaceIdle DEF Respawn
<1>3. CASE Compact
  BY <1>1, <1>3, CompactedType, ReplaceIdle DEF Compact
<1>4. CASE Rewind
  <2>1. PICK n \in 1..2 : disk' = Rewound(disk, n) /\ Replace(agent, Rewound(disk, n), TRUE)
    BY <1>4 DEF Rewind
  <2>2. Rewound(disk, n) \in Session
    BY <1>1, RewoundType
  <2>3. rewound' \subseteq Turns
    BY <1>1, <1>4, TurnsInType DEF Rewind
  <2>4. UNCHANGED <<running, cancelRequested, modal, turns, reported>>
    BY <1>4 DEF Rewind
  <2> QED BY <1>1, <2>1, <2>2, <2>3, <2>4, ReplaceIdle
<1> QED BY <1>2, <1>3, <1>4

LEMMA CloseTabIInv == ASSUME IInv, CloseTab PROVE IInv'
<1>1. TypeOK'
  BY TabAssumption DEF IInv, TypeOK, CloseTab, history, Agents
<1>2. ~Open'
  BY DEF CloseTab, Open
<1>3. agent' = agent
  BY DEF CloseTab
<1> QED BY <1>1, <1>2, <1>3 DEF IInv, CurrentInv, FilesInv

-----------------------------------------------------------------------------
LEMMA InitIInv == Init => IInv
<1> SUFFICES ASSUME Init PROVE IInv
  OBVIOUS
<1>1. NewSession \in Session /\ OldSession \in Session /\ NewSession.messages = <<>>
  <2>1. [turn |-> 0, by |-> "user"] \in Message /\ [turn |-> 0, by |-> "agent"] \in Message
    BY TabAssumption DEF Message, Turns
  <2>2. OldSession.messages \in Seq(Message)
    BY <2>1 DEF OldSession
  <2> QED BY <2>2, EmptySeq DEF NewSession, OldSession, Session
<1>2. PICK loaded \in BOOLEAN, s \in Session :
        /\ agent = [g \in Agents |-> NewAgent(s, loaded)]
        /\ disk \in Session \cup {NoFile}
        /\ disk = s \/ s.messages = <<>>
  BY <1>1 DEF Init
<1> DEFINE b == NewAgent(s, loaded)
<1>3. b \in Agent /\ Waits(b, "none") /\ Busy(b, FALSE) /\ Told(b) /\ Saved(b, disk)
  BY <1>2, FreshAgent
<1> HIDE DEF b
<1>4. agent \in [Agents -> Agent] /\ \A g \in Agents : agent[g] = b
  BY <1>2, <1>3 DEF b
<1>5. 1 \in Agents /\ current = 1 /\ spawned = 1 /\ Spawned = {1}
  BY TabAssumption DEF Init, Agents, Spawned
<1>6. TypeOK
  <2>1. /\ running \in BOOLEAN /\ cancelRequested \in BOOLEAN /\ overlapped \in BOOLEAN
        /\ modal \in Asks \cup {"none"} /\ reported \subseteq Turns /\ rewound \subseteq Turns
    BY DEF Init
  <2>2. turns \in Turns
    BY TabAssumption DEF Init, Turns
  <2>3. spawned \in Agents /\ current \in 0..spawned
    BY <1>5
  <2> QED BY <1>2, <1>4, <2>1, <2>2, <2>3 DEF TypeOK
<1>7. CurrentInv
  BY <1>3, <1>4, <1>5 DEF Init, CurrentInv
<1>8. FilesInv
  BY <1>3, <1>4, <1>5 DEF FilesInv
<1>9. \A g \in Agents : Told(agent[g])
  BY <1>3, <1>4
<1> QED BY <1>6, <1>7, <1>8, <1>9 DEF IInv

LEMMA NextIInv == IInv /\ [Next]_vars => IInv'
<1> SUFFICES ASSUME IInv, [Next]_vars PROVE IInv'
  OBVIOUS
<1>1. CASE Drain
  BY <1>1, DrainAskIInv, DrainEndIInv DEF Drain
<1>2. CASE User
  BY <1>2, SubmitIInv, ReplyIInv, CancelTurnIInv, ForceAbortIInv, CommandsIInv, CloseTabIInv
     DEF User
<1>3. CASE \E g \in Spawned : AgentStep(g)
  BY <1>3, AgentStepIInv
<1>4. CASE UNCHANGED vars
  BY <1>4 DEF vars, ui, history, IInv, TypeOK, CurrentInv, FilesInv, Open, Waits, Busy, Saved,
              Resting, Told, Spawned
<1> QED BY <1>1, <1>2, <1>3, <1>4 DEF Next

(* Whatever the threads, the channels and the user do, in any number of    *)
(* turns and of agents: who waits for an answer has its question on the    *)
(* way, and a prompt that takes input has an agent with nothing to do      *)
(* (ui.rs, on_modal_key and drain; worker.rs, GuiPermissionPrompter).      *)
THEOREM PairedQuestions == Spec => []QuestionsArePaired
<1>1. IInv => QuestionsArePaired
  <2> SUFFICES ASSUME IInv PROVE QuestionsArePaired
    OBVIOUS
  <2>1. QuestionsMatchAnswers
    BY CurrentKnown DEF QuestionsMatchAnswers, Waits
  <2>2. IdleTabHasIdleAgent
    <3> SUFFICES ASSUME Open, ~running
                 PROVE  /\ agent[current].inbox = <<>> /\ agent[current].pc \notin InTurn
                        /\ modal = "none"
      BY DEF IdleTabHasIdleAgent
    <3> DEFINE a == agent[current]
    <3>1. /\ a \in Agent /\ Waits(a, modal) /\ Busy(a, running) /\ current \in Spawned
          /\ running \in BOOLEAN /\ modal \in Asks \cup {"none"}
      BY CurrentKnown DEF IInv, TypeOK
    <3>2. a.inbox = <<>> /\ a.pc \notin InTurn
      <4>1. CASE a.pc = "gone"
        BY <3>1, <4>1 DEF Busy, InTurn
      <4>2. CASE a.pc # "gone"
        <5>1. Len(a.inbox) = 0 /\ a.pc \notin InTurn /\ a.inbox \in Seq(Turns)
          BY <3>1, <4>2, BusyMeans, Fields
        <5> QED BY <5>1, EmptySeq
      <4> QED BY <4>1, <4>2
    <3>3. a.pc \notin Asks
      BY <3>2 DEF Asks, InTurn
    <3>4. modal = "none"
      BY <3>1, <3>3, NothingAsked
    <3> QED BY <3>2, <3>4
  <2> QED BY <2>1, <2>2 DEF QuestionsArePaired, IInv
<1> QED BY InitIInv, NextIInv, <1>1, PTL DEF Spec

(* As long as no agent was replaced in the middle of something, what an    *)
(* idle agent knows is on file (worker.rs, save_to_path after each turn;   *)
(* ui.rs, the commands that replace an agent).                             *)
THEOREM SavedWhenIdle == Spec => []IdleAgentIsSaved
<1>1. IInv => IdleAgentIsSaved
  BY DEF IInv, FilesInv, Saved, IdleAgentIsSaved
<1> QED BY InitIInv, NextIInv, <1>1, PTL DEF Spec

(* The only step that starts a tool looks at the flag first.               *)
LEMMA ToolStart ==
  ASSUME IInv, Next, NEW g \in Spawned, agent[g].pc # "work", agent'[g].pc = "work"
  PROVE  ~agent[g].cancel
<1>1. /\ agent \in [Agents -> Agent] /\ g \in Agents /\ agent[g] \in Agent
      /\ g # spawned + 1
  BY TabAssumption DEF IInv, TypeOK, Agents, Spawned
<1>2. /\ DOMAIN agent = Agents
      /\ \A h \in Agents : \A k \in {"pc", "cancel", "inbox", "outbox", "replies", "told"} :
           k \in DOMAIN agent[h]
  BY <1>1 DEF Agent
<1>3. CASE Drain
  <2>1. CASE DrainAsk
    BY <1>1, <1>2, <2>1 DEF DrainAsk
  <2>2. CASE DrainEnd
    BY <1>1, <1>2, <2>2 DEF DrainEnd
  <2> QED BY <1>3, <2>1, <2>2 DEF Drain
<1>4. CASE User
  <2>1. CASE Submit \/ CancelTurn
    BY <1>1, <1>2, <2>1 DEF Submit, CancelTurn
  <2>2. CASE Reply
    <3>1. PICK yes \in BOOLEAN :
            agent' = [agent EXCEPT ![current].replies[modal] = Append(@, yes)]
      BY <2>2 DEF Reply
    <3> QED BY <1>1, <1>2, <3>1
  <2>3. CASE ForceAbort
    <3> DEFINE a == [agent EXCEPT ![current].cancel = TRUE]
    <3>1. PICK s, persists : Replace(a, s, persists)
      BY <2>3 DEF ForceAbort
    <3>2. a[g].pc = agent[g].pc /\ DOMAIN a = Agents
      BY <1>1, <1>2
    <3>3. agent'[g] = a[g]
      <4> HIDE DEF a
      <4> QED BY <1>1, <3>1, <3>2 DEF Replace
    <3> QED BY <3>2, <3>3
  <2>4. ASSUME NEW s, NEW persists, Replace(agent, s, persists) PROVE FALSE
    BY <1>1, <2>4 DEF Replace
  <2>5. CASE Respawn \/ Compact \/ Rewind \/ CloseTab
    BY <2>4, <2>5 DEF Respawn, Compact, Rewind, CloseTab
  <2> QED BY <1>4, <2>1, <2>2, <2>3, <2>5 DEF User
<1>5. CASE \E h \in Spawned : AgentStep(h)
  <2>1. PICK h \in Spawned : AgentStep(h)
    BY <1>5
  <2>2. CASE h # g
    BY <1>1, <2>1, <2>2 DEF AgentStep, Start, FailToStart, ReceivePrompt, Exit, BeginStream,
       FailTurn, Answer, CallTools, Dispatch, TakePermission, Execute, FinishWork, TakeAnswer,
       Save, Continue, Become
  <2>3. CASE h = g
    <3> DEFINE a == agent[g]
    <3>0. ASSUME NEW b, Become(g, b) PROVE b.pc = "work"
      BY <1>1, <3>0 DEF Become
    <3>1. ASSUME NEW a1 \in Agent, Continue(g, a1) PROVE FALSE
      <4>1. CASE Become(g, [a1 EXCEPT !.pc = "request"])
        <5> DEFINE b == [a1 EXCEPT !.pc = "request"]
        <5>1. Become(g, b)
          BY <4>1
        <5>2. b.pc = "request"
          BY <1>1 DEF Agent
        <5> HIDE DEF b
        <5> QED BY <3>0, <5>1, <5>2
      <4>2. CASE Become(g, [a1 EXCEPT !.pc = "dispatch", !.tools = @ + 1])
        <5> DEFINE b == [a1 EXCEPT !.pc = "dispatch", !.tools = @ + 1]
        <5>1. Become(g, b)
          BY <4>2
        <5>2. b.pc = "dispatch"
          BY <1>1 DEF Agent
        <5> HIDE DEF b
        <5> QED BY <3>0, <5>1, <5>2
      <4> QED BY <3>1, <4>1, <4>2 DEF Continue
    <3>2. CASE Start(g) \/ Exit(g) \/ BeginStream(g) \/ Save(g)
      <4>1. PICK pc \in {"wait", "gone", "stream"} : Become(g, [a EXCEPT !.pc = pc])
        BY <3>2 DEF Start, Exit, BeginStream, Save
      <4> QED BY <1>1, <3>0, <4>1 DEF Agent
    <3>3. CASE FailTurn(g) \/ Answer(g) \/ CallTools(g) \/ FailToStart(g) \/ ReceivePrompt(g)
      <4>1. CASE FailTurn(g)
        <5> DEFINE b == [a EXCEPT !.pc = "save", !.outbox = Sent(g, "error"), !.told = FALSE]
        <5>1. Become(g, b)
          BY <4>1 DEF FailTurn
        <5>2. b.pc = "save"
          BY <1>1 DEF Agent
        <5> HIDE DEF b
        <5> QED BY <3>0, <5>1, <5>2
      <4>2. CASE Answer(g)
        <5> DEFINE a1 == [a EXCEPT !.session.messages = Pushed(a, "agent")]
        <5>1. PICK s : Become(g, [a1 EXCEPT !.pc = "save", !.outbox = Sent(g, "done"), !.told = FALSE,
                                            !.session = s])
          BY <4>2 DEF Answer
        <5> DEFINE b == [a1 EXCEPT !.pc = "save", !.outbox = Sent(g, "done"), !.told = FALSE,
                                   !.session = s]
        <5>2. b.pc = "save"
          BY <1>1 DEF Agent
        <5> HIDE DEF b
        <5> QED BY <3>0, <5>1, <5>2 DEF b
      <4>3. CASE CallTools(g)
        <5> DEFINE b == [a EXCEPT !.pc = "dispatch", !.tools = @ + 1]
        <5>1. Become(g, b)
          BY <4>3 DEF CallTools
        <5>2. b.pc = "dispatch"
          BY <1>1 DEF Agent
        <5> HIDE DEF b
        <5> QED BY <3>0, <5>1, <5>2
      <4>4. CASE FailToStart(g)
        <5> DEFINE b == [a EXCEPT !.pc = "gone", !.inbox = <<>>, !.outbox = Append(@, "error")]
        <5>1. Become(g, b)
          BY <4>4 DEF FailToStart
        <5>2. b.pc = "gone"
          BY <1>1 DEF Agent
        <5> HIDE DEF b
        <5> QED BY <3>0, <5>1, <5>2
      <4>5. CASE ReceivePrompt(g)
        <5> DEFINE a1 == [a EXCEPT !.turn = Head(a.inbox)]
                   b == [a1 EXCEPT !.pc = "request", !.cancel = FALSE, !.tools = 0,
                                   !.inbox = Tail(@), !.told = FALSE,
                                   !.session.messages = Pushed(a1, "user")]
        <5>1. Become(g, b)
          BY <4>5 DEF ReceivePrompt
        <5>2. b.pc = "request"
          BY <1>1 DEF Agent
        <5> HIDE DEF b
        <5> QED BY <3>0, <5>1, <5>2
      <4> QED BY <3>3, <4>1, <4>2, <4>3, <4>4, <4>5
    <3>4. CASE Dispatch(g)
      <4>1. CASE Become(g, [a EXCEPT !.pc = "execute"])
        BY <1>1, <3>0, <4>1 DEF Agent
      <4>2. CASE Become(g, [a EXCEPT !.pc = "permission", !.outbox = Sent(g, "permission")])
        <5> DEFINE b == [a EXCEPT !.pc = "permission", !.outbox = Sent(g, "permission")]
        <5>1. Become(g, b)
          BY <4>2
        <5>2. b.pc = "permission"
          BY <1>1 DEF Agent
        <5> HIDE DEF b
        <5> QED BY <3>0, <5>1, <5>2
      <4> QED BY <1>1, <3>1, <3>4, <4>1, <4>2 DEF Dispatch
    <3>5. CASE TakePermission(g) \/ TakeAnswer(g)
      <4>1. PICK ask \in Asks : \E r \in Received(g, ask) :
              /\ agent[g].pc = ask
              /\ Continue(g, r.agent) \/ Become(g, [r.agent EXCEPT !.pc = "execute"])
        BY <3>5 DEF TakePermission, TakeAnswer, Asks
      <4>2. PICK r \in Received(g, ask) :
              Continue(g, r.agent) \/ Become(g, [r.agent EXCEPT !.pc = "execute"])
        BY <4>1
      <4>3. r.agent \in Agent
        BY <1>1, <4>1, <4>2, TakenReply
      <4> QED BY <1>1, <3>1, <4>2, <4>3 DEF Become, Agent
    <3>6. CASE Execute(g)
      BY <1>1, <3>1, <3>6 DEF Execute
    <3>7. CASE FinishWork(g)
      BY <1>1, <3>1, <3>7 DEF FinishWork
    <3> QED BY <2>1, <2>3, <3>2, <3>3, <3>4, <3>5, <3>6, <3>7 DEF AgentStep
  <2> QED BY <2>2, <2>3
<1> QED BY <1>3, <1>4, <1>5 DEF Next

(* After Esc a turn starts no tool: the flag stays up until the turn is    *)
(* over, and each tool looks at it (worker.rs, GuiToolExecutor::execute).  *)
THEOREM EscStopsTools == Spec => NoToolAfterCancel
<1> DEFINE Safe == \A g \in Spawned : agent[g].told => ~(agent[g].pc # "work" /\ agent'[g].pc = "work")
<1>1. IInv /\ [Next]_vars => [Safe]_vars
  <2> SUFFICES ASSUME IInv, Next, NEW g \in Spawned, agent[g].told, agent[g].pc # "work",
                      agent'[g].pc = "work"
               PROVE  FALSE
    OBVIOUS
  <2>1. g \in Agents
    BY TabAssumption DEF IInv, TypeOK, Agents, Spawned
  <2>2. agent[g].cancel
    BY <2>1 DEF IInv, Told
  <2> QED BY <2>2, ToolStart
<1> QED BY InitIInv, NextIInv, <1>1, PTL DEF Spec, NoToolAfterCancel

=============================================================================
