--------------------------- MODULE GuiWindowProofs ---------------------------
(***************************************************************************)
(* Proofs about the graphical client (GuiWindow), for any set of tabs and  *)
(* any number of prompts and calls: the tabs shown, the indicator of each, *)
(* and, unless requests crossed, the answers reach who asked.              *)
(***************************************************************************)
EXTENDS MCGuiWindow, SequenceTheorems, WellFoundedInduction, TLAPS

(* What the state is made of.                                              *)
Request == Tabs \X Nat
Shows == Request \cup {None}
Agent == [pc : {"none", "start", "idle", "ended", "model", "gate", "askPerm", "askUser",
                "execute", "tool", "save"},
          asks : Nat, calls : Nat, got : Shows]
Message == [type : {"busy", "over", "idle", "perm", "question"}, ask : Shows]
Answer == [ask : Shows, allow : BOOLEAN]

Distinct(seq) == \A i, j \in 1..Len(seq) : seq[i] = seq[j] => i = j

WindowInv ==
    /\ open \in Seq(Tabs) /\ Distinct(open) /\ active \in 1..Len(open)
    /\ modal \in Nat /\ perm \in Shows /\ question \in Shows
    /\ busy \in BOOLEAN /\ tabBusy \in [Tabs -> BOOLEAN] /\ crossed \in BOOLEAN
    /\ \A t \in ToSet(open) : agent[t].pc # "none"

ThreadsInv ==
    /\ agent \in [Tabs -> Agent] /\ cancel \in [Tabs -> BOOLEAN]
    /\ prompts \in [Tabs -> Nat] /\ sent \in [Tabs -> Nat]
    /\ events \in [Tabs -> Seq(Message)]
    /\ replies \in [Tabs -> Seq(Answer)] /\ answers \in [Tabs -> Seq(Shows)]

(* Nothing is there yet for a tab that was not opened.                     *)
FreshInv ==
    \A t \in Tabs : agent[t].pc = "none" =>
        /\ events[t] = << >> /\ ~tabBusy[t] /\ replies[t] = << >> /\ answers[t] = << >>

(* What the events of a tab will have said of it when they are drained.    *)
Running(a) == a.pc \notin {"none", "ended"}
Working(a) == a.pc \in {"model", "gate", "askPerm", "askUser", "execute", "tool"}
MarkFits(a, evs, mark) == Running(a) => (BusyAfter(evs, mark) <=> Working(a))
LightFits(a, n, evs, light, mark) ==
    Running(a) => n > 0 \/ (BusyAfter(evs, light) <=> BusyAfter(evs, mark))

BusyInv ==
    /\ \A t \in ToSet(open) : MarkFits(agent[t], events[t], tabBusy[t])
    /\ LET t == open[active] IN LightFits(agent[t], prompts[t], events[t], busy, tabBusy[t])

(* A request is on its way to the window, shown there, or answered.        *)
Place(type) == IF type = "perm" THEN "askPerm" ELSE "askUser"
OnItsWay(t, a, evs, rs, as) ==
    \A k \in AsksIn(evs, Requests) :
        /\ evs[k].ask = <<t, a.asks>> /\ a.pc = Place(evs[k].type) /\ rs = << >> /\ as = << >>
        /\ \A l \in AsksIn(evs, Requests) : k = l
InTheMail(t, a, rs, as) ==
    /\ rs # << >> => Len(rs) = 1 /\ rs[1].ask = <<t, a.asks>> /\ a.pc = "askPerm"
    /\ as # << >> => Len(as) = 1 /\ as[1] = <<t, a.asks>> /\ a.pc = "askUser"
    /\ a.got \in {None, <<t, a.asks>>} /\ (a.pc = "gate" => a.got = None)
IsShown(ask, place, t, a, evs, box) ==
    ask = <<t, a.asks>> /\ a.pc = place /\ box = << >> /\ AsksIn(evs, Requests) = {}

Asked ==
    /\ \A t \in ToSet(open) : OnItsWay(t, agent[t], events[t], replies[t], answers[t])
    /\ \A t \in Tabs : InTheMail(t, agent[t], replies[t], answers[t])
    /\ perm # None => /\ modal \in 1..Len(open) /\ question = None
                      /\ LET t == open[modal]
                         IN  IsShown(perm, "askPerm", t, agent[t], events[t], replies[t])
    /\ question # None => /\ modal \in 1..Len(open) /\ perm = None
                          /\ LET t == open[modal]
                             IN  IsShown(question, "askUser", t, agent[t], events[t], answers[t])
    /\ perm = None /\ question = None => modal = 0

AskInv == ~crossed => Asked

-----------------------------------------------------------------------------
(* Sets of numbers and sequences *)

LEMMA LeastNat ==
  ASSUME NEW T \in SUBSET Nat, T # {}
  PROVE  \E x \in T : \A y \in T : x <= y
<1> DEFINE R == {ss \in Nat \X Nat : ss[1] < ss[2]}
<1>1. IsWellFoundedOn(R, Nat)
  BY NatLessThanWellFounded DEF OpToRel
<1> HIDE DEF R
<1>2. PICK x \in T : \A y \in T : ~(<<y, x>> \in R)
  BY <1>1, WFMin
<1>3. ASSUME NEW y \in T, ~(x <= y) PROVE FALSE
  <2>1. <<y, x>> \in Nat \X Nat /\ y < x
    BY <1>3
  <2>2. <<y, x>> \in R
    BY <2>1 DEF R
  <2> QED BY <1>2, <2>2
<1> QED BY <1>3

LEMMA MaxIn ==
  ASSUME NEW n \in Nat, NEW S \in SUBSET (1..n), S # {}
  PROVE  Max(S) \in S /\ Max(S) \in 1..n
<1> DEFINE T == {m \in 0..n : n - m \in S}
<1>1. T \in SUBSET Nat
  OBVIOUS
<1>2. T # {}
  <2>1. PICK s : s \in S
    OBVIOUS
  <2>2. n - s \in T
    BY <2>1
  <2> QED BY <2>2
<1>3. PICK m \in T : \A k \in T : m <= k
  BY <1>1, <1>2, LeastNat
<1>4. n - m \in S /\ m \in 0..n
  BY <1>3
<1>5. \A s \in S : n - m >= s
  <2> TAKE s \in S
  <2>1. n - s \in T /\ s \in 1..n
    OBVIOUS
  <2>2. m <= n - s
    BY <1>3, <2>1
  <2> QED BY <1>4, <2>1, <2>2
<1> QED BY <1>4, <1>5 DEF Max

LEMMA MaxOfOne == ASSUME NEW n \in Nat PROVE Max({n}) = n
<1>1. Max({n}) = CHOOSE x \in {n} : \A y \in {n} : x >= y
  BY DEF Max
<1>2. n \in {n} /\ \A y \in {n} : n >= y
  OBVIOUS
<1> QED BY <1>1, <1>2

LEMMA NoneIsNoRequest == None \notin Request
BY DEF None, Request

LEMMA InOpen ==
  ASSUME NEW seq \in Seq(Tabs), NEW t
  PROVE  t \in ToSet(seq) <=> \E i \in 1..Len(seq) : seq[i] = t
BY DEF ToSet

-----------------------------------------------------------------------------
(* Events *)

LEMMA AppendOne ==
  ASSUME NEW evs \in Seq(Message), NEW e \in Message
  PROVE  /\ Append(evs, e) \in Seq(Message) /\ Len(evs) \in Nat
         /\ DOMAIN evs = 1..Len(evs) /\ DOMAIN Append(evs, e) = 1..(Len(evs) + 1)
         /\ Append(evs, e)[Len(evs) + 1] = e
         /\ \A k \in 1..Len(evs) : Append(evs, e)[k] = evs[k]
OBVIOUS

LEMMA Indication ==
  ASSUME NEW evs \in Seq(Message), NEW e \in Message, NEW b \in BOOLEAN,
         e.type \in {"busy", "over", "idle"}
  PROVE  BusyAfter(Append(evs, e), b) <=> e.type = "busy"
<1> DEFINE more == Append(evs, e)
           n == Len(evs) + 1
           said == {k \in DOMAIN more : more[k].type \in {"busy", "over", "idle"}}
<1>1. n \in said /\ more[n] = e /\ \A k \in said : k \in 1..n /\ n \in Nat
  BY AppendOne
<1>2. BusyAfter(more, b) <=> \E k \in said : more[k].type = "busy" /\ \A j \in said : j <= k
  BY <1>1 DEF BusyAfter
<1> HIDE DEF said, more, n
<1>3. \A k \in said : (\A j \in said : j <= k) => k = n
  BY <1>1
<1>4. \A j \in said : j <= n
  BY <1>1
<1> QED BY <1>1, <1>2, <1>3, <1>4 DEF more

LEMMA NoIndication ==
  ASSUME NEW evs \in Seq(Message), NEW e \in Message, NEW b \in BOOLEAN,
         e.type \notin {"busy", "over", "idle"}
  PROVE  BusyAfter(Append(evs, e), b) <=> BusyAfter(evs, b)
<1> DEFINE more == Append(evs, e)
           T == {"busy", "over", "idle"}
           said == {k \in DOMAIN evs : evs[k].type \in T}
<1>1. /\ \A k \in DOMAIN evs : k \in DOMAIN more /\ more[k] = evs[k]
      /\ \A k \in DOMAIN more : k \in DOMAIN evs \/ more[k] = e
  BY AppendOne
<1>2. {k \in DOMAIN more : more[k].type \in T} = said
  BY <1>1
<1>3. \A k \in said : more[k] = evs[k]
  BY <1>1
<1>4. BusyAfter(more, b) <=> IF said = {} THEN b
                             ELSE \E k \in said : more[k].type = "busy" /\ \A j \in said : j <= k
  BY <1>2 DEF BusyAfter
<1>5. BusyAfter(evs, b) <=> IF said = {} THEN b
                            ELSE \E k \in said : evs[k].type = "busy" /\ \A j \in said : j <= k
  BY DEF BusyAfter
<1> HIDE DEF said, more
<1> QED BY <1>3, <1>4, <1>5 DEF more

LEMMA Drained == ASSUME NEW b \in BOOLEAN PROVE BusyAfter(<< >>, b) <=> b
<1>1. DOMAIN << >> = {}
  OBVIOUS
<1> QED BY <1>1 DEF BusyAfter

LEMMA AsksAppend ==
  ASSUME NEW evs \in Seq(Message), NEW e \in Message
  PROVE  AsksIn(Append(evs, e), Requests) =
           AsksIn(evs, Requests) \cup (IF e.type \in Requests THEN {Len(evs) + 1} ELSE {})
BY AppendOne DEF AsksIn

(* The three things that are sent.                                         *)
LEMMA Sent ==
  ASSUME NEW evs \in Seq(Message), NEW t \in Tabs, NEW n \in Nat
  PROVE  /\ \A y \in {"busy", "over", "idle"} :
              /\ Event(y, None) \in Message /\ Event(y, None).type = y
              /\ evs \o Say(y) = Append(evs, Event(y, None))
         /\ \A y \in {"perm", "question"} :
              /\ Event(y, <<t, n>>) \in Message /\ Event(y, <<t, n>>).type = y
              /\ Event(y, <<t, n>>).ask = <<t, n>>
              /\ evs \o (Say("busy") \o <<Event(y, <<t, n>>)>>)
                   = Append(Append(evs, Event("busy", None)), Event(y, <<t, n>>))
<1>1. \A y \in {"busy", "over", "idle"} :
        Event(y, None) \in Message /\ Event(y, None).type = y
  BY DEF Event, Message, Shows
<1>2. \A y \in {"perm", "question"} :
        /\ Event(y, <<t, n>>) \in Message /\ Event(y, <<t, n>>).type = y
        /\ Event(y, <<t, n>>).ask = <<t, n>>
  BY DEF Event, Message, Shows, Request
<1>3. ASSUME NEW e \in Message PROVE evs \o <<e>> = Append(evs, e)
  OBVIOUS
<1>4. ASSUME NEW d \in Message, NEW e \in Message
      PROVE  evs \o (<<d>> \o <<e>>) = Append(Append(evs, d), e)
  OBVIOUS
<1> QED BY <1>1, <1>2, <1>3, <1>4 DEF Say
-----------------------------------------------------------------------------
(* A step of one agent *)

Inv == WindowInv /\ ThreadsInv /\ FreshInv /\ BusyInv /\ AskInv

(* Only what is the agent's own changes.                                   *)
Moves(t) ==
    /\ \A u \in Tabs : u # t =>
         /\ agent'[u] = agent[u] /\ events'[u] = events[u] /\ prompts'[u] = prompts[u]
         /\ replies'[u] = replies[u] /\ answers'[u] = answers[u]
    /\ agent[t].pc # "none" /\ agent'[t].pc # "none"
    /\ ThreadsInv'
    /\ UNCHANGED <<window, busy, tabBusy, crossed>>

LEMMA MovesKeep ==
  ASSUME Inv, NEW t \in Tabs, Moves(t),
         t \in ToSet(open) => MarkFits(agent'[t], events'[t], tabBusy[t]),
         t = open[active] => LightFits(agent'[t], prompts'[t], events'[t], busy, tabBusy[t]),
         Asked /\ ~crossed =>
           /\ t \in ToSet(open) => OnItsWay(t, agent'[t], events'[t], replies'[t], answers'[t])
           /\ InTheMail(t, agent'[t], replies'[t], answers'[t])
           /\ perm # None \/ question # None => open[modal] # t
  PROVE  Inv'
<1>1. /\ UNCHANGED <<open, active, modal, perm, question, busy, tabBusy, crossed>> /\ ThreadsInv'
      /\ \A u \in Tabs : u # t =>
           /\ agent'[u] = agent[u] /\ events'[u] = events[u] /\ prompts'[u] = prompts[u]
           /\ replies'[u] = replies[u] /\ answers'[u] = answers[u]
      /\ agent[t].pc # "none" /\ agent'[t].pc # "none"
  BY DEF Moves, window
<1>2. /\ open \in Seq(Tabs) /\ active \in 1..Len(open) /\ ToSet(open) \subseteq Tabs
      /\ open[active] \in Tabs /\ \A i \in 1..Len(open) : open[i] \in Tabs /\ open[i] \in ToSet(open)
  <2>1. open \in Seq(Tabs) /\ active \in 1..Len(open)
    BY DEF Inv, WindowInv
  <2> QED BY <2>1 DEF ToSet
<1>3. WindowInv'
  <2>1. \A u \in ToSet(open) : agent'[u].pc # "none"
    BY <1>1, <1>2 DEF Inv, WindowInv
  <2> QED BY <1>1, <2>1 DEF Inv, WindowInv
<1>4. FreshInv'
  <2> SUFFICES ASSUME NEW u \in Tabs, agent'[u].pc = "none"
               PROVE  events'[u] = << >> /\ ~tabBusy'[u] /\ replies'[u] = << >> /\ answers'[u] = << >>
    BY DEF FreshInv
  <2> QED BY <1>1 DEF Inv, FreshInv
<1>5. BusyInv'
  <2>1. ASSUME NEW u \in ToSet(open) PROVE MarkFits(agent'[u], events'[u], tabBusy[u])
    <3>1. CASE u = t
      BY <3>1
    <3>2. CASE u # t
      BY <1>1, <1>2, <3>2 DEF Inv, BusyInv
    <3> QED BY <3>1, <3>2
  <2>2. LightFits(agent'[open[active]], prompts'[open[active]], events'[open[active]], busy,
                  tabBusy[open[active]])
    <3>1. CASE open[active] = t
      BY <3>1
    <3>2. CASE open[active] # t
      BY <1>1, <1>2, <3>2 DEF Inv, BusyInv
    <3> QED BY <3>1, <3>2
  <2> QED BY <1>1, <2>1, <2>2 DEF BusyInv
<1>6. ASSUME ~crossed PROVE Asked'
  <2>1. Asked
    BY <1>6 DEF Inv, AskInv
  <2>2. ASSUME NEW u \in ToSet(open)
        PROVE  OnItsWay(u, agent'[u], events'[u], replies'[u], answers'[u])
    <3>1. CASE u = t
      BY <1>6, <2>1, <3>1
    <3>2. CASE u # t
      BY <1>1, <1>2, <2>1, <3>2 DEF Asked
    <3> QED BY <3>1, <3>2
  <2>3. ASSUME NEW u \in Tabs PROVE InTheMail(u, agent'[u], replies'[u], answers'[u])
    <3>1. CASE u = t
      BY <1>6, <2>1, <3>1
    <3>2. CASE u # t
      BY <1>1, <2>1, <3>2 DEF Asked
    <3> QED BY <3>1, <3>2
  <2>4. perm # None \/ question # None =>
          LET u == open[modal] IN
          agent'[u] = agent[u] /\ events'[u] = events[u] /\ replies'[u] = replies[u] /\ answers'[u] = answers[u]
    <3>1. perm # None \/ question # None => open[modal] # t /\ modal \in 1..Len(open)
      BY <1>6, <2>1 DEF Asked
    <3> QED BY <1>1, <1>2, <3>1
  <2> QED BY <1>1, <2>1, <2>2, <2>3, <2>4 DEF Asked
<1>7. AskInv'
  BY <1>1, <1>6 DEF AskInv
<1> QED BY <1>1, <1>3, <1>4, <1>5, <1>7 DEF Inv

(* An agent that asks nothing has nothing under way.                       *)
LEMMA NothingAsked ==
  ASSUME Inv, NEW t \in Tabs, agent[t].pc \notin {"askPerm", "askUser"}, Asked
  PROVE  /\ t \in ToSet(open) => AsksIn(events[t], Requests) = {}
         /\ replies[t] = << >> /\ answers[t] = << >>
         /\ agent[t].got \in {None, <<t, agent[t].asks>>}
         /\ perm # None \/ question # None => open[modal] # t
<1>1. t \in ToSet(open) => AsksIn(events[t], Requests) = {}
  <2>1. \A y : Place(y) \in {"askPerm", "askUser"}
    BY DEF Place
  <2> QED BY <2>1 DEF Asked, OnItsWay
<1> QED BY <1>1 DEF Asked, InTheMail, IsShown

(* A step between two places where nothing is asked.                       *)
LEMMA FreeMove ==
  ASSUME Inv, NEW t \in Tabs, Moves(t),
         agent[t].pc \notin {"askPerm", "askUser"}, agent'[t].pc \notin {"askPerm", "askUser"},
         agent'[t].asks = agent[t].asks, agent'[t].got \in {agent[t].got, None},
         agent'[t].pc = "gate" => agent'[t].got = None,
         UNCHANGED <<replies, answers>>,
         \/ t \notin ToSet(open)
         \/ /\ events'[t] = events[t] /\ prompts'[t] = prompts[t]
            /\ Running(agent'[t]) => Running(agent[t]) /\ (Working(agent'[t]) <=> Working(agent[t]))
         \/ \E y \in {"busy", "over", "idle"} :
              /\ events'[t] = Append(events[t], Event(y, None))
              /\ Running(agent'[t]) => (Working(agent'[t]) <=> y = "busy")
  PROVE  Inv'
<1>1. /\ events[t] \in Seq(Message) /\ agent[t].asks \in Nat
      /\ tabBusy[t] \in BOOLEAN /\ busy \in BOOLEAN
  BY DEF Inv, ThreadsInv, WindowInv, Agent
<1>2. /\ open[active] \in ToSet(open)
      /\ t \in ToSet(open) => MarkFits(agent[t], events[t], tabBusy[t])
      /\ t = open[active] => LightFits(agent[t], prompts[t], events[t], busy, tabBusy[t])
  <2>1. open \in Seq(Tabs) /\ active \in 1..Len(open)
    BY DEF Inv, WindowInv
  <2> QED BY <2>1, InOpen DEF Inv, BusyInv
<1>3. ASSUME t \notin ToSet(open)
      PROVE  Inv'
  <2>1. Asked => InTheMail(t, agent'[t], replies'[t], answers'[t])
                 /\ (perm # None \/ question # None => open[modal] # t)
    BY NothingAsked DEF InTheMail
  <2> QED BY <1>2, <1>3, <2>1, MovesKeep
<1>4. ASSUME AsksIn(events'[t], Requests) = AsksIn(events[t], Requests),
             t \in ToSet(open)
      PROVE  Asked => /\ OnItsWay(t, agent'[t], events'[t], replies'[t], answers'[t])
                      /\ InTheMail(t, agent'[t], replies'[t], answers'[t])
                      /\ perm # None \/ question # None => open[modal] # t
  BY <1>4, NothingAsked DEF InTheMail, OnItsWay
<1>5. ASSUME t \in ToSet(open), events'[t] = events[t], prompts'[t] = prompts[t],
             Running(agent'[t]) => Running(agent[t]) /\ (Working(agent'[t]) <=> Working(agent[t]))
      PROVE  Inv'
  <2>1. MarkFits(agent'[t], events'[t], tabBusy[t])
    BY <1>2, <1>5 DEF MarkFits
  <2>2. t = open[active] => LightFits(agent'[t], prompts'[t], events'[t], busy, tabBusy[t])
    BY <1>2, <1>5 DEF LightFits
  <2> QED BY <1>4, <1>5, <2>1, <2>2, MovesKeep
<1>6. ASSUME t \in ToSet(open), NEW y \in {"busy", "over", "idle"},
             events'[t] = Append(events[t], Event(y, None)),
             Running(agent'[t]) => (Working(agent'[t]) <=> y = "busy")
      PROVE  Inv'
  <2>1. Event(y, None) \in Message /\ Event(y, None).type = y
    BY <1>1, Sent
  <2>2. \A b \in BOOLEAN : BusyAfter(events'[t], b) <=> y = "busy"
    BY <1>1, <1>6, <2>1, Indication
  <2>3. MarkFits(agent'[t], events'[t], tabBusy[t])
    BY <1>1, <1>6, <2>2 DEF MarkFits
  <2>4. t = open[active] => LightFits(agent'[t], prompts'[t], events'[t], busy, tabBusy[t])
    BY <1>1, <2>2 DEF LightFits
  <2>5. AsksIn(events'[t], Requests) = AsksIn(events[t], Requests)
    <3>1. y \notin Requests
      BY DEF Requests
    <3> QED BY <1>1, <1>6, <2>1, <3>1, AsksAppend
  <2> QED BY <1>4, <1>6, <2>3, <2>4, <2>5, MovesKeep
<1> QED BY <1>3, <1>5, <1>6

(* What Send does.                                                         *)
LEMMA SendFacts ==
  ASSUME Inv, NEW t \in Tabs, NEW evs \in Seq(Message), agent[t].pc # "none", Send(t, evs)
  PROVE  /\ events' \in [Tabs -> Seq(Message)]
         /\ \A u \in Tabs : u # t => events'[u] = events[u]
         /\ t \in ToSet(open) => events'[t] = events[t] \o evs
<1>1. events \in [Tabs -> Seq(Message)]
  BY DEF Inv, ThreadsInv
<1> DEFINE new == IF Closed(t) THEN events[t] ELSE events[t] \o evs
<1>2. events' = [events EXCEPT ![t] = new]
  BY DEF Send
<1>3. new \in Seq(Message)
  BY <1>1
<1>4. t \in ToSet(open) => new = events[t] \o evs
  BY DEF Closed
<1> HIDE DEF new
<1> QED BY <1>1, <1>2, <1>3, <1>4

LEMMA SaidFacts ==
  ASSUME Inv, NEW t \in Tabs, NEW y \in {"busy", "over", "idle"}, agent[t].pc # "none",
         Send(t, Say(y))
  PROVE  /\ events' \in [Tabs -> Seq(Message)]
         /\ \A u \in Tabs : u # t => events'[u] = events[u]
         /\ t \in ToSet(open) => events'[t] = Append(events[t], Event(y, None))
<1>1. Event(y, None) \in Message /\ events[t] \in Seq(Message) /\ 0 \in Nat
  BY Sent DEF Inv, ThreadsInv
<1>2. Say(y) \in Seq(Message)
  BY <1>1 DEF Say
<1>3. events[t] \o Say(y) = Append(events[t], Event(y, None))
  BY <1>1, Sent
<1> QED BY <1>2, <1>3, SendFacts

(* What Goto does.                                                         *)
LEMMA GotoFacts ==
  ASSUME Inv, NEW t \in Tabs, NEW pc \in {"idle", "ended", "model", "execute", "tool", "save"}, Goto(t, pc)
  PROVE  /\ agent' \in [Tabs -> Agent] /\ agent'[t].pc = pc
         /\ agent'[t].asks = agent[t].asks /\ agent'[t].got = agent[t].got
         /\ \A u \in Tabs : u # t => agent'[u] = agent[u]
<1> DEFINE a == [agent[t] EXCEPT !.pc = pc]
<1>1. agent \in [Tabs -> Agent]
  BY DEF Inv, ThreadsInv
<1>2. agent' = [agent EXCEPT ![t] = a]
  BY DEF Goto
<1>3. a \in Agent /\ a.pc = pc /\ a.asks = agent[t].asks /\ a.got = agent[t].got
  BY <1>1 DEF Agent
<1> HIDE DEF a
<1> QED BY <1>1, <1>2, <1>3

(* Threads and channels of the other tabs are left alone, and those of t   *)
(* are what they were but for what is said here.                           *)
LEMMA AgentMoves ==
  ASSUME Inv, NEW t \in Tabs, agent[t].pc # "none", agent'[t].pc # "none",
         agent' \in [Tabs -> Agent], \A u \in Tabs : u # t => agent'[u] = agent[u],
         events' \in [Tabs -> Seq(Message)], \A u \in Tabs : u # t => events'[u] = events[u],
         prompts' \in [Tabs -> Nat], \A u \in Tabs : u # t => prompts'[u] = prompts[u],
         cancel' \in [Tabs -> BOOLEAN],
         replies' \in [Tabs -> Seq(Answer)], \A u \in Tabs : u # t => replies'[u] = replies[u],
         answers' \in [Tabs -> Seq(Shows)], \A u \in Tabs : u # t => answers'[u] = answers[u],
         UNCHANGED <<window, busy, tabBusy, sent, crossed>>
  PROVE  Moves(t)
BY DEF Moves, ThreadsInv, Inv

LEMMA TypesOf ==
  ASSUME Inv, NEW t \in Tabs
  PROVE  /\ agent \in [Tabs -> Agent] /\ events \in [Tabs -> Seq(Message)] /\ prompts \in [Tabs -> Nat]
         /\ cancel \in [Tabs -> BOOLEAN] /\ replies \in [Tabs -> Seq(Answer)]
         /\ answers \in [Tabs -> Seq(Shows)] /\ agent[t] \in Agent /\ agent[t].got \in Shows
         /\ agent[t].asks \in Nat /\ agent[t].calls \in Nat /\ events[t] \in Seq(Message)
         /\ tabBusy[t] \in BOOLEAN /\ busy \in BOOLEAN
BY DEF Inv, ThreadsInv, WindowInv, Agent

LEMMA StartAgentKeeps == ASSUME Inv, NEW t \in Tabs, StartAgent(t) PROVE Inv'
<1>1. /\ agent[t].pc = "start" /\ UNCHANGED <<prompts, replies, answers, cancel>>
      /\ UNCHANGED <<window, busy, tabBusy, sent, crossed>>
  BY DEF StartAgent
<1>2. CASE Goto(t, "idle") /\ UNCHANGED events
  <2>1. Moves(t)
    BY <1>1, <1>2, GotoFacts, TypesOf, AgentMoves
  <2> QED BY <1>1, <1>2, <2>1, GotoFacts, FreeMove DEF Running, Working
<1>3. CASE Goto(t, "ended") /\ Send(t, Say("over"))
  <2>1. Moves(t)
    BY <1>1, <1>3, GotoFacts, SaidFacts, TypesOf, AgentMoves
  <2> QED BY <1>1, <1>3, <2>1, GotoFacts, SaidFacts, FreeMove DEF Running
<1> QED BY <1>2, <1>3 DEF StartAgent

LEMMA TakePromptKeeps == ASSUME Inv, NEW t \in Tabs, TakePrompt(t) PROVE Inv'
<1>1. /\ agent[t].pc = "idle" /\ prompts[t] > 0 /\ UNCHANGED <<replies, answers>>
      /\ prompts' = [prompts EXCEPT ![t] = prompts[t] - 1]
      /\ cancel' = [cancel EXCEPT ![t] = FALSE]
      /\ Goto(t, "model") /\ Send(t, Say("busy"))
      /\ UNCHANGED <<window, busy, tabBusy, sent, crossed>>
  BY DEF TakePrompt
<1>2. /\ prompts' \in [Tabs -> Nat] /\ \A u \in Tabs : u # t => prompts'[u] = prompts[u]
      /\ cancel' \in [Tabs -> BOOLEAN]
  BY <1>1, TypesOf
<1>3. Moves(t)
  BY <1>1, <1>2, GotoFacts, SaidFacts, TypesOf, AgentMoves
<1> QED BY <1>1, <1>3, GotoFacts, SaidFacts, FreeMove DEF Working

LEMMA EndAgentKeeps == ASSUME Inv, NEW t \in Tabs, EndAgent(t) PROVE Inv'
<1>1. /\ agent[t].pc = "idle" /\ Goto(t, "ended") /\ UNCHANGED channels
      /\ UNCHANGED <<window, busy, tabBusy, cancel, sent, crossed>>
  BY DEF EndAgent
<1>2. Moves(t)
  BY <1>1, GotoFacts, TypesOf, AgentMoves DEF channels
<1> QED BY <1>1, <1>2, GotoFacts, FreeMove DEF Running, channels

LEMMA StreamKeeps == ASSUME Inv, NEW t \in Tabs, Stream(t) PROVE Inv'
<1>1. /\ agent[t].pc = "model" /\ UNCHANGED <<prompts, replies, answers, cancel>>
      /\ UNCHANGED <<window, busy, tabBusy, sent, crossed>>
  BY DEF Stream
<1>2. CASE /\ agent' = [agent EXCEPT ![t].pc = "gate", ![t].calls = @ + 1, ![t].got = None]
           /\ UNCHANGED events
  <2> DEFINE a == [agent[t] EXCEPT !.pc = "gate", !.calls = agent[t].calls + 1, !.got = None]
  <2>1. agent' = [agent EXCEPT ![t] = a]
    BY <1>2
  <2>2. a \in Agent /\ a.pc = "gate" /\ a.asks = agent[t].asks /\ a.got = None
    <3>1. agent[t] \in Agent /\ agent[t].calls + 1 \in Nat /\ None \in Shows
      BY TypesOf DEF Shows
    <3> QED BY <3>1 DEF Agent
  <2> HIDE DEF a
  <2>3. /\ agent' \in [Tabs -> Agent] /\ agent'[t] = a
        /\ \A u \in Tabs : u # t => agent'[u] = agent[u]
    BY <2>1, <2>2, TypesOf
  <2>4. Moves(t)
    BY <1>1, <1>2, <2>2, <2>3, TypesOf, AgentMoves
  <2> QED BY <1>1, <1>2, <2>2, <2>3, <2>4, FreeMove DEF Running, Working
<1>3. CASE Goto(t, "save") /\ Send(t, Say("over"))
  <2>1. Moves(t)
    BY <1>1, <1>3, GotoFacts, SaidFacts, TypesOf, AgentMoves
  <2> QED BY <1>1, <1>3, <2>1, GotoFacts, SaidFacts, FreeMove DEF Working
<1> QED BY <1>2, <1>3 DEF Stream

LEMMA ExecuteKeeps == ASSUME Inv, NEW t \in Tabs, Execute(t) PROVE Inv'
<1>1. /\ agent[t].pc = "execute" /\ UNCHANGED <<prompts, replies, answers, cancel>>
      /\ UNCHANGED <<window, busy, tabBusy, sent, crossed>>
  BY DEF Execute
<1>2. CASE Goto(t, "model") /\ UNCHANGED events
  <2>1. Moves(t)
    BY <1>1, <1>2, GotoFacts, TypesOf, AgentMoves
  <2> QED BY <1>1, <1>2, <2>1, GotoFacts, FreeMove DEF Running, Working
<1>3. CASE Goto(t, "tool") /\ Send(t, Say("busy"))
  <2>1. Moves(t)
    BY <1>1, <1>3, GotoFacts, SaidFacts, TypesOf, AgentMoves
  <2> QED BY <1>1, <1>3, <2>1, GotoFacts, SaidFacts, FreeMove DEF Working
<1> QED BY <1>2, <1>3 DEF Execute

(* A tool has ended, or the session is saved: what was answered is past.   *)
LEMMA EndsKeep ==
  ASSUME Inv, NEW t \in Tabs, ToolEnds(t) \/ Save(t)
  PROVE  Inv'
<1>1. PICK pc \in {"model", "idle"}, y \in {"busy", "idle"} :
        /\ agent[t].pc \in {"tool", "save"} /\ Send(t, Say(y)) /\ (pc = "model" <=> y = "busy")
        /\ agent' = [agent EXCEPT ![t].pc = pc, ![t].got = None]
        /\ UNCHANGED <<prompts, replies, answers, cancel, window, busy, tabBusy, sent, crossed>>
  BY DEF ToolEnds, Save
<1> DEFINE a == [agent[t] EXCEPT !.pc = pc, !.got = None]
<1>2. agent' = [agent EXCEPT ![t] = a]
  BY <1>1
<1>3. a \in Agent /\ a.pc = pc /\ a.asks = agent[t].asks /\ a.got = None
  BY TypesOf DEF Agent, Shows
<1> HIDE DEF a
<1>4. /\ agent' \in [Tabs -> Agent] /\ agent'[t] = a
      /\ \A u \in Tabs : u # t => agent'[u] = agent[u]
  BY <1>2, <1>3, TypesOf
<1>5. Moves(t)
  BY <1>1, <1>3, <1>4, SaidFacts, TypesOf, AgentMoves
<1> QED BY <1>1, <1>3, <1>4, <1>5, SaidFacts, FreeMove DEF Working

LEMMA GateKeeps == ASSUME Inv, NEW t \in Tabs, Gate(t) PROVE Inv'
<1>1. /\ agent[t].pc = "gate" /\ UNCHANGED <<prompts, replies, answers, cancel>>
      /\ UNCHANGED <<window, busy, tabBusy, sent, crossed>>
  BY DEF Gate
<1>2. CASE Goto(t, "execute") /\ UNCHANGED events
  <2>1. Moves(t)
    BY <1>1, <1>2, GotoFacts, TypesOf, AgentMoves
  <2> QED BY <1>1, <1>2, <2>1, GotoFacts, FreeMove DEF Running, Working
<1>3. ASSUME NEW y \in {"perm", "question"},
             agent' = [agent EXCEPT ![t].pc = Place(y), ![t].asks = @ + 1],
             Send(t, Say("busy") \o <<Event(y, <<t, agent[t].asks + 1>>)>>)
      PROVE  Inv'
  <2> DEFINE n == agent[t].asks + 1
             a == [agent[t] EXCEPT !.pc = Place(y), !.asks = agent[t].asks + 1]
             d == Event("busy", None)
             e == Event(y, <<t, n>>)
             more == Append(events[t], d)
  <2>1. n \in Nat /\ agent[t] \in Agent /\ events[t] \in Seq(Message)
    BY TypesOf
  <2>2. agent' = [agent EXCEPT ![t] = a]
    BY <1>3
  <2>3. a \in Agent /\ a.pc = Place(y) /\ a.asks = n /\ a.got = agent[t].got
    BY <2>1 DEF Agent, Place
  <2>4. /\ d \in Message /\ d.type = "busy" /\ e \in Message /\ e.type = y /\ e.ask = <<t, n>>
        /\ events[t] \o (Say("busy") \o <<e>>) = Append(more, e)
    <3>1. d \in Message /\ d.type = "busy"
      BY <2>1, Sent
    <3>2. /\ Event(y, <<t, n>>) \in Message /\ Event(y, <<t, n>>).type = y
          /\ Event(y, <<t, n>>).ask = <<t, n>>
          /\ events[t] \o (Say("busy") \o <<Event(y, <<t, n>>)>>)
               = Append(Append(events[t], Event("busy", None)), Event(y, <<t, n>>))
      <4> HIDE DEF n, d, e
      <4> QED BY <2>1, Sent
    <3> QED BY <3>1, <3>2
  <2>5. Say("busy") \o <<e>> \in Seq(Message)
    <3>1. Say("busy") = <<d>>
      BY DEF Say
    <3> QED BY <2>4, <3>1
  <2>6. Send(t, Say("busy") \o <<e>>)
    BY <1>3
  <2> HIDE DEF a, d, e
  <2>7. /\ agent' \in [Tabs -> Agent] /\ agent'[t] = a
        /\ \A u \in Tabs : u # t => agent'[u] = agent[u]
    BY <2>2, <2>3, TypesOf
  <2>8. /\ events' \in [Tabs -> Seq(Message)]
        /\ \A u \in Tabs : u # t => events'[u] = events[u]
        /\ t \in ToSet(open) => events'[t] = Append(more, e)
    BY <1>1, <2>4, <2>5, <2>6, SendFacts
  <2>9. Place(y) \in {"askPerm", "askUser"}
    BY DEF Place
  <2>10. Moves(t)
    BY <1>1, <2>3, <2>7, <2>8, <2>9, TypesOf, AgentMoves
  <2>11. more \in Seq(Message)
    BY <2>1, <2>4
  <2>12. ASSUME t \in ToSet(open), NEW b \in BOOLEAN PROVE BusyAfter(events'[t], b)
    <3>1. BusyAfter(more, b)
      BY <2>1, <2>4, Indication
    <3>2. BusyAfter(Append(more, e), b) <=> BusyAfter(more, b)
      <4>1. e.type \notin {"busy", "over", "idle"}
        BY <2>4
      <4> HIDE DEF more
      <4> QED BY <2>4, <2>11, <2>12, <4>1, NoIndication
    <3> QED BY <2>8, <2>12, <3>1, <3>2
  <2>13. t \in ToSet(open) => MarkFits(agent'[t], events'[t], tabBusy[t])
    BY <2>3, <2>7, <2>9, <2>12, TypesOf DEF MarkFits, Working
  <2>14. t = open[active] => LightFits(agent'[t], prompts'[t], events'[t], busy, tabBusy[t])
    <3>1. t = open[active] => t \in ToSet(open)
      BY InOpen DEF Inv, WindowInv
    <3> QED BY <2>12, <3>1, TypesOf DEF LightFits
  <2>15. ASSUME Asked, t \in ToSet(open)
         PROVE  OnItsWay(t, agent'[t], events'[t], replies'[t], answers'[t])
    <3>1. AsksIn(events[t], Requests) = {} /\ replies[t] = << >> /\ answers[t] = << >>
      BY <1>1, <2>15, NothingAsked
    <3>2. "busy" \notin Requests /\ y \in Requests
      BY DEF Requests
    <3>3. AsksIn(more, Requests) = {}
      BY <2>1, <2>4, <3>1, <3>2, AsksAppend
    <3>4. AsksIn(events'[t], Requests) = {Len(more) + 1}
      BY <2>4, <2>8, <2>11, <2>15, <3>2, <3>3, AsksAppend
    <3>5. events'[t][Len(more) + 1] = e
      BY <2>4, <2>8, <2>11, <2>15, AppendOne
    <3> QED BY <1>1, <2>3, <2>4, <2>7, <3>1, <3>4, <3>5 DEF OnItsWay
  <2>16. ASSUME Asked
         PROVE  /\ InTheMail(t, agent'[t], replies'[t], answers'[t])
                /\ perm # None \/ question # None => open[modal] # t
    <3>1. agent[t].got = None
      BY <1>1, <2>16 DEF Asked, InTheMail
    <3> QED BY <1>1, <2>3, <2>7, <2>9, <2>16, <3>1, NothingAsked DEF InTheMail
  <2> QED BY <2>10, <2>13, <2>14, <2>15, <2>16, MovesKeep
<1> QED BY <1>2, <1>3 DEF Gate, Place

(* An agent gets what it waited for.                                       *)
LEMMA AnsweredMove ==
  ASSUME Inv, NEW t \in Tabs, Moves(t), agent[t].pc \in {"askPerm", "askUser"},
         agent'[t].pc \in {"execute", "model"}, agent'[t].asks = agent[t].asks,
         UNCHANGED <<events, prompts>>,
         Asked => /\ t \in ToSet(open) => AsksIn(events[t], Requests) = {}
                  /\ replies'[t] = << >> /\ answers'[t] = << >>
                  /\ agent'[t].got \in {None, <<t, agent[t].asks>>}
                  /\ perm # None \/ question # None => open[modal] # t
  PROVE  Inv'
<1>1. /\ t \in ToSet(open) => MarkFits(agent'[t], events'[t], tabBusy[t])
      /\ t = open[active] => LightFits(agent'[t], prompts'[t], events'[t], busy, tabBusy[t])
  BY DEF Inv, BusyInv, MarkFits, LightFits, Running, Working
<1>2. Asked => /\ t \in ToSet(open) => OnItsWay(t, agent'[t], events'[t], replies'[t], answers'[t])
               /\ InTheMail(t, agent'[t], replies'[t], answers'[t])
               /\ perm # None \/ question # None => open[modal] # t
  BY DEF OnItsWay, InTheMail
<1> QED BY <1>1, <1>2, MovesKeep

(* A closed tab is shown nowhere.                                          *)
LEMMA ShownIsOpen ==
  ASSUME Inv, NEW t \in Tabs, t \notin ToSet(open), Asked
  PROVE  perm # None \/ question # None => open[modal] # t
<1>1. perm # None \/ question # None => modal \in 1..Len(open)
  BY DEF Asked
<1> QED BY <1>1, InOpen DEF Inv, WindowInv

LEMMA OneLetter ==
  ASSUME NEW S, NEW box \in Seq(S), box # << >>
  PROVE  /\ Tail(box) \in Seq(S) /\ Head(box) \in S /\ Head(box) = box[1]
         /\ Len(box) = 1 => Tail(box) = << >>
<1>1. /\ Tail(box) \in Seq(S) /\ Head(box) = box[1] /\ Len(Tail(box)) = Len(box) - 1
      /\ Len(box) \in Nat \ {0}
  BY HeadTailProperties, EmptySeq
<1>2. Head(box) \in S
  BY <1>1, ElementOfSeq
<1>3. Len(box) = 1 => Len(Tail(box)) = 0
  BY <1>1
<1> QED BY <1>1, <1>2, <1>3, EmptySeq

LEMMA TakeReplyKeeps == ASSUME Inv, NEW t \in Tabs, TakeReply(t) PROVE Inv'
<1>1. /\ agent[t].pc = "askPerm" /\ UNCHANGED <<prompts, events, answers, cancel>>
      /\ UNCHANGED <<window, busy, tabBusy, sent, crossed>>
  BY DEF TakeReply
<1>2. CASE /\ replies[t] # <<>>
           /\ replies' = [replies EXCEPT ![t] = Tail(@)]
           /\ agent' = [agent EXCEPT ![t].pc = IF Head(replies[t]).allow THEN "execute" ELSE "model",
                                     ![t].got = Head(replies[t]).ask]
  <2> DEFINE box == replies[t]
             rest == Tail(box)
             pc == IF Head(box).allow THEN "execute" ELSE "model"
             got == Head(box).ask
             a == [agent[t] EXCEPT !.pc = pc, !.got = got]
  <2>1. agent' = [agent EXCEPT ![t] = a] /\ replies' = [replies EXCEPT ![t] = rest]
    BY <1>2
  <2>2. box \in Seq(Answer) /\ box # << >>
    BY <1>2, TypesOf
  <2> HIDE DEF box
  <2>3. /\ rest \in Seq(Answer) /\ Head(box) \in Answer /\ Head(box) = box[1]
        /\ Len(box) = 1 => rest = << >>
    BY <2>2, OneLetter
  <2>4. got \in Shows /\ pc \in {"execute", "model"} /\ got = box[1].ask
    BY <2>3 DEF Answer
  <2> HIDE DEF rest, pc, got
  <2>5. a \in Agent /\ a.pc = pc /\ a.asks = agent[t].asks /\ a.got = got
    BY <2>4, TypesOf DEF Agent
  <2> HIDE DEF a
  <2>6. /\ agent' \in [Tabs -> Agent] /\ agent'[t] = a
        /\ \A u \in Tabs : u # t => agent'[u] = agent[u]
        /\ replies' \in [Tabs -> Seq(Answer)] /\ replies'[t] = rest
        /\ \A u \in Tabs : u # t => replies'[u] = replies[u]
    BY <2>1, <2>3, <2>5, TypesOf
  <2>7. Moves(t)
    BY <1>1, <2>4, <2>5, <2>6, TypesOf, AgentMoves
  <2>8. ASSUME Asked
        PROVE  /\ t \in ToSet(open) => AsksIn(events[t], Requests) = {}
               /\ rest = << >> /\ answers[t] = << >> /\ got = <<t, agent[t].asks>>
               /\ perm # None \/ question # None => open[modal] # t
    <3>1. InTheMail(t, agent[t], box, answers[t])
      BY <2>8 DEF Asked, box
    <3>2. t \in ToSet(open) => AsksIn(events[t], Requests) = {}
      BY <2>2, <2>8 DEF Asked, OnItsWay, box
    <3>3. perm # None \/ question # None => open[modal] # t
      BY <1>1, <2>2, <2>8 DEF Asked, IsShown, box
    <3> QED BY <1>1, <2>2, <2>3, <2>4, <3>1, <3>2, <3>3 DEF InTheMail
  <2> QED BY <1>1, <2>4, <2>5, <2>6, <2>7, <2>8, AnsweredMove
<1>3. CASE replies[t] = <<>> /\ Closed(t) /\ Goto(t, "model") /\ UNCHANGED replies
  <2>1. Moves(t) /\ t \notin ToSet(open)
    BY <1>1, <1>3, GotoFacts, TypesOf, AgentMoves DEF Closed
  <2>2. Asked => /\ answers[t] = << >> /\ agent[t].got \in {None, <<t, agent[t].asks>>}
    BY <1>1 DEF Asked, InTheMail
  <2> QED BY <1>1, <1>3, <2>1, <2>2, GotoFacts, ShownIsOpen, AnsweredMove
<1> QED BY <1>2, <1>3 DEF TakeReply

LEMMA TakeAnswerKeeps == ASSUME Inv, NEW t \in Tabs, TakeAnswer(t) PROVE Inv'
<1>1. /\ agent[t].pc = "askUser" /\ UNCHANGED <<prompts, events, replies, cancel>>
      /\ UNCHANGED <<window, busy, tabBusy, sent, crossed>>
  BY DEF TakeAnswer
<1>2. CASE /\ answers[t] # <<>>
           /\ answers' = [answers EXCEPT ![t] = Tail(@)]
           /\ agent' = [agent EXCEPT ![t].pc = "model", ![t].got = Head(answers[t])]
  <2> DEFINE box == answers[t]
             rest == Tail(box)
             got == Head(box)
             a == [agent[t] EXCEPT !.pc = "model", !.got = got]
  <2>1. agent' = [agent EXCEPT ![t] = a] /\ answers' = [answers EXCEPT ![t] = rest]
    BY <1>2
  <2>2. box \in Seq(Shows) /\ box # << >>
    BY <1>2, TypesOf
  <2> HIDE DEF box
  <2>3. /\ rest \in Seq(Shows) /\ got \in Shows /\ got = box[1]
        /\ Len(box) = 1 => rest = << >>
    BY <2>2, OneLetter
  <2> HIDE DEF rest, got
  <2>4. a \in Agent /\ a.pc = "model" /\ a.asks = agent[t].asks /\ a.got = got
    BY <2>3, TypesOf DEF Agent
  <2> HIDE DEF a
  <2>5. /\ agent' \in [Tabs -> Agent] /\ agent'[t] = a
        /\ \A u \in Tabs : u # t => agent'[u] = agent[u]
        /\ answers' \in [Tabs -> Seq(Shows)] /\ answers'[t] = rest
        /\ \A u \in Tabs : u # t => answers'[u] = answers[u]
    BY <2>1, <2>3, <2>4, TypesOf
  <2>6. Moves(t)
    BY <1>1, <2>4, <2>5, TypesOf, AgentMoves
  <2>7. ASSUME Asked
        PROVE  /\ t \in ToSet(open) => AsksIn(events[t], Requests) = {}
               /\ rest = << >> /\ replies[t] = << >> /\ got = <<t, agent[t].asks>>
               /\ perm # None \/ question # None => open[modal] # t
    <3>1. InTheMail(t, agent[t], replies[t], box)
      BY <2>7 DEF Asked, box
    <3>2. t \in ToSet(open) => AsksIn(events[t], Requests) = {}
      BY <2>2, <2>7 DEF Asked, OnItsWay, box
    <3>3. perm # None \/ question # None => open[modal] # t
      BY <1>1, <2>2, <2>7 DEF Asked, IsShown, box
    <3> QED BY <1>1, <2>2, <2>3, <3>1, <3>2, <3>3 DEF InTheMail
  <2> QED BY <1>1, <2>4, <2>5, <2>6, <2>7, AnsweredMove
<1>3. CASE answers[t] = <<>> /\ Closed(t) /\ Goto(t, "model") /\ UNCHANGED answers
  <2>1. Moves(t) /\ t \notin ToSet(open)
    BY <1>1, <1>3, GotoFacts, TypesOf, AgentMoves DEF Closed
  <2>2. Asked => /\ replies[t] = << >> /\ agent[t].got \in {None, <<t, agent[t].asks>>}
    BY <1>1 DEF Asked, InTheMail
  <2> QED BY <1>1, <1>3, <2>1, <2>2, GotoFacts, ShownIsOpen, AnsweredMove
<1> QED BY <1>2, <1>3 DEF TakeAnswer

LEMMA AgentKeeps == ASSUME Inv, NEW t \in Tabs, AgentStep(t) PROVE Inv'
BY StartAgentKeeps, TakePromptKeeps, EndAgentKeeps, StreamKeeps, GateKeeps, TakeReplyKeeps,
   TakeAnswerKeeps, ExecuteKeeps, EndsKeep DEF AgentStep

-----------------------------------------------------------------------------
(* The timer *)

(* A request shown is that of the one tab that asks.                       *)
LEMMA TickShows ==
  ASSUME Inv, ~Several, Asked, perm = None, question = None, NEW i \in Opened
  PROVE  /\ Max(Opened) = i /\ i \in 1..Len(open) /\ open[i] \in ToSet(open) /\ open[i] \in Tabs
         /\ LET t == open[i] IN
            \E y \in Requests :
              /\ agent[t].pc = Place(y) /\ replies[t] = << >> /\ answers[t] = << >>
              /\ Shown(y, None) = <<t, agent[t].asks>>
              /\ \A z \in Requests : z # y => Shown(z, None) = None
<1> DEFINE t == open[i]
           evs == events[t]
<1>1. /\ open \in Seq(Tabs) /\ i \in 1..Len(open) /\ Len(open) \in Nat
      /\ AsksIn(evs, Requests) # {} /\ i \in Nat
  BY DEF Inv, WindowInv, Opened, Asking
<1>2. t \in Tabs /\ t \in ToSet(open)
  BY <1>1, InOpen
<1>3. Opened = {i}
  BY DEF Opened, Several
<1>4. Max(Opened) = i
  BY <1>1, <1>3, MaxOfOne
<1>5. evs \in Seq(Message)
  BY <1>2, TypesOf
<1>6. PICK k \in AsksIn(evs, Requests) : TRUE
  BY <1>1
<1>7. AsksIn(evs, Requests) = {k} /\ k \in Nat
  <2>1. \A l \in AsksIn(evs, Requests) : k = l
    BY DEF Several, Opened
  <2>2. k \in Nat
    BY <1>5 DEF AsksIn
  <2> QED BY <2>1, <2>2
<1> DEFINE y == evs[k].type
<1>8. y \in Requests /\ OnItsWay(t, agent[t], evs, replies[t], answers[t])
  BY <1>2, <1>6 DEF AsksIn, Asked
<1>9. /\ evs[k].ask = <<t, agent[t].asks>> /\ agent[t].pc = Place(y)
      /\ replies[t] = << >> /\ answers[t] = << >>
  BY <1>6, <1>8 DEF OnItsWay
<1>10. \A z \in Requests : AsksIn(evs, {z}) = IF z = y THEN {k} ELSE {}
  <2>1. \A l : l \in DOMAIN evs /\ evs[l].type \in Requests <=> l = k
    BY <1>7 DEF AsksIn
  <2> QED BY <2>1, <1>8 DEF AsksIn
<1>11. \A z \in Requests : Asking({z}) = IF z = y THEN {i} ELSE {}
  <2>1. \A j \in 1..Len(open) : j # i => AsksIn(events[open[j]], Requests) = {}
    BY <1>3 DEF Opened, Asking
  <2>2. \A z \in Requests : \A s : AsksIn(s, {z}) \subseteq AsksIn(s, Requests)
    BY DEF AsksIn
  <2>3. ASSUME NEW z \in Requests PROVE \A j \in 1..Len(open) : AsksIn(events[open[j]], {z}) # {} <=> j = i /\ z = y
    BY <1>1, <1>10, <2>1, <2>2
  <2> QED BY <1>1, <2>3 DEF Asking
<1>12. Shown(y, None) = <<t, agent[t].asks>>
  <2>1. Max({i}) = i /\ Max({k}) = k
    BY <1>1, <1>7, MaxOfOne
  <2>2. Asking({y}) = {i} /\ AsksIn(evs, {y}) = {k}
    BY <1>8, <1>10, <1>11
  <2> QED BY <1>9, <2>1, <2>2 DEF Shown
<1>13. \A z \in Requests : z # y => Shown(z, None) = None
  BY <1>11 DEF Shown
<1> QED BY <1>1, <1>2, <1>4, <1>8, <1>9, <1>12, <1>13

LEMMA ShownIsRequest ==
  ASSUME Inv, NEW y \in Requests, NEW now \in Shows
  PROVE  Shown(y, now) \in Shows
<1>1. CASE Asking({y}) = {}
  BY <1>1 DEF Shown
<1>2. CASE Asking({y}) # {}
  <2> DEFINE last == Max(Asking({y}))
             evs == events[open[last]]
             k == Max(AsksIn(evs, {y}))
  <2>1. open \in Seq(Tabs) /\ Len(open) \in Nat
    BY DEF Inv, WindowInv
  <2>2. last \in Asking({y}) /\ last \in 1..Len(open)
    <3>1. Asking({y}) \in SUBSET (1..Len(open))
      BY DEF Asking
    <3>2. \A n \in Nat : \A S \in SUBSET (1..n) : S # {} => Max(S) \in S /\ Max(S) \in 1..n
      BY MaxIn
    <3> HIDE DEF last
    <3>3. Max(Asking({y})) \in Asking({y}) /\ Max(Asking({y})) \in 1..Len(open)
      BY <1>2, <2>1, <3>1, <3>2
    <3> QED BY <3>3 DEF last
  <2>3. open[last] \in Tabs /\ AsksIn(evs, {y}) # {}
    <3>1. \A j \in Asking({y}) : AsksIn(events[open[j]], {y}) # {}
      <4> HIDE DEF last
      <4> QED BY DEF Asking
    <3>2. \A j \in 1..Len(open) : open[j] \in Tabs
      BY <2>1
    <3> HIDE DEF last
    <3>3. AsksIn(events[open[last]], {y}) # {}
      BY <2>2, <3>1
    <3> QED BY <2>2, <3>2, <3>3
  <2> HIDE DEF last
  <2>4. evs \in Seq(Message)
    BY <2>3, TypesOf
  <2> HIDE DEF evs
  <2>5. k \in 1..Len(evs)
    <3>1. AsksIn(evs, {y}) \in SUBSET (1..Len(evs)) /\ Len(evs) \in Nat
      BY <2>4 DEF AsksIn
    <3> QED BY <2>3, <3>1, MaxIn DEF evs
  <2> HIDE DEF k
  <2>6. evs[k] \in Message
    BY <2>4, <2>5
  <2>7. Shown(y, now) = evs[k].ask
    BY <1>2 DEF Shown, last, evs, k
  <2> QED BY <2>6, <2>7 DEF Message
<1> QED BY <1>1, <1>2

(* The timer drains the events of every tab shown.                         *)
LEMMA TickKeeps == ASSUME Inv, Tick PROVE Inv'
<1>1. /\ UNCHANGED <<open, agent, cancel, prompts, replies, answers, sent>>
      /\ perm' = Shown("perm", perm) /\ question' = Shown("question", question)
      /\ modal' = IF Opened = {} THEN modal ELSE Max(Opened)
      /\ active' = IF Opened = {} THEN active ELSE Max(Opened)
      /\ busy' = IF active' # active THEN tabBusy'[open[active']] ELSE BusyAfter(events[open[active]], busy)
      /\ events' = [t \in Tabs |-> IF t \in ToSet(open) THEN <<>> ELSE events[t]]
      /\ tabBusy' = [t \in Tabs |-> IF t \in ToSet(open) THEN BusyAfter(events[t], tabBusy[t]) ELSE tabBusy[t]]
      /\ crossed' = (crossed \/ Several \/ (Opened # {} /\ (perm # None \/ question # None)))
  BY DEF Tick
<1>2. /\ open \in Seq(Tabs) /\ Len(open) \in Nat /\ active \in 1..Len(open) /\ modal \in Nat
      /\ perm \in Shows /\ question \in Shows /\ busy \in BOOLEAN /\ tabBusy \in [Tabs -> BOOLEAN]
      /\ crossed \in BOOLEAN /\ events \in [Tabs -> Seq(Message)]
  BY DEF Inv, WindowInv, ThreadsInv
<1>3. /\ \A j \in 1..Len(open) : open[j] \in Tabs /\ open[j] \in ToSet(open)
      /\ ToSet(open) \subseteq Tabs
  BY <1>2 DEF ToSet
<1>4. /\ active' \in 1..Len(open) /\ modal' \in Nat
      /\ Opened # {} => modal' = active'
  <2>1. Opened \in SUBSET (1..Len(open))
    BY DEF Opened, Asking
  <2>2. Opened # {} => Max(Opened) \in 1..Len(open)
    BY <1>2, <2>1, MaxIn
  <2> QED BY <1>1, <1>2, <2>2
<1>5. \A evs : \A b \in BOOLEAN : BusyAfter(evs, b) \in BOOLEAN
  BY DEF BusyAfter
<1>6. tabBusy' \in [Tabs -> BOOLEAN] /\ busy' \in BOOLEAN /\ crossed' \in BOOLEAN
  <2>1. tabBusy' \in [Tabs -> BOOLEAN]
    BY <1>1, <1>2, <1>5
  <2>2. busy' \in BOOLEAN
    BY <1>1, <1>2, <1>3, <1>4, <1>5, <2>1
  <2>3. crossed' \in BOOLEAN
    BY <1>1
  <2> QED BY <2>1, <2>2, <2>3
<1>7. \A t \in ToSet(open) : events'[t] = << >> /\ tabBusy'[t] = BusyAfter(events[t], tabBusy[t])
  BY <1>1, <1>3
<1>8. WindowInv'
  <2>1. perm' \in Shows /\ question' \in Shows
    BY <1>1, <1>2, ShownIsRequest DEF Requests
  <2>2. Distinct(open) /\ \A t \in ToSet(open) : agent[t].pc # "none"
    BY DEF Inv, WindowInv
  <2> QED BY <1>1, <1>2, <1>4, <1>6, <2>1, <2>2 DEF WindowInv
<1>9. ThreadsInv'
  <2>1. events' \in [Tabs -> Seq(Message)]
    <3>1. << >> \in Seq(Message)
      OBVIOUS
    <3> QED BY <1>1, <1>2, <3>1
  <2> QED BY <1>1, <2>1 DEF Inv, ThreadsInv
<1>10. FreshInv'
  <2> SUFFICES ASSUME NEW t \in Tabs, agent'[t].pc = "none"
               PROVE  events'[t] = << >> /\ ~tabBusy'[t] /\ replies'[t] = << >> /\ answers'[t] = << >>
    BY DEF FreshInv
  <2>1. t \notin ToSet(open)
    BY <1>1 DEF Inv, WindowInv
  <2> QED BY <1>1, <2>1 DEF Inv, FreshInv
<1>11. BusyInv'
  <2>1. \A b \in BOOLEAN : BusyAfter(<< >>, b) <=> b
    BY Drained
  <2>2. ASSUME NEW t \in ToSet(open) PROVE MarkFits(agent'[t], events'[t], tabBusy'[t])
    <3>1. MarkFits(agent[t], events[t], tabBusy[t]) /\ tabBusy'[t] \in BOOLEAN
      BY <1>3, <1>6 DEF Inv, BusyInv
    <3>2. BusyAfter(events'[t], tabBusy'[t]) <=> BusyAfter(events[t], tabBusy[t])
      BY <1>7, <2>1, <3>1
    <3> QED BY <1>1, <3>1, <3>2 DEF MarkFits
  <2>3. LightFits(agent'[open[active']], prompts'[open[active']], events'[open[active']], busy',
                  tabBusy'[open[active']])
    <3> DEFINE t == open[active']
    <3>1. t \in ToSet(open) /\ t \in Tabs /\ tabBusy'[t] \in BOOLEAN
      BY <1>3, <1>4, <1>6
    <3>2. CASE active' # active
      BY <1>1, <3>2 DEF LightFits
    <3>3. CASE active' = active
      <4>1. LightFits(agent[t], prompts[t], events[t], busy, tabBusy[t])
        BY <3>3 DEF Inv, BusyInv
      <4>2. busy' = BusyAfter(events[t], busy)
        BY <1>1, <3>3
      <4>3. (BusyAfter(events'[t], busy') <=> busy') /\ (BusyAfter(events'[t], tabBusy'[t]) <=> tabBusy'[t])
        BY <1>6, <1>7, <2>1, <3>1
      <4> QED BY <1>1, <1>7, <3>1, <4>1, <4>2, <4>3 DEF LightFits
    <3> QED BY <3>2, <3>3
  <2> QED BY <1>1, <2>2, <2>3 DEF BusyInv
<1>12. ASSUME ~crossed' PROVE Asked'
  <2>1. ~crossed /\ ~Several /\ (Opened = {} \/ (perm = None /\ question = None))
    BY <1>1, <1>12
  <2>2. Asked
    BY <2>1 DEF Inv, AskInv
  <2>3. \A t \in ToSet(open) : AsksIn(events'[t], Requests) = {}
    BY <1>7 DEF AsksIn
  <2>4. /\ \A t \in ToSet(open) : OnItsWay(t, agent'[t], events'[t], replies'[t], answers'[t])
        /\ \A t \in Tabs : InTheMail(t, agent'[t], replies'[t], answers'[t])
    BY <1>1, <2>2, <2>3 DEF OnItsWay, Asked
  <2>5. CASE Opened = {}
    <3>1. \A y \in Requests : Asking({y}) = {}
      BY <2>5 DEF Opened, Asking, AsksIn
    <3>2. perm' = perm /\ question' = question /\ modal' = modal
      BY <1>1, <2>5, <3>1 DEF Shown, Requests
    <3> QED BY <1>1, <1>3, <2>2, <2>3, <2>4, <3>2 DEF Asked, IsShown
  <2>6. CASE Opened # {}
    <3>1. PICK i \in Opened : TRUE
      BY <2>6
    <3> DEFINE t == open[i]
    <3>2. PICK y \in Requests :
            /\ agent[t].pc = Place(y) /\ replies[t] = << >> /\ answers[t] = << >>
            /\ Shown(y, None) = <<t, agent[t].asks>>
            /\ \A z \in Requests : z # y => Shown(z, None) = None
      BY <2>1, <2>2, <2>6, TickShows
    <3>3. Max(Opened) = i /\ i \in 1..Len(open) /\ t \in ToSet(open) /\ t \in Tabs
      BY <2>1, <2>2, <2>6, TickShows
    <3>4. modal' = i /\ perm' = Shown("perm", None) /\ question' = Shown("question", None)
      BY <1>1, <2>1, <2>6, <3>3
    <3>5. <<t, agent[t].asks>> # None
      <4>1. <<t, agent[t].asks>> \in Request
        BY <3>3, TypesOf DEF Request
      <4> QED BY <4>1, NoneIsNoRequest
    <3>6. CASE y = "perm"
      <4>1. perm' = <<t, agent[t].asks>> /\ question' = None /\ agent[t].pc = "askPerm"
        BY <3>2, <3>4, <3>6 DEF Requests, Place
      <4>2. IsShown(perm', "askPerm", t, agent'[t], events'[t], replies'[t])
        BY <1>1, <2>3, <3>2, <3>3, <4>1 DEF IsShown
      <4> HIDE DEF t
      <4> QED BY <1>1, <2>4, <3>3, <3>4, <3>5, <4>1, <4>2 DEF Asked, t
    <3>7. CASE y = "question"
      <4>1. question' = <<t, agent[t].asks>> /\ perm' = None /\ agent[t].pc = "askUser"
        BY <3>2, <3>4, <3>7 DEF Requests, Place
      <4>2. IsShown(question', "askUser", t, agent'[t], events'[t], answers'[t])
        BY <1>1, <2>3, <3>2, <3>3, <4>1 DEF IsShown
      <4> HIDE DEF t
      <4> QED BY <1>1, <2>4, <3>3, <3>4, <3>5, <4>1, <4>2 DEF Asked, t
    <3> QED BY <3>6, <3>7 DEF Requests
  <2> QED BY <2>5, <2>6
<1>13. AskInv'
  BY <1>12 DEF AskInv
<1> QED BY <1>8, <1>9, <1>10, <1>11, <1>13 DEF Inv

-----------------------------------------------------------------------------
(* The user *)

(* The tabs shown are tabs, and each has a thread.                         *)
LEMMA OpenFacts ==
  ASSUME Inv
  PROVE  /\ open \in Seq(Tabs) /\ Len(open) \in Nat /\ active \in 1..Len(open)
         /\ ToSet(open) \subseteq Tabs
         /\ \A j \in 1..Len(open) : open[j] \in Tabs /\ open[j] \in ToSet(open)
         /\ \A t \in ToSet(open) : agent[t].pc # "none"
<1>1. open \in Seq(Tabs) /\ active \in 1..Len(open) /\ \A t \in ToSet(open) : agent[t].pc # "none"
  BY DEF Inv, WindowInv
<1> QED BY <1>1 DEF ToSet

(* What concerns requests stays as it was.                                 *)
LEMMA AskStays ==
  ASSUME Inv, UNCHANGED <<open, modal, perm, question, agent, events, replies, answers, crossed>>
  PROVE  AskInv'
BY DEF Inv, AskInv, Asked

(* So does what the events will have said of each tab.                     *)
LEMMA MarksStay ==
  ASSUME Inv, UNCHANGED <<agent, events, tabBusy>>, ToSet(open') \subseteq ToSet(open),
         LightFits(agent[open'[active']], prompts'[open'[active']], events[open'[active']], busy',
                   tabBusy[open'[active']])
  PROVE  BusyInv'
BY DEF Inv, BusyInv

(* A tab that comes to the front shows its own mark.                       *)
LEMMA Fronted == ASSUME NEW a, NEW n, NEW evs, NEW mark PROVE LightFits(a, n, evs, mark, mark)
BY DEF LightFits

LEMMA SendPromptKeeps == ASSUME Inv, SendPrompt PROVE Inv'
<1> DEFINE t == open[active]
<1>1. /\ sent' = [sent EXCEPT ![t] = sent[t] + 1]
      /\ prompts' = IF Alive(t) THEN [prompts EXCEPT ![t] = prompts[t] + 1] ELSE prompts
      /\ busy' = TRUE
      /\ UNCHANGED <<open, active, modal, perm, question, tabBusy, agent, cancel, events, replies, answers, crossed>>
  BY DEF SendPrompt, window
<1>2. t \in Tabs
  BY OpenFacts
<1>3. prompts \in [Tabs -> Nat] /\ sent \in [Tabs -> Nat]
  BY DEF Inv, ThreadsInv
<1> HIDE DEF t
<1>4. /\ prompts' \in [Tabs -> Nat] /\ sent' \in [Tabs -> Nat]
      /\ Alive(t) => prompts'[t] > 0
  BY <1>1, <1>2, <1>3
<1>5. WindowInv'
  BY <1>1 DEF Inv, WindowInv
<1>6. ThreadsInv'
  BY <1>1, <1>4 DEF Inv, ThreadsInv
<1>7. FreshInv'
  BY <1>1 DEF Inv, FreshInv
<1>8. BusyInv'
  <2>1. LightFits(agent[t], prompts'[t], events[t], busy', tabBusy[t])
    BY <1>4 DEF LightFits, Running, Alive
  <2> QED BY <1>1, <2>1, MarksStay DEF t
<1> QED BY <1>1, <1>5, <1>6, <1>7, <1>8, AskStays DEF Inv

LEMMA InterruptKeeps == ASSUME Inv, Interrupt PROVE Inv'
<1>1. /\ cancel' = [cancel EXCEPT ![open[active]] = TRUE]
      /\ UNCHANGED <<open, active, modal, perm, question, busy, tabBusy, agent, prompts, events,
                     replies, answers, sent, crossed>>
  BY DEF Interrupt, window, channels
<1>2. cancel' \in [Tabs -> BOOLEAN]
  BY <1>1 DEF Inv, ThreadsInv
<1>3. WindowInv' /\ FreshInv'
  BY <1>1 DEF Inv, WindowInv, FreshInv
<1>4. ThreadsInv'
  BY <1>1, <1>2 DEF Inv, ThreadsInv
<1>5. BusyInv'
  BY <1>1 DEF Inv, BusyInv
<1> QED BY <1>1, <1>3, <1>4, <1>5, AskStays DEF Inv

LEMMA SelectTabKeeps == ASSUME Inv, SelectTab PROVE Inv'
<1>1. PICK i \in 1..Len(open) :
        /\ open' = open /\ active' = i /\ busy' = tabBusy[open[i]]
        /\ UNCHANGED <<modal, perm, question, tabBusy, agent, cancel, prompts, events, replies,
                       answers, sent, crossed>>
  BY DEF SelectTab, Activate, channels
<1>2. busy' \in BOOLEAN
  BY <1>1, OpenFacts DEF Inv, WindowInv
<1>3. WindowInv' /\ FreshInv'
  BY <1>1, <1>2 DEF Inv, WindowInv, FreshInv
<1>4. ThreadsInv'
  BY <1>1 DEF Inv, ThreadsInv
<1>5. BusyInv'
  BY <1>1, Fronted, MarksStay
<1> QED BY <1>1, <1>3, <1>4, <1>5, AskStays DEF Inv

LEMMA NewTabKeeps == ASSUME Inv, NewTab PROVE Inv'
<1>1. PICK t \in Tabs :
        /\ agent[t].pc = "none" /\ agent' = [agent EXCEPT ![t].pc = "start"]
        /\ open' = Append(open, t) /\ active' = Len(open) + 1 /\ busy' = tabBusy[open'[active']]
        /\ UNCHANGED <<modal, perm, question, tabBusy, cancel, prompts, events, replies, answers,
                       sent, crossed>>
  BY DEF NewTab, Goto, Activate, channels
<1>2. /\ open \in Seq(Tabs) /\ Len(open) \in Nat /\ t \notin ToSet(open)
      /\ \A j \in 1..Len(open) : open[j] \in Tabs /\ open[j] \in ToSet(open)
  BY <1>1, OpenFacts
<1>3. /\ open' \in Seq(Tabs) /\ Len(open') = Len(open) + 1 /\ open'[Len(open) + 1] = t
      /\ \A j \in 1..Len(open) : open'[j] = open[j]
  BY <1>1, <1>2
<1>4. ToSet(open') = ToSet(open) \cup {t}
  BY <1>1, <1>2, <1>3 DEF ToSet
<1>5. /\ agent' \in [Tabs -> Agent] /\ agent'[t].pc = "start" /\ agent'[t].asks = agent[t].asks
      /\ agent'[t].got = agent[t].got /\ \A u \in Tabs : u # t => agent'[u] = agent[u]
  <2> DEFINE a == [agent[t] EXCEPT !.pc = "start"]
  <2>1. agent' = [agent EXCEPT ![t] = a]
    BY <1>1
  <2>2. a \in Agent /\ a.pc = "start" /\ a.asks = agent[t].asks /\ a.got = agent[t].got
    BY TypesOf DEF Agent
  <2> HIDE DEF a
  <2> QED BY <2>1, <2>2, TypesOf
<1>6. events[t] = << >> /\ ~tabBusy[t] /\ replies[t] = << >> /\ answers[t] = << >>
  BY <1>1 DEF Inv, FreshInv
<1>7. WindowInv'
  <2>1. Distinct(open')
    <3> SUFFICES ASSUME NEW j \in 1..Len(open'), NEW k \in 1..Len(open'), open'[j] = open'[k]
                 PROVE  j = k
      BY DEF Distinct
    <3>1. CASE j \in 1..Len(open) /\ k \in 1..Len(open)
      BY <1>2, <1>3, <3>1 DEF Inv, WindowInv, Distinct
    <3>2. CASE j \in 1..Len(open) /\ k = Len(open) + 1
      BY <1>2, <1>3, <3>2
    <3>3. CASE k \in 1..Len(open) /\ j = Len(open) + 1
      BY <1>2, <1>3, <3>3
    <3>4. CASE j = Len(open) + 1 /\ k = Len(open) + 1
      BY <3>4
    <3> QED BY <1>2, <1>3, <3>1, <3>2, <3>3, <3>4
  <2>2. \A u \in ToSet(open') : agent'[u].pc # "none"
    BY <1>4, <1>5, OpenFacts
  <2>3. active' \in 1..Len(open') /\ busy' \in BOOLEAN
    BY <1>1, <1>2, <1>3, <1>6, TypesOf
  <2> QED BY <1>1, <1>3, <2>1, <2>2, <2>3 DEF Inv, WindowInv
<1>8. ThreadsInv'
  BY <1>1, <1>5 DEF Inv, ThreadsInv
<1>9. FreshInv'
  BY <1>1, <1>5 DEF Inv, FreshInv
<1>10. BusyInv'
  <2>1. ASSUME NEW u \in ToSet(open') PROVE MarkFits(agent'[u], events[u], tabBusy[u])
    <3>1. CASE u = t
      BY <1>5, <1>6, <3>1, Drained, TypesOf DEF MarkFits, Working
    <3>2. CASE u # t
      BY <1>4, <1>5, <3>2, OpenFacts DEF Inv, BusyInv
    <3> QED BY <3>1, <3>2
  <2>2. LightFits(agent'[open'[active']], prompts'[open'[active']], events'[open'[active']], busy',
                  tabBusy'[open'[active']])
    BY <1>1, Fronted
  <2> QED BY <1>1, <2>1, <2>2 DEF BusyInv
<1>11. ASSUME ~crossed PROVE Asked'
  <2>1. Asked
    BY <1>11 DEF Inv, AskInv
  <2>2. ASSUME NEW u \in ToSet(open')
        PROVE  OnItsWay(u, agent'[u], events[u], replies[u], answers[u])
    <3>1. CASE u = t
      BY <1>6, <3>1 DEF OnItsWay, AsksIn
    <3>2. CASE u # t
      BY <1>4, <1>5, <2>1, <3>2, OpenFacts DEF Asked
    <3> QED BY <3>1, <3>2
  <2>3. ASSUME NEW u \in Tabs PROVE InTheMail(u, agent'[u], replies[u], answers[u])
    <3>1. CASE u = t
      BY <1>5, <1>6, <2>1, <3>1 DEF Asked, InTheMail
    <3>2. CASE u # t
      BY <1>5, <2>1, <3>2 DEF Asked
    <3> QED BY <3>1, <3>2
  <2>4. perm # None \/ question # None =>
          /\ modal \in 1..Len(open) /\ modal \in 1..Len(open') /\ open'[modal] = open[modal]
          /\ agent'[open[modal]] = agent[open[modal]]
    <3>1. perm # None \/ question # None => modal \in 1..Len(open)
      BY <2>1 DEF Asked
    <3> QED BY <1>2, <1>3, <1>5, <3>1
  <2> QED BY <1>1, <2>1, <2>2, <2>3, <2>4 DEF Asked
<1>12. AskInv'
  BY <1>1, <1>11 DEF AskInv
<1> QED BY <1>7, <1>8, <1>9, <1>10, <1>12 DEF Inv

LEMMA Removed ==
  ASSUME NEW seq \in Seq(Tabs), NEW i \in 1..Len(seq)
  PROVE  /\ RemoveAt(seq, i) \in Seq(Tabs) /\ Len(RemoveAt(seq, i)) = Len(seq) - 1
         /\ \A j \in 1..(Len(seq) - 1) : RemoveAt(seq, i)[j] = IF j < i THEN seq[j] ELSE seq[j + 1]
<1> DEFINE left == SubSeq(seq, 1, i - 1)
           right == SubSeq(seq, i + 1, Len(seq))
<1>1. Len(seq) \in Nat /\ i \in Nat /\ \A j \in 1..Len(seq) : seq[j] \in Tabs
  OBVIOUS
<1>2. /\ left \in Seq(Tabs) /\ Len(left) = i - 1
      /\ \A j \in 1..(i - 1) : left[j] = seq[j]
  BY <1>1
<1>3. /\ right \in Seq(Tabs) /\ Len(right) = Len(seq) - i
      /\ \A j \in 1..(Len(seq) - i) : right[j] = seq[i + j]
  BY <1>1
<1>4. RemoveAt(seq, i) = left \o right
  BY DEF RemoveAt
<1> HIDE DEF left, right
<1>5. /\ left \o right \in Seq(Tabs) /\ Len(left \o right) = Len(seq) - 1
      /\ \A j \in 1..(Len(seq) - 1) : (left \o right)[j] = IF j < i THEN left[j] ELSE right[j - (i - 1)]
  <2>1. \A p, q \in Seq(Tabs) :
          /\ p \o q \in Seq(Tabs) /\ Len(p \o q) = Len(p) + Len(q)
          /\ \A j \in 1..(Len(p) + Len(q)) :
               (p \o q)[j] = IF j <= Len(p) THEN p[j] ELSE q[j - Len(p)]
    OBVIOUS
  <2>2. Len(left) + Len(right) = Len(seq) - 1 /\ \A j \in Nat : j <= Len(left) <=> j < i
    BY <1>1, <1>2, <1>3
  <2>3. \A j \in 1..(Len(seq) - 1) :
          (left \o right)[j] = IF j <= Len(left) THEN left[j] ELSE right[j - Len(left)]
    BY <1>2, <1>3, <2>1, <2>2
  <2>4. left \o right \in Seq(Tabs) /\ Len(left \o right) = Len(seq) - 1
    BY <1>2, <1>3, <2>1, <2>2
  <2>5. \A j \in 1..(Len(seq) - 1) : j \in Nat
    OBVIOUS
  <2> QED BY <1>2, <2>2, <2>3, <2>4, <2>5
<1>6. ASSUME NEW j \in 1..(Len(seq) - 1)
      PROVE  (left \o right)[j] = IF j < i THEN seq[j] ELSE seq[j + 1]
  <2>1. CASE j < i
    BY <1>1, <1>2, <1>5, <2>1
  <2>2. CASE ~(j < i)
    <3>1. j - (i - 1) \in 1..(Len(seq) - i) /\ i + (j - (i - 1)) = j + 1
      BY <1>1, <2>2
    <3> QED BY <1>3, <1>5, <2>2, <3>1
  <2> QED BY <2>1, <2>2
<1> QED BY <1>4, <1>5, <1>6

LEMMA CloseTabKeeps == ASSUME Inv, CloseTab PROVE Inv'
<1>1. PICK i \in 1..Len(open) :
        /\ Len(open) > 1 /\ open' = RemoveAt(open, i)
        /\ active' = IF active > Len(open) - 1 THEN Len(open) - 1
                     ELSE IF i < active THEN active - 1 ELSE active
        /\ busy' = tabBusy[open'[active']] /\ crossed' = (crossed \/ ~Mouse)
        /\ UNCHANGED <<modal, perm, question, tabBusy, agent, cancel, prompts, events, replies,
                       answers, sent>>
  BY DEF CloseTab, Activate, channels
<1>2. open \in Seq(Tabs) /\ Len(open) \in Nat /\ active \in 1..Len(open) /\ i \in Nat
  BY OpenFacts
<1>3. /\ open' \in Seq(Tabs) /\ Len(open') = Len(open) - 1
      /\ \A j \in 1..(Len(open) - 1) : open'[j] = IF j < i THEN open[j] ELSE open[j + 1]
  BY <1>1, <1>2, Removed
<1>4. ToSet(open') \subseteq ToSet(open)
  <2>1. ASSUME NEW j \in 1..(Len(open) - 1) PROVE \E k \in 1..Len(open) : open'[j] = open[k]
    BY <1>2, <1>3
  <2>2. \A t : t \in ToSet(open') <=> \E j \in 1..Len(open') : open'[j] = t
    BY <1>3, InOpen
  <2>3. \A t : t \in ToSet(open) <=> \E j \in 1..Len(open) : open[j] = t
    BY <1>2, InOpen
  <2> QED BY <1>3, <2>1, <2>2, <2>3
<1>5. active' \in 1..Len(open')
  BY <1>1, <1>2, <1>3
<1>6. WindowInv'
  <2>1. Distinct(open')
    <3> SUFFICES ASSUME NEW j \in 1..Len(open'), NEW k \in 1..Len(open'), open'[j] = open'[k]
                 PROVE  j = k
      BY DEF Distinct
    <3> DEFINE from(m) == IF m < i THEN m ELSE m + 1
    <3>1. from(j) \in 1..Len(open) /\ from(k) \in 1..Len(open)
      BY <1>2, <1>3
    <3>2. open'[j] = open[from(j)] /\ open'[k] = open[from(k)]
      BY <1>3
    <3>3. from(j) = from(k)
      <4> HIDE DEF from
      <4> QED BY <3>1, <3>2 DEF Inv, WindowInv, Distinct
    <3>4. j \in Nat /\ k \in Nat
      BY <1>2, <1>3
    <3> QED BY <1>2, <3>3, <3>4
  <2>2. \A u \in ToSet(open') : agent[u].pc # "none"
    BY <1>4, OpenFacts
  <2>3. busy' \in BOOLEAN
    <3>1. open'[active'] \in Tabs
      BY <1>3, <1>5
    <3> QED BY <1>1, <3>1, TypesOf
  <2>4. crossed' \in BOOLEAN
    BY <1>1
  <2> QED BY <1>1, <1>3, <1>5, <2>1, <2>2, <2>3, <2>4 DEF Inv, WindowInv
<1>7. ThreadsInv' /\ FreshInv'
  BY <1>1 DEF Inv, ThreadsInv, FreshInv
<1>8. BusyInv'
  BY <1>1, <1>4, Fronted, MarksStay
<1>9. ASSUME ~crossed' PROVE Asked'
  <2>1. Asked /\ perm = None /\ question = None
    BY <1>1, <1>9 DEF Inv, AskInv, Mouse
  <2>2. modal = 0
    BY <2>1 DEF Asked
  <2> QED BY <1>1, <1>4, <2>1, <2>2 DEF Asked
<1>10. AskInv'
  BY <1>9 DEF AskInv
<1> QED BY <1>6, <1>7, <1>8, <1>10 DEF Inv

LEMMA Alone ==
  ASSUME NEW S, NEW x \in S
  PROVE  /\ Append(<< >>, x) \in Seq(S) /\ Len(Append(<< >>, x)) = 1 /\ Append(<< >>, x)[1] = x
OBVIOUS

(* The answer to a permission goes to the tab that asked.                  *)
LEMMA ReplyPermKeeps == ASSUME Inv, ReplyPerm PROVE Inv'
<1>1. PICK allow \in BOOLEAN :
        /\ perm # None /\ question = None /\ perm' = None /\ modal' = 0
        /\ replies' = IF modal \in 1..Len(open)
                      THEN [replies EXCEPT ![open[modal]]
                              = Append(replies[open[modal]], [ask |-> perm, allow |-> allow])]
                      ELSE replies
        /\ UNCHANGED <<open, active, question, busy, tabBusy, agent, cancel, prompts, events, answers, sent, crossed>>
  BY DEF ReplyPerm
<1> DEFINE t == open[modal]
           letter == [ask |-> perm, allow |-> allow]
<1>2. letter \in Answer /\ letter.ask = perm
  BY DEF Inv, WindowInv, Answer
<1>3. replies \in [Tabs -> Seq(Answer)]
  BY DEF Inv, ThreadsInv
<1> HIDE DEF letter
<1>4. ASSUME modal \in 1..Len(open)
      PROVE  /\ t \in Tabs /\ t \in ToSet(open) /\ replies' = [replies EXCEPT ![t] = Append(replies[t], letter)]
             /\ Append(replies[t], letter) \in Seq(Answer)
  <2>1. t \in Tabs /\ t \in ToSet(open)
    BY <1>4, OpenFacts
  <2>2. replies' = [replies EXCEPT ![t] = Append(replies[t], letter)]
    BY <1>1, <1>4 DEF letter
  <2> HIDE DEF t
  <2> QED BY <1>2, <1>3, <2>1, <2>2
<1>5. /\ replies' \in [Tabs -> Seq(Answer)]
      /\ \A u \in Tabs : u \notin ToSet(open) => replies'[u] = replies[u]
  <2>1. CASE modal \in 1..Len(open)
    <3> HIDE DEF t
    <3> QED BY <1>3, <1>4, <2>1
  <2>2. CASE modal \notin 1..Len(open)
    BY <1>1, <1>3, <2>2
  <2> QED BY <2>1, <2>2
<1>6. WindowInv'
  BY <1>1 DEF Inv, WindowInv, Shows
<1>7. ThreadsInv'
  BY <1>1, <1>5 DEF Inv, ThreadsInv
<1>8. FreshInv'
  BY <1>1, <1>5, OpenFacts DEF Inv, FreshInv
<1>9. BusyInv'
  BY <1>1 DEF Inv, BusyInv
<1>10. ASSUME ~crossed PROVE Asked'
  <2>1. Asked /\ modal \in 1..Len(open) /\ IsShown(perm, "askPerm", t, agent[t], events[t], replies[t])
    BY <1>1, <1>10 DEF Inv, AskInv, Asked
  <2>2. /\ perm = <<t, agent[t].asks>> /\ agent[t].pc = "askPerm" /\ replies[t] = << >>
        /\ AsksIn(events[t], Requests) = {}
    BY <2>1 DEF IsShown
  <2>3. t \in Tabs /\ t \in ToSet(open) /\ replies' = [replies EXCEPT ![t] = Append(replies[t], letter)]
    BY <1>4, <2>1
  <2> HIDE DEF t
  <2>4. /\ Len(replies'[t]) = 1 /\ replies'[t][1] = letter
        /\ \A u \in Tabs : u # t => replies'[u] = replies[u]
    BY <1>2, <1>3, <2>2, <2>3, Alone
  <2>5. ASSUME NEW u \in ToSet(open)
        PROVE  OnItsWay(u, agent[u], events[u], replies'[u], answers[u])
    <3>1. CASE u = t
      BY <2>2, <3>1 DEF OnItsWay
    <3>2. CASE u # t
      BY <2>1, <2>4, <3>2, OpenFacts DEF Asked
    <3> QED BY <3>1, <3>2
  <2>6. ASSUME NEW u \in Tabs PROVE InTheMail(u, agent[u], replies'[u], answers[u])
    <3>1. InTheMail(u, agent[u], replies[u], answers[u])
      BY <2>1 DEF Asked
    <3>2. CASE u = t
      BY <1>2, <2>2, <2>4, <3>1, <3>2 DEF InTheMail
    <3>3. CASE u # t
      BY <2>4, <3>1, <3>3
    <3> QED BY <3>2, <3>3
  <2> QED BY <1>1, <2>5, <2>6 DEF Asked
<1>11. AskInv'
  BY <1>1, <1>10 DEF AskInv
<1> QED BY <1>6, <1>7, <1>8, <1>9, <1>11 DEF Inv

(* So does the answer to a question.                                       *)
LEMMA ReplyQuestionKeeps == ASSUME Inv, ReplyQuestion PROVE Inv'
<1>1. /\ question # None /\ question' = None /\ modal' = 0
      /\ answers' = IF modal \in 1..Len(open)
                    THEN [answers EXCEPT ![open[modal]] = Append(answers[open[modal]], question)]
                    ELSE answers
      /\ UNCHANGED <<open, active, perm, busy, tabBusy, agent, cancel, prompts, events, replies, sent, crossed>>
  BY DEF ReplyQuestion
<1> DEFINE t == open[modal]
<1>2. question \in Shows /\ answers \in [Tabs -> Seq(Shows)]
  BY DEF Inv, WindowInv, ThreadsInv
<1>3. ASSUME modal \in 1..Len(open)
      PROVE  /\ t \in Tabs /\ t \in ToSet(open) /\ answers' = [answers EXCEPT ![t] = Append(answers[t], question)]
             /\ Append(answers[t], question) \in Seq(Shows)
  <2>1. t \in Tabs /\ t \in ToSet(open)
    BY <1>3, OpenFacts
  <2>2. answers' = [answers EXCEPT ![t] = Append(answers[t], question)]
    BY <1>1, <1>3
  <2> HIDE DEF t
  <2> QED BY <1>2, <2>1, <2>2
<1>4. /\ answers' \in [Tabs -> Seq(Shows)]
      /\ \A u \in Tabs : u \notin ToSet(open) => answers'[u] = answers[u]
  <2>1. CASE modal \in 1..Len(open)
    <3> HIDE DEF t
    <3> QED BY <1>2, <1>3, <2>1
  <2>2. CASE modal \notin 1..Len(open)
    BY <1>1, <1>2, <2>2
  <2> QED BY <2>1, <2>2
<1>5. WindowInv'
  BY <1>1 DEF Inv, WindowInv, Shows
<1>6. ThreadsInv'
  BY <1>1, <1>4 DEF Inv, ThreadsInv
<1>7. FreshInv'
  BY <1>1, <1>4, OpenFacts DEF Inv, FreshInv
<1>8. BusyInv'
  BY <1>1 DEF Inv, BusyInv
<1>9. ASSUME ~crossed PROVE Asked'
  <2>1. /\ Asked /\ modal \in 1..Len(open) /\ perm = None
        /\ IsShown(question, "askUser", t, agent[t], events[t], answers[t])
    BY <1>1, <1>9 DEF Inv, AskInv, Asked
  <2>2. /\ question = <<t, agent[t].asks>> /\ agent[t].pc = "askUser" /\ answers[t] = << >>
        /\ AsksIn(events[t], Requests) = {}
    BY <2>1 DEF IsShown
  <2>3. t \in Tabs /\ t \in ToSet(open) /\ answers' = [answers EXCEPT ![t] = Append(answers[t], question)]
    BY <1>3, <2>1
  <2> HIDE DEF t
  <2>4. /\ Len(answers'[t]) = 1 /\ answers'[t][1] = question
        /\ \A u \in Tabs : u # t => answers'[u] = answers[u]
    BY <1>2, <2>2, <2>3, Alone
  <2>5. ASSUME NEW u \in ToSet(open)
        PROVE  OnItsWay(u, agent[u], events[u], replies[u], answers'[u])
    <3>1. CASE u = t
      BY <2>2, <3>1 DEF OnItsWay
    <3>2. CASE u # t
      BY <2>1, <2>4, <3>2, OpenFacts DEF Asked
    <3> QED BY <3>1, <3>2
  <2>6. ASSUME NEW u \in Tabs PROVE InTheMail(u, agent[u], replies[u], answers'[u])
    <3>1. InTheMail(u, agent[u], replies[u], answers[u])
      BY <2>1 DEF Asked
    <3>2. CASE u = t
      BY <2>2, <2>4, <3>1, <3>2 DEF InTheMail
    <3>3. CASE u # t
      BY <2>4, <3>1, <3>3
    <3> QED BY <3>2, <3>3
  <2> QED BY <1>1, <2>1, <2>5, <2>6 DEF Asked
<1>10. AskInv'
  BY <1>1, <1>9 DEF AskInv
<1> QED BY <1>5, <1>6, <1>7, <1>8, <1>10 DEF Inv

-----------------------------------------------------------------------------
(* All behaviours *)

LEMMA InitHolds == Init => Inv
<1> SUFFICES ASSUME Init PROVE Inv
  OBVIOUS
<1>1. /\ First \in Tabs /\ open = <<First>> /\ active = 1 /\ modal = 0
      /\ perm = None /\ question = None /\ busy = FALSE /\ crossed = FALSE
      /\ agent = [t \in Tabs |-> IF t = First THEN [NoAgent EXCEPT !.pc = "start"] ELSE NoAgent]
      /\ tabBusy = [t \in Tabs |-> FALSE] /\ cancel = [t \in Tabs |-> FALSE]
      /\ prompts = [t \in Tabs |-> 0] /\ sent = [t \in Tabs |-> 0]
      /\ events = [t \in Tabs |-> << >>] /\ replies = [t \in Tabs |-> << >>]
      /\ answers = [t \in Tabs |-> << >>]
  BY TabsAssumption DEF Init, First
<1>2. /\ open \in Seq(Tabs) /\ Len(open) = 1 /\ open[1] = First /\ None \in Shows
      /\ \A j \in 1..Len(open) : j = 1
  BY <1>1 DEF Shows
<1>3. \A t : t \in ToSet(open) <=> t = First
  BY <1>2, InOpen
<1>4. /\ agent \in [Tabs -> Agent] /\ agent[First].pc = "start"
      /\ \A t \in Tabs : agent[t].pc \in {"start", "none"} /\ agent[t].got = None
  <2>1. NoAgent \in Agent /\ NoAgent.pc = "none" /\ NoAgent.got = None
    BY <1>2 DEF NoAgent, Agent
  <2> DEFINE a == [NoAgent EXCEPT !.pc = "start"]
  <2>2. a \in Agent /\ a.pc = "start" /\ a.got = None
    BY <2>1 DEF Agent
  <2> HIDE DEF a
  <2>3. agent = [t \in Tabs |-> IF t = First THEN a ELSE NoAgent]
    BY <1>1 DEF a
  <2> QED BY <1>1, <2>1, <2>2, <2>3
<1>5. WindowInv
  <2>1. Distinct(open)
    <3>1. \A i, j \in 1..Len(open) : i = j
      BY <1>2
    <3> QED BY <3>1 DEF Distinct
  <2>2. active \in 1..Len(open) /\ modal \in Nat
    BY <1>1, <1>2
  <2>3. busy \in BOOLEAN /\ crossed \in BOOLEAN /\ tabBusy \in [Tabs -> BOOLEAN]
    BY <1>1
  <2>4. \A t \in ToSet(open) : agent[t].pc # "none"
    BY <1>3, <1>4
  <2>5. perm \in Shows /\ question \in Shows
    BY <1>1, <1>2
  <2> QED BY <1>2, <2>1, <2>2, <2>3, <2>4, <2>5 DEF WindowInv
<1>6. ThreadsInv
  <2>1. << >> \in Seq(Message) /\ << >> \in Seq(Answer) /\ << >> \in Seq(Shows)
    OBVIOUS
  <2> QED BY <1>1, <1>4, <2>1 DEF ThreadsInv
<1>7. FreshInv
  BY <1>1 DEF FreshInv
<1>8. BusyInv
  <2>1. BusyAfter(<< >>, FALSE) = FALSE
    BY DEF BusyAfter
  <2>2. MarkFits(agent[First], events[First], tabBusy[First])
    BY <1>1, <1>4, <2>1 DEF MarkFits, Working
  <2>3. LightFits(agent[First], prompts[First], events[First], busy, tabBusy[First])
    BY <1>1 DEF LightFits
  <2> QED BY <1>1, <1>2, <1>3, <2>2, <2>3 DEF BusyInv
<1>9. Asked
  <2>1. AsksIn(<< >>, Requests) = {}
    BY DEF AsksIn
  <2>2. \A t \in ToSet(open) : OnItsWay(t, agent[t], events[t], replies[t], answers[t])
    BY <1>1, <1>3, <2>1 DEF OnItsWay
  <2>3. \A t \in Tabs : InTheMail(t, agent[t], replies[t], answers[t])
    BY <1>1, <1>4 DEF InTheMail
  <2> QED BY <1>1, <2>2, <2>3 DEF Asked
<1> QED BY <1>5, <1>6, <1>7, <1>8, <1>9 DEF Inv, AskInv

LEMMA StepKeeps == Inv /\ [Next]_vars => Inv'
<1> SUFFICES ASSUME Inv, [Next]_vars PROVE Inv'
  OBVIOUS
<1>1. CASE Next
  BY <1>1, AgentKeeps, TickKeeps, SendPromptKeeps, InterruptKeeps, NewTabKeeps, SelectTabKeeps,
     CloseTabKeeps, ReplyPermKeeps, ReplyQuestionKeeps DEF Next, Reply
<1>2. CASE UNCHANGED vars
  <2>1. UNCHANGED <<open, active, modal, perm, question, busy, tabBusy, agent, cancel, prompts, events,
                    replies, answers, sent, crossed>>
    BY <1>2 DEF vars, window, channels
  <2>2. WindowInv' /\ ThreadsInv' /\ FreshInv'
    BY <2>1 DEF Inv, WindowInv, ThreadsInv, FreshInv
  <2>3. BusyInv'
    BY <2>1 DEF Inv, BusyInv
  <2> QED BY <2>1, <2>2, <2>3, AskStays DEF Inv
<1> QED BY <1>1, <1>2

LEMMA InvGives == Inv => WindowIsTrue
<1> SUFFICES ASSUME Inv PROVE WindowIsTrue
  OBVIOUS
<1>1. TypeOK
  <2>1. ~crossed => modal \in 0..Len(open)
    <3>1. ~crossed => modal = 0 \/ modal \in 1..Len(open)
      BY DEF Inv, AskInv, Asked
    <3> QED BY <3>1, OpenFacts
  <2> QED BY <2>1 DEF TypeOK, Inv, WindowInv, ThreadsInv, Distinct
<1>2. BusyIsTrue
  <2>1. ASSUME NEW t \in ToSet(open), Alive(t), events[t] = << >>
        PROVE  tabBusy[t] <=> InTurn(t) /\ agent[t].pc # "save"
    <3>1. t \in Tabs /\ tabBusy[t] \in BOOLEAN
      BY OpenFacts, TypesOf
    <3>2. MarkFits(agent[t], << >>, tabBusy[t])
      BY <2>1 DEF Inv, BusyInv
    <3>3. tabBusy[t] <=> Working(agent[t])
      BY <2>1, <3>1, <3>2, Drained DEF MarkFits, Running, Alive
    <3> QED BY <3>3 DEF Working, InTurn
  <2>2. ASSUME Alive(open[active]), events[open[active]] = << >>, prompts[open[active]] = 0
        PROVE  busy <=> tabBusy[open[active]]
    <3> DEFINE t == open[active]
    <3>1. t \in Tabs /\ tabBusy[t] \in BOOLEAN /\ busy \in BOOLEAN
      BY OpenFacts, TypesOf
    <3>2. LightFits(agent[t], prompts[t], << >>, busy, tabBusy[t])
      BY <2>2 DEF Inv, BusyInv
    <3>3. BusyAfter(<< >>, busy) <=> BusyAfter(<< >>, tabBusy[t])
      BY <2>2, <3>2 DEF LightFits, Running, Alive
    <3> QED BY <3>1, <3>3, Drained
  <2> QED BY <2>1, <2>2 DEF BusyIsTrue
<1>3. AnswersFit
  BY DEF AnswersFit, AnswersReachAsker, Ask, Inv, AskInv, Asked, InTheMail
<1> QED BY <1>1, <1>2, <1>3 DEF WindowIsTrue

(* In the window of gui/src/main.rs the active tab is one of those shown,  *)
(* each shown once; when its events are drained the mark of a tab says     *)
(* whether its thread is in a turn, and the indicator what the mark of the *)
(* active tab says; and unless a request met another one, or a tab was     *)
(* closed under a dialogue, an answer is taken by the agent (worker.rs)    *)
(* whose request the user saw, whichever tab he went to meanwhile.         *)
THEOREM WindowSafety == Spec => []WindowIsTrue
BY InitHolds, StepKeeps, InvGives, PTL DEF Spec
=============================================================================
