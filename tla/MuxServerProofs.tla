--------------------------- MODULE MuxServerProofs ---------------------------
(***************************************************************************)
(* Proofs about MuxServer, for any number of sessions and connections and  *)
(* any sizes of transcripts, pipes and sockets: the locks are held by whom *)
(* they should be, a quiet session is listed as idle, and a client sees    *)
(* the output in order.                                                    *)
(***************************************************************************)
EXTENDS MCMuxServer, SequenceTheorems, TLAPS

Chunk == [n : Nat, sign : BOOLEAN]
SessionRec == [known : BOOLEAN, status : Statuses, buffer : Seq(Nat), subscribers : SUBSET Conns]
Child == [does : {"none", "starts", "waits", "works", "gone"}, stdin : 0..PipeSize,
          stdout : Seq(Chunk), said : Nat]
Reader == [pc : {"none", "read", "stored", "send", "gone"}, chunk : Chunk, todo : SUBSET Conns]
Conn == [pc : {"asked", "write", "replay", "listen", "typed", "done"}, kind : Kinds,
         session : Sessions \cup {NoRequest.session}, left : Seq(Nat)]
Client == [connected : BOOLEAN, unread : 0..SocketSize]
Sight == [last : Nat, live : BOOLEAN]

TypeInv ==
    /\ session \in [Sessions -> SessionRec] /\ child \in [Sessions -> Child]
    /\ reader \in [Sessions -> Reader] /\ lock \in Conns \cup {NoConn}
    /\ conn \in [Conns -> Conn] /\ client \in [Conns -> Client] /\ seen \in [Conns -> Sight]

Holds == {"write", "replay"}
LockInv == \A c \in Conns : (lock = c) = (conn[c].pc \in Holds)

(* A line is about to be written to the child.                             *)
Pending(s) == \E c \in Conns : conn[c].pc = "write" /\ conn[c].session = s

(* How many chunks of a child the reader has taken out of the pipe.        *)
Taken(ch) == ch.said - Len(ch.stdout)

(* The prompt sign of a child that waits is the last chunk it has said: it *)
(* is in the pipe, with the reader, or the session has become idle.        *)
Quiet(se, ch, rd, pending) ==
    se.known /\ ch.does = "waits" /\ ch.stdin = 0 /\ ~pending =>
    \/ se.status = "idle"
    \/ ch.stdout # << >> /\ ch.stdout[Len(ch.stdout)].sign
    \/ ch.stdout = << >> /\ rd.pc \in {"stored", "send"} /\ rd.chunk.sign

(* The pipe goes on where the reader is, and the transcript ends there.    *)
Numbered(se, ch, rd) ==
    /\ \A i \in 1..Len(ch.stdout) : ch.stdout[i].n = Taken(ch) + i
    /\ \A i \in 1..Len(se.buffer) : se.buffer[i] = Taken(ch) - Len(se.buffer) + i
    /\ rd.pc \in {"stored", "send"} => rd.chunk.n = Taken(ch)

Sound(se, ch, rd, pending) ==
    /\ Len(se.buffer) <= MaxBuffer /\ Len(ch.stdout) <= PipeSize
    /\ Quiet(se, ch, rd, pending) /\ Numbered(se, ch, rd)
    /\ rd.todo \subseteq se.subscribers
    /\ rd.pc # "send" => rd.todo = {}
    /\ ch.does = "none" => rd.pc = "none"

(* Of a connection by itself: only one that attaches sees anything, and    *)
(* its replay goes on where it is.                                         *)
Own(k, sn) ==
    /\ k.pc # "done" => k.session \in Sessions
    /\ sn # NothingSeen => k.kind = "attach" /\ k.pc \in {"replay", "listen", "typed", "write"}
    /\ k.pc = "replay" =>
         /\ ~sn.live /\ k.kind = "attach"
         /\ \A i \in 1..Len(k.left) : k.left[i] = k.left[1] + i - 1
         /\ sn # NothingSeen /\ k.left # << >> => k.left[1] = sn.last + 1

(* A connection c and a session s: what c has seen and is to be replayed   *)
(* has been taken from the pipe, and a subscriber that is there has all of *)
(* it, but for the chunk the reader is about to send.                      *)
Due(rd, c) == rd.pc = "stored" \/ c \in rd.todo

FitsIn(c, k, cl, sn, s, se, ch, rd) ==
    /\ k.session = s /\ sn # NothingSeen => sn.last <= Taken(ch)
    /\ k.session = s /\ k.pc = "replay" => \A i \in 1..Len(k.left) : k.left[i] <= Taken(ch)
    /\ c \in se.subscribers /\ cl.connected =>
         /\ k.session = s /\ k.kind = "attach" /\ k.pc \in {"listen", "typed", "write"}
         /\ sn.live => sn.last = Taken(ch) - IF Due(rd, c) THEN 1 ELSE 0

SoundAt(s) == Sound(session[s], child[s], reader[s], Pending(s))
FitsAt(c, s) == FitsIn(c, conn[c], client[c], seen[c], s, session[s], child[s], reader[s])

IInv ==
    /\ TypeInv /\ LockInv
    /\ \A s \in Sessions : SoundAt(s)
    /\ \A c \in Conns : Own(conn[c], seen[c])
    /\ \A c \in Conns, s \in Sessions : FitsAt(c, s)

-----------------------------------------------------------------------------
(* Steps that concern one session, one connection, or one of each *)

LEMMA SessionStep ==
  ASSUME IInv, NEW s \in Sessions, NEW se \in SessionRec, NEW ch \in Child, NEW rd \in Reader,
         session' = [session EXCEPT ![s] = se], child' = [child EXCEPT ![s] = ch],
         reader' = [reader EXCEPT ![s] = rd], UNCHANGED <<lock, conn, client, seen>>,
         Sound(se, ch, rd, Pending(s)),
         \A c \in Conns : FitsIn(c, conn[c], client[c], seen[c], s, se, ch, rd)
  PROVE  IInv'
<1>1. TypeInv' /\ LockInv'
  BY DEF IInv, TypeInv, LockInv
<1>2. \A t \in Sessions : SoundAt(t)'
  BY DEF IInv, TypeInv, SoundAt, Pending
<1>3. \A c \in Conns, t \in Sessions : FitsAt(c, t)'
  BY DEF IInv, TypeInv, FitsAt
<1> QED BY <1>1, <1>2, <1>3 DEF IInv

LEMMA ConnectionStep ==
  ASSUME IInv, NEW c \in Conns, NEW k \in Conn, NEW cl \in Client, NEW sn \in Sight,
         UNCHANGED <<session, child, reader>>, lock' \in Conns \cup {NoConn},
         conn' = [conn EXCEPT ![c] = k], client' = [client EXCEPT ![c] = cl],
         seen' = [seen EXCEPT ![c] = sn],
         LockInv', k = conn[c] \/ (k.pc # "write" /\ conn[c].pc # "write"),
         Own(k, sn),
         \A s \in Sessions : FitsIn(c, k, cl, sn, s, session[s], child[s], reader[s])
  PROVE  IInv'
<1>1. TypeInv'
  BY DEF IInv, TypeInv
<1>2. \A s \in Sessions : SoundAt(s)'
  <2> TAKE s \in Sessions
  <2>1. Pending(s)' = Pending(s)
    BY DEF IInv, TypeInv, Pending
  <2> QED BY <2>1 DEF IInv, SoundAt
<1>3. \A d \in Conns : Own(conn[d], seen[d])'
  BY DEF IInv, TypeInv
<1>4. \A d \in Conns, s \in Sessions : FitsAt(d, s)'
  BY DEF IInv, TypeInv, FitsAt
<1> QED BY <1>1, <1>2, <1>3, <1>4 DEF IInv

LEMMA BothStep ==
  ASSUME IInv, NEW s \in Sessions, NEW se \in SessionRec, NEW ch \in Child, NEW rd \in Reader,
         NEW c \in Conns, NEW k \in Conn, NEW cl \in Client, NEW sn \in Sight,
         session' = [session EXCEPT ![s] = se], child' = [child EXCEPT ![s] = ch],
         reader' = [reader EXCEPT ![s] = rd], lock' \in Conns \cup {NoConn},
         conn' = [conn EXCEPT ![c] = k], client' = [client EXCEPT ![c] = cl],
         seen' = [seen EXCEPT ![c] = sn],
         LockInv', \A t \in Sessions \ {s} : Pending(t)' = Pending(t),
         Sound(se, ch, rd, Pending(s)'),
         Own(k, sn), FitsIn(c, k, cl, sn, s, se, ch, rd),
         \A t \in Sessions \ {s} : FitsIn(c, k, cl, sn, t, session[t], child[t], reader[t]),
         \A d \in Conns \ {c} : FitsIn(d, conn[d], client[d], seen[d], s, se, ch, rd)
  PROVE  IInv'
<1>1. TypeInv'
  BY DEF IInv, TypeInv
<1>2. \A t \in Sessions : SoundAt(t)'
  BY DEF IInv, TypeInv, SoundAt
<1>3. \A d \in Conns : Own(conn[d], seen[d])'
  BY DEF IInv, TypeInv
<1>4. \A d \in Conns, t \in Sessions : FitsAt(d, t)'
  <2> TAKE d \in Conns, t \in Sessions
  <2>1. /\ conn'[d] = (IF d = c THEN k ELSE conn[d])
        /\ client'[d] = (IF d = c THEN cl ELSE client[d])
        /\ seen'[d] = (IF d = c THEN sn ELSE seen[d])
    BY DEF IInv, TypeInv
  <2>2. /\ session'[t] = (IF t = s THEN se ELSE session[t])
        /\ child'[t] = (IF t = s THEN ch ELSE child[t])
        /\ reader'[t] = (IF t = s THEN rd ELSE reader[t])
    BY DEF IInv, TypeInv
  <2>3. FitsIn(d, conn[d], client[d], seen[d], t, session[t], child[t], reader[t])
    BY DEF IInv, FitsAt
  <2>4. CASE d = c /\ t = s
    BY <2>1, <2>2, <2>4 DEF FitsAt
  <2>5. CASE d # c /\ t = s
    BY <2>1, <2>2, <2>5 DEF FitsAt
  <2>6. CASE d = c /\ t # s
    BY <2>1, <2>2, <2>6 DEF FitsAt
  <2>7. CASE d # c /\ t # s
    BY <2>1, <2>2, <2>3, <2>7 DEF FitsAt
  <2> QED BY <2>4, <2>5, <2>6, <2>7
<1> QED BY <1>1, <1>2, <1>3, <1>4 DEF IInv

(* What is known of one session, and of one connection.                    *)
LEMMA OfSession ==
  ASSUME IInv, NEW s \in Sessions
  PROVE  /\ session[s] \in SessionRec /\ child[s] \in Child /\ reader[s] \in Reader
         /\ session[s].buffer \in Seq(Nat) /\ child[s].stdout \in Seq(Chunk)
         /\ child[s].said \in Nat /\ child[s].stdin \in 0..PipeSize
         /\ Len(session[s].buffer) \in Nat /\ Len(child[s].stdout) \in Nat
         /\ Taken(child[s]) \in Int
         /\ session[s].subscribers \subseteq Conns /\ reader[s].chunk \in Chunk
         /\ Sound(session[s], child[s], reader[s], Pending(s))
<1>1. /\ session[s] \in SessionRec /\ child[s] \in Child /\ reader[s] \in Reader
      /\ Sound(session[s], child[s], reader[s], Pending(s))
  BY DEF IInv, TypeInv, SoundAt
<1>2. /\ session[s].buffer \in Seq(Nat) /\ session[s].subscribers \subseteq Conns
      /\ child[s].stdout \in Seq(Chunk) /\ child[s].said \in Nat /\ child[s].stdin \in 0..PipeSize
      /\ reader[s].chunk \in Chunk
  BY <1>1 DEF SessionRec, Child, Reader
<1>3. Len(session[s].buffer) \in Nat /\ Len(child[s].stdout) \in Nat
  BY <1>2, LenProperties
<1> QED BY <1>1, <1>2, <1>3 DEF Taken

LEMMA OfConn ==
  ASSUME IInv, NEW c \in Conns
  PROVE  /\ conn[c] \in Conn /\ client[c] \in Client /\ seen[c] \in Sight
         /\ conn[c].left \in Seq(Nat) /\ Len(conn[c].left) \in Nat
         /\ client[c].unread \in 0..SocketSize /\ seen[c].last \in Nat
         /\ Own(conn[c], seen[c]) /\ (lock = c) = (conn[c].pc \in Holds)
         /\ \A s \in Sessions :
              FitsIn(c, conn[c], client[c], seen[c], s, session[s], child[s], reader[s])
<1>1. /\ conn[c] \in Conn /\ client[c] \in Client /\ seen[c] \in Sight
      /\ Own(conn[c], seen[c]) /\ (lock = c) = (conn[c].pc \in Holds)
      /\ \A s \in Sessions :
           FitsIn(c, conn[c], client[c], seen[c], s, session[s], child[s], reader[s])
  BY DEF IInv, TypeInv, LockInv, FitsAt
<1>2. conn[c].left \in Seq(Nat) /\ client[c].unread \in 0..SocketSize /\ seen[c].last \in Nat
  BY <1>1 DEF Conn, Client, Sight
<1> QED BY <1>1, <1>2, LenProperties

-----------------------------------------------------------------------------
(* The child *)

LEMMA ChildStep ==
  ASSUME IInv, NEW s \in Sessions, NEW ch \in Child, child' = [child EXCEPT ![s] = ch],
         UNCHANGED <<session, reader, lock, conn, client, seen>>,
         Taken(ch) = Taken(child[s]), Len(ch.stdout) <= PipeSize, ch.does # "none",
         \A i \in 1..Len(ch.stdout) : ch.stdout[i].n = Taken(ch) + i,
         Quiet(session[s], ch, reader[s], Pending(s))
  PROVE  IInv'
<1>1. session' = [session EXCEPT ![s] = session[s]] /\ reader' = [reader EXCEPT ![s] = reader[s]]
  BY DEF IInv, TypeInv
<1>2. Sound(session[s], ch, reader[s], Pending(s))
  BY OfSession DEF Sound, Numbered
<1>3. \A c \in Conns : FitsIn(c, conn[c], client[c], seen[c], s, session[s], ch, reader[s])
  BY OfConn DEF FitsIn
<1> QED BY <1>1, <1>2, <1>3, OfSession, SessionStep

LEMMA SaysIInv ==
  ASSUME IInv, NEW s \in Sessions, NEW sign \in BOOLEAN, NEW does \in {"waits", "works"},
         Says(s, sign, does), does = "waits" => sign
  PROVE  IInv'
<1> DEFINE a == child[s]
           e == [n |-> a.said + 1, sign |-> sign]
           q == Append(a.stdout, e)
           said == a.said + 1
           ch == [a EXCEPT !.stdout = q, !.said = said, !.does = does]
<1>1. /\ a \in Child /\ a.stdout \in Seq(Chunk) /\ a.said \in Nat /\ e \in Chunk
      /\ Len(a.stdout) \in Nat /\ Len(a.stdout) < PipeSize
      /\ \A i \in 1..Len(a.stdout) : a.stdout[i].n = Taken(a) + i
  BY OfSession DEF Says, Chunk, Sound, Numbered
<1>2. /\ q \in Seq(Chunk) /\ Len(q) = Len(a.stdout) + 1 /\ q[Len(q)] = e /\ q # << >>
      /\ \A i \in 1..Len(a.stdout) : q[i] = a.stdout[i]
  BY <1>1, AppendProperties
<1>3. e.n = said /\ e.sign = sign /\ said \in Nat /\ said = a.said + 1
  BY <1>1
<1> HIDE DEF q, e, said
<1>4. ch \in Child /\ ch.stdout = q /\ ch.said = said /\ ch.does = does /\ ch.stdin = a.stdin
  BY <1>1, <1>2, <1>3 DEF Child
<1>5. child' = [child EXCEPT ![s] = ch]
  BY DEF Says, q, e, said
<1> HIDE DEF ch
<1>6. Taken(ch) = Taken(a) /\ Taken(a) = a.said - Len(a.stdout)
  <2>1. Taken(ch) = said - Len(q) /\ Taken(a) = a.said - Len(a.stdout)
    BY <1>4 DEF Taken
  <2>2. /\ Len(q) = Len(a.stdout) + 1 /\ said = a.said + 1
        /\ Len(a.stdout) \in Nat /\ a.said \in Nat
    BY <1>1, <1>2, <1>3
  <2>3. ASSUME NEW x \in Nat, NEW y \in Nat PROVE (x + 1) - (y + 1) = x - y
    OBVIOUS
  <2> QED BY <2>1, <2>2, <2>3
<1>7. \A i \in 1..Len(ch.stdout) : ch.stdout[i].n = Taken(ch) + i
  <2> SUFFICES ASSUME NEW i \in 1..Len(q) PROVE q[i].n = Taken(a) + i
    BY <1>4, <1>6
  <2>1. CASE i = Len(q)
    BY <1>1, <1>2, <1>3, <1>6, <2>1
  <2>2. CASE i # Len(q)
    BY <1>1, <1>2, <2>2
  <2> QED BY <2>1, <2>2
<1>8. Len(ch.stdout) <= PipeSize
  <2>1. PipeSize \in Nat
    BY SizesAssumption
  <2> QED BY <1>1, <1>2, <1>4, <2>1
<1>9. Quiet(session[s], ch, reader[s], Pending(s))
  BY <1>2, <1>3, <1>4 DEF Quiet
<1> QED BY <1>4, <1>5, <1>6, <1>7, <1>8, <1>9, ChildStep DEF Says, server

LEMMA ChildIInv ==
  ASSUME IInv, NEW s \in Sessions, Ready(s) \/ Output(s) \/ TakeLine(s) \/ Exit(s)
  PROVE  IInv'
<1>1. CASE Ready(s) \/ Output(s)
  BY <1>1, SaysIInv DEF Ready, Output
<1>2. CASE TakeLine(s)
  <2> DEFINE lines == child[s].stdin - 1
             ch == [child[s] EXCEPT !.stdin = lines, !.does = "works"]
  <2>1. child[s] \in Child /\ child[s].stdin \in 0..PipeSize /\ child[s].stdin > 0
    BY <1>2, OfSession DEF TakeLine
  <2>2. lines \in 0..PipeSize
    BY <2>1, SizesAssumption
  <2>3. /\ ch \in Child /\ ch.does = "works" /\ ch.stdout = child[s].stdout
        /\ ch.said = child[s].said
    <3> HIDE DEF lines
    <3> QED BY <2>1, <2>2 DEF Child
  <2>4. child' = [child EXCEPT ![s] = ch] /\ UNCHANGED <<session, reader, lock, conn, client, seen>>
    BY <1>2 DEF TakeLine, server
  <2> HIDE DEF ch
  <2>5. Taken(ch) = Taken(child[s]) /\ Quiet(session[s], ch, reader[s], Pending(s))
    BY <2>3 DEF Taken, Quiet
  <2> QED BY <2>3, <2>4, <2>5, OfSession, ChildStep DEF Sound, Numbered
<1>3. CASE Exit(s)
  <2> DEFINE ch == [child[s] EXCEPT !.does = "gone", !.stdin = 0]
  <2>1. child[s] \in Child /\ 0 \in 0..PipeSize
    BY OfSession, SizesAssumption
  <2>2. /\ ch \in Child /\ ch.does = "gone" /\ ch.stdout = child[s].stdout
        /\ ch.said = child[s].said
    BY <2>1 DEF Child
  <2>3. child' = [child EXCEPT ![s] = ch] /\ UNCHANGED <<session, reader, lock, conn, client, seen>>
    BY <1>3 DEF Exit, server
  <2> HIDE DEF ch
  <2>4. Taken(ch) = Taken(child[s]) /\ Quiet(session[s], ch, reader[s], Pending(s))
    BY <2>2 DEF Taken, Quiet
  <2> QED BY <2>2, <2>3, <2>4, OfSession, ChildStep DEF Sound, Numbered
<1> QED BY <1>1, <1>2, <1>3

-----------------------------------------------------------------------------
(* The reader *)

(* The transcript with the next chunk, cut at its limit.                   *)
LEMMA StoredBuffer ==
  ASSUME IInv, NEW s \in Sessions, child[s].stdout # << >>
  PROVE  /\ Stored(s) \in Seq(Nat) /\ Len(Stored(s)) <= MaxBuffer
         /\ \A i \in 1..Len(Stored(s)) : Stored(s)[i] = Taken(child[s]) + 1 - Len(Stored(s)) + i
         /\ Head(child[s].stdout).n = Taken(child[s]) + 1
<1> DEFINE q == child[s].stdout
           old == session[s].buffer
           n == Head(q).n
           longer == Append(old, n)
           taken == Taken(child[s])
<1>1. /\ old \in Seq(Nat) /\ Len(old) \in Nat /\ Len(old) <= MaxBuffer /\ taken \in Int
      /\ \A i \in 1..Len(old) : old[i] = taken - Len(old) + i
      /\ MaxBuffer \in Nat
  BY OfSession, SizesAssumption DEF Sound, Numbered
<1>2. n = taken + 1 /\ n \in Nat
  <2>1. q \in Seq(Chunk) /\ Len(q) \in Nat /\ \A i \in 1..Len(q) : q[i].n = taken + i
    BY OfSession DEF Sound, Numbered
  <2>2. Head(q) = q[1] /\ q[1] \in Chunk /\ 1 \in 1..Len(q)
    BY <2>1, HeadTailProperties, LenProperties, EmptySeq, ElementOfSeq
  <2> QED BY <2>1, <2>2 DEF Chunk
<1> HIDE DEF n, taken, q, old
<1>3. /\ longer \in Seq(Nat) /\ Len(longer) = Len(old) + 1
      /\ \A i \in 1..Len(longer) : longer[i] = taken + 1 - Len(longer) + i
  <2>1. /\ longer \in Seq(Nat) /\ Len(longer) = Len(old) + 1 /\ longer[Len(longer)] = n
        /\ \A i \in 1..Len(old) : longer[i] = old[i]
    BY <1>1, <1>2, AppendProperties
  <2> HIDE DEF longer
  <2>2. ASSUME NEW i \in 1..Len(longer) PROVE longer[i] = taken + 1 - Len(longer) + i
    <3>1. CASE i = Len(longer)
      <4>1. longer[i] = taken + 1 /\ i \in Nat /\ taken \in Int
        BY <1>1, <1>2, <2>1, <3>1
      <4> QED BY <3>1, <4>1
    <3>2. CASE i # Len(longer)
      <4>1. i \in 1..Len(old) /\ longer[i] = taken - Len(old) + i
        BY <1>1, <2>1, <3>2
      <4> QED BY <1>1, <2>1, <4>1
    <3> QED BY <3>1, <3>2
  <2> QED BY <2>1, <2>2
<1>4. Stored(s) = IF Len(longer) > MaxBuffer THEN Tail(longer) ELSE longer
  BY DEF Stored, n, old, q
<1> HIDE DEF longer
<1>5. CASE Len(longer) > MaxBuffer
  <2>1. /\ Tail(longer) \in Seq(Nat) /\ Len(Tail(longer)) = Len(longer) - 1
        /\ \A i \in 1..(Len(longer) - 1) : Tail(longer)[i] = longer[i + 1]
    BY <1>1, <1>3, HeadTailProperties, EmptySeq
  <2>2. ASSUME NEW i \in 1..Len(Tail(longer))
        PROVE  Tail(longer)[i] = taken + 1 - Len(Tail(longer)) + i
    <3>1. i + 1 \in 1..Len(longer) /\ i \in Nat /\ Len(longer) \in Nat
      BY <1>1, <1>3, <2>1
    <3>2. Tail(longer)[i] = taken + 1 - Len(longer) + (i + 1)
      BY <1>3, <2>1, <3>1
    <3> QED BY <1>1, <2>1, <3>1, <3>2
  <2>3. Len(Tail(longer)) <= MaxBuffer
    BY <1>1, <1>3, <2>1
  <2> QED BY <1>2, <1>4, <1>5, <2>1, <2>2, <2>3 DEF taken, n, q
<1>6. CASE ~(Len(longer) > MaxBuffer)
  <2>1. Len(longer) <= MaxBuffer
    BY <1>1, <1>3, <1>6
  <2> QED BY <1>2, <1>3, <1>4, <1>6, <2>1 DEF taken, n, q
<1> QED BY <1>5, <1>6

LEMMA ReadIInv == ASSUME IInv, NEW s \in Sessions, Read(s) PROVE IInv'
<1> DEFINE a == child[s]
           q == Tail(a.stdout)
           ch == [a EXCEPT !.stdout = q]
           se == [session[s] EXCEPT !.buffer = Stored(s)]
           e == Head(a.stdout)
           rd == [pc |-> "stored", chunk |-> e, todo |-> {}]
<1>1. /\ a \in Child /\ a.stdout \in Seq(Chunk) /\ a.stdout # << >> /\ session[s] \in SessionRec
      /\ Len(a.stdout) \in Nat /\ a.said \in Nat /\ Len(a.stdout) <= PipeSize
      /\ \A i \in 1..Len(a.stdout) : a.stdout[i].n = Taken(a) + i
      /\ PipeSize \in Nat /\ reader[s].pc = "read" /\ reader[s].todo = {} /\ Taken(a) \in Int
      /\ Quiet(session[s], a, reader[s], Pending(s)) /\ a.does # "none"
  BY OfSession, SizesAssumption DEF Read, Sound, Numbered
<1>2. /\ q \in Seq(Chunk) /\ Len(q) = Len(a.stdout) - 1 /\ e = a.stdout[1] /\ e \in Chunk
      /\ \A i \in 1..Len(q) : q[i] = a.stdout[i + 1]
  BY <1>1, HeadTailProperties, EmptySeq, ElementOfSeq
<1>3. /\ Stored(s) \in Seq(Nat) /\ Len(Stored(s)) <= MaxBuffer /\ e.n = Taken(a) + 1
      /\ \A i \in 1..Len(Stored(s)) : Stored(s)[i] = Taken(a) + 1 - Len(Stored(s)) + i
  BY <1>1, StoredBuffer
<1>4. /\ session' = [session EXCEPT ![s] = se] /\ child' = [child EXCEPT ![s] = ch]
      /\ reader' = [reader EXCEPT ![s] = rd] /\ UNCHANGED <<lock, conn, client, seen>>
  BY DEF Read
<1> HIDE DEF q, e
<1>5. /\ ch \in Child /\ ch.stdout = q /\ ch.said = a.said /\ ch.does = a.does
      /\ ch.stdin = a.stdin
  BY <1>1, <1>2 DEF Child
<1>6. /\ se \in SessionRec /\ se.buffer = Stored(s) /\ se.known = session[s].known
      /\ se.status = session[s].status /\ se.subscribers = session[s].subscribers
  BY <1>1, <1>3 DEF SessionRec
<1>7. rd \in Reader /\ rd.pc = "stored" /\ rd.chunk = e /\ rd.todo = {}
  BY <1>2 DEF Reader
<1> HIDE DEF ch, se, rd
<1>8. Taken(ch) = Taken(a) + 1
  <2>1. Taken(ch) = a.said - Len(q) /\ Taken(a) = a.said - Len(a.stdout)
    BY <1>5 DEF Taken
  <2>2. ASSUME NEW x \in Nat, NEW y \in Nat PROVE x - (y - 1) = (x - y) + 1
    OBVIOUS
  <2>3. Len(q) = Len(a.stdout) - 1 /\ a.said \in Nat /\ Len(a.stdout) \in Nat
    BY <1>1, <1>2
  <2> QED BY <2>1, <2>2, <2>3
<1>9. Numbered(se, ch, rd)
  <2>1. \A i \in 1..Len(q) : q[i].n = Taken(ch) + i
    <3> TAKE i \in 1..Len(q)
    <3>1. i + 1 \in 1..Len(a.stdout) /\ q[i] = a.stdout[i + 1]
      BY <1>1, <1>2
    <3>2. q[i].n = Taken(a) + (i + 1)
      BY <1>1, <3>1
    <3>3. i \in Nat
      OBVIOUS
    <3> QED BY <1>1, <1>8, <3>2, <3>3
  <2>2. \A i \in 1..Len(se.buffer) : se.buffer[i] = Taken(ch) - Len(se.buffer) + i
    <3> TAKE i \in 1..Len(se.buffer)
    <3>1. Stored(s)[i] = Taken(a) + 1 - Len(Stored(s)) + i
      BY <1>3, <1>6
    <3>2. Taken(a) + 1 = Taken(ch)
      BY <1>8
    <3>3. Len(Stored(s)) \in Nat /\ i \in Nat /\ Taken(a) \in Int
      BY <1>1, <1>3, LenProperties
    <3> QED BY <1>6, <3>1, <3>2, <3>3
  <2>3. rd.chunk.n = Taken(ch)
    BY <1>3, <1>7, <1>8
  <2> QED BY <1>5, <2>1, <2>2, <2>3 DEF Numbered
<1>10. Quiet(se, ch, rd, Pending(s))
  <2> SUFFICES ASSUME se.known, ch.does = "waits", ch.stdin = 0, ~Pending(s), se.status # "idle"
               PROVE  \/ q # << >> /\ q[Len(q)].sign
                      \/ q = << >> /\ e.sign
    BY <1>5, <1>6, <1>7 DEF Quiet
  <2>1. a.stdout[Len(a.stdout)].sign
    BY <1>1, <1>5, <1>6 DEF Quiet
  <2>2. CASE q = << >>
    <3>1. Len(a.stdout) = 1
      BY <1>1, <1>2, <2>2
    <3> QED BY <1>2, <2>1, <2>2, <3>1
  <2>3. CASE q # << >>
    <3>1. Len(q) \in 1..Len(q) /\ Len(q) + 1 = Len(a.stdout)
      BY <1>1, <1>2, <2>3, EmptySeq, LenProperties
    <3> QED BY <1>2, <2>1, <2>3, <3>1
  <2> QED BY <2>2, <2>3
<1>11. Sound(se, ch, rd, Pending(s))
  <2>1. Len(ch.stdout) <= PipeSize
    BY <1>1, <1>2, <1>5
  <2> QED BY <1>1, <1>3, <1>5, <1>6, <1>7, <1>9, <1>10, <2>1 DEF Sound
<1>12. ASSUME NEW c \in Conns PROVE FitsIn(c, conn[c], client[c], seen[c], s, se, ch, rd)
  <2>1. /\ FitsIn(c, conn[c], client[c], seen[c], s, session[s], a, reader[s])
        /\ seen[c].last \in Nat /\ conn[c].left \in Seq(Nat)
    BY OfConn
  <2>2. ~Due(reader[s], c) /\ Due(rd, c)
    BY <1>1, <1>7 DEF Due
  <2>3. \A i \in 1..Len(conn[c].left) : conn[c].left[i] \in Nat
    BY <2>1, ElementOfSeq
  <2> DEFINE taken == Taken(a)
  <2>4. /\ taken \in Int /\ Taken(a) = taken /\ Taken(ch) = taken + 1
        /\ se.subscribers = session[s].subscribers
    BY <1>1, <1>6, <1>8
  <2> HIDE DEF taken
  <2>5. seen[c].last <= taken => seen[c].last <= taken + 1
    BY <2>1, <2>4
  <2>6. \A i \in 1..Len(conn[c].left) :
          conn[c].left[i] <= taken => conn[c].left[i] <= taken + 1
    BY <2>3, <2>4
  <2>7. seen[c].last = taken - 0 => seen[c].last = (taken + 1) - 1
    BY <2>1, <2>4
  <2> QED BY <2>1, <2>2, <2>4, <2>5, <2>6, <2>7 DEF FitsIn
<1> QED BY <1>4, <1>5, <1>6, <1>7, <1>11, <1>12, SessionStep

(* A step of the reader that takes nothing from the pipe.                  *)
LEMMA ReaderMoves ==
  ASSUME IInv, NEW s \in Sessions, NEW se \in SessionRec, NEW rd \in Reader,
         session' = [session EXCEPT ![s] = se], reader' = [reader EXCEPT ![s] = rd],
         UNCHANGED <<child, lock, conn, client, seen>>,
         se.buffer = session[s].buffer, se.subscribers \subseteq session[s].subscribers,
         reader[s].pc # "none",
         Quiet(se, child[s], rd, Pending(s)),
         rd.todo \subseteq se.subscribers, rd.pc # "send" => rd.todo = {},
         rd.pc \in {"stored", "send"} =>
           reader[s].pc \in {"stored", "send"} /\ rd.chunk = reader[s].chunk,
         \A c \in se.subscribers : client[c].connected => Due(rd, c) = Due(reader[s], c)
  PROVE  IInv'
<1>1. child' = [child EXCEPT ![s] = child[s]]
  BY DEF IInv, TypeInv
<1>2. Numbered(se, child[s], rd)
  BY OfSession DEF Sound, Numbered
<1>3. Sound(se, child[s], rd, Pending(s))
  BY <1>2, OfSession DEF Sound
<1>4. \A c \in Conns : FitsIn(c, conn[c], client[c], seen[c], s, se, child[s], rd)
  BY OfConn DEF FitsIn
<1> QED BY <1>1, <1>3, <1>4, OfSession, SessionStep

LEMMA ReaderIInv ==
  ASSUME IInv, NEW s \in Sessions, EndOfOutput(s) \/ LockSubscribers(s) \/ Notice(s)
  PROVE  IInv'
<1> DEFINE a == reader[s]
<1>1. /\ a \in Reader /\ session[s] \in SessionRec /\ a.todo \subseteq session[s].subscribers
      /\ a.pc # "send" => a.todo = {}
      /\ Quiet(session[s], child[s], a, Pending(s)) /\ session[s].subscribers \subseteq Conns
      /\ session' = session => session' = [session EXCEPT ![s] = session[s]]
  BY OfSession DEF Sound, IInv, TypeInv
<1>2. CASE EndOfOutput(s)
  <2> DEFINE rd == [a EXCEPT !.pc = "gone"]
  <2>1. rd \in Reader /\ rd.pc = "gone" /\ rd.todo = a.todo /\ rd.chunk = a.chunk
    BY <1>1 DEF Reader
  <2>2. /\ reader' = [reader EXCEPT ![s] = rd] /\ a.pc = "read" /\ child[s].does = "gone"
        /\ UNCHANGED <<session, child, lock, conn, client, seen>>
    BY <1>2 DEF EndOfOutput
  <2> HIDE DEF rd
  <2>3. Quiet(session[s], child[s], rd, Pending(s))
    BY <2>2 DEF Quiet
  <2> QED BY <1>1, <2>1, <2>2, <2>3, ReaderMoves DEF Due
<1>3. CASE LockSubscribers(s)
  <2> DEFINE rd == [a EXCEPT !.pc = "send", !.todo = session[s].subscribers]
  <2>1. /\ rd \in Reader /\ rd.pc = "send" /\ rd.todo = session[s].subscribers
        /\ rd.chunk = a.chunk
    BY <1>1 DEF Reader
  <2>2. /\ reader' = [reader EXCEPT ![s] = rd] /\ a.pc = "stored"
        /\ UNCHANGED <<session, child, lock, conn, client, seen>>
    BY <1>3 DEF LockSubscribers
  <2> HIDE DEF rd
  <2>3. Quiet(session[s], child[s], rd, Pending(s))
    BY <1>1, <2>1, <2>2 DEF Quiet
  <2> QED BY <1>1, <2>1, <2>2, <2>3, ReaderMoves DEF Due
<1>4. CASE Notice(s)
  <2> DEFINE rd == [a EXCEPT !.pc = "read", !.chunk = NoChunk]
             status == IF a.chunk.sign THEN "idle" ELSE session[s].status
             se == [session[s] EXCEPT !.status = status]
  <2>1. rd \in Reader /\ rd.pc = "read" /\ rd.todo = a.todo /\ a.pc = "send" /\ a.todo = {}
    BY <1>1, <1>4 DEF Reader, Notice, NoChunk, Chunk
  <2>2. /\ se \in SessionRec /\ se.status = status /\ se.known = session[s].known
        /\ se.buffer = session[s].buffer /\ se.subscribers = session[s].subscribers
    BY <1>1 DEF SessionRec, Statuses
  <2>3. /\ session' = [session EXCEPT ![s] = se] /\ reader' = [reader EXCEPT ![s] = rd]
        /\ UNCHANGED <<child, lock, conn, client, seen>>
    BY <1>4 DEF Notice
  <2>4. Quiet(se, child[s], rd, Pending(s))
    <3> HIDE DEF se, rd
    <3> QED BY <1>1, <2>1, <2>2 DEF Quiet
  <2> HIDE DEF se, rd, status
  <2> QED BY ZenonT(40), <1>1, <2>1, <2>2, <2>3, <2>4, ReaderMoves DEF Due
<1> QED BY <1>2, <1>3, <1>4

LEMMA BroadcastIInv ==
  ASSUME IInv, NEW s \in Sessions, NEW c \in Conns, Broadcast(s, c)
  PROVE  IInv'
<1> DEFINE a == reader[s]
           todo == a.todo \ {c}
           rd == [a EXCEPT !.todo = todo]
<1>1. /\ a \in Reader /\ session[s] \in SessionRec /\ child[s] \in Child
      /\ a.todo \subseteq session[s].subscribers /\ a.todo \subseteq Conns
      /\ Sound(session[s], child[s], a, Pending(s)) /\ session[s].subscribers \subseteq Conns
      /\ a.pc = "send" /\ c \in a.todo /\ a.chunk.n = Taken(child[s])
      /\ a.chunk.n \in Nat
  BY OfSession DEF Sound, Numbered, Broadcast, Reader, Chunk
<1>2. /\ rd \in Reader /\ rd.pc = "send" /\ rd.todo = todo /\ rd.chunk = a.chunk
  BY <1>1 DEF Reader
<1>3. reader' = [reader EXCEPT ![s] = rd] /\ UNCHANGED <<lock, conn, child>>
  BY DEF Broadcast
<1> HIDE DEF rd
<1>4. CASE client[c].connected
  <2> DEFINE n == a.chunk.n
             sn == [last |-> n, live |-> TRUE]
             unread == client[c].unread + 1
             cl == [client[c] EXCEPT !.unread = unread]
  <2>1. /\ client' = [client EXCEPT ![c] = cl] /\ seen' = [seen EXCEPT ![c] = sn]
        /\ session' = session /\ client[c].unread < SocketSize
    BY <1>4 DEF Broadcast, Delivered
  <2>2. unread \in 0..SocketSize /\ client[c] \in Client
    BY <2>1, OfConn, SizesAssumption
  <2>3. cl \in Client /\ cl.connected = client[c].connected
    <3> HIDE DEF unread
    <3> QED BY <2>2 DEF Client
  <2>4. sn \in Sight /\ sn.last = n /\ sn.live = TRUE
    BY <1>1 DEF Sight
  <2> HIDE DEF sn, cl
  <2>5. /\ session' = [session EXCEPT ![s] = session[s]] /\ child' = [child EXCEPT ![s] = child[s]]
        /\ conn' = [conn EXCEPT ![c] = conn[c]]
    BY <1>3, <2>1 DEF IInv, TypeInv
  <2>6. LockInv' /\ lock' \in Conns \cup {NoConn} /\ \A t \in Sessions : Pending(t)' = Pending(t)
    BY <1>3 DEF IInv, TypeInv, LockInv, Pending
  <2>7. Sound(session[s], child[s], rd, Pending(s)')
    <3>1. Sound(session[s], child[s], rd, Pending(s))
      BY <1>1, <1>2 DEF Sound, Numbered, Quiet
    <3> QED BY <2>6, <3>1
  <2>8. /\ conn[c].session = s /\ conn[c].kind = "attach" /\ conn[c].pc \in {"listen", "typed", "write"}
        /\ \A t \in Sessions \ {s} : c \notin session[t].subscribers
        /\ Own(conn[c], seen[c]) /\ conn[c] \in Conn
    BY <1>1, <1>4, OfConn DEF FitsIn
  <2>9. Own(conn[c], sn)
    BY <2>8 DEF Own
  <2>10. FitsIn(c, conn[c], cl, sn, s, session[s], child[s], rd)
    <3>1. ~Due(rd, c)
      BY <1>2 DEF Due
    <3>2. sn.last = Taken(child[s]) - 0 /\ sn.last <= Taken(child[s])
      BY <1>1, <2>4
    <3> QED BY <2>8, <3>1, <3>2 DEF FitsIn
  <2>11. \A t \in Sessions \ {s} : FitsIn(c, conn[c], cl, sn, t, session[t], child[t], reader[t])
    BY <2>8 DEF FitsIn
  <2>12. \A d \in Conns \ {c} : FitsIn(d, conn[d], client[d], seen[d], s, session[s], child[s], rd)
    <3> TAKE d \in Conns \ {c}
    <3>1. FitsIn(d, conn[d], client[d], seen[d], s, session[s], child[s], a)
      BY OfConn
    <3>2. Due(rd, d) = Due(a, d)
      BY <1>1, <1>2 DEF Due
    <3> QED BY <3>1, <3>2 DEF FitsIn
  <2> QED BY ZenonT(40), <1>1, <1>2, <1>3, <2>1, <2>3, <2>4, <2>5, <2>6, <2>7, <2>8, <2>9, <2>10, <2>11, <2>12, BothStep
<1>5. CASE ~client[c].connected
  <2> DEFINE left == session[s].subscribers \ {c}
             se == [session[s] EXCEPT !.subscribers = left]
  <2>1. /\ session' = [session EXCEPT ![s] = se] /\ UNCHANGED <<client, seen>>
    BY <1>5 DEF Broadcast
  <2>2. /\ se \in SessionRec /\ se.subscribers = left /\ se.buffer = session[s].buffer
        /\ se.known = session[s].known /\ se.status = session[s].status
    BY <1>1 DEF SessionRec
  <2> HIDE DEF se
  <2>3. Quiet(se, child[s], rd, Pending(s))
    BY <1>1, <1>2, <2>2 DEF Sound, Quiet
  <2> QED BY <1>1, <1>2, <1>3, <2>1, <2>2, <2>3, ReaderMoves DEF Due
<1> QED BY <1>4, <1>5

-----------------------------------------------------------------------------
(* Connections and clients *)

LEMMA Over == /\ NoRequest.pc = "done" /\ NoRequest.kind = "list" /\ NoRequest.left = << >>
              /\ NoRequest \in Conn
<1> DEFINE any == CHOOSE s \in Sessions : TRUE
<1>1. NoRequest = [pc |-> "done", kind |-> "list", session |-> any, left |-> << >>]
  BY DEF NoRequest
<1> HIDE DEF any
<1>2. NoRequest.session = any /\ << >> \in Seq(Nat)
  BY <1>1, EmptySeq
<1> QED BY <1>1, <1>2 DEF Conn, Kinds

(* A connection of which nothing has been shown, and which is subscribed   *)
(* nowhere, may be over.                                                   *)
Unattached(c) ==
    seen[c] = NothingSeen /\ \A s \in Sessions : c \in session[s].subscribers => ~client[c].connected

LEMMA OverFits ==
  ASSUME NEW c \in Conns, Unattached(c)
  PROVE  /\ Own(NoRequest, seen[c])
         /\ \A s \in Sessions : \A se, ch, rd : se.subscribers = session[s].subscribers =>
              FitsIn(c, NoRequest, client[c], seen[c], s, se, ch, rd)
BY Over DEF Own, FitsIn, Unattached

LEMMA AskedUnattached ==
  ASSUME IInv, NEW c \in Conns,
         conn[c].pc = "asked" \/ conn[c].kind # "attach"
  PROVE  Unattached(c)
BY OfConn DEF Own, FitsIn, Unattached

LEMMA KeptConn ==
  ASSUME IInv, NEW c \in Conns
  PROVE  /\ UNCHANGED client => client' = [client EXCEPT ![c] = client[c]]
         /\ UNCHANGED seen => seen' = [seen EXCEPT ![c] = seen[c]]
         /\ UNCHANGED conn => conn' = [conn EXCEPT ![c] = conn[c]]
BY DEF IInv, TypeInv

LEMMA KeptSession ==
  ASSUME IInv, NEW s \in Sessions
  PROVE  /\ UNCHANGED session => session' = [session EXCEPT ![s] = session[s]]
         /\ UNCHANGED child => child' = [child EXCEPT ![s] = child[s]]
         /\ UNCHANGED reader => reader' = [reader EXCEPT ![s] = reader[s]]
BY DEF IInv, TypeInv

(* A request that leaves the sessions as they are.                         *)
LEMMA RequestOver ==
  ASSUME IInv, NEW c \in Conns, Unattached(c), conn[c].pc \notin Holds,
         UNCHANGED <<session, child, reader, client, seen, lock>>, At(c, "done")
  PROVE  IInv'
<1>1. conn' = [conn EXCEPT ![c] = NoRequest] /\ NoRequest \in Conn /\ NoRequest.pc = "done"
  BY Over DEF At, IInv, TypeInv
<1>2. LockInv' /\ lock' \in Conns \cup {NoConn}
  BY <1>1 DEF IInv, TypeInv, LockInv, Holds
<1>3. client' = [client EXCEPT ![c] = client[c]] /\ seen' = [seen EXCEPT ![c] = seen[c]]
  BY KeptConn
<1>4. /\ Own(NoRequest, seen[c])
      /\ \A s \in Sessions : FitsIn(c, NoRequest, client[c], seen[c], s, session[s], child[s], reader[s])
  BY OverFits
<1> QED BY <1>1, <1>2, <1>3, <1>4, OfConn, ConnectionStep DEF Holds

(* The same, of a request that has changed one session.                    *)
LEMMA SessionRequestOver ==
  ASSUME IInv, NEW c \in Conns, Unattached(c), conn[c].pc \notin Holds,
         NEW s \in Sessions, NEW se \in SessionRec, NEW ch \in Child, NEW rd \in Reader,
         session' = [session EXCEPT ![s] = se], child' = [child EXCEPT ![s] = ch],
         reader' = [reader EXCEPT ![s] = rd],
         UNCHANGED <<client, seen, lock>>, At(c, "done"),
         se.subscribers = session[s].subscribers, se.buffer = session[s].buffer,
         ch.stdout = child[s].stdout, ch.said = child[s].said,
         rd.pc = reader[s].pc \/ (reader[s].pc = "none" /\ rd.pc = "read"),
         rd.chunk = reader[s].chunk, rd.todo = reader[s].todo,
         ch.does = "none" => rd.pc = "none",
         ch.does # "waits" \/ ~se.known
  PROVE  IInv'
<1>1. conn' = [conn EXCEPT ![c] = NoRequest] /\ NoRequest \in Conn /\ NoRequest.pc = "done"
  BY Over DEF At, IInv, TypeInv
<1>2. LockInv' /\ lock' \in Conns \cup {NoConn} /\ \A t \in Sessions : Pending(t)' = Pending(t)
  BY <1>1 DEF IInv, TypeInv, LockInv, Holds, Pending
<1>3. client' = [client EXCEPT ![c] = client[c]] /\ seen' = [seen EXCEPT ![c] = seen[c]]
  BY KeptConn
<1>4. Own(NoRequest, seen[c]) /\ FitsIn(c, NoRequest, client[c], seen[c], s, se, ch, rd)
  BY OverFits
<1>5. \A t \in Sessions \ {s} :
         FitsIn(c, NoRequest, client[c], seen[c], t, session[t], child[t], reader[t])
  BY OverFits
<1>6. Taken(ch) = Taken(child[s])
  BY DEF Taken
<1>7. Sound(se, ch, rd, Pending(s)')
  <2>1. Numbered(se, ch, rd)
    <3>1. Numbered(session[s], child[s], reader[s])
      BY OfSession DEF Sound
    <3>2. rd.pc \in {"stored", "send"} => reader[s].pc \in {"stored", "send"}
      OBVIOUS
    <3> QED BY <1>6, <3>1, <3>2 DEF Numbered
  <2>2. Quiet(se, ch, rd, Pending(s)')
    BY DEF Quiet
  <2>3. Sound(session[s], child[s], reader[s], Pending(s))
    BY OfSession
  <2>4. rd.pc # "send" => rd.todo = {}
    BY <2>3 DEF Sound
  <2> QED BY <2>1, <2>2, <2>3, <2>4 DEF Sound
<1>8. \A d \in Conns \ {c} : FitsIn(d, conn[d], client[d], seen[d], s, se, ch, rd)
  <2> TAKE d \in Conns \ {c}
  <2>1. FitsIn(d, conn[d], client[d], seen[d], s, session[s], child[s], reader[s])
    BY OfConn
  <2>2. Due(rd, d) = Due(reader[s], d)
    BY DEF Due
  <2> QED BY <1>6, <2>1, <2>2 DEF FitsIn
<1>9. client[c] \in Client /\ seen[c] \in Sight
  BY OfConn
<1> QED BY <1>1, <1>2, <1>3, <1>4, <1>5, <1>7, <1>8, <1>9, BothStep

LEMMA NewIInv ==
  ASSUME IInv, NEW c \in Conns, NEW kind \in {"new", "new_prompt"}, New(c, kind)
  PROVE  IInv'
<1>1. /\ Unattached(c) /\ conn[c].pc \notin Holds /\ At(c, "done")
      /\ UNCHANGED <<lock, client, seen>>
  BY AskedUnattached DEF New, Asked, Holds
<1>2. CASE UNCHANGED <<session, reader, child>>
  BY <1>1, <1>2, RequestOver
<1>3. ASSUME NEW s \in Sessions, child[s].does = "none",
             child' = [child EXCEPT ![s].does = "starts",
                                    ![s].stdin = IF kind = "new_prompt" THEN 1 ELSE 0],
             session' = [session EXCEPT ![s].known = TRUE,
                           ![s].status = IF kind = "new_prompt" THEN "working" ELSE "idle"],
             reader' = [reader EXCEPT ![s].pc = "read"]
      PROVE  IInv'
  <2> DEFINE lines == IF kind = "new_prompt" THEN 1 ELSE 0
             status == IF kind = "new_prompt" THEN "working" ELSE "idle"
             ch == [child[s] EXCEPT !.does = "starts", !.stdin = lines]
             se == [session[s] EXCEPT !.known = TRUE, !.status = status]
             rd == [reader[s] EXCEPT !.pc = "read"]
  <2>1. /\ child[s] \in Child /\ session[s] \in SessionRec /\ reader[s] \in Reader
        /\ reader[s].pc = "none" /\ lines \in 0..PipeSize /\ status \in Statuses
    BY <1>3, OfSession, SizesAssumption DEF Sound, Statuses
  <2>2. /\ session' = [session EXCEPT ![s] = se] /\ child' = [child EXCEPT ![s] = ch]
        /\ reader' = [reader EXCEPT ![s] = rd]
    BY <1>3 DEF IInv, TypeInv
  <2> HIDE DEF lines, status
  <2>3. /\ ch \in Child /\ ch.does = "starts" /\ ch.stdout = child[s].stdout
        /\ ch.said = child[s].said
    BY <2>1 DEF Child
  <2>4. /\ se \in SessionRec /\ se.subscribers = session[s].subscribers
        /\ se.buffer = session[s].buffer
    BY <2>1 DEF SessionRec
  <2>5. rd \in Reader /\ rd.pc = "read" /\ rd.chunk = reader[s].chunk /\ rd.todo = reader[s].todo
    BY <2>1 DEF Reader
  <2> HIDE DEF ch, se, rd
  <2> QED BY <1>1, <2>1, <2>2, <2>3, <2>4, <2>5, SessionRequestOver
<1> QED BY <1>2, <1>3 DEF New

LEMMA CloseIInv == ASSUME IInv, NEW c \in Conns, Close(c) PROVE IInv'
<1>1. PICK s \in Sessions : s = conn[c].session
  BY OfConn DEF Close, Asked, Own
<1> DEFINE se == [session[s] EXCEPT !.known = FALSE]
           closed == [child[s] EXCEPT !.does = "gone", !.stdin = 0]
           ch == IF session[s].known THEN closed ELSE child[s]
<1>2. /\ Unattached(c) /\ conn[c].pc \notin Holds /\ At(c, "done")
      /\ UNCHANGED <<lock, client, seen, reader>>
  BY AskedUnattached DEF Close, Asked, Holds
<1>3. session[s] \in SessionRec /\ child[s] \in Child /\ reader[s] \in Reader
      /\ (child[s].does = "none" => reader[s].pc = "none") /\ 0 \in 0..PipeSize
  BY OfSession, SizesAssumption DEF Sound
<1>4. /\ session' = [session EXCEPT ![s] = se] /\ child' = [child EXCEPT ![s] = ch]
      /\ reader' = [reader EXCEPT ![s] = reader[s]]
  BY <1>1, <1>2, KeptSession DEF Close, IInv, TypeInv
<1>5. /\ se \in SessionRec /\ se.subscribers = session[s].subscribers /\ se.known = FALSE
      /\ se.buffer = session[s].buffer
  BY <1>3 DEF SessionRec
<1>6. /\ closed \in Child /\ closed.stdout = child[s].stdout /\ closed.said = child[s].said
      /\ closed.does = "gone"
  BY <1>3 DEF Child
<1> HIDE DEF closed, se
<1>7. /\ ch \in Child /\ ch.stdout = child[s].stdout /\ ch.said = child[s].said
      /\ ch.does = "none" => reader[s].pc = "none"
  BY <1>3, <1>6
<1> HIDE DEF ch
<1> QED BY <1>2, <1>3, <1>4, <1>5, <1>7, SessionRequestOver

(* snapshot: what it changes is the status of sessions whose child is gone. *)
LEMMA ListIInv == ASSUME IInv, NEW c \in Conns, List(c) PROVE IInv'
<1>1. /\ Unattached(c) /\ conn[c].pc \notin Holds /\ UNCHANGED <<reader, lock, child, client, seen>>
      /\ conn' = [conn EXCEPT ![c] = NoRequest] /\ NoRequest \in Conn /\ NoRequest.pc = "done"
  BY AskedUnattached, Over DEF List, Asked, Holds, At, IInv, TypeInv
<1>2. ASSUME NEW s \in Sessions
      PROVE  /\ session'[s] \in SessionRec /\ session'[s].subscribers = session[s].subscribers
             /\ session'[s].buffer = session[s].buffer
             /\ session'[s] = session[s] \/ ~Running(s)
  <2>1. session[s] \in SessionRec
    BY OfSession
  <2>2. session'[s] = IF session[s].known /\ ~Running(s)
                      THEN [session[s] EXCEPT !.status = "exited"] ELSE session[s]
    BY DEF List
  <2> QED BY <2>1, <2>2 DEF SessionRec, Statuses
<1>3. TypeInv'
  <2>1. session' \in [Sessions -> SessionRec]
    BY <1>2 DEF List
  <2> QED BY <1>1, <2>1 DEF IInv, TypeInv
<1>4. LockInv' /\ \A s \in Sessions : Pending(s)' = Pending(s)
  BY <1>1 DEF IInv, TypeInv, LockInv, Holds, Pending
<1>5. \A s \in Sessions : SoundAt(s)'
  <2> TAKE s \in Sessions
  <2>1. Sound(session[s], child[s], reader[s], Pending(s))
    BY OfSession
  <2>2. Quiet(session'[s], child[s], reader[s], Pending(s))
    BY <1>2, <2>1 DEF Sound, Quiet, Running
  <2>3. Sound(session'[s], child[s], reader[s], Pending(s))
    BY <1>2, <2>1, <2>2 DEF Sound, Numbered
  <2> QED BY <1>1, <1>4, <2>3 DEF SoundAt
<1>6. \A d \in Conns : Own(conn[d], seen[d])'
  BY <1>1, OverFits DEF IInv, TypeInv
<1>7. \A d \in Conns, s \in Sessions : FitsAt(d, s)'
  <2> TAKE d \in Conns, s \in Sessions
  <2>1. CASE d = c
    <3>1. FitsIn(c, NoRequest, client[c], seen[c], s, session'[s], child[s], reader[s])
      BY <1>1, <1>2, OverFits
    <3> QED BY <1>1, <2>1, <3>1 DEF FitsAt, IInv, TypeInv
  <2>2. CASE d # c
    <3>1. FitsIn(d, conn[d], client[d], seen[d], s, session[s], child[s], reader[s])
      BY OfConn
    <3>2. FitsIn(d, conn[d], client[d], seen[d], s, session'[s], child[s], reader[s])
      BY <1>2, <3>1 DEF FitsIn
    <3>3. conn'[d] = conn[d]
      BY <1>1, <2>2 DEF IInv, TypeInv
    <3> QED BY <1>1, <3>2, <3>3 DEF FitsAt
  <2> QED BY <2>1, <2>2
<1> QED BY <1>3, <1>4, <1>5, <1>6, <1>7 DEF IInv

(* A connection that takes input or waits for its client, afterwards.      *)
Settled(c) == IF conn[c].kind = "attach" THEN [conn[c] EXCEPT !.pc = "listen"] ELSE NoRequest

LEMMA SettledFits ==
  ASSUME IInv, NEW c \in Conns,
         conn[c].pc \in {"typed", "write"} \/ (conn[c].pc = "asked" /\ conn[c].kind # "attach")
  PROVE  /\ Settled(c) \in Conn /\ Settled(c).pc \in {"listen", "done"}
         /\ At(c, Idle(c)) => conn' = [conn EXCEPT ![c] = Settled(c)]
         /\ Own(Settled(c), seen[c])
         /\ \A s \in Sessions :
              FitsIn(c, Settled(c), client[c], seen[c], s, session[s], child[s], reader[s])
<1>1. /\ conn[c] \in Conn /\ Own(conn[c], seen[c])
      /\ \A s \in Sessions :
           FitsIn(c, conn[c], client[c], seen[c], s, session[s], child[s], reader[s])
  BY OfConn
<1>2. CASE conn[c].kind = "attach"
  <2> DEFINE k == [conn[c] EXCEPT !.pc = "listen"]
  <2>1. /\ k \in Conn /\ k.pc = "listen" /\ k.kind = "attach" /\ k.session = conn[c].session
        /\ k.left = conn[c].left
    BY <1>1, <1>2 DEF Conn
  <2>2. Settled(c) = k
    BY <1>2 DEF Settled
  <2>3. At(c, Idle(c)) => conn' = [conn EXCEPT ![c] = k]
    BY <1>2 DEF At, Idle, IInv, TypeInv
  <2> HIDE DEF k
  <2>4. Own(k, seen[c])
    BY <1>1, <1>2, <2>1 DEF Own
  <2>5. \A s \in Sessions : FitsIn(c, k, client[c], seen[c], s, session[s], child[s], reader[s])
    BY <1>1, <1>2, <2>1 DEF FitsIn
  <2> QED BY <2>1, <2>2, <2>3, <2>4, <2>5
<1>3. CASE conn[c].kind # "attach"
  <2>1. Unattached(c) /\ Settled(c) = NoRequest
    BY <1>3, AskedUnattached DEF Settled
  <2>2. At(c, Idle(c)) => conn' = [conn EXCEPT ![c] = NoRequest]
    BY <1>3 DEF At, Idle, IInv, TypeInv
  <2> QED BY <2>1, <2>2, Over, OverFits
<1> QED BY <1>2, <1>3

LEMMA SendPromptIInv == ASSUME IInv, NEW c \in Conns, SendPrompt(c) PROVE IInv'
<1>1. /\ conn[c].pc = "typed" \/ (conn[c].pc = "asked" /\ conn[c].kind = "prompt")
      /\ lock = NoConn /\ UNCHANGED <<reader, child, client, seen>>
  BY DEF SendPrompt
<1>2. /\ conn[c] \in Conn /\ Own(conn[c], seen[c]) /\ client[c] \in Client /\ seen[c] \in Sight
      /\ \A s \in Sessions :
           FitsIn(c, conn[c], client[c], seen[c], s, session[s], child[s], reader[s])
  BY OfConn
<1>3. client' = [client EXCEPT ![c] = client[c]] /\ seen' = [seen EXCEPT ![c] = seen[c]]
  BY <1>1, KeptConn
<1>4. PICK s \in Sessions : s = conn[c].session
  BY <1>1, <1>2 DEF Own
<1>5. CASE session[s].known
  <2> DEFINE k == [conn[c] EXCEPT !.pc = "write"]
             se == [session[s] EXCEPT !.status = "working"]
  <2>1. /\ k \in Conn /\ k.pc = "write" /\ k.kind = conn[c].kind /\ k.session = s
        /\ k.left = conn[c].left
    BY <1>2, <1>4 DEF Conn
  <2>2. session[s] \in SessionRec /\ child[s] \in Child /\ reader[s] \in Reader
    BY OfSession
  <2>3. /\ se \in SessionRec /\ se.subscribers = session[s].subscribers
        /\ se.buffer = session[s].buffer
    BY <2>2 DEF SessionRec, Statuses
  <2>4. /\ session' = [session EXCEPT ![s] = se] /\ child' = [child EXCEPT ![s] = child[s]]
        /\ reader' = [reader EXCEPT ![s] = reader[s]] /\ lock' = c
        /\ conn' = [conn EXCEPT ![c] = k]
    BY <1>1, <1>4, <1>5, KeptSession DEF SendPrompt, At, IInv, TypeInv
  <2> HIDE DEF k, se
  <2>5. LockInv'
    BY <1>1, <2>1, <2>4, SizesAssumption DEF IInv, TypeInv, LockInv, Holds
  <2>6. Pending(s)' /\ \A t \in Sessions \ {s} : Pending(t)' = Pending(t)
    BY <1>1, <1>4, <2>1, <2>4 DEF IInv, TypeInv, Pending
  <2>7. Sound(se, child[s], reader[s], Pending(s)')
    BY ZenonT(40), <2>3, <2>6, OfSession DEF Sound, Quiet, Numbered
  <2>8. Own(k, seen[c])
    BY <1>1, <1>2, <1>4, <2>1 DEF Own
  <2>9. \A t \in Sessions :
          FitsIn(c, k, client[c], seen[c], t, session[t], child[t], reader[t])
    BY <1>1, <1>2, <1>4, <2>1 DEF FitsIn
  <2>10. \A d \in Conns :
           FitsIn(d, conn[d], client[d], seen[d], s, session[s], child[s], reader[s])
    BY OfConn
  <2>11. /\ FitsIn(c, k, client[c], seen[c], s, se, child[s], reader[s])
         /\ \A d \in Conns \ {c} :
              FitsIn(d, conn[d], client[d], seen[d], s, se, child[s], reader[s])
    BY <2>3, <2>9, <2>10 DEF FitsIn
  <2> QED BY <1>2, <1>3, <2>1, <2>2, <2>3, <2>4, <2>5, <2>6, <2>7, <2>8, <2>9, <2>11, BothStep
<1>6. CASE ~session[s].known
  <2>1. /\ conn' = [conn EXCEPT ![c] = Settled(c)] /\ Settled(c) \in Conn
        /\ Settled(c).pc \in {"listen", "done"} /\ Own(Settled(c), seen[c])
        /\ \A t \in Sessions :
             FitsIn(c, Settled(c), client[c], seen[c], t, session[t], child[t], reader[t])
    BY <1>1, <1>4, <1>6, SettledFits DEF SendPrompt
  <2>2. UNCHANGED <<session, lock>>
    BY <1>4, <1>6 DEF SendPrompt
  <2>3. LockInv' /\ lock' \in Conns \cup {NoConn}
    BY <1>1, <2>1, <2>2 DEF IInv, TypeInv, LockInv, Holds
  <2> QED BY <1>1, <1>2, <1>3, <2>1, <2>2, <2>3, ConnectionStep
<1> QED BY <1>5, <1>6

LEMMA WriteIInv == ASSUME IInv, NEW c \in Conns, Write(c) PROVE IInv'
<1>1. /\ conn[c].pc = "write" /\ lock' = NoConn /\ At(c, Idle(c))
      /\ UNCHANGED <<session, reader, client, seen>>
  BY DEF Write
<1>2. /\ conn[c] \in Conn /\ Own(conn[c], seen[c]) /\ client[c] \in Client /\ seen[c] \in Sight
      /\ lock = c
  BY <1>1, OfConn DEF Holds
<1>3. PICK s \in Sessions : s = conn[c].session
  BY <1>1, <1>2 DEF Own
<1>4. /\ session[s] \in SessionRec /\ child[s] \in Child /\ reader[s] \in Reader
      /\ child[s].stdin \in 0..PipeSize /\ Sound(session[s], child[s], reader[s], Pending(s))
  BY OfSession
<1>5. PICK ch \in Child :
        /\ child' = [child EXCEPT ![s] = ch]
        /\ ch.does = child[s].does /\ ch.stdout = child[s].stdout /\ ch.said = child[s].said
        /\ ch.stdin # 0 \/ ch.does # "waits"
  <2>1. CASE Running(s) /\ child[s].stdin < PipeSize /\ child' = [child EXCEPT ![s].stdin = @ + 1]
    <3> DEFINE lines == child[s].stdin + 1
               ch == [child[s] EXCEPT !.stdin = lines]
    <3>1. lines \in 0..PipeSize /\ lines # 0
      BY <1>4, <2>1, SizesAssumption
    <3>2. child' = [child EXCEPT ![s] = ch]
      BY <2>1
    <3> HIDE DEF lines
    <3>3. /\ ch \in Child /\ ch.stdin = lines /\ ch.does = child[s].does
          /\ ch.stdout = child[s].stdout /\ ch.said = child[s].said
      BY <1>4, <3>1 DEF Child
    <3> HIDE DEF ch
    <3> QED BY <3>1, <3>2, <3>3
  <2>2. CASE ~Running(s) /\ UNCHANGED child
    <3>1. child' = [child EXCEPT ![s] = child[s]] /\ child[s].does # "waits"
      BY <2>2, KeptSession DEF Running
    <3> QED BY <1>4, <3>1
  <2> QED BY <1>3, <2>1, <2>2 DEF Write
<1>6. Taken(ch) = Taken(child[s])
  BY <1>5 DEF Taken
<1>7. /\ conn' = [conn EXCEPT ![c] = Settled(c)] /\ Settled(c) \in Conn
      /\ Settled(c).pc \in {"listen", "done"} /\ Own(Settled(c), seen[c])
      /\ \A t \in Sessions :
           FitsIn(c, Settled(c), client[c], seen[c], t, session[t], child[t], reader[t])
  BY <1>1, SettledFits
<1>8. LockInv' /\ lock' \in Conns \cup {NoConn}
  BY <1>1, <1>2, <1>7, SizesAssumption DEF IInv, TypeInv, LockInv, Holds
<1>9. \A t \in Sessions \ {s} : Pending(t)' = Pending(t)
  BY <1>1, <1>3, <1>7 DEF IInv, TypeInv, Pending
<1>10. Sound(session[s], ch, reader[s], Pending(s)')
  BY <1>4, <1>5, <1>6 DEF Sound, Quiet, Numbered
<1>11. /\ session' = [session EXCEPT ![s] = session[s]] /\ reader' = [reader EXCEPT ![s] = reader[s]]
       /\ client' = [client EXCEPT ![c] = client[c]] /\ seen' = [seen EXCEPT ![c] = seen[c]]
  BY <1>1, KeptSession, KeptConn
<1>12. FitsIn(c, Settled(c), client[c], seen[c], s, session[s], ch, reader[s])
  BY <1>6, <1>7 DEF FitsIn
<1>13. \A d \in Conns \ {c} : FitsIn(d, conn[d], client[d], seen[d], s, session[s], ch, reader[s])
  BY <1>6, OfConn DEF FitsIn
<1> QED BY <1>2, <1>4, <1>5, <1>7, <1>8, <1>9, <1>10, <1>11, <1>12, <1>13, BothStep

-----------------------------------------------------------------------------
(* Attached clients *)

LEMMA AttachIInv == ASSUME IInv, NEW c \in Conns, Attach(c) PROVE IInv'
<1>1. /\ conn[c].pc = "asked" /\ conn[c].kind = "attach" /\ lock = NoConn
      /\ UNCHANGED <<session, reader, child, client, seen>>
  BY DEF Attach, Asked
<1>2. /\ conn[c] \in Conn /\ Own(conn[c], seen[c]) /\ client[c] \in Client /\ seen[c] \in Sight
      /\ \A s \in Sessions :
           FitsIn(c, conn[c], client[c], seen[c], s, session[s], child[s], reader[s])
  BY OfConn
<1>3. PICK s \in Sessions : s = conn[c].session
  BY <1>1, <1>2 DEF Own
<1>4. CASE ~session[s].known
  <2>1. Unattached(c)
    BY <1>1, AskedUnattached
  <2>2. At(c, "done") /\ UNCHANGED lock
    BY <1>3, <1>4 DEF Attach
  <2> QED BY <1>1, <2>1, <2>2, RequestOver DEF Holds
<1>5. CASE session[s].known
  <2> DEFINE buffer == session[s].buffer
             k == [conn[c] EXCEPT !.pc = "replay", !.left = buffer]
  <2>1. /\ buffer \in Seq(Nat) /\ Len(buffer) \in Nat /\ Taken(child[s]) \in Int
        /\ \A i \in 1..Len(buffer) : buffer[i] = Taken(child[s]) - Len(buffer) + i
    BY OfSession DEF Sound, Numbered
  <2>2. lock' = c /\ conn' = [conn EXCEPT ![c] = k]
    BY <1>3, <1>5 DEF Attach, IInv, TypeInv
  <2> HIDE DEF buffer
  <2>3. /\ k \in Conn /\ k.pc = "replay" /\ k.left = buffer /\ k.kind = "attach"
        /\ k.session = s
    BY <1>1, <1>2, <1>3, <2>1 DEF Conn
  <2> HIDE DEF k
  <2>4. LockInv'
    BY <1>1, <2>2, <2>3, SizesAssumption DEF IInv, TypeInv, LockInv, Holds
  <2>5. seen[c] = NothingSeen /\ ~seen[c].live
    BY <1>1, <1>2 DEF Own, NothingSeen
  <2>6. \A i \in 1..Len(buffer) : buffer[i] = buffer[1] + i - 1 /\ buffer[i] <= Taken(child[s])
    <3> TAKE i \in 1..Len(buffer)
    <3>1. 1 \in 1..Len(buffer) /\ i \in Int /\ i <= Len(buffer)
      BY <2>1
    <3>2. /\ buffer[i] = Taken(child[s]) - Len(buffer) + i
          /\ buffer[1] = Taken(child[s]) - Len(buffer) + 1
      BY <2>1, <3>1
    <3>3. \A x, l, j \in Int :
            x - l + j = (x - l + 1) + j - 1 /\ (j <= l => x - l + j <= x)
      BY SMT
    <3> QED BY <2>1, <3>1, <3>2, <3>3
  <2>7. Own(k, seen[c])
    BY <2>3, <2>5, <2>6 DEF Own
  <2>8. \A t \in Sessions : FitsIn(c, k, client[c], seen[c], t, session[t], child[t], reader[t])
    BY <1>1, <1>2, <2>3, <2>5, <2>6 DEF FitsIn
  <2>9. client' = [client EXCEPT ![c] = client[c]] /\ seen' = [seen EXCEPT ![c] = seen[c]]
    BY <1>1, KeptConn
  <2> QED BY <1>1, <1>2, <2>2, <2>3, <2>4, <2>7, <2>8, <2>9, ConnectionStep
<1> QED BY <1>4, <1>5

LEMMA ReplayIInv == ASSUME IInv, NEW c \in Conns, Replay(c) PROVE IInv'
<1> DEFINE a == conn[c]
<1>1. /\ a.pc = "replay" /\ a.left # << >> /\ UNCHANGED <<session, reader, lock, child>>
  BY DEF Replay
<1>2. /\ a \in Conn /\ Own(a, seen[c]) /\ client[c] \in Client /\ seen[c] \in Sight
      /\ client[c].unread \in 0..SocketSize
      /\ \A s \in Sessions :
           FitsIn(c, a, client[c], seen[c], s, session[s], child[s], reader[s])
  BY OfConn
<1>3. /\ a.left \in Seq(Nat) /\ Len(a.left) \in Nat /\ Len(a.left) > 0
      /\ Head(a.left) = a.left[1] /\ Head(a.left) \in Nat
      /\ Tail(a.left) \in Seq(Nat) /\ Len(Tail(a.left)) = Len(a.left) - 1
      /\ \A i \in 1..Len(Tail(a.left)) : Tail(a.left)[i] = a.left[i + 1]
  <2>1. a.left \in Seq(Nat)
    BY <1>2 DEF Conn
  <2> QED BY <1>1, <2>1, HeadTailProperties, LenProperties, ElementOfSeq
<1>4. /\ a.kind = "attach" /\ ~seen[c].live
      /\ \A i \in 1..Len(a.left) : a.left[i] = a.left[1] + i - 1
  BY <1>1, <1>2 DEF Own
<1>5. CASE client[c].connected
  <2> DEFINE rest == Tail(a.left)
             n == Head(a.left)
             k == [a EXCEPT !.left = rest]
             unread == client[c].unread + 1
             cl == [client[c] EXCEPT !.unread = unread]
             sn == [last |-> n, live |-> FALSE]
  <2>1. /\ conn' = [conn EXCEPT ![c] = k] /\ client' = [client EXCEPT ![c] = cl]
        /\ seen' = [seen EXCEPT ![c] = sn]
    BY <1>5 DEF Replay, Delivered, IInv, TypeInv
  <2>2. unread \in 0..SocketSize
    BY <1>2, <1>5, SizesAssumption DEF Replay, Delivered
  <2>3. /\ rest \in Seq(Nat) /\ Len(rest) \in Nat
        /\ \A i \in 1..Len(rest) :
             i + 1 \in 1..Len(a.left) /\ rest[i] = a.left[i + 1] /\ rest[i] = n + i
    <3>1. rest \in Seq(Nat) /\ Len(rest) \in Nat /\ Len(rest) = Len(a.left) - 1
      BY <1>3
    <3> SUFFICES ASSUME NEW i \in 1..Len(rest)
                 PROVE  i + 1 \in 1..Len(a.left) /\ rest[i] = a.left[i + 1] /\ rest[i] = n + i
      BY <3>1
    <3>2. rest[i] = a.left[i + 1] /\ n = a.left[1] /\ n \in Nat
      BY <1>3
    <3> HIDE DEF rest, n
    <3>3. i \in Int /\ i + 1 \in 1..Len(a.left)
      BY <1>3, <3>1
    <3>4. a.left[i + 1] = n + (i + 1) - 1
      BY <1>4, <3>2, <3>3
    <3> QED BY <3>2, <3>3, <3>4
  <2>4. n \in Nat /\ n = a.left[1] /\ 1 \in 1..Len(a.left)
    BY <1>3
  <2> HIDE DEF rest, n, unread
  <2>5. /\ k \in Conn /\ k.left = rest /\ k.pc = "replay" /\ k.kind = "attach"
        /\ k.session = a.session
    BY <1>1, <1>2, <1>4, <2>3 DEF Conn
  <2>6. cl \in Client /\ cl.connected = client[c].connected
    BY <1>2, <2>2 DEF Client
  <2>7. sn \in Sight /\ sn.last = n /\ sn.live = FALSE
    BY <2>4 DEF Sight
  <2> HIDE DEF k, cl, sn
  <2>8. LockInv' /\ lock' \in Conns \cup {NoConn}
    BY <1>1, <2>1, <2>5 DEF IInv, TypeInv, LockInv
  <2>9. Own(k, sn)
    <3>1. rest # << >> => rest[1] = n + 1
      <4>1. rest # << >> => 1 \in 1..Len(rest)
        BY <2>3, EmptySeq
      <4>2. 1 \in 1..Len(rest) => rest[1] = n + 1
        BY <2>3
      <4> QED BY <4>1, <4>2
    <3>2. \A i \in 1..Len(rest) : rest[i] = rest[1] + i - 1
      <4> TAKE i \in 1..Len(rest)
      <4>1. 1 \in 1..Len(rest) /\ i \in Int /\ n \in Int
        BY <2>3, <2>4
      <4>2. rest[i] = n + i /\ rest[1] = n + 1
        BY <2>3, <4>1
      <4>3. n + i = (n + 1) + i - 1
        BY <4>1
      <4> QED BY <4>2, <4>3
    <3>3. a.session \in Sessions
      BY <1>1, <1>2 DEF Own
    <3> QED BY <2>5, <2>7, <3>1, <3>2, <3>3 DEF Own
  <2>10. \A s \in Sessions : FitsIn(c, k, cl, sn, s, session[s], child[s], reader[s])
    <3> TAKE s \in Sessions
    <3>1. FitsIn(c, a, client[c], seen[c], s, session[s], child[s], reader[s])
      BY <1>2
    <3> QED BY <1>1, <1>5, <2>3, <2>4, <2>5, <2>6, <2>7, <3>1 DEF FitsIn
  <2> QED BY <1>1, <2>1, <2>5, <2>6, <2>7, <2>8, <2>9, <2>10, ConnectionStep
<1>6. CASE ~client[c].connected
  <2> DEFINE k == [a EXCEPT !.left = << >>]
  <2>1. conn' = [conn EXCEPT ![c] = k] /\ UNCHANGED <<client, seen>>
    BY <1>6 DEF Replay, IInv, TypeInv
  <2>2. /\ k \in Conn /\ k.left = << >> /\ k.pc = "replay" /\ k.kind = "attach"
        /\ k.session = a.session
    BY <1>1, <1>2, <1>4, EmptySeq DEF Conn
  <2> HIDE DEF k
  <2>3. LockInv' /\ lock' \in Conns \cup {NoConn}
    BY <1>1, <2>1, <2>2 DEF IInv, TypeInv, LockInv
  <2>4. Len(<< >>) = 0
    BY EmptySeq
  <2>5. Own(k, seen[c])
    BY <1>1, <1>2, <1>4, <2>2, <2>4 DEF Own
  <2>6. \A s \in Sessions : FitsIn(c, k, client[c], seen[c], s, session[s], child[s], reader[s])
    BY <1>2, <1>6, <2>2, <2>4 DEF FitsIn
  <2>7. client' = [client EXCEPT ![c] = client[c]] /\ seen' = [seen EXCEPT ![c] = seen[c]]
    BY <2>1, KeptConn
  <2> QED BY <1>1, <1>2, <2>1, <2>2, <2>3, <2>5, <2>6, <2>7, ConnectionStep
<1> QED BY <1>5, <1>6

LEMMA SubscribeIInv == ASSUME IInv, NEW c \in Conns, Subscribe(c) PROVE IInv'
<1>1. /\ conn[c].pc = "replay" /\ lock' = NoConn /\ At(c, "listen")
      /\ UNCHANGED <<reader, child, client, seen>>
  BY DEF Subscribe
<1>2. /\ conn[c] \in Conn /\ Own(conn[c], seen[c]) /\ client[c] \in Client /\ seen[c] \in Sight
      /\ lock = c
      /\ \A s \in Sessions :
           FitsIn(c, conn[c], client[c], seen[c], s, session[s], child[s], reader[s])
  BY <1>1, OfConn DEF Holds
<1>3. PICK s \in Sessions : s = conn[c].session
  BY <1>1, <1>2 DEF Own
<1> DEFINE k == [conn[c] EXCEPT !.pc = "listen"]
           to == session[s].subscribers \cup {c}
           se == [session[s] EXCEPT !.subscribers = to]
<1>4. /\ session[s] \in SessionRec /\ child[s] \in Child /\ reader[s] \in Reader
      /\ session[s].subscribers \subseteq Conns
      /\ Sound(session[s], child[s], reader[s], Pending(s))
  BY OfSession
<1>5. /\ session' = [session EXCEPT ![s] = se] /\ child' = [child EXCEPT ![s] = child[s]]
      /\ reader' = [reader EXCEPT ![s] = reader[s]] /\ conn' = [conn EXCEPT ![c] = k]
      /\ client' = [client EXCEPT ![c] = client[c]] /\ seen' = [seen EXCEPT ![c] = seen[c]]
  BY <1>1, <1>3, KeptSession, KeptConn DEF Subscribe, At, IInv, TypeInv
<1>6. /\ k \in Conn /\ k.pc = "listen" /\ k.kind = "attach" /\ k.session = s
      /\ k.left = conn[c].left /\ ~seen[c].live
  BY <1>1, <1>2, <1>3 DEF Conn, Own
<1>7. /\ se \in SessionRec /\ se.subscribers = to /\ se.buffer = session[s].buffer
      /\ se.known = session[s].known /\ se.status = session[s].status
  BY <1>4 DEF SessionRec
<1> HIDE DEF k, se
<1>8. LockInv' /\ lock' \in Conns \cup {NoConn}
  BY <1>1, <1>2, <1>5, <1>6, SizesAssumption DEF IInv, TypeInv, LockInv, Holds
<1>9. \A t \in Sessions : Pending(t)' = Pending(t)
  BY <1>1, <1>5, <1>6 DEF IInv, TypeInv, Pending
<1>10. Sound(se, child[s], reader[s], Pending(s)')
  BY <1>4, <1>7, <1>9 DEF Sound, Quiet, Numbered
<1>11. Own(k, seen[c])
  BY <1>2, <1>3, <1>6 DEF Own
<1>12. FitsIn(c, k, client[c], seen[c], s, se, child[s], reader[s])
  BY <1>1, <1>2, <1>3, <1>6 DEF FitsIn
<1>13. \A t \in Sessions \ {s} :
         FitsIn(c, k, client[c], seen[c], t, session[t], child[t], reader[t])
  BY <1>1, <1>2, <1>6 DEF FitsIn
<1>14. \A d \in Conns \ {c} :
         FitsIn(d, conn[d], client[d], seen[d], s, se, child[s], reader[s])
  BY <1>7, OfConn DEF FitsIn
<1> QED BY <1>2, <1>4, <1>5, <1>6, <1>7, <1>8, <1>9, <1>10, <1>11, <1>12, <1>13, <1>14, BothStep

LEMMA DetachIInv == ASSUME IInv, NEW c \in Conns, Detach(c) PROVE IInv'
<1>1. /\ conn[c].pc = "listen" /\ ~client[c].connected
      /\ UNCHANGED <<session, reader, lock, child, client>>
      /\ seen' = [seen EXCEPT ![c] = NothingSeen]
  BY DEF Detach
<1>2. conn' = [conn EXCEPT ![c] = NoRequest] /\ NoRequest \in Conn /\ NoRequest.pc = "done"
  BY Over DEF Detach, At, IInv, TypeInv
<1>3. LockInv' /\ lock' \in Conns \cup {NoConn}
  BY <1>1, <1>2 DEF IInv, TypeInv, LockInv, Holds
<1>4. client[c] \in Client /\ NothingSeen \in Sight
  BY OfConn DEF NothingSeen, Sight
<1>5. /\ Own(NoRequest, NothingSeen)
      /\ \A s \in Sessions :
           FitsIn(c, NoRequest, client[c], NothingSeen, s, session[s], child[s], reader[s])
  BY <1>1, <1>2 DEF Own, FitsIn
<1>6. client' = [client EXCEPT ![c] = client[c]]
  BY <1>1, KeptConn
<1> QED BY <1>1, <1>2, <1>3, <1>4, <1>5, <1>6, ConnectionStep

LEMMA AskIInv ==
  ASSUME IInv, NEW c \in Conns, NEW kind \in Kinds, NEW s \in Sessions, Ask(c, kind, s)
  PROVE  IInv'
<1> DEFINE k == [pc |-> "asked", kind |-> kind, session |-> s, left |-> << >>]
           cl == [connected |-> kind = "attach", unread |-> 0]
<1>1. /\ conn[c].pc = "done" /\ UNCHANGED <<session, reader, lock, child, seen>>
      /\ conn' = [conn EXCEPT ![c] = k] /\ client' = [client EXCEPT ![c] = cl]
      /\ \A t \in Sessions : c \notin session[t].subscribers
  BY DEF Ask, Forgotten
<1>2. Own(conn[c], seen[c]) /\ seen[c] \in Sight
  BY OfConn
<1>3. seen[c] = NothingSeen
  BY <1>1, <1>2 DEF Own
<1>4. k \in Conn /\ k.pc = "asked" /\ k.session \in Sessions
  BY EmptySeq DEF Conn
<1>5. cl \in Client
  <2>1. 0 \in 0..SocketSize
    BY SizesAssumption
  <2> QED BY <2>1 DEF Client
<1> HIDE DEF k, cl
<1>6. LockInv' /\ lock' \in Conns \cup {NoConn}
  BY <1>1, <1>4 DEF IInv, TypeInv, LockInv, Holds
<1>7. /\ Own(k, seen[c])
      /\ \A t \in Sessions : FitsIn(c, k, cl, seen[c], t, session[t], child[t], reader[t])
  BY <1>1, <1>3, <1>4 DEF Own, FitsIn
<1>8. seen' = [seen EXCEPT ![c] = seen[c]]
  BY <1>1, KeptConn
<1> QED BY <1>1, <1>2, <1>4, <1>5, <1>6, <1>7, <1>8, ConnectionStep

LEMMA TypeIInv == ASSUME IInv, NEW c \in Conns, Type(c) PROVE IInv'
<1> DEFINE k == [conn[c] EXCEPT !.pc = "typed"]
<1>1. /\ conn[c].pc = "listen" /\ UNCHANGED <<session, reader, lock, child, client, seen>>
      /\ conn' = [conn EXCEPT ![c] = k]
  BY DEF Type, At, IInv, TypeInv
<1>2. /\ conn[c] \in Conn /\ Own(conn[c], seen[c]) /\ client[c] \in Client /\ seen[c] \in Sight
      /\ \A s \in Sessions :
           FitsIn(c, conn[c], client[c], seen[c], s, session[s], child[s], reader[s])
  BY OfConn
<1>3. /\ k \in Conn /\ k.pc = "typed" /\ k.kind = conn[c].kind /\ k.session = conn[c].session
  BY <1>2 DEF Conn
<1> HIDE DEF k
<1>4. LockInv' /\ lock' \in Conns \cup {NoConn}
  BY <1>1, <1>3 DEF IInv, TypeInv, LockInv, Holds
<1>5. Own(k, seen[c])
  BY <1>1, <1>2, <1>3 DEF Own
<1>6. \A s \in Sessions : FitsIn(c, k, client[c], seen[c], s, session[s], child[s], reader[s])
  BY <1>1, <1>2, <1>3 DEF FitsIn
<1>7. client' = [client EXCEPT ![c] = client[c]] /\ seen' = [seen EXCEPT ![c] = seen[c]]
  BY <1>1, KeptConn
<1> QED BY <1>1, <1>2, <1>3, <1>4, <1>5, <1>6, <1>7, ConnectionStep

LEMMA ClientIInv == ASSUME IInv, NEW c \in Conns, Receive(c) \/ Leave(c) PROVE IInv'
<1> DEFINE left == IF Receive(c) THEN client[c].unread - 1 ELSE 0
           still == Receive(c) /\ client[c].connected
           cl == [connected |-> still, unread |-> left]
<1>1. /\ conn[c] \in Conn /\ Own(conn[c], seen[c]) /\ client[c] \in Client /\ seen[c] \in Sight
      /\ client[c].unread \in 0..SocketSize
      /\ \A s \in Sessions :
           FitsIn(c, conn[c], client[c], seen[c], s, session[s], child[s], reader[s])
  BY OfConn
<1>2. UNCHANGED <<session, reader, lock, conn, child, seen>>
  BY DEF Receive, Leave, server
<1>3. client' = [client EXCEPT ![c] = cl]
  <2>1. CASE Receive(c)
    <3>1. client[c] = [connected |-> client[c].connected, unread |-> client[c].unread]
      BY <1>1 DEF Client
    <3>2. client' = [client EXCEPT ![c] = [client[c] EXCEPT !.unread = client[c].unread - 1]]
      BY <2>1 DEF Receive
    <3>3. left = client[c].unread - 1 /\ still = client[c].connected
      BY <2>1, <3>1 DEF Receive
    <3>4. [client[c] EXCEPT !.unread = left] = [connected |-> client[c].connected, unread |-> left]
      BY <3>1
    <3> QED BY <3>2, <3>3, <3>4
  <2>2. CASE Leave(c) /\ ~Receive(c)
    <3>1. cl = [connected |-> FALSE, unread |-> 0]
      BY <2>2
    <3> QED BY <2>2, <3>1 DEF Leave
  <2> QED BY <2>1, <2>2
<1>4. left \in 0..SocketSize
  BY <1>1, SizesAssumption DEF Receive
<1>5. still \in BOOLEAN /\ (still => client[c].connected)
  OBVIOUS
<1> HIDE DEF left, still
<1>6. cl \in Client /\ (cl.connected => client[c].connected)
  BY <1>4, <1>5 DEF Client
<1> HIDE DEF cl
<1>7. \A s \in Sessions : FitsIn(c, conn[c], cl, seen[c], s, session[s], child[s], reader[s])
  BY <1>1, <1>6 DEF FitsIn
<1>8. LockInv' /\ lock' \in Conns \cup {NoConn}
  BY <1>2 DEF IInv, TypeInv, LockInv
<1>9. conn' = [conn EXCEPT ![c] = conn[c]] /\ seen' = [seen EXCEPT ![c] = seen[c]]
  BY <1>2, KeptConn
<1> QED BY <1>1, <1>2, <1>3, <1>6, <1>7, <1>8, <1>9, ConnectionStep

-----------------------------------------------------------------------------
(* The invariant *)

LEMMA InitIInv == ASSUME Init PROVE IInv
<1>1. /\ 0 \in 0..PipeSize /\ 0 \in 0..SocketSize /\ MaxBuffer \in Nat /\ PipeSize \in Nat
  BY SizesAssumption
<1>2. /\ NoChunk \in Chunk /\ NothingSeen \in Sight
  BY DEF NoChunk, Chunk, NothingSeen, Sight
<1>3. /\ << >> \in Seq(Nat) /\ << >> \in Seq(Chunk) /\ Len(<< >>) = 0
  BY EmptySeq
<1>4. TypeInv
  <2>1. session \in [Sessions -> SessionRec] /\ child \in [Sessions -> Child]
    BY <1>1, <1>3 DEF Init, SessionRec, Child, Statuses
  <2>2. reader \in [Sessions -> Reader] /\ lock \in Conns \cup {NoConn}
    BY <1>2 DEF Init, Reader
  <2>3. conn \in [Conns -> Conn] /\ client \in [Conns -> Client] /\ seen \in [Conns -> Sight]
    BY <1>1, <1>2, Over DEF Init, Client
  <2> QED BY <2>1, <2>2, <2>3 DEF TypeInv
<1>5. LockInv
  BY Over, SizesAssumption DEF Init, LockInv, Holds
<1>6. \A s \in Sessions : SoundAt(s)
  <2> TAKE s \in Sessions
  <2>1. /\ session[s].known = FALSE /\ session[s].buffer = << >>
        /\ child[s].stdout = << >> /\ reader[s].pc = "none" /\ reader[s].todo = {}
    BY DEF Init
  <2> QED BY <1>1, <1>3, <2>1 DEF SoundAt, Sound, Quiet, Numbered
<1>7. \A c \in Conns : Own(conn[c], seen[c])
  BY Over DEF Init, Own
<1>8. \A c \in Conns, s \in Sessions : FitsAt(c, s)
  BY Over DEF Init, FitsAt, FitsIn
<1> QED BY <1>4, <1>5, <1>6, <1>7, <1>8 DEF IInv

LEMMA NextIInv == ASSUME IInv, [Next]_vars PROVE IInv'
<1>1. CASE \E s \in Sessions : Ready(s) \/ Output(s) \/ TakeLine(s) \/ Exit(s)
  BY <1>1, ChildIInv
<1>2. CASE \E s \in Sessions : ReaderStep(s)
  BY <1>2, ReadIInv, ReaderIInv, BroadcastIInv DEF ReaderStep
<1>3. CASE \E c \in Conns : ConnStep(c)
  <2> PICK c \in Conns : ConnStep(c)
    BY <1>3
  <2>1. CASE New(c, "new") \/ New(c, "new_prompt")
    BY <2>1, NewIInv
  <2>2. CASE List(c) \/ Close(c) \/ SendPrompt(c) \/ Write(c)
    BY <2>2, ListIInv, CloseIInv, SendPromptIInv, WriteIInv
  <2>3. CASE Attach(c) \/ Replay(c) \/ Subscribe(c) \/ Detach(c)
    BY <2>3, AttachIInv, ReplayIInv, SubscribeIInv, DetachIInv
  <2> QED BY <2>1, <2>2, <2>3 DEF ConnStep
<1>4. CASE \E c \in Conns : Type(c) \/ Receive(c) \/ Leave(c)
  BY <1>4, TypeIInv, ClientIInv
<1>5. CASE \E c \in Conns, kind \in Kinds, s \in Sessions : Ask(c, kind, s)
  BY <1>5, AskIInv
<1>6. CASE UNCHANGED vars
  <2>1. UNCHANGED <<session, child, reader, lock, conn, client, seen>>
    BY <1>6 DEF vars, server
  <2>2. TypeInv' /\ LockInv'
    BY <2>1 DEF IInv, TypeInv, LockInv
  <2>3. \A s \in Sessions : SoundAt(s)'
    BY <2>1 DEF IInv, SoundAt, Pending
  <2>4. \A c \in Conns : Own(conn'[c], seen'[c])
    BY <2>1 DEF IInv
  <2>5. \A c \in Conns, s \in Sessions : FitsAt(c, s)'
    BY <2>1 DEF IInv, FitsAt
  <2> QED BY <2>2, <2>3, <2>4, <2>5 DEF IInv
<1> QED BY <1>1, <1>2, <1>3, <1>4, <1>5, <1>6 DEF Next

(* Every state of the server satisfies the invariant.                      *)
THEOREM Invariant == Spec => []IInv
<1>1. Init => IInv
  BY InitIInv
<1>2. IInv /\ [Next]_vars => IInv'
  BY NextIInv
<1> QED BY <1>1, <1>2, PTL DEF Spec

(* Transcripts, pipes and sockets keep their limits and the multiplexer's  *)
(* lock is where a request writes or replays; and whatever the order in    *)
(* which the sender of a prompt and the reader write the status, a session *)
(* that waits with nothing under way is listed as idle (send_prompt and    *)
(* spawn_reader).                                                          *)
THEOREM ListSafety == Spec => []ListIsTrue
<1>1. ASSUME IInv PROVE TypeOK
  <2>1. ASSUME NEW s \in Sessions
        PROVE  /\ session[s].status \in Statuses /\ session[s].subscribers \subseteq Conns
               /\ Len(session[s].buffer) <= MaxBuffer
               /\ child[s].does \in {"none", "starts", "waits", "works", "gone"}
               /\ child[s].stdin \in 0..PipeSize /\ Len(child[s].stdout) <= PipeSize
               /\ reader[s].pc \in {"none", "read", "stored", "send", "gone"}
               /\ reader[s].todo \subseteq Conns
    BY <1>1, OfSession DEF SessionRec, Child, Reader, Sound
  <2>2. ASSUME NEW c \in Conns
        PROVE  /\ conn[c].pc \in {"asked", "write", "replay", "listen", "typed", "done"}
               /\ (lock = c) = (conn[c].pc \in {"write", "replay"})
               /\ client[c].unread \in 0..SocketSize
    BY <1>1, OfConn DEF Conn, Holds
  <2>3. lock \in Conns \cup {NoConn}
    BY <1>1 DEF IInv, TypeInv
  <2> QED BY <2>1, <2>2, <2>3 DEF TypeOK
<1>2. ASSUME IInv PROVE QuietIsIdle
  <2> SUFFICES ASSUME NEW s \in Sessions,
                      session[s].known /\ child[s].does = "waits",
                      child[s].stdin = 0 /\ child[s].stdout = << >> /\ reader[s].pc = "read",
                      ~\E c \in Conns : conn[c].pc = "write" /\ conn[c].session = s
               PROVE  session[s].status = "idle"
    BY DEF QuietIsIdle
  <2>1. Quiet(session[s], child[s], reader[s], Pending(s)) /\ ~Pending(s)
    BY <1>2, OfSession DEF Sound, Pending
  <2> QED BY <2>1 DEF Quiet
<1>3. IInv => ListIsTrue
  BY <1>1, <1>2 DEF ListIsTrue
<1> QED BY <1>3, Invariant, PTL

(* An attached client sees the chunks in order; only where the replay ends *)
(* and the live output begins may there be a gap, or a chunk that comes    *)
(* twice (handle_attach and spawn_reader).                                 *)
THEOREM OrderSafety == Spec => SeenInOrder
<1> DEFINE InOrder(c) ==
      seen'[c] # seen[c] /\ seen[c] # NothingSeen /\ seen'[c] # NothingSeen
      => \/ seen'[c].last = seen[c].last + 1
         \/ ~seen[c].live /\ seen'[c].live /\ seen'[c].last >= seen[c].last
<1>1. ASSUME IInv, NEW s \in Sessions, NEW d \in Conns, Broadcast(s, d), NEW c \in Conns
      PROVE  InOrder(c)
  <2>1. CASE c = d /\ client[d].connected
    <3>1. /\ reader[s].pc = "send" /\ d \in reader[s].todo
          /\ seen'[d] = [last |-> reader[s].chunk.n, live |-> TRUE]
      BY <1>1, <2>1 DEF Broadcast, Delivered, IInv, TypeInv
    <3>2. /\ reader[s].chunk.n = Taken(child[s]) /\ d \in session[s].subscribers
          /\ Taken(child[s]) \in Int
      BY <1>1, <3>1, OfSession DEF Sound, Numbered
    <3>3. /\ FitsIn(d, conn[d], client[d], seen[d], s, session[s], child[s], reader[s])
          /\ seen[d] \in Sight /\ seen[d].last \in Nat
      BY <1>1, OfConn
    <3>4. /\ seen[d] # NothingSeen => seen[d].last <= Taken(child[s])
          /\ seen[d].live => seen[d].last = Taken(child[s]) - 1
      BY <2>1, <3>1, <3>2, <3>3 DEF FitsIn, Due
    <3>5. seen'[d].last = Taken(child[s]) /\ seen'[d].live
      BY <3>1, <3>2
    <3> QED BY <2>1, <3>2, <3>3, <3>4, <3>5
  <2>2. CASE ~(c = d /\ client[d].connected)
    BY <1>1, <2>2 DEF Broadcast, Delivered, IInv, TypeInv
  <2> QED BY <2>1, <2>2
<1>2. ASSUME IInv, NEW d \in Conns, Replay(d), NEW c \in Conns PROVE InOrder(c)
  <2>1. CASE c = d /\ client[d].connected /\ seen[d] # NothingSeen
    <3>1. /\ conn[d].pc = "replay" /\ conn[d].left # << >>
          /\ seen'[d] = [last |-> Head(conn[d].left), live |-> FALSE]
      BY <1>2, <2>1 DEF Replay, Delivered, IInv, TypeInv
    <3>2. conn[d].left[1] = seen[d].last + 1 /\ conn[d].left \in Seq(Nat)
      BY <1>2, <2>1, <3>1, OfConn DEF Own
    <3>3. Head(conn[d].left) = conn[d].left[1]
      BY <3>1, <3>2, HeadTailProperties
    <3> QED BY <2>1, <3>1, <3>2, <3>3
  <2>2. CASE ~(c = d /\ client[d].connected) \/ seen[d] = NothingSeen
    BY <1>2, <2>2 DEF Replay, Delivered, IInv, TypeInv
  <2> QED BY <2>1, <2>2
<1>3. ASSUME IInv, NEW d \in Conns, Detach(d), NEW c \in Conns PROVE InOrder(c)
  BY <1>3 DEF Detach, IInv, TypeInv
<1>4. ASSUME IInv, [Next]_vars PROVE \A c \in Conns : InOrder(c)
  <2>1. CASE UNCHANGED seen
    BY <2>1
  <2>2. CASE ~UNCHANGED seen
    <3>1. \/ \E s \in Sessions, d \in Conns : Broadcast(s, d)
          \/ \E d \in Conns : Replay(d) \/ Detach(d)
      BY <1>4, <2>2 DEF Next, vars, Ready, Output, Says, TakeLine, Exit, ReaderStep, Read,
         EndOfOutput, LockSubscribers, Notice, ConnStep, List, Close, SendPrompt, Write, Attach,
         Subscribe, New, Type, Receive, Leave, Ask
    <3> QED BY <1>1, <1>2, <1>3, <1>4, <3>1
  <2> QED BY <2>1, <2>2
<1>5. IInv /\ [Next]_vars => [\A c \in Conns : InOrder(c)]_vars
  BY <1>4
<1> QED BY <1>5, Invariant, PTL DEF Spec, SeenInOrder

=============================================================================
