----------------------------- MODULE MuxServer -----------------------------
(***************************************************************************)
(* The multiplexer's server (rusty-claude-cli/src/mux/server.rs): sessions *)
(* that are child processes, a reader thread for the output of each, one   *)
(* thread per connection, and clients that attach, type and leave.         *)
(*                                                                         *)
(* Three kinds of locks: the multiplexer's own, held for a whole request,  *)
(* a replay to a client and a write to a child included; the one of a      *)
(* session's transcript, held for one access; and the one of its           *)
(* subscribers, held while a chunk is sent to all of them.                 *)
(*                                                                         *)
(* Output is a sequence of numbered chunks, as the reader's read() delivers *)
(* them; some carry the prompt sign of the REPL.                           *)
(***************************************************************************)
EXTENDS Integers, Sequences, FiniteSets

CONSTANTS Sessions,      \* ids of sessions
          Conns,         \* connections; one that is over and forgotten is used again
          NoConn,
          MaxBuffer,     \* chunks a transcript keeps (the code: 200 000 bytes)
          PipeSize,      \* lines or chunks a pipe of a child holds
          SocketSize,    \* chunks a client's socket holds
          MaxOutput, MaxRequests     \* bounds of the model: chunks an agent prints
                         \* at work, requests and typed lines

ASSUME SizesAssumption ==
    /\ {MaxBuffer, PipeSize, SocketSize} \subseteq Nat \ {0}
    /\ {MaxOutput, MaxRequests} \subseteq Nat
    /\ NoConn \notin Conns

VARIABLES session,     \* Session: in the list or not, status, transcript, subscribers
          child,       \* its process: what it does, its stdin and stdout
          reader,      \* its reader thread
          lock,        \* who holds the multiplexer's lock
          conn,        \* the thread of each connection
          client,      \* the other end: connected, chunks not read yet
          seen,        \* the last chunk sent to a client, and whether it was live (history)
          requests     \* counter of the model

server == <<session, reader, lock, conn>>
vars == <<server, child, client, seen, requests>>

Kinds == {"new", "new_prompt", "attach", "prompt", "list", "close"}
Statuses == {"idle", "working", "exited"}
NoChunk == [n |-> 0, sign |-> FALSE]
NothingSeen == [last |-> 0, live |-> FALSE]

-----------------------------------------------------------------------------
(* The child: a REPL that reads lines and prints a sign before each *)

Running(s) == child[s].does \in {"starts", "waits", "works"}

(* A chunk goes into the pipe when there is room for it.                   *)
Says(s, sign, does) ==
    /\ Len(child[s].stdout) < PipeSize
    /\ child' = [child EXCEPT ![s].stdout = Append(@, [n |-> child[s].said + 1, sign |-> sign]),
                              ![s].said = @ + 1, ![s].does = does]
    /\ UNCHANGED <<server, client, seen, requests>>

Ready(s) == child[s].does \in {"starts", "works"} /\ Says(s, TRUE, "waits")

Output(s) == child[s].does = "works" /\ child[s].said < MaxOutput /\ Says(s, FALSE, "works")

TakeLine(s) ==
    /\ child[s].does = "waits" /\ child[s].stdin > 0
    /\ child' = [child EXCEPT ![s].stdin = @ - 1, ![s].does = "works"]
    /\ UNCHANGED <<server, client, seen, requests>>

Exit(s) ==
    /\ Running(s)
    /\ child' = [child EXCEPT ![s].does = "gone", ![s].stdin = 0]
    /\ UNCHANGED <<server, client, seen, requests>>

-----------------------------------------------------------------------------
(* spawn_reader *)

(* What a client's socket does with a chunk: it waits for room.            *)
Delivered(c, n, live) ==
    /\ client[c].unread < SocketSize
    /\ client' = [client EXCEPT ![c].unread = @ + 1]
    /\ seen' = [seen EXCEPT ![c] = [last |-> n, live |-> live]]

(* Faulty variant: the transcript is cut before the chunk is added.        *)
StoreLate(s) ==
    LET buffer == Append(session[s].buffer, Head(child[s].stdout).n)
    IN  IF Len(session[s].buffer) > MaxBuffer THEN Tail(buffer) ELSE buffer

(* The tail of the transcript with the chunk added.                        *)
Stored(s) ==
    LET buffer == Append(session[s].buffer, Head(child[s].stdout).n)
    IN  IF Len(buffer) > MaxBuffer THEN Tail(buffer) ELSE buffer

Read(s) ==
    /\ reader[s].pc = "read" /\ child[s].stdout # << >>
    /\ child' = [child EXCEPT ![s].stdout = Tail(@)]
    /\ session' = [session EXCEPT ![s].buffer = Stored(s)]
    /\ reader' = [reader EXCEPT ![s] =
                    [pc |-> "stored", chunk |-> Head(child[s].stdout), todo |-> {}]]
    /\ UNCHANGED <<lock, conn, client, seen, requests>>

EndOfOutput(s) ==
    /\ reader[s].pc = "read" /\ child[s].stdout = << >> /\ child[s].does = "gone"
    /\ reader' = [reader EXCEPT ![s].pc = "gone"]
    /\ UNCHANGED <<session, lock, conn, child, client, seen, requests>>

LockSubscribers(s) ==
    /\ reader[s].pc = "stored"
    /\ reader' = [reader EXCEPT ![s].pc = "send", ![s].todo = session[s].subscribers]
    /\ UNCHANGED <<session, lock, conn, child, client, seen, requests>>

(* Faulty variant: a client that left is waited for like any other.        *)
BroadcastToAll(s, c) ==
    /\ reader[s].pc = "send" /\ c \in reader[s].todo
    /\ reader' = [reader EXCEPT ![s].todo = @ \ {c}]
    /\ Delivered(c, reader[s].chunk.n, TRUE)
    /\ UNCHANGED <<session, lock, conn, child, requests>>

(* Every subscriber gets the chunk; one that left is dropped.              *)
Broadcast(s, c) ==
    /\ reader[s].pc = "send" /\ c \in reader[s].todo
    /\ reader' = [reader EXCEPT ![s].todo = @ \ {c}]
    /\ IF client[c].connected
       THEN Delivered(c, reader[s].chunk.n, TRUE) /\ UNCHANGED session
       ELSE /\ session' = [session EXCEPT ![s].subscribers = @ \ {c}]
            /\ UNCHANGED <<client, seen>>
    /\ UNCHANGED <<lock, conn, child, requests>>

(* Faulty variant: with nobody attached the output is not looked at.       *)
NoticeIfAttached(s) ==
    /\ reader[s].pc = "send" /\ reader[s].todo = {}
    /\ reader' = [reader EXCEPT ![s].pc = "read", ![s].chunk = NoChunk]
    /\ session' = [session EXCEPT ![s].status =
                     IF reader[s].chunk.sign /\ session[s].subscribers # {} THEN "idle" ELSE @]
    /\ UNCHANGED <<lock, conn, child, client, seen, requests>>

(* A prompt sign in the chunk means that the agent waits for input again.  *)
Notice(s) ==
    /\ reader[s].pc = "send" /\ reader[s].todo = {}
    /\ reader' = [reader EXCEPT ![s].pc = "read", ![s].chunk = NoChunk]
    /\ session' = [session EXCEPT ![s].status = IF reader[s].chunk.sign THEN "idle" ELSE @]
    /\ UNCHANGED <<lock, conn, child, client, seen, requests>>

ReaderStep(s) ==
    \/ Read(s) \/ EndOfOutput(s) \/ LockSubscribers(s) \/ Notice(s)
    \/ \E c \in Conns : Broadcast(s, c)

-----------------------------------------------------------------------------
(* process: one request, under the multiplexer's lock *)

Asked(c, kind) == conn[c].pc = "asked" /\ conn[c].kind = kind /\ lock = NoConn

NoRequest == [pc |-> "done", kind |-> "list", session |-> CHOOSE s \in Sessions : TRUE,
              left |-> << >>]

At(c, pc) == conn' = [conn EXCEPT ![c] = IF pc = "done" THEN NoRequest ELSE [@ EXCEPT !.pc = pc]]

(* The first prompt is written to an empty pipe.  The spawn may fail.      *)
New(c, kind) ==
    /\ Asked(c, kind)
    /\ \/ \E s \in Sessions :
            /\ child[s].does = "none"
            /\ child' = [child EXCEPT ![s].does = "starts",
                                      ![s].stdin = IF kind = "new_prompt" THEN 1 ELSE 0]
            /\ session' = [session EXCEPT ![s].known = TRUE,
                             ![s].status = IF kind = "new_prompt" THEN "working" ELSE "idle"]
            /\ reader' = [reader EXCEPT ![s].pc = "read"]
       \/ UNCHANGED <<session, reader, child>>
    /\ At(c, "done")
    /\ UNCHANGED <<lock, client, seen, requests>>

(* snapshot: a session whose child has ended is marked so.                 *)
List(c) ==
    /\ Asked(c, "list")
    /\ session' = [s \in Sessions |->
                     IF session[s].known /\ ~Running(s)
                     THEN [session[s] EXCEPT !.status = "exited"] ELSE session[s]]
    /\ At(c, "done")
    /\ UNCHANGED <<reader, lock, child, client, seen, requests>>

Close(c) ==
    /\ Asked(c, "close")
    /\ LET s == conn[c].session IN
       /\ session' = [session EXCEPT ![s].known = FALSE]
       /\ child' = IF session[s].known
                    THEN [child EXCEPT ![s].does = "gone", ![s].stdin = 0] ELSE child
    /\ At(c, "done")
    /\ UNCHANGED <<reader, lock, client, seen, requests>>

Idle(c) == IF conn[c].kind = "attach" THEN "listen" ELSE "done"

(* send_prompt: the status first, then the write, which waits for room.    *)
SendPrompt(c) ==
    /\ lock = NoConn
    /\ conn[c].pc = "typed" \/ (conn[c].pc = "asked" /\ conn[c].kind = "prompt")
    /\ LET s == conn[c].session IN
       IF session[s].known
       THEN /\ session' = [session EXCEPT ![s].status = "working"]
            /\ lock' = c /\ At(c, "write")
       ELSE At(c, Idle(c)) /\ UNCHANGED <<session, lock>>
    /\ UNCHANGED <<reader, child, client, seen, requests>>

Write(c) ==
    /\ conn[c].pc = "write"
    /\ LET s == conn[c].session IN
       \/ /\ Running(s) /\ child[s].stdin < PipeSize
          /\ child' = [child EXCEPT ![s].stdin = @ + 1]
       \/ ~Running(s) /\ UNCHANGED child
    /\ lock' = NoConn /\ At(c, Idle(c))
    /\ UNCHANGED <<session, reader, client, seen, requests>>

-----------------------------------------------------------------------------
(* handle_attach *)

(* Faulty variant: the client is subscribed before it gets the replay.     *)
AttachFirst(c) ==
    /\ Asked(c, "attach")
    /\ LET s == conn[c].session IN
       IF session[s].known
       THEN /\ lock' = c
            /\ conn' = [conn EXCEPT ![c].pc = "replay", ![c].left = session[s].buffer]
            /\ session' = [session EXCEPT ![s].subscribers = @ \cup {c}]
       ELSE At(c, "done") /\ UNCHANGED <<session, lock>>
    /\ UNCHANGED <<reader, child, client, seen, requests>>

(* The transcript is copied; the lock is kept.                             *)
Attach(c) ==
    /\ Asked(c, "attach")
    /\ LET s == conn[c].session IN
       IF session[s].known
       THEN lock' = c /\ conn' = [conn EXCEPT ![c].pc = "replay", ![c].left = session[s].buffer]
       ELSE At(c, "done") /\ UNCHANGED lock
    /\ UNCHANGED <<session, reader, child, client, seen, requests>>

Replay(c) ==
    /\ conn[c].pc = "replay" /\ conn[c].left # << >>
    /\ IF client[c].connected
       THEN /\ Delivered(c, Head(conn[c].left), FALSE)
            /\ conn' = [conn EXCEPT ![c].left = Tail(@)]
       ELSE conn' = [conn EXCEPT ![c].left = << >>] /\ UNCHANGED <<client, seen>>
    /\ UNCHANGED <<session, reader, lock, child, requests>>

(* The subscribers' lock is free when the reader is not sending.           *)
Subscribe(c) ==
    /\ conn[c].pc = "replay" /\ conn[c].left = << >>
    /\ LET s == conn[c].session IN
       /\ reader[s].pc # "send"
       /\ session' = [session EXCEPT ![s].subscribers = @ \cup {c}]
    /\ lock' = NoConn /\ At(c, "listen")
    /\ UNCHANGED <<reader, child, client, seen, requests>>

(* The client has left: the thread ends, the session goes on.              *)
Detach(c) ==
    /\ conn[c].pc = "listen" /\ ~client[c].connected
    /\ At(c, "done") /\ seen' = [seen EXCEPT ![c] = NothingSeen]
    /\ UNCHANGED <<session, reader, lock, child, client, requests>>

ConnStep(c) ==
    \/ List(c) \/ Close(c) \/ SendPrompt(c) \/ Write(c)
    \/ Attach(c) \/ Replay(c) \/ Subscribe(c) \/ Detach(c)
    \/ New(c, "new") \/ New(c, "new_prompt")

-----------------------------------------------------------------------------
(* Clients *)

(* A connection that is still subscribed somewhere is not used again.      *)
Forgotten(c) == \A s \in Sessions : c \notin session[s].subscribers \cup reader[s].todo

Ask(c, kind, s) ==
    /\ conn[c].pc = "done" /\ Forgotten(c)
    /\ requests < MaxRequests /\ requests' = requests + 1
    /\ conn' = [conn EXCEPT ![c] = [pc |-> "asked", kind |-> kind, session |-> s, left |-> << >>]]
    /\ client' = [client EXCEPT ![c] = [connected |-> kind = "attach", unread |-> 0]]
    /\ UNCHANGED <<session, reader, lock, child, seen>>

Type(c) ==
    /\ conn[c].pc = "listen" /\ client[c].connected
    /\ requests < MaxRequests /\ requests' = requests + 1
    /\ At(c, "typed")
    /\ UNCHANGED <<session, reader, lock, child, client, seen>>

Receive(c) ==
    /\ client[c].connected /\ client[c].unread > 0
    /\ client' = [client EXCEPT ![c].unread = @ - 1]
    /\ UNCHANGED <<server, child, seen, requests>>

Leave(c) ==
    /\ conn[c].kind = "attach" /\ client[c].connected
    /\ client' = [client EXCEPT ![c] = [connected |-> FALSE, unread |-> 0]]
    /\ UNCHANGED <<server, child, seen, requests>>

-----------------------------------------------------------------------------
Init ==
    /\ session = [s \in Sessions |-> [known |-> FALSE, status |-> "idle", buffer |-> << >>,
                                      subscribers |-> {}]]
    /\ child = [s \in Sessions |-> [does |-> "none", stdin |-> 0, stdout |-> << >>, said |-> 0]]
    /\ reader = [s \in Sessions |-> [pc |-> "none", chunk |-> NoChunk, todo |-> {}]]
    /\ lock = NoConn
    /\ conn = [c \in Conns |-> NoRequest]
    /\ client = [c \in Conns |-> [connected |-> FALSE, unread |-> 0]]
    /\ seen = [c \in Conns |-> NothingSeen]
    /\ requests = 0

Next ==
    \/ \E s \in Sessions : Ready(s) \/ Output(s) \/ TakeLine(s) \/ Exit(s) \/ ReaderStep(s)
    \/ \E c \in Conns : ConnStep(c) \/ Type(c) \/ Receive(c) \/ Leave(c)
    \/ \E c \in Conns, kind \in Kinds, s \in Sessions : Ask(c, kind, s)

Spec == Init /\ [][Next]_vars

(* Threads are scheduled, an agent takes its lines and ends its turns, and *)
(* a client that is attached reads what it is sent.                        *)
FairSpec ==
    /\ Spec
    /\ \A s \in Sessions : WF_vars(ReaderStep(s)) /\ WF_vars(Ready(s) \/ TakeLine(s))
    /\ \A c \in Conns : WF_vars(ConnStep(c)) /\ WF_vars(Receive(c))

-----------------------------------------------------------------------------
(* Properties *)

(* Transcripts, pipes and sockets keep their limits, and the lock of the   *)
(* multiplexer is held by the request that writes, and by no other.        *)
TypeOK ==
    /\ \A s \in Sessions :
         /\ session[s].status \in Statuses /\ session[s].subscribers \subseteq Conns
         /\ Len(session[s].buffer) <= MaxBuffer
         /\ child[s].does \in {"none", "starts", "waits", "works", "gone"}
         /\ child[s].stdin \in 0..PipeSize /\ Len(child[s].stdout) <= PipeSize
         /\ reader[s].pc \in {"none", "read", "stored", "send", "gone"}
         /\ reader[s].todo \subseteq Conns
    /\ \A c \in Conns :
         /\ conn[c].pc \in {"asked", "write", "replay", "listen", "typed", "done"}
         /\ (lock = c) = (conn[c].pc \in {"write", "replay"})
         /\ client[c].unread \in 0..SocketSize
    /\ lock \in Conns \cup {NoConn}

(* An attached client sees the output in order and without holes, but for  *)
(* one place, between the replay and what follows it; there chunks may be  *)
(* missing, or one come twice.                                             *)
SeenInOrder ==
    [][\A c \in Conns : seen'[c] # seen[c] /\ seen[c] # NothingSeen /\ seen'[c] # NothingSeen
         => \/ seen'[c].last = seen[c].last + 1
            \/ ~seen[c].live /\ seen'[c].live /\ seen'[c].last >= seen[c].last]_vars

(* "Replay of the transcript so far, and a subscription to the output to   *)
(* come": nothing in between is missing.                                   *)
NothingMissed ==
    [][\A c \in Conns : seen[c] # NothingSeen
         => seen'[c].last <= seen[c].last + 1]_vars

(* An agent that waits for input, with nothing on the way to it or from    *)
(* it, is listed as idle, whoever sent it prompts and in whatever order    *)
(* the sender and the reader wrote the status.                             *)
QuietIsIdle ==
    \A s \in Sessions :
        /\ session[s].known /\ child[s].does = "waits"
        /\ child[s].stdin = 0 /\ child[s].stdout = << >> /\ reader[s].pc = "read"
        /\ ~\E c \in Conns : conn[c].pc = "write" /\ conn[c].session = s
        => session[s].status = "idle"

(* As long as attached clients read what they are sent and agents take     *)
(* their lines, nobody holds the locks for good: every request is answered *)
(* and every line typed reaches the agent or its end.                      *)
RequestsAnswered ==
    \A c \in Conns :
        conn[c].pc \in {"asked", "write", "replay", "typed"} ~> conn[c].pc \in {"listen", "done"}
=============================================================================
