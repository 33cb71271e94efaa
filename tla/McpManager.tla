----------------------------- MODULE McpManager -----------------------------
(***************************************************************************)
(* McpServerManager (runtime/mcp_stdio.rs): one caller at a time discovers *)
(* tools, calls one or reads a resource; the manager spawns the server's   *)
(* process, shakes hands with it, and exchanges requests and responses     *)
(* over its pipes under a time limit, with one retry after a reset.        *)
(*                                                                         *)
(* A server process may answer late or never, answer with an error or      *)
(* without a result, print something nobody asked for, and die.            *)
(***************************************************************************)
EXTENDS Integers, Sequences, FiniteSets

CONSTANTS Servers,     \* configured stdio servers
          NoServer,
          MaxOps, MaxPages, MaxProcs, MaxSpawns, MaxNoise    \* bounds of the model

VARIABLES server,      \* ManagedMcpServer: the process behind it (0: none), initialized
          process,     \* the processes that run, their pipes included
          indexed,     \* the servers with tools in tool_index
          pc, op,      \* the call under way
          nextId,      \* next_request_id
          ops, pages, spawns, noise,    \* counters of the model
          sent         \* tools/call requests sent by the call under way (history)

manager == <<server, indexed, pc, op, nextId, ops, sent>>
world == <<pages, spawns, noise>>
vars == <<manager, process, world>>

Procs == 1..MaxProcs
Kinds == {"discover", "report", "call", "list", "read"}
Discoveries == {"discover", "report"}
Paged == {"tools/list", "resources/list"}

NoOp == [kind |-> "none", server |-> NoServer, todo |-> {}, attempts |-> 0,
         handshakes |-> 0, method |-> "none", id |-> 0]

Unused == [server |-> NoServer, alive |-> FALSE, inbox |-> << >>, outbox |-> << >>]

Current == server[op.server].proc

-----------------------------------------------------------------------------
(* Resets and results *)

(* Faulty variant: the server is still taken for initialized.              *)
ResetKeepsHandshake ==
    /\ server' = [server EXCEPT ![op.server].proc = 0]
    /\ process' = [p \in Procs |-> IF p = Current THEN Unused ELSE process[p]]

(* Faulty variant: the handle is dropped, the process lives on.            *)
ResetForgets ==
    /\ server' = [server EXCEPT ![op.server] = [proc |-> 0, initialized |-> FALSE]]
    /\ UNCHANGED process

(* reset_server: the process is taken out and killed, its pipes are gone.  *)
Reset ==
    /\ server' = [server EXCEPT ![op.server] = [proc |-> 0, initialized |-> FALSE]]
    /\ process' = [p \in Procs |-> IF p = Current THEN Unused ELSE process[p]]

Keep == UNCHANGED <<server, process>>

Retryable == {"transport", "timeout"}

(* Faulty variant: the process that did not answer in time is kept.        *)
ResettingUnlessLate == {"transport", "invalid"}

Resetting == {"transport", "timeout", "invalid"}

(* The operation is over.  discover_tools stops at the first server that   *)
(* fails, the best-effort report goes on and forgets that server's tools.  *)
Over(ok) ==
    \/ /\ op.kind \in Discoveries /\ (ok \/ op.kind = "report")
       /\ indexed' = IF ok THEN indexed \cup {op.server} ELSE indexed \ {op.server}
       /\ pc' = "next"
       /\ op' = [op EXCEPT !.server = NoServer, !.attempts = 0, !.method = "none"]
    \/ /\ op.kind \notin Discoveries \/ (~ok /\ op.kind = "discover")
       /\ pc' = "idle" /\ op' = NoOp /\ UNCHANGED indexed

(* Faulty variant: tool calls are tried twice like everything else.        *)
RetriedAlways(e) == e \in Retryable /\ op.attempts = 0

(* discover_tools_for_server, list_resources and read_resource try twice,  *)
(* call_tool does not.                                                     *)
Retried(e) == e \in Retryable /\ op.attempts = 0 /\ op.kind # "call"

(* A request of the operation, or the handshake before it, failed.  The    *)
(* handshake has done its own reset.                                       *)
Fail(e) ==
    IF Retried(e)
    THEN Reset /\ pc' = "check" /\ op' = [op EXCEPT !.attempts = 1] /\ UNCHANGED indexed
    ELSE (IF e \in Resetting THEN Reset ELSE Keep) /\ Over(FALSE)

(* ensure_server_ready tries the handshake twice.                          *)
HandshakeFails(e) ==
    IF e \in Retryable /\ op.handshakes = 0
    THEN Reset /\ pc' = "ready" /\ op' = [op EXCEPT !.handshakes = 1] /\ UNCHANGED indexed
    ELSE Fail(e)

Outcome(e) == IF op.method = "initialize" THEN HandshakeFails(e) ELSE Fail(e)

-----------------------------------------------------------------------------
(* The caller *)

Begin(kind, s) ==
    /\ pc = "idle" /\ ops < MaxOps
    /\ ops' = ops + 1
    /\ sent' = 0
    /\ UNCHANGED <<server, process, indexed, nextId, world>>
    /\ IF kind \in Discoveries
       THEN pc' = "next" /\ op' = [NoOp EXCEPT !.kind = kind, !.todo = Servers]
       ELSE pc' = "check" /\ op' = [NoOp EXCEPT !.kind = kind, !.server = s]

Discover == \E kind \in Discoveries : Begin(kind, NoServer)
CallTool(s) == s \in indexed /\ Begin("call", s)
Resources(s) == Begin("list", s) \/ Begin("read", s)

(* discover_tools and its best-effort form: one server after the other.    *)
NextServer ==
    /\ pc = "next"
    /\ IF op.todo = {} THEN pc' = "idle" /\ op' = NoOp
       ELSE \E s \in op.todo :
              pc' = "check" /\ op' = [op EXCEPT !.server = s, !.todo = @ \ {s}]
    /\ UNCHANGED <<server, process, indexed, nextId, ops, sent, world>>

(* shutdown: every process is killed.                                      *)
Shutdown ==
    /\ pc = "idle"
    /\ server' = [s \in Servers |-> [proc |-> 0, initialized |-> FALSE]]
    /\ process' = [p \in Procs |-> Unused]
    /\ UNCHANGED <<indexed, pc, op, nextId, ops, sent, world>>

-----------------------------------------------------------------------------
(* ensure_server_ready *)

Check ==
    /\ pc = "check"
    /\ pc' = "ready" /\ op' = [op EXCEPT !.handshakes = 0]
    /\ IF Current # 0 /\ ~process[Current].alive THEN Reset ELSE Keep
    /\ UNCHANGED <<indexed, nextId, ops, sent, world>>

Spawn ==
    /\ pc = "ready" /\ Current = 0
    /\ \/ /\ spawns < MaxSpawns /\ spawns' = spawns + 1
          /\ \E p \in Procs :
                /\ process[p] = Unused /\ \A q \in 1..p - 1 : process[q] # Unused
                /\ process' = [process EXCEPT ![p].server = op.server, ![p].alive = TRUE]
                /\ server' = [server EXCEPT ![op.server] = [proc |-> p, initialized |-> FALSE]]
          /\ UNCHANGED <<pc, op, indexed>>
       \/ Fail("io") /\ UNCHANGED spawns
    /\ UNCHANGED <<nextId, ops, sent, pages, noise>>

MethodOf == [discover |-> "tools/list", report |-> "tools/list", call |-> "tools/call",
             list |-> "resources/list", read |-> "resources/read"]

Ready ==
    /\ pc = "ready" /\ Current # 0
    /\ pc' = "send"
    /\ op' = [op EXCEPT !.method = IF server[op.server].initialized THEN MethodOf[op.kind]
                                                                    ELSE "initialize"]
    /\ UNCHANGED <<server, process, indexed, nextId, ops, sent, world>>

-----------------------------------------------------------------------------
(* McpStdioProcess::request, under run_process_request's time limit *)

Send ==
    /\ pc = "send"
    /\ nextId' = nextId + 1
    /\ \/ /\ process[Current].alive
          /\ process' = [process EXCEPT ![Current].inbox =
                           Append(@, [id |-> nextId, method |-> op.method])]
          /\ pc' = "wait" /\ op' = [op EXCEPT !.id = nextId]
          /\ sent' = IF op.method = "tools/call" THEN sent + 1 ELSE sent
          /\ UNCHANGED <<server, indexed>>
       \/ /\ ~process[Current].alive
          /\ Outcome("transport") /\ UNCHANGED sent
    /\ UNCHANGED <<ops, world>>

(* The process has one message less in its pipe.                           *)
Taken(ps) == [ps EXCEPT ![Current].outbox = Tail(@)]

(* What a response means, by method.  For a tool call every response with  *)
(* the right id is handed on as it is.                                     *)
Accept(body) ==
    \/ /\ op.method = "initialize" /\ body = "result"
       /\ server' = [server EXCEPT ![op.server].initialized = TRUE]
       /\ process' = Taken(process)
       /\ pc' = "ready" /\ UNCHANGED <<op, indexed>>
    \/ /\ op.method \in Paged /\ body = "more"
       /\ process' = Taken(process)
       /\ pc' = "send" /\ UNCHANGED <<server, op, indexed>>
    \/ /\ \/ op.method \in Paged \cup {"resources/read"} /\ body = "result"
          \/ op.method = "tools/call"
       /\ process' = Taken(process) /\ UNCHANGED server
       /\ Over(TRUE)
    \/ /\ op.method # "tools/call" /\ body = "error"
       /\ process' = Taken(process) /\ UNCHANGED server
       /\ Over(FALSE)
    \/ /\ op.method # "tools/call" /\ body = "empty"
       /\ Outcome("invalid")

(* Faulty variant: a response is taken without a look at its id.           *)
ReceiveAny ==
    /\ pc = "wait" /\ process[Current].outbox # << >>
    /\ LET r == Head(process[Current].outbox)
       IN  IF r.body = "junk" THEN Outcome("invalid") ELSE Accept(r.body)
    /\ UNCHANGED <<nextId, ops, sent, world>>

(* One message is read: it must be a response with the id of the request.  *)
Receive ==
    /\ pc = "wait" /\ process[Current].outbox # << >>
    /\ LET r == Head(process[Current].outbox)
       IN  IF r.body = "junk" \/ r.id # op.id THEN Outcome("invalid") ELSE Accept(r.body)
    /\ UNCHANGED <<nextId, ops, sent, world>>

EndOfFile ==
    /\ pc = "wait" /\ process[Current].outbox = << >> /\ ~process[Current].alive
    /\ Outcome("transport")
    /\ UNCHANGED <<nextId, ops, sent, world>>

(* Faulty variant: the handshake has no time limit.                        *)
TimeoutOfRequests ==
    /\ pc = "wait" /\ op.method # "initialize"
    /\ Outcome("timeout")
    /\ UNCHANGED <<nextId, ops, sent, world>>

(* The limit passes, whether or not the answer is already in the pipe.     *)
Timeout ==
    /\ pc = "wait"
    /\ Outcome("timeout")
    /\ UNCHANGED <<nextId, ops, sent, world>>

-----------------------------------------------------------------------------
(* The server's process *)

MayAnswer(method) ==
    {"result", "error", "empty"} \cup
    (IF method \in Paged /\ pages < MaxPages THEN {"more"} ELSE {})

Reply(p) ==
    /\ process[p].alive /\ process[p].inbox # << >>
    /\ LET request == Head(process[p].inbox) IN
       \E body \in MayAnswer(request.method) :
         /\ process' = [process EXCEPT
                ![p].inbox = Tail(@),
                ![p].outbox = Append(@, [id |-> request.id, body |-> body])]
         /\ pages' = IF body = "more" THEN pages + 1 ELSE pages
    /\ UNCHANGED <<manager, spawns, noise>>

(* A notification, a log line, or an earlier response once more.           *)
Babble(p) ==
    /\ process[p].alive /\ noise < MaxNoise
    /\ noise' = noise + 1
    /\ \E m \in {[id |-> 0, body |-> "junk"]} \cup
                {[id |-> i, body |-> "result"] : i \in {nextId - 2} \cap (1..nextId)} :
         process' = [process EXCEPT ![p].outbox = Append(@, m)]
    /\ UNCHANGED <<manager, pages, spawns>>

Die(p) ==
    /\ process[p].alive
    /\ process' = [process EXCEPT ![p].alive = FALSE]
    /\ UNCHANGED <<manager, world>>

-----------------------------------------------------------------------------
Init ==
    /\ server = [s \in Servers |-> [proc |-> 0, initialized |-> FALSE]]
    /\ process = [p \in Procs |-> Unused]
    /\ indexed = {}
    /\ pc = "idle" /\ op = NoOp
    /\ nextId = 1
    /\ ops = 0 /\ pages = 0 /\ spawns = 0 /\ noise = 0
    /\ sent = 0

Caller == Discover \/ (\E s \in Servers : CallTool(s) \/ Resources(s)) \/ Shutdown

Step == \/ NextServer \/ Check \/ Spawn \/ Ready
        \/ Send \/ Receive \/ EndOfFile \/ Timeout

Next == Caller \/ Step \/ \E p \in Procs : Reply(p) \/ Babble(p) \/ Die(p)

Spec == Init /\ [][Next]_vars

(* The manager's task is polled and its timers fire; nothing is assumed of *)
(* the servers.                                                            *)
FairSpec == Spec /\ WF_vars(Step)

-----------------------------------------------------------------------------
(* Properties *)

TypeOK ==
    /\ server \in [Servers -> [proc : 0..MaxProcs, initialized : BOOLEAN]]
    /\ \A s \in Servers : server[s].initialized => server[s].proc # 0
    /\ \A p \in Procs : process[p].alive => process[p].server \in Servers
    /\ indexed \subseteq Servers
    /\ pc \in {"idle", "next", "check", "ready", "send", "wait"}
    /\ op.kind \in Kinds \cup {"none"} /\ op.todo \subseteq Servers
    /\ pc \in {"send", "wait"} => Current # 0
    /\ nextId \in Nat

(* A process that is kept after an operation owes nobody an answer: a late *)
(* response to a request that timed out, failed or was taken for something *)
(* else never waits in the pipe for the next request.                      *)
InSync ==
    pc = "idle" =>
        \A s \in Servers : server[s].proc # 0 =>
            LET p == process[server[s].proc] IN
            /\ p.inbox = << >>
            /\ \A i \in DOMAIN p.outbox : p.outbox[i].body = "junk" \/ p.outbox[i].id < nextId - 1

(* Over retries, failed handshakes and resets no process is left running   *)
(* that the manager has lost sight of.                                     *)
NoOrphans ==
    \A p \in Procs : process[p].alive => server[process[p].server].proc = p

(* A tool has effects: whatever fails, call_tool sends its request at most *)
(* once.                                                                   *)
CallSentOnce == sent <= 1

(* Every operation ends, however silent or chatty its servers are, unless  *)
(* a server pages without end: the code has no bound of its own there      *)
(* (MaxPages is the model's).                                              *)
OperationsEnd == pc # "idle" ~> pc = "idle"
=============================================================================
