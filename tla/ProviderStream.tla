--------------------------- MODULE ProviderStream ---------------------------
(***************************************************************************)
(* One request to a model: it is sent, again if need be (send_with_retry   *)
(* of api/providers), the answer is streamed and put together.  The stream *)
(* of an OpenAI-compatible provider is first turned into the events of     *)
(* Anthropic's (StreamState).  Two kinds of clients take these events: one *)
(* with a place for one open tool call (the REPL, the terminal and the     *)
(* graphical client), one with a table (sub-agents).                       *)
(*                                                                         *)
(* A tool call has Pieces pieces of input.  Thinking is not modelled.      *)
(***************************************************************************)
EXTENDS Naturals, FiniteSets, SequencesExt

CONSTANTS Calls,         \* 1..n: tool calls an answer may have
          Pieces,        \* pieces of the input of a call
          MaxRetries     \* max_retries of the client

VARIABLES protocol,      \* what the provider speaks
          client,        \* who takes the events: "slot" or "table"
          said,          \* what the provider has streamed
          st,            \* StreamState of the OpenAI client
          pending,       \* events not consumed
          held, out,     \* open tool calls; the events of the answer so far
          sending,       \* attempts, was the token refreshed, is it the fallback
          pc

chosen == <<protocol, client>>
vars == <<chosen, said, st, pending, held, out, sending, pc>>

Unnamed == [name |-> FALSE, args |-> 0, emitted |-> 0, started |-> FALSE, stopped |-> FALSE]
Text == 0                                       \* index of the text block
Input(c, a, b) == [k \in 1..(b - a) |-> <<c, a + k>>]
Whole(c) == [id |-> c, input |-> Input(c, 0, Pieces)]

Started(c) == <<[type |-> "start", at |-> c, input |-> <<>>]>>
Delta(c, a, b) == IF a = b THEN <<>> ELSE <<[type |-> "delta", at |-> c, input |-> Input(c, a, b)]>>
Stopped(c) == <<[type |-> "stop", at |-> c, input |-> <<>>]>>
Words == <<[type |-> "words", at |-> Text, input |-> <<>>]>>
MessageStop == <<[type |-> "end", at |-> Text, input |-> <<>>]>>

Ended(fin) == fin \in {"done", "cut"}

-----------------------------------------------------------------------------
(* Sending *)

(* Faulty variant: a token is replaced whenever it is refused, and the     *)
(* attempts are counted anew.                                              *)
SendRefreshing ==
    /\ pc = "send"
    /\ \/ pc' = (IF sending.fallback THEN "whole" ELSE "stream") /\ UNCHANGED sending
       \/ /\ sending' = [sending EXCEPT !.attempts = @ + 1]
          /\ pc' = IF sending.attempts + 1 > MaxRetries THEN "failed" ELSE "send"
       \/ protocol = "openai" /\ sending' = [sending EXCEPT !.attempts = 0] /\ UNCHANGED pc
       \/ pc' = "failed" /\ UNCHANGED sending
    /\ UNCHANGED <<chosen, said, st, pending, held, out>>

(* An answer, an error worth a retry, a token that is refused (which a     *)
(* client with an auth command replaces once), another error.              *)
Send ==
    /\ pc = "send"
    /\ \/ pc' = (IF sending.fallback THEN "whole" ELSE "stream") /\ UNCHANGED sending
       \/ /\ sending' = [sending EXCEPT !.attempts = @ + 1]
          /\ pc' = IF sending.attempts + 1 > MaxRetries THEN "failed" ELSE "send"
       \/ /\ protocol = "openai" /\ ~sending.refreshed
          /\ sending' = [sending EXCEPT !.refreshed = TRUE] /\ UNCHANGED pc
       \/ pc' = "failed" /\ UNCHANGED sending
    /\ UNCHANGED <<chosen, said, st, pending, held, out>>

-----------------------------------------------------------------------------
(* What the provider streams, and StreamState *)

Begun(c) == said.named[c] \/ said.pieces[c] > 0
Complete(c) == said.named[c] /\ said.pieces[c] = Pieces
MayFinish == \A c \in Calls : Begun(c) => Complete(c)

Apply(s, name, args) == [s EXCEPT !.name = @ \/ name, !.args = @ + args]
Start(s) == IF s.name THEN [s EXCEPT !.started = TRUE, !.emitted = s.args] ELSE s

(* Faulty variant: what was sent of the input is sent again.               *)
EventsOfAgain(c, old, new) ==
    (IF new.started /\ ~old.started THEN Started(c) ELSE <<>>)
    \o (IF new.started THEN Delta(c, 0, new.args) ELSE <<>>)

(* start_event, and delta_event: all of the input not emitted so far.      *)
EventsOf(c, old, new) ==
    (IF new.started /\ ~old.started THEN Started(c) ELSE <<>>)
    \o (IF new.started THEN Delta(c, old.emitted, new.args) ELSE <<>>)

Stops(call) ==
    FlattenSeq([c \in Calls |-> IF call[c].started /\ ~call[c].stopped THEN Stopped(c) ELSE <<>>])

AllStopped(call) == [c \in Calls |-> IF call[c].started THEN [call[c] EXCEPT !.stopped = TRUE] ELSE call[c]]

(* ingest_chunk: a delta of a call (its name, a piece of its input), with  *)
(* the finish reason or without.                                           *)
IngestCall ==
    /\ pc = "stream" /\ protocol = "openai" /\ pending = <<>> /\ said.fin = "no"
    /\ \E c \in Calls, name \in BOOLEAN, args \in {0, 1}, last \in BOOLEAN :
         /\ name = ~said.named[c] \/ ~name
         /\ said.pieces[c] + args <= Pieces /\ (name \/ args > 0)
         /\ LET new == Start(Apply(st.call[c], name, args))
                call == [st.call EXCEPT ![c] = new]
            IN /\ said' = [said EXCEPT !.named[c] = @ \/ name, !.pieces[c] = @ + args,
                                       !.fin = IF last THEN "calls" ELSE "no"]
               /\ last => \A d \in Calls : said'.named[d] \/ said'.pieces[d] > 0
                                             => said'.named[d] /\ said'.pieces[d] = Pieces
               /\ pending' = EventsOf(c, st.call[c], new) \o (IF last THEN Stops(call) ELSE <<>>)
               /\ st' = [st EXCEPT !.message = TRUE, !.call = IF last THEN AllStopped(call) ELSE call]
    /\ UNCHANGED <<chosen, held, out, sending, pc>>

(* A piece of text; one stands for any number (the bound on text).         *)
IngestText ==
    /\ pc = "stream" /\ protocol = "openai" /\ pending = <<>> /\ said.fin = "no" /\ ~said.text
    /\ said' = [said EXCEPT !.text = TRUE]
    /\ pending' = (IF st.text THEN <<>> ELSE Started(Text)) \o Words
    /\ st' = [st EXCEPT !.message = TRUE, !.text = TRUE]
    /\ UNCHANGED <<chosen, held, out, sending, pc>>

(* A chunk with a finish reason, "tool_calls" or another, and no delta.    *)
IngestFinish ==
    /\ pc = "stream" /\ protocol = "openai" /\ pending = <<>> /\ said.fin = "no" /\ MayFinish
    /\ \E fin \in {"calls", "other"} :
         /\ said' = [said EXCEPT !.fin = fin]
         /\ pending' = IF fin = "calls" THEN Stops(st.call) ELSE <<>>
         /\ st' = [st EXCEPT !.message = TRUE, !.call = IF fin = "calls" THEN AllStopped(@) ELSE @]
    /\ UNCHANGED <<chosen, held, out, sending, pc>>

(* Faulty variant: only what a finish reason has closed is closed.         *)
FinishOpen ==
    (IF st.text THEN Stopped(Text) ELSE <<>>) \o (IF st.message THEN MessageStop ELSE <<>>)

(* StreamState::finish: what is still open is closed, the message ended.   *)
Finish ==
    (IF st.text THEN Stopped(Text) ELSE <<>>) \o Stops(st.call)
    \o (IF st.message THEN MessageStop ELSE <<>>)

(* The stream ends, at a good place or not.                                *)
EndOfStream ==
    /\ pc = "stream" /\ pending = <<>> /\ ~Ended(said.fin)
    /\ said' = [said EXCEPT !.fin = IF @ = "no" THEN "cut" ELSE "done"]
    /\ pending' = IF protocol = "openai" THEN Finish ELSE <<>>
    /\ UNCHANGED <<chosen, st, held, out, sending, pc>>

StreamFails ==
    /\ pc = "stream" /\ pending = <<>> /\ pc' = "failed"
    /\ UNCHANGED <<chosen, said, st, pending, held, out, sending>>

(* Anthropic streams one block after the other and passes through.         *)
Open == {c \in Calls : said.named[c] /\ ~st.call[c].stopped}

Block ==
    /\ pc = "stream" /\ protocol = "anthropic" /\ pending = <<>> /\ said.fin = "no"
    /\ \/ /\ Open = {} /\ ~said.text /\ said' = [said EXCEPT !.text = TRUE]
          /\ pending' = Started(Text) \o Words \o Stopped(Text) /\ UNCHANGED st
       \/ /\ Open = {}
          /\ \E c \in {d \in Calls : ~said.named[d]} :
               said' = [said EXCEPT !.named[c] = TRUE] /\ pending' = Started(c)
          /\ UNCHANGED st
       \/ \E c \in Open :
            IF said.pieces[c] < Pieces
            THEN /\ said' = [said EXCEPT !.pieces[c] = @ + 1] /\ UNCHANGED st
                 /\ pending' = Delta(c, said.pieces[c], said.pieces[c] + 1)
            ELSE /\ pending' = Stopped(c) /\ UNCHANGED said
                 /\ st' = [st EXCEPT !.call[c].stopped = TRUE]
       \/ /\ Open = {} /\ said' = [said EXCEPT !.fin = "other"]
          /\ pending' = MessageStop /\ UNCHANGED st
    /\ UNCHANGED <<chosen, held, out, sending, pc>>

-----------------------------------------------------------------------------
(* The client: ApiClient::stream *)

Takes(c) == IF client = "slot" THEN DOMAIN held ELSE DOMAIN held \cap {c}

Consume ==
    LET event == Head(pending) c == event.at IN
    /\ pending # <<>> /\ pending' = Tail(pending)
    /\ held' = CASE event.type = "start" /\ c # Text ->
                      [d \in (IF client = "slot" THEN {} ELSE DOMAIN held) \cup {c} |->
                         IF d = c THEN <<>> ELSE held[d]]
                 [] event.type = "delta" ->
                      [d \in DOMAIN held |-> IF d \in Takes(c) THEN held[d] \o event.input ELSE held[d]]
                 [] event.type = "stop" -> [d \in DOMAIN held \ Takes(c) |-> held[d]]
                 [] OTHER -> held
    /\ out' = CASE event.type = "words" -> [out EXCEPT !.text = TRUE]
                [] event.type = "stop"  ->
                     [out EXCEPT !.calls = @ \o SetToSeq({[id |-> d, input |-> held[d]] : d \in Takes(c)})]
                [] event.type = "end"   -> [out EXCEPT !.stops = @ + 1]
                [] OTHER -> out
    /\ UNCHANGED <<chosen, said, st, sending, pc>>

(* Faulty variant: a call that is still open is taken as it is.            *)
ReturnOpen ==
    /\ pc = "stream" /\ pending = <<>> /\ Ended(said.fin)
    /\ out' = [out EXCEPT !.calls = @ \o SetToSeq({[id |-> d, input |-> held[d]] : d \in DOMAIN held}),
                          !.stops = 1]
    /\ pc' = "returned"
    /\ UNCHANGED <<chosen, said, st, pending, held, sending>>

(* No end of the message: one is made up if there was any content,         *)
(* otherwise the whole answer is asked for again, not streamed.            *)
Return ==
    /\ pc = "stream" /\ pending = <<>> /\ Ended(said.fin)
    /\ IF out.stops > 0 \/ out.text \/ out.calls # <<>>
       THEN /\ out' = [out EXCEPT !.stops = IF @ = 0 THEN 1 ELSE @]
            /\ pc' = "returned" /\ UNCHANGED sending
       ELSE /\ pc' = "send" /\ UNCHANGED out
            /\ sending' = [attempts |-> 0, refreshed |-> FALSE, fallback |-> TRUE]
    /\ UNCHANGED <<chosen, said, st, pending, held>>

(* response_to_events.                                                     *)
WholeAnswer ==
    /\ pc = "whole" /\ pc' = "returned"
    /\ \E cs \in SUBSET Calls :
         out' = [text |-> TRUE, calls |-> SetToSeq({Whole(c) : c \in cs}), stops |-> 1]
    /\ UNCHANGED <<chosen, said, st, pending, held, sending>>

-----------------------------------------------------------------------------
Init ==
    /\ protocol \in {"openai", "anthropic"} /\ client \in {"slot", "table"}
    /\ said = [text |-> FALSE, named |-> [c \in Calls |-> FALSE], pieces |-> [c \in Calls |-> 0], fin |-> "no"]
    /\ st = [message |-> FALSE, text |-> FALSE, call |-> [c \in Calls |-> Unnamed]]
    /\ pending = <<>> /\ held = <<>>
    /\ out = [text |-> FALSE, calls |-> <<>>, stops |-> 0]
    /\ sending = [attempts |-> 0, refreshed |-> FALSE, fallback |-> FALSE]
    /\ pc = "send"

Next ==
    \/ Send \/ IngestCall \/ IngestText \/ IngestFinish \/ EndOfStream \/ StreamFails \/ Block
    \/ Consume \/ Return \/ WholeAnswer

(* The provider goes on: the code sets no limit to its silence.            *)
Spec == Init /\ [][Next]_vars /\ WF_vars(Next)

-----------------------------------------------------------------------------
(* Properties *)

Returned == pc = "returned" /\ ~sending.fallback
Delivered == ToSet(out.calls)
Sent == {Whole(c) : c \in {d \in Calls : said.named[d]}}

(* An answer that was streamed to its end arrives: its text, each of its   *)
(* calls once with all of its input, one end.  Where a client has one      *)
(* place, this is said of answers with one call or from Anthropic.         *)
AnswersArrive ==
    Returned /\ said.fin = "done"
    /\ (client = "table" \/ protocol = "anthropic" \/ Cardinality(Sent) <= 1) =>
        /\ Delivered = Sent /\ Len(out.calls) = Cardinality(Sent)
        /\ out.text = said.text /\ out.stops = 1

(* The same of every client: the answer of the provider test               *)
(* stream_message_normalizes_text_and_multiple_tool_calls is one.          *)
EveryCallArrives == Returned /\ said.fin = "done" => Delivered = Sent

(* However the stream was cut, what is delivered is one answer with one    *)
(* end, and of Anthropic no call with half of its input.                   *)
NothingIsHalf ==
    Returned => /\ out.stops = 1 /\ Len(out.calls) = Cardinality({call.id : call \in Delivered})
                /\ protocol = "anthropic" => Delivered \subseteq Sent

(* A request is answered or fails, however often it is refused.            *)
RequestsEnd == <>(pc \in {"returned", "failed"})
=============================================================================
