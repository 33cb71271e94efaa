------------------------------ MODULE Framing ------------------------------
(***************************************************************************)
(* The events of a streamed answer come in frames that an empty line ends, *)
(* and the network cuts the bytes where it likes: SseParser of api/sse.rs  *)
(* (Anthropic) and OpenAiSseParser of api/providers/openai_compat.rs.      *)
(*                                                                         *)
(* A frame holds an event, of whose data a half is no event, a comment or  *)
(* keep-alive (a note), both, or data that cannot be read.  A server ends  *)
(* its lines in one way: with both, in one buffer, the code takes the      *)
(* first LF LF for the end even if a CR LF CR LF is before it.             *)
(***************************************************************************)
EXTENDS Naturals, Sequences, SequencesExt

CONSTANTS MaxFrames      \* bound of the model: frames of a stream

VARIABLES dialect, eol,  \* who sends, and how lines end: "lf" or "crlf"
          stream,        \* the frames, by their kinds
          at,            \* bytes that have come
          buffer,        \* of the parser
          given,         \* events handed on, by their numbers
          state          \* "open", "closed" by the server, or "failed"

vars == <<dialect, eol, stream, at, buffer, given, state>>

Kinds == {"event", "noted", "note", "bad"}

Byte(is, of, half) == [is |-> is, of |-> of, half |-> half]
LF == Byte("LF", 0, 0)
CR == Byte("CR", 0, 0)
Note == Byte("note", 0, 0)
EndOfLine == IF eol = "lf" THEN <<LF>> ELSE <<CR, LF>>

Halves(k) == <<Byte("data", k, 1), Byte("data", k, 2)>>
Body(k) == CASE stream[k] = "event" -> Halves(k)
             [] stream[k] = "noted" -> <<Note>> \o EndOfLine \o Halves(k)
             [] stream[k] = "note" -> <<Note>>
             [] stream[k] = "bad" -> <<Byte("data", k, 1), Byte("data", k, 1)>>

Frame(k) == Body(k) \o EndOfLine \o EndOfLine

(* What the first n frames are on the wire.                                *)
Wire(n) ==
    LET upto[k \in 0..Len(stream)] == IF k = 0 THEN << >> ELSE upto[k - 1] \o Frame(k)
    IN  upto[n]

-----------------------------------------------------------------------------
(* The parser *)

Places(sep, b) == {i \in 1..(Len(b) - Len(sep) + 1) : \A j \in DOMAIN sep : b[i + j - 1] = sep[j]}

(* Faulty variant: a line that ends with CR LF is taken for the end.       *)
EndsShort(b) ==
    IF Places(<<LF, LF>>, b) # {} THEN [at |-> Min(Places(<<LF, LF>>, b)), len |-> 2]
    ELSE IF Places(<<CR, LF>>, b) # {} THEN [at |-> Min(Places(<<CR, LF>>, b)), len |-> 2]
    ELSE [at |-> 0, len |-> 0]

(* The place and length of the first separator, or 0.                      *)
Separator(b) ==
    IF Places(<<LF, LF>>, b) # {} THEN [at |-> Min(Places(<<LF, LF>>, b)), len |-> 2]
    ELSE IF Places(<<CR, LF, CR, LF>>, b) # {}
    THEN [at |-> Min(Places(<<CR, LF, CR, LF>>, b)), len |-> 4]
    ELSE [at |-> 0, len |-> 0]

(* parse_frame: its data lines, put together, are an event, nothing, or    *)
(* cannot be read.                                                         *)
Parsed(frame) ==
    LET data == {i \in DOMAIN frame : frame[i].is = "data"}
        first == frame[Min(data)]
    IN  IF data = {} THEN [events |-> << >>, fails |-> FALSE]
        ELSE IF \E i \in data : data = {Min(data), i} /\ <<first, frame[i]>> = Halves(first.of)
        THEN [events |-> <<first.of>>, fails |-> FALSE]
        ELSE [events |-> << >>, fails |-> TRUE]

(* One frame is taken from the buffer, if there is one.                    *)
TakeFrame(s) ==
    LET sep == Separator(s.buffer) IN
    IF s.fails \/ sep.at = 0 THEN s
    ELSE LET p == Parsed(SubSeq(s.buffer, 1, sep.at - 1)) IN
         [buffer |-> SubSeq(s.buffer, sep.at + sep.len, Len(s.buffer)),
          events |-> s.events \o p.events, fails |-> p.fails]

(* Faulty variant: one frame for each chunk.                               *)
PushedOne(b) == TakeFrame([buffer |-> b, events |-> << >>, fails |-> FALSE])

(* push: all frames that are whole.  An error gives none of them.          *)
Pushed(b) ==
    LET taken[i \in 0..Len(b)] ==
          IF i = 0 THEN [buffer |-> b, events |-> << >>, fails |-> FALSE]
          ELSE TakeFrame(taken[i - 1])
    IN  taken[Len(b)]

-----------------------------------------------------------------------------
(* The stream: MessageStream::next_event *)

Chunk ==
    /\ state = "open"
    /\ \E n \in 1..(Len(Wire(Len(stream))) - at) :
         LET p == Pushed(buffer \o SubSeq(Wire(Len(stream)), at + 1, at + n)) IN
         /\ at' = at + n /\ buffer' = p.buffer
         /\ IF p.fails THEN state' = "failed" /\ UNCHANGED given
            ELSE given' = given \o p.events /\ UNCHANGED state
    /\ UNCHANGED <<dialect, eol, stream>>

(* Faulty variant: what is left in the buffer is dropped by both.          *)
CloseDrops ==
    /\ state = "open"
    /\ state' = "closed" /\ buffer' = << >>
    /\ UNCHANGED <<dialect, eol, stream, at, given>>

(* The server ends the answer, wherever it is.  What the buffer holds is   *)
(* one more frame, of Anthropic's; of an OpenAI stream it is dropped.      *)
Close ==
    /\ state = "open"
    /\ IF dialect = "anthropic"
       THEN LET p == Parsed(buffer) IN
            /\ buffer' = << >> /\ given' = given \o p.events
            /\ state' = IF p.fails THEN "failed" ELSE "closed"
       ELSE state' = "closed" /\ UNCHANGED <<buffer, given>>
    /\ UNCHANGED <<dialect, eol, stream, at>>

(* The connection breaks.                                                  *)
Break == state = "open" /\ state' = "failed"
         /\ UNCHANGED <<dialect, eol, stream, at, buffer, given>>

Init ==
    /\ dialect \in {"anthropic", "openai"} /\ eol \in {"lf", "crlf"}
    /\ stream \in UNION {[1..n -> Kinds] : n \in 1..MaxFrames}
    /\ at = 0 /\ buffer = << >> /\ given = << >> /\ state = "open"

Next == Chunk \/ Close \/ Break

Spec == Init /\ [][Next]_vars

-----------------------------------------------------------------------------
(* Properties *)

(* Frames that have come, to their last byte; the events of the first n.   *)
Complete == CHOOSE n \in 0..Len(stream) :
              /\ Len(Wire(n)) <= at
              /\ n < Len(stream) => Len(Wire(n + 1)) > at
EventsOf(n) ==
    LET upto[k \in 0..Len(stream)] ==
          IF k = 0 THEN << >>
          ELSE IF stream[k] \in {"event", "noted"} THEN Append(upto[k - 1], k)
          ELSE upto[k - 1]
    IN  upto[n]
Readable(n) == \A k \in 1..n : stream[k] # "bad"
AllOf(k) == Len(Wire(k - 1)) + Len(Body(k))

(* However the bytes are cut, the events are those of the frames that have *)
(* come, each once and in order, before the next byte is read.  A stream   *)
(* that ends inside a frame has its event if all of it was there and the   *)
(* dialect asks for no empty line; a half of one is an error, or, of the   *)
(* dialect that asks for it, left out.                                     *)
CutsDoNotMatter ==
    LET next == Complete + 1
        anthropic == dialect = "anthropic"
        half == /\ next <= Len(stream) /\ stream[next] \in {"event", "noted"}
                /\ at = AllOf(next) - 1
        trailing == anthropic /\ next <= Len(stream) /\ at >= AllOf(next)
    IN  /\ state = "open" => Readable(Complete) /\ given = EventsOf(Complete)
        /\ state = "closed" => LET n == IF trailing THEN next ELSE Complete
                               IN /\ Readable(n) /\ given = EventsOf(n)
                                  /\ ~(anthropic /\ half)
        /\ state = "failed" => IsPrefix(given, EventsOf(Complete))
=============================================================================
