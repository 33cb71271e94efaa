---------------------------- MODULE PromptCache ----------------------------
(***************************************************************************)
(* The prompt cache of a session (api/prompt_cache.rs) under the Anthropic *)
(* client: answers that may be given again for a short while, and the      *)
(* watch over the provider's own cache.  The files belong to the session;  *)
(* every agent that works on it (the one of a tab, those it has replaced,  *)
(* another process) has a cache of its own over the same files.  A file is *)
(* written by emptying it and writing it again, and nobody looks whether   *)
(* that went well.  The clock is read once for an answer.  The statistics, *)
(* which decide nothing, and the version of the fingerprints, of which     *)
(* there has been one, are left out.                                       *)
(***************************************************************************)
EXTENDS Integers

CONSTANTS Caches,
          Asks,            \* the requests, each known by its fingerprints: model,
                           \* system prompt, tools and messages
          CompletionTtl, PromptTtl,
          CacheReads, MinDrop, \* tokens the provider reads from its cache; the drop that counts
          NoEntry, Garbled,
          MaxNow           \* bound of the model: the clock

VARIABLES cache,    \* cache -> [pc, ask, answer, previous]
          entry,    \* request -> the file with its answer
          state,    \* the file with the state that was seen last
          now,
          contact,  \* history: when the provider last answered, by request
          verdict   \* what the last step has decided, and how long the provider
                    \* had not been asked by then

vars == <<cache, entry, state, now, contact, verdict>>

(* Times are told apart from no answer; an answer may be given again for   *)
(* a while.                                                                *)
Distinct ==
    /\ MaxNow \in Nat /\ NoEntry \notin 0..MaxNow
    /\ CompletionTtl \in Nat \ {0} /\ PromptTtl \in Nat

NoVerdict == [on |-> "none", silent |-> 0]

Whole(content) == content \notin {NoEntry, Garbled}

(* PromptCache::with_config reads what is there and can be read.           *)
Opened == [pc |-> "idle", ask |-> NoEntry, answer |-> NoEntry,
           previous |-> IF Whole(state) THEN state ELSE NoEntry]

Init ==
    /\ cache = [c \in Caches |-> [pc |-> "idle", ask |-> NoEntry, answer |-> NoEntry,
                                  previous |-> NoEntry]]
    /\ entry = [r \in Asks |-> NoEntry]
    /\ state = NoEntry
    /\ now = 0
    /\ contact = [r \in Asks |-> NoEntry]
    /\ verdict = NoVerdict

(* TrackedPromptState::from_usage                                          *)
Seen(r, tokens) == [at |-> now, print |-> r, tokens |-> tokens]

-----------------------------------------------------------------------------
(* lookup_completion, before a request that does not stream *)

(* The file is read before the lock is taken.                              *)
LookUp(c, r) ==
    /\ cache[c].pc = "idle"
    /\ cache' = [cache EXCEPT ![c].pc = "read", ![c].ask = r, ![c].answer = entry[r]]
    /\ UNCHANGED <<entry, state, now, contact>> /\ verdict' = NoVerdict

Expired(answer) == Whole(answer) /\ now - answer.at >= CompletionTtl

(* Nothing there, or nothing that can be read; or too old, and then the    *)
(* file goes, whatever it holds by now.                                    *)
Miss(c) ==
    LET found == cache[c].answer IN
    /\ cache[c].pc = "read"
    /\ ~Whole(found) \/ Expired(found)
    /\ entry' = IF Whole(found) THEN [entry EXCEPT ![cache[c].ask] = NoEntry] ELSE entry
    /\ cache' = [cache EXCEPT ![c].answer = NoEntry, ![c].pc =
                    IF cache[c].previous = NoEntry THEN "asked" ELSE "miss"]
    /\ UNCHANGED <<state, now, contact>> /\ verdict' = NoVerdict

(* Faulty variant: an answer that is given again counts as a new one.      *)
HitRenews(c) ==
    LET found == cache[c].answer
        r == cache[c].ask
    IN  /\ cache[c].pc = "read"
        /\ Whole(found) /\ ~Expired(found)
        /\ entry' = [entry EXCEPT ![r] = [found EXCEPT !.at = now]]
        /\ verdict' = [on |-> "hit", silent |-> now - contact[r]]
        /\ cache' = [cache EXCEPT ![c].pc = "save", ![c].answer = NoEntry,
                                  ![c].previous = Seen(r, found.tokens)]
        /\ UNCHANGED <<state, now, contact>>

(* The answer is given again, and counts as seen now.                      *)
Hit(c) ==
    LET found == cache[c].answer
        r == cache[c].ask
    IN  /\ cache[c].pc = "read"
        /\ Whole(found) /\ ~Expired(found)
        /\ verdict' = [on |-> "hit", silent |-> now - contact[r]]
        /\ cache' = [cache EXCEPT ![c].pc = "save", ![c].answer = NoEntry,
                                  ![c].previous = Seen(r, found.tokens)]
        /\ UNCHANGED <<entry, state, now, contact>>

-----------------------------------------------------------------------------
(* record_usage_internal *)

(* A request that streams is not looked up.                                *)
Stream(c, r) ==
    /\ cache[c].pc = "idle"
    /\ cache' = [cache EXCEPT ![c].pc = "streamed", ![c].ask = r]
    /\ UNCHANGED <<entry, state, now, contact>> /\ verdict' = NoVerdict

Drop(before, after) == IF before > after THEN before - after ELSE 0

(* Faulty variant: the time that has passed is not looked at.              *)
UnexpectedAlways(before, after) ==
    /\ before # NoEntry
    /\ Drop(before.tokens, after.tokens) >= MinDrop
    /\ before.print = after.print

(* detect_cache_break: the provider has forgotten what it should know.     *)
Unexpected(before, after) ==
    /\ before # NoEntry
    /\ Drop(before.tokens, after.tokens) >= MinDrop
    /\ before.print = after.print
    /\ after.at - before.at <= PromptTtl

Answered(c, tokens) ==
    LET r == cache[c].ask
        current == Seen(r, tokens)
    IN  /\ cache[c].pc \in {"asked", "streamed"}
        /\ verdict' = IF Unexpected(cache[c].previous, current)
                      THEN [on |-> "drop", silent |-> now - contact[r]] ELSE NoVerdict
        /\ contact' = [contact EXCEPT ![r] = now]
        /\ cache' = [cache EXCEPT ![c].previous = current,
                                  ![c].pc = IF @ = "asked" THEN "write" ELSE "save"]
        /\ UNCHANGED <<entry, state, now>>

(* write_completion_entry and persist_state, each in two steps; the second *)
(* may fail.                                                               *)
WriteEntry(c) ==
    LET r == cache[c].ask
        seen == [at |-> cache[c].previous.at, tokens |-> cache[c].previous.tokens]
    IN  /\ cache[c].pc \in {"write", "written"}
        /\ \E content \in {Garbled} \cup (IF cache[c].pc = "written" THEN {seen} ELSE {}) :
              entry' = [entry EXCEPT ![r] = content]
        /\ cache' = [cache EXCEPT ![c].pc = IF @ = "write" THEN "written" ELSE "save"]
        /\ UNCHANGED <<state, now, contact>> /\ verdict' = NoVerdict

(* After a miss the request is sent; after an answer the call is over.     *)
SaveState(c) ==
    LET last == cache[c].pc \in {"saved", "missed"} IN
    /\ cache[c].pc \in {"save", "saved", "miss", "missed"}
    /\ \E content \in {Garbled} \cup (IF last THEN {cache[c].previous} ELSE {}) :
          state' = content
    /\ cache' = [cache EXCEPT ![c] =
                   CASE @.pc = "save" -> [@ EXCEPT !.pc = "saved"]
                     [] @.pc = "miss" -> [@ EXCEPT !.pc = "missed"]
                     [] @.pc = "missed" -> [@ EXCEPT !.pc = "asked"]
                     [] @.pc = "saved" -> [@ EXCEPT !.pc = "idle", !.ask = NoEntry]]
    /\ UNCHANGED <<entry, now, contact>> /\ verdict' = NoVerdict

-----------------------------------------------------------------------------
(* An agent fails or is replaced, and another one begins.                  *)
Restart(c) ==
    /\ cache' = [cache EXCEPT ![c] = Opened]
    /\ UNCHANGED <<entry, state, now, contact>> /\ verdict' = NoVerdict

Tick ==
    /\ now < MaxNow
    /\ now' = now + 1
    /\ UNCHANGED <<cache, entry, state, contact>> /\ verdict' = NoVerdict

Next == \/ \E c \in Caches :
             \/ \E r \in Asks : LookUp(c, r) \/ Stream(c, r)
             \/ Miss(c) \/ Hit(c)
             \/ \E tokens \in CacheReads : Answered(c, tokens)
             \/ WriteEntry(c) \/ SaveState(c)
             \/ Restart(c)
        \/ Tick

Spec == Init /\ [][Next]_vars

-----------------------------------------------------------------------------
(* Properties *)

(* What is given again, the provider has answered within the time an       *)
(* answer may be given again.                                              *)
AnswersAreRecent == verdict.on = "hit" => verdict.silent < CompletionTtl

(* A drop is called unexpected only when the provider was asked the same   *)
(* so lately that it should remember: not longer ago than its cache lasts, *)
(* and the time an answer may have been given again instead.               *)
BreaksAreBreaks == verdict.on = "drop" => verdict.silent < PromptTtl + CompletionTtl
=============================================================================
