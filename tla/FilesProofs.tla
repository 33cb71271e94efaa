----------------------------- MODULE FilesProofs -----------------------------
(***************************************************************************)
(* Proofs about the parts that keep their state in files, for any number   *)
(* of sessions, plugins, processes, caches and callers and without the     *)
(* bounds of the runs.  The parts share no variable: the composition       *)
(* implements each of them, so what holds of a part holds of it.           *)
(***************************************************************************)
EXTENDS MCFiles, SequenceTheorems, FiniteSetTheorems, WellFoundedInduction, TLAPS

-----------------------------------------------------------------------------
(* The composition *)

LEMMA PartsInit == FilesInit => Init /\ R!Init /\ M!Init /\ C!Init /\ F!Init /\ S!Init /\ K!Init
BY DEF FilesInit

LEMMA PartsNext ==
  ASSUME [FilesNext]_<<part, all>>
  PROVE  /\ [Next]_vars /\ [R!Next]_(R!vars) /\ [M!Next]_(M!vars) /\ [C!Next]_(C!vars)
         /\ [F!Next]_(F!vars) /\ [S!Next]_<<text, budget>> /\ [K!Next]_(K!vars)
         /\ UNCHANGED part
<1>1. CASE UNCHANGED <<part, all>>
  BY <1>1 DEF all, repl, plugins, login, edits, summary, prompts, vars, disk, session, counters,
              R!vars, R!world, M!vars, M!files, C!vars, F!vars, K!vars
<1>2. CASE FilesNext
  BY <1>2 DEF FilesNext, repl, plugins, login, edits, summary, prompts, vars, disk, session, counters,
              R!vars, R!world, M!vars, M!files, C!vars, F!vars, K!vars
<1> QED BY <1>1, <1>2

(* A behaviour of the composition is a behaviour of every part.            *)
THEOREM Composition ==
  FilesSpec => Spec /\ R!Spec /\ M!Spec /\ C!Spec /\ F!Spec /\ S!Spec /\ K!Spec
BY PartsInit, PartsNext, PTL DEF FilesSpec, Spec, R!Spec, M!Spec, C!Spec, F!Spec, S!Spec, K!Spec

-----------------------------------------------------------------------------
(* The prompt cache *)

Times == 0..MaxNow
CachePcs == {"idle", "read", "miss", "missed", "asked", "streamed", "write", "written", "save", "saved"}
Entries == [at : Times, tokens : CacheReads]
Prints == [at : Times, print : Asks, tokens : CacheReads]
CacheRec == [pc : CachePcs, ask : Asks \cup {NoEntry}, answer : Entries \cup {NoEntry, Garbled},
             previous : Prints \cup {NoEntry}]
Contacts == [Asks -> Times \cup {NoEntry}]

(* A state that was seen: the provider had answered the request so lately  *)
(* that the answer could have been given again.                            *)
Lately(s, con) == con[s.print] # NoEntry /\ s.at < con[s.print] + CompletionTtl

(* What stands in a file as the answer to a request is not newer than the  *)
(* last answer.                                                            *)
Given(e, r, con) == con[r] # NoEntry /\ e.at <= con[r]

(* One cache: what it has read, is about to write, and compares with.      *)
CacheFits(k, con) ==
    /\ k.pc # "idle" => k.ask \in Asks
    /\ k.previous # NoEntry => Lately(k.previous, con)
    /\ k.pc \in {"miss", "missed", "write", "written", "save", "saved"} =>
          k.previous \in Prints /\ Lately(k.previous, con)
    /\ k.pc \in {"write", "written"} => Given(k.previous, k.ask, con)
    /\ k.pc = "read" /\ K!Whole(k.answer) => k.answer \in Entries /\ Given(k.answer, k.ask, con)

PromptsInv ==
    /\ time \in Times /\ contact \in Contacts
    /\ \A r \in Asks : contact[r] # NoEntry => contact[r] <= time
    /\ cache \in [Caches -> CacheRec] /\ entry \in [Asks -> Entries \cup {NoEntry, Garbled}]
    /\ state \in Prints \cup {NoEntry, Garbled}
    /\ K!Whole(state) => Lately(state, contact)
    /\ \A r \in Asks : K!Whole(entry[r]) => Given(entry[r], r, contact)
    /\ \A c \in Caches : CacheFits(cache[c], contact)
    /\ K!AnswersAreRecent /\ K!BreaksAreBreaks

(* The provider answers: what was lately seen before is so still.          *)
LEMMA ContactGrows ==
  ASSUME PromptsInv, NEW q \in Asks, NEW con, con = [contact EXCEPT ![q] = time]
  PROVE  /\ con \in Contacts /\ \A r \in Asks : con[r] # NoEntry => con[r] <= time
         /\ \A s \in Prints : Lately(s, contact) => Lately(s, con)
         /\ \A e \in Entries, r \in Asks : Given(e, r, contact) => Given(e, r, con)
         /\ \A k \in CacheRec : CacheFits(k, contact) => CacheFits(k, con)
<1>1. time \in Times /\ contact \in Contacts /\ NoEntry \notin Times /\ CompletionTtl \in Nat
      /\ Times \subseteq Int
  BY TtlAssumption DEF PromptsInv, K!Distinct, Times
<1>2. \A r \in Asks : contact[r] # NoEntry => contact[r] \in Times /\ contact[r] <= time
  BY <1>1 DEF PromptsInv, Contacts
<1>3. con \in Contacts /\ con[q] = time /\ \A r \in Asks : r # q => con[r] = contact[r]
  BY <1>1 DEF Contacts
<1>4. \A r \in Asks : con[r] # NoEntry => con[r] <= time
  BY <1>1, <1>2, <1>3
<1>5. \A r \in Asks : contact[r] # NoEntry =>
        con[r] # NoEntry /\ con[r] \in Int /\ contact[r] \in Int /\ contact[r] <= con[r]
  <2> SUFFICES ASSUME NEW r \in Asks, contact[r] # NoEntry
               PROVE  con[r] # NoEntry /\ con[r] \in Int /\ contact[r] \in Int /\ contact[r] <= con[r]
    OBVIOUS
  <2>1. contact[r] \in Int /\ contact[r] <= time /\ time \in Int /\ time # NoEntry
    BY <1>1, <1>2
  <2>2. con[r] = time \/ con[r] = contact[r]
    BY <1>3
  <2> QED BY <2>1, <2>2
<1>6. \A s \in Prints : Lately(s, contact) => Lately(s, con)
  <2> SUFFICES ASSUME NEW s \in Prints, Lately(s, contact) PROVE Lately(s, con)
    OBVIOUS
  <2>1. s.print \in Asks /\ s.at \in Int
    BY <1>1 DEF Prints
  <2> QED BY <1>1, <1>5, <2>1 DEF Lately
<1>7. \A e, r : e.at \in Times /\ r \in Asks /\ Given(e, r, contact) => Given(e, r, con)
  <2> SUFFICES ASSUME NEW e, NEW r \in Asks, e.at \in Times, Given(e, r, contact)
               PROVE  Given(e, r, con)
    OBVIOUS
  <2>1. e.at \in Int /\ contact[r] # NoEntry /\ e.at <= contact[r]
    BY <1>1 DEF Given
  <2> QED BY <1>5, <2>1 DEF Given
<1>8. \A k \in CacheRec : CacheFits(k, contact) => CacheFits(k, con)
  <2> SUFFICES ASSUME NEW k \in CacheRec, CacheFits(k, contact) PROVE CacheFits(k, con)
    OBVIOUS
  <2>1. k.previous # NoEntry => k.previous \in Prints /\ k.previous.at \in Times
    BY DEF CacheRec, Prints
  <2>2. k.previous \in Prints => k.previous.at \in Times
    BY DEF Prints
  <2>3. k.answer \in Entries => k.answer.at \in Times
    BY DEF Entries
  <2>4. \A e \in Prints : e.at \in Times
    BY DEF Prints
  <2>5. k.pc \in {"write", "written"} => Given(k.previous, k.ask, con)
    BY <1>7, <2>2 DEF CacheFits
  <2>6. k.pc = "read" /\ K!Whole(k.answer) => k.answer \in Entries /\ Given(k.answer, k.ask, con)
    BY <1>7, <2>3 DEF CacheFits
  <2> QED BY <1>6, <2>1, <2>5, <2>6 DEF CacheFits
<1>9. \A e \in Entries, r \in Asks : Given(e, r, contact) => Given(e, r, con)
  BY <1>7 DEF Entries
<1> QED BY <1>3, <1>4, <1>6, <1>8, <1>9

(* A step of one cache that is no answer of the provider.                  *)
LEMMA CacheStep ==
  ASSUME PromptsInv, NEW c \in Caches, NEW k \in CacheRec, cache' = [cache EXCEPT ![c] = k],
         UNCHANGED <<time, contact>>, CacheFits(k, contact),
         entry' \in [Asks -> Entries \cup {NoEntry, Garbled}],
         \A r \in Asks : K!Whole(entry'[r]) => Given(entry'[r], r, contact),
         state' \in Prints \cup {NoEntry, Garbled}, K!Whole(state') => Lately(state', contact),
         K!AnswersAreRecent', K!BreaksAreBreaks'
  PROVE  PromptsInv'
<1>1. cache' \in [Caches -> CacheRec]
  BY DEF PromptsInv
<1>2. \A d \in Caches : CacheFits(cache'[d], contact')
  BY DEF PromptsInv
<1>3. /\ time' \in Times /\ contact' \in Contacts
      /\ \A r \in Asks : contact'[r] # NoEntry => contact'[r] <= time'
  BY DEF PromptsInv
<1>4. /\ K!Whole(state') => Lately(state', contact')
      /\ \A r \in Asks : K!Whole(entry'[r]) => Given(entry'[r], r, contact')
  OBVIOUS
<1> QED BY <1>1, <1>2, <1>3, <1>4 DEF PromptsInv, K!Whole

LEMMA SilentStep == verdict' = K!NoVerdict => K!AnswersAreRecent' /\ K!BreaksAreBreaks'
BY DEF K!NoVerdict, K!AnswersAreRecent, K!BreaksAreBreaks

LEMMA CacheTypes ==
  ASSUME PromptsInv, NEW c \in Caches
  PROVE  /\ cache[c] \in CacheRec /\ CacheFits(cache[c], contact) /\ time \in Times
         /\ entry \in [Asks -> Entries \cup {NoEntry, Garbled}]
         /\ state \in Prints \cup {NoEntry, Garbled} /\ (K!Whole(state) => Lately(state, contact))
         /\ \A r \in Asks : K!Whole(entry[r]) => entry[r] \in Entries /\ Given(entry[r], r, contact)
BY DEF PromptsInv, K!Whole

LEMMA PromptsInit == K!Init => PromptsInv
<1> SUFFICES ASSUME K!Init PROVE PromptsInv
  OBVIOUS
<1>1. time \in Times /\ time = 0
  BY TtlAssumption DEF K!Init, K!Distinct, Times
<1>2. contact \in Contacts /\ \A r \in Asks : contact[r] = NoEntry
  BY DEF K!Init, Contacts
<1>3. cache \in [Caches -> CacheRec]
  BY DEF K!Init, CacheRec, CachePcs
<1>4. \A c \in Caches : cache[c].pc = "idle" /\ cache[c].previous = NoEntry
  BY DEF K!Init
<1>5. \A c \in Caches : CacheFits(cache[c], contact)
  BY <1>4 DEF CacheFits
<1>6. entry \in [Asks -> Entries \cup {NoEntry, Garbled}] /\ \A r \in Asks : ~K!Whole(entry[r])
  BY DEF K!Init, K!Whole
<1>7. state = NoEntry /\ ~K!Whole(state)
  BY DEF K!Init, K!Whole
<1>8. K!AnswersAreRecent /\ K!BreaksAreBreaks
  BY DEF K!Init, K!NoVerdict, K!AnswersAreRecent, K!BreaksAreBreaks
<1> QED BY <1>1, <1>2, <1>3, <1>5, <1>6, <1>7, <1>8 DEF PromptsInv

LEMMA LookUpInv ==
  ASSUME PromptsInv, NEW c \in Caches, NEW r \in Asks, K!LookUp(c, r) \/ K!Stream(c, r)
  PROVE  PromptsInv'
<1> USE CacheTypes, SilentStep
<1>1. CASE K!LookUp(c, r)
  <2> DEFINE k == [cache[c] EXCEPT !.pc = "read", !.ask = r, !.answer = entry[r]]
  <2>1. k \in CacheRec /\ cache' = [cache EXCEPT ![c] = k]
    BY <1>1 DEF K!LookUp, CacheRec, CachePcs
  <2>2. CacheFits(k, contact)
    BY DEF CacheFits, CacheRec, CachePcs
  <2> HIDE DEF k
  <2> QED BY <1>1, <2>1, <2>2, CacheStep DEF K!LookUp
<1>2. CASE K!Stream(c, r)
  <2> DEFINE k == [cache[c] EXCEPT !.pc = "streamed", !.ask = r]
  <2>1. k \in CacheRec /\ cache' = [cache EXCEPT ![c] = k]
    BY <1>2 DEF K!Stream, CacheRec, CachePcs
  <2>2. CacheFits(k, contact)
    BY DEF CacheFits, CacheRec, CachePcs
  <2> HIDE DEF k
  <2> QED BY <1>2, <2>1, <2>2, CacheStep DEF K!Stream
<1> QED BY <1>1, <1>2

LEMMA MissInv ==
  ASSUME PromptsInv, NEW c \in Caches, K!Miss(c)
  PROVE  PromptsInv'
<1> DEFINE k == [cache[c] EXCEPT !.answer = NoEntry, !.pc =
                    IF cache[c].previous = NoEntry THEN "asked" ELSE "miss"]
<1>1. cache[c] \in CacheRec /\ CacheFits(cache[c], contact)
  BY CacheTypes
<1>2. k \in CacheRec /\ cache' = [cache EXCEPT ![c] = k]
  BY <1>1 DEF K!Miss, CacheRec, CachePcs
<1>3. CacheFits(k, contact)
  BY <1>1 DEF K!Miss, CacheFits, CacheRec, CachePcs
<1> HIDE DEF k
<1>4. cache[c].ask \in Asks
  BY <1>1 DEF K!Miss, CacheFits
<1>5. entry' \in [Asks -> Entries \cup {NoEntry, Garbled}]
  BY <1>4, CacheTypes DEF K!Miss
<1>6. \A r \in Asks : K!Whole(entry'[r]) => Given(entry'[r], r, contact)
  BY <1>4, CacheTypes DEF K!Miss, K!Whole
<1> QED BY <1>2, <1>3, <1>5, <1>6, CacheTypes, CacheStep, SilentStep DEF K!Miss

(* An answer is given again, less than the time after it was given.        *)
LEMMA HitInv ==
  ASSUME PromptsInv, NEW c \in Caches, K!Hit(c)
  PROVE  PromptsInv'
<1> DEFINE r == cache[c].ask
           e == cache[c].answer
           s == K!Seen(r, e.tokens)
           k == [cache[c] EXCEPT !.pc = "save", !.answer = NoEntry, !.previous = s]
<1>1. /\ cache[c] \in CacheRec /\ r \in Asks /\ e \in Entries /\ Given(e, r, contact)
      /\ time \in Times /\ contact \in Contacts
  BY CacheTypes DEF K!Hit, CacheFits, PromptsInv
<1>2. cache' = [cache EXCEPT ![c] = k]
  BY DEF K!Hit
<1>3. time - contact[r] < CompletionTtl /\ time < contact[r] + CompletionTtl /\ contact[r] # NoEntry
  <2>1. contact[r] \in Times /\ e.at \in Times /\ e.at <= contact[r] /\ contact[r] # NoEntry
    BY <1>1 DEF Given, Contacts, Entries
  <2>2. ~(time - e.at >= CompletionTtl)
    BY DEF K!Hit, K!Expired
  <2> QED BY <1>1, <2>1, <2>2, TtlAssumption DEF K!Distinct, Times
<1>4. s \in Prints /\ Lately(s, contact)
  BY <1>1, <1>3 DEF K!Seen, Prints, Entries, Lately
<1>5. verdict' = [on |-> "hit", silent |-> time - contact[r]]
  BY DEF K!Hit
<1>6. K!AnswersAreRecent' /\ K!BreaksAreBreaks'
  BY <1>3, <1>5 DEF K!AnswersAreRecent, K!BreaksAreBreaks
<1> HIDE DEF s, e
<1>7. k \in CacheRec /\ CacheFits(k, contact)
  BY <1>1, <1>4 DEF CacheRec, CachePcs, CacheFits
<1> HIDE DEF k
<1> QED BY <1>2, <1>6, <1>7, CacheTypes, CacheStep DEF K!Hit

(* An answer of the provider; a drop is compared with what was seen for    *)
(* the same request.                                                       *)
LEMMA AnsweredInv ==
  ASSUME PromptsInv, NEW c \in Caches, NEW tokens \in CacheReads, K!Answered(c, tokens)
  PROVE  PromptsInv'
<1> DEFINE r == cache[c].ask
           s == K!Seen(r, tokens)
           con == [contact EXCEPT ![r] = time]
           k == [cache[c] EXCEPT !.previous = s, !.pc = IF @ = "asked" THEN "write" ELSE "save"]
<1>1. cache[c] \in CacheRec /\ CacheFits(cache[c], contact) /\ r \in Asks /\ time \in Times
  BY CacheTypes DEF K!Answered, CacheFits
<1>2. /\ cache' = [cache EXCEPT ![c] = k] /\ contact' = con
      /\ UNCHANGED <<entry, state, time>>
  BY DEF K!Answered
<1>3. s \in Prints /\ s.at = time /\ s.print = r
  BY <1>1 DEF K!Seen, Prints
<1> HIDE DEF s
<1>4. con[r] = time /\ time # NoEntry /\ time < time + CompletionTtl
  BY <1>1, TtlAssumption DEF PromptsInv, Contacts, K!Distinct, Times
<1>5. Lately(s, con) /\ Given(s, r, con)
  BY <1>1, <1>3, <1>4 DEF Lately, Given, Times
<1>6. k \in CacheRec /\ CacheFits(k, con)
  BY <1>1, <1>3, <1>5 DEF CacheRec, CachePcs, CacheFits
<1> HIDE DEF k
<1>7. cache' \in [Caches -> CacheRec]
  BY <1>2, <1>6 DEF PromptsInv
<1>9. /\ con \in Contacts /\ \A q \in Asks : con[q] # NoEntry => con[q] <= time
      /\ \A t \in Prints : Lately(t, contact) => Lately(t, con)
      /\ \A e \in Entries, q \in Asks : Given(e, q, contact) => Given(e, q, con)
      /\ \A h \in CacheRec : CacheFits(h, contact) => CacheFits(h, con)
  BY <1>1, ContactGrows
<1> HIDE DEF con
<1>10. \A d \in Caches : CacheFits(cache'[d], contact')
  BY <1>2, <1>6, <1>9 DEF PromptsInv
<1>11. K!Whole(state') => Lately(state', contact')
  BY <1>2, <1>9 DEF PromptsInv, K!Whole
<1>12. \A q \in Asks : K!Whole(entry'[q]) => Given(entry'[q], q, contact')
  BY <1>2, <1>9 DEF PromptsInv, K!Whole
<1>13. K!AnswersAreRecent'
  BY DEF K!Answered, K!AnswersAreRecent, K!NoVerdict
<1>14. K!BreaksAreBreaks'
  <2>1. CASE K!Unexpected(cache[c].previous, s)
    <3>1. /\ cache[c].previous \in Prints /\ Lately(cache[c].previous, contact)
          /\ cache[c].previous.print = r /\ time - cache[c].previous.at <= PromptTtl
      BY <1>1, <1>3, <2>1 DEF K!Unexpected, CacheFits, CacheRec
    <3>2. /\ cache[c].previous.at \in Times /\ contact[r] \in Times
          /\ cache[c].previous.at < contact[r] + CompletionTtl
      BY <1>1, <3>1 DEF Prints, Lately, PromptsInv, Contacts
    <3>3. time - contact[r] < PromptTtl + CompletionTtl
      BY <1>1, <3>1, <3>2, TtlAssumption DEF K!Distinct, Times
    <3>4. verdict' = [on |-> "drop", silent |-> time - contact[r]]
      BY <2>1 DEF K!Answered, s
    <3> QED BY <3>3, <3>4 DEF K!BreaksAreBreaks
  <2>2. CASE ~K!Unexpected(cache[c].previous, s)
    BY <2>2, SilentStep DEF K!Answered, s
  <2> QED BY <2>1, <2>2
<1> QED BY <1>2, <1>7, <1>9, <1>10, <1>11, <1>12, <1>13, <1>14 DEF PromptsInv
LEMMA WriteEntryInv ==
  ASSUME PromptsInv, NEW c \in Caches, K!WriteEntry(c)
  PROVE  PromptsInv'
<1> DEFINE r == cache[c].ask
           e == [at |-> cache[c].previous.at, tokens |-> cache[c].previous.tokens]
           k == [cache[c] EXCEPT !.pc = IF @ = "write" THEN "written" ELSE "save"]
<1>1. cache[c] \in CacheRec /\ CacheFits(cache[c], contact) /\ cache[c].pc \in {"write", "written"}
  BY CacheTypes DEF K!WriteEntry
<1>2. /\ r \in Asks /\ cache[c].previous \in Prints /\ Lately(cache[c].previous, contact)
      /\ Given(cache[c].previous, r, contact)
  BY <1>1 DEF CacheFits
<1>3. e \in Entries /\ Given(e, r, contact)
  BY <1>2 DEF Entries, Prints, Given
<1>4. k \in CacheRec /\ CacheFits(k, contact)
  BY <1>1, <1>2 DEF CacheRec, CachePcs, CacheFits
<1>5. cache' = [cache EXCEPT ![c] = k]
  BY DEF K!WriteEntry
<1> HIDE DEF k
<1>6. PICK content \in {Garbled, e} : entry' = [entry EXCEPT ![r] = content]
  BY DEF K!WriteEntry
<1>7. entry' \in [Asks -> Entries \cup {NoEntry, Garbled}]
  BY <1>3, <1>6, CacheTypes
<1>8. \A q \in Asks : K!Whole(entry'[q]) => Given(entry'[q], q, contact)
  BY <1>2, <1>3, <1>6, CacheTypes DEF K!Whole
<1> QED BY <1>4, <1>5, <1>7, <1>8, CacheTypes, CacheStep, SilentStep DEF K!WriteEntry

LEMMA SaveStateInv ==
  ASSUME PromptsInv, NEW c \in Caches, K!SaveState(c)
  PROVE  PromptsInv'
<1> DEFINE old == cache[c]
           k == CASE old.pc = "save" -> [old EXCEPT !.pc = "saved"]
                  [] old.pc = "miss" -> [old EXCEPT !.pc = "missed"]
                  [] old.pc = "missed" -> [old EXCEPT !.pc = "asked"]
                  [] old.pc = "saved" -> [old EXCEPT !.pc = "idle", !.ask = NoEntry]
<1>1. /\ old \in CacheRec /\ CacheFits(old, contact)
      /\ old.pc \in {"save", "saved", "miss", "missed"}
  BY CacheTypes DEF K!SaveState
<1>2. old.ask \in Asks /\ old.previous \in Prints /\ Lately(old.previous, contact)
  BY <1>1 DEF CacheFits
<1>3. cache' = [cache EXCEPT ![c] = k]
  BY DEF K!SaveState
<1> HIDE DEF old
<1>4. k \in CacheRec /\ CacheFits(k, contact)
  BY <1>1, <1>2 DEF CacheRec, CachePcs, CacheFits
<1> HIDE DEF k
<1>5. state' \in {Garbled, old.previous}
  BY DEF K!SaveState, old
<1>6. state' \in Prints \cup {NoEntry, Garbled} /\ (K!Whole(state') => Lately(state', contact))
  BY <1>2, <1>5 DEF K!Whole
<1> QED BY <1>3, <1>4, <1>6, CacheTypes, CacheStep, SilentStep DEF K!SaveState

LEMMA CacheRestartInv ==
  ASSUME PromptsInv, NEW c \in Caches, K!Restart(c)
  PROVE  PromptsInv'
<1> DEFINE k == K!Opened
<1>1. k \in CacheRec /\ CacheFits(k, contact)
  BY CacheTypes DEF K!Opened, K!Whole, CacheRec, CachePcs, CacheFits
<1>2. cache' = [cache EXCEPT ![c] = k]
  BY DEF K!Restart
<1> HIDE DEF k
<1> QED BY <1>1, <1>2, CacheTypes, CacheStep, SilentStep DEF K!Restart

LEMMA PromptsNext ==
  ASSUME PromptsInv, [K!Next]_(K!vars)
  PROVE  PromptsInv'
<1>1. CASE UNCHANGED K!vars
  BY <1>1 DEF K!vars, PromptsInv, K!Whole, K!AnswersAreRecent, K!BreaksAreBreaks
<1>2. CASE K!Tick
  <2>1. time' \in Times /\ \A r \in Asks : contact'[r] # NoEntry => contact'[r] <= time'
    <3>1. \A r \in Asks : contact[r] # NoEntry => contact[r] \in Times
      BY DEF PromptsInv, Contacts
    <3> QED BY <1>2, <3>1, TtlAssumption DEF K!Tick, K!Distinct, PromptsInv, Times
  <2> QED BY <1>2, <2>1, SilentStep DEF K!Tick, PromptsInv, K!Whole
<1>3. ASSUME NEW c \in Caches, NEW r \in Asks, K!LookUp(c, r) \/ K!Stream(c, r) PROVE PromptsInv'
  BY <1>3, LookUpInv
<1>4. ASSUME NEW c \in Caches,
             K!Miss(c) \/ K!Hit(c) \/ (\E tokens \in CacheReads : K!Answered(c, tokens))
             \/ K!WriteEntry(c) \/ K!SaveState(c) \/ K!Restart(c)
      PROVE  PromptsInv'
  BY <1>4, MissInv, HitInv, AnsweredInv, WriteEntryInv, SaveStateInv, CacheRestartInv
<1> QED BY <1>1, <1>2, <1>3, <1>4 DEF K!Next

(* What the cache answers is recent, and a break it reports is one.        *)
THEOREM PromptSafety == FilesSpec => []CachedPrompts
<1>1. PromptsInv => CachedPrompts
  BY DEF PromptsInv, CachedPrompts
<1>2. K!Init => PromptsInv
  BY PromptsInit
<1>3. PromptsInv /\ [K!Next]_(K!vars) => PromptsInv'
  BY PromptsNext
<1> QED BY <1>1, <1>2, <1>3, Composition, PTL DEF K!Spec


-----------------------------------------------------------------------------
(* The session store *)

LogRec == [name : Names, lines : Seq(1..MaxMessages), open : {FALSE}]
Rising(s) == \A i, j \in 1..Len(s) : i < j => s[i] < s[j]
UpTo(s, n) == \A i \in 1..Len(s) : s[i] <= n
Front1(s) == SubSeq(s, 1, Len(s) - 1)
SavePcs == {"rotate", "write", "cleanup"}

(* The directory at time t, after n pushes: whole lines, each number once  *)
(* and in order, no name twice and none of a time to come.                 *)
DirFits(fs, t, n) ==
    /\ fs \in Seq(LogRec)
    /\ \A i \in 1..Len(fs) : Rising(fs[i].lines) /\ UpTo(fs[i].lines, n) /\ fs[i].name <= t
    /\ \A i, j \in 1..Len(fs) : fs[i].name = fs[j].name => i = j

(* The file that a rotation of this millisecond would replace is older     *)
(* than the main file.                                                     *)
OrderFits(fs, t) ==
    \A i, j \in 1..Len(fs) : fs[i].name = t /\ fs[j].name = Main => i < j

(* The file a session appends to has what the memory has, but for the      *)
(* message that is being appended.                                         *)
LeadFits(fs, kept) ==
    path # NoPath => \A i \in 1..Len(fs) : fs[i].name = path => ToSet(kept) \subseteq ToSet(fs[i].lines)

OnDisk == IF pc = "append" THEN Front1(messages) ELSE messages

LogTypes ==
    /\ clock \in Rotated /\ pushed \in 0..MaxMessages /\ crashes \in 0..MaxCrashes
    /\ messages \in Seq(1..MaxMessages) /\ Rising(messages) /\ UpTo(messages, pushed)
    /\ path \in Names \cup {NoPath} /\ saved \subseteq 1..MaxMessages
    /\ path \in Rotated => path < clock \/ path = NoPath

LogPhase ==
    /\ pc \in {"idle", "down", "append"} \cup SavePcs
    /\ pc \in {"idle", "down"} => op = "none"
    /\ pc = "append" => op = "push" /\ Has(path)
    /\ pc \in SavePcs => op \in {"push", "save"}
    /\ op = "push" => path # NoPath /\ messages # << >>
    /\ op = "push" /\ pc \in {"rotate", "write"} => ~Has(path)
    /\ pc = "append" => \A i \in 1..Len(files) : \A j \in 1..Len(files[i].lines) :
                           files[i].lines[j] < messages[Len(messages)]
    /\ pc = "down" => path = NoPath

LogsInv ==
    /\ LogTypes /\ LogPhase /\ DirFits(files, clock, pushed)
    /\ pc # "down" => OrderFits(files, clock)
    /\ LeadFits(files, OnDisk)

(* The file of the last start: what was saved is in the last file that has *)
(* any lines, and, while the program runs, in its memory; what was just    *)
(* written is the last file.                                               *)
TopHasIt(fs, what) ==
    what # {} => \E i \in 1..Len(fs) : /\ what \subseteq ToSet(fs[i].lines)
                                       /\ \A j \in 1..Len(fs) : i < j => fs[j].lines = << >>
SavedInv ==
    /\ TopHasIt(files, saved)
    /\ pc # "down" => saved \subseteq ToSet(IF op = "push" THEN Front1(messages) ELSE messages)
    /\ pc = "cleanup" => /\ Len(files) > 0 /\ files[Len(files)].name = Target
                         /\ files[Len(files)].lines = messages

(* Part of a sequence, in its order: w[i] is s[m[i]].                      *)
Within(w, s, m) ==
    /\ m \in [1..Len(w) -> 1..Len(s)] /\ \A i \in 1..Len(w) : w[i] = s[m[i]]
    /\ \A i, j \in 1..Len(w) : i < j => m[i] < m[j]

(* All of a sequence but its element k, in its order.                      *)
AllBut(w, s, k) ==
    \E m : /\ Within(w, s, m) /\ \A i \in 1..Len(w) : m[i] # k
           /\ \A j \in 1..Len(s) : j # k => \E i \in 1..Len(w) : m[i] = j

LEMMA Removed ==
  ASSUME NEW T, NEW s \in Seq(T), NEW k \in 1..Len(s)
  PROVE  /\ RemoveAt(s, k) \in Seq(T) /\ Len(RemoveAt(s, k)) = Len(s) - 1
         /\ AllBut(RemoveAt(s, k), s, k)
<1> DEFINE a == SubSeq(s, 1, k - 1)
           b == SubSeq(s, k + 1, Len(s))
           w == a \o b
           m == [i \in 1..Len(w) |-> IF i < k THEN i ELSE i + 1]
<1>1. Len(s) \in Nat /\ k \in Int /\ \A i \in 1..Len(s) : s[i] \in T
  BY LenProperties, ElementOfSeq
<1>2. a \in Seq(T) /\ Len(a) = k - 1 /\ \A i \in 1..(k - 1) : a[i] = s[i]
  <2>1. \A i \in 1..(k - 1) : s[i] \in T
    BY <1>1
  <2>2. /\ a \in Seq(T) /\ Len(a) = IF 1 <= k - 1 THEN k - 1 - 1 + 1 ELSE 0
        /\ \A i \in 1..(k - 1 - 1 + 1) : a[i] = s[1 + i - 1]
    BY <1>1, <2>1, SubSeqProperties
  <2> QED BY <1>1, <2>2
<1>3. b \in Seq(T) /\ Len(b) = Len(s) - k /\ \A i \in 1..(Len(s) - k) : b[i] = s[k + i]
  <2>1. \A i \in (k + 1)..Len(s) : s[i] \in T
    BY <1>1
  <2>2. /\ b \in Seq(T) /\ Len(b) = IF k + 1 <= Len(s) THEN Len(s) - (k + 1) + 1 ELSE 0
        /\ \A i \in 1..(Len(s) - (k + 1) + 1) : b[i] = s[(k + 1) + i - 1]
    BY <1>1, <2>1, SubSeqProperties
  <2> QED BY <1>1, <2>2
<1> HIDE DEF a, b
<1>4. /\ w \in Seq(T) /\ Len(w) = Len(s) - 1
      /\ \A i \in 1..Len(w) : w[i] = IF i < k THEN s[i] ELSE s[i + 1]
  <2>1. /\ w \in Seq(T) /\ Len(w) = Len(a) + Len(b)
        /\ \A i \in 1..(Len(a) + Len(b)) : w[i] = IF i <= Len(a) THEN a[i] ELSE b[i - Len(a)]
    BY <1>2, <1>3, ConcatProperties
  <2> HIDE DEF w
  <2>2. Len(w) = Len(s) - 1
    BY <1>1, <1>2, <1>3, <2>1
  <2>3. ASSUME NEW i \in 1..Len(w) PROVE w[i] = IF i < k THEN s[i] ELSE s[i + 1]
    <3>1. CASE i < k
      BY <1>1, <1>2, <1>3, <2>1, <2>2, <3>1
    <3>2. CASE ~(i < k)
      <4>1. i - (k - 1) \in 1..(Len(s) - k) /\ k + (i - (k - 1)) = i + 1
        BY <1>1, <2>2, <3>2
      <4>2. w[i] = b[i - (k - 1)]
        BY <1>1, <1>2, <1>3, <2>1, <2>2, <3>2
      <4> QED BY <1>3, <3>2, <4>1, <4>2
    <3> QED BY <3>1, <3>2
  <2> QED BY <2>1, <2>2, <2>3
<1>5. RemoveAt(s, k) = w
  BY DEF RemoveAt, a, b
<1> HIDE DEF w
<1>6. Within(w, s, m)
  <2>1. m \in [1..Len(w) -> 1..Len(s)]
    BY <1>1, <1>4
  <2>2. \A i \in 1..Len(w) : w[i] = s[m[i]]
    BY <1>1, <1>4
  <2>3. \A i, j \in 1..Len(w) : i < j => m[i] < m[j]
    BY <1>1, <1>4
  <2> QED BY <2>1, <2>2, <2>3 DEF Within
<1>7. ASSUME NEW j \in 1..Len(s), j # k PROVE \E i \in 1..Len(w) : m[i] = j
  <2>1. CASE j < k
    <3>1. j \in 1..Len(w) /\ m[j] = j
      BY <1>1, <1>4, <2>1
    <3> QED BY <3>1
  <2>2. CASE ~(j < k)
    <3>1. j - 1 \in 1..Len(w) /\ m[j - 1] = j
      BY <1>1, <1>4, <1>7, <2>2
    <3> QED BY <3>1
  <2> QED BY <2>1, <2>2
<1>8. \A i \in 1..Len(w) : m[i] # k
  BY <1>1, <1>4
<1> HIDE DEF m
<1>9. AllBut(w, s, k)
  BY <1>6, <1>7, <1>8 DEF AllBut
<1> QED BY <1>4, <1>5, <1>9

LEMMA LogFacts ==
  ASSUME NEW fs \in Seq(LogRec)
  PROVE  /\ Len(fs) \in Nat /\ DOMAIN fs = 1..Len(fs)
         /\ \A i \in 1..Len(fs) : /\ fs[i] \in LogRec /\ fs[i].name \in Names /\ fs[i].name \in Int
                                  /\ fs[i].lines \in Seq(1..MaxMessages) /\ fs[i].open = FALSE
<1>1. Len(fs) \in Nat /\ DOMAIN fs = 1..Len(fs) /\ \A i \in 1..Len(fs) : fs[i] \in LogRec
  BY LenProperties, ElementOfSeq
<1>2. Names \subseteq Int
  BY BoundsAssumption DEF Names, Main, Rotated
<1> QED BY <1>1, <1>2 DEF LogRec

(* A part of the directory, in its order, fits as the whole does.          *)
LEMMA PartFits ==
  ASSUME NEW fs, NEW w \in Seq(LogRec), NEW m, Within(w, fs, m), NEW t, NEW n, DirFits(fs, t, n)
  PROVE  /\ DirFits(w, t, n) /\ (OrderFits(fs, t) => OrderFits(w, t))
         /\ \A kept : LeadFits(fs, kept) => LeadFits(w, kept)
<1>1. /\ \A i \in 1..Len(w) : m[i] \in 1..Len(fs) /\ w[i] = fs[m[i]] /\ m[i] \in Int
      /\ \A i, j \in 1..Len(w) : i < j => m[i] < m[j]
      /\ Len(w) \in Nat
  BY LogFacts DEF Within, DirFits
<1>2. \A i, j \in 1..Len(w) : m[i] = m[j] => i = j
  BY <1>1
<1>3. \A i, j \in 1..Len(w) : m[i] < m[j] => i < j
  BY <1>1
<1>4. DirFits(w, t, n)
  <2>1. \A i, j \in 1..Len(w) : w[i].name = w[j].name => i = j
    BY <1>1, <1>2 DEF DirFits
  <2>2. \A i \in 1..Len(w) : Rising(w[i].lines) /\ UpTo(w[i].lines, n) /\ w[i].name <= t
    BY <1>1 DEF DirFits
  <2> QED BY <2>1, <2>2 DEF DirFits
<1>5. OrderFits(fs, t) => OrderFits(w, t)
  BY <1>1, <1>3 DEF OrderFits
<1>6. \A kept : LeadFits(fs, kept) => LeadFits(w, kept)
  BY <1>1 DEF LeadFits
<1> QED BY <1>4, <1>5, <1>6

LEMMA HasPlace ==
  ASSUME files \in Seq(LogRec), NEW x
  PROVE  /\ Has(x) <=> \E i \in 1..Len(files) : files[i].name = x
         /\ Has(x) => Place(x) \in 1..Len(files) /\ files[Place(x)].name = x /\ Get(x) = files[Place(x)]
BY LogFacts DEF Has, Place, Get

LEMMA WithoutFits ==
  ASSUME NEW t, NEW n, DirFits(files, t, n), NEW x
  PROVE  LET w == Without(x) IN
         /\ w \in Seq(LogRec) /\ \A i \in 1..Len(w) : w[i].name # x
         /\ \E m : Within(w, files, m)
                   /\ \A j \in 1..Len(files) : files[j].name # x => \E i \in 1..Len(w) : m[i] = j
<1> DEFINE w == Without(x)
<1>1. files \in Seq(LogRec) /\ Len(files) \in Nat
  BY LogFacts DEF DirFits
<1>2. CASE ~Has(x)
  <2>1. w = files
    BY <1>2 DEF Without
  <2>2. \A i \in 1..Len(files) : files[i].name # x
    BY <1>1, <1>2, HasPlace
  <2> DEFINE m == [i \in 1..Len(files) |-> i]
  <2>3. Within(files, files, m) /\ \A j \in 1..Len(files) : m[j] = j
    BY <1>1 DEF Within
  <2>4. \A j \in 1..Len(files) : files[j].name # x => \E i \in 1..Len(files) : m[i] = j
    BY <2>3
  <2> HIDE DEF m, w
  <2> QED BY <1>1, <2>1, <2>2, <2>3, <2>4 DEF w
<1>3. CASE Has(x)
  <2> DEFINE k == Place(x)
  <2>1. k \in 1..Len(files) /\ files[k].name = x
    BY <1>1, <1>3, HasPlace
  <2>2. w = RemoveAt(files, k)
    BY <1>3 DEF Without
  <2>3. \A i \in 1..Len(files) : files[i].name = x => i = k
    BY <2>1 DEF DirFits
  <2> HIDE DEF k, w
  <2> DEFINE r == RemoveAt(files, k)
  <2>4. w \in Seq(LogRec) /\ AllBut(w, files, k)
    <3>1. w = r
      BY <2>2
    <3>2. r \in Seq(LogRec) /\ AllBut(r, files, k)
      BY <1>1, <2>1, Removed
    <3> HIDE DEF r
    <3> QED BY <3>1, <3>2
  <2>5. PICK m : /\ Within(w, files, m) /\ \A i \in 1..Len(w) : m[i] # k
                 /\ \A j \in 1..Len(files) : j # k => \E i \in 1..Len(w) : m[i] = j
    BY <2>4 DEF AllBut
  <2>6. \A i \in 1..Len(w) : w[i].name # x
    BY <2>3, <2>5 DEF Within
  <2>7. \A j \in 1..Len(files) : files[j].name # x => \E i \in 1..Len(w) : m[i] = j
    BY <2>1, <2>5
  <2> QED BY <2>4, <2>5, <2>6, <2>7 DEF w
<1> QED BY <1>2, <1>3

(* A file that is written becomes the last one.                            *)
LEMMA WrittenFits ==
  ASSUME NEW t \in Int, NEW n, DirFits(files, t, n), NEW f \in LogRec,
         Rising(f.lines), UpTo(f.lines, n), f.name <= t
  PROVE  LET w == Written(f) IN
         /\ DirFits(w, t, n) /\ Len(w) \in Nat \ {0} /\ w[Len(w)] = f
         /\ \A i \in 1..(Len(w) - 1) : w[i].name # f.name /\ \E j \in 1..Len(files) : w[i] = files[j]
         /\ OrderFits(files, t) /\ f.name # t => OrderFits(w, t)
         /\ \A kept : LeadFits(files, kept) /\ (f.name = path => ToSet(kept) \subseteq ToSet(f.lines))
                      => LeadFits(w, kept)
<1> DEFINE v == Without(f.name)
           w == Append(v, f)
<1>1. v \in Seq(LogRec) /\ \A i \in 1..Len(v) : v[i].name # f.name
  BY WithoutFits
<1>2. PICK m : Within(v, files, m)
  BY WithoutFits
<1> HIDE DEF v
<1>3. /\ DirFits(v, t, n) /\ (OrderFits(files, t) => OrderFits(v, t))
      /\ \A kept : LeadFits(files, kept) => LeadFits(v, kept)
  BY <1>1, <1>2, PartFits
<1>4. /\ w \in Seq(LogRec) /\ Len(w) = Len(v) + 1 /\ Len(v) \in Nat /\ w[Len(v) + 1] = f
      /\ \A i \in 1..Len(v) : w[i] = v[i]
  BY <1>1, AppendProperties, LogFacts
<1> HIDE DEF w
<1>5. \A i \in 1..Len(w) : (i \in 1..Len(v) /\ w[i] = v[i]) \/ (i = Len(w) /\ w[i] = f)
  BY <1>4
<1>6. DirFits(w, t, n)
  <2>1. \A i \in 1..Len(w) : Rising(w[i].lines) /\ UpTo(w[i].lines, n) /\ w[i].name <= t
    BY <1>3, <1>5 DEF DirFits
  <2>2. \A i, j \in 1..Len(w) : w[i].name = w[j].name => i = j
    BY <1>1, <1>3, <1>5 DEF DirFits
  <2> QED BY <1>4, <2>1, <2>2 DEF DirFits
<1>7. \A i \in 1..(Len(w) - 1) : w[i].name # f.name /\ \E j \in 1..Len(files) : w[i] = files[j]
  <2> TAKE i \in 1..(Len(w) - 1)
  <2>1. i \in 1..Len(v) /\ w[i] = v[i]
    BY <1>4
  <2> QED BY <1>1, <1>2, <2>1 DEF Within
<1>8. OrderFits(files, t) /\ f.name # t => OrderFits(w, t)
  <2> SUFFICES ASSUME OrderFits(v, t), f.name # t, NEW i \in 1..Len(w), NEW j \in 1..Len(w),
                      w[i].name = t, w[j].name = Main
               PROVE  i < j
    BY <1>3 DEF OrderFits
  <2>1. i \in 1..Len(v) /\ w[i] = v[i]
    BY <1>5
  <2>2. CASE j = Len(w)
    BY <1>4, <2>1, <2>2
  <2>3. CASE j \in 1..Len(v) /\ w[j] = v[j]
    BY <2>1, <2>3 DEF OrderFits
  <2> QED BY <1>5, <2>2, <2>3
<1>9. \A kept : LeadFits(files, kept) /\ (f.name = path => ToSet(kept) \subseteq ToSet(f.lines))
                => LeadFits(w, kept)
  BY <1>3, <1>5 DEF LeadFits
<1>10. Written(f) = w
  BY DEF Written, w, v
<1> QED BY <1>4, <1>6, <1>7, <1>8, <1>9, <1>10

LEMMA Extended ==
  ASSUME NEW s \in Seq(1..MaxMessages), NEW x \in 1..MaxMessages
  PROVE  /\ Append(s, x) \in Seq(1..MaxMessages) /\ ToSet(Append(s, x)) = ToSet(s) \cup {x}
         /\ Front1(Append(s, x)) = s /\ Append(s, x) # << >> /\ Len(Append(s, x)) = Len(s) + 1
         /\ Append(s, x)[Len(s) + 1] = x
         /\ Rising(s) /\ (\A i \in 1..Len(s) : s[i] < x) => Rising(Append(s, x))
         /\ \A n \in Int : UpTo(s, n) /\ x <= n => UpTo(Append(s, x), n)
<1> DEFINE a == Append(s, x)
<1>1. /\ a \in Seq(1..MaxMessages) /\ Len(a) = Len(s) + 1 /\ Len(s) \in Nat /\ a[Len(s) + 1] = x
      /\ \A i \in 1..Len(s) : a[i] = s[i]
      /\ DOMAIN s = 1..Len(s) /\ DOMAIN a = 1..Len(a)
  BY AppendProperties, LenProperties
<1> HIDE DEF a
<1>2. \A i \in 1..Len(a) : (i \in 1..Len(s) /\ a[i] = s[i]) \/ (i = Len(s) + 1 /\ a[i] = x)
  BY <1>1
<1>3. ToSet(a) = ToSet(s) \cup {x}
  <2>1. Len(s) + 1 \in 1..Len(a) /\ \A i \in 1..Len(s) : i \in 1..Len(a)
    BY <1>1
  <2> QED BY <1>1, <1>2, <2>1 DEF ToSet
<1>4. Front1(a) = s
  <2>1. \A i \in 1..Len(s) : a[i] \in 1..MaxMessages
    BY <1>1, ElementOfSeq
  <2>2. Front1(a) = SubSeq(a, 1, Len(s))
    BY <1>1 DEF Front1
  <2>3. /\ Front1(a) \in Seq(1..MaxMessages) /\ Len(Front1(a)) = Len(s)
        /\ \A i \in 1..Len(s) : Front1(a)[i] = s[i]
    <3>1. /\ SubSeq(a, 1, Len(s)) \in Seq(1..MaxMessages)
          /\ Len(SubSeq(a, 1, Len(s))) = IF 1 <= Len(s) THEN Len(s) - 1 + 1 ELSE 0
          /\ \A i \in 1..(Len(s) - 1 + 1) : SubSeq(a, 1, Len(s))[i] = a[1 + i - 1]
      BY <1>1, <2>1, SubSeqProperties
    <3> QED BY <1>1, <2>2, <3>1
  <2> QED BY <2>3, SeqEqual
<1>5. Rising(s) /\ (\A i \in 1..Len(s) : s[i] < x) => Rising(a)
  <2> SUFFICES ASSUME Rising(s), \A i \in 1..Len(s) : s[i] < x,
                      NEW i \in 1..Len(a), NEW j \in 1..Len(a), i < j
               PROVE  a[i] < a[j]
    BY DEF Rising
  <2>1. i \in 1..Len(s) /\ a[i] = s[i]
    BY <1>1
  <2> QED BY <1>2, <2>1 DEF Rising
<1>6. \A n \in Int : UpTo(s, n) /\ x <= n => UpTo(a, n)
  BY <1>2 DEF UpTo
<1>7. a # << >>
  BY <1>1, EmptySeq
<1> QED BY <1>1, <1>3, <1>4, <1>5, <1>6, <1>7 DEF a

LEMMA Shortened ==
  ASSUME NEW s \in Seq(1..MaxMessages), s # << >>
  PROVE  /\ Front1(s) \in Seq(1..MaxMessages) /\ ToSet(Front1(s)) \subseteq ToSet(s)
         /\ Rising(s) => Rising(Front1(s))
         /\ \A n : UpTo(s, n) => UpTo(Front1(s), n)
         /\ ToSet(s) = ToSet(Front1(s)) \cup {s[Len(s)]} /\ s[Len(s)] \in 1..MaxMessages
<1> DEFINE b == Front1(s)
<1>1. /\ Len(s) \in Nat \ {0} /\ DOMAIN s = 1..Len(s)
      /\ \A i \in 1..Len(s) : s[i] \in 1..MaxMessages
  BY LenProperties, ElementOfSeq, EmptySeq
<1>2. /\ b \in Seq(1..MaxMessages) /\ Len(b) = Len(s) - 1 /\ \A i \in 1..(Len(s) - 1) : b[i] = s[i]
  <2>1. /\ SubSeq(s, 1, Len(s) - 1) \in Seq(1..MaxMessages)
        /\ Len(SubSeq(s, 1, Len(s) - 1)) = IF 1 <= Len(s) - 1 THEN Len(s) - 1 - 1 + 1 ELSE 0
        /\ \A i \in 1..(Len(s) - 1 - 1 + 1) : SubSeq(s, 1, Len(s) - 1)[i] = s[1 + i - 1]
    BY <1>1, SubSeqProperties
  <2> QED BY <1>1, <2>1 DEF Front1
<1> HIDE DEF b
<1>3. DOMAIN b = 1..Len(b) /\ \A i \in 1..Len(b) : i \in 1..Len(s) /\ b[i] = s[i]
  BY <1>1, <1>2, LenProperties
<1>4. ToSet(b) \subseteq ToSet(s)
  BY <1>1, <1>3 DEF ToSet
<1>5. Rising(s) => Rising(b)
  BY <1>3 DEF Rising
<1>6. \A n : UpTo(s, n) => UpTo(b, n)
  BY <1>3 DEF UpTo
<1>7. ToSet(s) = ToSet(b) \cup {s[Len(s)]} /\ s[Len(s)] \in 1..MaxMessages
  <2>1. Len(s) \in 1..Len(s)
    BY <1>1
  <2>2. ASSUME NEW l \in Nat \ {0}, NEW i \in 1..l PROVE i = l \/ i \in 1..(l - 1)
    OBVIOUS
  <2> QED BY <1>1, <1>2, <1>3, <2>1, <2>2 DEF ToSet
<1> QED BY <1>2, <1>4, <1>5, <1>6, <1>7 DEF b

LEMMA AFunctionIsASeq ==
  ASSUME NEW T, NEW n \in Nat, NEW w \in [1..n -> T]
  PROVE  w \in Seq(T) /\ Len(w) = n
OBVIOUS

(* A rotation: the main file is gone, one of the name of the moment is     *)
(* there in its place, and what had that name is lost.                     *)
MovedTo(w, t) ==
    \E m : /\ m \in [1..Len(w) -> 1..Len(files)]
           /\ \A i \in 1..Len(w) : /\ w[i].lines = files[m[i]].lines
                                   /\ w[i].name = t \/ w[i].name = files[m[i]].name
           /\ \A i, j \in 1..Len(w) : i < j => m[i] < m[j]
           /\ \A j \in 1..Len(files) : files[j].name # t => \E i \in 1..Len(w) : m[i] = j

NoneIs(w, x) == \A i \in 1..Len(w) : w[i].name # x

LEMMA RenamedFits ==
  ASSUME NEW c \in Int, NEW n, DirFits(files, c, n), NEW t \in Rotated, c <= t
  PROVE  /\ DirFits(Renamed(Main, t), t, n) /\ OrderFits(Renamed(Main, t), t)
         /\ NoneIs(Renamed(Main, t), Main) /\ MovedTo(Renamed(Main, t), t)
<1> DEFINE v == Without(t)
           w == [i \in DOMAIN v |-> IF v[i].name = Main THEN [v[i] EXCEPT !.name = t] ELSE v[i]]
<1>0. Renamed(Main, t) = w
  BY DEF Renamed
<1>1. v \in Seq(LogRec) /\ \A i \in 1..Len(v) : v[i].name # t
  BY WithoutFits
<1>2. PICK m : Within(v, files, m) /\ \A j \in 1..Len(files) : files[j].name # t => \E i \in 1..Len(v) : m[i] = j
  BY WithoutFits
<1> HIDE DEF v
<1>3. DirFits(v, c, n)
  BY <1>1, <1>2, PartFits
<1>4. /\ Len(v) \in Nat /\ DOMAIN v = 1..Len(v)
      /\ \A i \in 1..Len(v) : v[i] \in LogRec /\ v[i].name \in Names /\ v[i].name \in Int
  BY <1>1, LogFacts
<1>5. t \in Int /\ t \in Names /\ t # Main
  BY BoundsAssumption DEF Rotated, Names, Main
<1>6. w \in Seq(LogRec) /\ Len(w) = Len(v)
  <2>1. w \in [1..Len(v) -> LogRec]
    BY <1>4, <1>5 DEF LogRec
  <2> HIDE DEF w
  <2> QED BY <1>4, <2>1, AFunctionIsASeq
<1>7. \A i \in 1..Len(w) : /\ w[i].lines = v[i].lines
                           /\ w[i].name = IF v[i].name = Main THEN t ELSE v[i].name
  <2> SUFFICES ASSUME NEW i \in 1..Len(v)
               PROVE  /\ w[i].lines = v[i].lines
                      /\ w[i].name = IF v[i].name = Main THEN t ELSE v[i].name
    BY <1>6
  <2>1. w[i] = IF v[i].name = Main THEN [v[i] EXCEPT !.name = t] ELSE v[i]
    BY <1>4
  <2> HIDE DEF w
  <2>2. v[i] \in LogRec
    BY <1>4
  <2> QED BY <2>1, <2>2 DEF LogRec
<1> HIDE DEF w
<1>8. \A i \in 1..Len(w) : w[i].name # Main
  BY <1>5, <1>7
<1>9. DirFits(w, t, n)
  <2>1. ASSUME NEW i \in 1..Len(w)
        PROVE  Rising(w[i].lines) /\ UpTo(w[i].lines, n) /\ w[i].name <= t
    <3>1. /\ i \in 1..Len(v) /\ v[i].name \in Int
          /\ Rising(v[i].lines) /\ UpTo(v[i].lines, n) /\ v[i].name <= c
      BY <1>3, <1>4, <1>6 DEF DirFits
    <3>2. w[i].lines = v[i].lines
      BY <1>7
    <3>3. w[i].name = t \/ w[i].name = v[i].name
      BY <1>7
    <3>4. w[i].name <= t
      BY <1>5, <3>1, <3>3
    <3> QED BY <3>1, <3>2, <3>4
  <2>2. \A i, j \in 1..Len(w) : w[i].name = w[j].name => i = j
    BY <1>1, <1>3, <1>6, <1>7 DEF DirFits
  <2> QED BY <1>6, <2>1, <2>2 DEF DirFits
<1>10. OrderFits(w, t)
  BY <1>8 DEF OrderFits
<1>11. /\ m \in [1..Len(w) -> 1..Len(files)]
       /\ \A i \in 1..Len(w) : /\ w[i].lines = files[m[i]].lines
                               /\ w[i].name = t \/ w[i].name = files[m[i]].name
       /\ \A i, j \in 1..Len(w) : i < j => m[i] < m[j]
       /\ \A j \in 1..Len(files) : files[j].name # t => \E i \in 1..Len(w) : m[i] = j
  <2>1. /\ m \in [1..Len(w) -> 1..Len(files)]
        /\ \A i \in 1..Len(v) : v[i] = files[m[i]]
        /\ \A i, j \in 1..Len(w) : i < j => m[i] < m[j]
    BY <1>2, <1>6 DEF Within
  <2>2. ASSUME NEW i \in 1..Len(w)
        PROVE  w[i].lines = files[m[i]].lines /\ (w[i].name = t \/ w[i].name = files[m[i]].name)
    <3>1. v[i] = files[m[i]]
      BY <1>6, <2>1
    <3> QED BY <1>7, <3>1
  <2>3. \A j \in 1..Len(files) : files[j].name # t => \E i \in 1..Len(w) : m[i] = j
    BY <1>2, <1>6
  <2> QED BY <2>1, <2>2, <2>3
<1>12. NoneIs(w, Main) /\ MovedTo(w, t)
  BY <1>8, <1>11 DEF NoneIs, MovedTo
<1> QED BY <1>0, <1>9, <1>10, <1>12

(* A set of numbers has a least one.                                       *)
LEMMA LeastNat ==
  ASSUME NEW T \in SUBSET Nat, T # {}
  PROVE  \E x \in T : \A y \in T : x <= y
<1> DEFINE less == {ss \in Nat \X Nat : ss[1] < ss[2]}
<1>1. IsWellFoundedOn(less, Nat)
  BY NatLessThanWellFounded DEF OpToRel
<1> HIDE DEF less
<1>2. PICK x \in T : \A y \in T : ~(<<y, x>> \in less)
  BY <1>1, WFMin
<1>3. ASSUME NEW y \in T, ~(x <= y) PROVE FALSE
  <2>1. <<y, x>> \in Nat \X Nat /\ y < x
    BY <1>3
  <2>2. <<y, x>> \in less
    BY <2>1 DEF less
  <2> QED BY <1>2, <2>2
<1> QED BY <1>3

LEMMA OldestIsRotated ==
  ASSUME files \in Seq(LogRec), TooMany
  PROVE  Oldest \in 1..Len(files) /\ files[Oldest].name \in Rotated
<1>1. Len(files) \in Nat /\ DOMAIN files = 1..Len(files)
  BY LogFacts
<1>2. RotatedFiles # {}
  <2>1. Cardinality(RotatedFiles) # 0
    BY LimitsAssumption DEF TooMany
  <2>2. Cardinality({}) = 0
    BY FS_EmptySet
  <2> QED BY <2>1, <2>2
<1>3. RotatedFiles \subseteq Nat
  BY <1>1 DEF RotatedFiles
<1>4. \E i \in RotatedFiles : \A j \in RotatedFiles : i <= j
  BY <1>2, <1>3, LeastNat
<1>5. Oldest \in RotatedFiles
  BY <1>4 DEF Oldest
<1> QED BY <1>1, <1>5 DEF RotatedFiles

-----------------------------------------------------------------------------
(* The steps of the session store *)

LEMMA LogBasics ==
  ASSUME LogsInv
  PROVE  /\ files \in Seq(LogRec) /\ Len(files) \in Nat /\ DOMAIN files = 1..Len(files)
         /\ clock \in Int /\ Main \in Int /\ Main # clock /\ clock # Main /\ Main < clock
         /\ path # NoPath => path \in Names /\ path \in Int /\ path < clock
         /\ Target = path => op # "save" \/ path = Main
<1>1. files \in Seq(LogRec)
  BY DEF LogsInv, DirFits
<1>2. clock \in Int /\ Main \in Int /\ Main < clock
  BY BoundsAssumption DEF LogsInv, LogTypes, Rotated, Main
<1>3. path # NoPath => path \in Names /\ path \in Int /\ path < clock
  BY <1>2, BoundsAssumption DEF LogsInv, LogTypes, Names, Rotated, Main
<1> QED BY <1>1, <1>2, <1>3, LogFacts DEF Target

(* What the memory loses when a call fails.                                *)
LEMMA FailedFits ==
  ASSUME LogsInv, Failed, pc \in {"append"} \cup SavePcs
  PROVE  /\ messages' \in Seq(1..MaxMessages) /\ Rising(messages') /\ UpTo(messages', pushed)
         /\ ToSet(messages') \subseteq ToSet(OnDisk)
         /\ pc' = "idle" /\ op' = "none"
         /\ op = "push" => messages' = Front1(messages)
         /\ op # "push" => messages' = messages
<1>1. CASE op = "push"
  <2>1. messages' = Front1(messages) /\ messages # << >>
    BY <1>1 DEF Failed, Front1, LogsInv, LogPhase
  <2>2. messages \in Seq(1..MaxMessages) /\ Rising(messages) /\ UpTo(messages, pushed)
    BY DEF LogsInv, LogTypes
  <2>3. ToSet(Front1(messages)) \subseteq ToSet(OnDisk)
    BY <2>1, <2>2, Shortened DEF OnDisk
  <2> QED BY <1>1, <2>1, <2>2, <2>3, Shortened DEF Failed, Idle
<1>2. CASE op # "push"
  <2>1. messages' = messages /\ OnDisk = messages
    BY <1>2 DEF Failed, OnDisk, LogsInv, LogPhase
  <2> QED BY <1>2, <2>1 DEF Failed, Idle, LogsInv, LogTypes
<1> QED BY <1>1, <1>2

LEMMA PushLogs ==
  ASSUME LogsInv, Push
  PROVE  LogsInv'
<1>1. /\ pc = "idle" /\ op = "none" /\ messages \in Seq(1..MaxMessages) /\ pushed \in Nat
      /\ Rising(messages) /\ UpTo(messages, pushed) /\ OnDisk = messages
  BY BoundsAssumption DEF LogsInv, LogTypes, LogPhase, Push, OnDisk
<1>2. pushed' = pushed + 1 /\ pushed + 1 \in 1..MaxMessages /\ messages' = Append(messages, pushed + 1)
  BY <1>1, BoundsAssumption DEF Push
<1>3. UNCHANGED <<files, clock, path, crashes, saved>>
  BY DEF Push, disk
<1>4. files \in Seq(LogRec) /\ DirFits(files, clock, pushed) /\ OrderFits(files, clock) /\ LeadFits(files, messages)
  BY <1>1 DEF LogsInv, DirFits
<1>5. \A s \in Seq(1..MaxMessages) : UpTo(s, pushed) => UpTo(s, pushed + 1) /\ \A i \in 1..Len(s) : s[i] < pushed + 1
  <2> SUFFICES ASSUME NEW s \in Seq(1..MaxMessages), UpTo(s, pushed), NEW i \in 1..Len(s)
               PROVE  s[i] <= pushed + 1 /\ s[i] < pushed + 1
    BY DEF UpTo
  <2>1. s[i] \in 1..MaxMessages /\ s[i] <= pushed
    BY ElementOfSeq DEF UpTo
  <2> QED BY <1>1, <2>1
<1>6. /\ messages' \in Seq(1..MaxMessages) /\ Rising(messages') /\ UpTo(messages', pushed')
      /\ Front1(messages') = messages /\ messages' # << >> /\ messages'[Len(messages')] = pushed + 1
  BY <1>1, <1>2, <1>5, Extended
<1>7. DirFits(files, clock, pushed')
  BY <1>2, <1>4, <1>5, LogFacts DEF DirFits
<1>8. LogTypes'
  BY <1>2, <1>3, <1>6 DEF LogsInv, LogTypes
<1>9. CASE path = NoPath
  <2>1. pc' = pc /\ op' = op
    BY <1>9 DEF Push
  <2>2. LeadFits(files, OnDisk)'
    BY <1>3, <1>9 DEF LeadFits
  <2>3. LogPhase'
    BY <1>1, <2>1 DEF LogPhase, SavePcs
  <2> QED BY <1>1, <1>3, <1>4, <1>7, <1>8, <2>1, <2>2, <2>3 DEF LogsInv, DirFits, OrderFits
<1>10. CASE path # NoPath /\ Has(path)
  <2>1. pc' = "append" /\ op' = "push"
    BY <1>10 DEF Push
  <2>2. OnDisk' = messages
    BY <1>6, <2>1 DEF OnDisk
  <2>3. LeadFits(files, OnDisk)'
    BY <1>3, <1>4, <2>2 DEF LeadFits
  <2>4. \A i \in 1..Len(files) : \A j \in 1..Len(files[i].lines) : files[i].lines[j] < pushed + 1
    BY <1>4, <1>5, LogFacts DEF DirFits
  <2>5. Has(path)'
    BY <1>3, <1>10 DEF Has
  <2>6. LogPhase'
    BY <1>3, <1>6, <1>10, <2>1, <2>4, <2>5 DEF LogPhase, SavePcs
  <2> QED BY <1>3, <1>4, <1>7, <1>8, <2>3, <2>6 DEF LogsInv, DirFits, OrderFits
<1>11. CASE path # NoPath /\ ~Has(path)
  <2>1. pc' = "rotate" /\ op' = "push"
    BY <1>11 DEF Push
  <2>2. \A i \in 1..Len(files) : files[i].name # path
    BY <1>4, <1>11, HasPlace
  <2>3. LeadFits(files, OnDisk)'
    BY <1>3, <2>2 DEF LeadFits
  <2>4. ~Has(path)'
    BY <1>3, <1>11 DEF Has
  <2>5. LogPhase'
    BY <1>3, <1>6, <1>11, <2>1, <2>4 DEF LogPhase, SavePcs
  <2> QED BY <1>3, <1>4, <1>7, <1>8, <2>3, <2>5 DEF LogsInv, DirFits, OrderFits
<1> QED BY <1>9, <1>10, <1>11

(* The line that is appended is behind all of the file and in memory.      *)
LEMMA LineFits ==
  ASSUME LogsInv, pc = "append"
  PROVE  LET f == Appended(Get(path), messages[Len(messages)], FALSE) IN
         /\ f \in LogRec /\ f.name = path /\ Rising(f.lines) /\ UpTo(f.lines, pushed)
         /\ ToSet(messages) \subseteq ToSet(f.lines)
<1> DEFINE g == Get(path)
           x == messages[Len(messages)]
           f == Appended(g, x, FALSE)
<1>1. op = "push" /\ Has(path) /\ path # NoPath /\ messages # << >> /\ OnDisk = Front1(messages)
  BY DEF LogsInv, LogPhase, OnDisk
<1>2. messages \in Seq(1..MaxMessages) /\ Len(messages) \in Nat \ {0} /\ UpTo(messages, pushed) /\ pushed \in Int
  BY <1>1, EmptySeq, BoundsAssumption DEF LogsInv, LogTypes
<1>3. x \in 1..MaxMessages /\ x <= pushed /\ ToSet(messages) = ToSet(Front1(messages)) \cup {x}
  BY <1>1, <1>2, Shortened DEF UpTo
<1>4. PICK k \in 1..Len(files) : g = files[k] /\ files[k].name = path
  BY <1>1, LogBasics, HasPlace
<1>5. g \in LogRec /\ g.lines \in Seq(1..MaxMessages) /\ g.open = FALSE /\ g.name = path
  BY <1>4, LogBasics, LogFacts
<1>6. Rising(g.lines) /\ UpTo(g.lines, pushed)
  BY <1>4 DEF LogsInv, DirFits
<1>7. \A j \in 1..Len(g.lines) : g.lines[j] < x
  BY <1>4 DEF LogsInv, LogPhase
<1>8. ToSet(Front1(messages)) \subseteq ToSet(g.lines)
  BY <1>1, <1>4 DEF LogsInv, LeadFits
<1> HIDE DEF g, x
<1>9. f.name = path /\ f.open = FALSE /\ f.lines = Append(g.lines, x) /\ f \in [name : Names, lines : {Append(g.lines, x)}, open : {FALSE}]
  BY <1>5 DEF Appended, LogRec
<1>10. /\ Append(g.lines, x) \in Seq(1..MaxMessages) /\ ToSet(Append(g.lines, x)) = ToSet(g.lines) \cup {x}
       /\ Rising(Append(g.lines, x)) /\ UpTo(Append(g.lines, x), pushed)
  BY <1>2, <1>3, <1>5, <1>6, <1>7, Extended
<1>11. f \in LogRec
  BY <1>9, <1>10 DEF LogRec
<1> HIDE DEF f
<1> QED BY <1>3, <1>8, <1>9, <1>10, <1>11 DEF f, g, x

LEMMA AppendLineLogs ==
  ASSUME LogsInv, AppendLine, ~Torn
  PROVE  LogsInv'
<1>1. pc = "append" /\ UNCHANGED <<clock, path, pushed, crashes, saved>>
  BY DEF AppendLine, counters
<1>2. CASE files' = Written(Appended(Get(path), messages[Len(messages)], FALSE)) /\ Idle /\ UNCHANGED messages
  <2> DEFINE f == Appended(Get(path), messages[Len(messages)], FALSE)
  <2>1. /\ f \in LogRec /\ f.name = path /\ Rising(f.lines) /\ UpTo(f.lines, pushed)
        /\ ToSet(messages) \subseteq ToSet(f.lines)
    BY <1>1, LineFits
  <2>2. files' = Written(f)
    BY <1>2
  <2> HIDE DEF f
  <2>3. path # NoPath /\ path < clock /\ clock \in Int /\ path \in Int
    BY <1>1, LogBasics DEF LogsInv, LogPhase
  <2>4. DirFits(files, clock, pushed) /\ OrderFits(files, clock) /\ LeadFits(files, OnDisk)
    BY <1>1 DEF LogsInv
  <2>5. DirFits(files', clock, pushed) /\ OrderFits(files', clock)
    BY <2>1, <2>2, <2>3, <2>4, WrittenFits
  <2>6. \A i \in 1..Len(files') : files'[i].name = path => files'[i] = f
    BY <2>1, <2>2, <2>3, <2>4, WrittenFits
  <2>7. LeadFits(files, OnDisk)'
    BY <1>1, <1>2, <2>1, <2>6 DEF LeadFits, OnDisk, Idle
  <2>8. LogTypes'
    BY <1>1, <1>2 DEF LogsInv, LogTypes
  <2>9. LogPhase'
    BY <1>2 DEF LogPhase, Idle, SavePcs
  <2> QED BY <1>1, <2>5, <2>7, <2>8, <2>9 DEF LogsInv, DirFits, OrderFits
<1>3. CASE Failed /\ UNCHANGED files
  <2>1. /\ messages' \in Seq(1..MaxMessages) /\ Rising(messages') /\ UpTo(messages', pushed)
        /\ ToSet(messages') \subseteq ToSet(OnDisk) /\ pc' = "idle" /\ op' = "none"
    BY <1>1, <1>3, FailedFits
  <2>2. LeadFits(files, OnDisk)'
    BY <1>1, <1>3, <2>1 DEF LogsInv, LeadFits, OnDisk
  <2>3. LogTypes'
    BY <1>1, <1>3, <2>1 DEF LogsInv, LogTypes
  <2>4. LogPhase'
    BY <2>1 DEF LogPhase, SavePcs
  <2> QED BY <1>1, <1>3, <2>2, <2>3, <2>4 DEF LogsInv, DirFits, OrderFits
<1> QED BY <1>2, <1>3 DEF AppendLine

LEMMA SaveLogs ==
  ASSUME LogsInv, Save
  PROVE  LogsInv'
<1>1. /\ UNCHANGED <<files, clock, messages, path, pushed, crashes, saved>>
      /\ pc = "idle" /\ pc' = "rotate" /\ op' = "save"
  BY DEF Save, disk, session, counters
<1>2. LogTypes' /\ LogPhase'
  BY <1>1 DEF LogsInv, LogTypes, LogPhase, SavePcs
<1>3. DirFits(files, clock, pushed)' /\ OrderFits(files, clock)' /\ LeadFits(files, OnDisk)'
  BY <1>1 DEF LogsInv, DirFits, OrderFits, LeadFits, OnDisk
<1> QED BY <1>2, <1>3 DEF LogsInv

(* Only a save meets a file that is too long: a push creates one only if   *)
(* there is none.                                                          *)
LEMMA RotatesMain ==
  ASSUME LogsInv, Rotate, TooLong
  PROVE  op = "save" /\ Target = Main /\ OnDisk = messages
BY DEF LogsInv, LogPhase, Rotate, TooLong, Target, SavePcs, OnDisk

LEMMA RotateLogs ==
  ASSUME LogsInv, Rotate
  PROVE  LogsInv'
<1>1. /\ UNCHANGED <<path, pushed, crashes, saved>> /\ pc = "rotate" /\ OnDisk = messages
  BY DEF Rotate, counters, OnDisk
<1>2. CASE /\ TooLong /\ clock' \in {clock, clock + 1} \cap Rotated /\ files' = Renamed(Main, clock')
           /\ op = "save" /\ pc' = "write" /\ UNCHANGED <<op, messages>>
  <2> DEFINE u == clock'
  <2>1. clock \in Int /\ u \in Rotated /\ clock <= u /\ u \in Int /\ files' = Renamed(Main, u)
    BY <1>2, LogBasics
  <2>2. DirFits(files, clock, pushed)
    BY DEF LogsInv
  <2> HIDE DEF u
  <2> DEFINE w == Renamed(Main, u)
  <2>3. DirFits(w, u, pushed) /\ OrderFits(w, u) /\ NoneIs(w, Main) /\ MovedTo(w, u)
    BY <2>1, <2>2, RenamedFits
  <2> HIDE DEF w
  <2>4. PICK m : /\ m \in [1..Len(w) -> 1..Len(files)]
                 /\ \A i \in 1..Len(w) : /\ w[i].lines = files[m[i]].lines
                                         /\ w[i].name = u \/ w[i].name = files[m[i]].name
    BY <2>3, Zenon DEF MovedTo
  <2>5. path # NoPath => path # u /\ path < u
    BY <2>1, LogBasics
  <2>6. LeadFits(w, messages)
    BY <1>1, <2>4, <2>5 DEF LogsInv, LeadFits
  <2>7. w = files'
    BY <2>1 DEF w
  <2>8. LeadFits(files, OnDisk)'
    BY <1>1, <1>2, <2>6, <2>7 DEF LeadFits, OnDisk
  <2>9. DirFits(files, clock, pushed)' /\ OrderFits(files, clock)'
    BY <1>1, <2>3, <2>7 DEF u, DirFits, OrderFits
  <2>10. LogTypes'
    BY <1>1, <1>2, <2>1, <2>5 DEF LogsInv, LogTypes, u
  <2>11. LogPhase'
    BY <1>1, <1>2 DEF LogPhase, SavePcs
  <2> QED BY <2>8, <2>9, <2>10, <2>11 DEF LogsInv
<1>3. CASE ~TooLong /\ pc' = "write" /\ UNCHANGED <<disk, op, messages>>
  <2>1. UNCHANGED <<files, clock, op, messages>>
    BY <1>3 DEF disk
  <2>2. LogTypes' /\ LeadFits(files, OnDisk)' /\ DirFits(files, clock, pushed)' /\ OrderFits(files, clock)'
    BY <1>1, <1>3, <2>1 DEF LogsInv, LogTypes, LeadFits, OnDisk, DirFits, OrderFits
  <2>3. Has(path)' = Has(path)
    BY <1>1, <2>1 DEF Has
  <2>4. LogPhase'
    BY <1>1, <1>3, <2>1, <2>3 DEF LogsInv, LogPhase, SavePcs
  <2> QED BY <1>3, <2>2, <2>4 DEF LogsInv
<1>4. CASE Failed /\ UNCHANGED disk
  <2>1. /\ messages' \in Seq(1..MaxMessages) /\ Rising(messages') /\ UpTo(messages', pushed)
        /\ ToSet(messages') \subseteq ToSet(OnDisk) /\ pc' = "idle" /\ op' = "none"
    BY <1>1, <1>4, FailedFits DEF SavePcs
  <2>2. UNCHANGED <<files, clock>>
    BY <1>4 DEF disk
  <2>3. LeadFits(files, OnDisk)'
    BY <1>1, <2>1, <2>2 DEF LogsInv, LeadFits, OnDisk
  <2>4. LogTypes' /\ LogPhase'
    BY <1>1, <2>1, <2>2 DEF LogsInv, LogTypes, LogPhase, SavePcs
  <2> QED BY <1>1, <2>2, <2>3, <2>4 DEF LogsInv, DirFits, OrderFits
<1> QED BY <1>2, <1>3, <1>4, RotatesMain DEF Rotate

(* The new file has the memory, and it is not one that a rotation of this  *)
(* millisecond would replace.                                              *)
LEMMA NewFileFits ==
  ASSUME LogsInv, pc = "write"
  PROVE  LET f == File(Target, messages, FALSE) IN
         /\ f \in LogRec /\ f.name = Target /\ f.lines = messages /\ Rising(f.lines) /\ UpTo(f.lines, pushed)
         /\ Target \in Int /\ Target <= clock /\ Target # clock
<1>1. Target \in Names /\ Target \in Int /\ Target < clock /\ clock \in Int
  <2>1. CASE op = "save"
    BY <2>1, LogBasics DEF Target, Names
  <2>2. CASE op = "push"
    BY <2>2, LogBasics DEF Target, LogsInv, LogPhase
  <2> QED BY <2>1, <2>2 DEF LogsInv, LogPhase, SavePcs
<1>2. messages \in Seq(1..MaxMessages) /\ Rising(messages) /\ UpTo(messages, pushed)
  BY DEF LogsInv, LogTypes
<1> HIDE DEF Target
<1> QED BY <1>1, <1>2 DEF File, LogRec

LEMMA WriteLogs ==
  ASSUME LogsInv, Write
  PROVE  LogsInv'
<1>1. pc = "write" /\ UNCHANGED <<clock, path, pushed, crashes, saved>> /\ OnDisk = messages
  BY DEF Write, counters, OnDisk
<1>2. CASE files' = Written(File(Target, messages, FALSE)) /\ pc' = "cleanup" /\ UNCHANGED <<op, messages>>
  <2> DEFINE f == File(Target, messages, FALSE)
  <2>1. /\ f \in LogRec /\ f.lines = messages /\ Rising(f.lines) /\ UpTo(f.lines, pushed)
        /\ f.name \in Int /\ f.name <= clock /\ f.name # clock
    BY <1>1, NewFileFits
  <2>2. files' = Written(f)
    BY <1>2
  <2> HIDE DEF f
  <2>3. clock \in Int /\ DirFits(files, clock, pushed) /\ OrderFits(files, clock) /\ LeadFits(files, messages)
    BY <1>1, LogBasics DEF LogsInv
  <2>4. DirFits(files', clock, pushed) /\ OrderFits(files', clock) /\ LeadFits(files', messages)
    BY <2>1, <2>2, <2>3, WrittenFits
  <2>5. LeadFits(files, OnDisk)'
    BY <1>1, <1>2, <2>4 DEF LeadFits, OnDisk
  <2>6. LogTypes'
    BY <1>1, <1>2 DEF LogsInv, LogTypes
  <2>7. LogPhase'
    BY <1>1, <1>2 DEF LogsInv, LogPhase, SavePcs
  <2> QED BY <1>1, <2>4, <2>5, <2>6, <2>7 DEF LogsInv, DirFits, OrderFits
<1>3. CASE Failed /\ UNCHANGED files
  <2>1. /\ messages' \in Seq(1..MaxMessages) /\ Rising(messages') /\ UpTo(messages', pushed)
        /\ ToSet(messages') \subseteq ToSet(OnDisk) /\ pc' = "idle" /\ op' = "none"
    BY <1>1, <1>3, FailedFits DEF SavePcs
  <2>2. LeadFits(files, OnDisk)'
    BY <1>1, <1>3, <2>1 DEF LogsInv, LeadFits, OnDisk
  <2>3. LogTypes' /\ LogPhase'
    BY <1>1, <1>3, <2>1 DEF LogsInv, LogTypes, LogPhase, SavePcs
  <2> QED BY <1>1, <1>3, <2>2, <2>3 DEF LogsInv, DirFits, OrderFits
<1> QED BY <1>2, <1>3 DEF Write

(* The removal of the oldest rotated file.                                 *)
LEMMA OldestRemoved ==
  ASSUME LogsInv, RemoveOldest
  PROVE  /\ files' \in Seq(LogRec) /\ DirFits(files', clock, pushed)
         /\ OrderFits(files, clock) => OrderFits(files', clock)
         /\ \A kept : LeadFits(files, kept) => LeadFits(files', kept)
         /\ \E m : /\ Within(files', files, m)
                   /\ \A j \in 1..Len(files) : j # Oldest => \E i \in 1..Len(files') : m[i] = j
<1> DEFINE k == Oldest
           w == RemoveAt(files, k)
<1>1. files \in Seq(LogRec) /\ DirFits(files, clock, pushed) /\ TooMany /\ files' = w
  BY DEF LogsInv, DirFits, RemoveOldest
<1>2. k \in 1..Len(files)
  BY <1>1, OldestIsRotated
<1> HIDE DEF k
<1>3. w \in Seq(LogRec) /\ AllBut(w, files, k)
  BY <1>1, <1>2, Removed
<1> HIDE DEF w
<1>4. PICK m : /\ Within(w, files, m)
               /\ \A j \in 1..Len(files) : j # k => \E i \in 1..Len(w) : m[i] = j
  BY <1>3 DEF AllBut
<1>5. /\ DirFits(w, clock, pushed) /\ (OrderFits(files, clock) => OrderFits(w, clock))
      /\ \A kept : LeadFits(files, kept) => LeadFits(w, kept)
  BY <1>1, <1>3, <1>4, PartFits
<1> QED BY <1>1, <1>3, <1>4, <1>5 DEF k

LEMMA CleanupLogs ==
  ASSUME LogsInv, Cleanup
  PROVE  LogsInv'
<1>1. pc = "cleanup" /\ UNCHANGED <<clock, path, pushed, crashes>> /\ OnDisk = messages
  BY DEF Cleanup, counters, OnDisk
<1>2. CASE RemoveOldest
  <2>1. UNCHANGED <<pc, op, messages, saved>>
    BY <1>2 DEF RemoveOldest
  <2>2. DirFits(files', clock, pushed) /\ OrderFits(files', clock) /\ LeadFits(files', messages)
    BY <1>1, <1>2, OldestRemoved DEF LogsInv
  <2>3. LeadFits(files, OnDisk)'
    BY <1>1, <2>1, <2>2 DEF LeadFits, OnDisk
  <2>4. LogTypes' /\ LogPhase'
    BY <1>1, <2>1 DEF LogsInv, LogTypes, LogPhase, SavePcs
  <2> QED BY <1>1, <2>1, <2>2, <2>3, <2>4 DEF LogsInv, DirFits, OrderFits
<1>3. CASE /\ Idle /\ UNCHANGED <<files, messages>>
           /\ saved' = IF op = "save" THEN saved \cup ToSet(messages) ELSE saved
  <2>1. pc' = "idle" /\ op' = "none"
    BY <1>3 DEF Idle
  <2>2. messages \in Seq(1..MaxMessages)
    BY DEF LogsInv, LogTypes
  <2>3. ToSet(messages) \subseteq 1..MaxMessages
    <3>1. DOMAIN messages = 1..Len(messages) /\ \A i \in 1..Len(messages) : messages[i] \in 1..MaxMessages
      BY <2>2, LenProperties, ElementOfSeq
    <3> QED BY <3>1 DEF ToSet
  <2>4. LogTypes'
    BY <1>1, <1>3, <2>2, <2>3 DEF LogsInv, LogTypes
  <2>5. LogPhase' /\ LeadFits(files, OnDisk)'
    BY <1>1, <1>3, <2>1 DEF LogsInv, LogPhase, SavePcs, LeadFits, OnDisk
  <2> QED BY <1>1, <1>3, <2>4, <2>5 DEF LogsInv, DirFits, OrderFits
<1>4. CASE Failed /\ UNCHANGED <<files, saved>>
  <2>1. /\ messages' \in Seq(1..MaxMessages) /\ Rising(messages') /\ UpTo(messages', pushed)
        /\ ToSet(messages') \subseteq ToSet(OnDisk) /\ pc' = "idle" /\ op' = "none"
    BY <1>1, <1>4, FailedFits DEF SavePcs
  <2>2. LeadFits(files, OnDisk)'
    BY <1>1, <1>4, <2>1 DEF LogsInv, LeadFits, OnDisk
  <2>3. LogTypes' /\ LogPhase'
    BY <1>1, <1>4, <2>1 DEF LogsInv, LogTypes, LogPhase, SavePcs
  <2> QED BY <1>1, <1>4, <2>2, <2>3 DEF LogsInv, DirFits, OrderFits
<1> QED BY <1>2, <1>3, <1>4 DEF Cleanup

LEMMA CrashLogs ==
  ASSUME LogsInv, Crash, ~Torn
  PROVE  LogsInv'
<1>1. /\ UNCHANGED <<files, clock, pushed, saved>> /\ crashes' = crashes + 1 /\ crashes < MaxCrashes
      /\ messages' = << >> /\ path' = NoPath /\ pc' = "down" /\ op' = "none"
  BY DEF Crash
<1>2. LogTypes'
  BY <1>1, BoundsAssumption, EmptySeq DEF LogsInv, LogTypes, Rising, UpTo
<1>3. LogPhase' /\ LeadFits(files, OnDisk)'
  BY <1>1 DEF LogPhase, SavePcs, LeadFits
<1> QED BY <1>1, <1>2, <1>3 DEF LogsInv, DirFits

LEMMA StartLogs ==
  ASSUME LogsInv, Start
  PROVE  LogsInv'
<1>1. /\ UNCHANGED <<files, op, pushed, crashes, saved>> /\ clock' = clock + 1 /\ pc' = "idle" /\ op = "none"
      /\ clock' \in Rotated
  BY BoundsAssumption DEF Start, counters, LogsInv, LogPhase, LogTypes, Rotated
<1>2. PICK i \in RestorableFiles : messages' = files[i].lines /\ path' = files[i].name
  BY DEF Start
<1>3. files \in Seq(LogRec) /\ i \in 1..Len(files) /\ DirFits(files, clock, pushed) /\ clock \in Int
  BY <1>2, LogBasics DEF RestorableFiles, LogsInv
<1>4. \A j \in 1..Len(files) : files[j].name \in Int /\ files[j].name < clock + 1
  <2> TAKE j \in 1..Len(files)
  <2>1. files[j].name \in Int
    BY <1>3, LogFacts
  <2>2. files[j].name <= clock
    BY <1>3 DEF DirFits
  <2> QED BY <1>3, <2>1, <2>2
<1>5. LogTypes'
  BY <1>1, <1>2, <1>3, <1>4, LogFacts DEF LogsInv, LogTypes, DirFits
<1>6. LogPhase'
  BY <1>1 DEF LogPhase, SavePcs
<1>7. \A j \in 1..Len(files) : files[j].name = files[i].name => j = i
  BY <1>3 DEF DirFits
<1>8. LeadFits(files, OnDisk)'
  BY <1>1, <1>2, <1>7 DEF LeadFits, OnDisk
<1>9. DirFits(files, clock, pushed)'
  BY <1>1, <1>3, <1>4 DEF DirFits
<1>10. OrderFits(files, clock)'
  BY <1>1, <1>4 DEF OrderFits
<1> QED BY <1>5, <1>6, <1>8, <1>9, <1>10 DEF LogsInv

LEMMA LogsInit ==
  ASSUME Init
  PROVE  LogsInv
<1>1. files \in Seq(LogRec) /\ Len(files) = 0 /\ messages \in Seq(1..MaxMessages) /\ Len(messages) = 0
  BY EmptySeq DEF Init
<1>2. LogTypes
  BY <1>1, BoundsAssumption DEF Init, LogTypes, Rotated, Rising, UpTo
<1> QED BY <1>1, <1>2 DEF Init, LogsInv, LogPhase, SavePcs, DirFits, OrderFits, LeadFits

LEMMA LogsNext ==
  ASSUME LogsInv, [Next]_vars, ~Torn
  PROVE  LogsInv'
<1>1. CASE UNCHANGED vars
  BY <1>1 DEF LogsInv, LogTypes, LogPhase, DirFits, OrderFits, LeadFits, OnDisk, SavePcs, Has, vars, disk, session, counters
<1>2. CASE Next
  BY <1>2, PushLogs, AppendLineLogs, SaveLogs, RotateLogs, WriteLogs, CleanupLogs, CrashLogs, StartLogs DEF Next
<1> QED BY <1>1, <1>2

LEMMA LastHasIt ==
  ASSUME NEW w \in Seq(LogRec), Len(w) > 0, NEW what, what \subseteq ToSet(w[Len(w)].lines)
  PROVE  TopHasIt(w, what)
<1>1. Len(w) \in Nat /\ Len(w) \in 1..Len(w) /\ \A j \in 1..Len(w) : ~(Len(w) < j)
  BY LogFacts
<1> QED BY <1>1 DEF TopHasIt

LEMMA FrontIsLess ==
  ASSUME LogsInv
  PROVE  op = "push" => ToSet(Front1(messages)) \subseteq ToSet(messages)
BY Shortened DEF LogsInv, LogTypes, LogPhase

LEMMA SavedInMemory ==
  ASSUME LogsInv, SavedInv, pc # "down"
  PROVE  saved \subseteq ToSet(messages)
BY FrontIsLess DEF SavedInv

(* A call that fails takes back no message of an earlier save.             *)
LEMMA FailedSaves ==
  ASSUME LogsInv, SavedInv, Failed, pc \in {"append"} \cup SavePcs, UNCHANGED <<files, saved>>
  PROVE  SavedInv'
<1>1. /\ pc' = "idle" /\ op' = "none"
      /\ op = "push" => messages' = Front1(messages)
      /\ op # "push" => messages' = messages
  BY FailedFits
<1>2. saved \subseteq ToSet(messages')
  BY <1>1 DEF SavedInv, SavePcs
<1> QED BY <1>1, <1>2 DEF SavedInv, TopHasIt

LEMMA PushSaves ==
  ASSUME LogsInv, SavedInv, Push
  PROVE  SavedInv'
<1>1. /\ pc = "idle" /\ op = "none" /\ messages \in Seq(1..MaxMessages) /\ pushed + 1 \in 1..MaxMessages
      /\ messages' = Append(messages, pushed + 1) /\ UNCHANGED <<files, saved>>
  BY BoundsAssumption DEF LogsInv, LogTypes, LogPhase, Push, disk
<1>2. Front1(messages') = messages /\ ToSet(messages) \subseteq ToSet(messages')
  BY <1>1, Extended
<1>3. saved \subseteq ToSet(messages)
  BY <1>1 DEF SavedInv
<1>4. (op' = op /\ pc' = pc) \/ (op' = "push" /\ pc' \in {"append", "rotate"})
  BY DEF Push
<1> QED BY <1>1, <1>2, <1>3, <1>4 DEF SavedInv, TopHasIt

LEMMA AppendLineSaves ==
  ASSUME LogsInv, SavedInv, AppendLine, ~Torn
  PROVE  SavedInv'
<1>1. pc = "append" /\ UNCHANGED saved
  BY DEF AppendLine
<1>2. CASE files' = Written(Appended(Get(path), messages[Len(messages)], FALSE)) /\ Idle /\ UNCHANGED messages
  <2> DEFINE f == Appended(Get(path), messages[Len(messages)], FALSE)
  <2>1. /\ f \in LogRec /\ f.name = path /\ Rising(f.lines) /\ UpTo(f.lines, pushed)
        /\ ToSet(messages) \subseteq ToSet(f.lines)
    BY <1>1, LineFits
  <2>2. files' = Written(f)
    BY <1>2
  <2> HIDE DEF f
  <2>3. path < clock /\ clock \in Int /\ path \in Int /\ DirFits(files, clock, pushed)
    BY <1>1, LogBasics DEF LogsInv, LogPhase
  <2>4. DirFits(files', clock, pushed) /\ Len(files') \in Nat \ {0} /\ files'[Len(files')] = f
    BY <2>1, <2>2, <2>3, WrittenFits
  <2>5. saved \subseteq ToSet(messages)
    BY <1>1, SavedInMemory
  <2>6. files' \in Seq(LogRec) /\ Len(files') > 0 /\ saved \subseteq ToSet(files'[Len(files')].lines)
    BY <2>1, <2>4, <2>5 DEF DirFits
  <2>7. TopHasIt(files', saved)
    BY <2>6, LastHasIt
  <2> QED BY <1>1, <1>2, <2>5, <2>7 DEF SavedInv, Idle, TopHasIt
<1>3. CASE Failed /\ UNCHANGED files
  BY <1>1, <1>3, FailedSaves
<1> QED BY <1>2, <1>3 DEF AppendLine

LEMMA SaveSaves ==
  ASSUME LogsInv, SavedInv, Save
  PROVE  SavedInv'
BY DEF LogsInv, LogPhase, SavedInv, Save, disk, session, TopHasIt

(* A rotation replaces no file that has what was saved: the main file,     *)
(* which is not empty, is behind it.                                       *)
LEMMA RotateSaves ==
  ASSUME LogsInv, SavedInv, Rotate
  PROVE  SavedInv'
<1>1. pc = "rotate" /\ UNCHANGED saved
  BY DEF Rotate
<1>2. CASE /\ TooLong /\ clock' \in {clock, clock + 1} \cap Rotated /\ files' = Renamed(Main, clock')
           /\ op = "save" /\ Target = Main /\ pc' = "write" /\ UNCHANGED <<op, messages>>
  <2> DEFINE u == clock'
  <2>1. clock \in Int /\ u \in Rotated /\ clock <= u /\ (u = clock \/ u = clock + 1) /\ files' = Renamed(Main, u)
    BY <1>2, LogBasics
  <2>2. DirFits(files, clock, pushed) /\ OrderFits(files, clock) /\ files \in Seq(LogRec) /\ Len(files) \in Nat
    BY <1>1, LogBasics DEF LogsInv
  <2> HIDE DEF u
  <2> DEFINE w == Renamed(Main, u)
  <2>3. DirFits(w, u, pushed) /\ MovedTo(w, u)
    BY <2>1, <2>2, RenamedFits
  <2> HIDE DEF w
  <2>4. PICK m : /\ m \in [1..Len(w) -> 1..Len(files)]
                 /\ \A i \in 1..Len(w) : /\ w[i].lines = files[m[i]].lines
                                         /\ w[i].name = u \/ w[i].name = files[m[i]].name
                 /\ \A i, j \in 1..Len(w) : i < j => m[i] < m[j]
                 /\ \A j \in 1..Len(files) : files[j].name # u => \E i \in 1..Len(w) : m[i] = j
    BY <2>3, Zenon DEF MovedTo
  <2>5. PICK k \in 1..Len(files) : files[k].name = Main /\ files[k].lines # << >>
    <3>1. Has(Main) /\ Len(Get(Main).lines) >= RotateAfter
      BY <1>2 DEF TooLong
    <3>2. Place(Main) \in 1..Len(files) /\ files[Place(Main)].name = Main /\ Get(Main) = files[Place(Main)]
      BY <2>2, <3>1, HasPlace
    <3>3. Get(Main).lines # << >>
      BY <3>1, EmptySeq, LimitsAssumption
    <3> QED BY <3>2, <3>3
  <2>6. TopHasIt(w, saved)
    <3>1. CASE saved = {}
      BY <3>1 DEF TopHasIt
    <3>2. CASE saved # {}
      <4>1. PICK t \in 1..Len(files) : /\ saved \subseteq ToSet(files[t].lines)
                                       /\ \A j \in 1..Len(files) : t < j => files[j].lines = << >>
        BY <3>2 DEF SavedInv, TopHasIt
      <4>2. ~(t < k)
        BY <2>5, <4>1
      <4>3. files[t].name # u
        <5>1. CASE u = clock
          BY <2>2, <2>5, <4>2, <5>1 DEF OrderFits
        <5>2. CASE u = clock + 1
          <6>1. files[t].name \in Int /\ files[t].name <= clock
            BY <2>2, LogFacts DEF DirFits
          <6> QED BY <2>1, <5>2, <6>1
        <5> QED BY <2>1, <5>1, <5>2
      <4>4. PICK i \in 1..Len(w) : m[i] = t
        BY <2>4, <4>3
      <4>5. ASSUME NEW j \in 1..Len(w), i < j PROVE w[j].lines = << >>
        <5>1. m[i] < m[j] /\ m[j] \in 1..Len(files) /\ w[j].lines = files[m[j]].lines
          BY <2>4, <4>5
        <5> QED BY <4>1, <4>4, <5>1
      <4>6. saved \subseteq ToSet(w[i].lines)
        BY <2>4, <4>1, <4>4
      <4> QED BY <4>5, <4>6 DEF TopHasIt
    <3> QED BY <3>1, <3>2
  <2>8. saved \subseteq ToSet(messages)
    BY <1>1, SavedInMemory
  <2>9. TopHasIt(files, saved)'
    BY <1>1, <2>1, <2>6 DEF w, TopHasIt
  <2> QED BY <1>1, <1>2, <2>8, <2>9 DEF SavedInv
<1>3. CASE ~TooLong /\ pc' = "write" /\ UNCHANGED <<disk, op, messages>>
  BY <1>1, <1>3 DEF SavedInv, TopHasIt, disk
<1>4. CASE Failed /\ UNCHANGED disk
  BY <1>1, <1>4, FailedSaves DEF disk, SavePcs
<1> QED BY <1>2, <1>3, <1>4, RotatesMain DEF Rotate

LEMMA WriteSaves ==
  ASSUME LogsInv, SavedInv, Write
  PROVE  SavedInv'
<1>1. pc = "write" /\ UNCHANGED <<path, saved>>
  BY DEF Write
<1>2. CASE files' = Written(File(Target, messages, FALSE)) /\ pc' = "cleanup" /\ UNCHANGED <<op, messages>>
  <2> DEFINE f == File(Target, messages, FALSE)
  <2>1. /\ f \in LogRec /\ f.name = Target /\ f.lines = messages /\ Rising(f.lines) /\ UpTo(f.lines, pushed)
        /\ f.name \in Int /\ f.name <= clock
    BY <1>1, NewFileFits
  <2>2. files' = Written(f)
    BY <1>2
  <2> HIDE DEF f
  <2>3. clock \in Int /\ DirFits(files, clock, pushed)
    BY LogBasics DEF LogsInv
  <2>4. DirFits(files', clock, pushed) /\ Len(files') \in Nat \ {0} /\ files'[Len(files')] = f
    BY <2>1, <2>2, <2>3, WrittenFits
  <2>5. saved \subseteq ToSet(messages)
    BY <1>1, SavedInMemory
  <2>6. files' \in Seq(LogRec) /\ Len(files') > 0 /\ saved \subseteq ToSet(files'[Len(files')].lines)
    BY <2>1, <2>4, <2>5 DEF DirFits
  <2>7. TopHasIt(files', saved)
    BY <2>6, LastHasIt
  <2>8. Target' = Target
    BY <1>1, <1>2 DEF Target
  <2>9. saved \subseteq ToSet(IF op = "push" THEN Front1(messages) ELSE messages)
    BY <1>1 DEF SavedInv
  <2> QED BY <1>1, <1>2, <2>1, <2>4, <2>6, <2>7, <2>8, <2>9 DEF SavedInv, TopHasIt
<1>3. CASE Failed /\ UNCHANGED files
  BY <1>1, <1>3, FailedSaves DEF SavePcs
<1> QED BY <1>2, <1>3 DEF Write

(* The cleanup of a save removes rotated files only, and the file it wrote *)
(* is the last.                                                            *)
LEMMA CleanupSaves ==
  ASSUME LogsInv, SavedInv, Cleanup
  PROVE  SavedInv'
<1>1. pc = "cleanup" /\ UNCHANGED path /\ saved \subseteq ToSet(messages)
  BY SavedInMemory DEF Cleanup
<1>2. Len(files) > 0 /\ files[Len(files)].name = Target /\ files[Len(files)].lines = messages
  BY <1>1 DEF SavedInv
<1>3. files \in Seq(LogRec) /\ Len(files) \in Nat
  BY LogBasics
<1>4. CASE RemoveOldest
  <2>1. UNCHANGED <<pc, op, messages, saved>> /\ Target = Main /\ TooMany
    BY <1>4 DEF RemoveOldest, TooMany
  <2>2. Oldest # Len(files) /\ Len(files) \in 1..Len(files)
    BY <1>2, <1>3, <2>1, OldestIsRotated DEF Rotated, Main
  <2>3. files' \in Seq(LogRec)
    BY <1>4, OldestRemoved
  <2>4. PICK m : Within(files', files, m) /\ \A j \in 1..Len(files) : j # Oldest => \E i \in 1..Len(files') : m[i] = j
    BY <1>4, OldestRemoved
  <2>5. PICK i \in 1..Len(files') : m[i] = Len(files)
    BY <2>2, <2>4
  <2>6. Len(files') \in Nat
    BY <2>3, LogFacts
  <2>7. i = Len(files')
    <3>1. CASE i < Len(files')
      <4>1. Len(files') \in 1..Len(files')
        BY <2>6, <3>1
      <4>2. m[i] < m[Len(files')] /\ m[Len(files')] \in 1..Len(files)
        BY <2>4, <3>1, <4>1 DEF Within
      <4> QED BY <1>3, <2>5, <4>2
    <3> QED BY <2>6, <3>1
  <2>8. files'[Len(files')] = files[Len(files)] /\ Len(files') > 0
    BY <2>4, <2>5, <2>6, <2>7 DEF Within
  <2>9. TopHasIt(files', saved)
    BY <1>1, <1>2, <2>3, <2>8, LastHasIt
  <2>10. Target' = Target
    BY <1>1, <2>1 DEF Target
  <2> QED BY <1>1, <1>2, <2>1, <2>8, <2>9, <2>10 DEF SavedInv, TopHasIt
<1>5. CASE /\ Idle /\ UNCHANGED <<files, messages>>
           /\ saved' = IF op = "save" THEN saved \cup ToSet(messages) ELSE saved
  <2>1. saved' \subseteq ToSet(messages)
    BY <1>1, <1>5
  <2>2. TopHasIt(files, saved')
    BY <1>2, <1>3, <2>1, LastHasIt
  <2> QED BY <1>5, <2>1, <2>2 DEF SavedInv, TopHasIt, Idle
<1>6. CASE Failed /\ UNCHANGED <<files, saved>>
  BY <1>1, <1>6, FailedSaves DEF SavePcs
<1> QED BY <1>4, <1>5, <1>6 DEF Cleanup

LEMMA CrashSaves ==
  ASSUME SavedInv, Crash, ~Torn
  PROVE  SavedInv'
BY DEF SavedInv, Crash, TopHasIt

(* The next start opens the last file that has any lines.                  *)
LEMMA StartSaves ==
  ASSUME LogsInv, SavedInv, Start, ~OpensAny
  PROVE  SavedInv'
<1>1. UNCHANGED <<files, saved, op>> /\ pc' = "idle" /\ op = "none"
  BY DEF Start, LogsInv, LogPhase
<1>2. PICK i \in RestorableFiles : messages' = files[i].lines /\ \A j \in RestorableFiles : j <= i
  BY DEF Start
<1>3. files \in Seq(LogRec) /\ Len(files) \in Nat /\ DOMAIN files = 1..Len(files)
  BY LogBasics
<1>4. saved \subseteq ToSet(messages')
  <2>1. CASE saved = {}
    BY <2>1
  <2>2. CASE saved # {}
    <3>1. PICK t \in 1..Len(files) : /\ saved \subseteq ToSet(files[t].lines)
                                     /\ \A j \in 1..Len(files) : t < j => files[j].lines = << >>
      BY <2>2 DEF SavedInv, TopHasIt
    <3>2. t \in RestorableFiles
      <4>1. files[t].lines # << >>
        BY <2>2, <3>1 DEF ToSet
      <4>2. Unreadable \notin Held(files[t])
        <5>1. files[t].lines \in Seq(1..MaxMessages)
          BY <1>3, LogFacts
        <5> QED BY <5>1, LenProperties, ElementOfSeq, BoundsAssumption DEF Held, ToSet, Unreadable
      <4> QED BY <1>3, <4>1, <4>2 DEF RestorableFiles, Restorable
    <3>3. i \in 1..Len(files) /\ files[i].lines # << >> /\ t <= i
      BY <1>2, <1>3, <3>2 DEF RestorableFiles, Restorable
    <3>4. i = t
      BY <1>3, <3>1, <3>3
    <3> QED BY <1>2, <3>1, <3>4
  <2> QED BY <2>1, <2>2
<1> QED BY <1>1, <1>4 DEF SavedInv, TopHasIt

LEMMA SavedInit == Init => SavedInv
BY DEF Init, SavedInv, TopHasIt

LEMMA SavedNext ==
  ASSUME LogsInv, SavedInv, [Next]_vars, ~Torn, ~OpensAny
  PROVE  SavedInv'
<1>1. CASE UNCHANGED vars
  BY <1>1 DEF SavedInv, TopHasIt, Target, vars, disk, session
<1>2. CASE Next
  BY <1>2, PushSaves, AppendLineSaves, SaveSaves, RotateSaves, WriteSaves, CleanupSaves, CrashSaves, StartSaves DEF Next
<1> QED BY <1>1, <1>2

(* What the invariants say of the files.                                   *)
LEMMA LogsAreInOrder ==
  ASSUME LogsInv
  PROVE  TypeOK /\ FileLeadsMemory /\ InOrder
<1>1. /\ files \in Seq(LogRec) /\ DOMAIN files = 1..Len(files)
      /\ \A i \in 1..Len(files) : /\ files[i] \in LogRec /\ files[i].lines \in Seq(1..MaxMessages)
                                  /\ Rising(files[i].lines)
  BY LogBasics, LogFacts DEF LogsInv, DirFits
<1>2. LogRec \subseteq [name : Names, lines : Seq(Lines), open : BOOLEAN]
  <2>1. 1..MaxMessages \subseteq Lines
    BY BoundsAssumption DEF Lines
  <2>2. \A s \in Seq(1..MaxMessages) : s \in Seq(Lines)
    BY <2>1, SeqMonotonic
  <2> QED BY <2>2 DEF LogRec
<1>3. TypeOK
  BY <1>1, <1>2 DEF TypeOK, LogsInv, LogTypes, LogPhase, SavePcs
<1>4. FileLeadsMemory
  <2> SUFFICES ASSUME pc = "idle", path # NoPath, Has(path) PROVE ToSet(messages) \subseteq Held(Get(path))
    BY DEF FileLeadsMemory
  <2>1. Place(path) \in 1..Len(files) /\ files[Place(path)].name = path /\ Get(path) = files[Place(path)]
    BY <1>1, HasPlace
  <2> QED BY <2>1 DEF LogsInv, LeadFits, OnDisk, Held
<1>5. InOrder
  <2> SUFFICES ASSUME NEW i \in DOMAIN files, NEW j \in DOMAIN files[i].lines, NEW k \in DOMAIN files[i].lines,
                      j < k
               PROVE  files[i].lines[j] < files[i].lines[k]
    BY DEF InOrder
  <2>1. i \in 1..Len(files)
    BY <1>1
  <2>2. DOMAIN files[i].lines = 1..Len(files[i].lines)
    BY <1>1, <2>1, LenProperties
  <2> QED BY <1>1, <2>1, <2>2 DEF Rising
<1> QED BY <1>3, <1>4, <1>5

LEMMA SavedIsFound ==
  ASSUME LogsInv, SavedInv
  PROVE  SavedIsReopened
<1> SUFFICES ASSUME saved # {}
             PROVE  \E i \in RestorableFiles : (\A j \in RestorableFiles : j <= i) /\ saved \subseteq Held(files[i])
  BY DEF SavedIsReopened
<1>1. files \in Seq(LogRec) /\ Len(files) \in Nat /\ DOMAIN files = 1..Len(files)
  BY LogBasics
<1>2. PICK t \in 1..Len(files) : /\ saved \subseteq ToSet(files[t].lines)
                                 /\ \A j \in 1..Len(files) : t < j => files[j].lines = << >>
  BY DEF SavedInv, TopHasIt
<1>3. files[t].lines # << >>
  BY <1>2 DEF ToSet
<1>4. Unreadable \notin Held(files[t])
  <2>1. files[t].lines \in Seq(1..MaxMessages)
    BY <1>1, LogFacts
  <2> QED BY <2>1, LenProperties, ElementOfSeq, BoundsAssumption DEF Held, ToSet, Unreadable
<1>5. t \in RestorableFiles
  BY <1>1, <1>3, <1>4 DEF RestorableFiles, Restorable
<1>6. ASSUME NEW j \in RestorableFiles PROVE j <= t
  <2>1. j \in 1..Len(files) /\ files[j].lines # << >>
    BY <1>1 DEF RestorableFiles, Restorable
  <2> QED BY <1>1, <1>2, <2>1
<1> QED BY <1>2, <1>5, <1>6 DEF Held

(* Where no append is cut short within a line: the file a session appends  *)
(* to has what its memory has, and no file has a message twice or out of   *)
(* order, whichever tab the user goes on in.                               *)
THEOREM LogSafety == ~Torn => (FilesSpec => [](TypeOK /\ FileLeadsMemory /\ InOrder))
<1> SUFFICES ASSUME ~Torn PROVE FilesSpec => [](TypeOK /\ FileLeadsMemory /\ InOrder)
  OBVIOUS
<1>1. Init => LogsInv
  BY LogsInit
<1>2. LogsInv /\ [Next]_vars => LogsInv'
  BY LogsNext
<1>3. LogsInv => TypeOK /\ FileLeadsMemory /\ InOrder
  BY LogsAreInOrder
<1> QED BY <1>1, <1>2, <1>3, Composition, PTL DEF Spec

(* And where the user goes on in the tab in front: a start opens a file    *)
(* that has every message of every save that succeeded, whatever step a    *)
(* crash interrupts or an error ends.                                      *)
THEOREM SessionSafety == ~Torn /\ ~OpensAny => (FilesSpec => []SessionFiles)
<1> SUFFICES ASSUME ~Torn, ~OpensAny PROVE FilesSpec => []SessionFiles
  OBVIOUS
<1> DEFINE IInv == LogsInv /\ SavedInv
<1>1. Init => IInv
  BY LogsInit, SavedInit
<1>2. IInv /\ [Next]_vars => IInv'
  BY LogsNext, SavedNext
<1>3. IInv => SessionFiles
  BY LogsAreInOrder, SavedIsFound DEF SessionFiles
<1> QED BY <1>1, <1>2, <1>3, Composition, PTL DEF Spec

-----------------------------------------------------------------------------
(* The plugin manager *)

CommandPcs == {"idle", "stage", "clear", "copy", "build", "store", "switch", "installed",
               "sync", "syncStore", "discover", "listed"}
Recorded == [M!Plugins -> M!Versions]
CommandRec == [cmd : M!Commands \cup {"none"}, target : M!Plugins, at : M!Plugins, pc : CommandPcs,
               held : Recorded, version : M!Versions, changed : BOOLEAN]
Copied(version, kind) == [version |-> version, part |-> kind]
Syncing == {"enable", "disable", "list"}

PluginTypes ==
    /\ upstream \in Recorded /\ registry \in Recorded
    /\ dir \in [M!Plugins -> [version : M!Versions, part : M!Parts]]
    /\ switch \in [M!Plugins -> {"unset", "on", "off"}]
    /\ command \in CommandRec /\ cut \subseteq Bundled

(* Which steps a command takes.                                            *)
PluginPhases ==
    /\ command.pc = "idle" <=> command.cmd = "none"
    /\ command.pc = "idle" => command = M!Idle
    /\ command.cmd = "install" => command.pc \in {"stage", "clear", "copy", "build", "store", "switch", "installed"}
    /\ command.cmd = "update" => command.pc \in {"stage", "clear", "copy", "store"}
    /\ command.cmd = "uninstall" => command.pc \in {"clear", "store", "switch"}
    /\ command.cmd \in Syncing =>
          command.pc \in {"sync", "clear", "copy", "syncStore", "discover", "switch", "listed"}

(* A record of the version on offer stands for the whole of it, but for    *)
(* updates cut short, before and now.                                      *)
Current(rec) ==
    \A b \in Bundled :
        /\ rec[b] = upstream[b] /\ upstream[b] > 0 /\ b \notin cut
        /\ ~(command.cmd = "update" /\ command.pc = "copy" /\ command.at = b)
        => dir[b] = Copied(upstream[b], "whole")
NotAhead(rec) == \A b \in Bundled : upstream[b] > 0 => rec[b] <= upstream[b]
InSync(rec) == \A b \in Bundled : rec[b] = upstream[b] /\ (upstream[b] > 0 => M!Loads(b))

Targets ==
    /\ command.cmd \in {"install", "update", "uninstall"} => command.at = command.target
    /\ command.cmd \in {"install", "update"} => command.version = upstream[command.target]
    /\ command.cmd \in {"install", "uninstall"} => command.target \in External
    /\ command.cmd = "update" /\ command.pc = "store" =>
          dir[command.target] = Copied(command.version, "whole")
    /\ command.cmd \in Syncing /\ command.pc \in {"clear", "copy"} =>
          /\ command.at \in Bundled /\ command.version = upstream[command.at]
          /\ registry[command.at] # upstream[command.at] \/ command.at \in cut
          /\ command.held[command.at] # upstream[command.at] \/ command.at \in cut

Installing ==
    command.cmd = "install" =>
        /\ command.pc = "build" => dir[command.target] = Copied(command.version, "whole")
        /\ command.pc \in {"store", "switch", "installed"} =>
              dir[command.target] = Copied(command.version, "built")
        /\ command.pc \in {"switch", "installed"} => registry[command.target] = command.version
        /\ command.pc = "installed" => switch[command.target] = "on"

Listing ==
    /\ command.cmd \in Syncing /\ command.pc \in {"sync", "clear", "copy", "syncStore"} =>
          \A b \in Bundled : command.held[b] \in {registry[b], upstream[b]}
    /\ command.cmd \in Syncing /\ command.pc \in {"sync", "clear", "copy"} /\ ~command.changed =>
          command.held = registry
    /\ command.pc = "syncStore" => InSync(command.held)
    /\ command.pc \in {"discover", "listed"} => InSync(registry)
    /\ command.pc = "listed" => \A p \in M!Plugins : registry[p] > 0 => M!HasManifest(p)

PluginsInv ==
    /\ PluginTypes /\ PluginPhases /\ Targets /\ Installing /\ Listing
    /\ Current(registry) /\ Current(command.held) /\ NotAhead(registry) /\ NotAhead(command.held)

LEMMA PluginFacts ==
  /\ M!Plugins # {} /\ External \subseteq M!Plugins /\ Bundled \subseteq M!Plugins
  /\ \A p \in External : p \notin Bundled
  /\ MaxVersion \in Nat \ {0} /\ M!Versions \subseteq Nat /\ 0 \in M!Versions /\ 1 \in M!Versions
  /\ M!Nothing \in Recorded /\ \A p \in M!Plugins : M!Nothing[p] = 0
BY PluginsAssumption DEF M!Populated, M!Plugins, M!Versions, M!Nothing, Recorded

LEMMA IdleFits ==
  /\ M!Idle \in CommandRec /\ M!Idle.cmd = "none" /\ M!Idle.pc = "idle" /\ M!Idle.held = M!Nothing
  /\ M!Idle.target \in M!Plugins
<1> DEFINE one == CHOOSE p \in M!Plugins : TRUE
<1>1. one \in M!Plugins
  BY PluginFacts
<1>2. M!Idle = [cmd |-> "none", target |-> one, at |-> one, pc |-> "idle", held |-> M!Nothing,
                version |-> 0, changed |-> FALSE]
  BY DEF M!Idle
<1> HIDE DEF one
<1> QED BY <1>1, <1>2, PluginFacts DEF CommandRec, CommandPcs

LEMMA CommandFields ==
  ASSUME PluginTypes
  PROVE  /\ command.cmd \in M!Commands \cup {"none"} /\ command.target \in M!Plugins /\ command.at \in M!Plugins
         /\ command.pc \in CommandPcs /\ command.held \in Recorded /\ command.version \in M!Versions
         /\ command.changed \in BOOLEAN
BY DEF PluginTypes, CommandRec

LEMMA GoesOn ==
  ASSUME PluginTypes, NEW x \in CommandPcs, command' = [command EXCEPT !.pc = x]
  PROVE  /\ command' \in CommandRec /\ command'.pc = x /\ command'.cmd = command.cmd
         /\ command'.target = command.target /\ command'.at = command.at /\ command'.held = command.held
         /\ command'.version = command.version /\ command'.changed = command.changed
BY DEF PluginTypes, CommandRec

(* A command ends when nothing is left that only it knows of.              *)
LEMMA CommandEnds ==
  ASSUME command' = M!Idle, upstream \in Recorded, UNCHANGED upstream,
         registry' \in Recorded, dir' \in [M!Plugins -> [version : M!Versions, part : M!Parts]],
         switch' \in [M!Plugins -> {"unset", "on", "off"}], cut' \subseteq Bundled,
         NotAhead(registry)',
         \A b \in Bundled : registry'[b] = upstream[b] /\ upstream[b] > 0 /\ b \notin cut'
                            => dir'[b] = Copied(upstream[b], "whole")
  PROVE  PluginsInv'
<1>1. /\ command' \in CommandRec /\ command'.cmd = "none" /\ command'.pc = "idle"
      /\ \A b \in Bundled : command'.held[b] = 0
  BY IdleFits, PluginFacts
<1>2. PluginTypes'
  BY <1>1 DEF PluginTypes
<1>3. PluginPhases' /\ Targets' /\ Installing' /\ Listing'
  BY <1>1 DEF PluginPhases, Targets, Installing, Listing, Syncing
<1>4. \A b \in Bundled : upstream'[b] = upstream[b] /\ upstream[b] \in Nat
  BY PluginFacts DEF Recorded
<1>5. Current(registry)'
  BY <1>4 DEF Current
<1>6. Current(command.held)' /\ NotAhead(command.held)'
  BY <1>1, <1>4 DEF Current, NotAhead
<1> QED BY <1>2, <1>3, <1>5, <1>6 DEF PluginsInv


LEMMA InterruptedInv ==
  ASSUME PluginsInv, M!Interrupted
  PROVE  PluginsInv'
<1>1. /\ PluginTypes /\ PluginPhases /\ Targets /\ Current(registry) /\ NotAhead(registry)
      /\ command' = M!Idle /\ UNCHANGED upstream /\ upstream \in Recorded
  BY DEF PluginsInv, PluginTypes, M!Interrupted
<1>2. /\ command.at \in M!Plugins /\ command.cmd \in M!Commands /\ command.pc # "idle"
  BY <1>1, CommandFields DEF PluginPhases, M!Interrupted
<1>3. dir' \in [M!Plugins -> [version : M!Versions, part : M!Parts]]
  <2>1. M!Remains \subseteq [version : M!Versions, part : M!Parts]
    BY PluginFacts DEF M!Remains, M!Parts
  <2>2. \A d \in M!Remains \cup {dir[command.at]} : d \in [version : M!Versions, part : M!Parts]
    BY <1>1, <1>2, <2>1 DEF PluginTypes
  <2>3. CASE command.pc \in {"clear", "copy"}
    BY <1>1, <2>2, <2>3 DEF M!Interrupted, PluginTypes
  <2>4. CASE command.pc \notin {"clear", "copy"}
    BY <1>1, <2>4 DEF M!Interrupted, PluginTypes
  <2> QED BY <2>3, <2>4
<1>4. \A p \in M!Plugins : dir'[p] = dir[p] \/ (p = command.at /\ command.pc \in {"clear", "copy"})
  BY <1>1, <1>2 DEF M!Interrupted, PluginTypes
<1>5. registry' \in {registry, M!Nothing}
  BY DEF M!Interrupted
<1>6. switch' \in [M!Plugins -> {"unset", "on", "off"}]
  BY <1>1 DEF M!Interrupted, PluginTypes
<1>7. /\ cut \subseteq cut' /\ cut' \subseteq Bundled
      /\ command.cmd = "update" /\ command.pc \in {"clear", "copy"} /\ command.at \in Bundled => command.at \in cut'
  BY <1>1 DEF M!Interrupted, PluginTypes
<1>8. registry' \in Recorded /\ NotAhead(registry)'
  <2>1. \A b \in Bundled : upstream[b] \in Nat
    BY <1>1, PluginFacts DEF Recorded
  <2> QED BY <1>1, <1>5, <2>1, PluginFacts DEF PluginTypes, NotAhead
<1>9. ASSUME NEW b \in Bundled, registry'[b] = upstream[b], upstream[b] > 0, b \notin cut'
      PROVE  dir'[b] = Copied(upstream[b], "whole")
  <2>1. registry' = registry
    BY <1>1, <1>5, <1>9, PluginFacts
  <2>2. ~(command.cmd = "update" /\ command.pc = "copy" /\ command.at = b)
    BY <1>7, <1>9
  <2>3. dir[b] = Copied(upstream[b], "whole")
    BY <1>1, <1>7, <1>9, <2>1, <2>2 DEF Current
  <2>4. dir'[b] = dir[b]
    <3>1. CASE b = command.at /\ command.pc \in {"clear", "copy"}
      <4>1. command.cmd \in Syncing
        BY <1>1, <1>2, <1>7, <1>9, <3>1, PluginFacts DEF Targets, Syncing, M!Commands
      <4> QED BY <1>1, <1>7, <1>9, <2>1, <3>1, <4>1 DEF Targets
    <3>2. CASE ~(b = command.at /\ command.pc \in {"clear", "copy"})
      BY <1>4, <3>2, PluginFacts
    <3> QED BY <3>1, <3>2
  <2> QED BY <2>3, <2>4
<1> QED BY <1>1, <1>3, <1>6, <1>7, <1>8, <1>9, CommandEnds

LEMMA BeginInv ==
  ASSUME PluginsInv, NEW cmd \in M!Commands, NEW p \in M!Plugins, M!Begin(cmd, p)
  PROVE  PluginsInv'
<1> DEFINE rec == IF cmd = "install" THEN M!Nothing ELSE registry
           ver == IF cmd \in {"install", "update"} THEN upstream[p] ELSE 0
           first == CASE cmd \in {"install", "update"} -> "stage"
                      [] cmd = "uninstall" -> "clear"
                      [] OTHER -> "sync"
<1>1. /\ PluginTypes /\ Current(registry) /\ NotAhead(registry)
      /\ command = M!Idle /\ UNCHANGED <<upstream, dir, registry, switch, cut>>
  BY DEF PluginsInv, M!Begin, M!files
<1>2. command' = [cmd |-> cmd, target |-> p, at |-> p, changed |-> FALSE, held |-> rec, version |-> ver, pc |-> first]
  BY DEF M!Begin
<1>3. rec \in Recorded /\ ver \in M!Versions /\ first \in CommandPcs
  BY <1>1, PluginFacts DEF PluginTypes, Recorded, CommandPcs
<1>4. /\ cmd = "install" => p \in External
      /\ cmd = "uninstall" => p \in External
  BY DEF M!Begin
<1>5. /\ cmd = "install" \/ cmd = "update" \/ cmd = "uninstall" \/ cmd \in Syncing
      /\ cmd \in {"install", "update"} => first = "stage"
      /\ cmd = "uninstall" => first = "clear"
      /\ cmd \in Syncing => first = "sync" /\ rec = registry
      /\ rec = registry \/ rec = M!Nothing
      /\ cmd \in {"install", "update"} => ver = upstream[p]
  BY DEF M!Commands, Syncing
<1> HIDE DEF rec, ver, first
<1>6. /\ command' \in CommandRec /\ command'.cmd = cmd /\ command'.target = p /\ command'.at = p
      /\ command'.changed = FALSE /\ command'.held = rec /\ command'.version = ver /\ command'.pc = first
  BY <1>2, <1>3 DEF CommandRec
<1>7. PluginTypes'
  BY <1>1, <1>6 DEF PluginTypes
<1>8. PluginPhases'
  BY <1>5, <1>6 DEF PluginPhases, M!Commands, Syncing
<1>9. Targets' /\ Installing'
  BY <1>1, <1>4, <1>5, <1>6 DEF Targets, Installing, Syncing
<1>10. Listing'
  BY <1>1, <1>5, <1>6 DEF Listing, Syncing
<1>11. Current(registry)' /\ NotAhead(registry)'
  BY <1>1, <1>5, <1>6, IdleFits DEF Current, NotAhead, Syncing
<1>12. \A b \in Bundled : upstream[b] \in Nat /\ M!Nothing[b] = 0
  BY <1>1, PluginFacts DEF PluginTypes, Recorded
<1>13. Current(command.held)' /\ NotAhead(command.held)'
  BY <1>1, <1>5, <1>6, <1>11, <1>12 DEF Current, NotAhead
<1> QED BY <1>7, <1>8, <1>9, <1>10, <1>11, <1>13 DEF PluginsInv

LEMMA StageInv ==
  ASSUME PluginsInv, M!Stage
  PROVE  PluginsInv'
<1>1. /\ command.pc = "stage" /\ UNCHANGED <<upstream, dir, registry, switch, cut>>
      /\ command' \in CommandRec /\ command'.pc = "clear" /\ command'.cmd = command.cmd
      /\ command'.target = command.target /\ command'.at = command.at /\ command'.held = command.held
      /\ command'.version = command.version /\ command'.changed = command.changed
  BY GoesOn DEF M!Stage, M!At, M!Goto, M!files, PluginsInv, CommandPcs
<1>2. command.cmd \in {"install", "update"}
  BY <1>1, CommandFields DEF PluginsInv, PluginPhases, M!Commands, Syncing
<1>3. PluginTypes' /\ PluginPhases'
  BY <1>1, <1>2 DEF PluginsInv, PluginTypes, PluginPhases, Syncing
<1>4. Targets' /\ Installing' /\ Listing'
  BY <1>1, <1>2 DEF PluginsInv, Targets, Installing, Listing, Syncing
<1>5. Current(registry)' /\ Current(command.held)' /\ NotAhead(registry)' /\ NotAhead(command.held)'
  BY <1>1, <1>2 DEF PluginsInv, Current, NotAhead
<1> QED BY <1>3, <1>4, <1>5 DEF PluginsInv

LEMMA ClearInv ==
  ASSUME PluginsInv, M!Clear
  PROVE  PluginsInv'
<1> DEFINE next == IF command.cmd = "uninstall" THEN "store" ELSE "copy"
<1>1. /\ command.pc = "clear" /\ UNCHANGED <<upstream, registry, switch, cut>>
      /\ dir' = [dir EXCEPT ![command.at] = M!NoCopy]
      /\ PluginTypes /\ PluginPhases /\ Targets
  BY DEF M!Clear, M!At, PluginsInv
<1>2. /\ command' \in CommandRec /\ command'.pc = next /\ command'.cmd = command.cmd
      /\ command'.target = command.target /\ command'.at = command.at /\ command'.held = command.held
      /\ command'.version = command.version /\ command'.changed = command.changed
  BY GoesOn DEF M!Clear, M!Goto, PluginsInv, CommandPcs
<1>3. command.cmd \in {"install", "update", "uninstall"} \cup Syncing /\ command.at \in M!Plugins
  BY <1>1, CommandFields DEF PluginPhases, M!Commands, Syncing
<1>4. (next = "store" /\ command.cmd = "uninstall") \/ (next = "copy" /\ command.cmd # "uninstall")
  OBVIOUS
<1> HIDE DEF next
<1>5. PluginTypes'
  BY <1>1, <1>2, <1>3, PluginFacts DEF PluginTypes, M!NoCopy, M!Parts
<1>6. PluginPhases' /\ Targets' /\ Installing' /\ Listing'
  BY <1>1, <1>2, <1>3, <1>4 DEF PluginsInv, PluginPhases, Targets, Installing, Listing, Syncing
<1>7. \A p \in M!Plugins : p # command.at => dir'[p] = dir[p]
  BY <1>1 DEF PluginTypes
<1>8. ASSUME NEW rec, rec \in {registry, command.held}, Current(rec), NEW b \in Bundled,
             rec[b] = upstream[b], upstream[b] > 0, b \notin cut,
             ~(command'.cmd = "update" /\ command'.pc = "copy" /\ command'.at = b)
      PROVE  dir'[b] = Copied(upstream[b], "whole")
  <2>1. dir[b] = Copied(upstream[b], "whole")
    BY <1>1, <1>8 DEF Current
  <2>2. b # command.at
    BY <1>1, <1>2, <1>3, <1>4, <1>8, PluginFacts DEF Targets, Syncing
  <2> QED BY <1>7, <2>1, <2>2, PluginFacts
<1>9. Current(registry)' /\ Current(command.held)'
  BY <1>1, <1>2, <1>8 DEF PluginsInv, Current
<1>10. NotAhead(registry)' /\ NotAhead(command.held)'
  BY <1>1, <1>2 DEF PluginsInv, NotAhead
<1> QED BY <1>5, <1>6, <1>9, <1>10 DEF PluginsInv

LEMMA CopyInv ==
  ASSUME PluginsInv, M!Copy
  PROVE  PluginsInv'
<1>1. /\ command.pc = "copy" /\ UNCHANGED <<upstream, registry, switch>> /\ cut' = cut \ {command.at}
      /\ dir' = [dir EXCEPT ![command.at] = Copied(command.version, "whole")]
      /\ PluginTypes /\ PluginPhases /\ Targets /\ Current(registry) /\ Current(command.held)
  BY DEF M!Copy, M!At, PluginsInv, Copied
<1>2. /\ command.cmd \in {"install", "update"} \cup Syncing /\ command.at \in M!Plugins /\ command.held \in Recorded
      /\ command.version \in M!Versions /\ command.target \in M!Plugins
  BY <1>1, CommandFields DEF PluginPhases, M!Commands, Syncing
<1>3. /\ dir'[command.at] = Copied(command.version, "whole")
      /\ \A p \in M!Plugins : p # command.at => dir'[p] = dir[p]
      /\ dir' \in [M!Plugins -> [version : M!Versions, part : M!Parts]]
      /\ cut' \subseteq Bundled
  BY <1>1, <1>2 DEF PluginTypes, M!Parts, Copied
<1>4. command.at \in Bundled => command.version = upstream[command.at]
  BY <1>1, <1>2 DEF Targets, Syncing
<1>5. ASSUME NEW rec, Current(rec), NEW b \in Bundled, rec[b] = upstream[b], upstream[b] > 0, b \notin cut'
      PROVE  dir'[b] = Copied(upstream[b], "whole")
  <2>1. CASE b = command.at
    BY <1>3, <1>4, <2>1
  <2>2. CASE b # command.at
    BY <1>1, <1>3, <1>5, <2>2, PluginFacts DEF Current
  <2> QED BY <2>1, <2>2
<1>6. CASE command.cmd \in {"install", "update"}
  <2> DEFINE next == IF command.cmd = "install" THEN "build" ELSE "store"
  <2>1. command' = [command EXCEPT !.pc = next]
    BY <1>6 DEF M!Copy
  <2>2. /\ command' \in CommandRec /\ command'.pc = next /\ command'.cmd = command.cmd
        /\ command'.target = command.target /\ command'.at = command.at /\ command'.held = command.held
        /\ command'.version = command.version /\ command'.changed = command.changed
    BY <1>1, <2>1, GoesOn DEF CommandPcs
  <2>3. (next = "build" /\ command.cmd = "install") \/ (next = "store" /\ command.cmd = "update")
    BY <1>6
  <2> HIDE DEF next
  <2>4. PluginTypes' /\ PluginPhases'
    BY <1>1, <1>3, <2>2, <2>3 DEF PluginTypes, PluginPhases, Syncing
  <2>5. Targets' /\ Installing' /\ Listing'
    BY <1>1, <1>3, <2>2, <2>3 DEF PluginsInv, Targets, Installing, Listing, Syncing
  <2>6. Current(registry)' /\ Current(command.held)'
    BY <1>1, <1>5, <2>2 DEF Current
  <2>7. NotAhead(registry)' /\ NotAhead(command.held)'
    BY <1>1, <2>2 DEF PluginsInv, NotAhead
  <2> QED BY <2>4, <2>5, <2>6, <2>7 DEF PluginsInv
<1>7. CASE command.cmd \in Syncing
  <2> DEFINE rec == [command.held EXCEPT ![command.at] = command.version]
  <2>1. command' = [command EXCEPT !.pc = "sync", !.held[command.at] = command.version, !.changed = TRUE]
    BY <1>7 DEF M!Copy, Syncing
  <2>2. /\ command'.pc = "sync" /\ command'.cmd = command.cmd /\ command'.target = command.target
        /\ command'.at = command.at /\ command'.held = rec
        /\ command'.version = command.version /\ command'.changed = TRUE
    BY <1>1, <2>1 DEF PluginTypes, CommandRec
  <2>3. rec \in Recorded /\ rec[command.at] = command.version /\ \A p \in M!Plugins : p # command.at => rec[p] = command.held[p]
    BY <1>2 DEF Recorded
  <2>4. command' \in CommandRec
    <3> HIDE DEF rec
    <3>1. command' = [command EXCEPT !.pc = "sync", !.held = rec, !.changed = TRUE]
      BY <2>1 DEF rec
    <3> QED BY <1>1, <2>3, <3>1 DEF PluginTypes, CommandRec, CommandPcs
  <2> HIDE DEF rec
  <2>5. PluginTypes' /\ PluginPhases'
    BY <1>1, <1>3, <1>7, <2>2, <2>4 DEF PluginTypes, PluginPhases, Syncing
  <2>6. command.at \in Bundled /\ command.version = upstream[command.at] /\ upstream[command.at] \in Nat
    BY <1>1, <1>7, PluginFacts DEF Targets, PluginTypes, Recorded
  <2>7. Targets' /\ Installing'
    BY <1>7, <2>2 DEF Targets, Installing, Syncing
  <2>8. Listing'
    BY <1>1, <1>7, <2>2, <2>3, <2>6, PluginFacts DEF PluginsInv, Listing, Syncing
  <2>9. Current(registry)'
    BY <1>1, <1>5 DEF Current
  <2>10. ASSUME NEW b \in Bundled, rec[b] = upstream[b], upstream[b] > 0, b \notin cut'
         PROVE  dir'[b] = Copied(upstream[b], "whole")
    <3>1. CASE b = command.at
      BY <1>3, <1>4, <3>1
    <3>2. CASE b # command.at
      BY <1>1, <1>5, <2>3, <2>10, <3>2, PluginFacts
    <3> QED BY <3>1, <3>2
  <2>11. Current(command.held)'
    BY <1>1, <2>2, <2>10 DEF Current
  <2>12. NotAhead(registry)' /\ NotAhead(command.held)'
    BY <1>1, <2>2, <2>3, <2>6, PluginFacts DEF PluginsInv, NotAhead
  <2> QED BY <2>5, <2>7, <2>8, <2>9, <2>11, <2>12 DEF PluginsInv
<1> QED BY <1>2, <1>6, <1>7

LEMMA BuildInv ==
  ASSUME PluginsInv, M!Build
  PROVE  PluginsInv'
<1>1. /\ command.pc = "build" /\ UNCHANGED <<upstream, registry, switch, cut>>
      /\ PluginTypes /\ PluginPhases /\ Targets /\ Current(registry) /\ Current(command.held)
      /\ NotAhead(registry) /\ NotAhead(command.held)
  BY DEF M!Build, M!At, PluginsInv
<1>2. /\ command.cmd = "install" /\ command.target \in External /\ command.target \in M!Plugins
      /\ dir[command.target] = Copied(command.version, "whole") /\ command.version \in M!Versions
  BY <1>1, CommandFields DEF PluginsInv, PluginPhases, Installing, Targets, M!Commands, Syncing
<1>3. ASSUME \A p \in M!Plugins : p # command.target => dir'[p] = dir[p],
             NEW rec, Current(rec), NEW b \in Bundled, rec[b] = upstream[b], upstream[b] > 0, b \notin cut
      PROVE  dir'[b] = Copied(upstream[b], "whole")
  BY <1>1, <1>2, <1>3, PluginFacts DEF Current
<1>4. CASE dir' = [dir EXCEPT ![command.target].part = "built"] /\ M!Goto("store")
  <2>1. /\ command' \in CommandRec /\ command'.pc = "store" /\ command'.cmd = command.cmd
        /\ command'.target = command.target /\ command'.at = command.at /\ command'.held = command.held
        /\ command'.version = command.version /\ command'.changed = command.changed
    BY <1>1, <1>4, GoesOn DEF M!Goto, CommandPcs
  <2>2. /\ dir'[command.target] = Copied(command.version, "built")
        /\ \A p \in M!Plugins : p # command.target => dir'[p] = dir[p]
        /\ dir' \in [M!Plugins -> [version : M!Versions, part : M!Parts]]
    BY <1>1, <1>2, <1>4 DEF PluginTypes, M!Parts, Copied
  <2>3. PluginTypes' /\ PluginPhases'
    BY <1>1, <1>2, <2>1, <2>2 DEF PluginTypes, PluginPhases, Syncing
  <2>4. Targets' /\ Installing' /\ Listing'
    BY <1>1, <1>2, <2>1, <2>2 DEF Targets, Installing, Listing, Syncing
  <2>5. Current(registry)' /\ Current(command.held)' /\ NotAhead(registry)' /\ NotAhead(command.held)'
    BY <1>1, <1>3, <2>1, <2>2 DEF Current, NotAhead
  <2> QED BY <2>3, <2>4, <2>5 DEF PluginsInv
<1>5. CASE dir' = [dir EXCEPT ![command.target] = M!NoCopy] /\ command' = M!Idle
  <2>1. /\ \A p \in M!Plugins : p # command.target => dir'[p] = dir[p]
        /\ dir' \in [M!Plugins -> [version : M!Versions, part : M!Parts]]
    BY <1>1, <1>2, <1>5, PluginFacts DEF PluginTypes, M!Parts, M!NoCopy
  <2>2. \A b \in Bundled : registry[b] = upstream[b] /\ upstream[b] > 0 /\ b \notin cut
                           => dir'[b] = Copied(upstream[b], "whole")
    BY <1>1, <1>3, <2>1
  <2>3. NotAhead(registry)'
    BY <1>1 DEF NotAhead
  <2> QED BY <1>1, <1>5, <2>1, <2>2, <2>3, CommandEnds DEF PluginTypes
<1> QED BY <1>4, <1>5 DEF M!Build

LEMMA StoreInv ==
  ASSUME PluginsInv, M!Store
  PROVE  PluginsInv'
<1> DEFINE rec == IF command.cmd = "install" THEN registry ELSE command.held
           ver == IF command.cmd = "uninstall" THEN 0 ELSE command.version
<1>1. /\ command.pc = "store" /\ UNCHANGED <<upstream, dir, switch, cut>>
      /\ registry' = [rec EXCEPT ![command.target] = ver]
      /\ PluginTypes /\ PluginPhases /\ Targets /\ Installing /\ Current(registry) /\ Current(command.held)
      /\ NotAhead(registry) /\ NotAhead(command.held)
  BY DEF M!Store, M!At, PluginsInv
<1>2. /\ command.cmd \in {"install", "update", "uninstall"} /\ command.target \in M!Plugins
      /\ command.version \in M!Versions /\ command.held \in Recorded /\ registry \in Recorded /\ upstream \in Recorded
  BY <1>1, CommandFields DEF PluginPhases, PluginTypes, M!Commands, Syncing
<1>3. rec \in Recorded /\ ver \in M!Versions /\ Current(rec) /\ NotAhead(rec)
  BY <1>1, <1>2, PluginFacts
<1>4. command.cmd # "uninstall" => ver = command.version
  OBVIOUS
<1> HIDE DEF rec, ver
<1>5. /\ registry' \in Recorded /\ registry'[command.target] = ver
      /\ \A p \in M!Plugins : p # command.target => registry'[p] = rec[p]
  BY <1>1, <1>2, <1>3 DEF Recorded
<1>6. /\ command.target \in Bundled => /\ command.cmd = "update" /\ ver = upstream[command.target]
                                       /\ dir[command.target] = Copied(upstream[command.target], "whole")
      /\ \A b \in Bundled : upstream[b] \in Nat
  BY <1>1, <1>2, <1>4, PluginFacts DEF Targets, Recorded
<1>7. NotAhead(registry)'
  BY <1>1, <1>3, <1>5, <1>6, PluginFacts DEF NotAhead
<1>8. ASSUME NEW b \in Bundled, registry'[b] = upstream[b], upstream[b] > 0, b \notin cut
      PROVE  dir[b] = Copied(upstream[b], "whole")
  BY <1>1, <1>3, <1>5, <1>6, <1>8, PluginFacts DEF Current
<1>9. CASE command.cmd = "update"
  <2>1. command' = M!Idle
    BY <1>9 DEF M!Store
  <2> QED BY <1>1, <1>2, <1>5, <1>7, <1>8, <2>1, CommandEnds DEF PluginTypes
<1>10. CASE command.cmd # "update"
  <2>1. /\ command' \in CommandRec /\ command'.pc = "switch" /\ command'.cmd = command.cmd
        /\ command'.target = command.target /\ command'.at = command.at /\ command'.held = command.held
        /\ command'.version = command.version /\ command'.changed = command.changed
    BY <1>1, <1>10, GoesOn DEF M!Store, M!Goto, CommandPcs
  <2>2. PluginTypes' /\ PluginPhases'
    BY <1>1, <1>2, <1>5, <1>10, <2>1 DEF PluginTypes, PluginPhases, Syncing
  <2>3. Targets' /\ Installing' /\ Listing'
    BY <1>1, <1>2, <1>4, <1>5, <1>10, <2>1 DEF Targets, Installing, Listing, Syncing
  <2>4. Current(registry)' /\ Current(command.held)' /\ NotAhead(command.held)'
    BY <1>1, <1>8, <2>1 DEF Current, NotAhead
  <2> QED BY <1>7, <2>2, <2>3, <2>4 DEF PluginsInv
<1> QED BY <1>9, <1>10

LEMMA WriteSwitchInv ==
  ASSUME PluginsInv, M!WriteSwitch
  PROVE  PluginsInv'
<1>1. /\ command.pc = "switch" /\ UNCHANGED <<upstream, dir, registry, cut>>
      /\ switch' = [switch EXCEPT ![command.target] = M!SwitchTo(command.cmd)]
      /\ PluginTypes /\ PluginPhases /\ Targets /\ Installing /\ Current(registry) /\ Current(command.held)
      /\ NotAhead(registry) /\ NotAhead(command.held)
  BY DEF M!WriteSwitch, M!At, PluginsInv
<1>2. M!SwitchTo(command.cmd) \in {"unset", "on", "off"} /\ (command.cmd = "install" => M!SwitchTo(command.cmd) = "on")
  BY DEF M!SwitchTo
<1>3. /\ switch' \in [M!Plugins -> {"unset", "on", "off"}]
      /\ command.cmd = "install" => switch'[command.target] = "on"
  BY <1>1, <1>2, CommandFields DEF PluginTypes
<1>4. CASE command.cmd = "install"
  <2>1. /\ command' \in CommandRec /\ command'.pc = "installed" /\ command'.cmd = command.cmd
        /\ command'.target = command.target /\ command'.at = command.at /\ command'.held = command.held
        /\ command'.version = command.version /\ command'.changed = command.changed
    BY <1>1, <1>4, GoesOn DEF M!WriteSwitch, M!Goto, CommandPcs
  <2>2. PluginTypes' /\ PluginPhases'
    BY <1>1, <1>3, <1>4, <2>1 DEF PluginTypes, PluginPhases, Syncing
  <2>3. Targets' /\ Installing' /\ Listing'
    BY <1>1, <1>3, <1>4, <2>1 DEF Targets, Installing, Listing, Syncing
  <2>4. Current(registry)' /\ Current(command.held)' /\ NotAhead(registry)' /\ NotAhead(command.held)'
    BY <1>1, <2>1 DEF Current, NotAhead
  <2> QED BY <2>2, <2>3, <2>4 DEF PluginsInv
<1>5. CASE command.cmd # "install"
  <2>1. command' = M!Idle
    BY <1>5 DEF M!WriteSwitch
  <2>2. NotAhead(registry)'
    BY <1>1 DEF NotAhead
  <2> QED BY <1>1, <1>3, <2>1, <2>2, CommandEnds DEF PluginTypes, Current
<1> QED BY <1>4, <1>5

LEMMA SyncOneInv ==
  ASSUME PluginsInv, NEW b \in Bundled, M!SyncOne(b)
  PROVE  PluginsInv'
<1> DEFINE next == IF dir[b].part = "none" THEN "copy" ELSE "clear"
<1>1. /\ command.pc = "sync" /\ UNCHANGED <<upstream, dir, registry, switch, cut>> /\ upstream[b] > 0
      /\ M!NeedsSync(b) /\ command' = [command EXCEPT !.at = b, !.version = upstream[b], !.pc = next]
      /\ PluginTypes /\ PluginPhases /\ Targets /\ Listing /\ Current(registry) /\ Current(command.held)
      /\ NotAhead(registry) /\ NotAhead(command.held)
  BY DEF M!SyncOne, M!At, M!files, PluginsInv
<1>2. next \in {"copy", "clear"}
  OBVIOUS
<1> HIDE DEF next
<1>3. command.cmd \in Syncing /\ command.held \in Recorded
  BY <1>1, CommandFields DEF PluginPhases, M!Commands, Syncing
<1>4. b \in M!Plugins /\ upstream[b] \in M!Versions /\ upstream[b] \in Nat
  BY <1>1, PluginFacts DEF PluginTypes, Recorded
<1>5. /\ command' \in CommandRec /\ command'.pc = next /\ command'.cmd = command.cmd
      /\ command'.target = command.target /\ command'.at = b /\ command'.held = command.held
      /\ command'.version = upstream[b] /\ command'.changed = command.changed
  BY <1>1, <1>2, <1>4 DEF PluginTypes, CommandRec, CommandPcs
<1>6. PluginTypes' /\ PluginPhases'
  BY <1>1, <1>2, <1>3, <1>5 DEF PluginTypes, PluginPhases, Syncing
<1>7. command.held[b] = upstream[b] => b \in cut
  <2> SUFFICES ASSUME command.held[b] = upstream[b], b \notin cut PROVE FALSE
    OBVIOUS
  <2>1. dir[b] = Copied(upstream[b], "whole")
    BY <1>1 DEF Current
  <2>2. M!Loads(b)
    BY <2>1 DEF M!Loads, Copied
  <2> QED BY <1>1, <1>4, <2>2 DEF M!NeedsSync
<1>8. registry[b] = upstream[b] => command.held[b] = upstream[b]
  BY <1>1, <1>3 DEF Listing
<1>9. Targets' /\ Installing'
  BY <1>1, <1>3, <1>5, <1>7, <1>8 DEF Targets, Installing, Syncing
<1>10. Listing'
  BY <1>1, <1>2, <1>3, <1>5 DEF Listing
<1>11. Current(registry)' /\ Current(command.held)' /\ NotAhead(registry)' /\ NotAhead(command.held)'
  BY <1>1, <1>3, <1>5 DEF Current, NotAhead, Syncing
<1> QED BY <1>6, <1>9, <1>10, <1>11 DEF PluginsInv

LEMMA SyncStaleInv ==
  ASSUME PluginsInv, NEW b \in Bundled, M!SyncStale(b)
  PROVE  PluginsInv'
<1> DEFINE rec == [command.held EXCEPT ![b] = 0]
<1>1. /\ command.pc = "sync" /\ UNCHANGED <<upstream, registry, switch, cut>> /\ upstream[b] = 0
      /\ dir' = [dir EXCEPT ![b] = M!NoCopy] /\ command' = [command EXCEPT !.held[b] = 0, !.changed = TRUE]
      /\ PluginTypes /\ PluginPhases /\ Targets /\ Listing /\ Current(registry) /\ Current(command.held)
      /\ NotAhead(registry) /\ NotAhead(command.held)
  BY DEF M!SyncStale, M!At, PluginsInv
<1>2. command.cmd \in Syncing /\ command.held \in Recorded /\ b \in M!Plugins
  BY <1>1, CommandFields, PluginFacts DEF PluginPhases, M!Commands, Syncing
<1>3. command' = [command EXCEPT !.held = rec, !.changed = TRUE]
  BY <1>1
<1>4. rec \in Recorded /\ rec[b] = 0 /\ \A p \in M!Plugins : p # b => rec[p] = command.held[p]
  BY <1>2, PluginFacts DEF Recorded
<1> HIDE DEF rec
<1>5. /\ command' \in CommandRec /\ command'.pc = "sync" /\ command'.cmd = command.cmd
      /\ command'.target = command.target /\ command'.at = command.at /\ command'.held = rec
      /\ command'.version = command.version /\ command'.changed = TRUE
  BY <1>1, <1>3, <1>4 DEF PluginTypes, CommandRec
<1>6. /\ dir' \in [M!Plugins -> [version : M!Versions, part : M!Parts]]
      /\ \A p \in M!Plugins : p # b => dir'[p] = dir[p]
  BY <1>1, <1>2, PluginFacts DEF PluginTypes, M!Parts, M!NoCopy
<1>7. PluginTypes' /\ PluginPhases'
  BY <1>1, <1>2, <1>5, <1>6 DEF PluginTypes, PluginPhases, Syncing
<1>8. Targets' /\ Installing'
  BY <1>1, <1>2, <1>5 DEF Targets, Installing, Syncing
<1>9. Listing'
  BY <1>1, <1>2, <1>4, <1>5, PluginFacts DEF Listing
<1>10. ~(upstream[b] > 0) /\ \A p \in Bundled : p # b => rec[p] = command.held[p] /\ dir'[p] = dir[p]
  BY <1>1, <1>4, <1>6, PluginFacts
<1>11. Current(registry)' /\ Current(command.held)'
  BY <1>1, <1>5, <1>10 DEF Current
<1>12. NotAhead(registry)' /\ NotAhead(command.held)'
  BY <1>1, <1>5, <1>10 DEF NotAhead
<1> QED BY <1>7, <1>8, <1>9, <1>11, <1>12 DEF PluginsInv

LEMMA SyncDoneInv ==
  ASSUME PluginsInv, M!SyncDone
  PROVE  PluginsInv'
<1> DEFINE next == IF command.changed THEN "syncStore" ELSE "discover"
<1>1. /\ command.pc = "sync" /\ UNCHANGED <<upstream, dir, registry, switch, cut>>
      /\ \A b \in Bundled : IF upstream[b] > 0 THEN ~M!NeedsSync(b) ELSE command.held[b] = 0
      /\ command' = [command EXCEPT !.pc = next]
      /\ PluginTypes /\ PluginPhases /\ Targets /\ Listing /\ Current(registry) /\ Current(command.held)
      /\ NotAhead(registry) /\ NotAhead(command.held)
  BY DEF M!SyncDone, M!At, M!Goto, M!files, PluginsInv
<1>2. command.cmd \in Syncing
  BY <1>1, CommandFields DEF PluginPhases, M!Commands, Syncing
<1>3. (next = "syncStore" /\ command.changed) \/ (next = "discover" /\ ~command.changed)
  OBVIOUS
<1> HIDE DEF next
<1>4. /\ command' \in CommandRec /\ command'.pc = next /\ command'.cmd = command.cmd
      /\ command'.target = command.target /\ command'.at = command.at /\ command'.held = command.held
      /\ command'.version = command.version /\ command'.changed = command.changed
  BY <1>1, <1>3, GoesOn DEF CommandPcs
<1>5. InSync(command.held)
  <2> SUFFICES ASSUME NEW b \in Bundled
               PROVE  command.held[b] = upstream[b] /\ (upstream[b] > 0 => M!Loads(b))
    BY DEF InSync
  <2>1. upstream[b] \in Nat
    BY <1>1, PluginFacts DEF PluginTypes, Recorded
  <2> QED BY <1>1, <2>1 DEF M!NeedsSync
<1>6. InSync(command.held)' /\ (~command.changed => InSync(registry)')
  BY <1>1, <1>2, <1>4, <1>5 DEF InSync, M!Loads, Listing
<1>7. PluginTypes' /\ PluginPhases'
  BY <1>1, <1>2, <1>3, <1>4 DEF PluginTypes, PluginPhases, Syncing
<1>8. Targets' /\ Installing'
  BY <1>1, <1>2, <1>3, <1>4 DEF Targets, Installing, Syncing
<1>9. Listing'
  BY <1>1, <1>2, <1>3, <1>4, <1>6 DEF Listing
<1>10. Current(registry)' /\ Current(command.held)' /\ NotAhead(registry)' /\ NotAhead(command.held)'
  BY <1>1, <1>2, <1>4 DEF Current, NotAhead, Syncing
<1> QED BY <1>7, <1>8, <1>9, <1>10 DEF PluginsInv

LEMMA SyncStoreInv ==
  ASSUME PluginsInv, M!SyncStore
  PROVE  PluginsInv'
<1>1. /\ command.pc = "syncStore" /\ UNCHANGED <<upstream, dir, switch, cut>> /\ registry' = command.held
      /\ PluginTypes /\ PluginPhases /\ Targets /\ Listing /\ Current(command.held) /\ NotAhead(command.held)
  BY DEF M!SyncStore, M!At, PluginsInv
<1>2. command.cmd \in Syncing /\ command.held \in Recorded
  BY <1>1, CommandFields DEF PluginPhases, M!Commands, Syncing
<1>3. /\ command' \in CommandRec /\ command'.pc = "discover" /\ command'.cmd = command.cmd
      /\ command'.target = command.target /\ command'.at = command.at /\ command'.held = command.held
      /\ command'.version = command.version /\ command'.changed = command.changed
  BY <1>1, GoesOn DEF M!SyncStore, M!Goto, CommandPcs
<1>4. InSync(registry)'
  BY <1>1 DEF InSync, M!Loads, Listing
<1>5. PluginTypes' /\ PluginPhases'
  BY <1>1, <1>2, <1>3 DEF PluginTypes, PluginPhases, Syncing
<1>6. Targets' /\ Installing' /\ Listing'
  BY <1>1, <1>2, <1>3, <1>4 DEF Targets, Installing, Listing, Syncing
<1>7. Current(registry)' /\ Current(command.held)' /\ NotAhead(registry)' /\ NotAhead(command.held)'
  BY <1>1, <1>2, <1>3 DEF Current, NotAhead, Syncing
<1> QED BY <1>5, <1>6, <1>7 DEF PluginsInv

LEMMA DiscoverInv ==
  ASSUME PluginsInv, M!Discover
  PROVE  PluginsInv'
<1>1. /\ command.pc = "discover" /\ UNCHANGED <<upstream, dir, switch, cut>>
      /\ registry' = [p \in M!Plugins |-> IF M!HasManifest(p) THEN registry[p] ELSE 0]
      /\ PluginTypes /\ PluginPhases /\ Targets /\ Listing /\ Current(registry) /\ Current(command.held)
      /\ NotAhead(registry) /\ NotAhead(command.held)
  BY DEF M!Discover, M!At, PluginsInv
<1>2. command.cmd \in Syncing /\ upstream \in Recorded /\ registry \in Recorded
  BY <1>1, CommandFields DEF PluginPhases, PluginTypes, M!Commands, Syncing
<1>3. /\ registry' \in Recorded
      /\ \A p \in M!Plugins : registry'[p] = IF M!HasManifest(p) THEN registry[p] ELSE 0
  BY <1>1, <1>2, PluginFacts DEF Recorded
<1>4. \A b \in Bundled : b \in M!Plugins /\ upstream[b] \in Nat /\ registry[b] \in Nat /\ registry'[b] \in {registry[b], 0}
  BY <1>2, <1>3, PluginFacts DEF Recorded
<1>5. \A b \in Bundled : registry'[b] = upstream[b] /\ upstream[b] > 0 => registry[b] = upstream[b]
  BY <1>4
<1>6. NotAhead(registry)'
  BY <1>1, <1>4 DEF NotAhead
<1>7. CASE command' = M!Idle
  <2>1. \A b \in Bundled : registry'[b] = upstream[b] /\ upstream[b] > 0 /\ b \notin cut
                           => dir[b] = Copied(upstream[b], "whole")
    BY <1>1, <1>5 DEF Current
  <2> QED BY <1>1, <1>3, <1>6, <1>7, <2>1, CommandEnds DEF PluginTypes
<1>8. CASE command' # M!Idle
  <2>1. PICK next \in {"listed", "switch"} : command' = [command EXCEPT !.pc = next]
    BY <1>8 DEF M!Discover, M!Goto
  <2>2. /\ command' \in CommandRec /\ command'.pc = next /\ command'.cmd = command.cmd
        /\ command'.target = command.target /\ command'.at = command.at /\ command'.held = command.held
        /\ command'.version = command.version /\ command'.changed = command.changed
    BY <1>1, <2>1, GoesOn DEF CommandPcs
  <2>3. InSync(registry)'
    <3> SUFFICES ASSUME NEW b \in Bundled
                 PROVE  registry'[b] = upstream[b] /\ (upstream[b] > 0 => M!Loads(b)')
      BY <1>1 DEF InSync
    <3>1. registry[b] = upstream[b] /\ (upstream[b] > 0 => M!Loads(b))
      BY <1>1 DEF Listing, InSync
    <3>2. M!Loads(b) => M!HasManifest(b)
      BY DEF M!Loads, M!HasManifest
    <3>3. M!Loads(b)' = M!Loads(b)
      BY <1>1 DEF M!Loads
    <3> QED BY <1>3, <1>4, <3>1, <3>2, <3>3
  <2>4. \A p \in M!Plugins : registry'[p] > 0 => M!HasManifest(p)'
    <3>1. \A p \in M!Plugins : registry'[p] > 0 => M!HasManifest(p)
      BY <1>3
    <3> QED BY <1>1, <3>1 DEF M!HasManifest
  <2>5. PluginTypes' /\ PluginPhases'
    BY <1>1, <1>2, <1>3, <2>2 DEF PluginTypes, PluginPhases, Syncing
  <2>6. Targets' /\ Installing'
    BY <1>1, <1>2, <2>2 DEF Targets, Installing, Syncing
  <2>7. Listing'
    BY <2>2, <2>3, <2>4 DEF Listing
  <2>8. Current(registry)' /\ Current(command.held)' /\ NotAhead(command.held)'
    BY <1>1, <1>2, <1>5, <2>2 DEF Current, NotAhead, Syncing
  <2> QED BY <1>6, <2>5, <2>6, <2>7, <2>8 DEF PluginsInv
<1> QED BY <1>7, <1>8

LEMMA ReturnInv ==
  ASSUME PluginsInv, M!Return
  PROVE  PluginsInv'
<1>1. /\ UNCHANGED <<upstream, dir, registry, switch, cut>> /\ command' = M!Idle
      /\ command.pc \in {"listed", "installed"} /\ PluginTypes /\ Current(registry) /\ NotAhead(registry)
  BY DEF M!Return, M!files, PluginsInv
<1>2. NotAhead(registry)'
  BY <1>1 DEF NotAhead
<1> QED BY <1>1, <1>2, CommandEnds DEF PluginTypes, Current

(* A version that is new is ahead of every record.                         *)
LEMMA ReleaseInv ==
  ASSUME PluginsInv, NEW p \in M!Plugins, M!Release(p)
  PROVE  PluginsInv'
<1>1. /\ command = M!Idle /\ UNCHANGED <<dir, registry, switch, command, cut>>
      /\ PluginTypes /\ PluginPhases /\ Targets /\ Current(registry) /\ Current(command.held)
      /\ NotAhead(registry) /\ NotAhead(command.held)
  BY DEF M!Release, M!files, PluginsInv
<1>2. /\ command.cmd = "none" /\ command.pc = "idle" /\ \A b \in Bundled : command.held[b] = 0
  BY <1>1, IdleFits, PluginFacts
<1>3. /\ upstream' \in Recorded /\ \A q \in M!Plugins : q # p => upstream'[q] = upstream[q]
      /\ upstream[p] \in Nat /\ registry[p] \in Nat
      /\ (upstream[p] > 0 /\ upstream'[p] = upstream[p] + 1) \/ upstream'[p] = 0
  <2>1. upstream \in Recorded /\ registry \in Recorded /\ upstream[p] \in Nat /\ registry[p] \in Nat
    BY <1>1, PluginFacts DEF PluginTypes, Recorded
  <2>2. CASE upstream[p] \in 1..(MaxVersion - 1) /\ upstream' = [upstream EXCEPT ![p] = @ + 1]
    <3>1. upstream[p] + 1 \in M!Versions
      BY <2>2, PluginFacts DEF M!Versions
    <3> QED BY <2>1, <2>2, <3>1 DEF Recorded
  <2>3. CASE upstream' = [upstream EXCEPT ![p] = 0]
    BY <2>1, <2>3, PluginFacts DEF Recorded
  <2> QED BY <2>2, <2>3 DEF M!Release
<1>4. PluginTypes' /\ PluginPhases' /\ Targets' /\ Installing' /\ Listing'
  BY <1>1, <1>2, <1>3 DEF PluginTypes, PluginPhases, Targets, Installing, Listing, Syncing
<1>5. ASSUME NEW b \in Bundled, upstream'[b] > 0
      PROVE  /\ registry[b] <= upstream'[b] /\ command.held[b] <= upstream'[b]
             /\ command.held[b] # upstream'[b]
             /\ registry[b] = upstream'[b] => b # p
  <2>1. CASE b = p
    <3>1. upstream[p] > 0 /\ upstream'[p] = upstream[p] + 1
      BY <1>3, <1>5, <2>1
    <3>2. registry[p] <= upstream[p]
      BY <1>1, <2>1, <3>1 DEF NotAhead
    <3> QED BY <1>2, <1>3, <2>1, <3>1, <3>2
  <2>2. CASE b # p
    <3>1. upstream'[b] = upstream[b] /\ upstream[b] \in Nat
      BY <1>1, <1>3, <2>2, PluginFacts DEF PluginTypes, Recorded
    <3> QED BY <1>1, <1>2, <1>5, <2>2, <3>1 DEF NotAhead
  <2> QED BY <2>1, <2>2
<1>6. NotAhead(registry)' /\ NotAhead(command.held)'
  BY <1>1, <1>5 DEF NotAhead
<1>7. Current(command.held)'
  BY <1>1, <1>5 DEF Current
<1>8. Current(registry)'
  <2> SUFFICES ASSUME NEW b \in Bundled, registry[b] = upstream'[b], upstream'[b] > 0, b \notin cut
               PROVE  dir[b] = Copied(upstream'[b], "whole")
    BY <1>1 DEF Current
  <2>1. upstream'[b] = upstream[b]
    BY <1>3, <1>5, PluginFacts
  <2> QED BY <1>1, <1>2, <2>1 DEF Current
<1> QED BY <1>4, <1>6, <1>7, <1>8 DEF PluginsInv

LEMMA PluginsInit ==
  ASSUME M!Init
  PROVE  PluginsInv
<1>1. /\ upstream = [p \in M!Plugins |-> 1] /\ dir = [p \in M!Plugins |-> M!NoCopy] /\ registry = M!Nothing
      /\ switch = [p \in M!Plugins |-> "unset"] /\ command = M!Idle /\ cut = {}
  BY DEF M!Init
<1>2. /\ command.cmd = "none" /\ command.pc = "idle" /\ command \in CommandRec
      /\ \A b \in Bundled : command.held[b] = 0 /\ registry[b] = 0 /\ upstream[b] = 1
  BY <1>1, IdleFits, PluginFacts
<1>3. PluginTypes
  <2>1. upstream \in Recorded /\ registry \in Recorded
    BY <1>1, PluginFacts DEF Recorded
  <2>2. dir \in [M!Plugins -> [version : M!Versions, part : M!Parts]]
    BY <1>1, PluginFacts DEF M!NoCopy, M!Parts
  <2> QED BY <1>1, <1>2, <2>1, <2>2 DEF PluginTypes
<1>4. PluginPhases /\ Targets /\ Installing /\ Listing
  BY <1>1, <1>2 DEF PluginPhases, Targets, Installing, Listing, Syncing
<1>5. Current(registry) /\ Current(command.held) /\ NotAhead(registry) /\ NotAhead(command.held)
  BY <1>2 DEF Current, NotAhead
<1> QED BY <1>3, <1>4, <1>5 DEF PluginsInv

LEMMA PluginsNext ==
  ASSUME PluginsInv, [M!Next]_(M!vars)
  PROVE  PluginsInv'
<1>1. CASE UNCHANGED M!vars
  BY <1>1 DEF M!vars, M!files, PluginsInv, PluginTypes, PluginPhases, Targets, Installing, Listing,
              Current, NotAhead, InSync, M!Loads, M!HasManifest
<1>2. CASE M!Next
  BY <1>2, BeginInv, StageInv, ClearInv, CopyInv, BuildInv, StoreInv, WriteSwitchInv, SyncOneInv, SyncStaleInv,
     SyncDoneInv, SyncStoreInv, DiscoverInv, ReturnInv, InterruptedInv, ReleaseInv DEF M!Next
<1> QED BY <1>1, <1>2

LEMMA PluginsAreRight ==
  ASSUME PluginsInv
  PROVE  PluginDirectories
<1>1. M!TypeOK
  BY CommandFields DEF PluginsInv, PluginTypes, M!TypeOK, Recorded
<1>2. M!ListingHeals
  <2> SUFFICES ASSUME command.pc = "listed"
               PROVE  /\ \A p \in M!Plugins : registry[p] > 0 => M!HasManifest(p)
                      /\ \A b \in Bundled : /\ registry[b] = upstream[b]
                                            /\ upstream[b] > 0 /\ b \notin cut =>
                                                  dir[b] = Copied(upstream[b], "whole")
    BY DEF M!ListingHeals, Copied
  <2> QED BY DEF PluginsInv, Listing, InSync, Current
<1>3. M!InstalledIsBuilt
  <2> SUFFICES ASSUME command.pc = "installed" PROVE command.cmd = "install"
    BY DEF PluginsInv, Installing, M!InstalledIsBuilt, Copied
  <2> QED BY CommandFields DEF PluginsInv, PluginPhases, M!Commands, Syncing
<1> QED BY <1>1, <1>2, <1>3 DEF PluginDirectories

(* Whatever is cut short, and whenever a version is released: a listing    *)
(* that succeeds leaves no record without a manifest and every bundled     *)
(* plugin whole and as the program has it, but for those whose update was  *)
(* cut short; and what install records is complete and built.              *)
THEOREM PluginSafety == FilesSpec => []PluginDirectories
<1>1. M!Init => PluginsInv
  BY PluginsInit
<1>2. PluginsInv /\ [M!Next]_(M!vars) => PluginsInv'
  BY PluginsNext
<1>3. PluginsInv => PluginDirectories
  BY PluginsAreRight
<1> QED BY <1>1, <1>2, <1>3, Composition, PTL DEF M!Spec

-----------------------------------------------------------------------------
(* The saved login *)

USE LoginAssumption

ProcessPcs == {"new", "exchange", "load", "refresh", "read", "open", "write", "rename", "ready", "failed"}
Process == [op : {None, "login", "logout", "start"}, pc : ProcessPcs, tokens : C!Tokens \cup {None},
            root : C!Roots, to : C!Inodes \cup {None}]
Waiting == {"new", "exchange", "load", "refresh", "read", "open"}
Writing == {"open", "write", "rename"}
LiveFile == inode[name.live]

(* One writer at a time: it has the temporary name, the inode behind which *)
(* is empty until it has been written; the file is a root object, and      *)
(* every root in hand has the entry of somebody else that was there first. *)
DiskFits ==
    /\ \A p, q \in C!Writers : p = q
    /\ \A p \in C!Writers : proc[p].to = name.temp /\ name.temp # None
    /\ \A p \in Procs : proc[p].pc = "write" => inode[name.temp] = Empty
    /\ \A p \in Procs : proc[p].pc = "rename" => inode[name.temp] = proc[p].root
    /\ name.temp # None => name.temp \in Procs /\ name.temp # name.live
    /\ \A p \in Procs : proc[p].pc \in Waiting => p # name.live /\ p # name.temp
    /\ inode[C!First] \in C!Roots
    /\ name.live = None => inode[C!First] = C!NoRoot
    /\ name.live # None => LiveFile \in C!Roots /\ LiveFile.other = inode[C!First].other
    /\ \A p \in Procs : proc[p].pc \in Writing => proc[p].root.other = inode[C!First].other

DiskInv == C!TypeOK /\ (~overlapped => DiskFits)

(* What a step has to do that changes one process, and perhaps the clock   *)
(* or the server, but nothing on disk.                                     *)
LEMMA NotOnDisk ==
  ASSUME DiskInv, NEW p \in Procs, NEW r \in Process,
         proc' = [proc EXCEPT ![p] = r],
         UNCHANGED <<name, inode, overlapped>>, C!TypeOK',
         r.pc \in Writing => /\ r.pc = "open" /\ proc[p].pc \in Waiting
                             /\ ~overlapped => r.root.other = inode[C!First].other,
         r.pc \in Waiting => proc[p].pc \in Waiting
  PROVE  DiskInv'
<1> USE DEF DiskInv, Waiting, Writing
<1>1. C!TypeOK /\ proc \in [Procs -> Process]
  BY DEF C!TypeOK, Process, ProcessPcs
<1> SUFFICES ASSUME ~overlapped PROVE DiskFits'
  OBVIOUS
<1>2. \A q \in Procs : q \in C!Writers' => q # p /\ q \in C!Writers /\ proc'[q] = proc[q]
  BY <1>1 DEF C!Writers
<1>3. \A q \in Procs : proc'[q].pc \in {"write", "rename"} => proc'[q] = proc[q]
  BY <1>1
<1> QED BY <1>1, <1>2, <1>3 DEF DiskFits, LiveFile, C!Writers

LEMMA InitDisk ==
  ASSUME C!Init
  PROVE  DiskInv
<1> USE DEF C!Init, C!Distinct
<1>1. C!Idle \in Process /\ C!NoRoot \in C!Roots /\ C!Idle.pc = "new"
  BY DEF C!Idle, Process, ProcessPcs, C!Roots, C!NoRoot
<1>2. proc \in [Procs -> Process] /\ name \in [live : C!Inodes \cup {None}, temp : C!Inodes \cup {None}]
  BY <1>1 DEF C!Inodes
<1>3. PICK t \in {None, [refresh |-> C!First, born |-> 0]} :
         inode = [i \in C!Inodes |-> IF i # C!First THEN Empty
                                   ELSE IF name.live = None THEN C!NoRoot
                                   ELSE [oauth |-> t, other |-> TRUE]]
  OBVIOUS
<1>4. t \in C!Tokens \cup {None}
  BY DEF C!Tokens, C!Refreshes
<1>5. [oauth |-> t, other |-> TRUE] \in C!Roots
  BY <1>4 DEF C!Roots
<1>6. inode \in [C!Inodes -> C!Roots \cup {Empty, Garbled}]
  BY <1>1, <1>3, <1>5
<1>7. C!TypeOK
  <2>1. now \in 0..MaxAge /\ valid \subseteq C!Refreshes
    BY DEF C!Refreshes
  <2>2. rotates \in BOOLEAN /\ overlapped \in BOOLEAN /\ lost \in BOOLEAN
    OBVIOUS
  <2> HIDE DEF C!Init
  <2> QED BY <1>2, <1>6, <2>1, <2>2 DEF C!TypeOK, Process, ProcessPcs
<1>8. /\ inode[C!First] \in C!Roots /\ (name.live = None => inode[C!First] = C!NoRoot)
      /\ name.temp = None /\ name.live \in {None, C!First}
  BY <1>1, <1>3, <1>5 DEF C!Inodes
<1>9. \A p \in Procs : proc[p].pc = "new" /\ p # C!First /\ p # None
  BY <1>1 DEF C!Inodes
<1>10. DiskFits
  BY <1>8, <1>9 DEF DiskFits, LiveFile, C!Writers, Writing, Waiting, C!Inodes
<1> QED BY <1>7, <1>10 DEF DiskInv

(* What Root reads is a root object.                                       *)
LEMMA RootIsOne ==
  ASSUME C!TypeOK, C!Readable
  PROVE  C!Root \in C!Roots /\ C!Root.oauth \in C!Tokens \cup {None}
BY DEF C!TypeOK, C!Readable, C!Root, C!NoRoot, C!Roots, C!Distinct

-----------------------------------------------------------------------------
LEMMA StartDisk ==
  ASSUME DiskInv, NEW p \in Procs, C!Start(p)
  PROVE  DiskInv'
<1>1. proc \in [Procs -> Process] /\ C!TypeOK
  BY DEF DiskInv, C!TypeOK, Process, ProcessPcs
<1>2. PICK r \in Process : proc' = [proc EXCEPT ![p] = r] /\ r.pc \in {"exchange", "read", "load"}
  <2>1. PICK job \in {"login", "logout", "start"} :
          proc' = [proc EXCEPT ![p].op = job,
                               ![p].pc = CASE job = "login" -> "exchange" [] job = "logout" -> "read"
                                           [] OTHER -> "load"]
    BY DEF C!Start
  <2> DEFINE step == CASE job = "login" -> "exchange" [] job = "logout" -> "read" [] OTHER -> "load"
             r == [proc[p] EXCEPT !.op = job, !.pc = step]
  <2>2. step \in {"exchange", "read", "load"} /\ step \in ProcessPcs
    BY DEF ProcessPcs
  <2> HIDE DEF step
  <2>3. r \in Process /\ r.pc = step
    BY <1>1, <2>2 DEF Process
  <2>4. proc' = [proc EXCEPT ![p] = r]
    BY <1>1, <2>1 DEF step
  <2> HIDE DEF r
  <2> QED BY <2>2, <2>3, <2>4
<1>3. C!TypeOK'
  BY <1>1, <1>2 DEF C!Start, C!Disk, C!Server, C!TypeOK, Process, ProcessPcs
<1> QED BY <1>1, <1>2, <1>3, NotOnDisk DEF C!Start, C!Disk, Waiting, Writing, C!At

LEMMA ExchangeDisk ==
  ASSUME DiskInv, NEW p \in Procs, C!Exchange(p)
  PROVE  DiskInv'
<1>1. proc \in [Procs -> Process] /\ C!TypeOK
  BY DEF DiskInv, C!TypeOK, Process, ProcessPcs
<1>2. PICK r \in Process : proc' = [proc EXCEPT ![p] = r] /\ r.pc \in {"read", "failed"}
  <2>1. CASE proc' = [proc EXCEPT ![p].pc = "read", ![p].tokens = [refresh |-> p, born |-> now]]
    <3> DEFINE t == [refresh |-> p, born |-> now]
               r == [proc[p] EXCEPT !.pc = "read", !.tokens = t]
    <3>1. t \in C!Tokens
      BY <1>1 DEF C!TypeOK, C!Tokens, C!Refreshes
    <3>2. r \in Process /\ r.pc = "read"
      BY <1>1, <3>1 DEF Process, ProcessPcs
    <3>3. proc' = [proc EXCEPT ![p] = r]
      BY <1>1, <2>1
    <3> HIDE DEF r
    <3> QED BY <3>2, <3>3
  <2>2. CASE proc' = [proc EXCEPT ![p].pc = "failed"]
    <3> DEFINE r == [proc[p] EXCEPT !.pc = "failed"]
    <3>1. r \in Process /\ r.pc = "failed" /\ proc' = [proc EXCEPT ![p] = r]
      BY <1>1, <2>2 DEF Process, ProcessPcs
    <3> HIDE DEF r
    <3> QED BY <3>1
  <2> QED BY <2>1, <2>2 DEF C!Exchange, C!Ends
<1>3. C!TypeOK'
  BY <1>1, <1>2 DEF C!Exchange, C!Disk, C!TypeOK, Process, ProcessPcs, C!Refreshes
<1> QED BY <1>1, <1>2, <1>3, NotOnDisk DEF C!Exchange, C!Disk, Waiting, Writing, C!At

LEMMA LoadDisk ==
  ASSUME DiskInv, NEW p \in Procs, C!Load(p)
  PROVE  DiskInv'
<1>1. proc \in [Procs -> Process] /\ C!TypeOK
  BY DEF DiskInv, C!TypeOK, Process, ProcessPcs
<1>2. PICK r \in Process : proc' = [proc EXCEPT ![p] = r] /\ r.pc \in {"refresh", "ready", "failed"}
  <2>1. CASE ~C!Readable \/ C!Root.oauth = None
    <3> DEFINE r == [proc[p] EXCEPT !.pc = "failed"]
    <3>1. r \in Process /\ r.pc = "failed" /\ proc' = [proc EXCEPT ![p] = r]
      BY <1>1, <2>1 DEF Process, ProcessPcs, C!Load, C!Ends
    <3> HIDE DEF r
    <3> QED BY <3>1
  <2>2. CASE C!Readable /\ C!Root.oauth # None
    <3> DEFINE step == IF ~C!Expired(C!Root.oauth) THEN "ready"
                     ELSE IF C!Root.oauth.refresh = None THEN "failed" ELSE "refresh"
               r == [proc[p] EXCEPT !.tokens = C!Root.oauth, !.pc = step]
    <3>1. step \in {"refresh", "ready", "failed"} /\ C!Root.oauth \in C!Tokens
      BY <1>1, <2>2, RootIsOne
    <3>2. proc' = [proc EXCEPT ![p] = r]
      BY <1>1, <2>2 DEF C!Load
    <3> HIDE DEF step
    <3>3. r \in Process /\ r.pc = step
      BY <1>1, <3>1 DEF Process, ProcessPcs
    <3> HIDE DEF r
    <3> QED BY <3>1, <3>2, <3>3
  <2> QED BY <2>1, <2>2
<1>3. C!TypeOK'
  BY <1>1, <1>2 DEF C!Load, C!Disk, C!Server, C!TypeOK, Process, ProcessPcs
<1> QED BY <1>1, <1>2, <1>3, NotOnDisk DEF C!Load, C!Disk, Waiting, Writing, C!At

LEMMA RefreshDisk ==
  ASSUME DiskInv, NEW p \in Procs, C!Refresh(p)
  PROVE  DiskInv'
<1>1. proc \in [Procs -> Process] /\ C!TypeOK
  BY DEF DiskInv, C!TypeOK, Process, ProcessPcs
<1> DEFINE old == proc[p].tokens.refresh
           t == [refresh |-> IF rotates THEN p ELSE old, born |-> now]
<1>2. PICK r \in Process : proc' = [proc EXCEPT ![p] = r] /\ r.pc \in {"read", "failed"}
  <2>1. CASE old \in valid /\ proc' = [proc EXCEPT ![p].pc = "read", ![p].tokens = t]
    <3> DEFINE r == [proc[p] EXCEPT !.pc = "read", !.tokens = t]
    <3>1. t \in C!Tokens
      BY <1>1, <2>1 DEF C!TypeOK, C!Tokens, C!Refreshes
    <3>2. proc' = [proc EXCEPT ![p] = r]
      BY <1>1, <2>1
    <3> HIDE DEF t
    <3>3. r \in Process /\ r.pc = "read"
      BY <1>1, <3>1 DEF Process, ProcessPcs
    <3> HIDE DEF r
    <3> QED BY <3>2, <3>3
  <2>2. CASE proc' = [proc EXCEPT ![p].pc = "failed"]
    <3> DEFINE r == [proc[p] EXCEPT !.pc = "failed"]
    <3>1. r \in Process /\ r.pc = "failed" /\ proc' = [proc EXCEPT ![p] = r]
      BY <1>1, <2>2 DEF Process, ProcessPcs
    <3> HIDE DEF r
    <3> QED BY <3>1
  <2> QED BY <2>1, <2>2 DEF C!Refresh, C!Ends
<1>3. valid' \subseteq C!Refreshes /\ lost' \in BOOLEAN
  BY <1>1 DEF C!Refresh, C!TypeOK, C!Refreshes
<1>4. C!TypeOK'
  BY <1>1, <1>2, <1>3 DEF C!Refresh, C!Disk, C!TypeOK, Process, ProcessPcs
<1> QED BY <1>1, <1>2, <1>4, NotOnDisk DEF C!Refresh, C!Disk, Waiting, Writing, C!At

LEMMA ReadRootDisk ==
  ASSUME DiskInv, NEW p \in Procs, C!ReadRoot(p)
  PROVE  DiskInv'
<1>1. proc \in [Procs -> Process] /\ C!TypeOK
  BY DEF DiskInv, C!TypeOK, Process, ProcessPcs
<1>2. PICK r \in Process : /\ proc' = [proc EXCEPT ![p] = r] /\ r.pc \in {"open", "failed"}
                           /\ r.pc = "open" => C!Readable /\ r.root.other = C!Root.other
  <2>1. CASE C!Readable
    <3> DEFINE root == [C!Root EXCEPT !.oauth = proc[p].tokens]
               r == [proc[p] EXCEPT !.pc = "open", !.root = root]
    <3>1. root \in C!Roots /\ root.other = C!Root.other
      BY <1>1, <2>1, RootIsOne DEF C!Roots, Process
    <3>2. proc' = [proc EXCEPT ![p] = r]
      BY <1>1, <2>1 DEF C!ReadRoot
    <3> HIDE DEF root
    <3>3. r \in Process /\ r.pc = "open" /\ r.root = root
      BY <1>1, <3>1 DEF Process, ProcessPcs
    <3> HIDE DEF r
    <3> QED BY <2>1, <3>1, <3>2, <3>3
  <2>2. CASE ~C!Readable
    <3> DEFINE r == [proc[p] EXCEPT !.pc = "failed"]
    <3>1. r \in Process /\ r.pc = "failed" /\ proc' = [proc EXCEPT ![p] = r]
      BY <1>1, <2>2 DEF Process, ProcessPcs, C!ReadRoot, C!Ends
    <3> HIDE DEF r
    <3> QED BY <3>1
  <2> QED BY <2>1, <2>2
<1>3. C!TypeOK'
  BY <1>1, <1>2 DEF C!ReadRoot, C!Disk, C!Server, C!TypeOK, Process, ProcessPcs
<1>4. ~overlapped => C!Root.other = inode[C!First].other
  BY DEF DiskInv, DiskFits, C!Root, LiveFile, C!Roots, C!Distinct
<1> QED BY <1>1, <1>2, <1>3, <1>4, NotOnDisk DEF C!ReadRoot, C!Disk, Waiting, Writing, C!At

LEMMA DieDisk ==
  ASSUME DiskInv, NEW p \in Procs, C!Die(p)
  PROVE  DiskInv'
<1>1. proc \in [Procs -> Process] /\ C!TypeOK
  BY DEF DiskInv, C!TypeOK, Process, ProcessPcs
<1> DEFINE r == [proc[p] EXCEPT !.pc = "failed"]
<1>2. r \in Process /\ r.pc = "failed" /\ proc' = [proc EXCEPT ![p] = r]
  BY <1>1 DEF Process, ProcessPcs, C!Die, C!Ends
<1> HIDE DEF r
<1>3. C!TypeOK'
  BY <1>1, <1>2 DEF C!Die, C!Disk, C!Server, C!TypeOK, Process, ProcessPcs
<1> QED BY <1>1, <1>2, <1>3, NotOnDisk DEF C!Die, C!Disk, Waiting, Writing

(* The writer's own steps.  Nobody else writes, or the rest is not claimed. *)
LEMMA OpenDisk ==
  ASSUME DiskInv, NEW p \in Procs, C!Open(p)
  PROVE  DiskInv'
<1>1. /\ proc \in [Procs -> Process] /\ C!TypeOK /\ proc[p].pc = "open"
      /\ name \in [live : C!Inodes \cup {None}, temp : C!Inodes \cup {None}]
      /\ inode \in [C!Inodes -> C!Roots \cup {Empty, Garbled}]
  BY DEF DiskInv, C!TypeOK, Process, ProcessPcs, C!Open, C!At
<1> DEFINE i == IF name.temp = None THEN p ELSE name.temp
<1>2. /\ i \in C!Inodes
      /\ name' = [name EXCEPT !.temp = i] /\ inode' = [inode EXCEPT ![i] = Empty]
      /\ proc' = [proc EXCEPT ![p].pc = "write", ![p].to = i]
      /\ overlapped' = (overlapped \/ C!Writers # {})
  BY <1>1 DEF C!Open, C!Inodes
<1>3. ~overlapped => i \in Procs /\ i # name.live
  BY <1>1 DEF DiskInv, DiskFits, Waiting
<1> HIDE DEF i
<1> DEFINE r == [proc[p] EXCEPT !.pc = "write", !.to = i]
<1>4. r \in Process /\ r.pc = "write" /\ r.to = i /\ r.root = proc[p].root
      /\ proc' = [proc EXCEPT ![p] = r]
  BY <1>1, <1>2 DEF Process, ProcessPcs
<1> HIDE DEF r
<1>5. /\ name' \in [live : C!Inodes \cup {None}, temp : C!Inodes \cup {None}]
      /\ name'.live = name.live /\ name'.temp = i
      /\ inode' \in [C!Inodes -> C!Roots \cup {Empty, Garbled}]
      /\ inode'[i] = Empty /\ \A k \in C!Inodes \ {i} : inode'[k] = inode[k]
  BY <1>1, <1>2
<1>6. C!TypeOK'
  <2>1. overlapped' \in BOOLEAN
    BY <1>2
  <2>2. UNCHANGED <<C!Server, lost>>
    BY DEF C!Open
  <2>3. proc' \in [Procs -> Process]
    BY <1>1, <1>4
  <2> QED BY <1>1, <1>5, <2>1, <2>2, <2>3 DEF C!Server, C!TypeOK, Process, ProcessPcs
<1>7. ASSUME ~overlapped' PROVE DiskFits'
  <2>1. DiskFits /\ C!Writers = {} /\ i \in Procs /\ i # name.live
    BY <1>2, <1>3, <1>7 DEF DiskInv
  <2>2. C!Writers' = {p}
    BY <1>1, <1>4, <2>1 DEF C!Writers
  <2>3. i # C!First /\ C!First \in C!Inodes /\ name.live \in C!Inodes \cup {None} /\ i # None
    BY <1>1, <2>1 DEF C!Distinct, C!Inodes
  <2>4. inode'[C!First] = inode[C!First] /\ (name.live # None => LiveFile' = LiveFile)
    BY <1>5, <2>1, <2>3 DEF LiveFile
  <2>5. \A q \in Procs : q # p => proc'[q] = proc[q]
    BY <1>1, <1>4
  <2>6. \A q \in Procs : proc'[q].pc \in {"write", "rename"} => q = p /\ proc'[q].pc = "write"
    BY <1>1, <1>4, <2>2 DEF C!Writers
  <2>7. \A q \in Procs : proc'[q].pc \in Waiting => q # i /\ q # name.live
    BY <1>1, <1>4, <2>1, <2>5 DEF DiskFits, Waiting, i
  <2>8. \A q \in Procs : proc'[q].pc \in Writing => proc'[q].root.other = inode[C!First].other
    BY <1>1, <1>4, <2>1, <2>5 DEF DiskFits, Writing
  <2>9. proc'[p].to = i
    BY <1>1, <1>4
  <2> QED BY <1>5, <2>1, <2>2, <2>3, <2>4, <2>6, <2>7, <2>8, <2>9 DEF DiskFits
<1> QED BY <1>6, <1>7 DEF DiskInv

LEMMA WriteDisk ==
  ASSUME DiskInv, NEW p \in Procs, C!Write(p)
  PROVE  DiskInv'
<1>1. /\ proc \in [Procs -> Process] /\ C!TypeOK /\ proc[p].pc = "write"
      /\ inode \in [C!Inodes -> C!Roots \cup {Empty, Garbled}]
      /\ UNCHANGED <<name, overlapped>>
  BY DEF DiskInv, C!TypeOK, Process, ProcessPcs, C!Write, C!At
<1> DEFINE r == [proc[p] EXCEPT !.pc = "rename"]
<1>2. r \in Process /\ r.pc = "rename" /\ r.to = proc[p].to /\ r.root = proc[p].root
      /\ proc' = [proc EXCEPT ![p] = r]
  BY <1>1 DEF Process, ProcessPcs, C!Write, C!Ends
<1> HIDE DEF r
<1>3. PICK c \in C!Roots \cup {Garbled} :
        /\ inode' = [inode EXCEPT ![proc[p].to] = c]
        /\ inode[proc[p].to] = Empty => c = proc[p].root
  <2>1. proc[p].root \in C!Roots
    BY <1>1 DEF Process
  <2> QED BY <2>1 DEF C!Write
<1>4. inode' \in [C!Inodes -> C!Roots \cup {Empty, Garbled}]
  BY <1>1, <1>3
<1>5. C!TypeOK'
  BY <1>1, <1>2, <1>4 DEF C!Write, C!Server, C!TypeOK, Process, ProcessPcs
<1>6. ASSUME ~overlapped' PROVE DiskFits'
  <2>1. DiskFits /\ p \in C!Writers
    BY <1>1, <1>6 DEF DiskInv, C!Writers
  <2>2. /\ C!Writers = {p} /\ proc[p].to = name.temp /\ name.temp \in Procs
        /\ name.temp # name.live /\ inode[name.temp] = Empty
    BY <1>1, <2>1 DEF DiskFits, C!Writers
  <2>3. name.temp # C!First /\ C!First \in C!Inodes /\ name.temp \in C!Inodes /\ name.temp # None
    BY <2>2 DEF C!Distinct, C!Inodes
  <2>4. inode'[name.temp] = proc[p].root /\ inode'[C!First] = inode[C!First]
        /\ (name.live # None => LiveFile' = LiveFile)
    BY <1>1, <1>3, <2>2, <2>3 DEF LiveFile, C!TypeOK, C!Inodes
  <2>5. \A q \in Procs : q # p => proc'[q] = proc[q]
    BY <1>1, <1>2
  <2>6. C!Writers' = {p} /\ proc'[p].to = name.temp /\ proc'[p].pc = "rename"
        /\ proc'[p].root = proc[p].root
    BY <1>1, <1>2, <2>2 DEF C!Writers
  <2>7. \A q \in Procs : proc'[q].pc \in {"write", "rename"} => q = p
    BY <2>6 DEF C!Writers
  <2> QED BY <1>1, <2>1, <2>2, <2>3, <2>4, <2>5, <2>6, <2>7 DEF DiskFits, Waiting, Writing
<1> QED BY <1>5, <1>6 DEF DiskInv

LEMMA RenameDisk ==
  ASSUME DiskInv, NEW p \in Procs, C!Rename(p)
  PROVE  DiskInv'
<1>1. /\ proc \in [Procs -> Process] /\ C!TypeOK /\ proc[p].pc = "rename"
      /\ name \in [live : C!Inodes \cup {None}, temp : C!Inodes \cup {None}]
      /\ UNCHANGED <<inode, overlapped>>
  BY DEF DiskInv, C!TypeOK, Process, ProcessPcs, C!Rename, C!At
<1>2. PICK r \in Process : /\ proc' = [proc EXCEPT ![p] = r] /\ r.pc \in {"ready", "failed"}
  <2> DEFINE r1 == [proc[p] EXCEPT !.pc = "ready"]
             r2 == [proc[p] EXCEPT !.pc = "failed"]
  <2>1. r1 \in Process /\ r1.pc = "ready" /\ r2 \in Process /\ r2.pc = "failed"
    BY <1>1 DEF Process, ProcessPcs
  <2>2. proc' = [proc EXCEPT ![p] = r1] \/ proc' = [proc EXCEPT ![p] = r2]
    BY <1>1 DEF C!Rename, C!Ends
  <2> HIDE DEF r1, r2
  <2> QED BY <2>1, <2>2
<1>3. \/ UNCHANGED name /\ name.temp = None
      \/ name.temp # None /\ name' = [live |-> name.temp, temp |-> None]
  BY DEF C!Rename
<1>4. C!TypeOK'
  <2>1. name' \in [live : C!Inodes \cup {None}, temp : C!Inodes \cup {None}]
    BY <1>1, <1>3
  <2>2. lost' \in BOOLEAN
    BY <1>1 DEF C!Rename, C!TypeOK
  <2> QED BY <1>1, <1>2, <2>1, <2>2 DEF C!Rename, C!Server, C!TypeOK, Process, ProcessPcs
<1>5. ASSUME ~overlapped' PROVE DiskFits'
  <2>1. DiskFits /\ p \in C!Writers
    BY <1>1, <1>5 DEF DiskInv, C!Writers
  <2>2. /\ C!Writers = {p} /\ name.temp \in Procs /\ name.temp # None
        /\ inode[name.temp] = proc[p].root /\ proc[p].root \in C!Roots
        /\ proc[p].root.other = inode[C!First].other
    BY <1>1, <2>1 DEF DiskFits, C!Writers, Process, Writing
  <2>3. name'.live = name.temp /\ name'.temp = None
    BY <1>3, <2>2
  <2>4. \A q \in Procs : q # p => proc'[q] = proc[q]
    BY <1>1, <1>2
  <2>5. C!Writers' = {} /\ \A q \in Procs : proc'[q].pc \notin {"write", "rename"}
    BY <1>1, <1>2, <2>2 DEF C!Writers
  <2>6. \A q \in Procs : proc'[q].pc \in Waiting => q # name.temp /\ q # None
    BY <1>1, <1>2, <2>1, <2>4 DEF DiskFits, Waiting, C!Distinct, C!Inodes
  <2>7. \A q \in Procs : proc'[q].pc \in Writing => proc'[q].root.other = inode[C!First].other
    BY <1>1, <1>2, <2>1, <2>4 DEF DiskFits, Writing
  <2> QED BY <1>1, <2>1, <2>2, <2>3, <2>5, <2>6, <2>7 DEF DiskFits, LiveFile
<1> QED BY <1>4, <1>5 DEF DiskInv

LEMMA NextDisk ==
  ASSUME DiskInv, [C!Next]_(C!vars)
  PROVE  DiskInv'
<1>1. CASE C!Tick
  <2>1. C!TypeOK' /\ UNCHANGED <<proc, name, inode, overlapped>>
    BY <1>1 DEF C!Tick, DiskInv, C!TypeOK, C!Disk, C!Distinct
  <2> QED BY <2>1 DEF DiskInv, DiskFits, LiveFile, C!Writers
<1>2. CASE UNCHANGED C!vars
  <2>1. C!TypeOK' /\ UNCHANGED <<proc, name, inode, overlapped>>
    BY <1>2 DEF C!vars, DiskInv, C!TypeOK, C!Disk, C!Server
  <2> QED BY <2>1 DEF DiskInv, DiskFits, LiveFile, C!Writers
<1> QED BY <1>1, <1>2, StartDisk, ExchangeDisk, LoadDisk, RefreshDisk, ReadRootDisk, OpenDisk,
           WriteDisk, RenameDisk, DieDisk DEF C!Next

(* One at a time, whoever dies and whenever: the file is a root object and *)
(* keeps the entry of somebody else (oauth.rs, save_oauth_credentials and  *)
(* clear_oauth_credentials over write_credentials_root).                   *)
THEOREM FileStaysWhole == C!Spec => []C!FileIsWhole
<1>1. C!Init => DiskInv
  BY InitDisk
<1>2. DiskInv /\ [C!Next]_(C!vars) => DiskInv'
  BY NextDisk
<1>3. DiskInv => C!FileIsWhole
  BY DEF DiskInv, DiskFits, LiveFile, C!FileIsWhole
<1> QED BY <1>1, <1>2, <1>3, PTL DEF C!Spec

-----------------------------------------------------------------------------
(* The tokens in the file *)

Unfinished == Waiting \cup Writing
FileTokens == IF name.live = None THEN None ELSE LiveFile.oauth

(* A process with tokens in hand has its own, which nobody else has before *)
(* it is done, so nobody spends them; and if the tokens of the file were   *)
(* spent, whoever did has others in hand.  A server that does not rotate   *)
(* takes nothing back.                                                     *)
TokensFit ==
    /\ \A p \in Procs : proc[p].pc \in Writing => proc[p].root.oauth = proc[p].tokens
    /\ \A p \in Procs : C!InHand(p) => proc[p].tokens # None
    /\ \A p \in Procs : proc[p].op = "logout" \/ proc[p].pc = "new" => proc[p].tokens = None
    /\ \A p \in Procs : proc[p].pc \in {"exchange", "load", "refresh"} => proc[p].op # "logout"
    /\ \A p \in Procs : proc[p].pc = "refresh" => proc[p].tokens # None
    /\ ~rotates => /\ \A p \in Procs : proc[p].tokens # None => proc[p].tokens.refresh \in valid
                   /\ FileTokens # None => FileTokens.refresh \in valid
    /\ rotates =>
         /\ \A p \in Procs : C!InHand(p) => proc[p].tokens.refresh = p /\ p \in valid
         /\ \A p \in Procs : proc[p].pc \in Unfinished =>
              /\ FileTokens # None => FileTokens.refresh # p
              /\ \A q \in Procs \ {p} : proc[q].tokens # None => proc[q].tokens.refresh # p
         /\ ~lost /\ FileTokens # None /\ FileTokens.refresh \notin valid => \E x \in Procs : C!InHand(x)

TokensInv == DiskInv /\ (~overlapped => TokensFit)

(* One process takes a step that leaves the tokens of the file alone.      *)
LEMMA OneStep ==
  ASSUME C!TypeOK, TokensFit, NEW p \in Procs, NEW r \in Process,
         proc' = [proc EXCEPT ![p] = r],
         UNCHANGED <<rotates>>, FileTokens' = FileTokens,
         r.pc \in Writing => r.root.oauth = r.tokens,
         r.op = "logout" \/ r.pc = "new" => r.tokens = None,
         r.pc \in {"exchange", "load", "refresh"} => r.op # "logout",
         r.pc = "refresh" => r.tokens # None,
         r.pc \in {"read", "open", "write", "rename"} /\ r.op # "logout" =>
            /\ r.tokens # None
            /\ rotates => r.tokens.refresh = p /\ p \in valid',
         ~rotates => /\ valid \subseteq valid'
                     /\ r.tokens # None => r.tokens.refresh \in valid',
         rotates => /\ r.pc \in Unfinished => proc[p].pc \in Unfinished
                    /\ \A q \in Procs \ {p} : C!InHand(q) => q \in valid'
                    /\ \A q \in Procs \ {p} : proc[q].pc \in Unfinished /\ r.tokens # None => r.tokens.refresh # q
                    /\ ~lost' /\ FileTokens # None /\ FileTokens.refresh \notin valid' => \E x \in Procs : C!InHand(x)'
  PROVE  TokensFit'
<1>1. proc \in [Procs -> Process]
  BY DEF C!TypeOK, Process, ProcessPcs
<1>2. /\ proc'[p] = r /\ \A q \in Procs \ {p} : proc'[q] = proc[q] /\ (C!InHand(q)' <=> C!InHand(q))
      /\ C!InHand(p)' <=> r.pc \in {"read", "open", "write", "rename"} /\ r.op # "logout"
  BY <1>1 DEF C!InHand, C!HasTokens
<1> QED BY <1>1, <1>2 DEF TokensFit

LEMMA InitTokens ==
  ASSUME C!Init
  PROVE  TokensInv
<1>1. DiskInv
  BY InitDisk
<1>2. PICK t \in {None, [refresh |-> C!First, born |-> 0]} :
         inode = [i \in C!Inodes |-> IF i # C!First THEN Empty
                                   ELSE IF name.live = None THEN C!NoRoot
                                   ELSE [oauth |-> t, other |-> TRUE]]
  BY DEF C!Init
<1>3. FileTokens \in {None, t} /\ (FileTokens # None => FileTokens.refresh = C!First)
  BY <1>2 DEF C!Init, FileTokens, LiveFile, C!Inodes, C!Distinct
<1>4. \A p \in Procs : proc[p].pc = "new" /\ proc[p].tokens = None /\ p # C!First
  BY DEF C!Init, C!Idle, C!Distinct
<1>5. valid = {C!First}
  BY DEF C!Init
<1> QED BY <1>1, <1>3, <1>4, <1>5 DEF TokensInv, TokensFit, C!InHand, C!HasTokens, Writing

LEMMA StartTokens ==
  ASSUME TokensInv, ~overlapped, NEW p \in Procs, C!Start(p)
  PROVE  TokensFit'
<1>1. proc \in [Procs -> Process] /\ C!TypeOK /\ TokensFit /\ proc[p].pc = "new"
  BY DEF TokensInv, DiskInv, C!TypeOK, Process, ProcessPcs, C!Start, C!At
<1>2. PICK job \in {"login", "logout", "start"} :
        proc' = [proc EXCEPT ![p].op = job,
                             ![p].pc = CASE job = "login" -> "exchange" [] job = "logout" -> "read"
                                         [] OTHER -> "load"]
  BY DEF C!Start
<1> DEFINE step == CASE job = "login" -> "exchange" [] job = "logout" -> "read" [] OTHER -> "load"
           r == [proc[p] EXCEPT !.op = job, !.pc = step]
<1>3. /\ step \in {"exchange", "read", "load"} /\ step \in ProcessPcs /\ (step = "read" <=> job = "logout")
  BY DEF ProcessPcs
<1>4. proc' = [proc EXCEPT ![p] = r]
  BY <1>1, <1>2
<1> HIDE DEF step
<1>5. r \in Process /\ r.pc = step /\ r.op = job /\ r.tokens = proc[p].tokens
  BY <1>1, <1>3 DEF Process
<1> HIDE DEF r
<1>6. UNCHANGED <<FileTokens, rotates, valid, lost>> /\ proc[p].tokens = None
  BY <1>1 DEF C!Start, C!Disk, C!Server, FileTokens, LiveFile, TokensFit
<1>7. proc[p].pc \in Unfinished /\ r.pc \notin Writing
  BY <1>1, <1>3, <1>5 DEF Unfinished, Waiting, Writing
<1>8. \A q \in Procs : C!InHand(q) => C!InHand(q)'
  BY <1>1, <1>4, <1>5 DEF C!InHand, C!HasTokens
<1>9. rotates /\ ~lost /\ FileTokens # None /\ FileTokens.refresh \notin valid => \E x \in Procs : C!InHand(x)'
  BY <1>1, <1>8 DEF TokensFit
<1>10. rotates => \A q \in Procs \ {p} : C!InHand(q) => q \in valid
  BY <1>1 DEF TokensFit
<1> QED BY <1>1, <1>3, <1>4, <1>5, <1>6, <1>7, <1>9, <1>10, OneStep

(* What is true of everybody who is not the one that acts.                 *)
LEMMA OthersHold ==
  ASSUME C!TypeOK, TokensFit, NEW p \in Procs, rotates
  PROVE  /\ \A q \in Procs \ {p} : C!InHand(q) => q \in valid
         /\ FileTokens # None /\ proc[p].pc \in Unfinished => FileTokens.refresh # p
         /\ \A q \in Procs \ {p} : proc[q].pc \in Unfinished =>
              /\ FileTokens # None => FileTokens.refresh # q
              /\ proc[p].tokens # None => proc[p].tokens.refresh # q
BY DEF TokensFit

(* A process gives up, or is done, with nothing in hand.                   *)
LEMMA IdleStep ==
  ASSUME C!TypeOK, TokensFit, NEW p \in Procs, NEW r \in Process,
         proc' = [proc EXCEPT ![p] = r], r.pc \in {"ready", "failed"},
         r.tokens = proc[p].tokens, r.op = proc[p].op,
         UNCHANGED <<rotates, valid>>, FileTokens' = FileTokens,
         C!InHand(p) => lost', lost => lost'
  PROVE  TokensFit'
<1>1. proc \in [Procs -> Process]
  BY DEF C!TypeOK, Process, ProcessPcs
<1>2. \A q \in Procs \ {p} : C!InHand(q) => C!InHand(q)'
  BY <1>1 DEF C!InHand, C!HasTokens
<1>3. rotates /\ ~lost' /\ FileTokens # None /\ FileTokens.refresh \notin valid => \E x \in Procs : C!InHand(x)'
  BY <1>2 DEF TokensFit
<1>4. r.op = "logout" => r.tokens = None
  BY DEF TokensFit
<1>5. ~rotates /\ r.tokens # None => r.tokens.refresh \in valid
  BY DEF TokensFit
<1> QED BY <1>1, <1>3, <1>4, <1>5, OneStep, OthersHold DEF Writing, Unfinished, Waiting

(* A process goes on with the tokens it had, and what is in the file stays. *)
LEMMA SameTokens ==
  ASSUME C!TypeOK, TokensFit, NEW p \in Procs, NEW r \in Process,
         proc' = [proc EXCEPT ![p] = r], r.pc \in Writing, r.root.oauth = r.tokens,
         proc[p].pc \in {"read", "open", "write", "rename"},
         r.tokens = proc[p].tokens, r.op = proc[p].op,
         UNCHANGED <<rotates, valid, lost>>, FileTokens' = FileTokens
  PROVE  TokensFit'
<1>1. proc \in [Procs -> Process]
  BY DEF C!TypeOK, Process, ProcessPcs
<1>2. /\ proc'[p] = r /\ \A q \in Procs \ {p} : proc'[q] = proc[q]
      /\ \A q \in Procs : C!InHand(q)' <=> C!InHand(q)
      /\ r.pc \in {"open", "write", "rename"}
      /\ proc[p].pc \in Unfinished /\ r.pc \in Unfinished
  BY <1>1 DEF C!InHand, C!HasTokens, Writing, Unfinished, Waiting
<1>3. \A q \in Procs : proc'[q].pc \in Unfinished => proc[q].pc \in Unfinished
  BY <1>2
<1>4. \A q \in Procs : proc'[q].tokens = proc[q].tokens /\ proc'[q].op = proc[q].op
  BY <1>2
<1> QED BY <1>2, <1>3, <1>4 DEF TokensFit

LEMMA ExchangeTokens ==
  ASSUME TokensInv, ~overlapped, NEW p \in Procs, C!Exchange(p)
  PROVE  TokensFit'
<1>1. /\ proc \in [Procs -> Process] /\ C!TypeOK /\ TokensFit
      /\ proc[p].pc = "exchange" /\ proc[p].op # "logout"
  BY DEF TokensInv, DiskInv, C!TypeOK, Process, ProcessPcs, C!Exchange, C!At, TokensFit
<1>2. UNCHANGED <<FileTokens, rotates, lost>>
  BY DEF C!Exchange, C!Disk, FileTokens, LiveFile
<1>3. ~C!InHand(p) /\ proc[p].pc \in Unfinished
  BY <1>1 DEF C!InHand, Unfinished, Waiting
<1>4. CASE /\ valid' = valid \cup {p}
           /\ proc' = [proc EXCEPT ![p].pc = "read", ![p].tokens = [refresh |-> p, born |-> now]]
  <2> DEFINE t == [refresh |-> p, born |-> now]
             r == [proc[p] EXCEPT !.pc = "read", !.tokens = t]
  <2>1. t \in C!Tokens /\ t.refresh = p /\ t # None
    BY <1>1 DEF C!TypeOK, C!Tokens, C!Refreshes, C!Distinct
  <2>3. proc' = [proc EXCEPT ![p] = r]
    BY <1>1, <1>4
  <2> HIDE DEF t
  <2>2. r \in Process /\ r.pc = "read" /\ r.tokens = t /\ r.op = proc[p].op
    BY ZenonT(40), <1>1, <2>1 DEF Process, ProcessPcs
  <2> HIDE DEF r
  <2>4. C!InHand(p)'
    BY <1>1, <2>2, <2>3 DEF C!InHand, C!HasTokens
  <2>5. rotates => \A q \in Procs \ {p} : C!InHand(q) => q \in valid'
    BY <1>1, <1>4, OthersHold
  <2>6. p \in valid' /\ valid \subseteq valid'
    BY <1>4
  <2>7. r.pc \notin Writing
    BY <2>2 DEF Writing
  <2> QED BY <1>1, <1>2, <1>3, <2>1, <2>2, <2>3, <2>4, <2>5, <2>6, <2>7, OneStep
<1>5. CASE proc' = [proc EXCEPT ![p].pc = "failed"] /\ UNCHANGED valid
  <2> DEFINE r == [proc[p] EXCEPT !.pc = "failed"]
  <2>1. /\ r \in Process /\ r.pc = "failed" /\ r.tokens = proc[p].tokens /\ r.op = proc[p].op
        /\ proc' = [proc EXCEPT ![p] = r]
    BY <1>1, <1>5 DEF Process, ProcessPcs
  <2> HIDE DEF r
  <2> QED BY <1>1, <1>2, <1>3, <1>5, <2>1, IdleStep
<1> QED BY <1>4, <1>5 DEF C!Exchange, C!Ends

LEMMA LoadTokens ==
  ASSUME TokensInv, ~overlapped, NEW p \in Procs, C!Load(p)
  PROVE  TokensFit'
<1>1. /\ proc \in [Procs -> Process] /\ C!TypeOK /\ TokensFit
      /\ proc[p].pc = "load" /\ proc[p].op # "logout"
  BY DEF TokensInv, DiskInv, C!TypeOK, Process, ProcessPcs, C!Load, C!At, TokensFit
<1>2. UNCHANGED <<FileTokens, rotates, valid, lost>>
  BY DEF C!Load, C!Disk, C!Server, FileTokens, LiveFile
<1>3. ~C!InHand(p) /\ proc[p].pc \in Unfinished
  BY <1>1 DEF C!InHand, Unfinished, Waiting
<1>4. CASE ~C!Readable \/ C!Root.oauth = None
  <2> DEFINE r == [proc[p] EXCEPT !.pc = "failed"]
  <2>1. /\ r \in Process /\ r.pc = "failed" /\ r.tokens = proc[p].tokens /\ r.op = proc[p].op
        /\ proc' = [proc EXCEPT ![p] = r]
    BY <1>1, <1>4 DEF Process, ProcessPcs, C!Load, C!Ends
  <2> HIDE DEF r
  <2> QED BY <1>1, <1>2, <1>3, <2>1, IdleStep
<1>5. CASE C!Readable /\ C!Root.oauth # None
  <2> DEFINE t == C!Root.oauth
             step == IF ~C!Expired(C!Root.oauth) THEN "ready"
                   ELSE IF C!Root.oauth.refresh = None THEN "failed" ELSE "refresh"
             r == [proc[p] EXCEPT !.tokens = t, !.pc = step]
  <2>1. step \in {"refresh", "ready", "failed"} /\ step \in ProcessPcs /\ t \in C!Tokens /\ t # None
    BY <1>1, <1>5, RootIsOne DEF ProcessPcs
  <2>2. proc' = [proc EXCEPT ![p] = r]
    BY <1>1, <1>5 DEF C!Load
  <2>3. FileTokens = t /\ FileTokens # None
    BY <1>5 DEF C!Root, FileTokens, LiveFile, C!NoRoot, TokensInv, DiskInv, DiskFits, C!Roots, C!Distinct
  <2> HIDE DEF step, t
  <2>4. r \in Process /\ r.pc = step /\ r.tokens = t /\ r.op = proc[p].op
    BY <1>1, <2>1 DEF Process
  <2> HIDE DEF r
  <2>5. \A q \in Procs : C!InHand(q) => C!InHand(q)'
    BY <1>1, <1>3, <2>2 DEF C!InHand, C!HasTokens
  <2>6. rotates /\ ~lost /\ FileTokens # None /\ FileTokens.refresh \notin valid => \E x \in Procs : C!InHand(x)'
    BY <1>1, <2>5 DEF TokensFit
  <2>7. ~rotates => t.refresh \in valid
    BY <1>1, <2>3 DEF TokensFit
  <2>8. rotates => /\ \A q \in Procs \ {p} : C!InHand(q) => q \in valid
                   /\ \A q \in Procs \ {p} : proc[q].pc \in Unfinished => t.refresh # q
    BY <1>1, <2>3, OthersHold
  <2>9. r.pc \notin Writing
    BY <2>1, <2>4 DEF Writing
  <2> QED BY <1>1, <1>2, <1>3, <2>1, <2>2, <2>4, <2>6, <2>7, <2>8, <2>9, OneStep
<1> QED BY <1>4, <1>5

LEMMA RefreshTokens ==
  ASSUME TokensInv, ~overlapped, NEW p \in Procs, C!Refresh(p)
  PROVE  TokensFit'
<1>1. /\ proc \in [Procs -> Process] /\ C!TypeOK /\ TokensFit
      /\ proc[p].pc = "refresh" /\ proc[p].op # "logout" /\ proc[p].tokens # None
  BY DEF TokensInv, DiskInv, C!TypeOK, Process, ProcessPcs, C!Refresh, C!At, TokensFit
<1>2. UNCHANGED <<FileTokens, rotates>>
  BY DEF C!Refresh, C!Disk, FileTokens, LiveFile
<1>3. ~C!InHand(p) /\ proc[p].pc \in Unfinished
  BY <1>1 DEF C!InHand, Unfinished, Waiting
<1> DEFINE old == proc[p].tokens.refresh
           spent == IF rotates THEN (valid \ {old}) \cup {p} ELSE valid
           t == [refresh |-> IF rotates THEN p ELSE old, born |-> now]
<1>4. /\ ~rotates => spent = valid
      /\ rotates => p \in spent /\ \A q \in Procs \ {p} : C!InHand(q) => q \in spent
  <2>1. ASSUME rotates, NEW q \in Procs \ {p}, C!InHand(q) PROVE q \in valid /\ q # old
    <3>1. proc[q].pc \in Unfinished
      BY <2>1 DEF C!InHand, Unfinished, Writing, Waiting
    <3> QED BY <1>1, <2>1, <3>1, OthersHold
  <2> QED BY <2>1
<1>5. CASE /\ old \in valid /\ valid' = spent /\ UNCHANGED lost
           /\ proc' = [proc EXCEPT ![p].pc = "read", ![p].tokens = t]
  <2> DEFINE r == [proc[p] EXCEPT !.pc = "read", !.tokens = t]
  <2>1. /\ t \in C!Tokens /\ t # None
        /\ rotates => t.refresh = p
        /\ ~rotates => t.refresh \in spent
    BY <1>1, <1>5 DEF C!TypeOK, C!Tokens, C!Refreshes, C!Distinct
  <2>2. proc' = [proc EXCEPT ![p] = r]
    BY <1>1, <1>5
  <2> HIDE DEF t, spent
  <2>3. r \in Process /\ r.pc = "read" /\ r.tokens = t /\ r.op = proc[p].op
    BY <1>1, <2>1 DEF Process, ProcessPcs
  <2> HIDE DEF r
  <2>4. C!InHand(p)'
    BY <1>1, <2>2, <2>3 DEF C!InHand, C!HasTokens
  <2>5. r.pc \notin Writing
    BY <2>3 DEF Writing
  <2>6. /\ ~rotates => valid \subseteq valid' /\ t.refresh \in valid'
        /\ rotates => p \in valid' /\ \A q \in Procs \ {p} : C!InHand(q) => q \in valid'
    BY <1>4, <1>5, <2>1
  <2> QED BY <1>1, <1>2, <1>3, <2>1, <2>2, <2>3, <2>4, <2>5, <2>6, OneStep
<1>6. CASE /\ proc' = [proc EXCEPT ![p].pc = "failed"]
           /\ valid' = spent /\ lost' = TRUE /\ old \in valid
  <2> DEFINE r == [proc[p] EXCEPT !.pc = "failed"]
  <2>1. /\ r \in Process /\ r.pc = "failed" /\ r.tokens = proc[p].tokens /\ r.op = proc[p].op
        /\ proc' = [proc EXCEPT ![p] = r]
    BY <1>1, <1>6 DEF Process, ProcessPcs
  <2> HIDE DEF r
  <2>2. r.pc \notin Writing /\ r.pc \notin Unfinished
    BY <2>1 DEF Writing, Unfinished, Waiting
  <2>3. ~rotates => valid \subseteq valid' /\ r.tokens.refresh \in valid'
    BY <1>4, <1>6, <2>1
  <2>4. rotates => /\ \A q \in Procs \ {p} : C!InHand(q) => q \in valid'
                   /\ \A q \in Procs \ {p} : proc[q].pc \in Unfinished => r.tokens.refresh # q
    BY <1>1, <1>4, <1>6, <2>1, OthersHold
  <2> QED BY ZenonT(40), <1>1, <1>2, <1>6, <2>1, <2>2, <2>3, <2>4, OneStep
<1>7. CASE proc' = [proc EXCEPT ![p].pc = "failed"] /\ UNCHANGED <<valid, lost>>
  <2> DEFINE r == [proc[p] EXCEPT !.pc = "failed"]
  <2>1. /\ r \in Process /\ r.pc = "failed" /\ r.tokens = proc[p].tokens /\ r.op = proc[p].op
        /\ proc' = [proc EXCEPT ![p] = r]
    BY <1>1, <1>7 DEF Process, ProcessPcs
  <2> HIDE DEF r
  <2> QED BY <1>1, <1>2, <1>3, <1>7, <2>1, IdleStep
<1> QED BY <1>5, <1>6, <1>7 DEF C!Refresh, C!Ends

LEMMA ReadRootTokens ==
  ASSUME TokensInv, ~overlapped, NEW p \in Procs, C!ReadRoot(p)
  PROVE  TokensFit'
<1>1. /\ proc \in [Procs -> Process] /\ C!TypeOK /\ TokensFit /\ proc[p].pc = "read"
  BY DEF TokensInv, DiskInv, C!TypeOK, Process, ProcessPcs, C!ReadRoot, C!At
<1>2. UNCHANGED <<FileTokens, rotates, valid>>
  BY DEF C!ReadRoot, C!Disk, C!Server, FileTokens, LiveFile
<1>3. /\ proc[p].pc \in Unfinished
      /\ C!InHand(p) <=> proc[p].op # "logout"
  BY <1>1 DEF C!InHand, C!HasTokens, Unfinished, Waiting
<1>4. CASE C!Readable
  <2> DEFINE root == [C!Root EXCEPT !.oauth = proc[p].tokens]
             r == [proc[p] EXCEPT !.pc = "open", !.root = root]
  <2>1. root \in C!Roots /\ root.oauth = proc[p].tokens
    BY <1>1, <1>4, RootIsOne DEF C!Roots, Process
  <2>2. proc' = [proc EXCEPT ![p] = r] /\ lost' = lost
    BY <1>1, <1>4 DEF C!ReadRoot
  <2> HIDE DEF root
  <2>3. /\ r \in Process /\ r.pc = "open" /\ r.root = root /\ r.tokens = proc[p].tokens
        /\ r.op = proc[p].op
    BY <1>1, <2>1 DEF Process, ProcessPcs
  <2> HIDE DEF r
  <2> QED BY <1>1, <1>2, <1>3, <2>1, <2>2, <2>3, SameTokens DEF Writing
<1>5. CASE ~C!Readable
  <2> DEFINE r == [proc[p] EXCEPT !.pc = "failed"]
  <2>1. /\ r \in Process /\ r.pc = "failed" /\ r.tokens = proc[p].tokens /\ r.op = proc[p].op
        /\ proc' = [proc EXCEPT ![p] = r]
    BY <1>1, <1>5 DEF Process, ProcessPcs, C!ReadRoot, C!Ends
  <2>2. (C!InHand(p) => lost') /\ (lost => lost')
    BY <1>3, <1>5 DEF C!ReadRoot, C!HasTokens
  <2> HIDE DEF r
  <2> QED BY <1>1, <1>2, <2>1, <2>2, IdleStep
<1> QED BY <1>4, <1>5

LEMMA OpenTokens ==
  ASSUME TokensInv, ~overlapped, NEW p \in Procs, C!Open(p)
  PROVE  TokensFit'
<1>1. /\ proc \in [Procs -> Process] /\ C!TypeOK /\ TokensFit /\ DiskFits /\ proc[p].pc = "open"
  BY DEF TokensInv, DiskInv, C!TypeOK, Process, ProcessPcs, C!Open, C!At
<1> DEFINE i == IF name.temp = None THEN p ELSE name.temp
           r == [proc[p] EXCEPT !.pc = "write", !.to = i]
<1>2. i \in C!Inodes /\ i # name.live
  BY <1>1 DEF DiskFits, Waiting, C!Inodes
<1>3. proc' = [proc EXCEPT ![p] = r] /\ UNCHANGED <<rotates, valid, lost>>
  BY <1>1 DEF C!Open, C!Server
<1>4. FileTokens' = FileTokens
  <2>1. name' = [name EXCEPT !.temp = i] /\ inode' = [inode EXCEPT ![i] = Empty]
    BY DEF C!Open
  <2>2. /\ name \in [live : C!Inodes \cup {None}, temp : C!Inodes \cup {None}]
        /\ inode \in [C!Inodes -> C!Roots \cup {Empty, Garbled}]
    BY <1>1 DEF C!TypeOK
  <2> HIDE DEF i
  <2> QED BY <1>2, <2>1, <2>2 DEF FileTokens, LiveFile
<1> HIDE DEF i
<1>5. /\ r \in Process /\ r.pc = "write" /\ r.root = proc[p].root /\ r.tokens = proc[p].tokens
      /\ r.op = proc[p].op
  BY <1>1, <1>2 DEF Process, ProcessPcs
<1> HIDE DEF r
<1>6. proc[p].root.oauth = proc[p].tokens
  BY <1>1 DEF TokensFit, Writing
<1> QED BY <1>1, <1>3, <1>4, <1>5, <1>6, SameTokens DEF Writing

LEMMA WriteTokens ==
  ASSUME TokensInv, ~overlapped, NEW p \in Procs, C!Write(p)
  PROVE  TokensFit'
<1>1. /\ proc \in [Procs -> Process] /\ C!TypeOK /\ TokensFit /\ DiskFits /\ proc[p].pc = "write"
  BY DEF TokensInv, DiskInv, C!TypeOK, Process, ProcessPcs, C!Write, C!At
<1> DEFINE r == [proc[p] EXCEPT !.pc = "rename"]
<1>2. proc' = [proc EXCEPT ![p] = r] /\ UNCHANGED <<name, rotates, valid, lost>>
  BY <1>1 DEF C!Write, C!Ends, C!Server
<1>3. proc[p].to # name.live
  BY <1>1 DEF DiskFits, C!Writers
<1>4. FileTokens' = FileTokens
  <2>1. PICK c : inode' = [inode EXCEPT ![proc[p].to] = c]
    BY DEF C!Write
  <2>2. /\ name \in [live : C!Inodes \cup {None}, temp : C!Inodes \cup {None}]
        /\ inode \in [C!Inodes -> C!Roots \cup {Empty, Garbled}]
    BY <1>1 DEF C!TypeOK
  <2>3. name' = name /\ (name.live # None => inode'[name.live] = inode[name.live])
    BY <1>2, <1>3, <2>1, <2>2
  <2> QED BY <2>3 DEF FileTokens, LiveFile
<1>5. /\ r \in Process /\ r.pc = "rename" /\ r.root = proc[p].root /\ r.tokens = proc[p].tokens
      /\ r.op = proc[p].op
  BY <1>1 DEF Process, ProcessPcs
<1> HIDE DEF r
<1>6. proc[p].root.oauth = proc[p].tokens
  BY <1>1 DEF TokensFit, Writing
<1> QED BY <1>1, <1>2, <1>4, <1>5, <1>6, SameTokens DEF Writing

(* The tokens of the one that is done are now those of the file: its own,  *)
(* or none after a logout.                                                 *)
LEMMA RenameTokens ==
  ASSUME TokensInv, ~overlapped, NEW p \in Procs, C!Rename(p)
  PROVE  TokensFit'
<1>1. /\ proc \in [Procs -> Process] /\ C!TypeOK /\ TokensFit /\ DiskFits /\ proc[p].pc = "rename"
  BY DEF TokensInv, DiskInv, C!TypeOK, Process, ProcessPcs, C!Rename, C!At
<1>2. name.temp # None /\ inode[name.temp] = proc[p].root
  BY <1>1 DEF DiskFits, C!Writers
<1> DEFINE r == [proc[p] EXCEPT !.pc = "ready"]
<1>3. /\ proc' = [proc EXCEPT ![p] = r] /\ UNCHANGED <<inode, rotates, valid, lost>>
      /\ name' = [live |-> name.temp, temp |-> None]
  BY <1>1, <1>2 DEF C!Rename, C!Ends, C!Server
<1>4. /\ r \in Process /\ r.pc = "ready" /\ r.tokens = proc[p].tokens /\ r.op = proc[p].op
  BY <1>1 DEF Process, ProcessPcs
<1> HIDE DEF r
<1>5. FileTokens' = proc[p].tokens
  BY <1>1, <1>2, <1>3 DEF FileTokens, LiveFile, TokensFit, Writing
<1>6. /\ proc'[p] = r /\ ~C!InHand(p)' /\ r.pc \notin Unfinished
      /\ \A q \in Procs \ {p} : proc'[q] = proc[q] /\ (C!InHand(q)' <=> C!InHand(q))
  BY <1>1, <1>3, <1>4 DEF C!InHand, C!HasTokens, Unfinished, Waiting, Writing
<1>7. /\ ~rotates /\ proc[p].tokens # None => proc[p].tokens.refresh \in valid
      /\ rotates /\ proc[p].tokens # None => proc[p].tokens.refresh = p /\ p \in valid
  BY <1>1 DEF TokensFit, C!InHand, C!HasTokens
<1>8. \A q \in Procs : proc'[q].pc \in Unfinished => q # p
  BY <1>6
<1>9. ~rotates => /\ \A q \in Procs : proc'[q].tokens # None => proc'[q].tokens.refresh \in valid
                  /\ FileTokens' # None => FileTokens'.refresh \in valid
  BY <1>1, <1>4, <1>5, <1>6, <1>7 DEF TokensFit
<1>10. rotates =>
         /\ \A q \in Procs : C!InHand(q)' => proc'[q].tokens.refresh = q /\ q \in valid
         /\ FileTokens' # None => FileTokens'.refresh \in valid
  BY <1>1, <1>5, <1>6, <1>7 DEF TokensFit
<1>11. rotates => \A q \in Procs : proc'[q].pc \in Unfinished =>
         /\ FileTokens' # None => FileTokens'.refresh # q
         /\ \A x \in Procs \ {q} : proc'[x].tokens # None => proc'[x].tokens.refresh # q
  BY <1>1, <1>4, <1>5, <1>6, <1>7, <1>8 DEF TokensFit
<1>12. /\ \A q \in Procs : proc'[q].pc \in Writing => proc'[q].root.oauth = proc'[q].tokens
       /\ \A q \in Procs : C!InHand(q)' => proc'[q].tokens # None
       /\ \A q \in Procs : proc'[q].op = "logout" \/ proc'[q].pc = "new" => proc'[q].tokens = None
       /\ \A q \in Procs : proc'[q].pc \in {"exchange", "load", "refresh"} => proc'[q].op # "logout"
       /\ \A q \in Procs : proc'[q].pc = "refresh" => proc'[q].tokens # None
  BY <1>1, <1>4, <1>6 DEF TokensFit, Writing
<1> QED BY <1>3, <1>9, <1>10, <1>11, <1>12 DEF TokensFit

LEMMA DieTokens ==
  ASSUME TokensInv, ~overlapped, NEW p \in Procs, C!Die(p)
  PROVE  TokensFit'
<1>1. proc \in [Procs -> Process] /\ C!TypeOK /\ TokensFit
  BY DEF TokensInv, DiskInv, C!TypeOK, Process, ProcessPcs
<1> DEFINE r == [proc[p] EXCEPT !.pc = "failed"]
<1>2. /\ r \in Process /\ r.pc = "failed" /\ r.tokens = proc[p].tokens /\ r.op = proc[p].op
      /\ proc' = [proc EXCEPT ![p] = r]
  BY <1>1 DEF Process, ProcessPcs, C!Die, C!Ends
<1> HIDE DEF r
<1>3. UNCHANGED <<FileTokens, rotates, valid>> /\ (C!InHand(p) => lost') /\ (lost => lost')
  BY DEF C!Die, C!Disk, C!Server, FileTokens, LiveFile
<1> QED BY <1>1, <1>2, <1>3, IdleStep

LEMMA NextTokens ==
  ASSUME TokensInv, [C!Next]_(C!vars)
  PROVE  TokensInv'
<1>1. DiskInv'
  BY NextDisk DEF TokensInv
<1>2. overlapped => overlapped'
  <2>1. overlapped' \in {overlapped, TRUE}
    <3>1. overlapped \in BOOLEAN
      BY DEF TokensInv, DiskInv, C!TypeOK
    <3>2. ASSUME NEW p \in Procs, C!Open(p) PROVE overlapped' \in {overlapped, TRUE}
      BY <3>1, <3>2 DEF C!Open
    <3>3. ASSUME NEW p \in Procs,
                 C!Start(p) \/ C!Exchange(p) \/ C!Load(p) \/ C!Refresh(p) \/ C!ReadRoot(p)
          PROVE  overlapped' = overlapped
      BY <3>3 DEF C!Start, C!Exchange, C!Load, C!Refresh, C!ReadRoot
    <3>4. ASSUME NEW p \in Procs, C!Write(p) \/ C!Rename(p) \/ C!Die(p) PROVE overlapped' = overlapped
      BY <3>4 DEF C!Write, C!Rename, C!Die
    <3> QED BY <3>2, <3>3, <3>4 DEF C!Next, C!Tick, C!vars
  <2> QED BY <2>1
<1>3. ASSUME ~overlapped PROVE TokensFit'
  <2>1. CASE C!Tick \/ UNCHANGED C!vars
    <3>1. UNCHANGED <<proc, name, inode, valid, rotates, lost>>
      BY <2>1 DEF C!Tick, C!vars, C!Disk
    <3> QED BY <1>3, <3>1 DEF TokensInv, TokensFit, C!InHand, C!HasTokens, FileTokens, LiveFile
  <2> QED BY <1>3, <2>1, StartTokens, ExchangeTokens, LoadTokens, RefreshTokens, ReadRootTokens,
             OpenTokens, WriteTokens, RenameTokens, DieTokens DEF C!Next
<1> QED BY <1>1, <1>2, <1>3 DEF TokensInv

(* Nobody is logged out behind his back (oauth.rs and                      *)
(* resolve_startup_auth_source): unless a process lost tokens it had just  *)
(* been given or still has to save them, those in the file are good.       *)
THEOREM TokensStayGood == C!Spec => []C!TokensCanBeRefreshed
<1>1. C!Init => TokensInv
  BY InitTokens
<1>2. TokensInv /\ [C!Next]_(C!vars) => TokensInv'
  BY NextTokens
<1>3. TokensInv => C!TokensCanBeRefreshed
  <2> SUFFICES ASSUME TokensInv, ~overlapped, ~lost, \A p \in Procs : ~C!InHand(p),
                      C!Readable, C!Root.oauth # None
               PROVE  C!Root.oauth.refresh \in valid
    BY DEF C!TokensCanBeRefreshed
  <2>1. TokensFit /\ FileTokens = C!Root.oauth
    BY DEF TokensInv, DiskInv, DiskFits, FileTokens, LiveFile, C!Root, C!NoRoot, C!Roots, C!Distinct
  <2>2. rotates \in BOOLEAN
    BY DEF TokensInv, DiskInv, C!TypeOK
  <2> QED BY <2>1, <2>2 DEF TokensFit
<1> QED BY <1>1, <1>2, <1>3, PTL DEF C!Spec

(* In every behaviour of the composition the saved login is whole, its     *)
(* processes well formed, and its tokens can be refreshed.                 *)
THEOREM LoginSafety == FilesSpec => []CredentialsFile
<1>1. C!Init => TokensInv
  BY InitTokens
<1>2. TokensInv /\ [C!Next]_(C!vars) => TokensInv'
  BY NextTokens
<1>3. TokensInv => C!TypeOK
  BY DEF TokensInv, DiskInv
<1>4. C!Spec => []C!TypeOK
  BY <1>1, <1>2, <1>3, PTL DEF C!Spec
<1>5. C!TypeOK /\ C!FileIsWhole /\ C!TokensCanBeRefreshed => CredentialsFile
  BY DEF CredentialsFile
<1> QED BY <1>4, <1>5, FileStaysWhole, TokensStayGood, Composition, PTL

HIDE LoginAssumption

=============================================================================
