---------------------------- MODULE Consultation ----------------------------
(***************************************************************************)
(* consult_external_model: a question to a stronger model outside          *)
(* (ExternalConsultRuntime of rusty-claude-cli/src/main.rs, with the       *)
(* Anonymizer of tools/src/external_consult.rs and secret_scan.rs).        *)
(* What is sent is scanned for secrets, names in it are replaced by        *)
(* placeholders, the user looks at it, the answer gets the names back, and *)
(* the decision goes to an audit log.                                      *)
(*                                                                         *)
(* A word is a type's name, another identifier ("lower"), one everybody    *)
(* knows ("known"), or looks like a placeholder: T_n, N_n.  A text is a    *)
(* sequence of phrases a.b.c::d::e, where the dots separate `before` and   *)
(* the colons `path`; a declaration follows a keyword such as using,       *)
(* import or namespace at the start of a line.  What is not a word is left *)
(* out, a secret is a mark on the request, and the log can be written (if  *)
(* not, the code goes on without it).                                      *)
(***************************************************************************)
EXTENDS Naturals, Sequences

CONSTANTS Words,         \* what phrases are made of
          Texts,         \* questions and examples
          NoText         \* of a request without an example

VARIABLES request,       \* question and example, and where a secret is, if anywhere
          setup,         \* is review waived (auto_approve), and who can be asked
          pc,
          map,           \* the Anonymizer
          payload,
          shown,         \* what the user has seen
          left,          \* what has left the machine
          log,           \* the audit log
          answer         \* result of the tool

vars == <<request, setup, pc, map, payload, shown, left, log, answer>>

Placeholder(kind, n) == [kind |-> kind, n |-> n]
IsPlaceholder(w) == w.kind \in {"T", "N"}

Phrase(declares, before, path) == [declares |-> declares, before |-> before, path |-> path]
Phrases == [declares : BOOLEAN, before : Seq(Words), path : Seq(Words) \ {<< >>}]
Dotted(p) == Append(p.before, p.path[1])

WellFormed ==
    /\ \A w \in Words : w.kind \in {"type", "lower", "known", "T", "N"}
    /\ Texts \subseteq Seq(Phrases) \ {<< >>}

-----------------------------------------------------------------------------
(* The Anonymizer *)

(* Faulty variant: only types are hidden.                                  *)
HidesTypes(w, inPath) == w.kind = "type"

(* map_segment: known names stay; types are hidden wherever they stand, all *)
(* other identifiers where a namespace stands.                             *)
Hides(w, inPath) == w.kind = "type" \/ (inPath /\ w.kind # "known")

(* `forward` takes names to placeholders; of each kind so many are used.   *)
Anonymizer(forward, types, namespaces) ==
    [forward |-> forward, types |-> types, namespaces |-> namespaces]
Fresh == Anonymizer([w \in {} |-> w], 0, 0)

With(f, w, v) == [x \in DOMAIN f \cup {w} |-> IF x = w THEN v ELSE f[x]]
NotedAs(m, w, kind, n) == With(m.forward, w, Placeholder(kind, n))

(* Faulty variant: namespaces are not counted.                             *)
NotedUncounted(m, w) ==
    IF w \in DOMAIN m.forward THEN m
    ELSE IF w.kind = "type"
    THEN Anonymizer(NotedAs(m, w, "T", m.types + 1), m.types + 1, m.namespaces)
    ELSE Anonymizer(NotedAs(m, w, "N", m.namespaces + 1), m.types, m.namespaces)

(* placeholder: a name keeps the one it was given, and a new one has the   *)
(* next number of its kind.                                                *)
Noted(m, w) ==
    IF w \in DOMAIN m.forward THEN m
    ELSE IF w.kind = "type"
    THEN Anonymizer(NotedAs(m, w, "T", m.types + 1), m.types + 1, m.namespaces)
    ELSE Anonymizer(NotedAs(m, w, "N", m.namespaces + 1), m.types, m.namespaces + 1)

(* A word, and whether it is in the place of a namespace: what the map is  *)
(* after it, and what it becomes.                                          *)
Place(w, inPath) == [word |-> w, inPath |-> inPath]
Passed(m, place) == IF Hides(place.word, place.inPath) THEN Noted(m, place.word) ELSE m
Hidden(m, w, inPath) == IF Hides(w, inPath) THEN m.forward[w] ELSE w

(* The map after the words of a phrase, and after those of all phrases.    *)
NotedAll(m, places) ==
    LET after[n \in 0..Len(places)] ==
          IF n = 0 THEN m ELSE Passed(after[n - 1], places[n])
    IN  after[Len(places)]
NotedEach(m, phrases) ==
    LET after[n \in 0..Len(phrases)] ==
          IF n = 0 THEN m ELSE NotedAll(after[n - 1], phrases[n])
    IN  after[Len(phrases)]

(* Declarations: all of the dotted path, and of what follows :: nothing.   *)
DeclaredPlaces(p) ==
    IF p.declares THEN [i \in 1..Len(p.before) + 1 |-> Place(Dotted(p)[i], TRUE)] ELSE << >>
Declared(m, p) ==
    IF p.declares
    THEN Phrase(TRUE, [i \in DOMAIN p.before |-> Hidden(m, p.before[i], TRUE)],
                [i \in DOMAIN p.path |-> IF i = 1 THEN Hidden(m, p.path[i], TRUE) ELSE p.path[i]])
    ELSE p

(* Then all words, the last of a path in colons and those with dots as     *)
(* what they are.                                                          *)
UsedPlaces(p) ==
    [i \in 1..Len(p.before) + Len(p.path) |->
        IF i <= Len(p.before) THEN Place(p.before[i], FALSE)
        ELSE Place(p.path[i - Len(p.before)], i < Len(p.before) + Len(p.path))]
Used(m, p) ==
    Phrase(p.declares, [i \in DOMAIN p.before |-> Hidden(m, p.before[i], FALSE)],
           [i \in DOMAIN p.path |-> Hidden(m, p.path[i], i < Len(p.path))])

Anonymized(m, text) ==
    LET m1 == NotedEach(m, [i \in DOMAIN text |-> DeclaredPlaces(text[i])])
        once == [i \in DOMAIN text |-> Declared(m1, text[i])]
        m2 == NotedEach(m1, [i \in DOMAIN once |-> UsedPlaces(once[i])])
    IN  [map |-> m2, text |-> [i \in DOMAIN once |-> Used(m2, once[i])]]

(* deanonymize: one pass over what looks like a placeholder.               *)
Real(m, w) ==
    IF IsPlaceholder(w) /\ \E v \in DOMAIN m.forward : m.forward[v] = w
    THEN CHOOSE v \in DOMAIN m.forward : m.forward[v] = w
    ELSE w
Deanonymized(m, text) ==
    [i \in DOMAIN text |->
        Phrase(text[i].declares, [j \in DOMAIN text[i].before |-> Real(m, text[i].before[j])],
               [j \in DOMAIN text[i].path |-> Real(m, text[i].path[j])])]

-----------------------------------------------------------------------------
(* The consultation *)

Asked == IF request.example = NoText THEN request.question
         ELSE request.question \o request.example

Log(decision) == log' = Append(log, decision)
Without(result) == [is |-> result, text |-> << >>]
Ends(result) == pc' = "done" /\ answer' = result

(* Faulty variant: only the question is scanned.                           *)
ScanQuestion ==
    /\ pc = "scan"
    /\ IF request.secret = "question" THEN Ends(Without("blocked")) /\ Log("blocked-secrets")
       ELSE pc' = "hide" /\ UNCHANGED <<answer, log>>
    /\ UNCHANGED <<request, setup, map, payload, shown, left>>

(* A secret anywhere, unless it is a sample of the documentation, stops it. *)
Scan ==
    /\ pc = "scan"
    /\ IF request.secret \in {"question", "example"} THEN Ends(Without("blocked")) /\ Log("blocked-secrets")
       ELSE pc' = "hide" /\ UNCHANGED <<answer, log>>
    /\ UNCHANGED <<request, setup, map, payload, shown, left>>

(* Faulty variant: question and example have a map each.                   *)
HideApart ==
    /\ pc = "hide"
    /\ LET q == Anonymized(Fresh, request.question)
           e == IF request.example = NoText THEN [map |-> q.map, text |-> << >>]
                ELSE Anonymized(Fresh, request.example)
       IN map' = e.map /\ payload' = q.text \o e.text
    /\ pc' = IF setup.waived THEN "send" ELSE "review"
    /\ UNCHANGED <<request, setup, shown, left, log, answer>>

(* Question and example share a map.                                       *)
Hide ==
    /\ pc = "hide"
    /\ LET q == Anonymized(Fresh, request.question)
           e == IF request.example = NoText THEN [map |-> q.map, text |-> << >>]
                ELSE Anonymized(q.map, request.example)
       IN map' = e.map /\ payload' = q.text \o e.text
    /\ pc' = IF setup.waived THEN "send" ELSE "review"
    /\ UNCHANGED <<request, setup, shown, left, log, answer>>

(* Nobody to ask; the user agrees, or does not; his answer cannot be read   *)
(* (a terminal), or the tab that asked is gone, which counts as a no.      *)
Review ==
    /\ pc = "review"
    /\ \/ setup.desk = "none" /\ Ends(Without("skipped")) /\ Log("declined-noninteractive") /\ UNCHANGED shown
       \/ /\ setup.desk # "none" /\ shown' = payload
          /\ \/ pc' = "send" /\ UNCHANGED <<answer, log>>
             \/ Ends(Without("declined")) /\ Log("declined")
             \/ setup.desk = "terminal" /\ Ends(Without("error")) /\ UNCHANGED log
    /\ UNCHANGED <<request, setup, map, payload, left>>

(* The model answers in the words it was given.                            *)
Send ==
    /\ pc = "send"
    /\ left' = payload
    /\ Ends([is |-> "answer", text |-> Deanonymized(map, payload)])
    /\ Log(IF setup.waived THEN "sent-auto" ELSE "sent")
    /\ UNCHANGED <<request, setup, map, payload, shown>>

(* The client cannot be built, or the request goes out and what comes back *)
(* is an error, nothing, or too late.                                      *)
SendFails ==
    /\ pc = "send"
    /\ \E out \in BOOLEAN : left' = IF out THEN payload ELSE left
    /\ Ends(Without("error"))
    /\ UNCHANGED <<request, setup, map, payload, shown, log>>

Requests == [question : Texts, example : Texts \cup {NoText},
             secret : {"nowhere", "question", "example", "sample"}]

Init ==
    /\ request \in {r \in Requests : r.secret = "example" => r.example # NoText}
    /\ setup \in [waived : BOOLEAN, desk : {"none", "terminal", "tab"}]
    /\ pc = "scan" /\ map = Fresh /\ payload = << >> /\ shown = << >> /\ left = << >>
    /\ log = << >> /\ answer = Without("none")

Next == Scan \/ Hide \/ Review \/ Send \/ SendFails

Spec == Init /\ [][Next]_vars

-----------------------------------------------------------------------------
(* Properties *)

(* Words that would tell a name: types, and identifiers where the code     *)
(* takes them for namespaces.                                              *)
Tells(p) ==
    \/ \E i \in DOMAIN p.before : p.before[i].kind = "type"
    \/ \E i \in DOMAIN p.path : \/ p.path[i].kind = "type"
                                \/ i < Len(p.path) /\ p.path[i].kind = "lower"
    \/ p.declares /\ \E i \in DOMAIN Dotted(p) : Dotted(p)[i].kind = "lower"

(* What leaves has no secret in it and no name of the project, and is what *)
(* the user saw and agreed to, unless he has waived that.                  *)
NothingLeavesUnseen ==
    left # << >> =>
        /\ request.secret \in {"nowhere", "sample"}
        /\ \A i \in DOMAIN left : ~Tells(left[i])
        /\ setup.waived \/ (shown = left /\ setup.desk # "none")

(* An answer comes with the names that were asked about, whichever of      *)
(* question and example had them: of requests without words that look like *)
(* placeholders, and without declarations that go on with "::".  There the *)
(* second pass hides the placeholder of the first once more, and the name  *)
(* does not come back.                                                     *)
Ordinary(p) ==
    /\ \A i \in DOMAIN p.before : ~IsPlaceholder(p.before[i])
    /\ \A i \in DOMAIN p.path : ~IsPlaceholder(p.path[i])
    /\ p.declares => Len(p.path) = 1
NamesComeBack ==
    (\A i \in DOMAIN Asked : Ordinary(Asked[i])) =>
        (answer.is = "answer" => answer.text = Asked)

(* The log says that something was sent only if it was, and knows of every *)
(* answer.                                                                 *)
LogIsTrue ==
    /\ \A i \in DOMAIN log : log[i] \in {"sent", "sent-auto"} => left # << >>
    /\ pc = "done" /\ answer.is # "error" => Len(log) = 1
=============================================================================
