---------------------------- MODULE MCBoundaries ----------------------------
(* Model checking of the places where the program meets what is not its    *)
(* own: the policy for tool calls, a consultation outside, the bytes of a  *)
(* stream, and shells.  They share no state: each behaviour is one of one  *)
(* part, and the others stay where they begin.                             *)
EXTENDS Permissions, TLC

CONSTANTS bash, edit, other, a, b,                               \* Permissions
          Words, Texts,                                          \* Consultation
          MaxFrames,                                             \* Framing
          PipeSize, MaxOutput, MaxBytes                          \* ShellCommand

VARIABLES part,
          request, setup, stage, map, payload, shown, left, log, answer,
          dialect, eol, stream, at, buffer, given, state,
          program, limited, pc, late, shell, helper, want, ends, pipe, open, printed, got,
          result, output

MCTools == {bash, edit, other}
MCRequired == bash :> "danger-full-access" @@ edit :> "workspace-write"

Nothing == [k \in {} |-> << >>]
MCInputs == {[fields |-> "command" :> <<a>>, text |-> <<b>>],
             [fields |-> "path" :> <<a, b>> @@ "pattern" :> <<b>>, text |-> <<b>>],
             [fields |-> Nothing, text |-> <<b>>],
             [fields |-> Nothing, text |-> << >>]}

Rule(name, matcher, text) == [tool |-> name, matcher |-> matcher, text |-> text]
MCRules == {Rule(bash, "exact", <<a>>), Rule(bash, "prefix", <<a>>),
            Rule(edit, "prefix", <<a>>), Rule(edit, "any", << >>),
            Rule(other, "exact", <<b>>)}

(* Names a and b, types A and B, a name k that everybody knows.            *)
Word(kind, name) == [kind |-> kind, name |-> name]
Placed(n) == [kind |-> "N", n |-> n]
Lower(name) == Word("lower", name)
Type(name) == Word("type", name)
Phrase(declares, before, path) == [declares |-> declares, before |-> before, path |-> path]
MCPhrases == {Phrase(FALSE, << >>, <<Type("B")>>),
              Phrase(FALSE, << >>, <<Lower("a"), Type("A")>>),
              Phrase(FALSE, << >>, <<Lower("b"), Lower("a")>>),
              Phrase(TRUE, <<Lower("a")>>, <<Type("B")>>),
              Phrase(TRUE, << >>, <<Lower("a"), Type("A")>>),
              Phrase(FALSE, << >>, <<Word("known", "k"), Type("A")>>),
              Phrase(FALSE, <<Lower("b"), Lower("a")>>, <<Lower("b")>>),
              Phrase(FALSE, << >>, <<Placed(1), Type("A")>>)}

MCTexts == {<<p>> : p \in MCPhrases} \cup
           {<<Phrase(TRUE, << >>, <<Lower("b")>>), Phrase(FALSE, << >>, <<Lower("b"), Type("B")>>)>>}
MCWords == {Lower("a"), Lower("b"), Type("A"), Type("B"), Word("known", "k"), Placed(1)}

C == INSTANCE Consultation WITH pc <- stage
F == INSTANCE Framing
S == INSTANCE ShellCommand WITH tool <- program

ASSUME ConsultAssumption == C!WellFormed
ASSUME ShellAssumption == S!SizesFit

consult == <<request, setup, stage, map, payload, shown, left, log, answer>>
frames == <<dialect, eol, stream, at, buffer, given, state>>
shells == <<program, limited, pc, late, shell, helper, want, ends, pipe, open, printed, got,
            result, output>>
all == <<part, policy, consult, frames, shells>>

FirstRequest == [question |-> <<Phrase(FALSE, << >>, <<Type("B")>>)>>, example |-> NoText,
                 secret |-> "nowhere"]

BoundariesInit ==
    /\ part \in {"permissions", "consult", "stream", "shell"}
    /\ Init /\ F!Init /\ S!Init
    /\ part # "permissions" => policy.mode = "prompt"
    /\ IF part = "consult" THEN C!Init
       ELSE /\ request = FirstRequest /\ setup = [waived |-> FALSE, desk |-> "none"]
            /\ stage = "scan" /\ map = C!Fresh /\ payload = << >> /\ shown = << >>
            /\ left = << >> /\ log = << >> /\ answer = C!Without("none")
    /\ part # "stream" => dialect = "openai" /\ eol = "lf" /\ stream = <<"event">>
    /\ part # "shell" => program = "bash" /\ ~limited

InPermissions == UNCHANGED <<part, consult, frames, shells>>
InConsult == UNCHANGED <<part, policy, frames, shells>>
InStream == UNCHANGED <<part, policy, consult, shells>>
InShell == UNCHANGED <<part, policy, consult, frames>>

BoundariesNext ==
    \/ part = "permissions" /\ Next /\ InPermissions
    \/ part = "consult" /\ C!Next /\ InConsult
    \/ part = "stream" /\ F!Next /\ InStream
    \/ part = "shell" /\ S!Next /\ InShell

(* The fairness that ShellCommand states; no other part promises to end.   *)
Fairness ==
    /\ WF_all(part = "shell" /\ S!Tool /\ InShell)
    /\ WF_all(part = "shell" /\ S!Expire /\ InShell)

BoundariesSpec == BoundariesInit /\ [][BoundariesNext]_all /\ Fairness

(* A consultation: nothing leaves unseen, the answer comes with the names  *)
(* that were asked about, and the log does not lie.                        *)
ConsultationsAreSafe ==
    part = "consult" => C!NothingLeavesUnseen /\ C!NamesComeBack /\ C!LogIsTrue

(* Streams: the events do not depend on how the bytes are cut.             *)
CutsDoNotMatter == part = "stream" => F!CutsDoNotMatter

(* Shells: all that was printed is read, of a shell that has ended, and    *)
(* told unless bash says by a mark that it told a part.                    *)
ShellResults == part = "shell" => S!TypeOK /\ S!ResultsTell

(* And a call ends.                                                        *)
ShellCallsEnd == part = "shell" => S!CallsEnd
=============================================================================
