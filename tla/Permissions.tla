---------------------------- MODULE Permissions ----------------------------
(***************************************************************************)
(* The permission policy of a conversation (runtime/permissions.rs) and    *)
(* the enforcer in front of the built-in tools (permission_enforcer.rs).   *)
(*                                                                         *)
(* The decision itself is a pure operator, Authorize.  The state machine   *)
(* is the configuration it decides under: the policy is rebuilt with       *)
(* another mode by /permissions, and with other rules when a configuration *)
(* is merged.  The properties compare the decisions before and after such  *)
(* a step, for every call a tool can make.                                 *)
(***************************************************************************)
EXTENDS Naturals, Sequences, FiniteSets

CONSTANTS Tools,      \* tool names
          Inputs,     \* the inputs a model or a hook gives to a tool
          Rules,      \* the rules a configuration may hold
          Required,   \* tool -> mode, for the tools that declare one
          NoText,     \* "no permission subject"
          MaxRules    \* bound on the rules in force (model checking only)

Modes == {"read-only", "workspace-write", "danger-full-access", "prompt", "allow"}
Overrides == {"none", "allow", "deny", "ask"}
Replies == {"none", "allow", "deny"}      \* "none": nobody to ask

ASSUME RequiredAssumption == /\ DOMAIN Required \subseteq Tools
                             /\ \A t \in DOMAIN Required : Required[t] \in Modes
ASSUME MaxRulesAssumption == MaxRules \in Nat

VARIABLE policy       \* [mode, allow, deny, ask]

Policies == [mode : Modes, allow : SUBSET Rules, deny : SUBSET Rules,
             ask : SUBSET Rules]

-----------------------------------------------------------------------------
(* Rules *)

(* The keys of a JSON input that name what the tool acts on, in the order  *)
(* in which they are looked up.                                            *)
SubjectKeys == <<"command", "path", "file_path", "filePath", "notebook_path",
                 "notebookPath", "url", "pattern", "code", "message">>

(* An input is the string fields of the object it parses to (none if it    *)
(* does not parse to an object) and its own text.                          *)
Subject(input) ==
    LET present == {i \in DOMAIN SubjectKeys : SubjectKeys[i] \in DOMAIN input.fields}
    IN  IF present # {}
        THEN input.fields[SubjectKeys[CHOOSE i \in present : \A j \in present : i <= j]]
        ELSE IF input.text = << >> THEN NoText ELSE input.text

StartsWith(text, prefix) ==
    /\ Len(prefix) <= Len(text)
    /\ SubSeq(text, 1, Len(prefix)) = prefix

Matches(rule, tool, input) ==
    /\ rule.tool = tool
    /\ \/ rule.matcher = "any"
       \/ /\ Subject(input) # NoText
          /\ \/ rule.matcher = "exact" /\ Subject(input) = rule.text
             \/ rule.matcher = "prefix" /\ StartsWith(Subject(input), rule.text)

SomeMatches(rules, tool, input) == \E rule \in rules : Matches(rule, tool, input)

-----------------------------------------------------------------------------
(* Modes *)

(* Derived order of the PermissionMode enumeration: prompt lies above      *)
(* danger-full-access.                                                     *)
Rank(mode) == CASE mode = "read-only" -> 0
                [] mode = "workspace-write" -> 1
                [] mode = "danger-full-access" -> 2
                [] mode = "prompt" -> 3
                [] mode = "allow" -> 4

RequiredMode(tool) ==
    IF tool \in DOMAIN Required THEN Required[tool] ELSE "danger-full-access"

(* Faulty variant: only the mode a tool names admits it.                   *)
GrantedExactly(p, tool, input) ==
    \/ SomeMatches(p.allow, tool, input)
    \/ p.mode = "allow"
    \/ p.mode = RequiredMode(tool)

Granted(p, tool, input) ==
    \/ SomeMatches(p.allow, tool, input)
    \/ p.mode = "allow"
    \/ Rank(p.mode) >= Rank(RequiredMode(tool))

Escalates(p, tool) ==
    \/ p.mode = "prompt"
    \/ p.mode = "workspace-write" /\ RequiredMode(tool) = "danger-full-access"

-----------------------------------------------------------------------------
(* The decision *)

Allowed == [allowed |-> TRUE, asked |-> FALSE]
Denied == [allowed |-> FALSE, asked |-> FALSE]
PromptOrDeny(reply) == [allowed |-> reply = "allow", asked |-> reply # "none"]

(* Faulty variant: a hook's "allow" ends the decision before the ask rules.*)
AuthorizeTrustingHooks(p, tool, input, override, reply) ==
    IF SomeMatches(p.deny, tool, input) \/ override = "deny" THEN Denied
    ELSE IF override = "allow" THEN Allowed
    ELSE IF override = "ask" \/ SomeMatches(p.ask, tool, input) THEN PromptOrDeny(reply)
    ELSE IF Granted(p, tool, input) THEN Allowed
    ELSE IF Escalates(p, tool) THEN PromptOrDeny(reply)
    ELSE Denied

(* Faulty variant: what the policy grants is granted before ask rules.     *)
AuthorizeGrantedFirst(p, tool, input, override, reply) ==
    IF SomeMatches(p.deny, tool, input) \/ override = "deny" THEN Denied
    ELSE IF override = "ask" THEN PromptOrDeny(reply)
    ELSE IF Granted(p, tool, input) THEN Allowed
    ELSE IF SomeMatches(p.ask, tool, input) \/ Escalates(p, tool) THEN PromptOrDeny(reply)
    ELSE Denied

Authorize(p, tool, input, override, reply) ==
    LET asks == SomeMatches(p.ask, tool, input)
        granted == Granted(p, tool, input)
    IN  IF SomeMatches(p.deny, tool, input) THEN Denied
        ELSE IF override = "deny" THEN Denied
        ELSE IF override = "ask" THEN PromptOrDeny(reply)
        ELSE IF override = "allow" /\ asks THEN PromptOrDeny(reply)
        ELSE IF override = "allow" /\ granted THEN Allowed
        ELSE IF asks THEN PromptOrDeny(reply)
        ELSE IF granted THEN Allowed
        ELSE IF Escalates(p, tool) THEN PromptOrDeny(reply)
        ELSE Denied

(* The second gate: nobody to ask, and no hook to listen to; in prompt     *)
(* mode it leaves the decision to the first one.                           *)
EnforcerAllows(p, tool, input) ==
    \/ p.mode = "prompt"
    \/ Authorize(p, tool, input, "none", "none").allowed

-----------------------------------------------------------------------------
(* The configuration *)

(* Bound of the model: the rules in force.                                 *)
Small(p) == Cardinality(p.allow) + Cardinality(p.deny) + Cardinality(p.ask) <= MaxRules

(* Faulty variant: a mode change forgets the rules.                        *)
SwitchModeAlone(mode) ==
    policy' = [mode |-> mode, allow |-> {}, deny |-> {}, ask |-> {}]

(* /permissions: the policy is rebuilt from the same configuration.        *)
SwitchMode(mode) == policy' = [policy EXCEPT !.mode = mode]

(* with_permission_rules: the three lists come from the configuration,     *)
(* which a file of a later precedence has one more rule for.               *)
AddRule(list, rule) ==
    /\ rule \notin policy[list]
    /\ policy' = [policy EXCEPT ![list] = @ \cup {rule}]
    /\ Small(policy')

Init == /\ policy \in [mode : Modes, allow : {{}}, deny : {{}}, ask : {{}}]

Next == \/ \E mode \in Modes : SwitchMode(mode)
        \/ \E list \in {"allow", "deny", "ask"}, rule \in Rules : AddRule(list, rule)

Spec == Init /\ [][Next]_policy

-----------------------------------------------------------------------------
(* Properties *)

(* The policy is a mode and three sets of rules.                           *)
TypeOK == policy \in Policies

(* Whatever the mode, the allow rules and a hook say, a call under a deny  *)
(* rule never runs, and a call under an ask rule or a hook's "ask" runs    *)
(* only after somebody was asked and agreed.                               *)
NothingPassesUnasked ==
    \A tool \in Tools, input \in Inputs, override \in Overrides, reply \in Replies :
        LET d == Authorize(policy, tool, input, override, reply) IN
        d.allowed =>
            /\ ~SomeMatches(policy.deny, tool, input)
            /\ \/ ~SomeMatches(policy.ask, tool, input) /\ override # "ask"
               \/ d.asked /\ reply = "allow"

(* A hook's "allow" grants nothing: each decision is the one taken without *)
(* a hook.  Its "ask" and "deny" only take away.                           *)
HooksOnlyRestrict ==
    \A tool \in Tools, input \in Inputs, reply \in Replies :
        LET D(override) == Authorize(policy, tool, input, override, reply) IN
        /\ D("allow") = D("none")
        /\ ~D("deny").allowed
        /\ D("ask").allowed => reply = "allow"

(* Given the same input the second gate, which asks nobody and hears no    *)
(* hook, lets through, outside prompt mode, just what the first one allows *)
(* without a question, whatever the user would have said and whether no    *)
(* hook spoke or one said "allow".  What it still refuses of the calls     *)
(* that the first gate let through are those the user has agreed to.       *)
GatesAgree ==
    \A tool \in Tools, input \in Inputs, override \in Overrides, reply \in Replies :
        LET first == Authorize(policy, tool, input, override, reply)
            second == EnforcerAllows(policy, tool, input)
        IN  /\ policy.mode # "prompt" /\ override \in {"none", "allow"} =>
                  (second <=> first.allowed /\ ~first.asked)
            /\ first.allowed /\ ~second => first.asked /\ reply = "allow"

AllowedUnder(p, tool, input, override, reply) ==
    Authorize(p, tool, input, override, reply).allowed

SameRules == /\ policy'.allow = policy.allow
             /\ policy'.deny = policy.deny
             /\ policy'.ask = policy.ask

HigherModeGrants ==
    Rank(policy'.mode) > Rank(policy.mode) /\ SameRules =>
        \A tool \in Tools, input \in Inputs, override \in Overrides, reply \in Replies :
            AllowedUnder(policy, tool, input, override, reply)
                => AllowedUnder(policy', tool, input, override, reply)

(* Raising the mode, in the order of the enumeration, takes no permission  *)
(* away.                                                                   *)
ModeIsMonotone == [][HigherModeGrants]_policy

RulesCount ==
    \A tool \in Tools, input \in Inputs, override \in Overrides, reply \in Replies :
        LET before == AllowedUnder(policy, tool, input, override, reply)
            after == AllowedUnder(policy', tool, input, override, reply)
        IN  policy'.mode = policy.mode =>
              /\ (policy'.allow = policy.allow /\ reply # "allow") => (after => before)
              /\ (policy'.deny = policy.deny /\ policy'.ask = policy.ask) => (before => after)

(* One more deny or ask rule never lets a call through that was refused    *)
(* with the same reply, and one more allow rule never refuses one.         *)
RulesAreMonotone == [][RulesCount]_policy

RefusedStays ==
    \A tool \in Tools, input \in Inputs :
        SomeMatches(policy.deny, tool, input)
          => \A override \in Overrides, reply \in Replies :
                ~AllowedUnder(policy', tool, input, override, reply)

(* A rule stays in force until the configuration drops it: changing the    *)
(* mode lets no call through that a deny rule refuses.                     *)
DenyOutlivesMode == [][RefusedStays]_policy
=============================================================================
