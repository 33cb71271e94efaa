------------------------ MODULE MCConversationTurn ------------------------
(* Model checking of ConversationTurn.                                     *)
EXTENDS ConversationTurn, TLC

MCTools == {"bash", "edit"}
MCRequired == "bash" :> "danger-full-access" @@ "edit" :> "workspace-write"

MCNames == {"v1", "v2"}
MCInputOf == "v1" :> [fields |-> "command" :> <<1>>, text |-> <<1>>] @@
             "v2" :> [fields |-> "command" :> <<2>>, text |-> <<2>>]

NoV2 == [tool |-> "bash", matcher |-> "exact", text |-> <<2>>]
AnyEdit == [tool |-> "edit", matcher |-> "any", text |-> << >>]
MCRules == {NoV2, AnyEdit}

Policy(mode, deny, ask) == [mode |-> mode, allow |-> {}, deny |-> deny, ask |-> ask]
MCPolicies == {Policy("workspace-write", {NoV2}, {}),
               Policy("danger-full-access", {NoV2}, {AnyEdit})}

Says(deny, override, updated) == [deny |-> deny, override |-> override, updated |-> updated]
MCAnswers == {Says(FALSE, "none", "none"), Says(FALSE, "allow", "v2"),
              Says(FALSE, "ask", "none"), Says(TRUE, "none", "none")}
=============================================================================
