---------------------------- MODULE ToolListing ----------------------------
(***************************************************************************)
(* The tools an agent is told about: visibleTools() and the filter on      *)
(* tools/list responses of js/src/adapters/mcp-proxy.ts.                   *)
(***************************************************************************)
EXTENDS PolicyEngine

\* A tool is hidden when no rule mentions it and the default denies.
VisibleTools(policy, names) ==
    IF policy.default # "deny" THEN names
    ELSE {name \in names : \E i \in DOMAIN policy.rules : name \in policy.rules[i].tools}

=============================================================================
