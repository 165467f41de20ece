------------------------------- MODULE MCBudget -------------------------------
(* Models of Budget for TLC: small budgets with the default thresholds, and with
   explicit ones that validation accepts or refuses. *)
EXTENDS Budget

MCDefaults ==
  [token_budget : (3..12) \cup {24, 40}, processed_token_limit : {0}, synthesis_at : {0},
   proposal_by : {0}, call_reserve_tokens : {0}, max_proposals : {0}]

MCExplicit ==
  [token_budget : {2, 6, 8}, processed_token_limit : {0, 7}, synthesis_at : {0, 1, 4},
   proposal_by : {0, 2, 5, 8}, call_reserve_tokens : {0, 3, 7}, max_proposals : {1}]

MCPolicies == MCDefaults \cup MCExplicit
=============================================================================
