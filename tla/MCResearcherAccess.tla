-------------------------- MODULE MCResearcherAccess --------------------------
(* Instance of ResearcherAccess for TLC. *)
EXTENDS ResearcherAccess, TLC

Budget(calls, requests, changes) ==
  [k \in Kind |-> CASE k = "calls" -> calls [] k = "requests" -> requests
                    [] k = "changes" -> changes]

(* Allowlist calls alone, the lab alone, and the two together. *)
Alternatives == {Budget(3, 0, 0), Budget(0, 2, 3), Budget(2, 1, 0)}

Symmetry == Permutations(Admin) \cup Permutations(Session)
              \cup Permutations(Login) \cup Permutations(Email)
=============================================================================
