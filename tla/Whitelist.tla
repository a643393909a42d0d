----------------------------- MODULE Whitelist -----------------------------
(***************************************************************************)
(* get_project_whitelist() and build_cumulative_whitelist() of            *)
(* .cargo/run.py (lines 115-151): the whitelist of project k is the       *)
(* 'whitelist' list of keos-project<k>/grader/.grade-target, or empty when *)
(* that file is missing or is not JSON; the whitelist in force for project *)
(* n is the union over projects 1..n.                                      *)
(***************************************************************************)
EXTENDS Naturals

CONSTANTS
    Declared    \* Declared[k]: the whitelist of the projects whose .grade-target parses

ASSUME WhitelistAssumption ==
    /\ DOMAIN Declared \subseteq Nat \ {0}

(* get_project_whitelist(k), lines 115-130.                                *)
ProjectWhitelist(k) == IF k \in DOMAIN Declared THEN Declared[k] ELSE {}

(* build_cumulative_whitelist(n), lines 140-151.                           *)
CumulativeWhitelist(n) == UNION {ProjectWhitelist(k) : k \in 1..n}
=============================================================================
