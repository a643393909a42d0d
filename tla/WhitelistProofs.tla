-------------------------- MODULE WhitelistProofs --------------------------
(***************************************************************************)
(* Spec section 8: for stage numbers N1 <= N2, the cumulative whitelist    *)
(* that build_cumulative_whitelist(N1) returns is a subset of the one for  *)
(* N2, whatever the .grade-target files declare.                           *)
(***************************************************************************)
EXTENDS Whitelist, TLAPS

(* A file exempt at an earlier stage stays exempt at every later stage:   *)
(* build_cumulative_whitelist loops over range(1, n + 1) and only adds.    *)
THEOREM CumulativeMonotone ==
    ASSUME NEW n1 \in Nat, NEW n2 \in Nat, n1 <= n2
    PROVE  CumulativeWhitelist(n1) \subseteq CumulativeWhitelist(n2)
<1>1. 1..n1 \subseteq 1..n2
    OBVIOUS
<1>. QED
    BY <1>1 DEF CumulativeWhitelist
=============================================================================
