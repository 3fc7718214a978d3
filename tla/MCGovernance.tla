---------------------------- MODULE MCGovernance ----------------------------
(* Instances of Governance: a call, rotations good and bad, both delays.   *)
EXTENDS Governance, TLC
CONSTANTS a, b, c
MCRequests ==
  [action : {"call"}]
    \cup [action : {"rotate_owners"}, owners : {{a}, {b, c}}, threshold : {2}]
    \cup [action : {"set_timelock"}, delay : Timelocks]
    \cup [action : {"set_proposal_ttl"}, ttl : Ttls]
\* No request tells b from c.
MCSymmetry == Permutations({b, c})
MCCalls == [action : {"call"}]
=============================================================================
