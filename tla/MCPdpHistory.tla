---------------------------- MODULE MCPdpHistory ----------------------------
(* One check across two edits: the tables hold a grant and an enabled deny *)
(* policy.                                                                 *)
EXTENDS MCPdp, PdpHistory

TornInitRows ==
  [t \in Tenant |-> [roles |-> {Admin}, edges |-> {}, grants |-> {<<Admin, Pay>>}, direct |-> {},
                     policies |-> {[id |-> p1, perm |-> Pay, effect |-> "deny",
                                    cond |-> Always, enabled |-> TRUE]}]]
=============================================================================
