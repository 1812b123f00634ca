----------------------------- MODULE MCFailover -----------------------------
(* Profiles of one provider: an oauth profile, a token and an api key, of which a run's cfg   *)
(* takes some, and one more that an authorization may add; fallback on the same provider and  *)
(* on another one that has no profiles.                                                       *)
EXTENDS Failover

MCProviders == {"A", "B"}
MCProviderOf == [p \in Profiles |-> "A"]
MCPriority == [p \in Profiles |-> CASE p = "token" -> 1 [] p = "key" -> 2 [] OTHER -> 0]
MCCooldown == [e \in {"rate_limit", "timeout", "unknown", "auth", "format"} |->
                 CASE e \in {"rate_limit", "timeout"} -> 1 [] e = "auth" -> 2 [] OTHER -> 0]
MCFewCooldowns == [e \in {"timeout", "auth"} |-> MCCooldown[e]]
MCChain == <<"A", "A">>
MCOtherChain == <<"A", "B">>

=============================================================================
