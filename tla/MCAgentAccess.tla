---------------------------- MODULE MCAgentAccess ----------------------------
(***************************************************************************)
(* Instances of AgentAccess for TLC.                                        *)
(***************************************************************************)
EXTENDS AgentAccess

CONSTANTS o1

Contribution(scope, deployed, levels, decision, mappings, grants, provisioning) ==
  [scope |-> scope, deployment_id |-> deployed, deployment_revision_id |-> deployed,
   target |-> "existing", within_bounds |-> TRUE, levels |-> levels, decision |-> decision,
   mappings |-> mappings, grants |-> grants, provisioning |-> provisioning]

Env(name, item) ==
  [environment_name |-> name, field_group |-> 0, vault |-> 1, item |-> item, field |-> 1,
   wrap |-> "wrap"]
Grants(v, level) == [vault |-> v, level |-> level, wrap |-> "wrap"]
Maps(key, v) == [key |-> key, vault |-> v]

\* Equal names apart and side by side, more of them than allowed, and none.
Mappings ==
  {<<Env(1, 1), Env(2, 2), Env(1, 3)>>, <<Env(2, 1), Env(1, 2)>>, <<Env(1, 2), Env(2, 1)>>, <<>>,
   <<Env(1, 1), Env(2, 1), Env(3, 1), Env(4, 1)>>, <<[Env(1, 1) EXCEPT !.wrap = None]>>}

FieldContributions ==
  {Contribution("secret_fields", d, levels, "approve", m, <<>>, None) :
     d \in BOOLEAN, levels \in {<<Read>>, <<Write>>}, m \in Mappings}

GrantLists ==
  {<<>>, <<Grants(1, Write)>>, <<Grants(1, Write), Grants(2, Write)>>,
   <<Grants(2, Write), Grants(1, Write)>>, <<Grants(1, Write), Grants(1, Write)>>,
   <<Grants(2, Read), Grants(1, Write)>>}

VaultContributions ==
  {Contribution("vault_access", FALSE, levels, "approve", <<>>, g, None) :
     levels \in {<<>>, <<Write, Read>>, <<Write, Write>>, <<Read>>},
     g \in GrantLists}

\* Proposals with a repeated key, and vaults mapped twice or not at all.
Provisionings ==
  {[keys |-> keys, vault_count |-> n, vaults |-> vaults] :
     keys \in {<<>>, <<1>>, <<2, 1>>, <<1, 1>>}, n \in {1, 2},
     vaults \in {<<>>, <<Maps(1, 1)>>, <<Maps(1, 1), Maps(2, 2)>>, <<Maps(2, 2), Maps(1, 1)>>,
                 <<Maps(1, 1), Maps(2, 1)>>, <<Maps(1, 1), Maps(1, 2)>>}}

ProvisioningContributions ==
  {Contribution("vault_access", TRUE, <<Write>>, decision, <<>>, g, p) :
     decision \in {"approve", "decline"}, g \in GrantLists, p \in Provisionings}

MCContributions ==
  FieldContributions \cup VaultContributions \cup ProvisioningContributions
==============================================================================
