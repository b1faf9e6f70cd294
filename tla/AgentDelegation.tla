--------------------------- MODULE AgentDelegation ---------------------------
(***************************************************************************)
(* The contribution a participant signs to delegate secrets or vaults to   *)
(* an agent (protocol/agent_delegation_policy.rs): what is refused, and    *)
(* the canonical payload the signature covers.                             *)
(*                                                                         *)
(* Ids, names and keys are numbers, so that they have an order.  Of the    *)
(* fields that are only bounded in length or sign, one flag says whether   *)
(* all of them are within their bounds; a wrap that is empty or too long   *)
(* is None.                                                                *)
(***************************************************************************)
EXTENDS Naturals, Sequences, FiniteSets

CONSTANTS
  MAX_MAPPINGS, MAX_VAULT_GRANTS, MAX_PROVISIONED_VAULTS,
  None

\* The access levels, by the order of the enum.
Read == 1
Write == 2
Admin == 3
AccessLevels == {Read, Write, Admin}

\* What a participant signs, with its lists.
Wraps == {"wrap", None}
MappingRecord ==
  [environment_name : Nat, field_group : Nat, vault : Nat, item : Nat, field : Nat, wrap : Wraps]
GrantRecord == [vault : Nat, level : AccessLevels, wrap : Wraps]
ProvisioningRecord ==
  [keys : Seq(Nat), vault_count : Nat, vaults : Seq([key : Nat, vault : Nat])]
ContributionRecord ==
  [scope : {"secret_fields", "vault_access"}, target : {"existing", "bootstrap"},
   deployment_id : BOOLEAN, deployment_revision_id : BOOLEAN, within_bounds : BOOLEAN,
   decision : {"approve", "decline"}, levels : Seq(AccessLevels),
   mappings : Seq(MappingRecord), grants : Seq(GrantRecord),
   provisioning : ProvisioningRecord \cup {None}]

Elements(seq) == {seq[i] : i \in DOMAIN seq}
Column(seq, f) == {seq[i][f] : i \in DOMAIN seq}

\* Tuples of numbers, in their lexicographic order.
Before(a, b) ==
  \E i \in DOMAIN a : a[i] < b[i] /\ \A j \in 1..(i - 1) : a[j] = b[j]

\* How many elements go first when a list with these keys is sorted, the element
\* itself included; equal keys keep their order.
Rank(key, j) ==
  Cardinality({k \in DOMAIN key : Before(key[k], key[j]) \/ (key[k] = key[j] /\ k <= j)})

SortBy(seq, key) == [i \in DOMAIN seq |-> seq[CHOOSE j \in DOMAIN seq : Rank(key, j) = i]]

MappingKeys(m) ==
  [i \in DOMAIN m |-> <<m[i].environment_name, m[i].field_group, m[i].vault, m[i].item,
                        m[i].field>>]
GrantKeys(g) == [i \in DOMAIN g |-> <<g[i].vault, g[i].level>>]
Keys(list) == [i \in DOMAIN list |-> <<list[i]>>]
VaultKeys(v) == [i \in DOMAIN v |-> <<v[i].key>>]

-----------------------------------------------------------------------------
(* Validation.                                                             *)

binding_valid(p) ==
  /\ p.keys # <<>> /\ Len(p.keys) <= MAX_PROVISIONED_VAULTS
  /\ Len(p.keys) = p.vault_count
  /\ Cardinality(Elements(p.keys)) = Len(p.keys)

\* Mutant: two keys may be mapped to one vault.
KeysMappedOnly(c, p) ==
  /\ binding_valid(p)
  /\ c.deployment_id /\ c.deployment_revision_id
  /\ c.target = "existing" /\ c.levels = <<Write>> /\ c.mappings = <<>>
  /\ IF c.decision = "decline" THEN p.vaults = <<>> /\ c.grants = <<>>
     ELSE /\ Elements(p.keys) = Column(p.vaults, "key")
          /\ Len(p.vaults) = Len(p.keys)
          /\ Column(p.vaults, "vault") = Column(c.grants, "vault")
          /\ \A i \in DOMAIN c.grants : c.grants[i].level = Write

validate_vault_provisioning(c, p) ==
  /\ binding_valid(p)
  /\ c.deployment_id /\ c.deployment_revision_id
  /\ c.target = "existing" /\ c.levels = <<Write>> /\ c.mappings = <<>>
  /\ IF c.decision = "decline" THEN p.vaults = <<>> /\ c.grants = <<>>
     ELSE LET keys == Elements(p.keys)
              mapped == Column(p.vaults, "vault")
          IN  /\ keys = Column(p.vaults, "key")
              /\ Len(p.vaults) = Cardinality(keys) /\ Cardinality(mapped) = Cardinality(keys)
              /\ Len(c.grants) = Cardinality(keys) /\ mapped = Column(c.grants, "vault")
              /\ \A i \in DOMAIN c.grants : c.grants[i].level = Write

valid_scope(c) ==
  IF c.scope = "secret_fields"
    THEN /\ c.provisioning = None
         /\ c.deployment_id /\ c.deployment_revision_id
         /\ c.target = "existing" /\ c.levels = <<Read>>
    ELSE IF c.provisioning # None
    THEN validate_vault_provisioning(c, c.provisioning)
    ELSE ~c.deployment_id /\ ~c.deployment_revision_id /\ c.levels # <<>>

validate_contribution(c) ==
  /\ c.within_bounds
  /\ valid_scope(c)
  /\ Len(c.mappings) <= MAX_MAPPINGS /\ Len(c.grants) <= MAX_VAULT_GRANTS
  /\ \A i \in DOMAIN c.mappings : c.mappings[i].wrap # None
  /\ \A i \in DOMAIN c.grants : c.grants[i].level \in Elements(c.levels)
                                /\ c.grants[i].wrap # None

-----------------------------------------------------------------------------
(* Canonical order, then duplicates, then the payload.                     *)

canonical_provisioning(p) ==
  IF p = None THEN None
  ELSE [p EXCEPT !.keys = SortBy(@, Keys(@)), !.vaults = SortBy(@, VaultKeys(@))]

\* Mutant: the grants stay in the order of the wire.
GrantsUnsorted(c) ==
  [c EXCEPT
    !.mappings = SortBy(@, MappingKeys(@)),
    !.levels = SortBy(@, Keys(@)),
    !.provisioning = canonical_provisioning(@)]

canonical_order(c) ==
  [c EXCEPT
    !.mappings = SortBy(@, MappingKeys(@)),
    !.grants = SortBy(@, GrantKeys(@)),
    !.levels = SortBy(@, Keys(@)),
    !.provisioning = canonical_provisioning(@)]

\* Two neighbours that are equal.
windows_equal(seq) == \E i \in 1..(Len(seq) - 1) : seq[i] = seq[i + 1]

has_duplicates(c) ==
  \/ windows_equal(c.levels)
  \/ windows_equal([i \in DOMAIN c.mappings |-> c.mappings[i].environment_name])
  \/ windows_equal([i \in DOMAIN c.grants |-> c.grants[i].vault])

\* Mutant: duplicates are looked for in the order of the wire.
CheckedBeforeSorting(c) ==
  IF ~validate_contribution(c) \/ has_duplicates(c) THEN None
  ELSE [domain |-> "agent-delegation-policy-contribution", contribution |-> canonical_order(c)]

\* None is the error.
agent_delegation_contribution_payload(c) ==
  IF ~validate_contribution(c) \/ has_duplicates(canonical_order(c)) THEN None
  ELSE [domain |-> "agent-delegation-policy-contribution", contribution |-> canonical_order(c)]
=============================================================================
