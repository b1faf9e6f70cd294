----------------------------- MODULE AgentAccess -----------------------------
(***************************************************************************)
(* Agent identities and their access to vaults: signed creations, signed   *)
(* membership grants, delegations and revocations (vault.rs and            *)
(* protocol/membership_grant.rs), through a gateway that delivers requests *)
(* late, twice or never, to a service that may confuse stored rows.  What  *)
(* the service itself does (Serve...) is external: it verifies with the    *)
(* functions of the crypto crate.                                          *)
(***************************************************************************)
EXTENDS AgentDelegation

CONSTANTS
  Owners,           \* users that own agents and grant access
  Vaults,           \* numbers
  Levels,           \* the access levels of grant_membership, as texts
  Contributions,    \* the contributions to consider, in every wire order
  MaxCalls,         \* bound on the calls of the owners
  MaxMixUps         \* bound on the mistakes of the service

ASSUME AgentAssumption ==
  /\ Contributions \subseteq ContributionRecord
  /\ \A c \in Contributions : Column(c.grants, "vault") \subseteq Vaults
  /\ MaxCalls \in Nat /\ MaxMixUps \in Nat
  /\ None \notin Nat

VARIABLES
  calls,    \* how many calls the owners made; each draws its nonce from it
  net,      \* every request that was sent; it may arrive any number of times
  used,     \* the nonces the service has seen
  agents,   \* for each agent the request that made it; its index is its id
  revoked,  \* the revoked agents
  rows,     \* the membership rows of the service
  accepted, \* the contributions the service accepted
  granted,  \* every membership an owner signed
  standing, \* the memberships stored since the last revocation of their agent
            \* in their vault
  mixUps    \* how often the service confused two rows

vars == <<calls, net, used, agents, revoked, rows, accepted, granted, standing, mixUps>>

-----------------------------------------------------------------------------
(* Signatures are symbolic: a signature is valid for one key and message.  *)

sign(o, message) == [by |-> o, over |-> message]

verify(o, message, signature) == signature.by = o /\ signature.over = message

\* A wrap of a vault's key for an agent.
wrap_vault_key_for_identity(v, a) == [vault |-> v, for |-> a]

\* Mutant: another level is zero instead of an error.
LevelOrZero(level) ==
  CASE level = "read" -> Read [] level = "write" -> Write [] level = "admin" -> Admin
    [] OTHER -> 0

access_level_byte(level) ==
  CASE level = "read" -> Read [] level = "write" -> Write [] level = "admin" -> Admin
    [] OTHER -> None

\* Mutant: the access level is not covered by the signature.
BytesWithoutLevel(v, a, level, wrap) ==
  [domain |-> "membership-grant", vault |-> v, identity |-> a, wrap |-> wrap]

membership_grant_signing_bytes(v, a, level, wrap) ==
  [domain |-> "membership-grant", vault |-> v, identity |-> a, level |-> level, wrap |-> wrap]

sign_membership_grant(o, v, a, level, wrap) ==
  sign(o, membership_grant_signing_bytes(v, a, level, wrap))

verify_membership_grant(r) ==
  verify(r.by, membership_grant_signing_bytes(r.vault, r.identity, r.level, r.wrap), r.signature)

canonical_create_agent_bytes(name, issued_at, nonce) ==
  [domain |-> "create-agent", name |-> name, issued_at |-> issued_at, nonce |-> nonce]

\* A row for a grant by o.
Row(o, v, a, level, wrap, signature) ==
  [by |-> o, vault |-> v, identity |-> a, level |-> level, wrap |-> wrap,
   signature |-> signature, revoked_at |-> None]

Grant(o, v, a, level) ==
  LET wrap == wrap_vault_key_for_identity(v, a)
  IN  Row(o, v, a, level, wrap, sign_membership_grant(o, v, a, level, wrap))

-----------------------------------------------------------------------------
(* The calls of the owners.                                                *)

Send(request) ==
  /\ calls < MaxCalls
  /\ calls' = calls + 1
  /\ net' = net \cup {request}
  /\ UNCHANGED <<used, agents, revoked, rows, accepted, standing, mixUps>>

\* Mutant: the nonce of the owner's session.
CreateWithSessionNonce(o) ==
  /\ Send([kind |-> "create", owner |-> o, name |-> o, issued_at |-> calls, nonce |-> 0,
           signature |-> sign(o, canonical_create_agent_bytes(o, calls, 0))])
  /\ UNCHANGED granted

\* Time and nonce are drawn in the call: calling again is another request.
create_agent_identity(o) ==
  /\ Send([kind |-> "create", owner |-> o, name |-> o, issued_at |-> calls, nonce |-> calls,
           signature |-> sign(o, canonical_create_agent_bytes(o, calls, calls))])
  /\ UNCHANGED granted

\* A level that is none of the three is an error before anything is sent.
grant_membership(o, v, a, level) ==
  LET row == Grant(o, v, a, access_level_byte(level))
  IN  /\ access_level_byte(level) # None
      /\ Send([kind |-> "grant", row |-> row])
      /\ granted' = granted \cup {row}

revoke_membership(v, a) ==
  Send([kind |-> "revoke", vault |-> v, identity |-> a, n |-> calls]) /\ UNCHANGED granted

revoke_agent_identity(a) ==
  Send([kind |-> "revoke_agent", identity |-> a]) /\ UNCHANGED granted

Signable == {c \in Contributions : agent_delegation_contribution_payload(c) # None}

Same(list, other) == Len(list) = Len(other) /\ Elements(list) = Elements(other)

\* The same contribution with its lists in another order.
WireOrders ==
  [c \in Signable |-> {d \in Contributions :
     /\ [d EXCEPT !.mappings = c.mappings, !.grants = c.grants, !.levels = c.levels,
                  !.provisioning = c.provisioning] = c
     /\ Same(c.mappings, d.mappings) /\ Same(c.grants, d.grants) /\ Same(c.levels, d.levels)
     /\ IF c.provisioning = None THEN d.provisioning = None
        ELSE /\ d.provisioning # None
             /\ d.provisioning.vault_count = c.provisioning.vault_count
             /\ Same(c.provisioning.keys, d.provisioning.keys)
             /\ Same(c.provisioning.vaults, d.provisioning.vaults)}]

\* What a contribution signs besides its payload: the agent it is for, and the
\* wraps and signatures of its grants.
contribution_bytes(a, memberships, payload) ==
  [agent |-> a, memberships |-> memberships, payload |-> payload]

\* A participant signs the canonical payload; the wire may reorder the lists.
sign_agent_delegation_contribution(o, a, c) ==
  LET payload == agent_delegation_contribution_payload(c)
      memberships == {Grant(o, c.grants[i].vault, a, c.grants[i].level) : i \in DOMAIN c.grants}
  IN  /\ payload # None
      /\ \E sent \in WireOrders[c] :
           Send([kind |-> "contribution", owner |-> o, agent |-> a, contribution |-> sent,
                 memberships |-> memberships,
                 signature |-> sign(o, contribution_bytes(a, memberships, payload))])
      /\ granted' = granted \cup memberships

-----------------------------------------------------------------------------
(* The service (external).                                                 *)

creation_valid(m) ==
  /\ verify(m.owner, canonical_create_agent_bytes(m.name, m.issued_at, m.nonce), m.signature)
  /\ m.nonce \notin used

contribution_valid(m) ==
  LET payload == agent_delegation_contribution_payload(m.contribution)
  IN  /\ payload # None
      /\ verify(m.owner, contribution_bytes(m.agent, m.memberships, payload), m.signature)

Active == DOMAIN agents \ revoked

ServeCreate(m) ==
  /\ m.kind = "create" /\ creation_valid(m)
  /\ used' = used \cup {m.nonce}
  /\ agents' = Append(agents, m)
  /\ UNCHANGED <<calls, net, revoked, rows, accepted, granted, standing, mixUps>>

ServeGrant(m) ==
  /\ m.kind = "grant" /\ verify_membership_grant(m.row)
  /\ m.row.identity \in Active
  /\ rows' = rows \cup {m.row}
  /\ standing' = standing \cup {m.row}
  /\ UNCHANGED <<calls, net, used, agents, revoked, accepted, granted, mixUps>>

ServeContribution(m) ==
  LET new == IF m.contribution.decision = "approve" THEN m.memberships ELSE {}
  IN  /\ m.kind = "contribution" /\ contribution_valid(m)
      /\ m.agent \in Active
      /\ accepted' = accepted \cup {m.contribution}
      /\ rows' = rows \cup new
      /\ standing' = standing \cup new
      /\ UNCHANGED <<calls, net, used, agents, revoked, granted, mixUps>>

ServeRevoke(m) ==
  /\ m.kind = "revoke"
  /\ rows' = {IF r.vault = m.vault /\ r.identity = m.identity
                THEN [r EXCEPT !.revoked_at = m.n] ELSE r : r \in rows}
  /\ standing' = {g \in standing : g.vault # m.vault \/ g.identity # m.identity}
  /\ UNCHANGED <<calls, net, used, agents, revoked, accepted, granted, mixUps>>

ServeRevokeAgent(m) ==
  /\ m.kind = "revoke_agent"
  /\ revoked' = revoked \cup {m.identity}
  /\ UNCHANGED <<calls, net, used, agents, rows, accepted, granted, standing, mixUps>>

\* Two rows exchange what they have in one column.
MixUp(r, s, column) ==
  /\ mixUps < MaxMixUps
  /\ r[column] # s[column]
  /\ rows' = (rows \ {r, s}) \cup {[r EXCEPT ![column] = s[column]],
                                   [s EXCEPT ![column] = r[column]]}
  /\ mixUps' = mixUps + 1
  /\ UNCHANGED <<calls, net, used, agents, revoked, accepted, granted, standing>>

-----------------------------------------------------------------------------
(* The client of an agent reads its level from the rows of a sync.         *)

\* Rows with a field, a level or a type this client cannot read are skipped.
readable_memberships(listed, unreadable) == listed \ unreadable

\* Mutant: revoked rows count too.
RevokedAccess(memberships, a, v) ==
  LET own == {r \in memberships : r.identity = a /\ r.vault = v}
  IN  IF own = {} THEN None
      ELSE (CHOOSE r \in own : \A s \in own : r.level <= s.level).level

caller_access(memberships, a, v) ==
  LET own == {r \in memberships : r.identity = a /\ r.vault = v /\ r.revoked_at = None}
  IN  IF own = {} THEN None
      ELSE (CHOOSE r \in own : \A s \in own : r.level <= s.level).level

-----------------------------------------------------------------------------
Init ==
  /\ calls = 0 /\ net = {} /\ used = {} /\ agents = <<>> /\ revoked = {}
  /\ rows = {} /\ accepted = {} /\ granted = {} /\ standing = {} /\ mixUps = 0

Call(o) ==
  \/ create_agent_identity(o)
  \/ \E a \in DOMAIN agents :
       \/ \E v \in Vaults : revoke_membership(v, a)
                            \/ \E level \in Levels : grant_membership(o, v, a, level)
       \/ revoke_agent_identity(a)
       \/ \E c \in Signable : sign_agent_delegation_contribution(o, a, c)

Service ==
  \/ \E m \in net : \/ ServeCreate(m) \/ ServeGrant(m) \/ ServeContribution(m)
                    \/ ServeRevoke(m) \/ ServeRevokeAgent(m)
  \/ \E r, s \in rows : \E column \in {"vault", "identity", "level", "wrap"} : MixUp(r, s, column)

Next == Service \/ \E o \in Owners : Call(o)

Spec == Init /\ [][Next]_vars

-----------------------------------------------------------------------------
(* Properties.                                                             *)

TypeOK ==
  /\ calls \in 0..MaxCalls /\ mixUps \in 0..MaxMixUps
  /\ Len(agents) <= calls /\ revoked \subseteq DOMAIN agents
  /\ \A r \in rows : r.vault \in Vaults /\ r.level \in AccessLevels
                     /\ r.identity \in DOMAIN agents

\* "So a captured signature cannot be replayed to mint another agent later": a
\* creation that arrives twice makes one agent, and a call made again, after a
\* timeout or for another agent, is not taken for a repetition.
CreationsMintOnce ==
  /\ \A i, j \in DOMAIN agents : agents[i] = agents[j] => i = j
  /\ \A m \in net : m.kind = "create" =>
       creation_valid(m) \/ \E i \in DOMAIN agents : agents[i] = m

\* "Attributable and tamper-evident": a stored row whose signature verifies is
\* a membership its owner signed, of this agent, in this vault, at this level
\* and with this wrap, whatever columns of rows were confused.
VerifiedRowsGranted ==
  \A r \in rows : verify_membership_grant(r) => [r EXCEPT !.revoked_at = None] \in granted

\* The caller's level comes "from its own unrevoked membership rows": whatever
\* rows a client cannot read, the level it reports in a vault is one an owner
\* signed for it and that was stored since its access was last revoked; a lower
\* one stored since then is in a row it cannot read; without a level, all are.
ReportedAccess ==
  mixUps = 0 =>
    \A unreadable \in SUBSET rows, a \in DOMAIN agents, v \in Vaults :
      LET level == caller_access(readable_memberships(rows, unreadable), a, v)
          current == {g \in standing : g.identity = a /\ g.vault = v}
      IN  IF level = None THEN current \subseteq unreadable
          ELSE /\ \E g \in current \cap granted : g.level = level
               /\ \A g \in current : g.level < level => g \in unreadable

\* "Callers cannot accidentally sign a semantically identical contribution in
\* a wire order the verifier will normalize differently": a signed contribution
\* verifies in every order of its lists.
SignedContributionsVerify ==
  \A m \in net : m.kind = "contribution" => contribution_valid(m)

\* An accepted provisioning pairs every key of the owner's proposal with one
\* vault and every such vault with one write grant; a declined one has neither.
ProvisioningBijective ==
  \A c \in accepted : c.provisioning # None =>
    LET p == c.provisioning
    IN  IF c.decision = "decline" THEN p.vaults = <<>> /\ c.grants = <<>>
        ELSE /\ \A k \in Elements(p.keys) :
                  Cardinality({i \in DOMAIN p.vaults : p.vaults[i].key = k}) = 1
             /\ \A i \in DOMAIN p.vaults :
                  /\ p.vaults[i].key \in Elements(p.keys)
                  /\ Cardinality({j \in DOMAIN p.vaults : p.vaults[j].vault = p.vaults[i].vault}) = 1
                  /\ Cardinality({j \in DOMAIN c.grants : c.grants[j].vault = p.vaults[i].vault
                                                          /\ c.grants[j].level = Write}) = 1
             /\ Len(c.grants) = Len(p.keys)

\* An accepted contribution fills each environment name once and grants each
\* vault once, at a level the request allows, in whatever order it arrived.
NothingDelegatedTwice ==
  \A c \in accepted :
    /\ Cardinality(Column(c.mappings, "environment_name")) = Len(c.mappings)
    /\ Cardinality(Column(c.grants, "vault")) = Len(c.grants)
    /\ Column(c.grants, "level") \subseteq Elements(c.levels)
=============================================================================
