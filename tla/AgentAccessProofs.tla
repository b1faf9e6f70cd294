-------------------------- MODULE AgentAccessProofs --------------------------
(***************************************************************************)
(* The safety properties of AgentAccess, for any number of owners, agents, *)
(* vaults, calls and mistakes of the service, and for contributions whose  *)
(* lists have any length.                                                  *)
(*                                                                         *)
(* The inductive invariant says what every request in the network is: a    *)
(* creation has a nonce no other one has, a grant and the grants of a      *)
(* contribution were signed, a contribution has a payload its signature    *)
(* covers.  A row keeps the signer and the signature of one of the         *)
(* memberships signed, whatever columns were confused; and until the first *)
(* confusion the rows that are not revoked are the standing memberships.   *)
(***************************************************************************)
EXTENDS AgentAccess, AgentDelegationProofs

Creation(o, n) ==
  [kind |-> "create", owner |-> o, name |-> o, issued_at |-> n, nonce |-> n,
   signature |-> sign(o, canonical_create_agent_bytes(o, n, n))]

\* The creations among the requests, after so many calls.
Creations(requests, count) ==
  /\ \A m \in requests : m.kind = "create" =>
       \E o \in Owners, n \in 0..(count - 1) : m = Creation(o, n)
  /\ \A m, k \in requests :
       m.kind = "create" /\ k.kind = "create" /\ m.nonce = k.nonce => m = k

\* The agents that were made, and the nonces that were used up.
Minted(made, requests, nonces) ==
  /\ made \in Seq(requests)
  /\ \A i \in DOMAIN made : made[i].kind = "create" /\ made[i].nonce \in nonces
  /\ \A n \in nonces : \E i \in DOMAIN made : made[i].nonce = n
  /\ \A i, j \in DOMAIN made : made[i].nonce = made[j].nonce => i = j

\* The other requests, by the memberships that were signed.
Asked(requests, count, signed) ==
  \A m \in requests :
    /\ m.kind = "grant" => m.row \in signed
    /\ m.kind = "revoke" => m.n # None
    /\ m.kind = "revoke_agent" => m.identity \in 1..count
    /\ m.kind = "contribution" =>
         /\ m.contribution \in Contributions /\ contribution_valid(m)
         /\ m.memberships \subseteq signed

Memberships(signed, count) ==
  \A g \in signed : \E o \in Owners, v \in Vaults, a \in 1..count, l \in AccessLevels :
    g = Grant(o, v, a, l)

IsRow(r) ==
  r = [by |-> r.by, vault |-> r.vault, identity |-> r.identity, level |-> r.level,
       wrap |-> r.wrap, signature |-> r.signature, revoked_at |-> r.revoked_at]

\* The stored rows: every one keeps the signer and the signature of a membership.
Stored(table, signed, count) ==
  \A r \in table :
    /\ IsRow(r) /\ r.vault \in Vaults /\ r.level \in AccessLevels /\ r.identity \in 1..count
    /\ \E g \in signed : g.by = r.by /\ g.signature = r.signature

\* The standing memberships were signed; before the first mistake of the service
\* they are the rows without the time of a revocation.
Standing(table, current, signed, mistakes) ==
  /\ current \subseteq signed
  /\ mistakes = 0 => current = {r \in table : r.revoked_at = None}

Checked(contributions) ==
  \A c \in contributions :
    c \in Contributions /\ agent_delegation_contribution_payload(c) # None

AgentInv ==
  /\ calls \in 0..MaxCalls /\ mixUps \in 0..MaxMixUps
  /\ revoked \subseteq 1..Len(agents)
  /\ Creations(net, calls)
  /\ Minted(agents, net, used)
  /\ Asked(net, Len(agents), granted)
  /\ Memberships(granted, Len(agents))
  /\ Stored(rows, granted, Len(agents))
  /\ Standing(rows, standing, granted, mixUps)
  /\ Checked(accepted)

-----------------------------------------------------------------------------
(* What the operators give.                                                *)

\* The fields of a membership.
LEMMA GrantFields ==
  ASSUME NEW o, NEW v, NEW a, NEW l
  PROVE  LET g == Grant(o, v, a, l) IN
         /\ IsRow(g) /\ g.by = o /\ g.vault = v /\ g.identity = a /\ g.level = l
         /\ g.wrap = wrap_vault_key_for_identity(v, a) /\ g.revoked_at = None
         /\ g.signature = sign_membership_grant(o, v, a, l, wrap_vault_key_for_identity(v, a))
         /\ verify_membership_grant(g)
BY DEF Grant, Row, IsRow, verify_membership_grant, verify, sign_membership_grant, sign

\* A row with the signer and the signature of a membership, if its signature
\* verifies, is that membership, but for the time of a revocation.
LEMMA SignatureCoversRow ==
  ASSUME NEW o, NEW v, NEW a, NEW l, NEW r, IsRow(r), verify_membership_grant(r),
         r.signature = Grant(o, v, a, l).signature
  PROVE  [r EXCEPT !.revoked_at = None] = Grant(o, v, a, l)
<1>. DEFINE w == wrap_vault_key_for_identity(v, a)
<1>1. r.signature = sign_membership_grant(o, v, a, l, w)
  BY GrantFields
<1>. HIDE DEF w
<1>2. /\ o = r.by
      /\ membership_grant_signing_bytes(v, a, l, w)
           = membership_grant_signing_bytes(r.vault, r.identity, r.level, r.wrap)
  BY <1>1 DEF verify_membership_grant, verify, sign_membership_grant, sign
<1>3. r.vault = v /\ r.identity = a /\ r.level = l /\ r.wrap = w
  BY <1>2 DEF membership_grant_signing_bytes
<1>. USE DEF w
<1>4. Grant(o, v, a, l) =
        [by |-> o, vault |-> v, identity |-> a, level |-> l, wrap |-> w,
         signature |-> r.signature, revoked_at |-> None]
  BY <1>1 DEF Grant, Row
<1>. HIDE DEF w
<1>5. [r EXCEPT !.revoked_at = None] =
        [by |-> r.by, vault |-> r.vault, identity |-> r.identity, level |-> r.level,
         wrap |-> r.wrap, signature |-> r.signature, revoked_at |-> None]
  BY DEF IsRow
<1>. QED  BY <1>2, <1>3, <1>4, <1>5

\* Another order of a contribution on the wire.
LEMMA WireOrderReorders ==
  ASSUME NEW c \in Signable, NEW d \in WireOrders[c]
  PROVE  /\ c \in ContributionRecord /\ d \in ContributionRecord /\ d \in Contributions
         /\ ReorderedContribution(c, d)
<1>1. c \in ContributionRecord /\ c \in Contributions
  BY AgentAssumption DEF Signable
<1>2. /\ d \in Contributions
      /\ [d EXCEPT !.mappings = c.mappings, !.grants = c.grants, !.levels = c.levels,
                   !.provisioning = c.provisioning] = c
      /\ Same(c.mappings, d.mappings) /\ Same(c.grants, d.grants) /\ Same(c.levels, d.levels)
      /\ IF c.provisioning = None THEN d.provisioning = None
         ELSE /\ d.provisioning # None
              /\ d.provisioning.vault_count = c.provisioning.vault_count
              /\ Same(c.provisioning.keys, d.provisioning.keys)
              /\ Same(c.provisioning.vaults, d.provisioning.vaults)
  BY DEF WireOrders
<1>3. d \in ContributionRecord
  BY <1>2, AgentAssumption
<1>4. DOMAIN d = DOMAIN c /\ \A f \in DOMAIN c \ ListFields : d[f] = c[f]
  BY <1>2 DEF ListFields
<1>5. ReorderedProvisioning(c.provisioning, d.provisioning)
  BY <1>2 DEF ReorderedProvisioning, Reordered, Same
<1>. QED  BY <1>1, <1>2, <1>3, <1>4, <1>5 DEF ReorderedContribution, Reordered, Same

-----------------------------------------------------------------------------
(* How the parts of the invariant carry over to larger sets.               *)

\* A list over a set is a list over a larger one.
LEMMA SeqWider ==
  ASSUME NEW S, NEW T, S \subseteq T, NEW list \in Seq(S)
  PROVE  list \in Seq(T)
<1>1. PICK n \in Nat : n = Len(list)
  OBVIOUS
<1>2. list \in [1..n -> S]
  BY <1>1, ListsTyped
<1>3. list \in [1..n -> T]
  BY <1>2
<1>. QED  BY <1>3

\* More requests and more agents leave the agents that were made.
LEMMA MintedWider ==
  ASSUME NEW made, NEW S, NEW T, NEW U, S \subseteq T, Minted(made, S, U)
  PROVE  Minted(made, T, U)
<1>1. made \in Seq(T)
  BY SeqWider DEF Minted
<1>. QED  BY <1>1 DEF Minted

\* What was asked for stays signed.
LEMMA AskedWider ==
  ASSUME NEW requests, NEW n \in Nat, NEW k \in Nat, n <= k, NEW G, NEW H, G \subseteq H,
         Asked(requests, n, G)
  PROVE  Asked(requests, k, H)
<1>1. SUFFICES ASSUME NEW m \in requests
               PROVE  /\ m.kind = "grant" => m.row \in H
                      /\ m.kind = "revoke" => m.n # None
                      /\ m.kind = "revoke_agent" => m.identity \in 1..k
                      /\ m.kind = "contribution" =>
                           /\ m.contribution \in Contributions /\ contribution_valid(m)
                           /\ m.memberships \subseteq H
  BY DEF Asked
<1>2. (m.kind = "grant" => m.row \in H) /\ (m.kind = "revoke" => m.n # None)
  BY DEF Asked
<1>3. m.kind = "revoke_agent" => m.identity \in 1..k
  <2>1. m.kind = "revoke_agent" => m.identity \in 1..n
    BY DEF Asked
  <2>. QED  BY <2>1
<1>4. ASSUME m.kind = "contribution"
      PROVE  /\ m.contribution \in Contributions /\ contribution_valid(m)
             /\ m.memberships \subseteq H
  BY <1>4 DEF Asked
<1>. QED  BY <1>2, <1>3, <1>4

\* The rows stay those of signed memberships.
LEMMA StoredWider ==
  ASSUME NEW R, NEW n \in Nat, NEW k \in Nat, n <= k, NEW G, NEW H, G \subseteq H, NEW C,
         NEW x, Stored(R, G, n), Standing(R, C, G, x)
  PROVE  Stored(R, H, k) /\ Standing(R, C, H, x)
<1>1. 1..n \subseteq 1..k
  OBVIOUS
<1>2. Stored(R, H, k)
  BY <1>1 DEF Stored
<1>. QED  BY <1>2 DEF Standing

\* The memberships stay memberships of agents.
LEMMA MembershipsWider ==
  ASSUME NEW G, NEW n \in Nat, NEW k \in Nat, n <= k, Memberships(G, n)
  PROVE  Memberships(G, k)
<1>1. 1..n \subseteq 1..k
  OBVIOUS
<1>. QED  BY <1>1 DEF Memberships

\* A request of another kind is no creation.
LEMMA OtherRequest ==
  ASSUME NEW requests, NEW count \in Nat, Creations(requests, count), NEW request,
         request.kind # "create"
  PROVE  Creations(requests \cup {request}, count + 1)
<1>1. 0..(count - 1) \subseteq 0..((count + 1) - 1)
  OBVIOUS
<1>2. \A m \in requests \cup {request} : m.kind = "create" => m \in requests
  OBVIOUS
<1>. QED  BY <1>1, <1>2 DEF Creations

-----------------------------------------------------------------------------
(* The steps.                                                              *)

\* The number of agents.
LEMMA AgentCount ==
  ASSUME AgentInv
  PROVE  /\ Len(agents) \in Nat /\ DOMAIN agents = 1..Len(agents) /\ calls \in Nat
         /\ agents \in Seq(net)
<1>1. agents \in Seq(net)
  BY DEF AgentInv, Minted
<1>2. calls \in Nat
  BY AgentAssumption DEF AgentInv
<1>. QED  BY <1>1, <1>2, ListsTyped

\* A call sends one request and may sign memberships.
LEMMA SendStep ==
  ASSUME AgentInv, NEW request, Send(request), granted \subseteq granted',
         Creations(net \cup {request}, calls + 1),
         Asked({request}, Len(agents), granted'), Memberships(granted', Len(agents))
  PROVE  AgentInv'
<1>0. Len(agents) \in Nat /\ calls \in Nat
  BY AgentCount
<1>1. /\ calls' = calls + 1 /\ net' = net \cup {request} /\ calls < MaxCalls
      /\ used' = used /\ agents' = agents /\ revoked' = revoked /\ rows' = rows
      /\ accepted' = accepted /\ standing' = standing /\ mixUps' = mixUps
  BY DEF Send
<1>2. calls' \in 0..MaxCalls
  BY <1>0, <1>1, AgentAssumption
<1>3. Minted(agents', net', used')
  BY <1>1, MintedWider DEF AgentInv
<1>4. Asked(net', Len(agents'), granted')
  <2>1. Asked(net, Len(agents), granted')
    BY <1>0, AskedWider DEF AgentInv
  <2>. QED  BY <1>1, <2>1 DEF Asked
<1>5. Stored(rows', granted', Len(agents')) /\ Standing(rows', standing', granted', mixUps')
  <2>1. Stored(rows, granted, Len(agents)) /\ Standing(rows, standing, granted, mixUps)
    BY DEF AgentInv
  <2>2. Stored(rows, granted', Len(agents)) /\ Standing(rows, standing, granted', mixUps)
    BY <1>0, <2>1, StoredWider
  <2>. QED  BY <1>1, <2>2
<1>. QED  BY <1>1, <1>2, <1>3, <1>4, <1>5 DEF AgentInv

\* A creation draws a nonce no earlier request has.
LEMMA CreateStep ==
  ASSUME AgentInv, NEW o \in Owners, create_agent_identity(o)
  PROVE  AgentInv'
<1>0. calls \in Nat /\ Len(agents) \in Nat
  BY AgentCount
<1>1. Send(Creation(o, calls)) /\ granted' = granted
  BY DEF create_agent_identity, Creation
<1>2. Creation(o, calls).kind = "create" /\ Creation(o, calls).nonce = calls
  BY DEF Creation
<1>3. \A m \in net : m.kind = "create" => m.nonce \in 0..(calls - 1)
  <2>1. SUFFICES ASSUME NEW m \in net, m.kind = "create" PROVE m.nonce \in 0..(calls - 1)
    OBVIOUS
  <2>2. PICK p \in Owners, n \in 0..(calls - 1) : m = Creation(p, n)
    BY <2>1 DEF AgentInv, Creations
  <2>. QED  BY <2>2 DEF Creation
<1>4. Creations(net \cup {Creation(o, calls)}, calls + 1)
  <2>. DEFINE all == net \cup {Creation(o, calls)}
  <2>1. \A m \in all : m.kind = "create" =>
          \E p \in Owners, n \in 0..((calls + 1) - 1) : m = Creation(p, n)
    <3>1. 0..(calls - 1) \subseteq 0..((calls + 1) - 1) /\ calls \in 0..((calls + 1) - 1)
      BY <1>0
    <3>2. ASSUME NEW m \in net, m.kind = "create"
          PROVE  \E p \in Owners, n \in 0..((calls + 1) - 1) : m = Creation(p, n)
      BY <3>1, <3>2 DEF AgentInv, Creations
    <3>. QED  BY <3>1, <3>2
  <2>2. \A m, k \in all :
          m.kind = "create" /\ k.kind = "create" /\ m.nonce = k.nonce => m = k
    <3>1. \A m \in net : m.kind = "create" => m.nonce # calls
      BY <1>0, <1>3
    <3>2. \A m, k \in net :
            m.kind = "create" /\ k.kind = "create" /\ m.nonce = k.nonce => m = k
      BY DEF AgentInv, Creations
    <3>. QED  BY <1>2, <3>1, <3>2
  <2>. QED  BY <2>1, <2>2 DEF Creations
<1>5. Asked({Creation(o, calls)}, Len(agents), granted')
  BY <1>2 DEF Asked
<1>6. Memberships(granted', Len(agents)) /\ granted \subseteq granted'
  BY <1>1 DEF AgentInv
<1>. QED  BY <1>1, <1>4, <1>5, <1>6, SendStep

\* A grant is signed before it is sent.
LEMMA GrantStep ==
  ASSUME AgentInv, NEW o \in Owners, NEW v \in Vaults, NEW a \in DOMAIN agents, NEW level,
         grant_membership(o, v, a, level)
  PROVE  AgentInv'
<1>. DEFINE byte == access_level_byte(level)
            row == Grant(o, v, a, byte)
            request == [kind |-> "grant", row |-> row]
<1>0. calls \in Nat /\ Len(agents) \in Nat /\ a \in 1..Len(agents)
  BY AgentCount
<1>1. Send(request) /\ granted' = granted \cup {row} /\ byte # None
  BY DEF grant_membership
<1>2. byte \in AccessLevels
  BY <1>1 DEF access_level_byte, AccessLevels
<1>3. request.kind = "grant" /\ request.row = row
  OBVIOUS
<1>4. Memberships(granted', Len(agents))
  <2>1. \E p \in Owners, w \in Vaults, b \in 1..Len(agents), l \in AccessLevels :
          row = Grant(p, w, b, l)
    BY <1>0, <1>2
  <2>. HIDE DEF row
  <2>. QED  BY <1>1, <2>1 DEF AgentInv, Memberships
<1>. HIDE DEF request, row, byte
<1>5. Asked({request}, Len(agents), granted')
  BY <1>1, <1>3 DEF Asked
<1>6. Creations(net \cup {request}, calls + 1)
  BY <1>0, <1>3, OtherRequest DEF AgentInv
<1>. QED  BY <1>1, <1>4, <1>5, <1>6, SendStep

\* The two revocations.
LEMMA RevokeSteps ==
  ASSUME AgentInv, NEW v, NEW a \in DOMAIN agents,
         revoke_membership(v, a) \/ revoke_agent_identity(a)
  PROVE  AgentInv'
<1>0. calls \in Nat /\ Len(agents) \in Nat /\ a \in 1..Len(agents)
  BY AgentCount
<1>1. PICK request : /\ Send(request) /\ granted' = granted
                     /\ request.kind \in {"revoke", "revoke_agent"}
                     /\ request.kind = "revoke_agent" => request.identity = a
                     /\ request.kind = "revoke" => request.n # None
  <2>1. CASE revoke_membership(v, a)
    <3>. DEFINE r == [kind |-> "revoke", vault |-> v, identity |-> a, n |-> calls]
    <3>1. Send(r) /\ granted' = granted /\ r.kind = "revoke" /\ r.n = calls
      BY <2>1 DEF revoke_membership
    <3>2. calls # None
      BY <1>0, AgentAssumption
    <3>. HIDE DEF r
    <3>. QED  BY <3>1, <3>2
  <2>2. CASE revoke_agent_identity(a)
    <3>. DEFINE r == [kind |-> "revoke_agent", identity |-> a]
    <3>1. Send(r) /\ granted' = granted /\ r.kind = "revoke_agent" /\ r.identity = a
      BY <2>2 DEF revoke_agent_identity
    <3>. HIDE DEF r
    <3>. QED  BY <3>1
  <2>. QED  BY <2>1, <2>2
<1>2. Asked({request}, Len(agents), granted')
  BY <1>0, <1>1 DEF Asked
<1>3. Creations(net \cup {request}, calls + 1)
  BY <1>0, <1>1, OtherRequest DEF AgentInv
<1>4. Memberships(granted', Len(agents)) /\ granted \subseteq granted'
  BY <1>1 DEF AgentInv
<1>. QED  BY <1>1, <1>2, <1>3, <1>4, SendStep

\* A contribution that is sent verifies in the order in which it is sent, and its
\* grants were signed with it.
LEMMA ContributionStep ==
  ASSUME AgentInv, NEW o \in Owners, NEW a \in DOMAIN agents, NEW c \in Signable,
         sign_agent_delegation_contribution(o, a, c)
  PROVE  AgentInv'
<1>. DEFINE payload == agent_delegation_contribution_payload(c)
            memberships == {Grant(o, c.grants[i].vault, a, c.grants[i].level) : i \in DOMAIN c.grants}
            signature == sign(o, contribution_bytes(a, memberships, payload))
<1>0. calls \in Nat /\ Len(agents) \in Nat /\ a \in 1..Len(agents)
  BY AgentCount
<1>1. PICK sent \in WireOrders[c] :
        Send([kind |-> "contribution", owner |-> o, agent |-> a, contribution |-> sent,
              memberships |-> memberships, signature |-> signature])
  BY DEF sign_agent_delegation_contribution
<1>. DEFINE request == [kind |-> "contribution", owner |-> o, agent |-> a, contribution |-> sent,
                        memberships |-> memberships, signature |-> signature]
<1>2. payload # None /\ granted' = granted \cup memberships
  BY DEF sign_agent_delegation_contribution
<1>3. /\ c \in ContributionRecord /\ sent \in ContributionRecord /\ sent \in Contributions
      /\ ReorderedContribution(c, sent) /\ c \in Contributions
  BY WireOrderReorders DEF Signable
<1>4. agent_delegation_contribution_payload(sent) = payload
  BY <1>2, <1>3, PayloadIgnoresOrder
<1>5. /\ request.kind = "contribution" /\ request.contribution = sent /\ request.owner = o
      /\ request.agent = a /\ request.memberships = memberships
      /\ request.signature = sign(o, contribution_bytes(a, memberships, payload))
  OBVIOUS
<1>6. Send(request)
  BY <1>1
<1>7. ASSUME NEW g \in memberships
      PROVE  \E j \in DOMAIN c.grants : g = Grant(o, c.grants[j].vault, a, c.grants[j].level)
  OBVIOUS
<1>. HIDE DEF request, payload, memberships
<1>8. contribution_valid(request)
  BY <1>2, <1>4, <1>5 DEF contribution_valid, verify, sign
<1>9. Asked({request}, Len(agents), granted')
  BY <1>2, <1>3, <1>5, <1>8 DEF Asked
<1>10. Memberships(granted', Len(agents))
  <2>1. \A j \in DOMAIN c.grants : c.grants[j].vault \in Vaults /\ c.grants[j].level \in AccessLevels
    <3>1. \A j \in DOMAIN c.grants : c.grants[j] \in GrantRecord
      BY <1>3, ContributionLists
    <3>2. \A j \in DOMAIN c.grants : c.grants[j].vault \in Column(c.grants, "vault")
      BY DEF Column
    <3>. QED  BY <1>3, <3>1, <3>2, AgentAssumption DEF GrantRecord
  <2>2. ASSUME NEW g \in granted'
        PROVE  \E p \in Owners, v \in Vaults, b \in 1..Len(agents), l \in AccessLevels :
                 g = Grant(p, v, b, l)
    <3>1. CASE g \in granted
      BY <3>1 DEF AgentInv, Memberships
    <3>2. CASE g \notin granted
      <4>1. PICK j \in DOMAIN c.grants : g = Grant(o, c.grants[j].vault, a, c.grants[j].level)
        BY <1>2, <1>7, <3>2
      <4>. QED  BY <1>0, <2>1, <4>1
    <3>. QED  BY <3>1, <3>2
  <2>. QED  BY <2>2 DEF Memberships
<1>11. Creations(net \cup {request}, calls + 1)
  BY <1>0, <1>5, OtherRequest DEF AgentInv
<1>. QED  BY <1>2, <1>6, <1>9, <1>10, <1>11, SendStep

\* A creation that is served takes a nonce that was not used up.
LEMMA ServeCreateStep ==
  ASSUME AgentInv, NEW m \in net, ServeCreate(m)
  PROVE  AgentInv'
<1>0. Len(agents) \in Nat /\ DOMAIN agents = 1..Len(agents) /\ agents \in Seq(net)
  BY AgentCount
<1>1. /\ m.kind = "create" /\ m.nonce \notin used /\ used' = used \cup {m.nonce}
      /\ agents' = Append(agents, m) /\ calls' = calls /\ net' = net /\ revoked' = revoked
      /\ rows' = rows /\ accepted' = accepted /\ granted' = granted /\ standing' = standing
      /\ mixUps' = mixUps
  BY DEF ServeCreate, creation_valid
<1>2. /\ agents' \in Seq(net') /\ Len(agents') = Len(agents) + 1
      /\ DOMAIN agents' = 1..(Len(agents) + 1)
      /\ agents'[Len(agents) + 1] = m
      /\ \A i \in DOMAIN agents : agents'[i] = agents[i]
  BY <1>0, <1>1
<1>3. Minted(agents', net', used')
  <2>1. \A i \in DOMAIN agents : agents[i].kind = "create" /\ agents[i].nonce \in used
    BY DEF AgentInv, Minted
  <2>2. \A i \in DOMAIN agents' : i \in DOMAIN agents \/ i = Len(agents) + 1
    BY <1>0, <1>2
  <2>3. \A i \in DOMAIN agents' : agents'[i].kind = "create" /\ agents'[i].nonce \in used'
    BY <1>1, <1>2, <2>1, <2>2
  <2>4. \A n \in used' : \E i \in DOMAIN agents' : agents'[i].nonce = n
    <3>1. Len(agents) + 1 \in DOMAIN agents' /\ DOMAIN agents \subseteq DOMAIN agents'
      BY <1>0, <1>2
    <3>2. \A n \in used : \E i \in DOMAIN agents : agents[i].nonce = n
      BY DEF AgentInv, Minted
    <3>. QED  BY <1>1, <1>2, <3>1, <3>2
  <2>5. \A i, j \in DOMAIN agents' : agents'[i].nonce = agents'[j].nonce => i = j
    <3>1. \A i, j \in DOMAIN agents : agents[i].nonce = agents[j].nonce => i = j
      BY DEF AgentInv, Minted
    <3>2. \A i \in DOMAIN agents : agents[i].nonce # m.nonce
      BY <1>1, <2>1
    <3>. QED  BY <1>2, <2>2, <3>1, <3>2
  <2>. QED  BY <1>2, <2>3, <2>4, <2>5 DEF Minted
<1>4. Len(agents') \in Nat /\ Len(agents) <= Len(agents')
  BY <1>0, <1>2
<1>5. revoked' \subseteq 1..Len(agents')
  <2>1. revoked \subseteq 1..Len(agents)
    BY DEF AgentInv
  <2>. QED  BY <1>0, <1>1, <1>4, <2>1
<1>6. Asked(net', Len(agents'), granted')
  BY <1>0, <1>1, <1>4, AskedWider DEF AgentInv
<1>7. Memberships(granted', Len(agents'))
  BY <1>0, <1>1, <1>4, MembershipsWider DEF AgentInv
<1>8. Stored(rows', granted', Len(agents')) /\ Standing(rows', standing', granted', mixUps')
  BY <1>0, <1>1, <1>4, StoredWider DEF AgentInv
<1>. QED  BY <1>1, <1>3, <1>5, <1>6, <1>7, <1>8 DEF AgentInv

\* A membership that was signed makes a row.
LEMMA SignedRow ==
  ASSUME NEW G, NEW n, Memberships(G, n), NEW g \in G
  PROVE  /\ IsRow(g) /\ g.vault \in Vaults /\ g.level \in AccessLevels /\ g.identity \in 1..n
         /\ g.revoked_at = None
<1>1. PICK o \in Owners, v \in Vaults, a \in 1..n, l \in AccessLevels : g = Grant(o, v, a, l)
  BY DEF Memberships
<1>2. /\ IsRow(g) /\ g.vault = v /\ g.identity = a /\ g.level = l /\ g.revoked_at = None
  BY <1>1, GrantFields
<1>. QED  BY <1>2

\* The service adds rows that were signed.
LEMMA AddRows ==
  ASSUME AgentInv, NEW new, new \subseteq granted
  PROVE  /\ Stored(rows \cup new, granted, Len(agents))
         /\ Standing(rows \cup new, standing \cup new, granted, mixUps)
<1>1. \A g \in new : /\ IsRow(g) /\ g.vault \in Vaults /\ g.level \in AccessLevels
                     /\ g.identity \in 1..Len(agents) /\ g.revoked_at = None
  BY SignedRow DEF AgentInv
<1>2. Stored(rows \cup new, granted, Len(agents))
  BY <1>1 DEF AgentInv, Stored
<1>3. Standing(rows \cup new, standing \cup new, granted, mixUps)
  BY <1>1 DEF AgentInv, Standing
<1>. QED  BY <1>2, <1>3

\* A grant that is served was signed.
LEMMA ServeGrantStep ==
  ASSUME AgentInv, NEW m \in net, ServeGrant(m)
  PROVE  AgentInv'
<1>1. /\ m.kind = "grant" /\ rows' = rows \cup {m.row} /\ standing' = standing \cup {m.row}
      /\ UNCHANGED <<calls, net, used, agents>> /\ UNCHANGED <<revoked, accepted, granted, mixUps>>
  BY DEF ServeGrant
<1>2. {m.row} \subseteq granted
  BY <1>1 DEF AgentInv, Asked
<1>3. Stored(rows', granted', Len(agents')) /\ Standing(rows', standing', granted', mixUps')
  BY <1>1, <1>2, AddRows
<1>. QED  BY <1>1, <1>3 DEF AgentInv

\* A contribution that is served has a payload, and its grants were signed.
LEMMA ServeContributionStep ==
  ASSUME AgentInv, NEW m \in net, ServeContribution(m)
  PROVE  AgentInv'
<1>. DEFINE new == IF m.contribution.decision = "approve" THEN m.memberships ELSE {}
<1>1. /\ m.kind = "contribution" /\ contribution_valid(m)
      /\ rows' = rows \cup new /\ standing' = standing \cup new
      /\ accepted' = accepted \cup {m.contribution}
      /\ UNCHANGED <<calls, net, used, agents>> /\ UNCHANGED <<revoked, granted, mixUps>>
  BY DEF ServeContribution
<1>2. m.contribution \in Contributions /\ m.memberships \subseteq granted
  BY <1>1 DEF AgentInv, Asked
<1>3. new \subseteq granted
  BY <1>2
<1>4. Checked(accepted')
  BY <1>1, <1>2 DEF AgentInv, Checked, contribution_valid
<1>. HIDE DEF new
<1>5. Stored(rows', granted', Len(agents')) /\ Standing(rows', standing', granted', mixUps')
  BY <1>1, <1>3, AddRows
<1>. QED  BY <1>1, <1>4, <1>5 DEF AgentInv

\* A revocation sets the time of the rows of an agent in a vault and nothing
\* else, and ends the same memberships.
LEMMA ServeRevokeStep ==
  ASSUME AgentInv, NEW m \in net, ServeRevoke(m)
  PROVE  AgentInv'
<1>1. /\ m.kind = "revoke"
      /\ rows' = {IF r.vault = m.vault /\ r.identity = m.identity
                    THEN [r EXCEPT !.revoked_at = m.n] ELSE r : r \in rows}
      /\ standing' = {g \in standing : g.vault # m.vault \/ g.identity # m.identity}
      /\ UNCHANGED <<calls, net, used, agents>>
      /\ UNCHANGED <<revoked, accepted, granted, mixUps>>
  BY DEF ServeRevoke
<1>2. ASSUME NEW r \in rows'
      PROVE  \E q \in rows : /\ IsRow(r) /\ r.by = q.by /\ r.vault = q.vault
                             /\ r.identity = q.identity /\ r.level = q.level
                             /\ r.signature = q.signature
                             /\ IF q.vault = m.vault /\ q.identity = m.identity
                                  THEN r.revoked_at = m.n ELSE r = q
  <2>1. PICK q \in rows : r = IF q.vault = m.vault /\ q.identity = m.identity
                                THEN [q EXCEPT !.revoked_at = m.n] ELSE q
    BY <1>1
  <2>2. IsRow(q)
    BY DEF AgentInv, Stored
  <2>3. CASE ~(q.vault = m.vault /\ q.identity = m.identity)
    BY <2>1, <2>2, <2>3
  <2>4. CASE q.vault = m.vault /\ q.identity = m.identity
    <3>1. r = [by |-> q.by, vault |-> q.vault, identity |-> q.identity, level |-> q.level,
               wrap |-> q.wrap, signature |-> q.signature, revoked_at |-> m.n]
      BY <2>1, <2>2, <2>4 DEF IsRow
    <3>2. /\ IsRow(r) /\ r.by = q.by /\ r.vault = q.vault /\ r.identity = q.identity
          /\ r.level = q.level /\ r.signature = q.signature /\ r.revoked_at = m.n
      BY <3>1 DEF IsRow
    <3>. QED  BY <2>4, <3>2
  <2>. QED  BY <2>1, <2>3, <2>4
<1>3. Stored(rows', granted', Len(agents'))
  <2>1. \A q \in rows : /\ q.vault \in Vaults /\ q.level \in AccessLevels
                        /\ q.identity \in 1..Len(agents)
                        /\ \E g \in granted : g.by = q.by /\ g.signature = q.signature
    BY DEF AgentInv, Stored
  <2>2. ASSUME NEW r \in rows'
        PROVE  /\ IsRow(r) /\ r.vault \in Vaults /\ r.level \in AccessLevels
               /\ r.identity \in 1..Len(agents)
               /\ \E g \in granted : g.by = r.by /\ g.signature = r.signature
    <3>1. PICK q \in rows : /\ IsRow(r) /\ r.by = q.by /\ r.vault = q.vault
                            /\ r.identity = q.identity /\ r.level = q.level
                            /\ r.signature = q.signature
      BY <1>2
    <3>. QED  BY <2>1, <3>1
  <2>. QED  BY <1>1, <2>2 DEF Stored
<1>4. Standing(rows', standing', granted', mixUps')
  <2>1. standing' \subseteq granted'
    BY <1>1 DEF AgentInv, Standing
  <2>2. ASSUME mixUps' = 0
        PROVE  standing' = {r \in rows' : r.revoked_at = None}
    <3>1. standing = {r \in rows : r.revoked_at = None}
      BY <1>1, <2>2 DEF AgentInv, Standing
    <3>2. m.n # None
      BY <1>1 DEF AgentInv, Asked
    <3>3. ASSUME NEW r \in rows', r.revoked_at = None PROVE r \in standing'
      <4>1. PICK q \in rows : /\ r.vault = q.vault /\ r.identity = q.identity
                              /\ IF q.vault = m.vault /\ q.identity = m.identity
                                   THEN r.revoked_at = m.n ELSE r = q
        BY <1>2
      <4>2. r = q /\ ~(r.vault = m.vault /\ r.identity = m.identity)
        BY <3>2, <3>3, <4>1
      <4>. QED  BY <1>1, <3>1, <3>3, <4>2
    <3>4. ASSUME NEW g \in standing' PROVE g \in rows' /\ g.revoked_at = None
      <4>1. g \in rows /\ g.revoked_at = None /\ ~(g.vault = m.vault /\ g.identity = m.identity)
        BY <1>1, <3>1
      <4>. QED  BY <1>1, <4>1
    <3>. QED  BY <3>3, <3>4
  <2>. QED  BY <2>1, <2>2 DEF Standing
<1>. QED  BY <1>1, <1>3, <1>4 DEF AgentInv

\* An agent that is revoked exists.
LEMMA ServeRevokeAgentStep ==
  ASSUME AgentInv, NEW m \in net, ServeRevokeAgent(m)
  PROVE  AgentInv'
<1>1. /\ m.kind = "revoke_agent" /\ revoked' = revoked \cup {m.identity}
      /\ UNCHANGED <<calls, net, used, agents, rows>> /\ UNCHANGED <<accepted, granted, standing, mixUps>>
  BY DEF ServeRevokeAgent
<1>2. revoked' \subseteq 1..Len(agents')
  BY <1>1 DEF AgentInv, Asked
<1>. QED  BY <1>1, <1>2 DEF AgentInv

\* A row with one column of another one.
LEMMA ConfusedRow ==
  ASSUME NEW G, NEW n, NEW r, NEW s, Stored({r, s}, G, n),
         NEW column \in {"vault", "identity", "level", "wrap"}
  PROVE  Stored({[r EXCEPT ![column] = s[column]]}, G, n)
<1>. DEFINE q == [r EXCEPT ![column] = s[column]]
<1>0. /\ IsRow(r) /\ r.vault \in Vaults /\ r.level \in AccessLevels /\ r.identity \in 1..n
      /\ IsRow(s) /\ s.vault \in Vaults /\ s.level \in AccessLevels /\ s.identity \in 1..n
      /\ \E g \in G : g.by = r.by /\ g.signature = r.signature
  BY DEF Stored
<1>1. /\ IsRow(q) /\ q.by = r.by /\ q.signature = r.signature
      /\ q.vault \in {r.vault, s.vault} /\ q.level \in {r.level, s.level}
      /\ q.identity \in {r.identity, s.identity}
  <2>1. CASE column = "vault"
    <3>0. q = [r EXCEPT !.vault = s.vault]
      BY <2>1
    <3>. HIDE DEF q
    <3>1. q = [by |-> r.by, vault |-> s.vault, identity |-> r.identity, level |-> r.level,
               wrap |-> r.wrap, signature |-> r.signature, revoked_at |-> r.revoked_at]
      BY <1>0, <3>0 DEF IsRow
    <3>. QED  BY <3>1 DEF IsRow
  <2>2. CASE column = "identity"
    <3>0. q = [r EXCEPT !.identity = s.identity]
      BY <2>2
    <3>. HIDE DEF q
    <3>1. q = [by |-> r.by, vault |-> r.vault, identity |-> s.identity, level |-> r.level,
               wrap |-> r.wrap, signature |-> r.signature, revoked_at |-> r.revoked_at]
      BY <1>0, <3>0 DEF IsRow
    <3>. QED  BY <3>1 DEF IsRow
  <2>3. CASE column = "level"
    <3>0. q = [r EXCEPT !.level = s.level]
      BY <2>3
    <3>. HIDE DEF q
    <3>1. q = [by |-> r.by, vault |-> r.vault, identity |-> r.identity, level |-> s.level,
               wrap |-> r.wrap, signature |-> r.signature, revoked_at |-> r.revoked_at]
      BY <1>0, <3>0 DEF IsRow
    <3>. QED  BY <3>1 DEF IsRow
  <2>4. CASE column = "wrap"
    <3>0. q = [r EXCEPT !.wrap = s.wrap]
      BY <2>4
    <3>. HIDE DEF q
    <3>1. q = [by |-> r.by, vault |-> r.vault, identity |-> r.identity, level |-> r.level,
               wrap |-> s.wrap, signature |-> r.signature, revoked_at |-> r.revoked_at]
      BY <1>0, <3>0 DEF IsRow
    <3>. QED  BY <3>1 DEF IsRow
  <2>. QED  BY <2>1, <2>2, <2>3, <2>4
<1>. HIDE DEF q
<1>2. Stored({q}, G, n)
  BY <1>0, <1>1 DEF Stored
<1>. QED  BY <1>2 DEF q

\* The service confuses two rows.
LEMMA MixUpStep ==
  ASSUME AgentInv, NEW r \in rows, NEW s \in rows,
         NEW column \in {"vault", "identity", "level", "wrap"}, MixUp(r, s, column)
  PROVE  AgentInv'
<1>1. /\ mixUps < MaxMixUps /\ mixUps' = mixUps + 1
      /\ rows' = (rows \ {r, s}) \cup {[r EXCEPT ![column] = s[column]],
                                       [s EXCEPT ![column] = r[column]]}
      /\ UNCHANGED <<calls, net, used, agents>>
      /\ UNCHANGED <<revoked, accepted, granted, standing>>
  BY DEF MixUp
<1>2. mixUps \in Nat /\ mixUps' \in 0..MaxMixUps /\ mixUps' # 0
  BY <1>1, AgentAssumption DEF AgentInv
<1>3. /\ Stored({r, s}, granted, Len(agents)) /\ Stored({s, r}, granted, Len(agents))
      /\ Stored(rows \ {r, s}, granted, Len(agents))
  BY DEF AgentInv, Stored
<1>4. /\ Stored({[r EXCEPT ![column] = s[column]]}, granted, Len(agents))
      /\ Stored({[s EXCEPT ![column] = r[column]]}, granted, Len(agents))
  BY <1>3, ConfusedRow
<1>5. Stored(rows', granted', Len(agents'))
  <2>. DEFINE x == [r EXCEPT ![column] = s[column]]
              y == [s EXCEPT ![column] = r[column]]
  <2>. HIDE DEF x, y
  <2>1. rows' = (rows \ {r, s}) \cup {x, y} /\ Stored({x}, granted, Len(agents))
        /\ Stored({y}, granted, Len(agents))
    BY <1>1, <1>4 DEF x, y
  <2>. QED  BY <1>1, <1>3, <2>1 DEF Stored
<1>6. Standing(rows', standing', granted', mixUps')
  BY <1>1, <1>2 DEF AgentInv, Standing
<1>. QED  BY <1>1, <1>2, <1>5, <1>6 DEF AgentInv

\* A step that changes nothing.
LEMMA StutterStep ==
  ASSUME AgentInv, UNCHANGED vars
  PROVE  AgentInv'
<1>1. /\ UNCHANGED <<calls, net, used, agents>>
      /\ UNCHANGED <<revoked, rows, accepted, granted, standing, mixUps>>
  BY DEF vars
<1>. QED  BY <1>1 DEF AgentInv

\* The invariant holds in every reachable state.
LEMMA AgentInvariant == Spec => []AgentInv
<1>1. Init => AgentInv
  <2>. SUFFICES ASSUME Init PROVE AgentInv
    OBVIOUS
  <2>0. /\ calls = 0 /\ net = {} /\ used = {} /\ agents = <<>> /\ revoked = {}
        /\ rows = {} /\ accepted = {} /\ granted = {} /\ standing = {} /\ mixUps = 0
    BY DEF Init
  <2>1. calls \in 0..MaxCalls /\ mixUps \in 0..MaxMixUps
    BY <2>0, AgentAssumption
  <2>2. Minted(agents, net, used)
    BY <2>0 DEF Minted
  <2>3. Creations(net, calls) /\ Asked(net, Len(agents), granted)
    BY <2>0 DEF Creations, Asked
  <2>4. /\ Memberships(granted, Len(agents)) /\ Stored(rows, granted, Len(agents))
        /\ Standing(rows, standing, granted, mixUps) /\ Checked(accepted)
    BY <2>0 DEF Memberships, Stored, Standing, Checked
  <2>. QED  BY <2>0, <2>1, <2>2, <2>3, <2>4 DEF AgentInv
<1>2. AgentInv /\ [Next]_vars => AgentInv'
  <2>. SUFFICES ASSUME AgentInv, [Next]_vars PROVE AgentInv'
    OBVIOUS
  <2>1. ASSUME NEW o \in Owners, create_agent_identity(o) PROVE AgentInv'
    BY <2>1, CreateStep
  <2>2. ASSUME NEW o \in Owners, NEW v \in Vaults, NEW a \in DOMAIN agents, NEW level \in Levels,
               grant_membership(o, v, a, level)
        PROVE  AgentInv'
    BY <2>2, GrantStep
  <2>3. ASSUME NEW v \in Vaults, NEW a \in DOMAIN agents, revoke_membership(v, a) PROVE AgentInv'
    BY <2>3, RevokeSteps
  <2>4. ASSUME NEW a \in DOMAIN agents, revoke_agent_identity(a) PROVE AgentInv'
    BY <2>4, RevokeSteps
  <2>5. ASSUME NEW o \in Owners, NEW a \in DOMAIN agents, NEW c \in Signable,
               sign_agent_delegation_contribution(o, a, c)
        PROVE  AgentInv'
    BY <2>5, ContributionStep
  <2>6. ASSUME NEW m \in net, \/ ServeCreate(m) \/ ServeGrant(m) \/ ServeContribution(m)
                              \/ ServeRevoke(m) \/ ServeRevokeAgent(m)
        PROVE  AgentInv'
    BY <2>6, ServeCreateStep, ServeGrantStep, ServeContributionStep, ServeRevokeStep,
       ServeRevokeAgentStep
  <2>7. ASSUME NEW r \in rows, NEW s \in rows, NEW column \in {"vault", "identity", "level", "wrap"},
               MixUp(r, s, column)
        PROVE  AgentInv'
    BY <2>7, MixUpStep
  <2>8. CASE UNCHANGED vars
    BY <2>8, StutterStep
  <2>9. ASSUME NEW o \in Owners, Call(o) PROVE AgentInv'
    BY <2>1, <2>2, <2>3, <2>4, <2>5, <2>9 DEF Call
  <2>10. ASSUME Service PROVE AgentInv'
    BY <2>6, <2>7, <2>10 DEF Service
  <2>. QED  BY <2>8, <2>9, <2>10 DEF Next
<1>. QED  BY <1>1, <1>2, PTL DEF Spec

-----------------------------------------------------------------------------
(* The properties.                                                         *)

\* There are not more agents than calls: the nonces of the agents are different
\* numbers below the number of calls.
LEMMA AgentsBounded ==
  ASSUME AgentInv
  PROVE  Len(agents) <= calls
<1>. DEFINE n == Len(agents)
            f == [i \in 1..n |-> agents[i].nonce]
<1>0. n \in Nat /\ DOMAIN agents = 1..n /\ calls \in Nat /\ agents \in Seq(net)
  BY AgentCount
<1>1. \A i \in 1..n : agents[i] \in net /\ agents[i].kind = "create"
  BY <1>0 DEF AgentInv, Minted
<1>2. \A i \in 1..n : agents[i].nonce \in 0..(calls - 1)
  <2>1. SUFFICES ASSUME NEW i \in 1..n PROVE agents[i].nonce \in 0..(calls - 1)
    OBVIOUS
  <2>2. PICK o \in Owners, k \in 0..(calls - 1) : agents[i] = Creation(o, k)
    BY <1>1 DEF AgentInv, Creations
  <2>. QED  BY <2>2 DEF Creation
<1>3. \A i, j \in 1..n : agents[i].nonce = agents[j].nonce => i = j
  BY <1>0 DEF AgentInv, Minted
<1>. HIDE DEF n
<1>4. f \in [1..n -> 0..(calls - 1)] /\ \A i, j \in 1..n : f[i] = f[j] => i = j
  BY <1>2, <1>3
<1>5. f \in Injection(1..n, 0..(calls - 1))
  <2>. HIDE DEF f
  <2>. QED  BY <1>4, Fun_IsInj
<1>6. IsFiniteSet(0..(calls - 1)) /\ Cardinality(0..(calls - 1)) = calls /\ Cardinality(1..n) = n
  <2>1. /\ IsFiniteSet(0..(calls - 1))
        /\ Cardinality(0..(calls - 1)) = IF 0 > calls - 1 THEN 0 ELSE (calls - 1) - 0 + 1
    BY <1>0, 0 \in Int, calls - 1 \in Int, FS_Interval
  <2>2. Cardinality(1..n) = IF 1 > n THEN 0 ELSE n - 1 + 1
    BY <1>0, 1 \in Int, n \in Int, FS_Interval
  <2>. QED  BY <1>0, <2>1, <2>2
<1>7. Cardinality(1..n) <= Cardinality(0..(calls - 1))
  <2>. HIDE DEF f
  <2>. QED  BY <1>5, <1>6, FS_Injection
<1>. QED  BY <1>6, <1>7 DEF n

\* Type correctness: every reachable state is within the bounds, and the rows
\* are rows of agents that exist.
THEOREM AgentTypes == Spec => []TypeOK
<1>1. AgentInv => TypeOK
  <2>. SUFFICES ASSUME AgentInv PROVE TypeOK
    OBVIOUS
  <2>1. DOMAIN agents = 1..Len(agents)
    BY AgentCount
  <2>2. Len(agents) <= calls
    BY AgentsBounded
  <2>3. \A r \in rows : r.vault \in Vaults /\ r.level \in AccessLevels
                        /\ r.identity \in DOMAIN agents
    BY <2>1 DEF AgentInv, Stored
  <2>. QED  BY <2>1, <2>2, <2>3 DEF AgentInv, TypeOK
<1>. QED  BY <1>1, AgentInvariant, PTL

\* A creation that arrives again makes no second agent, and one made again, with
\* a nonce of its own, is not taken for a repetition.
THEOREM CreationsAreUsedOnce == Spec => []CreationsMintOnce
<1>1. AgentInv => CreationsMintOnce
  <2>. SUFFICES ASSUME AgentInv PROVE CreationsMintOnce
    OBVIOUS
  <2>1. \A i, j \in DOMAIN agents : agents[i] = agents[j] => i = j
    BY DEF AgentInv, Minted
  <2>2. ASSUME NEW m \in net, m.kind = "create", ~creation_valid(m)
        PROVE  \E i \in DOMAIN agents : agents[i] = m
    <3>1. PICK o \in Owners, n \in 0..(calls - 1) : m = Creation(o, n)
      BY <2>2 DEF AgentInv, Creations
    <3>2. /\ m.owner = o /\ m.name = o /\ m.issued_at = n /\ m.nonce = n
          /\ m.signature = sign(o, canonical_create_agent_bytes(o, n, n))
      BY <3>1 DEF Creation
    <3>3. verify(m.owner, canonical_create_agent_bytes(m.name, m.issued_at, m.nonce), m.signature)
      BY <3>2 DEF verify, sign
    <3>4. m.nonce \in used
      BY <2>2, <3>3 DEF creation_valid
    <3>5. PICK i \in DOMAIN agents : agents[i].nonce = m.nonce
      BY <3>4 DEF AgentInv, Minted
    <3>6. agents[i] \in net /\ agents[i].kind = "create"
      BY AgentCount DEF AgentInv, Minted
    <3>7. agents[i] = m
      BY <2>2, <3>5, <3>6 DEF AgentInv, Creations
    <3>. QED  BY <3>7
  <2>. QED  BY <2>1, <2>2 DEF CreationsMintOnce
<1>. QED  BY <1>1, AgentInvariant, PTL

\* A row whose signature verifies is a membership its owner signed, whatever
\* columns of rows the service confused and however often.
THEOREM VerifiedRowsWereGranted == Spec => []VerifiedRowsGranted
<1>1. AgentInv => VerifiedRowsGranted
  <2>. SUFFICES ASSUME AgentInv, NEW r \in rows, verify_membership_grant(r)
                PROVE  [r EXCEPT !.revoked_at = None] \in granted
    BY DEF VerifiedRowsGranted
  <2>1. IsRow(r)
    BY DEF AgentInv, Stored
  <2>2. PICK g \in granted : g.signature = r.signature
    BY DEF AgentInv, Stored
  <2>3. PICK o \in Owners, v \in Vaults, a \in 1..Len(agents), l \in AccessLevels :
          g = Grant(o, v, a, l)
    BY DEF AgentInv, Memberships
  <2>4. [r EXCEPT !.revoked_at = None] = g
    BY <2>1, <2>2, <2>3, SignatureCoversRow
  <2>. QED  BY <2>4
<1>. QED  BY <1>1, AgentInvariant, PTL

\* Among rows there is one with the lowest level.
LEMMA LowestLevel ==
  ASSUME NEW own, own # {}, \A r \in own : r.level \in AccessLevels
  PROVE  \E r \in own : \A s \in own : r.level <= s.level
<1>. USE DEF AccessLevels, Read, Write, Admin
<1>1. CASE \E r \in own : r.level = 1
  BY <1>1
<1>2. CASE ~(\E r \in own : r.level = 1) /\ \E r \in own : r.level = 2
  BY <1>2
<1>3. CASE \A r \in own : r.level = 3
  BY <1>3
<1>. QED  BY <1>1, <1>2, <1>3

\* While the service makes no mistakes, the level a client reports, whatever rows
\* it cannot read, was signed for it and stored since its last revocation in the
\* vault; it passes over a lower such level, or reports none, only because the
\* rows in question are unreadable.
THEOREM ReportedAccessIsGranted == Spec => []ReportedAccess
<1>1. AgentInv => ReportedAccess
  <2>. SUFFICES ASSUME AgentInv, mixUps = 0, NEW unreadable \in SUBSET rows,
                       NEW a \in DOMAIN agents, NEW v \in Vaults
                PROVE  LET level == caller_access(readable_memberships(rows, unreadable), a, v)
                           current == {g \in standing : g.identity = a /\ g.vault = v}
                       IN  IF level = None THEN current \subseteq unreadable
                           ELSE /\ \E g \in current \cap granted : g.level = level
                                /\ \A g \in current : g.level < level => g \in unreadable
    BY DEF ReportedAccess
  <2>. DEFINE level == caller_access(readable_memberships(rows, unreadable), a, v)
              current == {g \in standing : g.identity = a /\ g.vault = v}
              own == {r \in readable_memberships(rows, unreadable) :
                        r.identity = a /\ r.vault = v /\ r.revoked_at = None}
              low == CHOOSE r \in own : \A s \in own : r.level <= s.level
  <2>1. standing = {r \in rows : r.revoked_at = None} /\ standing \subseteq granted
    BY DEF AgentInv, Standing
  <2>2. own = current \ unreadable /\ current \subseteq granted
    BY <2>1 DEF readable_memberships
  <2>3. \A r \in current : r.level \in AccessLevels
    BY <2>1 DEF AgentInv, Stored
  <2>4. level = IF own = {} THEN None ELSE low.level
    BY DEF caller_access
  <2>. HIDE DEF own, current, level
  <2>5. CASE own = {}
    <3>1. level = None /\ current \subseteq unreadable
      BY <2>2, <2>4, <2>5
    <3>. QED  BY <3>1 DEF level, current
  <2>6. CASE own # {}
    <3>1. \A r \in own : r.level \in AccessLevels
      BY <2>2, <2>3
    <3>2. \E r \in own : \A s \in own : r.level <= s.level
      BY <2>6, <3>1, LowestLevel
    <3>3. low \in own /\ \A s \in own : low.level <= s.level
      BY <3>2
    <3>. HIDE DEF low
    <3>4. level = low.level /\ low \in current \cap granted /\ level \in Nat /\ level # None
      BY <2>2, <2>4, <2>6, <3>1, <3>3, AgentAssumption DEF AccessLevels, Read, Write, Admin
    <3>5. ASSUME NEW g \in current, g.level < level PROVE g \in unreadable
      <4>1. g.level \in Nat
        BY <2>3 DEF AccessLevels, Read, Write, Admin
      <4>2. g \notin own
        BY <3>3, <3>4, <3>5, <4>1
      <4>. QED  BY <2>2, <4>2
    <3>. QED  BY <3>4, <3>5 DEF level, current
  <2>. QED  BY <2>5, <2>6
<1>. QED  BY <1>1, AgentInvariant, PTL

\* A signed contribution verifies in whatever order the wire puts its lists.
THEOREM ContributionsVerifyInEveryOrder == Spec => []SignedContributionsVerify
<1>1. AgentInv => SignedContributionsVerify
  BY DEF AgentInv, Asked, SignedContributionsVerify
<1>. QED  BY <1>1, AgentInvariant, PTL

\* What was accepted passed validate_contribution and the check of duplicates.
LEMMA AcceptedContributions ==
  ASSUME AgentInv, NEW c \in accepted
  PROVE  /\ c \in ContributionRecord /\ agent_delegation_contribution_payload(c) # None
         /\ validate_contribution(c)
BY AgentAssumption DEF AgentInv, Checked, agent_delegation_contribution_payload

\* An accepted provisioning is a bijection of keys, vaults and write grants.
THEOREM ProvisioningPairsKeysAndVaults == Spec => []ProvisioningBijective
<1>1. AgentInv => ProvisioningBijective
  BY AcceptedContributions, ValidProvisioning DEF ProvisioningBijective
<1>. QED  BY <1>1, AgentInvariant, PTL

\* An accepted contribution fills no name and grants no vault twice.
THEOREM AcceptedWithoutDuplicates == Spec => []NothingDelegatedTwice
<1>1. AgentInv => NothingDelegatedTwice
  BY AcceptedContributions, PayloadHasNoDuplicates DEF NothingDelegatedTwice
<1>. QED  BY <1>1, AgentInvariant, PTL
=============================================================================
