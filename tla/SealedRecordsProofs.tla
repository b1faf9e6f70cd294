------------------------ MODULE SealedRecordsProofs ------------------------
(***************************************************************************)
(* Theorems about SealedRecords, for any identities, vaults, items,        *)
(* attachments and any number of writes and confusions.                    *)
(***************************************************************************)
EXTENDS SealedRecords, TLAPS

Sealable == Fields \cup Wraps

-----------------------------------------------------------------------------
(* Places: a slot, the ids of the row, and the kinds of places apart.      *)

SealSlots ==
  {"name", "description", "invitation_email", "live_share_email", "title", "tags",
   "metadata", "last_used", "filename", "content_type", "blob", "digest", "body",
   "content_key", "wrapped_key"}

\* A sealed place is its slot and its ids.
LEMMA SealableShape ==
  ASSUME NEW s \in Sealable
  PROVE  s = Place(s.slot, s.ids) /\ s.slot \in SealSlots
<1>1. CASE s \in VaultKeyed
  BY <1>1 DEF VaultKeyed, Place, VaultFields, MailFields, ItemFields, AttachmentFields, SealSlots
<1>2. CASE s \in FileKeyed \cup Bodies \cup Wraps
  BY <1>2 DEF FileKeyed, Bodies, Wraps, Place, FileFields, SealSlots
<1> QED BY <1>1, <1>2 DEF Sealable, Fields

\* Boxes have slots of their own.
LEMMA SealableNotBox ==
  ASSUME NEW s \in Sealable
  PROVE  s \notin Boxes
<1>1. s.slot \in SealSlots
  BY SealableShape
<1> QED BY <1>1 DEF Boxes, Place, SealSlots

\* The prefix names the slot.
LEMMA PrefixNamesSlot ==
  ASSUME NEW s \in Sealable, NEW t \in Sealable, aad(s) = aad(t)
  PROVE  s = t
<1> DEFINE SlotOf(prefix) ==
      CASE prefix = "item-content-key" -> "content_key"
        [] prefix = "item-metadata" -> "metadata"
        [] prefix = "vault-name" -> "name"
        [] prefix = "vault-description" -> "description"
        [] prefix = "vault-invitation-email" -> "invitation_email"
        [] prefix = "live-share-recipient-email" -> "live_share_email"
        [] prefix = "attachment-content-key" -> "wrapped_key"
        [] prefix = "attachment-blob" -> "blob"
        [] prefix = "attachment-filename" -> "filename"
        [] prefix = "attachment-content-type" -> "content_type"
        [] prefix = "attachment-digest" -> "digest"
        [] OTHER -> prefix
<1>1. ASSUME NEW r \in Sealable
      PROVE  aad(r).ids = r.ids /\ SlotOf(aad(r).prefix) = r.slot
  <2>1. r.slot \in SealSlots
    BY SealableShape
  <2>2. CASE r.slot = "content_key"
    BY <2>2 DEF aad, content_key_wrap_aad, Aad, VaultFields, MailFields, ItemFields
  <2>3. CASE r.slot \in ItemFields \cup {"body"}
    BY <2>3 DEF aad, item_aad, Aad, VaultFields, MailFields, ItemFields
  <2>4. CASE r.slot \in VaultFields \cup MailFields
    BY <2>4 DEF aad, vault_aad, Aad, VaultFields, MailFields, ItemFields
  <2>5. CASE r.slot \in {"wrapped_key", "blob", "filename", "content_type", "digest"}
    BY <2>5 DEF aad, attachment_aad, Aad, VaultFields, MailFields, ItemFields
  <2> QED BY <2>1, <2>2, <2>3, <2>4, <2>5 DEF SealSlots, ItemFields, VaultFields, MailFields
<1>2. s.ids = t.ids /\ s.slot = t.slot
  <2> HIDE DEF SlotOf
  <2> QED BY <1>1
<1> QED BY <1>2, SealableShape

\* The slots of each kind of place.
LEMMA SlotsApart ==
  /\ \A s \in VaultKeyed : s.slot \in VaultFields \cup MailFields \cup ItemFields \cup AttachmentFields
  /\ \A s \in FileKeyed : s.slot \in FileFields
  /\ \A s \in Bodies : s.slot = "body"
  /\ \A s \in Wraps : s.slot \in {"content_key", "wrapped_key"}
<1>1. \A s \in VaultKeyed : s.slot \in VaultFields \cup MailFields \cup ItemFields \cup AttachmentFields
  BY DEF VaultKeyed, Place
<1>2. \A s \in FileKeyed : s.slot \in FileFields
  BY DEF FileKeyed, Place
<1>3. \A s \in Bodies : s.slot = "body"
  BY DEF Bodies, Place
<1>4. \A s \in Wraps : s.slot \in {"content_key", "wrapped_key"}
  BY DEF Wraps, Place
<1> QED BY <1>1, <1>2, <1>3, <1>4

\* The key of a field or a wrap.
LEMMA KeyOfField ==
  ASSUME NEW s \in Sealable
  PROVE  /\ vault_of(s) \in Vaults
         /\ s \in VaultKeyed \cup Wraps => KeyOf(s) = VaultKeyOf(vault_of(s))
         /\ s \in Bodies => KeyOf(s) \in Wraps /\ KeyOf(s) = Place("content_key", s.ids)
         /\ s \in FileKeyed => KeyOf(s) \in Wraps /\ KeyOf(s) = Place("wrapped_key", s.ids)
<1>1. ASSUME s \in VaultKeyed \cup Wraps PROVE KeyOf(s) = VaultKeyOf(vault_of(s))
  <2>1. s.slot # "body" /\ s.slot \notin FileFields
    BY <1>1, SlotsApart DEF VaultFields, MailFields, ItemFields, AttachmentFields, FileFields
  <2> QED BY <2>1 DEF KeyOf
<1>2. ASSUME s \in Bodies
      PROVE  KeyOf(s) \in Wraps /\ KeyOf(s) = Place("content_key", s.ids)
  <2>1. PICK i \in Items : s.slot = "body" /\ s.ids = <<i>>
    BY <1>2 DEF Bodies, Place
  <2>2. KeyOf(s) = Place("content_key", <<i>>)
    BY <2>1 DEF KeyOf, FileFields
  <2> QED BY <2>1, <2>2 DEF Wraps
<1>3. ASSUME s \in FileKeyed
      PROVE  KeyOf(s) \in Wraps /\ KeyOf(s) = Place("wrapped_key", s.ids)
  <2>1. PICK a \in Attachments : s.slot \in FileFields /\ s.ids = <<ItemOf[a], a>>
    BY <1>3 DEF FileKeyed, Place
  <2>2. KeyOf(s) = Place("wrapped_key", s.ids)
    BY <2>1 DEF KeyOf, FileFields
  <2> QED BY <2>1, <2>2 DEF Wraps
<1>4. vault_of(s) \in Vaults
  <2>1. CASE s \in VaultKeyed
    BY <2>1, RecordsAssumption DEF VaultKeyed, vault_of, Place, VaultFields, MailFields,
         ItemFields, AttachmentFields
  <2>2. CASE s \in FileKeyed \cup Bodies \cup Wraps
    <3>1. s.slot \notin VaultFields \cup MailFields \cup {"vault"}
      BY <2>2, SlotsApart DEF FileFields, VaultFields, MailFields
    <3>2. s.ids[1] \in Items
      BY <2>2, RecordsAssumption DEF FileKeyed, Bodies, Wraps, Place
    <3> QED BY <3>1, <3>2, RecordsAssumption DEF vault_of
  <2> QED BY <2>1, <2>2 DEF Sealable, Fields
<1> QED BY <1>1, <1>2, <1>3, <1>4

-----------------------------------------------------------------------------
(* Envelopes.                                                              *)

\* An envelope names the place its plaintext is for.
Honest(b) == b \in Envelopes /\ (b.tag = "AeadXChaCha" => b.aad = aad(b.pt.for))

\* What an honest envelope has in it.
LEMMA HonestParts ==
  ASSUME NEW b, Honest(b)
  PROVE  \/ /\ b.tag = "AeadXChaCha" /\ b.key \in Plaintexts(KeyPlaces)
            /\ b.pt \in Plaintexts(Sealable) /\ b.aad = aad(b.pt.for)
         \/ /\ b.tag = "SealedBox" /\ b.key \in Identities /\ b.pt \in Plaintexts(KeyPlaces)
BY DEF Honest, Envelopes, Sealable

\* Sealing a plaintext for its own place is honest.
LEMMA SealingIsHonest ==
  ASSUME NEW key \in Plaintexts(KeyPlaces), NEW s \in Sealable,
         NEW x \in Plaintexts(Sealable), x.for = s
  PROVE  Honest(xchacha20_encrypt_with_aad(key, x, aad(s)))
BY DEF Honest, Envelopes, Sealable, xchacha20_encrypt_with_aad

\* So is sealing a key for an identity.
LEMMA BoxingIsHonest ==
  ASSUME NEW p \in Identities, NEW key \in Plaintexts(KeyPlaces)
  PROVE  Honest(seal(p, key))
BY DEF Honest, Envelopes, seal

\* The texts and keys that are drawn.
LEMMA DrawnTyped ==
  ASSUME NEW places, NEW s \in places, NEW n \in 0..MaxWrites
  PROVE  Plaintext(s, n) \in Plaintexts(places) /\ Plaintext(s, n).for = s
BY DEF Plaintext, Plaintexts

-----------------------------------------------------------------------------
(* The invariant.                                                          *)

\* As long as no box was misrouted, every box has a key for its recipient, who
\* was given that key, and everything else is sealed under its own key.
Placed(t, b, m, sh) ==
  \/ t \in Sealable /\ b.tag = "AeadXChaCha" /\ b.key.for = KeyOf(b.pt.for)
  \/ /\ t \in Boxes /\ b.tag = "SealedBox" /\ b.key = t.ids[1]
     /\ \/ /\ t.slot = "member" /\ b.pt.for = VaultKeyOf(t.ids[2])
           /\ t.ids[2] \in Vaults /\ b.key \in m[t.ids[2]]
        \/ /\ t.slot = "share" /\ b.pt.for = Place("content_key", <<t.ids[2]>>)
           /\ t.ids[2] \in Items /\ b.key \in sh[t.ids[2]]

StoreHonest == \A t \in Places : store[t] = None \/ Honest(store[t])

StorePlaced ==
  ~misrouted => \A t \in Places : store[t] = None \/ Placed(t, store[t], members, shared)

SealInv == TypeOK /\ StoreHonest /\ StorePlaced

\* A key from the box of a vault is a key, and the vault's unless misrouted.
LEMMA VaultKeyUnwrapped ==
  ASSUME SealInv, NEW p \in Identities, NEW v \in Vaults, NEW key \in unwrap_vault_key(p, v)
  PROVE  key \in Plaintexts(KeyPlaces) /\ (~misrouted => key.for = VaultKeyOf(v))
<1> DEFINE t == Place("member", <<p, v>>)
<1>1. t \in Places /\ t \in Boxes /\ t.slot = "member" /\ t.ids[2] = v
  BY DEF Places, Boxes, Place
<1>2. /\ store[t] # None /\ store[t].tag = "SealedBox" /\ key = store[t].pt
  BY DEF unwrap_vault_key, unseal, decode_expecting
<1>3. Honest(store[t])
  BY <1>1, <1>2 DEF SealInv, StoreHonest
<1>4. key \in Plaintexts(KeyPlaces)
  BY <1>2, <1>3, HonestParts
<1>5. ASSUME ~misrouted PROVE key.for = VaultKeyOf(v)
  <2>1. Placed(t, store[t], members, shared)
    BY <1>1, <1>2, <1>5 DEF SealInv, StorePlaced
  <2> HIDE DEF t
  <2> QED BY <2>1, <1>1, <1>2 DEF Placed
<1> QED BY <1>4, <1>5

\* Opening binds: what opens with the associated data of a place is for it.
LEMMA OpensOnlyItsOwn ==
  ASSUME SealInv, NEW s \in Sealable, NEW k,
         xchacha20_decrypt_with_aad(k, store[s], aad(s)) # None
  PROVE  LET x == xchacha20_decrypt_with_aad(k, store[s], aad(s))
         IN  x = store[s].pt /\ x \in Plaintexts(Sealable) /\ x.for = s
<1>1. /\ store[s] # None /\ store[s].tag = "AeadXChaCha" /\ store[s].aad = aad(s)
      /\ xchacha20_decrypt_with_aad(k, store[s], aad(s)) = store[s].pt
  BY DEF xchacha20_decrypt_with_aad, decode_expecting
<1>2. Honest(store[s])
  BY <1>1 DEF SealInv, StoreHonest, Places, Sealable
<1>3. store[s].pt \in Plaintexts(Sealable) /\ store[s].aad = aad(store[s].pt.for)
  BY <1>1, <1>2, HonestParts
<1>4. store[s].pt.for \in Sealable
  BY <1>3 DEF Plaintexts
<1> QED BY <1>1, <1>3, <1>4, PrefixNamesSlot

\* A key from a wrap is the key of that item or attachment.
LEMMA KeyUnwrapped ==
  ASSUME SealInv, NEW p \in Identities, NEW s \in Wraps, NEW key \in unwrap_key(p, s)
  PROVE  key \in Plaintexts(KeyPlaces) /\ key.for = s
<1>1. PICK k : key = xchacha20_decrypt_with_aad(k, store[s], aad(s)) /\ key # None
  BY DEF unwrap_key
<1>2. s \in Sealable
  BY DEF Sealable
<1>3. key \in Plaintexts(Sealable) /\ key.for = s
  BY <1>1, <1>2, OpensOnlyItsOwn
<1> QED BY <1>3 DEF Plaintexts, KeyPlaces

\* Nothing is stored at first.
LEMMA InitSeals == ASSUME Init PROVE SealInv
<1>1. store \in [Places -> Envelopes \cup {None}]
  BY DEF Init
<1>2. members \in [Vaults -> SUBSET Identities] /\ shared \in [Items -> SUBSET Identities]
  BY DEF Init
<1>3. writes \in 0..MaxWrites /\ mixUps \in 0..MaxMixUps
  BY RecordsAssumption DEF Init
<1>4. misrouted \in BOOLEAN
  BY DEF Init
<1>5. TypeOK
  BY <1>1, <1>2, <1>3, <1>4 DEF TypeOK
<1> QED BY <1>5 DEF Init, SealInv, StoreHonest, StorePlaced

\* The envelopes of an operation keep the invariant when they are honest and
\* sealed for the places they take, and nobody loses a key.
LEMMA PutKeeps ==
  ASSUME SealInv, NEW E, Put(E),
         DOMAIN E \subseteq Places,
         \A s \in DOMAIN E : Honest(E[s]),
         \A s \in DOMAIN E : ~misrouted => Placed(s, E[s], members', shared'),
         members' \in [Vaults -> SUBSET Identities],
         shared' \in [Items -> SUBSET Identities],
         writes' \in 0..MaxWrites,
         \A v \in Vaults : members[v] \subseteq members'[v],
         \A i \in Items : shared[i] \subseteq shared'[i]
  PROVE  SealInv'
<1>1. \A s \in Places : store'[s] = IF s \in DOMAIN E THEN E[s] ELSE store[s]
  BY DEF Put
<1>2. TypeOK'
  <2>1. \A s \in Places : store'[s] \in Envelopes \cup {None}
    <3>1. \A s \in Places : store[s] \in Envelopes \cup {None}
      BY DEF SealInv, TypeOK
    <3>2. \A s \in DOMAIN E : E[s] \in Envelopes
      BY DEF Honest
    <3> QED BY <1>1, <3>1, <3>2
  <2>2. store' \in [Places -> Envelopes \cup {None}]
    BY <2>1 DEF Put
  <2>3. mixUps' \in 0..MaxMixUps /\ misrouted' \in BOOLEAN
    BY DEF Put, SealInv, TypeOK
  <2> QED BY <2>2, <2>3 DEF TypeOK
<1>3. StoreHonest'
  BY <1>1 DEF SealInv, StoreHonest
<1>4. StorePlaced'
  <2> SUFFICES ASSUME ~misrouted', NEW t \in Places, store'[t] # None
               PROVE  Placed(t, store'[t], members', shared')
    BY DEF StorePlaced
  <2>1. ~misrouted
    BY DEF Put
  <2>2. CASE t \in DOMAIN E
    BY <1>1, <2>1, <2>2
  <2>3. CASE t \notin DOMAIN E
    <3>1. store'[t] = store[t] /\ Placed(t, store[t], members, shared)
      BY <1>1, <2>1, <2>3 DEF SealInv, StorePlaced
    <3> QED BY <3>1 DEF Placed
  <2> QED BY <2>2, <2>3
<1> QED BY <1>2, <1>3, <1>4 DEF SealInv

\* A text or a key that is sealed under its own key is in place anywhere.
LEMMA SealedInPlace ==
  ASSUME NEW key \in Plaintexts(KeyPlaces), NEW s \in Sealable,
         NEW x \in Plaintexts(Sealable), x.for = s, NEW m, NEW sh,
         NEW lost \in BOOLEAN, ~lost => key.for = KeyOf(s)
  PROVE  LET b == xchacha20_encrypt_with_aad(key, x, aad(s))
         IN  Honest(b) /\ (~lost => Placed(s, b, m, sh))
<1>1. Honest(xchacha20_encrypt_with_aad(key, x, aad(s)))
  BY SealingIsHonest
<1>2. ASSUME ~lost PROVE Placed(s, xchacha20_encrypt_with_aad(key, x, aad(s)), m, sh)
  BY <1>2 DEF Placed, xchacha20_encrypt_with_aad
<1> QED BY <1>1, <1>2

\* A vault key in the box of a member.
LEMMA MemberBoxInPlace ==
  ASSUME NEW p \in Identities, NEW v \in Vaults, NEW key \in Plaintexts(KeyPlaces), NEW m, NEW sh,
         NEW lost \in BOOLEAN, ~lost => key.for = VaultKeyOf(v), p \in m[v]
  PROVE  /\ Honest(seal(p, key))
         /\ ~lost => Placed(Place("member", <<p, v>>), seal(p, key), m, sh)
<1>1. Honest(seal(p, key))
  BY BoxingIsHonest
<1>2. Place("member", <<p, v>>) \in Boxes
  BY DEF Boxes
<1>3. ASSUME ~lost PROVE Placed(Place("member", <<p, v>>), seal(p, key), m, sh)
  BY <1>2, <1>3 DEF Placed, Place, seal
<1> QED BY <1>1, <1>3

\* A content key in the box of a share.
LEMMA ShareBoxInPlace ==
  ASSUME NEW p \in Identities, NEW i \in Items, NEW key \in Plaintexts(KeyPlaces), NEW m, NEW sh,
         key.for = Place("content_key", <<i>>), p \in sh[i]
  PROVE  /\ Honest(seal(p, key))
         /\ Placed(Place("share", <<p, i>>), seal(p, key), m, sh)
<1>1. Honest(seal(p, key))
  BY BoxingIsHonest
<1>2. Place("share", <<p, i>>) \in Boxes
  BY DEF Boxes
<1>3. Placed(Place("share", <<p, i>>), seal(p, key), m, sh)
  BY <1>2 DEF Placed, Place, seal
<1> QED BY <1>1, <1>3

-----------------------------------------------------------------------------
(* One lemma for each operation.                                           *)

\* A new vault: its key in the creator's box, its texts under that key.
LEMMA CreateVaultKeeps ==
  ASSUME SealInv, NEW p \in Identities, NEW v \in Vaults, CreateVault(p, v)
  PROVE  SealInv'
<1> DEFINE key == Plaintext(VaultKeyOf(v), 0)
           box == Place("member", <<p, v>>)
           texts == {Place(f, <<v>>) : f \in VaultFields}
           E == [s \in {box} \cup texts |-> IF s = box THEN seal(p, key) ELSE encrypt(key, s, 0)]
<1>1. key \in Plaintexts(KeyPlaces) /\ key.for = VaultKeyOf(v)
  <2>1. VaultKeyOf(v) \in KeyPlaces
    BY DEF KeyPlaces
  <2> QED BY <2>1, DrawnTyped, RecordsAssumption
<1>2. /\ members' \in [Vaults -> SUBSET Identities] /\ p \in members'[v]
      /\ \A w \in Vaults : members[w] \subseteq members'[w]
      /\ shared' = shared /\ writes' = writes
  BY DEF CreateVault, SealInv, TypeOK
<1>3. texts \subseteq VaultKeyed /\ texts \subseteq Sealable /\ box \in Places
  BY DEF VaultKeyed, Sealable, Fields, Places, Boxes
<1>4. ASSUME NEW s \in texts
      PROVE  Honest(E[s]) /\ (~misrouted => Placed(s, E[s], members', shared'))
  <2>1. s # box
    BY DEF Place, VaultFields
  <2>2. KeyOf(s) = VaultKeyOf(v)
    BY DEF KeyOf, vault_of, Place, VaultFields, FileFields
  <2>3. E[s] = xchacha20_encrypt_with_aad(key, Plaintext(s, 0), aad(s))
    BY <2>1 DEF encrypt
  <2> HIDE DEF E, key, texts, box
  <2>4. Plaintext(s, 0) \in Plaintexts(Sealable) /\ Plaintext(s, 0).for = s
    BY <1>3, DrawnTyped, RecordsAssumption
  <2> QED BY <1>1, <1>3, <2>2, <2>3, <2>4, SealedInPlace DEF SealInv, TypeOK
<1>5. Honest(E[box]) /\ (~misrouted => Placed(box, E[box], members', shared'))
  <2>1. E[box] = seal(p, key)
    OBVIOUS
  <2> HIDE DEF E, key
  <2> QED BY <1>1, <1>2, <2>1, MemberBoxInPlace DEF SealInv, TypeOK
<1>6. DOMAIN E = {box} \cup texts /\ Put(E)
  BY DEF CreateVault
<1> HIDE DEF E, key, texts, box
<1>7. DOMAIN E \subseteq Places
  BY <1>3, <1>6 DEF Sealable, Places
<1>8. /\ \A s \in DOMAIN E : Honest(E[s])
      /\ \A s \in DOMAIN E : ~misrouted => Placed(s, E[s], members', shared')
  BY <1>4, <1>5, <1>6
<1>9. shared' \in [Items -> SUBSET Identities] /\ writes' \in 0..MaxWrites
  BY <1>2 DEF SealInv, TypeOK
<1> QED BY <1>2, <1>6, <1>7, <1>8, <1>9, PutKeeps

\* A new member gets what the adder found in its own box.
LEMMA AddMemberKeeps ==
  ASSUME SealInv, NEW p \in Identities, NEW q \in Identities, NEW v \in Vaults, AddMember(p, q, v)
  PROVE  SealInv'
<1> DEFINE box == Place("member", <<q, v>>)
<1>1. PICK key \in unwrap_vault_key(p, v) : Put([s \in {box} |-> seal(q, key)])
  BY DEF AddMember
<1> DEFINE E == [s \in {box} |-> seal(q, key)]
<1>2. key \in Plaintexts(KeyPlaces) /\ (~misrouted => key.for = VaultKeyOf(v))
  BY VaultKeyUnwrapped
<1>3. /\ members' \in [Vaults -> SUBSET Identities] /\ q \in members'[v]
      /\ \A w \in Vaults : members[w] \subseteq members'[w]
      /\ shared' = shared /\ writes' = writes
  BY DEF AddMember, SealInv, TypeOK
<1>4. DOMAIN E = {box} /\ E[box] = seal(q, key) /\ Put(E) /\ box \in Places
  BY <1>1 DEF Places, Boxes
<1>5. Honest(seal(q, key)) /\ (~misrouted => Placed(box, seal(q, key), members', shared'))
  BY <1>2, <1>3, MemberBoxInPlace DEF SealInv, TypeOK
<1>6. shared' \in [Items -> SUBSET Identities] /\ writes' \in 0..MaxWrites
  BY <1>3 DEF SealInv, TypeOK
<1> HIDE DEF E, box
<1> QED BY <1>3, <1>4, <1>5, <1>6, PutKeeps

\* A recipient gets what opens as the content key of the item.
LEMMA ShareItemKeeps ==
  ASSUME SealInv, NEW p \in Identities, NEW q \in Identities, NEW i \in Items, ShareItem(p, q, i)
  PROVE  SealInv'
<1> DEFINE box == Place("share", <<q, i>>)
<1>1. PICK key \in unwrap_key(p, Place("content_key", <<i>>)) : Put([s \in {box} |-> seal(q, key)])
  BY DEF ShareItem
<1> DEFINE E == [s \in {box} |-> seal(q, key)]
<1>2. Place("content_key", <<i>>) \in Wraps
  BY DEF Wraps
<1>3. key \in Plaintexts(KeyPlaces) /\ key.for = Place("content_key", <<i>>)
  BY <1>2, KeyUnwrapped
<1>4. /\ shared' \in [Items -> SUBSET Identities] /\ q \in shared'[i]
      /\ \A j \in Items : shared[j] \subseteq shared'[j]
      /\ members' = members /\ writes' = writes
  BY DEF ShareItem, SealInv, TypeOK
<1>5. DOMAIN E = {box} /\ E[box] = seal(q, key) /\ Put(E) /\ box \in Places
  BY <1>1 DEF Places, Boxes
<1>6. Honest(seal(q, key)) /\ Placed(box, seal(q, key), members', shared')
  BY <1>3, <1>4, ShareBoxInPlace
<1>7. members' \in [Vaults -> SUBSET Identities] /\ writes' \in 0..MaxWrites
  BY <1>4 DEF SealInv, TypeOK
<1> HIDE DEF E, box
<1> QED BY <1>4, <1>5, <1>6, <1>7, PutKeeps

\* A wrap that an operation makes, of the key it draws.
LEMMA WrapInPlace ==
  ASSUME NEW key \in Plaintexts(KeyPlaces), NEW w \in Wraps, NEW m, NEW sh,
         NEW lost \in BOOLEAN, ~lost => key.for = VaultKeyOf(vault_of(w))
  PROVE  /\ Honest(wrap_key(key, w, Plaintext(w, 0)))
         /\ ~lost => Placed(w, wrap_key(key, w, Plaintext(w, 0)), m, sh)
<1>1. w \in Sealable /\ KeyOf(w) = VaultKeyOf(vault_of(w))
  <2>1. w \in Sealable
    BY DEF Sealable
  <2> QED BY <2>1, KeyOfField
<1>2. Plaintext(w, 0) \in Plaintexts(Sealable) /\ Plaintext(w, 0).for = w
  BY <1>1, DrawnTyped, RecordsAssumption
<1> QED BY <1>1, <1>2, SealedInPlace DEF wrap_key

\* A text that an operation seals.
LEMMA TextInPlace ==
  ASSUME NEW key \in Plaintexts(KeyPlaces), NEW s \in Fields, NEW n \in 0..MaxWrites, NEW m, NEW sh,
         NEW lost \in BOOLEAN, ~lost => key.for = KeyOf(s)
  PROVE  /\ Honest(encrypt(key, s, n))
         /\ ~lost => Placed(s, encrypt(key, s, n), m, sh)
<1>1. s \in Sealable
  BY DEF Sealable
<1>2. Plaintext(s, n) \in Plaintexts(Sealable) /\ Plaintext(s, n).for = s
  BY <1>1, DrawnTyped
<1> QED BY <1>1, <1>2, SealedInPlace DEF encrypt

\* The texts of an item, and their keys.
LEMMA ItemTexts ==
  ASSUME NEW i \in Items, NEW f \in {"title", "body", "metadata", "tags"}
  PROVE  LET s == Place(f, <<i>>)
             wrap == Place("content_key", <<i>>)
         IN  /\ s \in Fields /\ s # wrap /\ s.slot = f
             /\ KeyOf(s) = IF s.slot = "body" THEN wrap ELSE VaultKeyOf(VaultOf[i])
<1> DEFINE s == Place(f, <<i>>)
<1>1. s.slot = f /\ s.ids = <<i>> /\ s.ids[1] = i
  BY DEF Place
<1>2. s \in Fields
  BY DEF Fields, VaultKeyed, Bodies, ItemFields
<1>3. s # Place("content_key", <<i>>)
  BY <1>1 DEF Place
<1>4. KeyOf(s) = IF f = "body" THEN Place("content_key", <<i>>) ELSE VaultKeyOf(VaultOf[i])
  <2> HIDE DEF s
  <2>1. CASE f = "body"
    BY <1>1, <2>1 DEF KeyOf, FileFields
  <2>2. CASE f # "body"
    <3>1. f \notin FileFields /\ f \notin VaultFields \cup MailFields \cup {"vault"}
      BY DEF FileFields, VaultFields, MailFields
    <3>2. vault_of(s) = VaultOf[i]
      BY <1>1, <3>1 DEF vault_of
    <3> QED BY <1>1, <2>2, <3>1, <3>2 DEF KeyOf
  <2> QED BY <2>1, <2>2
<1> QED BY <1>1, <1>2, <1>3, <1>4

\* A new item: its content key is wrapped, and seals the body.
LEMMA CreateItemKeeps ==
  ASSUME SealInv, NEW p \in Identities, NEW i \in Items, CreateItem(p, i)
  PROVE  SealInv'
<1> DEFINE wrap == Place("content_key", <<i>>)
           texts == {Place(f, <<i>>) : f \in NewTexts(i)}
<1>1. PICK key \in unwrap_vault_key(p, VaultOf[i]) :
        Put([s \in {wrap} \cup texts |->
               IF s = wrap THEN wrap_key(key, wrap, Plaintext(wrap, 0))
               ELSE encrypt(IF s.slot = "body" THEN Plaintext(wrap, 0) ELSE key, s, 0)])
  BY DEF CreateItem
<1> DEFINE E == [s \in {wrap} \cup texts |->
                   IF s = wrap THEN wrap_key(key, wrap, Plaintext(wrap, 0))
                   ELSE encrypt(IF s.slot = "body" THEN Plaintext(wrap, 0) ELSE key, s, 0)]
<1>2. key \in Plaintexts(KeyPlaces) /\ (~misrouted => key.for = VaultKeyOf(VaultOf[i]))
  BY VaultKeyUnwrapped, RecordsAssumption
<1>3. wrap \in Wraps /\ vault_of(wrap) = VaultOf[i]
  BY DEF Wraps, vault_of, Place, VaultFields, MailFields
<1>4. \A s \in texts : /\ s \in Fields /\ s # wrap
                       /\ KeyOf(s) = IF s.slot = "body" THEN wrap ELSE VaultKeyOf(VaultOf[i])
  BY ItemTexts DEF NewTexts
<1>5. /\ E[wrap] = wrap_key(key, wrap, Plaintext(wrap, 0)) /\ DOMAIN E = {wrap} \cup texts
      /\ \A s \in texts :
           E[s] = encrypt(IF s.slot = "body" THEN Plaintext(wrap, 0) ELSE key, s, 0)
  <2> HIDE DEF wrap, texts
  <2> QED BY <1>4
<1>6. Put(E)
  BY <1>1
<1> HIDE DEF E, wrap, texts
<1>7. Plaintext(wrap, 0) \in Plaintexts(KeyPlaces) /\ Plaintext(wrap, 0).for = wrap
  <2>1. wrap \in KeyPlaces
    BY <1>3 DEF KeyPlaces
  <2> QED BY <2>1, DrawnTyped, RecordsAssumption
<1>8. misrouted \in BOOLEAN /\ 0 \in 0..MaxWrites
  BY RecordsAssumption DEF SealInv, TypeOK
<1>9. Honest(E[wrap]) /\ (~misrouted => Placed(wrap, E[wrap], members', shared'))
  BY <1>2, <1>3, <1>5, <1>8, WrapInPlace
<1>10. ASSUME NEW s \in texts
       PROVE  Honest(E[s]) /\ (~misrouted => Placed(s, E[s], members', shared'))
  <2>1. CASE s.slot = "body"
    BY <1>4, <1>5, <1>7, <1>8, <2>1, TextInPlace
  <2>2. CASE s.slot # "body"
    BY <1>2, <1>4, <1>5, <1>8, <2>2, TextInPlace
  <2> QED BY <2>1, <2>2
<1>11. members' = members /\ shared' = shared /\ writes' = writes
  BY DEF CreateItem
<1>12. /\ members' \in [Vaults -> SUBSET Identities] /\ shared' \in [Items -> SUBSET Identities]
       /\ writes' \in 0..MaxWrites
  BY <1>11 DEF SealInv, TypeOK
<1>13. DOMAIN E \subseteq Places
  BY <1>3, <1>4, <1>5 DEF Places
<1> QED BY <1>5, <1>6, <1>9, <1>10, <1>11, <1>12, <1>13, PutKeeps

\* A new attachment: its key is wrapped, and seals the file and the digest.
LEMMA PutAttachmentKeeps ==
  ASSUME SealInv, NEW p \in Identities, NEW a \in Attachments, PutAttachment(p, a)
  PROVE  SealInv'
<1> DEFINE ids == <<ItemOf[a], a>>
           wrap == Place("wrapped_key", ids)
           texts == {Place(f, ids) : f \in AttachmentFields \cup FileFields}
<1>1. PICK key \in unwrap_vault_key(p, VaultOf[ItemOf[a]]) :
        Put([s \in {wrap} \cup texts |->
               IF s = wrap THEN wrap_key(key, wrap, Plaintext(wrap, 0))
               ELSE encrypt(IF s.slot \in FileFields THEN Plaintext(wrap, 0) ELSE key, s, 0)])
  BY DEF PutAttachment
<1> DEFINE E == [s \in {wrap} \cup texts |->
                   IF s = wrap THEN wrap_key(key, wrap, Plaintext(wrap, 0))
                   ELSE encrypt(IF s.slot \in FileFields THEN Plaintext(wrap, 0) ELSE key, s, 0)]
<1>2. key \in Plaintexts(KeyPlaces) /\ (~misrouted => key.for = VaultKeyOf(VaultOf[ItemOf[a]]))
  BY VaultKeyUnwrapped, RecordsAssumption
<1>3. wrap \in Wraps /\ vault_of(wrap) = VaultOf[ItemOf[a]]
  BY DEF Wraps, vault_of, Place, VaultFields, MailFields
<1>4. \A s \in texts : /\ s \in Fields /\ s # wrap
                       /\ KeyOf(s) = IF s.slot \in FileFields THEN wrap
                                     ELSE VaultKeyOf(VaultOf[ItemOf[a]])
  <2> SUFFICES ASSUME NEW f \in AttachmentFields \cup FileFields, NEW s, s = Place(f, ids)
               PROVE  /\ s \in Fields /\ s # wrap
                      /\ KeyOf(s) = IF s.slot \in FileFields THEN wrap
                                    ELSE VaultKeyOf(VaultOf[ItemOf[a]])
    OBVIOUS
  <2>1. s.slot = f /\ s.ids = ids /\ s.ids[1] = ItemOf[a]
    BY DEF Place
  <2>2. s \in Fields
    BY DEF Fields, VaultKeyed, FileKeyed
  <2>3. s # wrap
    BY <2>1 DEF Place, AttachmentFields, FileFields
  <2>4. CASE f \in FileFields
    BY <2>1, <2>2, <2>3, <2>4 DEF KeyOf, FileFields
  <2>5. CASE f \in AttachmentFields
    BY <2>1, <2>2, <2>3, <2>5 DEF KeyOf, vault_of, AttachmentFields, FileFields, VaultFields, MailFields
  <2> QED BY <2>4, <2>5
<1>5. /\ E[wrap] = wrap_key(key, wrap, Plaintext(wrap, 0)) /\ DOMAIN E = {wrap} \cup texts
      /\ \A s \in texts :
           E[s] = encrypt(IF s.slot \in FileFields THEN Plaintext(wrap, 0) ELSE key, s, 0)
  <2> HIDE DEF wrap, texts
  <2> QED BY <1>4
<1>6. Put(E)
  BY <1>1
<1> HIDE DEF E, wrap, texts
<1>7. Plaintext(wrap, 0) \in Plaintexts(KeyPlaces) /\ Plaintext(wrap, 0).for = wrap
  <2>1. wrap \in KeyPlaces
    BY <1>3 DEF KeyPlaces
  <2> QED BY <2>1, DrawnTyped, RecordsAssumption
<1>8. misrouted \in BOOLEAN /\ 0 \in 0..MaxWrites
  BY RecordsAssumption DEF SealInv, TypeOK
<1>9. Honest(E[wrap]) /\ (~misrouted => Placed(wrap, E[wrap], members', shared'))
  BY <1>2, <1>3, <1>5, <1>8, WrapInPlace
<1>10. ASSUME NEW s \in texts
       PROVE  Honest(E[s]) /\ (~misrouted => Placed(s, E[s], members', shared'))
  <2>1. CASE s.slot \in FileFields
    <3>1. E[s] = encrypt(Plaintext(wrap, 0), s, 0) /\ KeyOf(s) = wrap /\ s \in Fields
      BY <1>4, <1>5, <2>1
    <3> QED BY <1>7, <1>8, <3>1, TextInPlace
  <2>2. CASE s.slot \notin FileFields
    <3>1. E[s] = encrypt(key, s, 0) /\ KeyOf(s) = VaultKeyOf(VaultOf[ItemOf[a]]) /\ s \in Fields
      BY <1>4, <1>5, <2>2
    <3> QED BY <1>2, <1>8, <3>1, TextInPlace
  <2> QED BY <2>1, <2>2
<1>11. members' = members /\ shared' = shared /\ writes' = writes
  BY DEF PutAttachment
<1>12. /\ members' \in [Vaults -> SUBSET Identities] /\ shared' \in [Items -> SUBSET Identities]
       /\ writes' \in 0..MaxWrites
  BY <1>11 DEF SealInv, TypeOK
<1>13. DOMAIN E \subseteq Places
  BY <1>3, <1>4, <1>5 DEF Places
<1>14. /\ \A s \in DOMAIN E : Honest(E[s])
       /\ \A s \in DOMAIN E : ~misrouted => Placed(s, E[s], members', shared')
  BY <1>5, <1>9, <1>10
<1> QED BY <1>6, <1>11, <1>12, <1>13, <1>14, PutKeeps

\* A new text under the key that was unwrapped for its field.
LEMMA WriteKeeps ==
  ASSUME SealInv, NEW p \in Identities, NEW s \in VaultKeyed \cup Bodies, Write(p, s)
  PROVE  SealInv'
<1>1. PICK key \in IF s \in Bodies THEN unwrap_key(p, KeyOf(s)) ELSE unwrap_vault_key(p, vault_of(s)) :
        Put([t \in {s} |-> encrypt(key, s, writes + 1)])
  BY DEF Write
<1> DEFINE E == [t \in {s} |-> encrypt(key, s, writes + 1)]
<1>2. s \in Fields /\ s \in Sealable /\ s \in Places
  BY DEF Fields, Sealable, Places
<1>3. key \in Plaintexts(KeyPlaces) /\ (~misrouted => key.for = KeyOf(s))
  <2>1. CASE s \in Bodies
    BY <1>1, <1>2, <2>1, KeyOfField, KeyUnwrapped
  <2>2. CASE s \notin Bodies
    <3>1. vault_of(s) \in Vaults /\ KeyOf(s) = VaultKeyOf(vault_of(s))
      BY <1>2, <2>2, KeyOfField
    <3>2. key \in unwrap_vault_key(p, vault_of(s))
      BY <1>1, <2>2
    <3> QED BY <3>1, <3>2, VaultKeyUnwrapped
  <2> QED BY <2>1, <2>2
<1>4. writes' = writes + 1 /\ writes' \in 0..MaxWrites /\ members' = members /\ shared' = shared
  BY RecordsAssumption DEF Write, SealInv, TypeOK
<1>5. DOMAIN E = {s} /\ E[s] = encrypt(key, s, writes + 1) /\ Put(E)
  BY <1>1
<1> HIDE DEF E
<1>6. Honest(E[s]) /\ (~misrouted => Placed(s, E[s], members', shared'))
  BY <1>2, <1>3, <1>4, <1>5, TextInPlace DEF SealInv, TypeOK
<1>7. members' \in [Vaults -> SUBSET Identities] /\ shared' \in [Items -> SUBSET Identities]
  BY <1>4 DEF SealInv, TypeOK
<1> QED BY <1>2, <1>4, <1>5, <1>6, <1>7, PutKeeps

\* Two places of the service are exchanged; a box among them is recorded.
LEMMA MixUpKeeps ==
  ASSUME SealInv, NEW s \in Places, NEW t \in Places, MixUp(s, t)
  PROVE  SealInv'
<1>1. store \in [Places -> Envelopes \cup {None}] /\ s # t
  BY DEF SealInv, TypeOK, MixUp
<1>2. /\ store'[s] = store[t] /\ store'[t] = store[s]
      /\ \A r \in Places \ {s, t} : store'[r] = store[r]
      /\ store' \in [Places -> Envelopes \cup {None}]
  BY <1>1 DEF MixUp
<1>3. TypeOK'
  <2>1. mixUps' \in 0..MaxMixUps
    BY RecordsAssumption DEF MixUp, SealInv, TypeOK
  <2>2. misrouted' \in BOOLEAN
    BY DEF MixUp
  <2>3. writes' = writes /\ members' = members /\ shared' = shared
    BY DEF MixUp
  <2> QED BY <1>2, <2>1, <2>2, <2>3 DEF TypeOK, SealInv
<1>4. StoreHonest'
  BY <1>2 DEF StoreHonest, SealInv
<1>5. StorePlaced'
  <2> SUFFICES ASSUME ~misrouted', NEW r \in Places, store'[r] # None
               PROVE  Placed(r, store'[r], members', shared')
    BY DEF StorePlaced
  <2>1. ~misrouted /\ s \notin Boxes /\ t \notin Boxes /\ members' = members /\ shared' = shared
    BY DEF MixUp
  <2>2. \A x \in Places : store[x] = None \/ Placed(x, store[x], members, shared)
    BY <2>1 DEF SealInv, StorePlaced
  <2>3. CASE r \notin {s, t}
    BY <1>2, <2>1, <2>2, <2>3
  <2>4. CASE r = s
    <3>1. Placed(t, store[t], members, shared) /\ store'[r] = store[t]
      BY <1>2, <2>2, <2>4
    <3>2. r \in Sealable
      BY <2>1, <2>4 DEF Places, Sealable
    <3> QED BY <2>1, <3>1, <3>2 DEF Placed
  <2>5. CASE r = t
    <3>1. Placed(s, store[s], members, shared) /\ store'[r] = store[s]
      BY <1>2, <2>2, <2>5
    <3>2. r \in Sealable
      BY <2>1, <2>5 DEF Places, Sealable
    <3> QED BY <2>1, <3>1, <3>2 DEF Placed
  <2> QED BY <2>3, <2>4, <2>5
<1> QED BY <1>3, <1>4, <1>5 DEF SealInv

\* Every step keeps the invariant.
LEMMA StepSeals == ASSUME SealInv, [Next]_vars PROVE SealInv'
<1>1. CASE UNCHANGED vars
  BY <1>1 DEF vars, SealInv, TypeOK, StoreHonest, StorePlaced
<1>2. CASE Next
  BY <1>2, CreateVaultKeeps, AddMemberKeeps, CreateItemKeeps, ShareItemKeeps, PutAttachmentKeeps,
     WriteKeeps, MixUpKeeps DEF Next
<1> QED BY <1>1, <1>2

\* The invariant holds always.
LEMMA SealsHold == Spec => []SealInv
<1>1. Init => SealInv
  BY InitSeals
<1>2. SealInv /\ [Next]_vars => SealInv'
  BY StepSeals
<1> QED BY <1>1, <1>2, PTL DEF Spec

-----------------------------------------------------------------------------
(* Theorems.                                                               *)

\* The operations are type correct: boxes hold keys and texts are sealed under
\* keys, although members use whatever they unwrap from confused wraps.
THEOREM RecordTypes == Spec => []TypeOK
<1>1. SealInv => TypeOK
  BY DEF SealInv
<1> QED BY <1>1, SealsHold, PTL

\* A key or a text that opens at a place was sealed for this place.
LEMMA HonestReads == ASSUME SealInv PROVE ReadsAuthentic
<1>1. ASSUME NEW p \in Identities, NEW s \in Fields, NEW x \in decrypt(p, s) PROVE x.for = s
  <2>1. PICK k : x = xchacha20_decrypt_with_aad(k, store[s], aad(s)) /\ x # None
    BY DEF decrypt
  <2>2. s \in Sealable
    BY DEF Sealable
  <2> QED BY <2>1, <2>2, OpensOnlyItsOwn
<1>2. ASSUME NEW p \in Identities, NEW s \in Wraps, NEW x \in unwrap_key(p, s) PROVE x.for = s
  BY KeyUnwrapped
<1> QED BY <1>1, <1>2 DEF ReadsAuthentic

\* However often the service confuses envelopes, sealed boxes included, what
\* opens at a place was sealed for it (the associated data of item.rs, vault.rs
\* and attachment.rs).
THEOREM ReadsAreAuthentic == Spec => []ReadsAuthentic
<1>1. SealInv => ReadsAuthentic
  BY HonestReads
<1> QED BY <1>1, SealsHold, PTL

\* What an identity may learn.
Allowed(p, s) ==
  \/ p \in members[vault_of(s)]
  \/ s.slot \in {"body", "content_key"} /\ p \in shared[s.ids[1]]

\* Who may learn the key of a place may learn the place.
LEMMA KeysLeadToOwn ==
  ASSUME NEW p, NEW s \in Sealable, Allowed(p, KeyOf(s))
  PROVE  Allowed(p, s)
<1>1. CASE s \in VaultKeyed \cup Wraps
  <2>1. KeyOf(s) = VaultKeyOf(vault_of(s))
    BY <1>1, KeyOfField
  <2>2. vault_of(KeyOf(s)) = vault_of(s) /\ KeyOf(s).slot = "vault"
    BY <2>1 DEF VaultKeyOf, vault_of, Place
  <2> QED BY <2>2 DEF Allowed
<1>2. CASE s \in Bodies
  <2>1. KeyOf(s) = Place("content_key", s.ids) /\ s.slot = "body"
    BY <1>2, KeyOfField, SlotsApart
  <2>2. vault_of(KeyOf(s)) = vault_of(s) /\ KeyOf(s).ids = s.ids
    BY <2>1 DEF vault_of, Place, VaultFields, MailFields
  <2> QED BY <2>1, <2>2 DEF Allowed
<1>3. CASE s \in FileKeyed
  <2>1. KeyOf(s) = Place("wrapped_key", s.ids) /\ s.slot \in FileFields
    BY <1>3, KeyOfField, SlotsApart
  <2>2. vault_of(KeyOf(s)) = vault_of(s) /\ KeyOf(s).slot = "wrapped_key"
    BY <2>1 DEF vault_of, Place, VaultFields, MailFields, FileFields
  <2> QED BY <2>2 DEF Allowed
<1> QED BY <1>1, <1>2, <1>3 DEF Sealable, Fields

\* One more layer of envelopes leads to nothing else.
LEMMA OpenedAllowed ==
  ASSUME SealInv, ~misrouted, NEW p \in Identities, NEW keys, \A k \in keys : Allowed(p, k.for)
  PROVE  \A x \in OpenedWith(keys) : Allowed(p, x.for)
<1> SUFFICES ASSUME NEW t \in Places, store[t] # None, store[t].tag = "AeadXChaCha", store[t].key \in keys
             PROVE  Allowed(p, store[t].pt.for)
  BY DEF OpenedWith, decode_expecting
<1>1. store[t].key.for = KeyOf(store[t].pt.for)
  BY DEF SealInv, StorePlaced, Placed
<1>2. store[t].pt.for \in Sealable
  <2>1. Honest(store[t])
    BY DEF SealInv, StoreHonest
  <2>2. store[t].pt \in Plaintexts(Sealable)
    BY <2>1, HonestParts
  <2> QED BY <2>2 DEF Plaintexts
<1> QED BY <1>1, <1>2, KeysLeadToOwn

\* The boxes of an identity hold what it was given.
LEMMA BoxedAllowed ==
  ASSUME SealInv, ~misrouted, NEW p \in Identities
  PROVE  \A x \in Boxed(p) : Allowed(p, x.for)
<1> SUFFICES ASSUME NEW t \in Places, unseal(p, store[t]) # None
             PROVE  Allowed(p, store[t].pt.for)
  BY DEF Boxed
<1>1. store[t] # None /\ store[t].tag = "SealedBox" /\ store[t].key = p
  BY DEF unseal, decode_expecting
<1>2. Placed(t, store[t], members, shared)
  BY <1>1 DEF SealInv, StorePlaced
<1>3. CASE t.slot = "member" /\ store[t].pt.for = VaultKeyOf(t.ids[2]) /\ p \in members[t.ids[2]]
  <2>1. vault_of(VaultKeyOf(t.ids[2])) = t.ids[2]
    BY DEF vault_of, VaultKeyOf, Place
  <2> QED BY <1>3, <2>1 DEF Allowed
<1>4. CASE store[t].pt.for = Place("content_key", <<t.ids[2]>>) /\ p \in shared[t.ids[2]]
  BY <1>4 DEF Allowed, Place
<1> QED BY <1>1, <1>2, <1>3, <1>4 DEF Placed

\* Three layers: boxes, wraps, texts.
LEMMA ConfinedShares == ASSUME SealInv PROVE SharesConfined
<1> SUFFICES ASSUME ~misrouted, NEW p \in Identities, NEW x \in Learned(p)
             PROVE  Allowed(p, x.for)
  BY DEF SharesConfined, Allowed
<1> DEFINE first == Boxed(p)
           second == first \cup OpenedWith(first)
<1>1. \A k \in first : Allowed(p, k.for)
  BY BoxedAllowed
<1>2. \A k \in second : Allowed(p, k.for)
  <2>1. \A k \in OpenedWith(first) : Allowed(p, k.for)
    BY <1>1, OpenedAllowed
  <2> QED BY <1>1, <2>1
<1>3. \A k \in OpenedWith(second) : Allowed(p, k.for)
  BY <1>2, OpenedAllowed
<1>4. x \in second \cup OpenedWith(second)
  BY DEF Learned
<1> QED BY <1>2, <1>3, <1>4

\* A share gives the content key and the body of one item: while boxes are
\* delivered to their places, an identity learns nothing outside the vaults it
\* is a member of and the items shared with it, whatever else the service
\* confuses and whoever works on confused envelopes.
THEOREM SharesAreConfined == Spec => []SharesConfined
<1>1. SealInv => SharesConfined
  BY ConfinedShares
<1> QED BY <1>1, SealsHold, PTL

-----------------------------------------------------------------------------
(* Reading.  As long as nothing was confused, every key is the one that was *)
(* drawn first for its place, and everything is sealed under it.           *)

Current(t, b, m, sh) ==
  /\ \A p \in Identities, v \in Vaults : t = Place("member", <<p, v>>) =>
       b = IF p \in m[v] THEN seal(p, Plaintext(VaultKeyOf(v), 0)) ELSE None
  /\ \A p \in Identities, i \in Items : t = Place("share", <<p, i>>) =>
       b = IF p \in sh[i] THEN seal(p, Plaintext(Place("content_key", <<i>>), 0)) ELSE None
  /\ t \in Wraps =>
       b = None \/ b = wrap_key(Plaintext(VaultKeyOf(vault_of(t)), 0), t, Plaintext(t, 0))
  /\ t \in Fields =>
       b = None \/ \E n \in 0..MaxWrites : b = encrypt(Plaintext(KeyOf(t), 0), t, n)

\* The key of a body or a file is stored with it.
KeysStored == \A s \in Bodies \cup FileKeyed : store[s] # None => store[KeyOf(s)] # None

StoreCurrent == \A t \in Places : Current(t, store[t], members, shared)

ReadInv == mixUps = 0 => StoreCurrent /\ KeysStored

\* An envelope is not an error.
LEMMA HonestNotNone == ASSUME NEW b, Honest(b) PROVE b # None
BY NoneAssumption DEF Honest

\* Nor is a drawn key or text.
LEMMA DrawnNotNone ==
  ASSUME NEW s \in KeyPlaces \cup Fields, NEW n \in 0..MaxWrites
  PROVE  Plaintext(s, n) # None
BY NoneAssumption DEF Plaintexts, Plaintext

\* The one key in the box of a member.
LEMMA CurrentVaultKey ==
  ASSUME StoreCurrent, NEW p \in Identities, NEW v \in Vaults
  PROVE  unwrap_vault_key(p, v) = IF p \in members[v] THEN {Plaintext(VaultKeyOf(v), 0)} ELSE {}
<1> DEFINE t == Place("member", <<p, v>>)
<1>1. t \in Places
  BY DEF Places, Boxes
<1>2. store[t] = IF p \in members[v] THEN seal(p, Plaintext(VaultKeyOf(v), 0)) ELSE None
  BY <1>1 DEF StoreCurrent, Current
<1>3. Plaintext(VaultKeyOf(v), 0) # None /\ Honest(seal(p, Plaintext(VaultKeyOf(v), 0)))
  <2>1. VaultKeyOf(v) \in KeyPlaces
    BY DEF KeyPlaces
  <2>2. Plaintext(VaultKeyOf(v), 0) \in Plaintexts(KeyPlaces)
    BY <2>1, DrawnTyped, RecordsAssumption
  <2> QED BY <2>1, <2>2, BoxingIsHonest, DrawnNotNone, RecordsAssumption
<1>4. seal(p, Plaintext(VaultKeyOf(v), 0)) # None
  BY <1>3, HonestNotNone
<1> HIDE DEF t
<1>5. unwrap_vault_key(p, v) = {unseal(p, store[t])} \ {None}
  BY DEF unwrap_vault_key, t
<1>6. CASE p \in members[v]
  <2>1. unseal(p, store[t]) = Plaintext(VaultKeyOf(v), 0)
    BY <1>2, <1>4, <1>6 DEF unseal, decode_expecting, seal
  <2> QED BY <1>3, <1>5, <1>6, <2>1
<1>7. CASE p \notin members[v]
  <2>1. unseal(p, store[t]) = None
    BY <1>2, <1>7 DEF unseal, decode_expecting
  <2> QED BY <1>5, <1>7, <2>1
<1> QED BY <1>6, <1>7

\* The one key in a wrap.
LEMMA CurrentKey ==
  ASSUME StoreCurrent, NEW p \in Identities, NEW w \in Wraps
  PROVE  /\ \A key \in unwrap_key(p, w) : key = Plaintext(w, 0) /\ store[w] # None
         /\ p \in members[vault_of(w)] /\ store[w] # None => Plaintext(w, 0) \in unwrap_key(p, w)
<1>1. w \in Places /\ w \in Sealable /\ w \in KeyPlaces
  BY DEF Places, Sealable, KeyPlaces
<1>2. vault_of(w) \in Vaults
  BY <1>1, KeyOfField
<1>3. store[w] = None \/ store[w] = wrap_key(Plaintext(VaultKeyOf(vault_of(w)), 0), w, Plaintext(w, 0))
  BY <1>1 DEF StoreCurrent, Current
<1>4. ASSUME NEW key \in unwrap_key(p, w) PROVE key = Plaintext(w, 0) /\ store[w] # None
  <2>1. PICK k : key = xchacha20_decrypt_with_aad(k, store[w], aad(w)) /\ key # None
    BY DEF unwrap_key
  <2>2. store[w] # None /\ key = store[w].pt
    BY <2>1 DEF xchacha20_decrypt_with_aad, decode_expecting
  <2> QED BY <1>3, <2>2 DEF wrap_key, xchacha20_encrypt_with_aad
<1>5. ASSUME p \in members[vault_of(w)], store[w] # None PROVE Plaintext(w, 0) \in unwrap_key(p, w)
  <2> DEFINE k == Plaintext(VaultKeyOf(vault_of(w)), 0)
  <2>1. k \in unwrap_vault_key(p, vault_of(w))
    BY <1>2, <1>5, CurrentVaultKey
  <2>2. Plaintext(w, 0) # None
    BY <1>1, DrawnNotNone, RecordsAssumption
  <2>3. store[w] = wrap_key(k, w, Plaintext(w, 0))
    BY <1>3, <1>5
  <2> HIDE DEF k
  <2>4. xchacha20_decrypt_with_aad(k, store[w], aad(w)) = Plaintext(w, 0)
    BY <2>3, <1>5 DEF wrap_key, xchacha20_decrypt_with_aad, xchacha20_encrypt_with_aad, decode_expecting
  <2> QED BY <2>1, <2>2, <2>4 DEF unwrap_key
<1> QED BY <1>4, <1>5

\* Nothing is stored and nobody has a key at first.
LEMMA InitReads == ASSUME Init PROVE ReadInv
<1>1. \A t \in Places : store[t] = None
  BY DEF Init
<1>2. (\A v \in Vaults : members[v] = {}) /\ (\A i \in Items : shared[i] = {})
  BY DEF Init
<1>3. StoreCurrent
  BY <1>1, <1>2 DEF StoreCurrent, Current
<1>4. KeysStored
  BY <1>1 DEF KeysStored, Places, Fields
<1> QED BY <1>3, <1>4 DEF ReadInv

\* The envelopes of an operation keep what they do not touch current.
LEMMA PutReads ==
  ASSUME SealInv, StoreCurrent, KeysStored, NEW E, Put(E), DOMAIN E \subseteq Places,
         \A s \in DOMAIN E : E[s] # None /\ Current(s, E[s], members', shared'),
         \A q \in Identities, v \in Vaults :
           Place("member", <<q, v>>) \in DOMAIN E \/ (q \in members'[v] <=> q \in members[v]),
         \A q \in Identities, i \in Items :
           Place("share", <<q, i>>) \in DOMAIN E \/ (q \in shared'[i] <=> q \in shared[i]),
         \A s \in DOMAIN E \cap (Bodies \cup FileKeyed) : KeyOf(s) \in DOMAIN E \/ store[KeyOf(s)] # None
  PROVE  StoreCurrent' /\ KeysStored'
<1>1. \A s \in Places : store'[s] = IF s \in DOMAIN E THEN E[s] ELSE store[s]
  BY DEF Put
<1>2. StoreCurrent'
  <2> SUFFICES ASSUME NEW t \in Places PROVE Current(t, store'[t], members', shared')
    BY DEF StoreCurrent
  <2>1. CASE t \in DOMAIN E
    BY <1>1, <2>1
  <2>2. CASE t \notin DOMAIN E
    <3>1. store'[t] = store[t] /\ Current(t, store[t], members, shared)
      BY <1>1, <2>2 DEF StoreCurrent
    <3>2. \A q \in Identities, v \in Vaults :
            t = Place("member", <<q, v>>) => (q \in members'[v] <=> q \in members[v])
      BY <2>2
    <3>3. \A q \in Identities, i \in Items :
            t = Place("share", <<q, i>>) => (q \in shared'[i] <=> q \in shared[i])
      BY <2>2
    <3> QED BY <3>1, <3>2, <3>3 DEF Current
  <2> QED BY <2>1, <2>2
<1>3. KeysStored'
  <2> SUFFICES ASSUME NEW s \in Bodies \cup FileKeyed, store'[s] # None PROVE store'[KeyOf(s)] # None
    BY DEF KeysStored
  <2>1. s \in Places /\ KeyOf(s) \in Places
    <3>1. s \in Sealable
      BY DEF Sealable, Fields
    <3>2. KeyOf(s) \in Wraps
      BY <3>1, KeyOfField
    <3> QED BY <3>1, <3>2 DEF Places, Sealable
  <2>2. KeyOf(s) \in DOMAIN E \/ store[KeyOf(s)] # None
    BY <1>1, <2>1 DEF KeysStored
  <2> QED BY <1>1, <2>1, <2>2
<1> QED BY <1>2, <1>3

\* What operations put is current.
LEMMA TextCurrent ==
  ASSUME NEW s \in Fields, NEW n \in 0..MaxWrites, NEW m, NEW sh
  PROVE  LET b == encrypt(Plaintext(KeyOf(s), 0), s, n) IN b # None /\ Current(s, b, m, sh)
<1> DEFINE b == encrypt(Plaintext(KeyOf(s), 0), s, n)
<1>1. s \in Sealable
  BY DEF Sealable
<1>2. s \notin Boxes /\ s \notin Wraps
  BY <1>1, SealableNotBox, SlotsApart DEF Fields, VaultFields, MailFields, ItemFields,
     AttachmentFields, FileFields
<1>3. KeyOf(s) \in KeyPlaces
  BY <1>1, KeyOfField DEF KeyPlaces, Fields
<1>4. Plaintext(KeyOf(s), 0) \in Plaintexts(KeyPlaces) /\ Plaintext(KeyOf(s), 0).for = KeyOf(s)
  BY <1>3, DrawnTyped, RecordsAssumption
<1>5. b # None
  BY <1>4, TextInPlace, HonestNotNone
<1> HIDE DEF b
<1>6. \A p \in Identities : /\ \A v \in Vaults : s # Place("member", <<p, v>>)
                            /\ \A i \in Items : s # Place("share", <<p, i>>)
  BY <1>2 DEF Boxes
<1>7. \E k \in 0..MaxWrites : b = encrypt(Plaintext(KeyOf(s), 0), s, k)
  BY DEF b
<1>8. Current(s, b, m, sh)
  BY <1>2, <1>6, <1>7 DEF Current
<1> QED BY <1>5, <1>8 DEF b

\* So is a wrap,
LEMMA WrapCurrent ==
  ASSUME NEW w \in Wraps, NEW m, NEW sh
  PROVE  LET b == wrap_key(Plaintext(VaultKeyOf(vault_of(w)), 0), w, Plaintext(w, 0))
         IN  b # None /\ Current(w, b, m, sh)
<1> DEFINE b == wrap_key(Plaintext(VaultKeyOf(vault_of(w)), 0), w, Plaintext(w, 0))
<1>1. w \in Sealable
  BY DEF Sealable
<1>2. w \notin Boxes /\ w \notin Fields
  BY <1>1, SealableNotBox, SlotsApart DEF Fields, VaultFields, MailFields, ItemFields,
     AttachmentFields, FileFields
<1>3. VaultKeyOf(vault_of(w)) \in KeyPlaces
  BY <1>1, KeyOfField DEF KeyPlaces
<1>4. /\ Plaintext(VaultKeyOf(vault_of(w)), 0) \in Plaintexts(KeyPlaces)
      /\ Plaintext(VaultKeyOf(vault_of(w)), 0).for = VaultKeyOf(vault_of(w))
  BY <1>3, DrawnTyped, RecordsAssumption
<1>5. b # None
  BY <1>4, WrapInPlace, HonestNotNone
<1> HIDE DEF b
<1>6. \A p \in Identities : /\ \A v \in Vaults : w # Place("member", <<p, v>>)
                            /\ \A i \in Items : w # Place("share", <<p, i>>)
  BY <1>2 DEF Boxes
<1>7. Current(w, b, m, sh)
  BY <1>2, <1>6 DEF Current, b
<1> QED BY <1>5, <1>7 DEF b

\* and so are the boxes of members and recipients.
LEMMA BoxCurrent ==
  ASSUME NEW p \in Identities, NEW m, NEW sh
  PROVE  /\ \A v \in Vaults : p \in m[v] =>
              LET b == seal(p, Plaintext(VaultKeyOf(v), 0))
              IN  b # None /\ Current(Place("member", <<p, v>>), b, m, sh)
         /\ \A i \in Items : p \in sh[i] =>
              LET b == seal(p, Plaintext(Place("content_key", <<i>>), 0))
              IN  b # None /\ Current(Place("share", <<p, i>>), b, m, sh)
<1>1. ASSUME NEW key \in KeyPlaces PROVE seal(p, Plaintext(key, 0)) # None
  <2>1. Plaintext(key, 0) \in Plaintexts(KeyPlaces)
    BY DrawnTyped, RecordsAssumption
  <2> QED BY <2>1, BoxingIsHonest, HonestNotNone
<1>2. ASSUME NEW t \in Boxes PROVE t \notin Wraps /\ t \notin Fields
  BY SealableNotBox DEF Sealable
<1>3. ASSUME NEW v \in Vaults, p \in m[v]
      PROVE  LET b == seal(p, Plaintext(VaultKeyOf(v), 0))
             IN  b # None /\ Current(Place("member", <<p, v>>), b, m, sh)
  <2> DEFINE t == Place("member", <<p, v>>)
  <2>1. t \in Boxes /\ VaultKeyOf(v) \in KeyPlaces
    BY DEF Boxes, KeyPlaces
  <2>2. /\ \A q \in Identities, u \in Vaults : t = Place("member", <<q, u>>) => q = p /\ u = v
        /\ \A q \in Identities, i \in Items : t # Place("share", <<q, i>>)
    BY DEF Place
  <2> HIDE DEF t
  <2>3. Current(t, seal(p, Plaintext(VaultKeyOf(v), 0)), m, sh)
    BY <1>2, <1>3, <2>1, <2>2 DEF Current
  <2> QED BY <1>1, <2>1, <2>3 DEF t
<1>4. ASSUME NEW i \in Items, p \in sh[i]
      PROVE  LET b == seal(p, Plaintext(Place("content_key", <<i>>), 0))
             IN  b # None /\ Current(Place("share", <<p, i>>), b, m, sh)
  <2> DEFINE t == Place("share", <<p, i>>)
             key == Place("content_key", <<i>>)
  <2>1. t \in Boxes /\ key \in KeyPlaces
    BY DEF Boxes, KeyPlaces, Wraps
  <2>2. /\ \A q \in Identities, j \in Items :
             t = Place("share", <<q, j>>) => q = p /\ Place("content_key", <<j>>) = key
        /\ \A q \in Identities, j \in Items : t = Place("share", <<q, j>>) => j = i
        /\ \A q \in Identities, v \in Vaults : t # Place("member", <<q, v>>)
    BY DEF Place
  <2> HIDE DEF t, key
  <2>3. Current(t, seal(p, Plaintext(key, 0)), m, sh)
    BY <1>2, <1>4, <2>1, <2>2 DEF Current
  <2> QED BY <1>1, <2>1, <2>3 DEF t, key
<1> QED BY <1>3, <1>4

\* The creator of a vault becomes its first member.
LEMMA CreateVaultReads ==
  ASSUME SealInv, StoreCurrent, KeysStored, NEW p \in Identities, NEW v \in Vaults, CreateVault(p, v)
  PROVE  StoreCurrent' /\ KeysStored'
<1> DEFINE key == Plaintext(VaultKeyOf(v), 0)
           box == Place("member", <<p, v>>)
           texts == {Place(f, <<v>>) : f \in VaultFields}
           E == [s \in {box} \cup texts |-> IF s = box THEN seal(p, key) ELSE encrypt(key, s, 0)]
<1>1. DOMAIN E = {box} \cup texts /\ Put(E) /\ E[box] = seal(p, key)
  BY DEF CreateVault
<1>2. \A s \in texts : /\ s # box /\ KeyOf(s) = VaultKeyOf(v) /\ s \in Fields
                       /\ s \notin Bodies \cup FileKeyed
  <2> SUFFICES ASSUME NEW f \in VaultFields, NEW s, s = Place(f, <<v>>)
               PROVE  /\ s # box /\ KeyOf(s) = VaultKeyOf(v) /\ s \in Fields
                      /\ s \notin Bodies \cup FileKeyed
    OBVIOUS
  <2>1. s # box /\ s.slot = f
    BY DEF Place, VaultFields
  <2>2. KeyOf(s) = VaultKeyOf(v)
    BY DEF KeyOf, vault_of, Place, VaultFields, FileFields
  <2>3. s \in Fields
    BY DEF Fields, VaultKeyed
  <2>4. s \notin Bodies \cup FileKeyed
    BY <2>1, SlotsApart DEF VaultFields, FileFields
  <2> QED BY <2>1, <2>2, <2>3, <2>4
<1>3. \A s \in texts : E[s] = encrypt(key, s, 0)
  <2> HIDE DEF texts, box, key
  <2> QED BY <1>2
<1>4. box \in Boxes /\ box \notin Bodies \cup FileKeyed
  <2>1. box \in Boxes
    BY DEF Boxes
  <2> QED BY <2>1, SealableNotBox DEF Sealable, Fields
<1>5. /\ p \in members'[v] /\ shared' = shared
      /\ \A q \in Identities, u \in Vaults :
           Place("member", <<q, u>>) = box \/ (q \in members'[u] <=> q \in members[u])
  <2>1. members' = [members EXCEPT ![v] = {p}] /\ members[v] = {} /\ shared' = shared
    BY DEF CreateVault
  <2>2. members \in [Vaults -> SUBSET Identities]
    BY DEF SealInv, TypeOK
  <2>3. ASSUME NEW q \in Identities, NEW u \in Vaults, ~(q \in members'[u] <=> q \in members[u])
        PROVE  Place("member", <<q, u>>) = box
    <3>1. u = v /\ q = p
      BY <2>1, <2>2, <2>3
    <3> QED BY <3>1
  <2> QED BY <2>1, <2>2, <2>3
<1>6. E[box] # None /\ Current(box, E[box], members', shared')
  BY <1>1, <1>5, BoxCurrent
<1> HIDE DEF E, texts, box
<1>7. \A s \in texts : E[s] # None /\ Current(s, E[s], members', shared')
  BY <1>2, <1>3, TextCurrent, RecordsAssumption
<1>8. DOMAIN E \subseteq Places
  BY <1>1, <1>2, <1>4 DEF Places
<1>9. \A s \in DOMAIN E : E[s] # None /\ Current(s, E[s], members', shared')
  BY <1>1, <1>6, <1>7
<1>10. \A q \in Identities, u \in Vaults :
         Place("member", <<q, u>>) \in DOMAIN E \/ (q \in members'[u] <=> q \in members[u])
  BY <1>1, <1>5
<1>11. \A s \in DOMAIN E \cap (Bodies \cup FileKeyed) : FALSE
  BY <1>1, <1>2, <1>4
<1> QED BY <1>1, <1>5, <1>8, <1>9, <1>10, <1>11, PutReads

\* The new member gets the one vault key there is.
LEMMA AddMemberReads ==
  ASSUME SealInv, StoreCurrent, KeysStored,
         NEW p \in Identities, NEW q \in Identities, NEW v \in Vaults, AddMember(p, q, v)
  PROVE  StoreCurrent' /\ KeysStored'
<1> DEFINE box == Place("member", <<q, v>>)
           key == Plaintext(VaultKeyOf(v), 0)
           E == [s \in {box} |-> seal(q, key)]
<1>1. Put(E)
  BY CurrentVaultKey DEF AddMember
<1>2. DOMAIN E = {box} /\ E[box] = seal(q, key)
  OBVIOUS
<1>3. box \in Boxes /\ box \notin Bodies \cup FileKeyed
  <2>1. box \in Boxes
    BY DEF Boxes
  <2> QED BY <2>1, SealableNotBox DEF Sealable, Fields
<1>4. /\ q \in members'[v] /\ shared' = shared
      /\ \A r \in Identities, u \in Vaults :
           Place("member", <<r, u>>) = box \/ (r \in members'[u] <=> r \in members[u])
  <2>1. members' = [members EXCEPT ![v] = @ \cup {q}] /\ shared' = shared
    BY DEF AddMember
  <2>2. members \in [Vaults -> SUBSET Identities]
    BY DEF SealInv, TypeOK
  <2>3. ASSUME NEW r \in Identities, NEW u \in Vaults, ~(r \in members'[u] <=> r \in members[u])
        PROVE  Place("member", <<r, u>>) = box
    <3>1. u = v /\ r = q
      BY <2>1, <2>2, <2>3
    <3> QED BY <3>1
  <2> QED BY <2>1, <2>2, <2>3
<1>5. E[box] # None /\ Current(box, E[box], members', shared')
  BY <1>2, <1>4, BoxCurrent
<1> HIDE DEF E, key, box
<1>6. DOMAIN E \subseteq Places
  BY <1>2, <1>3 DEF Places
<1>7. /\ \A s \in DOMAIN E : E[s] # None /\ Current(s, E[s], members', shared')
      /\ \A s \in DOMAIN E \cap (Bodies \cup FileKeyed) : FALSE
  BY <1>2, <1>3, <1>5
<1>8. \A r \in Identities, u \in Vaults :
         Place("member", <<r, u>>) \in DOMAIN E \/ (r \in members'[u] <=> r \in members[u])
  BY <1>2, <1>4
<1> QED BY <1>1, <1>4, <1>6, <1>7, <1>8, PutReads

\* The recipient gets the one content key there is.
LEMMA ShareItemReads ==
  ASSUME SealInv, StoreCurrent, KeysStored,
         NEW p \in Identities, NEW q \in Identities, NEW i \in Items, ShareItem(p, q, i)
  PROVE  StoreCurrent' /\ KeysStored'
<1> DEFINE box == Place("share", <<q, i>>)
           wrap == Place("content_key", <<i>>)
           E == [s \in {box} |-> seal(q, Plaintext(wrap, 0))]
<1>1. Put(E)
  <2>1. wrap \in Wraps
    BY DEF Wraps
  <2>2. PICK key \in unwrap_key(p, wrap) : Put([s \in {box} |-> seal(q, key)])
    BY DEF ShareItem
  <2>3. key = Plaintext(wrap, 0)
    BY <2>1, CurrentKey
  <2> QED BY <2>2, <2>3
<1>2. DOMAIN E = {box} /\ E[box] = seal(q, Plaintext(wrap, 0))
  OBVIOUS
<1>3. box \in Boxes /\ box \notin Bodies \cup FileKeyed
  <2>1. box \in Boxes
    BY DEF Boxes
  <2> QED BY <2>1, SealableNotBox DEF Sealable, Fields
<1>4. /\ q \in shared'[i] /\ members' = members
      /\ \A r \in Identities, j \in Items :
           Place("share", <<r, j>>) = box \/ (r \in shared'[j] <=> r \in shared[j])
  <2>1. shared' = [shared EXCEPT ![i] = @ \cup {q}] /\ members' = members
    BY DEF ShareItem
  <2>2. shared \in [Items -> SUBSET Identities]
    BY DEF SealInv, TypeOK
  <2>3. ASSUME NEW r \in Identities, NEW j \in Items, ~(r \in shared'[j] <=> r \in shared[j])
        PROVE  Place("share", <<r, j>>) = box
    <3>1. j = i /\ r = q
      BY <2>1, <2>2, <2>3
    <3> QED BY <3>1
  <2> QED BY <2>1, <2>2, <2>3
<1>5. E[box] # None /\ Current(box, E[box], members', shared')
  BY <1>2, <1>4, BoxCurrent
<1> HIDE DEF E, wrap, box
<1>6. DOMAIN E \subseteq Places
  BY <1>2, <1>3 DEF Places
<1>7. /\ \A s \in DOMAIN E : E[s] # None /\ Current(s, E[s], members', shared')
      /\ \A s \in DOMAIN E \cap (Bodies \cup FileKeyed) : FALSE
  BY <1>2, <1>3, <1>5
<1>8. \A r \in Identities, j \in Items :
         Place("share", <<r, j>>) \in DOMAIN E \/ (r \in shared'[j] <=> r \in shared[j])
  BY <1>2, <1>4
<1> QED BY <1>1, <1>4, <1>6, <1>7, <1>8, PutReads

\* An item is stored with its wrap.
LEMMA CreateItemReads ==
  ASSUME SealInv, StoreCurrent, KeysStored, NEW p \in Identities, NEW i \in Items, CreateItem(p, i)
  PROVE  StoreCurrent' /\ KeysStored'
<1> DEFINE wrap == Place("content_key", <<i>>)
           texts == {Place(f, <<i>>) : f \in NewTexts(i)}
           key == Plaintext(VaultKeyOf(VaultOf[i]), 0)
           E == [s \in {wrap} \cup texts |->
                   IF s = wrap THEN wrap_key(key, wrap, Plaintext(wrap, 0))
                   ELSE encrypt(IF s.slot = "body" THEN Plaintext(wrap, 0) ELSE key, s, 0)]
<1>1. Put(E)
  <2>1. PICK k \in unwrap_vault_key(p, VaultOf[i]) :
          Put([s \in {wrap} \cup texts |->
                 IF s = wrap THEN wrap_key(k, wrap, Plaintext(wrap, 0))
                 ELSE encrypt(IF s.slot = "body" THEN Plaintext(wrap, 0) ELSE k, s, 0)])
    BY DEF CreateItem
  <2>2. k = key
    BY CurrentVaultKey, RecordsAssumption
  <2> QED BY <2>1, <2>2
<1>2. /\ wrap \in Wraps /\ vault_of(wrap) = VaultOf[i] /\ wrap \notin Bodies \cup FileKeyed
  <2>1. wrap \in Wraps /\ vault_of(wrap) = VaultOf[i] /\ wrap.slot = "content_key"
    BY DEF Wraps, vault_of, Place, VaultFields, MailFields
  <2> QED BY <2>1, SlotsApart DEF FileFields
<1>3. \A s \in texts : /\ s \in Fields /\ s # wrap
                       /\ KeyOf(s) = IF s.slot = "body" THEN wrap ELSE VaultKeyOf(VaultOf[i])
                       /\ s \in Bodies \cup FileKeyed => s.slot = "body"
  <2> SUFFICES ASSUME NEW f \in {"title", "body", "metadata", "tags"}, NEW s, s = Place(f, <<i>>)
               PROVE  /\ s \in Fields /\ s # wrap
                      /\ KeyOf(s) = IF s.slot = "body" THEN wrap ELSE VaultKeyOf(VaultOf[i])
                      /\ s \in Bodies \cup FileKeyed => s.slot = "body"
    BY DEF NewTexts
  <2>1. /\ s \in Fields /\ s # wrap /\ s.slot = f
        /\ KeyOf(s) = IF s.slot = "body" THEN wrap ELSE VaultKeyOf(VaultOf[i])
    BY ItemTexts
  <2>2. s \in Bodies \cup FileKeyed => s.slot = "body"
    BY <2>1, SlotsApart DEF FileFields
  <2> QED BY <2>1, <2>2
<1>4. /\ E[wrap] = wrap_key(key, wrap, Plaintext(wrap, 0)) /\ DOMAIN E = {wrap} \cup texts
      /\ \A s \in texts :
           E[s] = encrypt(IF s.slot = "body" THEN Plaintext(wrap, 0) ELSE key, s, 0)
  <2> HIDE DEF wrap, texts, key
  <2> QED BY <1>3
<1> HIDE DEF E, wrap, texts
<1>5. E[wrap] # None /\ Current(wrap, E[wrap], members', shared')
  BY <1>2, <1>4, WrapCurrent
<1>6. ASSUME NEW s \in texts PROVE E[s] # None /\ Current(s, E[s], members', shared')
  <2>1. E[s] = encrypt(Plaintext(KeyOf(s), 0), s, 0)
    BY <1>3, <1>4
  <2> QED BY <1>3, <2>1, TextCurrent, RecordsAssumption
<1>7. DOMAIN E \subseteq Places
  BY <1>2, <1>3, <1>4 DEF Places
<1>8. \A s \in DOMAIN E : E[s] # None /\ Current(s, E[s], members', shared')
  BY <1>4, <1>5, <1>6
<1>9. \A s \in DOMAIN E \cap (Bodies \cup FileKeyed) : KeyOf(s) \in DOMAIN E
  BY <1>2, <1>3, <1>4
<1>10. members' = members /\ shared' = shared
  BY DEF CreateItem
<1> QED BY <1>1, <1>7, <1>8, <1>9, <1>10, PutReads

\* An attachment is stored with its wrap.
LEMMA PutAttachmentReads ==
  ASSUME SealInv, StoreCurrent, KeysStored,
         NEW p \in Identities, NEW a \in Attachments, PutAttachment(p, a)
  PROVE  StoreCurrent' /\ KeysStored'
<1> DEFINE ids == <<ItemOf[a], a>>
           wrap == Place("wrapped_key", ids)
           texts == {Place(f, ids) : f \in AttachmentFields \cup FileFields}
           key == Plaintext(VaultKeyOf(VaultOf[ItemOf[a]]), 0)
           E == [s \in {wrap} \cup texts |->
                   IF s = wrap THEN wrap_key(key, wrap, Plaintext(wrap, 0))
                   ELSE encrypt(IF s.slot \in FileFields THEN Plaintext(wrap, 0) ELSE key, s, 0)]
<1>1. Put(E)
  <2>1. PICK k \in unwrap_vault_key(p, VaultOf[ItemOf[a]]) :
          Put([s \in {wrap} \cup texts |->
                 IF s = wrap THEN wrap_key(k, wrap, Plaintext(wrap, 0))
                 ELSE encrypt(IF s.slot \in FileFields THEN Plaintext(wrap, 0) ELSE k, s, 0)])
    BY DEF PutAttachment
  <2>2. k = key
    BY CurrentVaultKey, RecordsAssumption
  <2> QED BY <2>1, <2>2
<1>2. wrap \in Wraps /\ vault_of(wrap) = VaultOf[ItemOf[a]] /\ wrap \notin Bodies \cup FileKeyed
  <2>1. wrap \in Wraps /\ vault_of(wrap) = VaultOf[ItemOf[a]] /\ wrap.slot = "wrapped_key"
    BY DEF Wraps, vault_of, Place, VaultFields, MailFields
  <2> QED BY <2>1, SlotsApart DEF FileFields
<1>3. \A s \in texts : /\ s \in Fields /\ s # wrap
                       /\ Plaintext(KeyOf(s), 0) = IF s.slot \in FileFields THEN Plaintext(wrap, 0)
                                                   ELSE key
                       /\ s \in Bodies \cup FileKeyed => KeyOf(s) = wrap
  <2> SUFFICES ASSUME NEW f \in AttachmentFields \cup FileFields, NEW s, s = Place(f, ids)
               PROVE  /\ s \in Fields /\ s # wrap
                      /\ Plaintext(KeyOf(s), 0) = IF s.slot \in FileFields THEN Plaintext(wrap, 0)
                                                  ELSE key
                      /\ s \in Bodies \cup FileKeyed => KeyOf(s) = wrap
    OBVIOUS
  <2>1. s.slot = f /\ s.ids = ids /\ s.ids[1] = ItemOf[a]
    BY DEF Place
  <2>2. s \in Fields
    BY DEF Fields, VaultKeyed, FileKeyed
  <2>3. s # wrap
    BY <2>1 DEF Place, AttachmentFields, FileFields
  <2>4. CASE f \in FileFields
    <3>1. KeyOf(s) = wrap
      BY <2>1, <2>4 DEF KeyOf, FileFields
    <3> QED BY <2>1, <2>2, <2>3, <2>4, <3>1
  <2>5. CASE f \in AttachmentFields
    <3>1. KeyOf(s) = VaultKeyOf(VaultOf[ItemOf[a]])
      BY <2>1, <2>5 DEF KeyOf, vault_of, AttachmentFields, FileFields, VaultFields, MailFields
    <3>2. s.slot \notin FileFields /\ s \notin Bodies \cup FileKeyed
      BY <2>1, <2>5, SlotsApart DEF AttachmentFields, FileFields
    <3> QED BY <2>2, <2>3, <3>1, <3>2
  <2> QED BY <2>4, <2>5
<1>4. /\ E[wrap] = wrap_key(key, wrap, Plaintext(wrap, 0)) /\ DOMAIN E = {wrap} \cup texts
      /\ \A s \in texts : E[s] = encrypt(Plaintext(KeyOf(s), 0), s, 0)
  <2> HIDE DEF wrap, texts, key
  <2> QED BY <1>3
<1>5. E[wrap] # None /\ Current(wrap, E[wrap], members', shared')
  BY <1>2, <1>4, WrapCurrent
<1>6. \A s \in texts : E[s] # None /\ Current(s, E[s], members', shared')
  <2> HIDE DEF texts, wrap, E, key
  <2> QED BY <1>3, <1>4, TextCurrent, RecordsAssumption
<1> HIDE DEF E, wrap, texts, key
<1>7. DOMAIN E \subseteq Places
  BY <1>2, <1>3, <1>4 DEF Places
<1>8. \A s \in DOMAIN E : E[s] # None /\ Current(s, E[s], members', shared')
  BY <1>4, <1>5, <1>6
<1>9. \A s \in DOMAIN E \cap (Bodies \cup FileKeyed) : KeyOf(s) \in DOMAIN E
  BY <1>2, <1>3, <1>4
<1>10. members' = members /\ shared' = shared
  BY DEF PutAttachment
<1> QED BY <1>1, <1>7, <1>8, <1>9, <1>10, PutReads

\* A text is written under the key that was drawn first.
LEMMA WriteReads ==
  ASSUME SealInv, StoreCurrent, KeysStored,
         NEW p \in Identities, NEW s \in VaultKeyed \cup Bodies, Write(p, s)
  PROVE  StoreCurrent' /\ KeysStored'
<1>1. PICK key \in IF s \in Bodies THEN unwrap_key(p, KeyOf(s)) ELSE unwrap_vault_key(p, vault_of(s)) :
        Put([t \in {s} |-> encrypt(key, s, writes + 1)])
  BY DEF Write
<1> DEFINE E == [t \in {s} |-> encrypt(key, s, writes + 1)]
<1>2. s \in Fields /\ s \in Sealable /\ s \in Places
  BY DEF Fields, Sealable, Places
<1>3. key = Plaintext(KeyOf(s), 0) /\ (s \in Bodies => store[KeyOf(s)] # None)
  <2>1. CASE s \in Bodies
    <3>1. KeyOf(s) \in Wraps /\ key \in unwrap_key(p, KeyOf(s))
      BY <1>1, <1>2, <2>1, KeyOfField
    <3> QED BY <3>1, CurrentKey
  <2>2. CASE s \notin Bodies
    <3>1. vault_of(s) \in Vaults /\ KeyOf(s) = VaultKeyOf(vault_of(s))
      BY <1>2, <2>2, KeyOfField
    <3>2. key \in unwrap_vault_key(p, vault_of(s))
      BY <1>1, <2>2
    <3> QED BY <2>2, <3>1, <3>2, CurrentVaultKey
  <2> QED BY <2>1, <2>2
<1>4. s \notin FileKeyed
  BY SlotsApart DEF VaultFields, MailFields, ItemFields, AttachmentFields, FileFields
<1>5. DOMAIN E = {s} /\ E[s] = encrypt(key, s, writes + 1) /\ Put(E)
  BY <1>1
<1> HIDE DEF E
<1>6. writes + 1 \in 0..MaxWrites /\ members' = members /\ shared' = shared
  BY RecordsAssumption DEF Write, SealInv, TypeOK
<1>7. E[s] # None /\ Current(s, E[s], members', shared')
  BY <1>2, <1>3, <1>5, <1>6, TextCurrent
<1> QED BY <1>2, <1>3, <1>4, <1>5, <1>6, <1>7, PutReads

\* Every step keeps things readable, until something is confused.
LEMMA StepReads == ASSUME SealInv, ReadInv, [Next]_vars PROVE ReadInv'
<1>1. CASE UNCHANGED vars
  BY <1>1 DEF vars, ReadInv, StoreCurrent, KeysStored
<1>2. ASSUME NEW s \in Places, NEW t \in Places, MixUp(s, t) PROVE ReadInv'
  <2>1. mixUps' # 0
    BY <1>2, RecordsAssumption DEF MixUp, SealInv, TypeOK
  <2> QED BY <2>1 DEF ReadInv
<1>3. ASSUME NEW p \in Identities,
             \/ \E v \in Vaults : CreateVault(p, v) \/ \E q \in Identities : AddMember(p, q, v)
             \/ \E i \in Items : CreateItem(p, i) \/ \E q \in Identities : ShareItem(p, q, i)
             \/ \E a \in Attachments : PutAttachment(p, a)
             \/ \E s \in VaultKeyed \cup Bodies : s.slot \in Edits /\ Write(p, s)
      PROVE  ReadInv'
  <2>1. mixUps' = mixUps
    BY <1>3 DEF CreateVault, AddMember, CreateItem, ShareItem, PutAttachment, Write, Put
  <2>2. ASSUME mixUps = 0 PROVE StoreCurrent' /\ KeysStored'
    BY <1>3, <2>2, CreateVaultReads, AddMemberReads, CreateItemReads, ShareItemReads,
       PutAttachmentReads, WriteReads DEF ReadInv
  <2> QED BY <2>1, <2>2 DEF ReadInv
<1> QED BY <1>1, <1>2, <1>3 DEF Next

\* What is stored and current opens for everyone who was given its key.
LEMMA CurrentReads == ASSUME SealInv, ReadInv PROVE MembersRead
<1> SUFFICES ASSUME mixUps = 0, NEW p \in Identities, NEW s \in Fields, store[s] # None,
                    p \in members[vault_of(s)] \/ (s \in Bodies /\ p \in shared[s.ids[1]])
             PROVE  decrypt(p, s) # {}
  BY DEF MembersRead
<1>1. StoreCurrent /\ KeysStored
  BY DEF ReadInv
<1>2. s \in Places /\ s \in Sealable
  BY DEF Places, Sealable
<1>3. PICK n \in 0..MaxWrites : store[s] = encrypt(Plaintext(KeyOf(s), 0), s, n)
  BY <1>1, <1>2 DEF StoreCurrent, Current
<1>4. ASSUME Plaintext(KeyOf(s), 0) \in KeysFor(p, s) PROVE decrypt(p, s) # {}
  <2>1. Plaintext(s, n) # None
    BY DrawnNotNone
  <2>2. xchacha20_decrypt_with_aad(Plaintext(KeyOf(s), 0), store[s], aad(s)) = Plaintext(s, n)
    BY <1>3 DEF encrypt, xchacha20_decrypt_with_aad, xchacha20_encrypt_with_aad, decode_expecting
  <2> QED BY <1>4, <2>1, <2>2 DEF decrypt
<1>5. vault_of(s) \in Vaults
  BY <1>2, KeyOfField
<1>6. CASE s \in VaultKeyed
  <2>1. s \notin Bodies /\ s \notin FileKeyed
    BY <1>6, SlotsApart DEF VaultFields, MailFields, ItemFields, AttachmentFields, FileFields
  <2>2. KeysFor(p, s) = unwrap_vault_key(p, vault_of(s)) /\ KeyOf(s) = VaultKeyOf(vault_of(s))
    BY <1>2, <1>6, <2>1, KeyOfField DEF KeysFor
  <2> QED BY <1>1, <1>4, <1>5, <2>1, <2>2, CurrentVaultKey
<1>7. CASE s \in Bodies \cup FileKeyed
  <2>1. KeyOf(s) \in Wraps /\ store[KeyOf(s)] # None
    BY <1>1, <1>2, <1>7, KeyOfField DEF KeysStored
  <2>2. vault_of(KeyOf(s)) = vault_of(s)
    <3>1. \/ KeyOf(s) = Place("content_key", s.ids) /\ s.slot = "body"
          \/ KeyOf(s) = Place("wrapped_key", s.ids) /\ s.slot \in FileFields
      BY <1>2, <1>7, KeyOfField, SlotsApart
    <3> QED BY <3>1 DEF vault_of, Place, VaultFields, MailFields, FileFields
  <2>3. unwrap_key(p, KeyOf(s)) \subseteq KeysFor(p, s)
    <3>1. s \notin VaultKeyed /\ ~(s \in Bodies /\ s \in FileKeyed)
      BY <1>7, SlotsApart DEF VaultFields, MailFields, ItemFields, AttachmentFields, FileFields
    <3> QED BY <1>7, <3>1 DEF KeysFor
  <2>4. CASE p \in members[vault_of(s)]
    <3>1. Plaintext(KeyOf(s), 0) \in unwrap_key(p, KeyOf(s))
      BY <1>1, <2>1, <2>2, <2>4, CurrentKey
    <3> QED BY <1>4, <2>3, <3>1
  <2>5. CASE s \in Bodies /\ p \in shared[s.ids[1]]
    <3>1. PICK i \in Items : s = Place("body", <<i>>)
      BY <2>5 DEF Bodies
    <3>2. s.ids[1] = i /\ KeyOf(s) = Place("content_key", <<i>>)
      BY <3>1 DEF KeyOf, Place, FileFields
    <3>3. KeysFor(p, s) = unwrap_key(p, KeyOf(s)) \cup unwrap_shared_key(p, i)
      <4>1. s \notin VaultKeyed /\ s \notin FileKeyed
        BY <2>5, SlotsApart DEF VaultFields, MailFields, ItemFields, AttachmentFields, FileFields
      <4> QED BY <2>5, <3>2, <4>1 DEF KeysFor
    <3> DEFINE box == Place("share", <<p, i>>)
               key == Plaintext(KeyOf(s), 0)
    <3>4. box \in Places
      BY DEF Places, Boxes
    <3>5. store[box] = seal(p, key)
      BY <1>1, <2>5, <3>2, <3>4 DEF StoreCurrent, Current
    <3>6. KeyOf(s) \in KeyPlaces /\ key \in Plaintexts(KeyPlaces) /\ key # None
      <4>1. KeyOf(s) \in KeyPlaces
        BY <2>1 DEF KeyPlaces
      <4> QED BY <4>1, DrawnTyped, DrawnNotNone, RecordsAssumption
    <3>7. seal(p, key) # None
      BY <3>6, BoxingIsHonest, HonestNotNone
    <3> HIDE DEF box, key
    <3>8. unseal(p, store[box]) = key
      BY <3>5, <3>7 DEF unseal, decode_expecting, seal
    <3>9. key \in unwrap_shared_key(p, i)
      BY <3>6, <3>8 DEF unwrap_shared_key, box
    <3> QED BY <1>4, <3>3, <3>9 DEF key
  <2> QED BY <2>4, <2>5
<1> QED BY <1>6, <1>7 DEF Fields

\* Every member opens everything stored in its vault and every recipient the
\* bodies shared with it, whoever wrote last, before or after they joined.
THEOREM MembersAlwaysRead == Spec => []MembersRead
<1>1. Init => ReadInv
  BY InitReads
<1>2. SealInv /\ ReadInv /\ [Next]_vars => ReadInv'
  BY StepReads
<1>3. SealInv /\ ReadInv => MembersRead
  BY CurrentReads
<1> QED BY <1>1, <1>2, <1>3, SealsHold, PTL DEF Spec
=============================================================================
