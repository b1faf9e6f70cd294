--------------------------- MODULE SealedRecords ---------------------------
(***************************************************************************)
(* Which key seals which field of a vault, an item or an attachment, and   *)
(* what each seal is bound to (protocol/item.rs, protocol/vault.rs and     *)
(* protocol/attachment.rs over aead.rs, kem.rs and wire.rs).  The members  *)
(* of a vault write the fields, share single items, and a service that may *)
(* mix them up keeps them.                                                 *)
(*                                                                         *)
(* Cryptography is symbolic: an envelope opens with the key and the        *)
(* associated data it was sealed with.  A plaintext remembers the place it *)
(* was made for; no code can see that.  Any plaintext may have 32 bytes    *)
(* and may be valid UTF-8 or JSON, so the checks on an opened plaintext    *)
(* are left out: none of them is what refuses a stray envelope.            *)
(***************************************************************************)
EXTENDS Naturals, FiniteSets

CONSTANTS
  Identities,   \* holders of a KEM key pair
  Vaults,
  Items,
  Attachments,
  Mails,        \* ids of invitations and of live shares
  VaultOf,      \* the vault of each item
  ItemOf,       \* the item of each attachment
  Tagged,       \* the items that are created with tags
  Edits,        \* the slots whose texts are written again
  MaxWrites,    \* bound on the texts written after a record was created
  MaxMixUps,    \* bound on the mistakes of the service
  None          \* no envelope, an error instead of a plaintext

ASSUME RecordsAssumption ==
  /\ VaultOf \in [Items -> Vaults]
  /\ ItemOf \in [Attachments -> Items]
  /\ MaxWrites \in Nat /\ MaxMixUps \in Nat

VARIABLES
  store,      \* the envelope at each place of the service
  writes,     \* how many texts were written since
  members,    \* who was given the key of each vault
  shared,     \* who was given the content key of each item
  mixUps,     \* how often the service confused two places
  misrouted   \* whether a sealed box was among them

vars == <<store, writes, members, shared, mixUps, misrouted>>

-----------------------------------------------------------------------------
(* Places.  A place is a column of a row: the slot and the ids of the row. *)

Place(slot, ids) == [slot |-> slot, ids |-> ids]

VaultFields == {"name", "description"}
MailFields == {"invitation_email", "live_share_email"}
ItemFields == {"title", "tags", "metadata", "last_used"}
AttachmentFields == {"filename", "content_type"}
FileFields == {"blob", "digest"}

\* The fields sealed under the vault key, under an attachment key and under a
\* content key, the wraps of these keys, and the sealed boxes.
VaultKeyed ==
  {Place(f, <<v>>) : f \in VaultFields, v \in Vaults}
  \cup {Place(f, <<v, m>>) : f \in MailFields, v \in Vaults, m \in Mails}
  \cup {Place(f, <<i>>) : f \in ItemFields, i \in Items}
  \cup {Place(f, <<ItemOf[a], a>>) : f \in AttachmentFields, a \in Attachments}
FileKeyed == {Place(f, <<ItemOf[a], a>>) : f \in FileFields, a \in Attachments}
Bodies == {Place("body", <<i>>) : i \in Items}
Wraps ==
  {Place("content_key", <<i>>) : i \in Items}
  \cup {Place("wrapped_key", <<ItemOf[a], a>>) : a \in Attachments}
Boxes ==
  {Place("member", <<p, v>>) : p \in Identities, v \in Vaults}
  \cup {Place("share", <<p, i>>) : p \in Identities, i \in Items}

Fields == VaultKeyed \cup FileKeyed \cup Bodies
Places == Fields \cup Wraps \cup Boxes

\* The key a vault key is drawn for is not a place of the service.
VaultKeyOf(v) == Place("vault", <<v>>)

vault_of(s) == IF s.slot \in VaultFields \cup MailFields \cup {"vault"}
                 THEN s.ids[1] ELSE VaultOf[s.ids[1]]

\* The key each field and each wrap is sealed under.
KeyOf(s) ==
  CASE s.slot = "body"        -> Place("content_key", s.ids)
    [] s.slot \in FileFields  -> Place("wrapped_key", s.ids)
    [] OTHER                  -> VaultKeyOf(vault_of(s))

-----------------------------------------------------------------------------
(* Associated data: a prefix for the slot and the ids of the row.          *)

Aad(prefix, ids) == [prefix |-> prefix, ids |-> ids]

\* Mutant: the wrap of a content key does not name its item.
UnboundContentKey(ids) == Aad("item-content-key", <<>>)

content_key_wrap_aad(ids) == Aad("item-content-key", ids)

item_aad(slot, ids) ==
  Aad(CASE slot = "body" -> "body" [] slot = "title" -> "title" [] slot = "tags" -> "tags"
        [] slot = "metadata" -> "item-metadata" [] slot = "last_used" -> "last_used", ids)

vault_aad(slot, ids) ==
  Aad(CASE slot = "name" -> "vault-name" [] slot = "description" -> "vault-description"
        [] slot = "invitation_email" -> "vault-invitation-email"
        [] slot = "live_share_email" -> "live-share-recipient-email", ids)

\* Mutant: the digest has the prefix of the blob, which the same key seals.
DigestLikeBlob(slot, ids) ==
  Aad(CASE slot = "wrapped_key" -> "attachment-content-key"
        [] slot \in FileFields -> "attachment-blob"
        [] slot = "filename" -> "attachment-filename"
        [] slot = "content_type" -> "attachment-content-type", ids)

attachment_aad(slot, ids) ==
  Aad(CASE slot = "wrapped_key" -> "attachment-content-key" [] slot = "blob" -> "attachment-blob"
        [] slot = "filename" -> "attachment-filename"
        [] slot = "content_type" -> "attachment-content-type"
        [] slot = "digest" -> "attachment-digest", ids)

aad(s) ==
  CASE s.slot = "content_key"                     -> content_key_wrap_aad(s.ids)
    [] s.slot \in ItemFields \cup {"body"}        -> item_aad(s.slot, s.ids)
    [] s.slot \in VaultFields \cup MailFields     -> vault_aad(s.slot, s.ids)
    [] OTHER                                      -> attachment_aad(s.slot, s.ids)

-----------------------------------------------------------------------------
(* Envelopes.                                                              *)

decode_expecting(blob, tag) == blob # None /\ blob.tag = tag

xchacha20_encrypt_with_aad(key, plaintext, data) ==
  [tag |-> "AeadXChaCha", key |-> key, aad |-> data, pt |-> plaintext]

xchacha20_decrypt_with_aad(key, blob, data) ==
  IF decode_expecting(blob, "AeadXChaCha") /\ blob.key = key /\ blob.aad = data
    THEN blob.pt ELSE None

\* A sealed box has a recipient and no associated data.
seal(recipient, plaintext) == [tag |-> "SealedBox", key |-> recipient, pt |-> plaintext]

unseal(recipient, blob) ==
  IF decode_expecting(blob, "SealedBox") /\ blob.key = recipient THEN blob.pt ELSE None

\* The n-th key or text for a place.
Plaintext(s, n) == [for |-> s, n |-> n]

encrypt(key, s, n) == xchacha20_encrypt_with_aad(key, Plaintext(s, n), aad(s))

\* Mutant: the two keys are exchanged; both have 32 bytes.
WrapExchanged(vault_key, s, key) == xchacha20_encrypt_with_aad(key, vault_key, aad(s))

wrap_key(vault_key, s, key) == xchacha20_encrypt_with_aad(vault_key, key, aad(s))

-----------------------------------------------------------------------------
(* What an identity opens with the envelopes the service gives it.  Every  *)
(* operator gives a set with at most one key or text for each way to open. *)

unwrap_vault_key(p, v) == {unseal(p, store[Place("member", <<p, v>>)])} \ {None}

unwrap_key(p, s) ==
  {xchacha20_decrypt_with_aad(k, store[s], aad(s)) : k \in unwrap_vault_key(p, vault_of(s))}
  \ {None}

unwrap_shared_key(p, i) == {unseal(p, store[Place("share", <<p, i>>)])} \ {None}

KeysFor(p, s) ==
  CASE s \in VaultKeyed -> unwrap_vault_key(p, vault_of(s))
    [] s \in Bodies     -> unwrap_key(p, KeyOf(s)) \cup unwrap_shared_key(p, s.ids[1])
    [] s \in FileKeyed  -> unwrap_key(p, KeyOf(s))

decrypt(p, s) ==
  {xchacha20_decrypt_with_aad(k, store[s], aad(s)) : k \in KeysFor(p, s)} \ {None}

-----------------------------------------------------------------------------
Init ==
  /\ store = [s \in Places |-> None]
  /\ writes = 0
  /\ members = [v \in Vaults |-> {}]
  /\ shared = [i \in Items |-> {}]
  /\ mixUps = 0
  /\ misrouted = FALSE

\* The envelopes of one operation take their places.
Put(envelopes) ==
  /\ store' = [s \in Places |-> IF s \in DOMAIN envelopes THEN envelopes[s] ELSE store[s]]
  /\ UNCHANGED <<mixUps, misrouted>>

CreateVault(p, v) ==
  LET key == Plaintext(VaultKeyOf(v), 0)
      box == Place("member", <<p, v>>)
  IN  /\ members[v] = {}
      /\ Put([s \in {box} \cup {Place(f, <<v>>) : f \in VaultFields} |->
                IF s = box THEN seal(p, key) ELSE encrypt(key, s, 0)])
      /\ members' = [members EXCEPT ![v] = {p}]
      /\ UNCHANGED <<shared, writes>>

AddMember(p, q, v) ==
  /\ q \notin members[v]
  /\ \E key \in unwrap_vault_key(p, v) :
       Put([s \in {Place("member", <<q, v>>)} |-> seal(q, key)])
  /\ members' = [members EXCEPT ![v] = @ \cup {q}]
  /\ UNCHANGED <<shared, writes>>

\* What a new item has; without tags there is no envelope for them.
NewTexts(i) == {"title", "body", "metadata"} \cup (IF i \in Tagged THEN {"tags"} ELSE {})

\* A content key is drawn and wrapped under the vault key; it seals the body.
CreateItem(p, i) ==
  LET wrap == Place("content_key", <<i>>)
  IN  /\ store[wrap] = None
      /\ \E key \in unwrap_vault_key(p, VaultOf[i]) :
           Put([s \in {wrap} \cup {Place(f, <<i>>) : f \in NewTexts(i)} |->
                  IF s = wrap THEN wrap_key(key, wrap, Plaintext(wrap, 0))
                  ELSE encrypt(IF s.slot = "body" THEN Plaintext(wrap, 0) ELSE key, s, 0)])
      /\ UNCHANGED <<members, shared, writes>>

\* An attachment key is drawn; it seals the file and its digest.
PutAttachment(p, a) ==
  LET ids == <<ItemOf[a], a>>
      wrap == Place("wrapped_key", ids)
  IN  /\ store[wrap] = None /\ store[Place("content_key", <<ItemOf[a]>>)] # None
      /\ \E key \in unwrap_vault_key(p, VaultOf[ItemOf[a]]) :
           Put([s \in {wrap} \cup {Place(f, ids) : f \in AttachmentFields \cup FileFields} |->
                  IF s = wrap THEN wrap_key(key, wrap, Plaintext(wrap, 0))
                  ELSE encrypt(IF s.slot \in FileFields THEN Plaintext(wrap, 0) ELSE key, s, 0)])
      /\ UNCHANGED <<members, shared, writes>>

\* The row of a field is there.
Exists(s) == s.slot \in ItemFields => store[Place("content_key", s.ids)] # None

\* Mutant: a new body gets a new content key, which is not wrapped.
WriteUnderFreshKey(p, s) ==
  /\ Exists(s)
  /\ IF s \in Bodies
       THEN unwrap_key(p, KeyOf(s)) # {} /\ Put([t \in {s} |-> encrypt(Plaintext(KeyOf(s), writes + 1), s, writes + 1)])
       ELSE \E key \in unwrap_vault_key(p, vault_of(s)) : Put([t \in {s} |-> encrypt(key, s, writes + 1)])
  /\ writes < MaxWrites /\ writes' = writes + 1
  /\ UNCHANGED <<members, shared>>

\* A member seals a new text for a field of a vault or of an item.
Write(p, s) ==
  /\ Exists(s)
  /\ \E key \in IF s \in Bodies THEN unwrap_key(p, KeyOf(s))
                                ELSE unwrap_vault_key(p, vault_of(s)) :
       Put([t \in {s} |-> encrypt(key, s, writes + 1)])
  /\ writes < MaxWrites /\ writes' = writes + 1
  /\ UNCHANGED <<members, shared>>

\* A member hands the content key of one item to an identity that is not one.
ShareItem(p, q, i) ==
  /\ q \notin shared[i] \cup members[VaultOf[i]]
  /\ \E key \in unwrap_key(p, Place("content_key", <<i>>)) :
       Put([s \in {Place("share", <<q, i>>)} |-> seal(q, key)])
  /\ shared' = [shared EXCEPT ![i] = @ \cup {q}]
  /\ UNCHANGED <<members, writes>>

\* The service (external) confuses two places.
MixUp(s, t) ==
  /\ mixUps < MaxMixUps
  /\ store[s] # store[t]
  /\ store' = [store EXCEPT ![s] = store[t], ![t] = store[s]]
  /\ mixUps' = mixUps + 1
  /\ misrouted' = (misrouted \/ {s, t} \cap Boxes # {})
  /\ UNCHANGED <<writes, members, shared>>

Next ==
  \/ \E p \in Identities :
       \/ \E v \in Vaults : CreateVault(p, v) \/ \E q \in Identities : AddMember(p, q, v)
       \/ \E i \in Items : CreateItem(p, i) \/ \E q \in Identities : ShareItem(p, q, i)
       \/ \E a \in Attachments : PutAttachment(p, a)
       \/ \E s \in VaultKeyed \cup Bodies : s.slot \in Edits /\ Write(p, s)
  \/ \E s, t \in Places : MixUp(s, t)

Spec == Init /\ [][Next]_vars

-----------------------------------------------------------------------------
(* Properties.                                                             *)

\* Boxes hold keys; fields and wraps are sealed under keys.
KeyPlaces == Wraps \cup {VaultKeyOf(v) : v \in Vaults}

Plaintexts(places) == [for : places, n : 0..MaxWrites]

Envelopes ==
  [tag : {"AeadXChaCha"}, key : Plaintexts(KeyPlaces),
   aad : {aad(s) : s \in Fields \cup Wraps}, pt : Plaintexts(Fields \cup Wraps)]
  \cup [tag : {"SealedBox"}, key : Identities, pt : Plaintexts(KeyPlaces)]

\* An error is neither an envelope nor a plaintext.
ASSUME NoneAssumption == None \notin Envelopes \cup Plaintexts(KeyPlaces \cup Fields)

TypeOK ==
  /\ store \in [Places -> Envelopes \cup {None}]
  /\ writes \in 0..MaxWrites /\ mixUps \in 0..MaxMixUps /\ misrouted \in BOOLEAN
  /\ members \in [Vaults -> SUBSET Identities]
  /\ shared \in [Items -> SUBSET Identities]

\* Whatever the service mixes up, sealed boxes included, a key or a text that
\* opens at a place was sealed for this place: a stray envelope is an error,
\* never another field's text ("a stray wrap can never be confused with a body
\* or title ciphertext", "a digest ciphertext can never open as a blob").
ReadsAuthentic ==
  \A p \in Identities :
    /\ \A s \in Fields : \A x \in decrypt(p, s) : x.for = s
    /\ \A s \in Wraps : \A x \in unwrap_key(p, s) : x.for = s

\* Everything an identity can compute from the whole storage: the contents of
\* its boxes, and what opens with these, and with those.
Boxed(p) == {store[s].pt : s \in {t \in Places : unseal(p, store[t]) # None}}
OpenedWith(keys) ==
  {store[s].pt : s \in {t \in Places : decode_expecting(store[t], "AeadXChaCha")
                                       /\ store[t].key \in keys}}
Learned(p) ==
  LET first == Boxed(p)
      second == first \cup OpenedWith(first)
  IN  second \cup OpenedWith(second)

\* "The recipient can decrypt that item's body without ever seeing the vault
\* key": an identity learns only what belongs to the vaults it is a member of,
\* and the content keys and bodies of the items shared with it.  Members that
\* work on confused envelopes do not leak more.  The boxes themselves carry no
\* context, so they have to be at their places.
SharesConfined ==
  ~misrouted =>
    \A p \in Identities : \A x \in Learned(p) :
      \/ p \in members[vault_of(x.for)]
      \/ x.for.slot \in {"body", "content_key"} /\ p \in shared[x.for.ids[1]]

\* Every member opens everything stored in its vault, whoever wrote it last,
\* and a shared body stays readable through later edits.
MembersRead ==
  mixUps = 0 =>
    \A p \in Identities : \A s \in Fields :
      (/\ store[s] # None
       /\ \/ p \in members[vault_of(s)]
          \/ s \in Bodies /\ p \in shared[s.ids[1]]) => decrypt(p, s) # {}
=============================================================================
