# Verification of seren-secrets

TLA+ models of the protocol logic of this repository, TLC runs on small
instances, and TLAPS proofs for every instance. `PROJECT.json` maps each
definition to the lines it models.

## 1. The system

Secrets are encrypted on the client; the service stores ciphertext and enforces
revisions, key versions and permissions. The repository holds the client side.

| Component | State | Operations | Talks to |
|---|---|---|---|
| vault items client (`vault.rs`) | bearer, caller identity; one request at a time per call | create, create with id, update, trash, delete, restore, copy, move, get, list | secrets service through the gateway |
| attachment writes (`vault/attachments.rs`) | none between calls | put, delete, guarded put with id, guarded delete, list, get | the same service routes |
| gateway envelope and errors (`vault.rs`, `error.rs`) | none | unwrap the metered envelope, classify refusals, cut bodies | every call |
| agent identities and grants (`vault.rs`, `protocol/membership_grant.rs`) | none | create agent, grant, list, revoke | service; signatures of the crypto crate |
| agent delegation (`protocol/agent_delegation_policy.rs`) | none | validate, canonicalize, sign a contribution | participants sign, the service verifies |
| item contents and rich text (`protocol/item.rs`, `prose.rs`) | the JSON body of an item | encode, decode thirteen kinds of content | hosts edit it; the resolver reads fields of it |
| resolver (`seren_secrets.rs`, `protocol/resolve.rs`) | identity keys | resolve a `seren-secrets://` URI, pick a field | service `/resolve`, approval routes |
| sidecar (`bin/seren_secrets_sidecar.rs`) | deployments, 64 permits | guard, resolve | local callers; the resolver |
| account and recovery (`protocol/account.rs`, `recovery.rs`, proofs) | the account secrets row | setup, unlock, change password, recover, sign replacement | service stores the row |
| crypto (`aead`, `kem`, `item`, `vault`, `attachment`, ...) | keys | seal, open, wrap, sign | everyone |
| KDF, generators, export, blind index | none | pure functions | hosts |
| wasm bindings, macros | none | argument conversion | browser hosts |

What is hard here:

* Methods of several requests (`update_item`, `copy_item`, `move_item`,
  `put_attachment_with_id`, `conditional_delete_attachment`) read in one request
  and write in a later one. Other writers, and key rotations run by other
  applications, come in between.
* No method retries (`lib.rs`). A write that timed out may already have been
  applied, or be applied later; the host decides to call again.
* Refusals carry meaning: `Stale`, `Rotating`, `KeyVersion`, `Mismatch`,
  `AlreadyAbsent`, `IdConflict` say that nothing was written.
* `DELETE` trashes an active item and erases a trashed one, so a retried
  `DELETE` is not idempotent.
* The sidecar's handlers are dropped wherever they are when a connection closes:
  in the queue for a permit, with a permit, or with an upstream call under way
  that the service may still serve, consuming the nonce and opening an approval.
* Several devices edit copies of the account secrets row and replace it whole.
  A proof signed earlier may arrive later, and a device may hold the key of an
  account whose setup was never stored.
* An item is decoded, edited and encoded as a whole, by several applications and
  versions. What a version does not know, leaves out or fills in must not change
  the other fields.
* One key seals many fields and rows. Only the associated data keeps an envelope
  from opening where it does not belong, and sealed boxes have none.
* Signed creations, grants and contributions travel through a gateway that may
  delay or repeat them, and contributions may be reordered on the way.

`PROJECT.json` lists these hazards at their lines with the properties that cover
them.

## 2. Modules

| Module | Models | Extends |
|---|---|---|
| `VaultService` | the secrets service and other applications, as the client uses them (external) | |
| `VaultItems` | the item methods of `VaultClient` | `VaultService` |
| `VaultItemsProofs` | theorems about `VaultItems` | `VaultItems`, TLAPS |
| `GuardedAttachments` | the attachment writes, with their service routes | |
| `GuardedAttachmentsProofs` | theorems about `GuardedAttachments` | `GuardedAttachments`, TLAPS |
| `Sidecar` | the sidecar, the resolver it calls, the service's resolve route | |
| `SidecarProofs` | theorems about `Sidecar` | `Sidecar`, TLAPS |
| `AccountSecrets` | the account secrets row, the devices' account and recovery flows | |
| `AccountSecretsProofs` | theorems about `AccountSecrets` | `AccountSecrets`, TLAPS |
| `ItemDocument` | the contents of items as JSON, and the fields references read | `ItemRegister` (instance) |
| `ItemDocumentProofs` | theorems about `ItemDocument`, the refinement included | `ItemDocument`, TLAPS |
| `ItemRegister` | what an item promises its editors: independent registers | |
| `SealedRecords` | which key seals which field of a vault, an item, an attachment | |
| `SealedRecordsProofs` | theorems about `SealedRecords` | `SealedRecords`, TLAPS |
| `AgentDelegation` | validation and canonical payload of a contribution | |
| `AgentDelegationProofs` | sorting, and the order of the payload | `AgentDelegation`, TLAPS |
| `AgentAccess` | agent creation, grants, contributions and revocations | `AgentDelegation` |
| `AgentAccessProofs` | theorems about `AgentAccess` | `AgentAccess`, `AgentDelegationProofs`, TLAPS |
| `MC...`, one for each | constants for TLC | |

### VaultService

`store` is the items table. An item's ciphertext is symbolic: `bodyKey` is the
content key that seals the body, `wrapKey` the content key inside
`content_key_wrap`, `wrapUnder` and `metaUnder` the vault keys (vault and
version) that seal the wrap and the title, tags and metadata. `Opens` is
`decrypt_item_record`: the item is readable iff all of them fit. The
`favorite` and `reprompt` flags live inside the metadata ciphertext.

`Handle` serves one request in one transaction. `Refusals` collects every reason
to refuse; which one is reported is the service's choice. A 500 stands for all
refusals the client does not tell apart (403, 429, 5xx) and may hide an applied
write, because a gateway between client and service can fail on the way back.
`BeginRotation`, `FinishRotation` and `OtherEdit` are other applications; a
rotation locks writes out (423) until every wrap is resealed.

What is assumed of the service, since it is not in this repository: it checks a
request and applies it atomically, refuses a create or patch whose
`wrapping_key_version` is not current (409), and serves a request at most once.

### VaultItems

| State | Code |
|---|---|
| `call`, `chan` | the method a host awaits, its arguments, and the HTTP exchange it is in |
| `orphans` | writes whose client gave up (`Timeout`) before they were served |
| `keyring`, `known` | vault keys with versions, and revisions, that hosts keep between calls |
| `last` | the previous result, for properties |
| `minted`, `created`, `applied`, `removals`, `destroyed` | history, for properties |

A method is the action that begins it (`create_item`, `update_item`, ...) and
the actions that resume it when a reply or the deadline comes (`UpdateRead`,
`CopyRead`, `MoveCopied`, `WriteDone`, `CannotDecrypt`, `Refused`, `Rejected`,
`Timeout`). A host may call any method with any arguments after any result, so
every retry policy is covered. Conditional calls use a revision the host was
told.

### GuardedAttachments

One item, its attachment rows, and two kinds of seals: a row without a digest
(`put_attachment`) and one with a digest sealed by the call that uploaded it.
Two seals are never equal, which is what the deletion guard relies on. The
service refuses a stale parent revision and a locked vault first, deletes only
the row with exactly the sent digest bytes, and never changes the parent's
revision. `failed` stands for every other refusal, a coded refusal with an
unparsable body included.

### Sidecar

A caller's request goes through `arrived` (before `guard`), `queued` (waiting for
a permit of `GlobalConcurrencyLimitLayer`), `reading` (the JSON extractor awaits
the body inside the permit) and `upstream` (the resolver awaits the service), and
back to `idle` with an answer. `guard`, `Admit`, `resolve`, `Resolved` and
`Timeout` are the handler's steps; `Disconnect` drops the handler in any of them.
tokio's semaphore is fair, so `queue` is a sequence. `Timeout` covers every way
the upstream exchange can fail, at any point: an error status that has arrived is
kept even if its body is not read, and then an approval loses its id
(`PartialStatuses`).

The guard's header checks, the body and the reference are Boolean fields of a
request; the organization and user of a request are one owner. The status 500
stands for every status passed through from the service, 400 for every rejection
of a body. `Configs` is the list in `SEREN_SECRETS_IDENTITIES_JSON`; of two
entries for one deployment the last one counts, as in `load_deployments`.

Assumed of the service: a nonce is consumed at most once, a gated item is
released only under a grant for the identity and item. It is not assumed to send
the right payload: `Serve` may answer with any payload it ever released.

### AccountSecrets

`row` is the stored `AccountSecrets`, `dev` what each device holds: a copy of the
row, whether the host has edited it, and the account key and signing key of its
session. Keys, salts and challenges are numbered by `draws`, so no two are equal.
A wrap records the secret, the parameters and the account key it was made with;
it opens only with the same secret and parameters. `identity` stands for both
identity key pairs, which the code always handles together.

`account_setup_with_params`, `unlock_account`, `recover_with_recovery_key`,
`change_master_password`, `regenerate_recovery_key` and
`rewrap_account_key_after_recovery` are the functions of the crypto crate, called
by the wasm bindings of the same names. `sign_secrets_update_proof` and
`sign_recovery_proof` add a request to `net`, from which it is never removed: it
may arrive late, twice or not at all. The update proof covers all six encrypted
or parameter fields, so a request is delivered with the blob that was signed. The
recovery proof covers the challenge and the KEM public key; requests are not
altered on the way in this model.

Assumed of hosts: a session is opened on a blob as it was set up or read, and
what is sent is an edited copy. Assumed of the service (it calls
`verify_update_proof_fresh` and `verify_recovery_proof` with the stored signing
key): it stores only the first creation, keeps the public halves on a
replacement, and accepts a challenge once. The comment of `verify_update_proof`
leaves the freshness check to the service; that it is made is an assumption.

`chain` is history: the password and recovery key set last by the edits behind a
blob, and the recovery keys used in recoveries among them.

### ItemDocument and ItemRegister

A kind of content is a record of seven sets: its fields by what serde does with
them (required, always written, left out when empty, ...). `to_object` and
`from_object` are what the attributes make serde do, `encode` and `decode` apply
them to the content and to every struct inside it. A field that a document lacks
decodes to its default, a key nobody knows is dropped, a rich-text value of
another shape becomes an empty document, and an enum value that is none of its
variants makes the body undecodable (`EnumFields`, all six enums). Texts are
strings; numbers and Booleans are texts too, since nothing depends on them.

The `extract_..._field` operators are tables from the built-in names of a kind to
the field they read. Each is the set of the arms of a `match` (`Match`, `Names`);
the arms of one `match` have no name in common, so their order is immaterial. A
name not in the table is a header or a custom field. A reference is a record of how its text reads, so the
text itself is not parsed. What the resolver calls `UnknownField`, for an empty
value too, is `<<>>`.

Applications open the item, edit one field (`EditField`) or replace the notes
with their document (`EditNotes`), and save with `if_match_updated_at` (the code
also allows an unconditional update; `items_favorite` shows the effect); other
versions of the software (`ForeignSave`) write fields, notes and purposes this
version does not know. `ItemRegister` is the abstract specification: a save
changes one register and no other one. The refinement mapping decodes the stored
document; notes and their text companion are one register. `EditsOneField` is
`Register!Spec` under that mapping.

### SealedRecords

A place is a column of a row; `store` has the envelope at each place. An envelope
remembers its key, its associated data and a plaintext; the plaintext remembers
the place it was made for, which only the properties look at. `aad` is the
associated data each function of the crypto crate builds: a prefix for the field
and the ids of the row. `KeyOf` says which key seals a field: the vault key, the
content key of the item (bodies) or the key of the attachment (file, digest).
`decrypt` collects what an identity opens at a place by the ways the bindings
offer: its box for the vault key, the wraps under that key, its box for a shared
content key. Checks on an opened plaintext (32 bytes, UTF-8, JSON) are left out,
so the properties do not lean on them.

The actions are the members' operations. `CreateItem` seals what
`build_create_request` does: the wrap, the title, the body, the metadata, and the
tags of an item that has some (`Tagged`). `Write` seals any text of an existing
row again. They use whatever key they unwrap, so a
member may go on working with a confused envelope. `MixUp` is the service
exchanging two places. Rotation of a vault key is in `VaultItems`, not here.

### AgentDelegation and AgentAccess

`agent_delegation_contribution_payload` validates, sorts, looks for equal
neighbours and gives the payload. Ids and names are numbers because they are
sorted. `SortBy` puts the element at position `i` whose `Rank` is `i`: as many
elements have a smaller key, or the same key and an earlier place, which is what
the stable sorts of the code give. `within_bounds` stands for every length, sign and emptiness check of a
single field; its refusal is not part of any property. The ids of the request and
its participants, its nonce and its expiry are left out of a contribution: they
are the same in every order of the lists.

In `AgentAccess`, `net` keeps every request, so that each may arrive late, twice
or not at all. A call draws its time and nonce from `calls`. The service is
external: it verifies creations, grants and contributions with the functions of
the crypto crate, sees a nonce once, and applies grants of agents that are not
revoked. A contribution carries the wraps and signatures of its grants; what it
signs covers them, the agent and the payload (`contribution_bytes`), and the rows
that the service stores for it are the ones it carries. `MixUp` exchanges one
column of two stored rows. A client derives its level from the rows it can read
(`readable_memberships`, `caller_access`). `granted` and `standing` are history:
the memberships owners have signed, and those stored since the last revocation of
their agent in their vault.

## 3. Runs

| Run | Instance | Shows |
|---|---|---|
| `items_update` | 2 hosts, 1 item, 2 calls, 1 rotation, 1 edit | types; every stored item opens; conditional updates keep flags; refusals wrote nothing |
| `items_move` | 2 hosts, 2 vaults, 3 calls, no rotation | erased only by two calls, one of them a `delete_item`; a move removes only what was copied |
| `items_live` | 1 host, all methods, 2 vaults, 2 calls, a rotation of each vault, fair client | stored items open after creates, copies and moves; every call returns |
| `items_favorite` | 1 call, 1 edit | violation: an unconditional update resets a flag changed meanwhile |
| `attachments_writes` | 2 hosts, one id and one foreign id, 3 files (two with equal bytes), 2 calls, 1 edit or lock | types; guarded writes are exact; refusals write nothing; the outcome of a guarded put says what is stored |
| `attachments_conflict` | 2 hosts, 2 calls | violation: `IdConflict` for an id that is free again |
| `sidecar_requests` | 3 callers, 1 permit, 3 requests of 5 kinds, a gated item, fair handlers | no permit is lost or taken twice, no ghost waits in the queue, pending nonces are fresh; a plaintext or an approval id goes only to the request it belongs to; every request ends |
| `account_race` | 2 devices, 2 passwords, 2 profiles, 3 setups or edits, 3 requests, clock to 2, clocks off by 1 | types; the stored account opens with its password and its recovery key; a recovery key used in a recovery stays dead in every descendant blob; a replacement takes effect within `max_age` and the clocks' difference |
| `documents_edit` | 2 applications, all 13 kinds, every field, 2 saves, new keys and malformed notes of other versions | types; an item implements independent registers; custom fields never stand in for built-in ones; selectors fail closed |
| `documents_purpose` | logins, writes of later versions | violation: an unknown purpose makes the item undecodable |
| `records_mixup` | 2 identities, 2 vaults, 2 items in one of them, 1 attachment, 1 rewrite, 1 confusion | types; nothing opens at a place it was not sealed for; a share gives one item; members read everything |
| `agents_grants` | 1 owner, 2 vaults, 4 calls, 1 confusion, some 600 contributions | types; a creation mints one agent; verified rows were granted; the reported level was granted since the last revocation; contributions verify in every order; provisioning is one to one; nothing is delegated twice |

Bounds: two calls are enough for one method to lie between two requests of
another; three let a timed-out write arrive after both the retry and another
call (`items_move`). A delete and a re-upload between a list and a guarded
deletion take three calls of two hosts, which `attachments_writes` does not
reach; `GuardedWritesAreExact` is proved for any number. One rotation separates
old from new keys. In `sidecar_requests` there are more callers than permits, so
that two wait, and three requests allow two failed tries before a third. In
`account_race` three draws allow two setups and an edit, or a setup and two
edits; three requests are a creation and two competing replacements. In
`documents_edit` two saves are enough for one application to save between the
read and the save of another, and every pair of fields of every kind is edited.
In `records_mixup` the two items share a vault key, the attachment is on one of
them, and the second vault has other fields under another key; one confusion is
an exchange of any two places at any time, before or after a share; one of the
items has tags, and the rewrites are those of a body, of a time of last use and of
an invitation, so that every column of an item is filled. In
`agents_grants` four calls are a creation and three grants, revocations or
contributions, or two agents with a grant each.

The theorems remove these bounds for the properties they cover. Symmetry:
devices and passwords in `account_race`, clients in `attachments_writes` and
identities in `records_mixup` are interchangeable, and none of these runs has a
liveness property. Elsewhere it is not used, because initial placeholders are
chosen values or ids are numbers.

Deadlock checking is off: when all calls are used up and every late write has
arrived, the system is at rest; so is an account, an item or a vault whose
edits are used up.

Fairness (`FairSpec`): weak fairness of each client's resume step, nothing else.
A Tokio task whose reply or timer is ready is polled again; every request has
the 180 s total deadline of `http.rs`. The service is never assumed to answer.
In `Sidecar`, weak fairness of each handler and of `Admit` (a released permit
wakes the first waiter). The handler's `resolve` step includes the arrival of the
body, for which the code has no deadline: `RequestsEnd` assumes that a caller
sends its body or closes the connection.

## 4. Findings

* `items_favorite`: `update_item` documents that `favorite: None` keeps the
  stored flag and that reprompt is always kept. Both are read in a GET and
  written by a later PATCH; without a revision the PATCH overwrites what changed
  in between. `ConditionalUpdateKeepsFlags` shows that with a revision the
  promise holds.
* `attachments_conflict`: `IdConflict` is documented as "a different or
  unverifiable file, or another item uses the id". It is also the answer when
  the same file was present at the refusal and deleted before the list.
* `documents_purpose`: `FieldPurpose` is documented as forward-compatible, with
  unrecognized purposes ignored. The enum has no catch-all variant, so a body
  with an unrecognized purpose does not decode at all, and no field of the item
  resolves.

An observation without a run of its own: skipping membership rows that a client
cannot read is documented as something that "can only withhold access"
(`vault.rs:63-65`), and "the lower level wins" when two rows disagree
(`vault.rs:107`). When the row of the lower level is the unreadable one, the
higher one is reported. `ReportedAccess` is stated with this exception: a lower
standing membership is passed over only if its row cannot be read.

## 5. Proofs

All theorems about runs of the system are about `Spec`, for any sets of hosts,
vaults, items, files and any bounds. They assume what the modules name:

* `ServiceAssumption`, `HostAssumption`, `AttachmentAssumption`,
  `AccountAssumption`, `RecordsAssumption`, `NoneAssumption` and
  `SidecarAssumption`: nonempty sets, bounds that are numbers, functions of the right
  type, an error that is no envelope and no text.
* `AgentAssumption`: contributions have the types of the Rust struct and grant
  access to existing vaults; the absent value is no number.
* `DocumentAssumption`: the values that edits store have the types of the struct
  fields, which the Rust compiler enforces on whoever calls `encode`; a
  reference's selector names one of the four arrays that `split_array_prefix`
  knows, or none; other versions write one of the three modelled things.

TLC evaluates each of them on the runs of the module.

* `TypeCorrect`: `TypeOK` is inductive. A lemma per action shows that each step
  keeps it.
* `ItemsStayReadable`: `StoredItemsOpen` is not inductive, since a pending PATCH
  may store what a client sealed earlier. `OpenInv` adds `RequestsOpen`: every
  create or patch that may still be applied, orphans included, opens under the
  vault key version the request names. The service accepts only the current
  version, so what it stores opens; a finished rotation reseals wrap and
  metadata together.
* `ConditionalUpdatesKeepFlags`: `FlagsInv` adds that every revision anyone
  holds was handed out (`RevisionsIssued`, so a new one is never an old one),
  that the exchange of an update is about its own item and revision, and that
  the record an update has read, or the PATCH it has built, carries the stored
  flags for as long as the stored revision is the one the call named.
* `AttachmentTypes` and `GuardedWritesAreExact`: `IInv` adds that a stored
  digest opens to the SHA-256 of the stored file (`SealsTruthful`), that a
  guarded call has a nonzero revision (`HostsGuarded`), and that its requests
  carry that revision and, for a deletion, a seal that opens to the expected
  SHA-256 (`RequestsGuarded`). The service deletes only the row with that very
  seal, so the row's file has that SHA-256.
* `AccountTypes` and `AccountAlwaysOpens`: `AccountInv` adds that every copy and
  every request carries the parameters its wraps were made with
  (`SelfConsistent`), and says which account key its wraps hold (`WrapsHold`).
  The delicate case is a device that lost the race of two setups: it may edit a
  copy of the stored row with the key of its own, unstored account, and the blob
  it makes opens for nobody. It can sign only as that other account
  (`MessageSound`), so the service, which checks with the stored public key,
  never stores it.
* `RecordTypes`, `ReadsAreAuthentic` and `SharesAreConfined`: `TypeOK` is not
  inductive, because a member puts whatever it unwraps into a box; that it is a
  key follows from the associated data. `SealInv` adds that every sealed envelope
  names the place its plaintext was made for (`StoreHonest`), wherever the
  service has moved it, and, until a box was misrouted, that it is sealed under
  the key of that place and that every box holds the right key for a recipient
  who was given it (`StorePlaced`). `PrefixNamesSlot` shows that no two places
  have the same associated data. Confinement follows layer by layer: who may
  learn the key of a place may learn the place (`KeysLeadToOwn`).
* `MembersAlwaysRead`: `ReadInv` adds that, while nothing was confused, each box
  and each wrap holds the one key drawn for it, every text is sealed under it, and
  a body or a file is never stored without its wrap.

* `VaultItemsProofs!RefusalsAreFinal` and `ErasuresAreDeliberate`: `RefusalInv`
  says that the exchange of a host belongs to its current call, that this call is
  newer than its last one and has left no request behind, and that as long as its
  write is not answered with success or an unknown error it has not been applied.
  A move is the exception: its create may be stored when its trash is refused.
  `EraseInv` adds that a trashed item was removed by a call that is recorded as
  applied; a request that erases is a `DELETE`, sent by a `delete_item` whose own
  write is not yet recorded, so a second call did it.
* `MovesRemoveOnlyCopied`: `MoveInv` follows a move through its requests: the
  create carries the id of the copy and the content read, it is recorded when the
  create was answered, and only then is the trash sent.
* `GuardedAttachmentsProofs!RefusalsAreFinal` and `PutOutcomesAreTruthful`: the
  first is as for items. `PutInv` says what a waiting `put_attachment_with_id` may
  conclude while nobody has removed the attachment: after `ok` the row carries its
  seal, after `exists` there is a row, and what it listed is still stored, because
  a present row is never overwritten.
* `ConsumedSheetsStayDead`: `ConsumedInv` adds that every blob anywhere, in the
  row, on a device or in a request, has a recovery key outside the ones consumed
  by its own ancestors, and that keys are drawn once. `ReplacementsAreRecent` is
  an action property; it needs only that signed times are within the clocks'
  difference (`Stamped`).
* The theorems of `SidecarProofs` share `SidecarInv`. `PermitsAreConserved` is
  counting (`Balanced`: free permits and working requests add up), which must be
  carried through disconnects in every phase; `QueueExact` is itself a conjunct of
  the invariant. `NoncesStayFresh` needs the requests that were dropped and may
  still arrive: every nonce was drawn, and those pending or late are different and
  unseen (`NoncesDrawn`). For `AnswersBelongToRequests` and `ApprovalsAreReported`
  what is on the wire was signed for the request that waits (`InFlight`), which
  makes the check of the payload against the signed request enough.
* `PayloadIgnoresOrder`: two lists with the same elements, each once, sort alike
  (`NumbersSortedAlike`, `VaultsSortedAlike` and the like). The ranks of distinct
  keys are a permutation, by counting with finite cardinalities; no induction over
  lists is needed. The code finds duplicates by looking at sorted neighbours:
  `DuplicatesFound` shows that this finds every one. A contribution whose payload
  exists therefore has the same payload in every order, for lists of any length.
* The theorems of `AgentAccessProofs` share `AgentInv`: every creation carries the
  nonce of its own call, every used nonce has made exactly one agent, every
  request and every row keeps the signature of a membership some owner signed, and
  before the first confusion the rows without the time of a revocation are the
  standing memberships (`Standing`). A row whose columns the
  service exchanged still has its signature, and a signature covers every column
  (`SignatureCoversRow`), so it verifies only when it is a signed row again.
  `ReportedAccessIsGranted` follows from `Standing`: the rows `caller_access` keeps
  are the standing memberships it can read, through any order of grants,
  delegations, revocations and repetitions of them.
  `ContributionsVerifyInEveryOrder` uses `PayloadIgnoresOrder`.
* `DocumentTypes`, `BuiltinsAreNotShadowed`, `SelectorsAlwaysFailClosed`:
  `DocTypes` adds that the stored document is tagged with the item's kind. The
  other two are about `extract_field` applied to two contents that agree on what a
  built-in name, or a selector, may read (`BuiltinAgrees`, `ExtractAgrees`).
* `EditsChangeOneField`: the refinement of `ItemRegister`. Its core is
  `RoundTrip`: `decode` undoes `encode` for every valid content of all thirteen
  kinds, nested structs included, because whatever is left out is the default that
  is filled in (`OmittedIsDefault`), and no content field is called `kind`
  (`EncodedTagged`). `DocInv` adds that the stored document decodes to a valid
  content and that a copy of the current revision is what it decodes to, so a save
  that is not refused changes what was edited and nothing else. The hypothesis
  that no other version writes purposes this one does not know is needed: run
  `documents_purpose` shows what happens otherwise.

Only model-checked: `CallsReturn` and `RequestsEnd`, because liveness under
fairness is out of the prover's reach, and the three runs that show a violation.

## 6. Not modelled, and the plan

Every safety property that a passing run checks is now a theorem. Next, in this
order:

1. What a move promises when its trash is refused or times out: the copy is
   stored and the source is as it was or trashed, never erased.
2. The safety half of `CallsReturn` and `RequestsEnd`: in every reachable state a
   waiting call has a step that resumes it.
3. A signature that verifies determines the contribution up to order
   (`PayloadIgnoresOrder` is the other direction).
4. `SealedRecords` with several confusions of boxes, in place of the guarantee up
   to the first one.

Not modelled: the metered envelope, cut error bodies and retry delays
(conversions of one response, in which the gateway's side is unknown);
attachment size caps, KDF parameter bounds, entropy estimates, password and
passphrase generators (arithmetic without state); the grammars of references,
URLs and RFC 3339 revisions; listings and `get_approval_status` (reads); startup
checks of the sidecar's environment; cipher, signature and hash algorithms
(symbolic here); memory zeroization, argument conversion, debug formatting.
