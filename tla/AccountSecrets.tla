---------------------------- MODULE AccountSecrets ----------------------------
(***************************************************************************)
(* The account_secrets row of one user and the devices that create, unlock, *)
(* edit, recover and replace it (protocol/account.rs, recovery.rs,          *)
(* account_secrets_update.rs, recovery_proof.rs and their wasm bindings).   *)
(*                                                                         *)
(* Each device edits its own copy and sends the whole blob back, signed.    *)
(* Requests may be lost, arrive late, out of order and more than once.      *)
(***************************************************************************)
EXTENDS Integers, FiniteSets

CONSTANTS
    Devices,
    Passwords,
    Profiles,        \* KDF profiles a host may pass to setup
    PROFILES,        \* the approved ones
    DefaultProfile,
    MaxAge,          \* max_age of the service's freshness check
    Skew,            \* how far device clocks are off
    NoBlob,
    MaxDraws,        \* bound: setups and edits
    MaxSent,         \* bound: signed requests
    MaxClock         \* bound: time

VARIABLES
    row,         \* the stored AccountSecrets
    dev,         \* what each device holds
    sheets,      \* recovery keys the user was shown
    net,         \* requests sent
    challenges,  \* recovery challenges the service issued and not yet closed
    clock,       \* the service's
    draws        \* random draws so far: keys and salts are numbered by it

vars == <<row, dev, sheets, net, challenges, clock, draws>>

-------------------------------------------------------------------------------
(* Data *)

KdfParams == [profile : Profiles, salt : Nat]

\* The account key sealed under the key derived from a password or a recovery
\* key with the given parameters.
PasswordWrap == [secret : Passwords, params : KdfParams, account : Nat]
RecoveryWrap == [secret : Nat, params : KdfParams, account : Nat]

\* identity stands for both identity key pairs: sealed under the account key,
\* with the public halves next to them.  chain is not stored: it remembers
\* which password and recovery key the edits that led to this blob set last,
\* and which recovery keys a recovery consumed.
Chain == [password : Passwords, recovery : Nat, consumed : SUBSET Nat]
Blob ==
    [kdf_params : KdfParams, recovery_kdf_params : KdfParams,
     account_key_wrap : PasswordWrap, recovery_key_wrap : RecoveryWrap,
     identity : [under : Nat, pair : Nat], public : Nat, chain : Chain]

\* key and pair are the account key and the signing key of the session, 0 when
\* there is none; used is the recovery key the session was opened with.
Device ==
    [copy : Blob \cup {NoBlob}, edited : BOOLEAN, key : Nat, pair : Nat,
     used : Nat, challenge : Nat]

\* at is the service's time when the request was signed.
Message ==
    [kind : {"create", "update", "recovery"}, blob : Blob, signer : Nat,
     issued_at : Int, at : Nat, challenge : Nat]

ASSUME AccountAssumption ==
    /\ PROFILES \subseteq Profiles /\ DefaultProfile \in PROFILES
    /\ MaxAge \in Nat /\ Skew \in Nat
    /\ MaxDraws \in Nat /\ MaxSent \in Nat /\ MaxClock \in Nat
    /\ NoBlob \notin Blob

\* An all-zero salt is refused as well.
validate_stored_params(p) == p.profile \in PROFILES /\ p.salt # 0

\* Mutant: the parameters of the throughput probe are stored.
ProbeParams(salt) == [profile |-> "probe", salt |-> 0]

default_params(salt) == [profile |-> DefaultProfile, salt |-> salt]

\* What unlock_account checks, with the public halves, and what
\* recover_with_recovery_key checks.
unlock_ok(b, password) ==
    /\ validate_stored_params(b.kdf_params)
    /\ b.account_key_wrap.secret = password
    /\ b.account_key_wrap.params = b.kdf_params
    /\ b.identity.under = b.account_key_wrap.account
    /\ b.public = b.identity.pair

recover_ok(b, recovery_key) ==
    /\ validate_stored_params(b.recovery_kdf_params)
    /\ b.recovery_key_wrap.secret = recovery_key
    /\ b.recovery_key_wrap.params = b.recovery_kdf_params

\* The signing keys the device can sign with: the one its unlock returned, or
\* the one its account key opens in the copy (unwrap_account_signing_private_key).
Signers(d) ==
    {s \in {dev[d].pair} : s # 0} \cup
    {s \in {dev[d].copy.identity.pair} : dev[d].copy.identity.under = dev[d].key}

-------------------------------------------------------------------------------
(* Devices *)

\* What a host may pass to setup: any profile, with a fresh salt or with the
\* all-zero placeholder of probe_params.
HostParams(salt) == [profile : Profiles, salt : {0, salt}]

SetupBlob(password, kdf, rkdf) ==
    LET account == draws + 3
        recovery_key == draws + 4
    IN  [kdf_params |-> kdf, recovery_kdf_params |-> rkdf,
         account_key_wrap |->
            [secret |-> password, params |-> kdf, account |-> account],
         recovery_key_wrap |->
            [secret |-> recovery_key, params |-> rkdf, account |-> account],
         identity |-> [under |-> account, pair |-> draws + 5],
         public |-> draws + 5,
         chain |-> [password |-> password, recovery |-> recovery_key,
                    consumed |-> {}]]

\* Setup refuses what unlock and recovery would refuse.
SetupAccepts(p) == validate_stored_params(p)

\* First run on a device: nothing was stored when the host looked.
account_setup_with_params(d, password, kdf, rkdf) ==
    /\ dev[d].copy = NoBlob
    /\ SetupAccepts(kdf) /\ SetupAccepts(rkdf)
    /\ draws + 5 <= 5 * MaxDraws /\ Cardinality(net) < MaxSent
    /\ LET b == SetupBlob(password, kdf, rkdf)
       IN  /\ dev' = [dev EXCEPT ![d] = [@ EXCEPT !.copy = b, !.edited = FALSE]]
           /\ sheets' = sheets \cup {b.chain.recovery}
           /\ net' = net \cup {[kind |-> "create", blob |-> b, signer |-> 0,
                                issued_at |-> 0, at |-> clock, challenge |-> 0]}
    /\ draws' = draws + 5
    /\ UNCHANGED <<row, challenges, clock>>

\* The host reads the row; an open session stays open.  Sessions are opened on
\* a blob as it was set up or read, never on one the host has edited.
Fetch(d) ==
    /\ row # NoBlob
    /\ dev[d].copy # row
    /\ dev' = [dev EXCEPT ![d] = [@ EXCEPT !.copy = row, !.edited = FALSE]]
    /\ UNCHANGED <<row, sheets, net, challenges, clock, draws>>

unlock_account(d, password) ==
    /\ dev[d].copy # NoBlob /\ ~dev[d].edited
    /\ unlock_ok(dev[d].copy, password)
    /\ dev' = [dev EXCEPT ![d] =
            [@ EXCEPT !.key = dev[d].copy.account_key_wrap.account,
                      !.pair = dev[d].copy.identity.pair, !.used = 0]]
    /\ UNCHANGED <<row, sheets, net, challenges, clock, draws>>

recover_with_recovery_key(d, recovery_key) ==
    /\ dev[d].copy # NoBlob /\ ~dev[d].edited
    /\ recover_ok(dev[d].copy, recovery_key)
    /\ dev' = [dev EXCEPT ![d] =
            [@ EXCEPT !.key = dev[d].copy.recovery_key_wrap.account,
                      !.pair = 0, !.used = recovery_key]]
    /\ UNCHANGED <<row, sheets, net, challenges, clock, draws>>

\* Mutant: the new salt is not stored with the new wrap.
RewrapWithOldParams(b, account, password, salt) ==
    [b EXCEPT
        !.account_key_wrap = [secret |-> password, params |-> default_params(salt),
                              account |-> account],
        !.chain.password = password]

\* The account key under a new master password.
rewrap(b, account, password, salt) ==
    [b EXCEPT
        !.kdf_params = default_params(salt),
        !.account_key_wrap = [secret |-> password, params |-> default_params(salt),
                              account |-> account],
        !.chain.password = password]

\* Mutant: the recovery wrap stays.
KeepRecoveryKey(b, account, recovery_key, salt) == b

regenerated(b, account, recovery_key, salt) ==
    [b EXCEPT
        !.recovery_kdf_params = default_params(salt),
        !.recovery_key_wrap = [secret |-> recovery_key,
                               params |-> default_params(salt),
                               account |-> account],
        !.chain.recovery = recovery_key]

\* Edits happen in place, on the copy, with the account key of the session.
Edit(d, b) ==
    /\ dev[d].copy # NoBlob /\ dev[d].key # 0
    /\ draws + 5 <= 5 * MaxDraws
    /\ dev' = [dev EXCEPT ![d] = [@ EXCEPT !.copy = b, !.edited = TRUE]]
    /\ draws' = draws + 5
    /\ UNCHANGED <<row, net, challenges, clock>>

change_master_password(d, password) ==
    /\ Edit(d, rewrap(dev[d].copy, dev[d].key, password, draws + 1))
    /\ UNCHANGED sheets

regenerate_recovery_key(d) ==
    /\ Edit(d, regenerated(dev[d].copy, dev[d].key, draws + 4, draws + 2))
    /\ sheets' = sheets \cup {draws + 4}

\* After a recovery: both, and the used key counts as consumed.
rewrap_account_key_after_recovery(d, password) ==
    /\ dev[d].used # 0
    /\ Edit(d, [regenerated(rewrap(dev[d].copy, dev[d].key, password, draws + 1),
                            dev[d].key, draws + 4, draws + 2)
                EXCEPT !.chain.consumed = @ \cup {dev[d].used}])
    /\ sheets' = sheets \cup {draws + 4}

\* The request for the replacement: signed with the device's clock.  A host
\* whose request failed may sign and send again.
sign_secrets_update_proof(d, issued_at, signer) ==
    /\ dev[d].copy # NoBlob /\ dev[d].edited /\ dev[d].key # 0
    /\ signer \in Signers(d) /\ Cardinality(net) < MaxSent
    /\ issued_at \in (clock - Skew)..(clock + Skew)
    /\ net' = net \cup {[kind |-> "update", blob |-> dev[d].copy,
                         signer |-> signer, issued_at |-> issued_at,
                         at |-> clock, challenge |-> 0]}
    /\ UNCHANGED <<row, dev, sheets, challenges, clock, draws>>

sign_recovery_proof(d, signer) ==
    /\ dev[d].copy # NoBlob /\ dev[d].edited /\ dev[d].key # 0
    /\ dev[d].challenge # 0
    /\ signer \in Signers(d) /\ Cardinality(net) < MaxSent
    /\ net' = net \cup {[kind |-> "recovery", blob |-> dev[d].copy,
                         signer |-> signer, issued_at |-> 0, at |-> clock,
                         challenge |-> dev[d].challenge]}
    /\ UNCHANGED <<row, dev, sheets, challenges, clock, draws>>

-------------------------------------------------------------------------------
(* The service *)

\* Mutant: the signature is checked, the age is not.
verify_update_proof(m) == m.signer = row.public

\* verify_update_proof and the window [issued_at, issued_at + max_age].
verify_update_proof_fresh(m) ==
    /\ m.signer = row.public
    /\ m.issued_at <= clock
    /\ m.issued_at + MaxAge >= clock

verify_recovery_proof(m) ==
    /\ m.signer = row.public
    /\ m.challenge \in challenges

\* The service issues a challenge and sends the row with it.
StartRecovery(d) ==
    /\ row # NoBlob
    /\ dev[d].challenge = 0
    /\ draws + 5 <= 5 * MaxDraws
    /\ challenges' = challenges \cup {draws + 1}
    /\ dev' = [dev EXCEPT ![d] =
            [@ EXCEPT !.copy = row, !.edited = FALSE, !.key = 0, !.pair = 0,
                      !.used = 0, !.challenge = draws + 1]]
    /\ draws' = draws + 5
    /\ UNCHANGED <<row, sheets, net, clock>>

\* The first creation is stored.  A replacement keeps the public halves, which
\* are no part of the signed blob.
Deliver(m) ==
    /\ \/ m.kind = "create" /\ row = NoBlob
          /\ row' = m.blob /\ UNCHANGED challenges
       \/ m.kind = "update" /\ row # NoBlob /\ verify_update_proof_fresh(m)
          /\ row' = [m.blob EXCEPT !.public = row.public]
          /\ UNCHANGED challenges
       \/ m.kind = "recovery" /\ row # NoBlob /\ verify_recovery_proof(m)
          /\ row' = [m.blob EXCEPT !.public = row.public]
          /\ challenges' = challenges \ {m.challenge}
    /\ UNCHANGED <<dev, sheets, net, clock, draws>>

Tick ==
    /\ clock < MaxClock
    /\ clock' = clock + 1
    /\ UNCHANGED <<row, dev, sheets, net, challenges, draws>>

-------------------------------------------------------------------------------
(* Specification *)

Init ==
    /\ row = NoBlob
    /\ dev = [d \in Devices |->
                [copy |-> NoBlob, edited |-> FALSE, key |-> 0, pair |-> 0,
                 used |-> 0, challenge |-> 0]]
    /\ sheets = {} /\ net = {} /\ challenges = {}
    /\ clock = 0 /\ draws = 0

Step(d) ==
    \/ \E p \in Passwords,
          kdf \in HostParams(draws + 1), rkdf \in HostParams(draws + 2) :
            account_setup_with_params(d, p, kdf, rkdf)
    \/ Fetch(d)
    \/ \E p \in Passwords : unlock_account(d, p)
    \/ \E k \in sheets : recover_with_recovery_key(d, k)
    \/ \E p \in Passwords : change_master_password(d, p)
    \/ regenerate_recovery_key(d)
    \/ \E p \in Passwords : rewrap_account_key_after_recovery(d, p)
    \/ \E t \in (clock - Skew)..(clock + Skew), s \in 0..draws :
            sign_secrets_update_proof(d, t, s)
    \/ \E s \in 0..draws : sign_recovery_proof(d, s)
    \/ StartRecovery(d)

Next == (\E d \in Devices : Step(d)) \/ (\E m \in net : Deliver(m)) \/ Tick

Spec == Init /\ [][Next]_vars

-------------------------------------------------------------------------------
(* Properties *)

\* Every variable stays in its type.
TypeOK ==
    /\ row \in Blob \cup {NoBlob}
    /\ dev \in [Devices -> Device]
    /\ sheets \subseteq Nat
    /\ net \subseteq Message
    /\ challenges \subseteq Nat
    /\ clock \in Nat /\ draws \in Nat

\* Whatever devices set up, edit from old copies, recover and send late or
\* twice, the stored account opens: the password last chosen in the chain of
\* edits behind the stored blob unlocks it, the recovery key last shown in that
\* chain recovers the same account key, and both give the identity that the
\* public halves name.
AccountOpens ==
    row # NoBlob =>
        /\ unlock_ok(row, row.chain.password)
        /\ recover_ok(row, row.chain.recovery) /\ row.chain.recovery \in sheets
        /\ row.recovery_key_wrap.account = row.account_key_wrap.account

(* The invariant behind AccountOpens.  r and s stand for row and sheets. *)

\* Every blob carries the parameters its wraps were made with, and its own
\* identity; accounts and identities are drawn together.
SelfConsistent(b, s) ==
    /\ validate_stored_params(b.kdf_params)
    /\ validate_stored_params(b.recovery_kdf_params)
    /\ b.account_key_wrap.secret = b.chain.password
    /\ b.account_key_wrap.params = b.kdf_params
    /\ b.recovery_key_wrap.secret = b.chain.recovery
    /\ b.recovery_key_wrap.params = b.recovery_kdf_params
    /\ b.chain.recovery \in s
    /\ b.public = b.identity.pair
    /\ b.identity.pair = b.identity.under + 2

\* Both wraps hold the account key of the blob's identity or the given one.
WrapsHold(b, key) ==
    /\ b.account_key_wrap.account \in {b.identity.under, key}
    /\ b.recovery_key_wrap.account \in {b.identity.under, key}

SameAccount(b, r) == r # NoBlob /\ b.public = r.public

RowSound ==
    row # NoBlob =>
        SelfConsistent(row, sheets) /\ WrapsHold(row, row.identity.under)

\* A session may hold the key of another account than the copy's only when the
\* copy is one of the stored row: its device lost the race of two setups.
DeviceSound(v, r, s) ==
    /\ v.pair # 0 => v.pair = v.key + 2
    /\ v.copy = NoBlob => v.key = 0
    /\ v.copy # NoBlob =>
        /\ SelfConsistent(v.copy, s)
        /\ WrapsHold(v.copy, IF v.edited THEN v.key ELSE v.copy.identity.under)
        /\ SameAccount(v.copy, r) \/ v.key \in {0, v.copy.identity.under}

\* What such a device edits, it signs as the other account.
MessageSound(m, r, s) ==
    /\ SelfConsistent(m.blob, s)
    /\ WrapsHold(m.blob, IF m.kind = "create" THEN m.blob.identity.under
                         ELSE m.signer - 2)
    /\ \/ m.kind = "create"
       \/ SameAccount(m.blob, r)
       \/ m.signer = m.blob.public

AccountInv ==
    /\ TypeOK
    /\ RowSound
    /\ \A d \in Devices : DeviceSound(dev[d], row, sheets)
    /\ \A m \in net : MessageSound(m, row, sheets)

\* rewrap_account_key_after_recovery rotates the key: no blob that descends
\* from a finished recovery opens with the recovery key it consumed, however
\* many password changes follow.
ConsumedSheetsDead ==
    row # NoBlob => \A k \in row.chain.consumed : ~recover_ok(row, k)

\* verify_update_proof_fresh: a replacement takes effect at most max_age and
\* the clocks' difference after a device signed it, so an older request that
\* arrives late or again cannot bring an old password back.
ReplacementsRecent ==
    [][row # NoBlob /\ row' # row =>
        \E m \in net :
            /\ row' = [m.blob EXCEPT !.public = row.public]
            /\ \/ m.kind = "update" /\ clock - m.at <= MaxAge + Skew
               \/ m.kind = "recovery" /\ m.challenge \notin challenges']_vars
===============================================================================
