------------------------- MODULE AccountSecretsProofs -------------------------
(***************************************************************************)
(* The stored account always opens, for any number of devices, passwords,   *)
(* edits and late or repeated requests.                                     *)
(***************************************************************************)
EXTENDS AccountSecrets, TLAPS

\* default_params of kdf.rs mints an approved profile.
LEMMA DefaultParams ==
    ASSUME NEW salt \in Nat, salt # 0
    PROVE  /\ default_params(salt) \in KdfParams
           /\ validate_stored_params(default_params(salt))
  BY AccountAssumption DEF default_params, KdfParams, validate_stored_params

\* The blob account_setup_with_params builds: its parameters are the ones its
\* wraps were made with, and everything is about one new account.
LEMMA SetupFacts ==
    ASSUME NEW p \in Passwords, NEW kdf \in KdfParams, NEW rkdf \in KdfParams,
           validate_stored_params(kdf), validate_stored_params(rkdf),
           draws \in Nat
    PROVE  LET b == SetupBlob(p, kdf, rkdf) IN
           /\ b \in Blob
           /\ validate_stored_params(b.kdf_params)
           /\ validate_stored_params(b.recovery_kdf_params)
           /\ b.account_key_wrap.secret = b.chain.password
           /\ b.account_key_wrap.params = b.kdf_params
           /\ b.recovery_key_wrap.secret = b.chain.recovery
           /\ b.recovery_key_wrap.params = b.recovery_kdf_params
           /\ b.chain.recovery = draws + 4
           /\ b.public = b.identity.pair
           /\ b.identity.pair = b.identity.under + 2
           /\ b.account_key_wrap.account = b.identity.under
           /\ b.recovery_key_wrap.account = b.identity.under
  <1>1. SetupBlob(p, kdf, rkdf) =
         [kdf_params |-> kdf, recovery_kdf_params |-> rkdf,
          account_key_wrap |->
             [secret |-> p, params |-> kdf, account |-> draws + 3],
          recovery_key_wrap |->
             [secret |-> draws + 4, params |-> rkdf, account |-> draws + 3],
          identity |-> [under |-> draws + 3, pair |-> draws + 5],
          public |-> draws + 5,
          chain |-> [password |-> p, recovery |-> draws + 4, consumed |-> {}]]
    BY DEF SetupBlob
  <1>2. SetupBlob(p, kdf, rkdf) \in Blob
    BY <1>1 DEF Blob, PasswordWrap, RecoveryWrap, Chain
  <1> QED
    BY <1>1, <1>2

\* change_master_password replaces the wrap together with its parameters and
\* touches nothing else.
LEMMA RewrapFacts ==
    ASSUME NEW b \in Blob, NEW k \in Nat, NEW p \in Passwords, NEW salt \in Nat,
           salt # 0
    PROVE  LET c == rewrap(b, k, p, salt) IN
           /\ c \in Blob
           /\ validate_stored_params(c.kdf_params)
           /\ c.account_key_wrap.secret = c.chain.password
           /\ c.account_key_wrap.params = c.kdf_params
           /\ c.account_key_wrap.account = k
           /\ c.recovery_kdf_params = b.recovery_kdf_params
           /\ c.recovery_key_wrap = b.recovery_key_wrap
           /\ c.identity = b.identity /\ c.public = b.public
           /\ c.chain.recovery = b.chain.recovery
           /\ c.chain.consumed = b.chain.consumed
  <1> DEFINE q == default_params(salt)
             c == rewrap(b, k, p, salt)
  <1>1. q \in KdfParams /\ validate_stored_params(q)
    BY DefaultParams
  <1> HIDE DEF q
  <1>2. c = [b EXCEPT !.kdf_params = q,
                      !.account_key_wrap =
                         [secret |-> p, params |-> q, account |-> k],
                      !.chain.password = p]
    BY DEF rewrap, q
  <1>3. /\ c.kdf_params = q
        /\ c.account_key_wrap = [secret |-> p, params |-> q, account |-> k]
        /\ c.chain = [b.chain EXCEPT !.password = p]
        /\ c.recovery_kdf_params = b.recovery_kdf_params
        /\ c.recovery_key_wrap = b.recovery_key_wrap
        /\ c.identity = b.identity /\ c.public = b.public
    BY <1>2 DEF Blob
  <1>4. /\ c.chain \in Chain /\ c.chain.password = p
        /\ c.chain.recovery = b.chain.recovery
        /\ c.chain.consumed = b.chain.consumed
    BY <1>3 DEF Blob, Chain
  <1>5. c.account_key_wrap \in PasswordWrap
    BY <1>1, <1>3 DEF PasswordWrap
  <1>6. c \in Blob
    BY <1>1, <1>2, <1>3, <1>4, <1>5 DEF Blob
  <1> QED
    BY <1>1, <1>3, <1>4, <1>6

\* c is b with its recovery wrap made anew for recovery key r and account key k.
Regenerates(c, b, k, r) ==
    /\ c \in Blob
    /\ validate_stored_params(c.recovery_kdf_params)
    /\ c.recovery_key_wrap.secret = r
    /\ c.recovery_key_wrap.params = c.recovery_kdf_params
    /\ c.recovery_key_wrap.account = k
    /\ c.kdf_params = b.kdf_params
    /\ c.account_key_wrap = b.account_key_wrap
    /\ c.identity = b.identity /\ c.public = b.public
    /\ c.chain.recovery = r /\ c.chain.password = b.chain.password
    /\ c.chain.consumed = b.chain.consumed

\* regenerate_recovery_key likewise, for the recovery wrap.
LEMMA RegeneratedFacts ==
    ASSUME NEW b \in Blob, NEW k \in Nat, NEW r \in Nat, NEW salt \in Nat,
           salt # 0
    PROVE  Regenerates(regenerated(b, k, r, salt), b, k, r)
  <1> DEFINE q == default_params(salt)
             c == regenerated(b, k, r, salt)
  <1>1. q \in KdfParams /\ validate_stored_params(q)
    BY DefaultParams
  <1> HIDE DEF q
  <1>2. c = [b EXCEPT !.recovery_kdf_params = q,
                      !.recovery_key_wrap =
                         [secret |-> r, params |-> q, account |-> k],
                      !.chain.recovery = r]
    BY DEF regenerated, q
  <1>3. /\ c.recovery_kdf_params = q
        /\ c.recovery_key_wrap = [secret |-> r, params |-> q, account |-> k]
        /\ c.chain = [b.chain EXCEPT !.recovery = r]
        /\ c.kdf_params = b.kdf_params
        /\ c.account_key_wrap = b.account_key_wrap
        /\ c.identity = b.identity /\ c.public = b.public
    BY <1>2 DEF Blob
  <1>4. /\ c.chain \in Chain /\ c.chain.recovery = r
        /\ c.chain.password = b.chain.password
        /\ c.chain.consumed = b.chain.consumed
    BY <1>3 DEF Blob, Chain
  <1>5. c.recovery_key_wrap \in RecoveryWrap
    BY <1>1, <1>3 DEF RecoveryWrap
  <1>6. c \in Blob
    BY <1>1, <1>2, <1>3, <1>4, <1>5 DEF Blob
  <1> QED
    BY <1>1, <1>3, <1>4, <1>6 DEF Regenerates

-------------------------------------------------------------------------------
(* Steps of devices *)

\* A device step changes one device, may show a recovery key and send requests.
\* It keeps the invariant if what it leaves behind is sound.
LEMMA DeviceStep ==
    ASSUME AccountInv, NEW d \in Devices, NEW v \in Device,
           dev' = [dev EXCEPT ![d] = v],
           row' = row,
           sheets \subseteq sheets', sheets' \subseteq Nat,
           net' \subseteq Message, challenges' \subseteq Nat,
           clock' \in Nat, draws' \in Nat,
           DeviceSound(v, row, sheets'),
           \A m \in net' : m \in net \/ MessageSound(m, row, sheets')
    PROVE  AccountInv'
  <1>1. ASSUME NEW b, SelfConsistent(b, sheets)
        PROVE  SelfConsistent(b, sheets')
    BY <1>1 DEF SelfConsistent
  <1>2. TypeOK'
    BY DEF AccountInv, TypeOK
  <1>3. RowSound'
    <2>1. row # NoBlob =>
            SelfConsistent(row, sheets) /\ WrapsHold(row, row.identity.under)
      BY DEF AccountInv, RowSound
    <2>2. row # NoBlob =>
            SelfConsistent(row, sheets') /\ WrapsHold(row, row.identity.under)
      BY <1>1, <2>1
    <2> QED
      BY <2>2 DEF RowSound
  <1>4. \A e \in Devices : DeviceSound(dev'[e], row', sheets')
    <2> SUFFICES ASSUME NEW e \in Devices PROVE DeviceSound(dev'[e], row, sheets')
      OBVIOUS
    <2>1. CASE e = d
      BY <2>1 DEF AccountInv, TypeOK
    <2>2. CASE e # d
      <3>1. dev'[e] = dev[e] /\ DeviceSound(dev[e], row, sheets)
        BY <2>2 DEF AccountInv, TypeOK
      <3> QED
        BY <1>1, <3>1 DEF DeviceSound
    <2> QED
      BY <2>1, <2>2
  <1>5. \A m \in net' : MessageSound(m, row', sheets')
    <2> SUFFICES ASSUME NEW m \in net' PROVE MessageSound(m, row, sheets')
      OBVIOUS
    <2>1. CASE m \in net
      BY <1>1, <2>1 DEF AccountInv, MessageSound
    <2> QED
      BY <2>1
  <1> QED
    BY <1>2, <1>3, <1>4, <1>5 DEF AccountInv

\* What the invariant says of one device.
LEMMA DeviceFacts ==
    ASSUME AccountInv, NEW d \in Devices
    PROVE  /\ dev[d] \in Device /\ DeviceSound(dev[d], row, sheets)
           /\ draws \in Nat /\ clock \in Nat
           /\ sheets \subseteq Nat /\ net \subseteq Message
           /\ challenges \subseteq Nat
           /\ row \in Blob \cup {NoBlob}
  BY DEF AccountInv, TypeOK

\* account_setup_with_params: the new blob is sound and shown to its own device.
LEMMA SetupStep ==
    ASSUME AccountInv, NEW d \in Devices, NEW p \in Passwords,
           NEW kdf \in HostParams(draws + 1), NEW rkdf \in HostParams(draws + 2),
           account_setup_with_params(d, p, kdf, rkdf)
    PROVE  AccountInv'
  <1> DEFINE b == SetupBlob(p, kdf, rkdf)
             v == [dev[d] EXCEPT !.copy = b, !.edited = FALSE]
             m == [kind |-> "create", blob |-> b, signer |-> 0, issued_at |-> 0,
                   at |-> clock, challenge |-> 0]
  <1>1. /\ dev[d].copy = NoBlob
        /\ validate_stored_params(kdf) /\ validate_stored_params(rkdf)
        /\ dev' = [dev EXCEPT ![d] = v]
        /\ sheets' = sheets \cup {b.chain.recovery}
        /\ net' = net \cup {m} /\ draws' = draws + 5
        /\ row' = row /\ challenges' = challenges /\ clock' = clock
    BY DEF account_setup_with_params, SetupAccepts
  <1>2. /\ dev[d] \in Device /\ DeviceSound(dev[d], row, sheets)
        /\ draws \in Nat /\ clock \in Nat /\ sheets \subseteq Nat
        /\ net \subseteq Message /\ challenges \subseteq Nat
    BY DeviceFacts
  <1>3. kdf \in KdfParams /\ rkdf \in KdfParams
    BY <1>2 DEF HostParams, KdfParams
  <1>4. /\ b \in Blob /\ b.chain.recovery = draws + 4
        /\ b.account_key_wrap.account = b.identity.under
        /\ b.recovery_key_wrap.account = b.identity.under
        /\ SelfConsistent(b, sheets')
    BY <1>1, <1>2, <1>3, SetupFacts DEF SelfConsistent
  <1> HIDE DEF b
  <1>5. v \in Device /\ v.copy = b /\ v.edited = FALSE /\ v.key = dev[d].key
        /\ v.pair = dev[d].pair
    BY <1>2, <1>4 DEF Device
  <1>6. b # NoBlob
    BY <1>4, AccountAssumption
  <1>7. dev[d].key = 0 /\ (dev[d].pair # 0 => dev[d].pair = dev[d].key + 2)
    BY <1>1, <1>2 DEF DeviceSound
  <1>8. WrapsHold(b, b.identity.under)
    BY <1>4 DEF WrapsHold
  <1>9. DeviceSound(v, row, sheets')
    BY <1>4, <1>5, <1>6, <1>7, <1>8 DEF DeviceSound
  <1>10. m \in Message /\ m.blob = b /\ m.kind = "create"
    BY <1>2, <1>4 DEF Message
  <1>11. MessageSound(m, row, sheets')
    BY <1>4, <1>8, <1>10 DEF MessageSound
  <1> HIDE DEF v, m
  <1>12. sheets \subseteq sheets' /\ sheets' \subseteq Nat /\ draws' \in Nat
    BY <1>1, <1>2, <1>4
  <1>13. /\ net' \subseteq Message
         /\ \A x \in net' : x \in net \/ MessageSound(x, row, sheets')
    BY <1>1, <1>2, <1>10, <1>11
  <1> QED
    BY <1>1, <1>2, <1>5, <1>9, <1>12, <1>13, DeviceStep

\* A device that reads the row holds a sound copy of it.
LEMMA FetchStep ==
    ASSUME AccountInv, NEW d \in Devices, Fetch(d)
    PROVE  AccountInv'
  <1> DEFINE v == [dev[d] EXCEPT !.copy = row, !.edited = FALSE]
  <1>1. /\ row # NoBlob /\ dev' = [dev EXCEPT ![d] = v]
        /\ UNCHANGED <<row, sheets, net, challenges, clock, draws>>
    BY DEF Fetch
  <1>2. /\ dev[d] \in Device /\ DeviceSound(dev[d], row, sheets)
        /\ draws \in Nat /\ clock \in Nat /\ sheets \subseteq Nat
        /\ net \subseteq Message /\ challenges \subseteq Nat
        /\ row \in Blob \cup {NoBlob}
    BY DeviceFacts
  <1>3. v \in Device /\ v.copy = row /\ v.edited = FALSE /\ v.key = dev[d].key
        /\ v.pair = dev[d].pair
    BY <1>2 DEF Device
  <1>4. SelfConsistent(row, sheets) /\ WrapsHold(row, row.identity.under)
    BY <1>1 DEF AccountInv, RowSound
  <1>5. DeviceSound(v, row, sheets)
    BY <1>1, <1>2, <1>3, <1>4 DEF DeviceSound, SameAccount
  <1> HIDE DEF v
  <1> QED
    BY <1>1, <1>2, <1>3, <1>5, DeviceStep

\* unlock_account gives the session the key of the copy's own account.
LEMMA UnlockStep ==
    ASSUME AccountInv, NEW d \in Devices, NEW p \in Passwords,
           unlock_account(d, p)
    PROVE  AccountInv'
  <1> DEFINE b == dev[d].copy
             v == [dev[d] EXCEPT !.key = b.account_key_wrap.account,
                                 !.pair = b.identity.pair, !.used = 0]
  <1>1. /\ b # NoBlob /\ ~dev[d].edited /\ dev' = [dev EXCEPT ![d] = v]
        /\ UNCHANGED <<row, sheets, net, challenges, clock, draws>>
    BY DEF unlock_account
  <1>2. /\ dev[d] \in Device /\ DeviceSound(dev[d], row, sheets)
        /\ draws \in Nat /\ clock \in Nat /\ sheets \subseteq Nat
        /\ net \subseteq Message /\ challenges \subseteq Nat
    BY DeviceFacts
  <1>3. /\ b \in Blob /\ SelfConsistent(b, sheets)
        /\ WrapsHold(b, b.identity.under)
    BY <1>1, <1>2 DEF Device, DeviceSound
  <1>4. b.account_key_wrap.account \in Nat /\ b.identity.pair \in Nat
    BY <1>3 DEF Blob, PasswordWrap
  <1>5. /\ v \in Device /\ v.copy = b /\ v.edited = dev[d].edited
        /\ v.key = b.account_key_wrap.account /\ v.pair = b.identity.pair
    BY <1>2, <1>4 DEF Device
  <1>6. v.key = b.identity.under /\ v.pair = v.key + 2
    BY <1>3, <1>5 DEF WrapsHold, SelfConsistent
  <1> HIDE DEF v
  <1>7. DeviceSound(v, row, sheets)
    BY <1>1, <1>3, <1>5, <1>6 DEF DeviceSound
  <1> QED
    BY <1>1, <1>2, <1>5, <1>7, DeviceStep

\* recover_with_recovery_key gives the key of the copy's own account.
LEMMA RecoverStep ==
    ASSUME AccountInv, NEW d \in Devices, NEW k \in sheets,
           recover_with_recovery_key(d, k)
    PROVE  AccountInv'
  <1> DEFINE b == dev[d].copy
             v == [dev[d] EXCEPT !.key = b.recovery_key_wrap.account,
                                 !.pair = 0, !.used = k]
  <1>1. /\ b # NoBlob /\ ~dev[d].edited /\ dev' = [dev EXCEPT ![d] = v]
        /\ UNCHANGED <<row, sheets, net, challenges, clock, draws>>
    BY DEF recover_with_recovery_key
  <1>2. /\ dev[d] \in Device /\ DeviceSound(dev[d], row, sheets)
        /\ draws \in Nat /\ clock \in Nat /\ sheets \subseteq Nat
        /\ net \subseteq Message /\ challenges \subseteq Nat
    BY DeviceFacts
  <1>3. /\ b \in Blob /\ SelfConsistent(b, sheets)
        /\ WrapsHold(b, b.identity.under)
    BY <1>1, <1>2 DEF Device, DeviceSound
  <1>4. b.recovery_key_wrap.account \in Nat /\ k \in Nat
    BY <1>2, <1>3 DEF Blob, RecoveryWrap
  <1>5. /\ v \in Device /\ v.copy = b /\ v.edited = dev[d].edited
        /\ v.key = b.recovery_key_wrap.account /\ v.pair = 0
    BY <1>2, <1>4 DEF Device
  <1>6. v.key = b.identity.under
    BY <1>3, <1>5 DEF WrapsHold
  <1> HIDE DEF v
  <1>7. DeviceSound(v, row, sheets)
    BY <1>1, <1>3, <1>5, <1>6 DEF DeviceSound
  <1> QED
    BY <1>1, <1>2, <1>5, <1>7, DeviceStep

\* An edit keeps the invariant if the new blob is consistent, has the identity
\* of the old one, and each wrap is the old one or holds the session's key.
LEMMA EditStep ==
    ASSUME AccountInv, NEW d \in Devices, NEW b \in Blob, Edit(d, b),
           sheets \subseteq sheets', sheets' \subseteq Nat,
           SelfConsistent(b, sheets'),
           b.identity = dev[d].copy.identity, b.public = dev[d].copy.public,
           b.account_key_wrap.account
                \in {dev[d].copy.account_key_wrap.account, dev[d].key},
           b.recovery_key_wrap.account
                \in {dev[d].copy.recovery_key_wrap.account, dev[d].key}
    PROVE  AccountInv'
  <1> DEFINE v == [dev[d] EXCEPT !.copy = b, !.edited = TRUE]
  <1>1. /\ dev[d].copy # NoBlob /\ dev' = [dev EXCEPT ![d] = v]
        /\ draws' = draws + 5
        /\ UNCHANGED <<row, net, challenges, clock>>
    BY DEF Edit
  <1>2. /\ dev[d] \in Device /\ DeviceSound(dev[d], row, sheets)
        /\ draws \in Nat /\ clock \in Nat
        /\ net \subseteq Message /\ challenges \subseteq Nat
    BY DeviceFacts
  <1>3. /\ v \in Device /\ v.copy = b /\ v.edited = TRUE
        /\ v.key = dev[d].key /\ v.pair = dev[d].pair
    BY <1>2 DEF Device
  <1>4. WrapsHold(b, dev[d].key)
    BY <1>1, <1>2 DEF DeviceSound, WrapsHold
  <1>5. b # NoBlob
    BY AccountAssumption
  <1> HIDE DEF v
  <1>6. DeviceSound(v, row, sheets')
    BY <1>1, <1>2, <1>3, <1>4, <1>5 DEF DeviceSound, SameAccount
  <1>7. /\ row' = row /\ net' \subseteq Message /\ challenges' \subseteq Nat
        /\ clock' \in Nat /\ draws' \in Nat /\ \A x \in net' : x \in net
    BY <1>1, <1>2
  <1> QED
    BY <1>1, <1>3, <1>6, <1>7, DeviceStep

\* change_master_password keeps the invariant: a new wrap with its parameters.
LEMMA ChangePasswordStep ==
    ASSUME AccountInv, NEW d \in Devices, NEW p \in Passwords,
           change_master_password(d, p)
    PROVE  AccountInv'
  <1> DEFINE a == dev[d].copy
             c == rewrap(a, dev[d].key, p, draws + 1)
  <1>1. Edit(d, c) /\ a # NoBlob /\ sheets' = sheets
    BY DEF change_master_password, Edit
  <1>2. /\ dev[d] \in Device /\ DeviceSound(dev[d], row, sheets)
        /\ draws \in Nat /\ sheets \subseteq Nat
    BY DeviceFacts
  <1>3. a \in Blob /\ dev[d].key \in Nat /\ SelfConsistent(a, sheets)
    BY <1>1, <1>2 DEF Device, DeviceSound
  <1>4. /\ c \in Blob
        /\ validate_stored_params(c.kdf_params)
        /\ c.account_key_wrap.secret = c.chain.password
        /\ c.account_key_wrap.params = c.kdf_params
        /\ c.account_key_wrap.account = dev[d].key
        /\ c.recovery_kdf_params = a.recovery_kdf_params
        /\ c.recovery_key_wrap = a.recovery_key_wrap
        /\ c.identity = a.identity /\ c.public = a.public
        /\ c.chain.recovery = a.chain.recovery
    BY <1>2, <1>3, RewrapFacts
  <1> HIDE DEF c
  <1>5. SelfConsistent(c, sheets)
    BY <1>3, <1>4 DEF SelfConsistent
  <1> QED
    BY <1>1, <1>2, <1>4, <1>5, EditStep

\* regenerate_recovery_key keeps it: the new key is shown to the user.
LEMMA RegenerateStep ==
    ASSUME AccountInv, NEW d \in Devices, regenerate_recovery_key(d)
    PROVE  AccountInv'
  <1>1. /\ dev[d] \in Device /\ DeviceSound(dev[d], row, sheets)
        /\ draws \in Nat /\ sheets \subseteq Nat /\ dev[d].copy # NoBlob
    BY DeviceFacts DEF regenerate_recovery_key, Edit
  <1>2. PICK a \in Blob : a = dev[d].copy
    BY <1>1 DEF Device
  <1>3. PICK k \in Nat : k = dev[d].key
    BY <1>1 DEF Device
  <1>4. PICK r \in Nat : r = draws + 4
    BY <1>1
  <1>5. PICK z \in Nat : z = draws + 2 /\ z # 0
    BY <1>1
  <1>6. SelfConsistent(a, sheets)
    BY <1>1, <1>2 DEF DeviceSound
  <1> DEFINE c == regenerated(a, k, r, z)
  <1>7. Edit(d, c) /\ sheets' = sheets \cup {r}
    BY <1>2, <1>3, <1>4, <1>5 DEF regenerate_recovery_key
  <1>8. Regenerates(c, a, k, r)
    BY <1>5, RegeneratedFacts
  <1> HIDE DEF c
  <1>9. SelfConsistent(c, sheets')
    BY <1>6, <1>7, <1>8 DEF SelfConsistent, Regenerates
  <1>10. sheets \subseteq sheets' /\ sheets' \subseteq Nat
    BY <1>1, <1>7
  <1> QED
    BY <1>2, <1>3, <1>7, <1>8, <1>9, <1>10, EditStep DEF Regenerates

\* Marking a recovery key as consumed changes nothing else.
LEMMA ConsumedFacts ==
    ASSUME NEW b \in Blob, NEW k \in Nat
    PROVE  LET c == [b EXCEPT !.chain.consumed = @ \cup {k}] IN
           /\ c \in Blob
           /\ c.kdf_params = b.kdf_params
           /\ c.recovery_kdf_params = b.recovery_kdf_params
           /\ c.account_key_wrap = b.account_key_wrap
           /\ c.recovery_key_wrap = b.recovery_key_wrap
           /\ c.identity = b.identity /\ c.public = b.public
           /\ c.chain.password = b.chain.password
           /\ c.chain.recovery = b.chain.recovery
           /\ c.chain.consumed = b.chain.consumed \cup {k}
  <1> DEFINE e == [b.chain EXCEPT !.consumed = b.chain.consumed \cup {k}]
             c == [b EXCEPT !.chain = e]
  <1>1. [b EXCEPT !.chain.consumed = @ \cup {k}] = c
    OBVIOUS
  <1>2. e \in Chain /\ e.password = b.chain.password
        /\ e.recovery = b.chain.recovery
        /\ e.consumed = b.chain.consumed \cup {k}
    BY DEF Blob, Chain
  <1> HIDE DEF e
  <1>3. /\ c.chain = e /\ c.kdf_params = b.kdf_params
        /\ c.recovery_kdf_params = b.recovery_kdf_params
        /\ c.account_key_wrap = b.account_key_wrap
        /\ c.recovery_key_wrap = b.recovery_key_wrap
        /\ c.identity = b.identity /\ c.public = b.public
    BY DEF Blob
  <1>4. c \in Blob
    BY <1>2 DEF Blob
  <1> QED
    BY <1>1, <1>2, <1>3, <1>4

\* rewrap_account_key_after_recovery keeps it: both edits at once.
LEMMA RewrapAfterRecoveryStep ==
    ASSUME AccountInv, NEW d \in Devices, NEW p \in Passwords,
           rewrap_account_key_after_recovery(d, p)
    PROVE  AccountInv'
  <1>1. /\ dev[d] \in Device /\ DeviceSound(dev[d], row, sheets)
        /\ draws \in Nat /\ sheets \subseteq Nat /\ dev[d].copy # NoBlob
    BY DeviceFacts DEF rewrap_account_key_after_recovery, Edit
  <1>2. PICK a \in Blob : a = dev[d].copy
    BY <1>1 DEF Device
  <1>3. PICK k \in Nat : k = dev[d].key
    BY <1>1 DEF Device
  <1>4. PICK r \in Nat : r = draws + 4
    BY <1>1
  <1>5. PICK z \in Nat : z = draws + 2 /\ z # 0
    BY <1>1
  <1>6. PICK y \in Nat : y = draws + 1 /\ y # 0
    BY <1>1
  <1>7. PICK u \in Nat : u = dev[d].used
    BY <1>1 DEF Device
  <1>8. SelfConsistent(a, sheets)
    BY <1>1, <1>2 DEF DeviceSound
  <1> DEFINE c == rewrap(a, k, p, y)
             e == regenerated(c, k, r, z)
             h == [e EXCEPT !.chain.consumed = @ \cup {u}]
  <1>9. Edit(d, h) /\ sheets' = sheets \cup {r}
    BY <1>2, <1>3, <1>4, <1>5, <1>6, <1>7 DEF rewrap_account_key_after_recovery
  <1>10. /\ c \in Blob
         /\ validate_stored_params(c.kdf_params)
         /\ c.account_key_wrap.secret = c.chain.password
         /\ c.account_key_wrap.params = c.kdf_params
         /\ c.account_key_wrap.account = k
         /\ c.identity = a.identity /\ c.public = a.public
    BY <1>6, RewrapFacts
  <1> HIDE DEF c
  <1>11. Regenerates(e, c, k, r)
    BY <1>5, <1>10, RegeneratedFacts
  <1> HIDE DEF e
  <1>12. /\ h \in Blob
         /\ h.kdf_params = e.kdf_params
         /\ h.recovery_kdf_params = e.recovery_kdf_params
         /\ h.account_key_wrap = e.account_key_wrap
         /\ h.recovery_key_wrap = e.recovery_key_wrap
         /\ h.identity = e.identity /\ h.public = e.public
         /\ h.chain.password = e.chain.password
         /\ h.chain.recovery = e.chain.recovery
    BY <1>11, ConsumedFacts DEF Regenerates
  <1> HIDE DEF h
  <1>13. SelfConsistent(h, sheets')
    BY <1>8, <1>9, <1>10, <1>11, <1>12 DEF SelfConsistent, Regenerates
  <1>14. sheets \subseteq sheets' /\ sheets' \subseteq Nat
    BY <1>1, <1>9
  <1> QED
    BY <1>2, <1>3, <1>9, <1>10, <1>11, <1>12, <1>13, <1>14, EditStep
       DEF Regenerates

\* A signed request is sound: the signer is the identity of the session's
\* account key.
LEMMA SignedSound ==
    ASSUME AccountInv, NEW d \in Devices, NEW s \in Signers(d),
           dev[d].copy # NoBlob, dev[d].edited, dev[d].key # 0,
           NEW m, m.kind # "create", m.blob = dev[d].copy, m.signer = s
    PROVE  MessageSound(m, row, sheets) /\ s \in Nat
  <1> DEFINE b == dev[d].copy
  <1>1. dev[d] \in Device /\ DeviceSound(dev[d], row, sheets)
    BY DeviceFacts
  <1>2. b \in Blob /\ dev[d].key \in Nat /\ dev[d].pair \in Nat
    BY <1>1 DEF Device
  <1>3. b.identity.under \in Nat /\ b.identity.pair \in Nat
    BY <1>2 DEF Blob
  <1>4. /\ SelfConsistent(b, sheets) /\ WrapsHold(b, dev[d].key)
        /\ SameAccount(b, row) \/ dev[d].key = b.identity.under
        /\ dev[d].pair # 0 => dev[d].pair = dev[d].key + 2
    BY <1>1 DEF DeviceSound
  <1>5. b.public = b.identity.pair /\ b.identity.pair = b.identity.under + 2
    BY <1>4 DEF SelfConsistent
  <1>6. s = dev[d].key + 2
    BY <1>4, <1>5 DEF Signers
  <1>7. s \in Nat /\ s - 2 = dev[d].key
    BY <1>2, <1>6
  <1>8. WrapsHold(b, s - 2)
    BY <1>4, <1>7
  <1>9. SameAccount(b, row) \/ s = b.public
    BY <1>4, <1>5, <1>6
  <1> QED
    BY <1>4, <1>7, <1>8, <1>9 DEF MessageSound

\* Requests are added, nothing else changes.
LEMMA SendStep ==
    ASSUME AccountInv, NEW m \in Message, MessageSound(m, row, sheets),
           net' = net \cup {m},
           UNCHANGED <<row, dev, sheets, challenges, clock, draws>>
    PROVE  AccountInv'
  <1>1. TypeOK'
    BY DEF AccountInv, TypeOK
  <1>2. RowSound'
    BY DEF AccountInv, RowSound
  <1>3. \A e \in Devices : DeviceSound(dev'[e], row', sheets')
    BY DEF AccountInv
  <1>4. \A x \in net' : MessageSound(x, row', sheets')
    BY DEF AccountInv
  <1> QED
    BY <1>1, <1>2, <1>3, <1>4 DEF AccountInv

\* sign_secrets_update_proof sends a sound request.
LEMMA SignUpdateStep ==
    ASSUME AccountInv, NEW d \in Devices,
           NEW t \in (clock - Skew)..(clock + Skew), NEW s,
           sign_secrets_update_proof(d, t, s)
    PROVE  AccountInv'
  <1> DEFINE m == [kind |-> "update", blob |-> dev[d].copy, signer |-> s,
                   issued_at |-> t, at |-> clock, challenge |-> 0]
  <1>1. /\ dev[d].copy # NoBlob /\ dev[d].edited /\ dev[d].key # 0
        /\ s \in Signers(d) /\ net' = net \cup {m}
        /\ UNCHANGED <<row, dev, sheets, challenges, clock, draws>>
    BY DEF sign_secrets_update_proof
  <1>2. dev[d] \in Device /\ clock \in Nat
    BY DeviceFacts
  <1>3. t \in Int
    BY <1>2, AccountAssumption
  <1>4. m.kind # "create" /\ m.blob = dev[d].copy /\ m.signer = s
    OBVIOUS
  <1>5. MessageSound(m, row, sheets) /\ s \in Nat
    BY <1>1, <1>4, SignedSound
  <1>6. m \in Message
    BY <1>1, <1>2, <1>3, <1>5 DEF Message, Device
  <1> HIDE DEF m
  <1> QED
    BY <1>1, <1>5, <1>6, SendStep

\* sign_recovery_proof sends a sound request.
LEMMA SignRecoveryStep ==
    ASSUME AccountInv, NEW d \in Devices, NEW s, sign_recovery_proof(d, s)
    PROVE  AccountInv'
  <1> DEFINE m == [kind |-> "recovery", blob |-> dev[d].copy, signer |-> s,
                   issued_at |-> 0, at |-> clock,
                   challenge |-> dev[d].challenge]
  <1>1. /\ dev[d].copy # NoBlob /\ dev[d].edited /\ dev[d].key # 0
        /\ s \in Signers(d) /\ net' = net \cup {m}
        /\ UNCHANGED <<row, dev, sheets, challenges, clock, draws>>
    BY DEF sign_recovery_proof
  <1>2. dev[d] \in Device /\ clock \in Nat
    BY DeviceFacts
  <1>3. m.kind # "create" /\ m.blob = dev[d].copy /\ m.signer = s
    OBVIOUS
  <1>4. MessageSound(m, row, sheets) /\ s \in Nat
    BY <1>1, <1>3, SignedSound
  <1>5. m \in Message
    BY <1>1, <1>2, <1>4 DEF Message, Device
  <1> HIDE DEF m
  <1> QED
    BY <1>1, <1>4, <1>5, SendStep

\* A started recovery closes the session and reads the row.
LEMMA StartRecoveryStep ==
    ASSUME AccountInv, NEW d \in Devices, StartRecovery(d)
    PROVE  AccountInv'
  <1> DEFINE v == [dev[d] EXCEPT !.copy = row, !.edited = FALSE, !.key = 0,
                                 !.pair = 0, !.used = 0, !.challenge = draws + 1]
  <1>1. /\ row # NoBlob /\ dev' = [dev EXCEPT ![d] = v]
        /\ challenges' = challenges \cup {draws + 1} /\ draws' = draws + 5
        /\ UNCHANGED <<row, sheets, net, clock>>
    BY DEF StartRecovery
  <1>2. /\ dev[d] \in Device /\ draws \in Nat /\ clock \in Nat
        /\ sheets \subseteq Nat /\ net \subseteq Message
        /\ challenges \subseteq Nat /\ row \in Blob \cup {NoBlob}
    BY DeviceFacts
  <1>3. v \in Device /\ v.copy = row /\ v.edited = FALSE /\ v.key = 0
        /\ v.pair = 0
    <2>1. draws + 1 \in Nat
      BY <1>2
    <2>2. v.copy = row /\ v.edited = FALSE /\ v.key = 0 /\ v.pair = 0
      BY <1>2 DEF Device
    <2>3. v \in Device
      BY <1>2, <2>1 DEF Device
    <2> QED
      BY <2>2, <2>3
  <1>4. SelfConsistent(row, sheets) /\ WrapsHold(row, row.identity.under)
    BY <1>1 DEF AccountInv, RowSound
  <1> HIDE DEF v
  <1>5. DeviceSound(v, row, sheets)
    BY <1>1, <1>3, <1>4 DEF DeviceSound
  <1>6. /\ row' = row /\ net' \subseteq Message /\ challenges' \subseteq Nat
        /\ clock' \in Nat /\ draws' \in Nat /\ \A x \in net' : x \in net
        /\ sheets' = sheets
    BY <1>1, <1>2
  <1> QED
    BY <1>1, <1>2, <1>3, <1>5, <1>6, DeviceStep

-------------------------------------------------------------------------------
(* Steps of the service *)

\* A stored row changes only to a sound blob of the same account.
LEMMA RowStep ==
    ASSUME AccountInv, NEW b \in Blob, row' = b,
           UNCHANGED <<dev, sheets, net, clock, draws>>,
           challenges' \subseteq Nat,
           SelfConsistent(b, sheets), WrapsHold(b, b.identity.under),
           row # NoBlob => b.public = row.public
    PROVE  AccountInv'
  <1>1. b # NoBlob
    BY AccountAssumption
  <1>2. TypeOK'
    BY DEF AccountInv, TypeOK
  <1>3. RowSound'
    BY DEF RowSound
  <1>4. ASSUME NEW x, SameAccount(x, row) PROVE SameAccount(x, row')
    BY <1>1, <1>4 DEF SameAccount
  <1>5. \A e \in Devices : DeviceSound(dev'[e], row', sheets')
    <2> SUFFICES ASSUME NEW e \in Devices PROVE DeviceSound(dev[e], row', sheets)
      OBVIOUS
    <2>1. DeviceSound(dev[e], row, sheets)
      BY DEF AccountInv
    <2> QED
      BY <1>4, <2>1 DEF DeviceSound
  <1>6. \A m \in net' : MessageSound(m, row', sheets')
    <2> SUFFICES ASSUME NEW m \in net PROVE MessageSound(m, row', sheets)
      OBVIOUS
    <2>1. MessageSound(m, row, sheets)
      BY DEF AccountInv
    <2> QED
      BY <1>4, <2>1 DEF MessageSound
  <1> QED
    BY <1>2, <1>3, <1>5, <1>6 DEF AccountInv

\* A replacement the signature check accepts is signed by the stored account,
\* so the blob is one of that account and its wraps hold its key.
LEMMA AcceptedSound ==
    ASSUME AccountInv, NEW m \in net, m.kind # "create", row # NoBlob,
           m.signer = row.public
    PROVE  LET b == [m.blob EXCEPT !.public = row.public] IN
           /\ b \in Blob /\ b.public = row.public
           /\ SelfConsistent(b, sheets) /\ WrapsHold(b, b.identity.under)
  <1>1. /\ m \in Message /\ MessageSound(m, row, sheets)
        /\ row \in Blob
    BY DEF AccountInv, TypeOK
  <1>2. m.blob \in Blob /\ m.signer \in Nat
    BY <1>1 DEF Message
  <1>3. m.blob.public = row.public
    BY <1>1 DEF MessageSound, SameAccount
  <1>4. /\ m.blob.identity.under \in Nat /\ m.blob.identity.pair \in Nat
        /\ [m.blob EXCEPT !.public = row.public] = m.blob
    BY <1>2, <1>3 DEF Blob
  <1>5. SelfConsistent(m.blob, sheets) /\ WrapsHold(m.blob, m.signer - 2)
    BY <1>1 DEF MessageSound
  <1>6. m.signer = m.blob.identity.under + 2
    BY <1>3, <1>5 DEF SelfConsistent
  <1>7. m.signer - 2 = m.blob.identity.under
    BY <1>4, <1>6
  <1>8. WrapsHold(m.blob, m.blob.identity.under)
    BY <1>5, <1>7
  <1> QED
    BY <1>2, <1>3, <1>4, <1>5, <1>8

\* The service stores a sound blob, whichever request arrives and however late.
LEMMA DeliverStep ==
    ASSUME AccountInv, NEW m \in net, Deliver(m)
    PROVE  AccountInv'
  <1>1. UNCHANGED <<dev, sheets, net, clock, draws>>
    BY DEF Deliver
  <1>2. challenges' \subseteq Nat
    BY DEF Deliver, AccountInv, TypeOK
  <1>3. CASE m.kind = "create"
    <2>1. row = NoBlob /\ row' = m.blob
      BY <1>3 DEF Deliver
    <2>2. m.blob \in Blob /\ MessageSound(m, row, sheets)
      BY DEF AccountInv, TypeOK, Message
    <2>3. SelfConsistent(m.blob, sheets)
          /\ WrapsHold(m.blob, m.blob.identity.under)
      BY <1>3, <2>2 DEF MessageSound
    <2> QED
      BY <1>1, <1>2, <2>1, <2>2, <2>3, RowStep
  <1>4. CASE m.kind # "create"
    <2> DEFINE b == [m.blob EXCEPT !.public = row.public]
    <2>1. row # NoBlob /\ m.signer = row.public /\ row' = b
      BY <1>4 DEF Deliver, verify_update_proof_fresh, verify_recovery_proof
    <2>2. /\ b \in Blob /\ b.public = row.public
          /\ SelfConsistent(b, sheets) /\ WrapsHold(b, b.identity.under)
      BY <1>4, <2>1, AcceptedSound
    <2> HIDE DEF b
    <2> QED
      BY <1>1, <1>2, <2>1, <2>2, RowStep
  <1> QED
    BY <1>3, <1>4

\* Time changes nothing the invariant speaks of.
LEMMA TickStep ==
    ASSUME AccountInv, Tick
    PROVE  AccountInv'
  <1>1. TypeOK'
    BY DEF AccountInv, TypeOK, Tick
  <1>2. RowSound'
    BY DEF AccountInv, RowSound, Tick
  <1>3. \A e \in Devices : DeviceSound(dev'[e], row', sheets')
    BY DEF AccountInv, Tick
  <1>4. \A x \in net' : MessageSound(x, row', sheets')
    BY DEF AccountInv, Tick
  <1> QED
    BY <1>1, <1>2, <1>3, <1>4 DEF AccountInv

-------------------------------------------------------------------------------
(* The theorem *)

\* Before any setup the invariant holds.
LEMMA InvInit == Init => AccountInv
  <1> SUFFICES ASSUME Init PROVE AccountInv
    OBVIOUS
  <1>1. \A d \in Devices :
            dev[d] = [copy |-> NoBlob, edited |-> FALSE, key |-> 0, pair |-> 0,
                      used |-> 0, challenge |-> 0]
    BY DEF Init
  <1>2. TypeOK
    BY DEF Init, TypeOK, Device
  <1>3. \A d \in Devices : DeviceSound(dev[d], row, sheets)
    BY <1>1 DEF DeviceSound
  <1> QED
    BY <1>2, <1>3 DEF AccountInv, RowSound, Init

\* Every step keeps the invariant.
LEMMA InvNext == AccountInv /\ [Next]_vars => AccountInv'
  <1> SUFFICES ASSUME AccountInv, [Next]_vars PROVE AccountInv'
    OBVIOUS
  <1>1. ASSUME NEW d \in Devices, Step(d) PROVE AccountInv'
    BY <1>1, SetupStep, FetchStep, UnlockStep, RecoverStep, ChangePasswordStep,
       RegenerateStep, RewrapAfterRecoveryStep, SignUpdateStep,
       SignRecoveryStep, StartRecoveryStep DEF Step
  <1>2. CASE UNCHANGED vars
    <2>1. TypeOK' /\ RowSound'
      BY <1>2 DEF AccountInv, TypeOK, RowSound, vars
    <2> QED
      BY <1>2, <2>1 DEF AccountInv, vars
  <1> QED
    BY <1>1, <1>2, DeliverStep, TickStep DEF Next

\* The invariant implies that the stored account opens.
LEMMA InvOpens == AccountInv => AccountOpens
  <1> SUFFICES ASSUME AccountInv, row # NoBlob
               PROVE  /\ unlock_ok(row, row.chain.password)
                      /\ recover_ok(row, row.chain.recovery)
                      /\ row.chain.recovery \in sheets
                      /\ row.recovery_key_wrap.account
                            = row.account_key_wrap.account
    BY DEF AccountOpens
  <1>1. SelfConsistent(row, sheets) /\ WrapsHold(row, row.identity.under)
    BY DEF AccountInv, RowSound
  <1> QED
    BY <1>1 DEF SelfConsistent, WrapsHold, unlock_ok, recover_ok

\* The account secrets are type correct, whatever the devices do.
THEOREM AccountTypes == Spec => []TypeOK
  <1>1. AccountInv => TypeOK
    BY DEF AccountInv
  <1> QED
    BY InvInit, InvNext, <1>1, PTL DEF Spec

\* The stored account always opens with the password and the recovery key last
\* set in the chain of edits behind it, although any number of devices edit old
\* copies of it, lose setup races and send late or repeated requests.
THEOREM AccountAlwaysOpens == Spec => []AccountOpens
  BY InvInit, InvNext, InvOpens, PTL DEF Spec

-------------------------------------------------------------------------------
(* Recovery keys that were used *)

\* The recovery key of the blob b is none of those its edits consumed, and all
\* of them were drawn, n being the draws so far.
Retired(b, n) ==
    /\ b.recovery_key_wrap.secret \in 0..n
    /\ b.chain.consumed \subseteq 0..n
    /\ b.recovery_key_wrap.secret \notin b.chain.consumed

\* v, as a device, has used a key that was drawn and holds such a blob.
DeviceRetired(v, n) ==
    /\ v.used \in 0..n
    /\ v.copy # NoBlob => Retired(v.copy, n)

ConsumedInv ==
    /\ sheets \subseteq 0..draws
    /\ row # NoBlob => Retired(row, draws)
    /\ \A d \in Devices : DeviceRetired(dev[d], draws)
    /\ \A m \in net : Retired(m.blob, draws)

\* What holds of the draws so far holds of more of them.
LEMMA RetiredLater ==
    ASSUME NEW n \in Nat, NEW k \in Nat, n <= k
    PROVE  /\ 0..n \subseteq 0..k
           /\ \A b : Retired(b, n) => Retired(b, k)
           /\ \A v : DeviceRetired(v, n) => DeviceRetired(v, k)
  <1>1. 0..n \subseteq 0..k
    OBVIOUS
  <1> QED
    BY <1>1, Zenon DEF Retired, DeviceRetired

\* A step that changes one device, shows recovery keys and sends requests keeps
\* ConsumedInv if what it leaves behind is retired.
LEMMA ConsumedStep ==
    ASSUME TypeOK, ConsumedInv, NEW d \in Devices, NEW v,
           dev' = [dev EXCEPT ![d] = v], row' = row,
           draws' \in Nat, draws <= draws', sheets' \subseteq 0..draws',
           DeviceRetired(v, draws'),
           \A m \in net' : m \in net \/ Retired(m.blob, draws')
    PROVE  ConsumedInv'
  <1>1. draws \in Nat /\ dev \in [Devices -> Device]
    BY DEF TypeOK
  <1>2. /\ \A b : Retired(b, draws) => Retired(b, draws')
        /\ \A w : DeviceRetired(w, draws) => DeviceRetired(w, draws')
    BY <1>1, RetiredLater
  <1>3. \A e \in Devices : DeviceRetired(dev'[e], draws')
    BY <1>1, <1>2 DEF ConsumedInv
  <1> QED
    BY <1>2, <1>3 DEF ConsumedInv

\* account_setup_with_params draws a new recovery key and consumes none.
LEMMA ConsumedSetup ==
    ASSUME AccountInv, ConsumedInv, NEW d \in Devices, NEW p \in Passwords,
           NEW kdf \in HostParams(draws + 1), NEW rkdf \in HostParams(draws + 2),
           account_setup_with_params(d, p, kdf, rkdf)
    PROVE  ConsumedInv'
  <1> DEFINE b == SetupBlob(p, kdf, rkdf)
             v == [dev[d] EXCEPT !.copy = b, !.edited = FALSE]
             m == [kind |-> "create", blob |-> b, signer |-> 0, issued_at |-> 0,
                   at |-> clock, challenge |-> 0]
  <1>1. /\ dev' = [dev EXCEPT ![d] = v]
        /\ sheets' = sheets \cup {b.chain.recovery}
        /\ net' = net \cup {m} /\ draws' = draws + 5 /\ row' = row
    BY DEF account_setup_with_params
  <1>2. dev[d] \in Device /\ draws \in Nat /\ TypeOK
    BY DeviceFacts DEF AccountInv
  <1>3. /\ b.chain.recovery = draws + 4 /\ b.chain.consumed = {}
        /\ b.recovery_key_wrap.secret = draws + 4
    BY DEF SetupBlob
  <1> HIDE DEF b
  <1>4. Retired(b, draws')
    BY <1>1, <1>2, <1>3 DEF Retired
  <1>5. v.copy = b /\ v.used = dev[d].used
    BY <1>2 DEF Device
  <1>6. m.blob = b
    OBVIOUS
  <1> HIDE DEF v, m
  <1>7. sheets' \subseteq 0..draws' /\ draws' \in Nat /\ draws <= draws'
    <2>1. draws' \in Nat /\ draws <= draws' /\ draws + 4 \in 0..draws'
      BY <1>1, <1>2
    <2>2. 0..draws \subseteq 0..draws'
      BY <1>2, <2>1
    <2> QED
      BY <1>1, <1>3, <2>1, <2>2 DEF ConsumedInv
  <1>8. DeviceRetired(v, draws')
    BY <1>1, <1>2, <1>4, <1>5 DEF DeviceRetired, ConsumedInv
  <1>9. \A x \in net' : x \in net \/ Retired(x.blob, draws')
    BY <1>1, <1>4, <1>6
  <1> QED
    BY <1>1, <1>2, <1>7, <1>8, <1>9, ConsumedStep

\* An edit keeps it if the new copy is retired.
LEMMA ConsumedEdit ==
    ASSUME AccountInv, ConsumedInv, NEW d \in Devices, NEW b,
           Edit(d, b), Retired(b, draws + 5), sheets' \subseteq 0..(draws + 5)
    PROVE  ConsumedInv'
  <1> DEFINE v == [dev[d] EXCEPT !.copy = b, !.edited = TRUE]
  <1>1. /\ dev' = [dev EXCEPT ![d] = v] /\ draws' = draws + 5
        /\ UNCHANGED <<row, net>>
    BY DEF Edit
  <1>2. dev[d] \in Device /\ draws \in Nat /\ TypeOK
    BY DeviceFacts DEF AccountInv
  <1>3. v.copy = b /\ v.used = dev[d].used
    BY <1>2 DEF Device
  <1> HIDE DEF v
  <1>4. DeviceRetired(v, draws')
    BY <1>1, <1>2, <1>3 DEF DeviceRetired, ConsumedInv
  <1>5. draws' \in Nat /\ draws <= draws'
    BY <1>1, <1>2
  <1> QED
    BY <1>1, <1>2, <1>4, <1>5, ConsumedStep

\* The three edits: a new password leaves the recovery key and the consumed
\* ones alone, a regenerated key is newer than all of them, and so is the one
\* that replaces the key a recovery consumed.
LEMMA ConsumedEdits ==
    ASSUME AccountInv, ConsumedInv, NEW d \in Devices,
           \/ \E p \in Passwords : change_master_password(d, p)
           \/ regenerate_recovery_key(d)
           \/ \E p \in Passwords : rewrap_account_key_after_recovery(d, p)
    PROVE  ConsumedInv'
  <1>1. dev[d] \in Device /\ draws \in Nat
    BY DeviceFacts
  <1>2. dev[d].copy # NoBlob
    BY DEF change_master_password, regenerate_recovery_key,
           rewrap_account_key_after_recovery, Edit
  <1>3. PICK a \in Blob : a = dev[d].copy
    BY <1>1, <1>2 DEF Device
  <1>4. PICK k \in Nat : k = dev[d].key
    BY <1>1 DEF Device
  <1>5. PICK u \in Nat : u = dev[d].used
    BY <1>1 DEF Device
  <1>6. PICK r \in Nat : r = draws + 4
    BY <1>1
  <1>7. PICK z \in Nat : z = draws + 2 /\ z # 0
    BY <1>1
  <1>8. PICK y \in Nat : y = draws + 1 /\ y # 0
    BY <1>1
  <1>9. Retired(a, draws) /\ u \in 0..draws /\ sheets \subseteq 0..draws
    BY <1>2, <1>3, <1>5 DEF ConsumedInv, DeviceRetired
  <1>10. /\ 0..draws \subseteq 0..(draws + 5)
         /\ r \in 0..(draws + 5) /\ r \notin 0..draws
    BY <1>1, <1>6
  <1>11. ASSUME NEW p \in Passwords, change_master_password(d, p)
         PROVE  ConsumedInv'
    <2> DEFINE c == rewrap(a, k, p, y)
    <2>1. Edit(d, c) /\ sheets' = sheets
      BY <1>3, <1>4, <1>8, <1>11 DEF change_master_password
    <2>2. /\ c.recovery_key_wrap = a.recovery_key_wrap
          /\ c.chain.consumed = a.chain.consumed
      BY <1>8, RewrapFacts
    <2> HIDE DEF c
    <2>3. Retired(c, draws + 5)
      BY <1>9, <1>10, <2>2, Zenon DEF Retired
    <2> QED
      BY <1>9, <1>10, <2>1, <2>3, ConsumedEdit
  <1>12. ASSUME regenerate_recovery_key(d) PROVE ConsumedInv'
    <2> DEFINE c == regenerated(a, k, r, z)
    <2>1. Edit(d, c) /\ sheets' = sheets \cup {r}
      BY <1>3, <1>4, <1>6, <1>7, <1>12 DEF regenerate_recovery_key
    <2>2. Regenerates(c, a, k, r)
      BY <1>7, RegeneratedFacts
    <2> HIDE DEF c
    <2>3. Retired(c, draws + 5)
      BY <1>9, <1>10, <2>2 DEF Retired, Regenerates
    <2>4. sheets' \subseteq 0..(draws + 5)
      BY <1>9, <1>10, <2>1
    <2> QED
      BY <2>1, <2>3, <2>4, ConsumedEdit
  <1>13. ASSUME NEW p \in Passwords, rewrap_account_key_after_recovery(d, p)
         PROVE  ConsumedInv'
    <2> DEFINE c == rewrap(a, k, p, y)
               e == regenerated(c, k, r, z)
               h == [e EXCEPT !.chain.consumed = @ \cup {u}]
    <2>1. Edit(d, h) /\ sheets' = sheets \cup {r}
      BY <1>3, <1>4, <1>5, <1>6, <1>7, <1>8, <1>13
         DEF rewrap_account_key_after_recovery
    <2>2. c \in Blob /\ c.chain.consumed = a.chain.consumed
      BY <1>8, RewrapFacts
    <2> HIDE DEF c
    <2>3. Regenerates(e, c, k, r)
      BY <1>7, <2>2, RegeneratedFacts
    <2> HIDE DEF e
    <2>4. /\ h.recovery_key_wrap = e.recovery_key_wrap
          /\ h.chain.consumed = e.chain.consumed \cup {u}
      BY <2>3, ConsumedFacts DEF Regenerates
    <2> HIDE DEF h
    <2>5. Retired(h, draws + 5)
      BY <1>9, <1>10, <2>2, <2>3, <2>4 DEF Retired, Regenerates
    <2>6. sheets' \subseteq 0..(draws + 5)
      BY <1>9, <1>10, <2>1
    <2> QED
      BY <2>1, <2>5, <2>6, ConsumedEdit
  <1> QED
    BY <1>11, <1>12, <1>13

\* Reading the row, opening a session and starting a recovery leave a device
\* with the row or its own copy, and with a recovery key the user was shown.
LEMMA ConsumedSessions ==
    ASSUME AccountInv, ConsumedInv, NEW d \in Devices,
           \/ Fetch(d)
           \/ \E p \in Passwords : unlock_account(d, p)
           \/ \E k \in sheets : recover_with_recovery_key(d, k)
           \/ StartRecovery(d)
    PROVE  ConsumedInv'
  <1>1. /\ dev[d] \in Device /\ draws \in Nat /\ TypeOK
        /\ DeviceRetired(dev[d], draws) /\ sheets \subseteq 0..draws
        /\ row # NoBlob => Retired(row, draws)
    BY DeviceFacts DEF AccountInv, ConsumedInv
  <1>2. 0 \in 0..draws /\ draws + 5 \in Nat /\ draws <= draws + 5
        /\ draws <= draws /\ 0..draws \subseteq 0..(draws + 5)
    BY <1>1
  <1>3. ASSUME Fetch(d) PROVE ConsumedInv'
    <2> DEFINE v == [dev[d] EXCEPT !.copy = row, !.edited = FALSE]
    <2>1. /\ dev' = [dev EXCEPT ![d] = v] /\ row # NoBlob
          /\ UNCHANGED <<row, sheets, net, draws>>
      BY <1>3 DEF Fetch
    <2>2. v.copy = row /\ v.used = dev[d].used
      BY <1>1 DEF Device
    <2> HIDE DEF v
    <2>3. DeviceRetired(v, draws)
      BY <1>1, <2>1, <2>2 DEF DeviceRetired
    <2> QED
      BY <1>1, <1>2, <2>1, <2>3, ConsumedStep
  <1>4. ASSUME NEW p \in Passwords, unlock_account(d, p) PROVE ConsumedInv'
    <2> DEFINE v == [dev[d] EXCEPT !.key = dev[d].copy.account_key_wrap.account,
                                   !.pair = dev[d].copy.identity.pair, !.used = 0]
    <2>1. /\ dev' = [dev EXCEPT ![d] = v]
          /\ UNCHANGED <<row, sheets, net, draws>>
      BY <1>4 DEF unlock_account
    <2>2. v.copy = dev[d].copy /\ v.used = 0
      BY <1>1 DEF Device
    <2> HIDE DEF v
    <2>3. DeviceRetired(v, draws)
      BY <1>1, <1>2, <2>2 DEF DeviceRetired
    <2> QED
      BY <1>1, <1>2, <2>1, <2>3, ConsumedStep
  <1>5. ASSUME NEW k \in sheets, recover_with_recovery_key(d, k)
        PROVE  ConsumedInv'
    <2> DEFINE v == [dev[d] EXCEPT !.key = dev[d].copy.recovery_key_wrap.account,
                                   !.pair = 0, !.used = k]
    <2>1. /\ dev' = [dev EXCEPT ![d] = v]
          /\ UNCHANGED <<row, sheets, net, draws>>
      BY <1>5 DEF recover_with_recovery_key
    <2>2. v.copy = dev[d].copy /\ v.used = k
      BY <1>1 DEF Device
    <2> HIDE DEF v
    <2>3. DeviceRetired(v, draws)
      BY <1>1, <2>2 DEF DeviceRetired
    <2> QED
      BY <1>1, <1>2, <2>1, <2>3, ConsumedStep
  <1>6. ASSUME StartRecovery(d) PROVE ConsumedInv'
    <2> DEFINE v == [dev[d] EXCEPT !.copy = row, !.edited = FALSE, !.key = 0,
                                   !.pair = 0, !.used = 0, !.challenge = draws + 1]
    <2>1. /\ dev' = [dev EXCEPT ![d] = v] /\ row # NoBlob
          /\ draws' = draws + 5 /\ UNCHANGED <<row, sheets, net>>
      BY <1>6 DEF StartRecovery
    <2>2. v.copy = row /\ v.used = 0
      BY <1>1 DEF Device
    <2> HIDE DEF v
    <2>3. DeviceRetired(v, draws)
      BY <1>1, <1>2, <2>1, <2>2 DEF DeviceRetired
    <2>4. DeviceRetired(v, draws')
      BY <1>1, <1>2, <2>1, <2>3, RetiredLater
    <2>5. sheets' \subseteq 0..draws'
      BY <1>1, <1>2, <2>1
    <2> QED
      BY <1>1, <1>2, <2>1, <2>4, <2>5, ConsumedStep
  <1> QED
    BY <1>3, <1>4, <1>5, <1>6

\* A request carries the copy of the device that signs it.
LEMMA ConsumedSign ==
    ASSUME AccountInv, ConsumedInv, NEW d \in Devices,
           \/ \E t, s : sign_secrets_update_proof(d, t, s)
           \/ \E s : sign_recovery_proof(d, s)
    PROVE  ConsumedInv'
  <1>1. /\ dev[d].copy # NoBlob /\ UNCHANGED <<row, dev, sheets, draws>>
        /\ \E m : m.blob = dev[d].copy /\ net' = net \cup {m}
    BY DEF sign_secrets_update_proof, sign_recovery_proof
  <1>2. Retired(dev[d].copy, draws)
    BY <1>1 DEF ConsumedInv, DeviceRetired
  <1> QED
    BY <1>1, <1>2 DEF ConsumedInv

\* The service stores the blob of a request, with the public half it has.
LEMMA ConsumedDeliver ==
    ASSUME AccountInv, ConsumedInv, NEW m \in net, Deliver(m)
    PROVE  ConsumedInv'
  <1>1. UNCHANGED <<dev, sheets, net, draws>> /\ Retired(m.blob, draws)
    BY DEF Deliver, ConsumedInv
  <1>2. m.blob \in Blob
    BY DEF AccountInv, TypeOK, Message
  <1>3. row' \in {m.blob, [m.blob EXCEPT !.public = row.public]}
    BY DEF Deliver
  <1>4. /\ row'.recovery_key_wrap = m.blob.recovery_key_wrap
        /\ row'.chain = m.blob.chain
    BY <1>2, <1>3 DEF Blob
  <1>5. Retired(row', draws)
    BY <1>1, <1>4 DEF Retired
  <1> QED
    BY <1>1, <1>5 DEF ConsumedInv

\* Every step keeps ConsumedInv.
LEMMA ConsumedNext == AccountInv /\ ConsumedInv /\ [Next]_vars => ConsumedInv'
  <1> SUFFICES ASSUME AccountInv, ConsumedInv, [Next]_vars PROVE ConsumedInv'
    OBVIOUS
  <1>1. ASSUME NEW d \in Devices, Step(d) PROVE ConsumedInv'
    BY <1>1, ConsumedSetup, ConsumedEdits, ConsumedSessions, ConsumedSign
       DEF Step
  <1>2. ASSUME UNCHANGED <<row, dev, sheets, net, draws>> PROVE ConsumedInv'
    BY <1>2 DEF ConsumedInv
  <1>3. ASSUME Tick \/ UNCHANGED vars PROVE ConsumedInv'
    BY <1>2, <1>3 DEF Tick, vars
  <1>4. ASSUME NEW m \in net, Deliver(m) PROVE ConsumedInv'
    BY <1>4, ConsumedDeliver
  <1> QED
    BY <1>1, <1>3, <1>4 DEF Next

\* No account descended from a recovery opens with the recovery key that was
\* used, whatever follows: rewrap_account_key_after_recovery always rotates it.
THEOREM ConsumedSheetsStayDead == Spec => []ConsumedSheetsDead
  <1>1. Init => ConsumedInv
    <2> SUFFICES ASSUME Init PROVE ConsumedInv
      OBVIOUS
    <2>1. \A d \in Devices : dev[d].copy = NoBlob /\ dev[d].used = 0
      BY DEF Init
    <2>2. \A d \in Devices : DeviceRetired(dev[d], draws)
      BY <2>1 DEF DeviceRetired, Init
    <2> QED
      BY <2>2 DEF ConsumedInv, Init
  <1>2. ConsumedInv => ConsumedSheetsDead
    BY DEF ConsumedInv, Retired, ConsumedSheetsDead, recover_ok
  <1> QED
    BY <1>1, <1>2, InvInit, InvNext, ConsumedNext, PTL DEF Spec

-------------------------------------------------------------------------------
(* Replacements *)

\* A signed replacement carries a time no further from the service's than the
\* clocks differ.
Stamped == \A m \in net : m.kind = "update" => m.issued_at <= m.at + Skew

\* Every step keeps Stamped.
LEMMA StampedNext == TypeOK /\ Stamped /\ [Next]_vars => Stamped'
  <1> SUFFICES ASSUME TypeOK, Stamped, [Next]_vars,
                      NEW m \in net' \ net, m.kind = "update"
               PROVE  m.issued_at <= m.at + Skew
    BY DEF Stamped
  <1>1. PICK d \in Devices : Step(d)
    BY DEF Next, Deliver, Tick, vars
  <1>2. PICK t, s : sign_secrets_update_proof(d, t, s)
    <2>1. ~\E p, kdf, rkdf : account_setup_with_params(d, p, kdf, rkdf)
      <3> SUFFICES ASSUME NEW p, NEW kdf, NEW rkdf,
                          account_setup_with_params(d, p, kdf, rkdf)
                   PROVE  FALSE
        OBVIOUS
      <3>1. PICK b : net' = net \cup {[kind |-> "create", blob |-> b,
                                       signer |-> 0, issued_at |-> 0,
                                       at |-> clock, challenge |-> 0]}
        BY DEF account_setup_with_params
      <3> QED
        BY <3>1
    <2>2. ~\E s : sign_recovery_proof(d, s)
      BY DEF sign_recovery_proof
    <2>3. ~(Fetch(d) \/ StartRecovery(d) \/ regenerate_recovery_key(d))
      BY DEF Fetch, StartRecovery, regenerate_recovery_key, Edit
    <2>4. ~\E p : \/ unlock_account(d, p) \/ recover_with_recovery_key(d, p)
                  \/ change_master_password(d, p)
                  \/ rewrap_account_key_after_recovery(d, p)
      BY DEF unlock_account, recover_with_recovery_key, change_master_password,
             rewrap_account_key_after_recovery, Edit
    <2> QED
      BY <1>1, <2>1, <2>2, <2>3, <2>4, Zenon DEF Step
  <1>3. clock \in Nat /\ Skew \in Nat
    BY AccountAssumption DEF TypeOK
  <1> QED
    BY <1>2, <1>3 DEF sign_secrets_update_proof

\* A stored account is only ever replaced by a blob a device signed, and that
\* at most MaxAge and the clocks' difference ago, or in answer to a recovery
\* challenge that the replacement closes.
THEOREM ReplacementsAreRecent == Spec => ReplacementsRecent
  <1>1. Init => Stamped
    BY DEF Init, Stamped
  <1>2. ASSUME TypeOK, Stamped, [Next]_vars, row # NoBlob, row' # row
        PROVE  \E m \in net :
                  /\ row' = [m.blob EXCEPT !.public = row.public]
                  /\ \/ m.kind = "update" /\ clock - m.at <= MaxAge + Skew
                     \/ m.kind = "recovery" /\ m.challenge \notin challenges'
    <2>1. PICK m \in net : Deliver(m)
      BY <1>2, ZenonT(60) DEF Next, Step, account_setup_with_params, Fetch, unlock_account,
                  recover_with_recovery_key, change_master_password,
                  regenerate_recovery_key, rewrap_account_key_after_recovery,
                  Edit, sign_secrets_update_proof, sign_recovery_proof,
                  StartRecovery, Tick, vars
    <2>2. /\ clock \in Nat /\ m.at \in Nat /\ m.issued_at \in Int
          /\ Skew \in Nat /\ MaxAge \in Nat
      BY <1>2, AccountAssumption DEF TypeOK, Message
    <2>3. CASE m.kind = "update"
      <3>1. /\ m.issued_at + MaxAge >= clock
            /\ row' = [m.blob EXCEPT !.public = row.public]
        BY <2>1, <2>3 DEF Deliver, verify_update_proof_fresh
      <3>2. m.issued_at <= m.at + Skew
        BY <1>2, <2>3 DEF Stamped
      <3>3. clock - m.at <= MaxAge + Skew
        BY <2>2, <3>1, <3>2
      <3> QED
        BY <2>3, <3>1, <3>3
    <2>4. CASE m.kind = "recovery"
      BY <2>1, <2>4 DEF Deliver
    <2> QED
      BY <1>2, <2>1, <2>3, <2>4 DEF Deliver
  <1>3. TypeOK /\ Stamped /\ [Next]_vars =>
          [row # NoBlob /\ row' # row =>
             \E m \in net :
                /\ row' = [m.blob EXCEPT !.public = row.public]
                /\ \/ m.kind = "update" /\ clock - m.at <= MaxAge + Skew
                   \/ m.kind = "recovery" /\ m.challenge \notin challenges']_vars
    BY <1>2
  <1> QED
    BY <1>1, <1>3, AccountTypes, StampedNext, PTL DEF Spec, ReplacementsRecent
===============================================================================
