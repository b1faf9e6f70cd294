----------------------------- MODULE VaultService -----------------------------
(***************************************************************************)
(* The secrets service as VaultClient (vault.rs) uses it.  The service is   *)
(* not part of the repository: its routes, status codes and atomicity are   *)
(* taken from the requests the client sends, the errors it maps and what    *)
(* the client's documentation says the service decides.                     *)
(*                                                                         *)
(* Cryptography is symbolic.  A vault key is the pair of its vault and its   *)
(* version; a ciphertext is the key it is sealed under; a content key is    *)
(* named by the call that generated it, because every create draws a fresh  *)
(* one.  The item id every AAD binds is the id under which the record is    *)
(* stored.                                                                  *)
(***************************************************************************)
EXTENDS Naturals

CONSTANTS
    Clients,     \* host tasks that hold a VaultClient
    Vaults,
    Items,       \* item ids, minted or chosen by the hosts
    VaultOf,     \* the vault under whose path an item id is used
    Seeded,      \* the items that are stored initially
    Contents,    \* item bodies
    MaxVersion,  \* bound: highest vault key version a rotation reaches
    MaxEdits     \* bound: writes by applications outside this model

ASSUME ServiceAssumption ==
    /\ Clients # {} /\ Vaults # {} /\ Items # {} /\ Contents # {}
    /\ VaultOf \in [Items -> Vaults]
    /\ Seeded \subseteq Items
    /\ MaxVersion \in Nat /\ MaxEdits \in Nat

VARIABLES
    store,       \* the items table
    keyVersion,  \* current vault_key_version of each vault
    rotating,    \* vaults whose key rotation is in progress
    clock,       \* last revision (updated_at) the service handed out
    edits        \* writes by other applications so far

svcVars == <<store, keyVersion, rotating, clock, edits>>

-------------------------------------------------------------------------------
(* Data *)

Calls == Clients \X Nat
VaultKeys == Vaults \X Nat
CurrentKey(i) == <<VaultOf[i], keyVersion[VaultOf[i]]>>

\* The ciphertext fields of an item.  bodyKey is the content key the body is
\* sealed under, wrapKey the content key inside content_key_wrap; the wrap and
\* the title, tags and metadata are sealed under a vault key.  favorite and
\* reprompt are the flags inside the metadata.
Sealed ==
    [content : Contents, bodyKey : Calls, wrapKey : Calls,
     wrapUnder : VaultKeys, metaUnder : VaultKeys,
     favorite : BOOLEAN, reprompt : BOOLEAN]

ItemRecord ==
    [state : {"absent", "active", "trashed"}, sealed : Sealed, rev : Nat]

SomeCall == <<CHOOSE c \in Clients : TRUE, 0>>
SomeVaultKey == <<CHOOSE v \in Vaults : TRUE, 0>>
NoSealed ==
    [content |-> CHOOSE x \in Contents : TRUE,
     bodyKey |-> SomeCall, wrapKey |-> SomeCall,
     wrapUnder |-> SomeVaultKey, metaUnder |-> SomeVaultKey,
     favorite |-> FALSE, reprompt |-> FALSE]
NoRecord == [state |-> "absent", sealed |-> NoSealed, rev |-> 0]

\* Not on the wire: by and op name the call that sent the request, keeps
\* remembers that an update was called with favorite None.
Methods ==
    {"list_vaults", "get_item", "create_item", "create_item_with_id",
     "copy_item", "move_item", "update_item", "trash_item", "delete_item",
     "restore_item"}
Reads == {"sync", "get"}
Writes == {"create", "patch", "trash", "delete", "restore"}
Request ==
    [kind : Reads \cup Writes, by : Calls, op : Methods, item : Items,
     ifMatch : Nat, version : Nat, sealed : Sealed, keeps : BOOLEAN]

\* 500 stands for every refusal the client does not tell apart (403, 429, 5xx).
Statuses == {200, 404, 409, 412, 423, 500}

Stored(i) == store[i].state # "absent"

\* A record whose every ciphertext opens under vault key k.
Opens(s, k) == s.wrapUnder = k /\ s.metaUnder = k /\ s.bodyKey = s.wrapKey

-------------------------------------------------------------------------------
(* Requests *)

\* Every reason the service has to refuse q now.  Which one it reports when
\* there are several is its own choice.
Refusals(q) ==
    {s \in Statuses :
        \/ /\ s = 404
           /\ q.kind \in {"get", "patch", "trash", "delete", "restore"}
           /\ ~Stored(q.item)
        \/ s = 409 /\ q.kind = "create" /\ Stored(q.item)
        \/ /\ s = 409
           /\ q.kind \in {"create", "patch"}
           /\ q.version # keyVersion[VaultOf[q.item]]
        \/ /\ s = 412
           /\ q.ifMatch # 0
           /\ q.ifMatch # store[q.item].rev
        \/ s = 423 /\ q.kind \in Writes /\ VaultOf[q.item] \in rotating}

\* The row of q.item after the service accepted q.  Trashing a trashed item
\* changes nothing; DELETE trashes an active item and erases a trashed one.
RowAfter(q) ==
    CASE q.kind = "create" ->
            [state |-> "active", sealed |-> q.sealed, rev |-> clock + 1]
      [] q.kind = "patch" ->
            [store[q.item] EXCEPT !.sealed = q.sealed, !.rev = clock + 1]
      [] q.kind = "trash" /\ store[q.item].state = "active" ->
            [store[q.item] EXCEPT !.state = "trashed", !.rev = clock + 1]
      [] q.kind = "delete" /\ store[q.item].state = "active" ->
            [store[q.item] EXCEPT !.state = "trashed", !.rev = clock + 1]
      [] q.kind = "delete" /\ store[q.item].state = "trashed" -> NoRecord
      [] q.kind = "restore" ->
            [store[q.item] EXCEPT !.state = "active", !.rev = clock + 1]
      [] OTHER -> store[q.item]

\* The service checks and applies q in one transaction.  A 500 may hide that q
\* was applied: a gateway between client and service reports its own failures.
Handle(q, status, applies) ==
    /\ status \in Refusals(q) \cup {500}
                    \cup (IF Refusals(q) = {} THEN {200} ELSE {})
    /\ applies => q.kind \in Writes /\ Refusals(q) = {} /\ status \in {200, 500}
    /\ status = 200 /\ q.kind \in Writes => applies
    /\ IF applies
       THEN /\ store' = [store EXCEPT ![q.item] = RowAfter(q)]
            /\ clock' = clock + 1
       ELSE UNCHANGED <<store, clock>>
    /\ UNCHANGED <<keyVersion, rotating, edits>>

-------------------------------------------------------------------------------
(* Other applications of the same service *)

\* A key rotation run by another application: writes are locked out with 423
\* from its start until every wrap in the vault is resealed.
BeginRotation(v) ==
    /\ v \notin rotating
    /\ keyVersion[v] < MaxVersion
    /\ rotating' = rotating \cup {v}
    /\ UNCHANGED <<store, keyVersion, clock, edits>>

Reseal(i) ==
    LET new == <<VaultOf[i], keyVersion[VaultOf[i]] + 1>>
    IN  [store[i].sealed EXCEPT
            !.wrapUnder = IF @ = CurrentKey(i) THEN new ELSE @,
            !.metaUnder = IF @ = CurrentKey(i) THEN new ELSE @]

FinishRotation(v) ==
    /\ v \in rotating
    /\ store' = [i \in Items |->
                    IF VaultOf[i] = v /\ Stored(i)
                    THEN [store[i] EXCEPT !.sealed = Reseal(i)]
                    ELSE store[i]]
    /\ keyVersion' = [keyVersion EXCEPT ![v] = @ + 1]
    /\ rotating' = rotating \ {v}
    /\ UNCHANGED <<clock, edits>>

\* Another application edits the metadata flags of a stored item.
OtherEdit(i, favorite, reprompt) ==
    /\ edits < MaxEdits
    /\ Stored(i) /\ VaultOf[i] \notin rotating
    /\ store' = [store EXCEPT ![i].sealed.favorite = favorite,
                              ![i].sealed.reprompt = reprompt,
                              ![i].rev = clock + 1]
    /\ clock' = clock + 1
    /\ edits' = edits + 1
    /\ UNCHANGED <<keyVersion, rotating>>

ServiceInit ==
    /\ keyVersion = [v \in Vaults |-> 1]
    /\ store = [i \in Items |->
                  IF i \in Seeded
                  THEN [state |-> "active", rev |-> 1,
                        sealed |-> [NoSealed EXCEPT
                                      !.wrapUnder = <<VaultOf[i], 1>>,
                                      !.metaUnder = <<VaultOf[i], 1>>]]
                  ELSE NoRecord]
    /\ rotating = {}
    /\ clock = 1
    /\ edits = 0
===============================================================================
