------------------------------ MODULE VaultItems ------------------------------
(***************************************************************************)
(* The item operations of VaultClient (vault.rs) over a lossy network.      *)
(*                                                                         *)
(* Each host task runs one client method at a time and each method sends    *)
(* its HTTP requests one after the other.  A request is served at most once  *)
(* but at any time, even after the client gave up on it (orphans); a reply  *)
(* is lost when the deadline passes before the client reads it.  Methods    *)
(* never retry: what the host does with an error is the choice of its next  *)
(* call.                                                                    *)
(***************************************************************************)
EXTENDS VaultService

CONSTANTS
    HostOps,     \* the methods the hosts of this instance call
    MaxCalls     \* bound: method calls made by all hosts together

ASSUME HostAssumption == HostOps \subseteq Methods /\ MaxCalls \in Nat

VARIABLES
    call,        \* the method each host is in, with its arguments
    chan,        \* the HTTP exchange of that method
    orphans,     \* writes whose client gave up before they were served
    keyring,     \* the vault keys each host unwrapped with list_vaults
    known,       \* the newest revision of each item a host was told
    calls,       \* calls begun so far
    last,        \* how each host's previous call ended
    \* History, for the properties only.
    minted,      \* item ids a host has used
    created,     \* ids and contents the service has stored by a create
    applied,     \* calls one of whose writes the service has applied
    removals,    \* trash and DELETE requests the service has applied
    destroyed    \* items a DELETE has erased

hostVars == <<call, chan, orphans, keyring, known, calls, last>>
history == <<minted, created, applied, removals, destroyed>>
vars == <<svcVars, hostVars, history>>

-------------------------------------------------------------------------------
(* Data *)

HostCall ==
    [op : Methods \cup {"none"}, n : Nat, item : Items, copy : Items,
     content : Contents, favorite : {"keep", "on", "off"}, ifMatch : Nat]
Response == [status : Statuses, rec : ItemRecord, versions : [Vaults -> Nat]]
Exchange ==
    [phase : {"idle", "sent", "replied"}, req : Request, resp : Response]

\* ResolverError: ServerError also stands for ApprovalRequired, Malformed for
\* ResponseMismatch and ResponseTooLarge.
Outcomes ==
    {"none", "Ok", "ServerError", "Stale", "Rotating", "KeyVersion",
     "Crypto", "Malformed", "Transport"}

SomeItem == CHOOSE i \in Items : TRUE
NoCall ==
    [op |-> "none", n |-> 0, item |-> SomeItem, copy |-> SomeItem,
     content |-> CHOOSE x \in Contents : TRUE, favorite |-> "keep",
     ifMatch |-> 0]
NoRequest ==
    [kind |-> "get", by |-> SomeCall, op |-> "get_item", item |-> SomeItem,
     ifMatch |-> 0, version |-> 0, sealed |-> NoSealed, keeps |-> FALSE]
NoResponse ==
    [status |-> 200, rec |-> NoRecord, versions |-> [v \in Vaults |-> 0]]
NoExchange == [phase |-> "idle", req |-> NoRequest, resp |-> NoResponse]

\* The vault key and version a host passes for item i.
Version(c, i) == keyring[c][VaultOf[i]]
Key(c, i) == <<VaultOf[i], Version(c, i)>>

-------------------------------------------------------------------------------
(* Requests *)

Plain(c, k, kind, i, m) ==
    [NoRequest EXCEPT !.kind = kind, !.by = <<c, k.n>>, !.op = k.op,
                      !.item = i, !.ifMatch = m]

\* A create draws a fresh content key and stores reprompt false.
build_create_request(c, k, i, favorite) ==
    [Plain(c, k, "create", i, 0) EXCEPT
        !.version = Version(c, i),
        !.sealed = [content |-> k.content,
                    bodyKey |-> <<c, k.n>>, wrapKey |-> <<c, k.n>>,
                    wrapUnder |-> Key(c, i), metaUnder |-> Key(c, i),
                    favorite |-> favorite, reprompt |-> FALSE]]

\* Mutant: the body is sealed under a fresh content key that nobody wraps.
UpdateWithFreshKey(c, k, rec) ==
    [Plain(c, k, "patch", k.item, k.ifMatch) EXCEPT
        !.version = Version(c, k.item),
        !.keeps = (k.favorite = "keep"),
        !.sealed = [rec.sealed EXCEPT !.content = k.content,
                                      !.bodyKey = <<c, k.n>>]]

\* Mutant: the If-Match header is not sent.
UpdateWithoutIfMatch(c, k, rec) ==
    [Plain(c, k, "patch", k.item, 0) EXCEPT
        !.version = Version(c, k.item),
        !.keeps = (k.favorite = "keep"),
        !.sealed = [rec.sealed EXCEPT !.content = k.content]]

\* An update seals the new body under the content key of the record it read
\* and sends that record's wrap back unchanged.
build_update_request(c, k, rec) ==
    [Plain(c, k, "patch", k.item, k.ifMatch) EXCEPT
        !.version = Version(c, k.item),
        !.keeps = (k.favorite = "keep"),
        !.sealed = [content |-> k.content,
                    bodyKey |-> rec.sealed.wrapKey,
                    wrapKey |-> rec.sealed.wrapKey,
                    wrapUnder |-> rec.sealed.wrapUnder,
                    metaUnder |-> Key(c, k.item),
                    favorite |-> IF k.favorite = "keep"
                                 THEN rec.sealed.favorite
                                 ELSE k.favorite = "on",
                    reprompt |-> rec.sealed.reprompt]]

\* Mutant: the source is removed through the DELETE route.
MoveByDelete(c, k) == Plain(c, k, "delete", k.item, 0)

\* move_item trashes its source through the trash-only route.
move_source_request(c, k) == Plain(c, k, "trash", k.item, 0)

\* The first request of each method.
FirstRequest(c, k) ==
    CASE k.op = "list_vaults" -> Plain(c, k, "sync", k.item, 0)
      [] k.op \in {"get_item", "copy_item", "move_item", "update_item"} ->
            Plain(c, k, "get", k.item, 0)
      [] k.op = "create_item" -> build_create_request(c, k, k.item, FALSE)
      [] k.op = "create_item_with_id" ->
            build_create_request(c, k, k.item, k.favorite = "on")
      [] k.op = "trash_item" -> Plain(c, k, "trash", k.item, k.ifMatch)
      [] k.op = "delete_item" -> Plain(c, k, "delete", k.item, 0)
      [] k.op = "restore_item" -> Plain(c, k, "restore", k.item, 0)

-------------------------------------------------------------------------------
(* Hosts begin calls *)

Send(c, k, q) ==
    /\ call' = [call EXCEPT ![c] = k]
    /\ chan' = [chan EXCEPT ![c] = [NoExchange EXCEPT !.phase = "sent",
                                                      !.req = q]]

Begin(c, k) ==
    /\ call[c].op = "none"
    /\ k.op \in HostOps
    /\ calls < MaxCalls
    /\ calls' = calls + 1
    /\ Send(c, k, FirstRequest(c, k))
    /\ UNCHANGED <<svcVars, orphans, keyring, known, last,
                   created, applied, removals, destroyed>>

Args(op, i) == [NoCall EXCEPT !.op = op, !.n = calls + 1, !.item = i]

list_vaults(c) == Begin(c, Args("list_vaults", SomeItem)) /\ UNCHANGED minted

OnItem(c, op, i) ==
    /\ op \in {"get_item", "delete_item", "restore_item"}
    /\ Begin(c, Args(op, i))
    /\ UNCHANGED minted

\* Uuid::new_v4: an id nobody has used.
create_item(c, i, x) ==
    /\ i \notin minted
    /\ Begin(c, [Args("create_item", i) EXCEPT !.content = x])
    /\ minted' = minted \cup {i}

\* The caller chooses the id, possibly one it used before.
create_item_with_id(c, i, x, favorite) ==
    /\ Begin(c, [Args("create_item_with_id", i) EXCEPT
                    !.content = x, !.favorite = favorite])
    /\ minted' = minted \cup {i}

\* The copy's id is drawn after the read; nothing observes it before.
CopyOrMove(c, op, i, j) ==
    /\ op \in {"copy_item", "move_item"}
    /\ j \notin minted
    /\ Begin(c, [Args(op, i) EXCEPT !.copy = j])
    /\ minted' = minted \cup {j}

update_item(c, i, x, favorite, m) ==
    /\ m \in {0, known[c][i]}
    /\ Begin(c, [Args("update_item", i) EXCEPT
                    !.content = x, !.favorite = favorite, !.ifMatch = m])
    /\ UNCHANGED minted

trash_item(c, i, m) ==
    /\ m \in {0, known[c][i]}
    /\ Begin(c, [Args("trash_item", i) EXCEPT !.ifMatch = m])
    /\ UNCHANGED minted

-------------------------------------------------------------------------------
(* The service answers *)

Reply(q, status) ==
    [status |-> status,
     rec |-> CASE status # 200 \/ q.kind = "sync" -> NoRecord
               [] status = 200 /\ q.kind = "get" -> store[q.item]
               [] OTHER -> [NoRecord EXCEPT !.rev = RowAfter(q).rev],
     versions |-> IF status = 200 /\ q.kind = "sync"
                  THEN keyVersion ELSE NoResponse.versions]

Record(q, applies) ==
    LET removed == applies /\ q.kind \in {"trash", "delete"}
    IN  /\ applied' = IF applies THEN applied \cup {q.by} ELSE applied
        /\ created' = IF applies /\ q.kind = "create"
                      THEN created \cup {<<q.item, q.sealed.content>>}
                      ELSE created
        /\ removals' = IF removed
                       THEN removals \cup {<<q.item, q.by, q.op>>}
                       ELSE removals
        /\ destroyed' = IF removed /\ RowAfter(q).state = "absent"
                        THEN destroyed \cup {q.item} ELSE destroyed
        /\ UNCHANGED minted

Serve(c, status, applies) ==
    LET q == chan[c].req
    IN  /\ chan[c].phase = "sent"
        /\ Handle(q, status, applies)
        /\ Record(q, applies)
        /\ chan' = [chan EXCEPT ![c].phase = "replied",
                                ![c].resp = Reply(q, status)]
        /\ UNCHANGED <<call, orphans, keyring, known, calls, last>>

\* A write its client has given up on still reaches the service.
ServeOrphan(q, status, applies) ==
    /\ q \in orphans
    /\ Handle(q, status, applies)
    /\ Record(q, applies)
    /\ orphans' = orphans \ {q}
    /\ UNCHANGED <<call, chan, keyring, known, calls, last>>

-------------------------------------------------------------------------------
(* Clients resume *)

Finish(c, outcome) ==
    /\ call' = [call EXCEPT ![c] = NoCall]
    /\ chan' = [chan EXCEPT ![c] = NoExchange]
    /\ last' = [last EXCEPT ![c] = [op |-> call[c].op, n |-> call[c].n,
                                    outcome |-> outcome]]

Answered(c) == chan[c].phase = "replied" /\ chan[c].resp.status = 200

ListVaultsDone(c) ==
    /\ Answered(c) /\ chan[c].req.kind = "sync"
    /\ keyring' = [keyring EXCEPT ![c] = chan[c].resp.versions]
    /\ Finish(c, "Ok")
    /\ UNCHANGED <<svcVars, orphans, known, calls, history>>

GetItemDone(c) ==
    /\ Answered(c) /\ call[c].op = "get_item"
    /\ Opens(chan[c].resp.rec.sealed, Key(c, call[c].item))
    /\ known' = [known EXCEPT ![c][call[c].item] = chan[c].resp.rec.rev]
    /\ Finish(c, "Ok")
    /\ UNCHANGED <<svcVars, orphans, keyring, calls, history>>

\* update_item opens the wrap and the metadata of the record, never its body.
UpdateOpens(c, s) ==
    s.wrapUnder = Key(c, call[c].item) /\ s.metaUnder = Key(c, call[c].item)

UpdateRead(c) ==
    /\ Answered(c) /\ call[c].op = "update_item" /\ chan[c].req.kind = "get"
    /\ UpdateOpens(c, chan[c].resp.rec.sealed)
    /\ Send(c, call[c], build_update_request(c, call[c], chan[c].resp.rec))
    /\ UNCHANGED <<svcVars, orphans, keyring, known, calls, last, history>>

\* Mutant: the copy is stored as it was read, under the source's vault key.
CopyVerbatim(c) ==
    /\ Answered(c) /\ call[c].op \in {"copy_item", "move_item"}
    /\ chan[c].req.kind = "get"
    /\ Opens(chan[c].resp.rec.sealed, Key(c, call[c].item))
    /\ LET k == [call[c] EXCEPT !.content = chan[c].resp.rec.sealed.content]
       IN  Send(c, k, [build_create_request(c, k, k.copy, FALSE) EXCEPT
                          !.sealed = chan[c].resp.rec.sealed])
    /\ UNCHANGED <<svcVars, orphans, keyring, known, calls, last, history>>

CopyRead(c) ==
    /\ Answered(c) /\ call[c].op \in {"copy_item", "move_item"}
    /\ chan[c].req.kind = "get"
    /\ Opens(chan[c].resp.rec.sealed, Key(c, call[c].item))
    /\ LET k == [call[c] EXCEPT !.content = chan[c].resp.rec.sealed.content]
       IN  Send(c, k, build_create_request(c, k, k.copy, FALSE))
    /\ UNCHANGED <<svcVars, orphans, keyring, known, calls, last, history>>

\* Mutant: the result of the copy is not checked.
MoveAnyway(c) ==
    /\ chan[c].phase = "replied"
    /\ call[c].op = "move_item" /\ chan[c].req.kind = "create"
    /\ Send(c, call[c], move_source_request(c, call[c]))
    /\ UNCHANGED <<svcVars, orphans, keyring, known, calls, last, history>>

MoveCopied(c) ==
    /\ Answered(c) /\ call[c].op = "move_item" /\ chan[c].req.kind = "create"
    /\ Send(c, call[c], move_source_request(c, call[c]))
    /\ UNCHANGED <<svcVars, orphans, keyring, known, calls, last, history>>

\* The write that ends a method was accepted.  create_item_with_id,
\* update_item and trash_item return the revision to the host.
WriteDone(c) ==
    /\ Answered(c) /\ chan[c].req.kind \in Writes
    /\ ~(call[c].op = "move_item" /\ chan[c].req.kind = "create")
    /\ known' = IF call[c].op \in
                     {"create_item_with_id", "update_item", "trash_item"}
                THEN [known EXCEPT ![c][call[c].item] = chan[c].resp.rec.rev]
                ELSE known
    /\ Finish(c, "Ok")
    /\ UNCHANGED <<svcVars, orphans, keyring, calls, history>>

\* The record does not open under the vault key the host holds.
CannotDecrypt(c) ==
    /\ Answered(c) /\ chan[c].req.kind = "get"
    /\ IF call[c].op = "update_item"
       THEN ~UpdateOpens(c, chan[c].resp.rec.sealed)
       ELSE ~Opens(chan[c].resp.rec.sealed, Key(c, call[c].item))
    /\ Finish(c, "Crypto")
    /\ UNCHANGED <<svcVars, orphans, keyring, known, calls, history>>

\* Mutant: a lockout is not one of the errors hosts know.
RawStatus(status) ==
    CASE status = 412 -> "Stale"
      [] status = 423 -> "Locked"
      [] OTHER -> "ServerError"

item_write_error(status) ==
    CASE status = 412 -> "Stale"
      [] status = 423 -> "Rotating"
      [] OTHER -> "ServerError"

\* The map_err of each call site.  DELETE, restore, create_item and the reads
\* map nothing; the trash at the end of move_item is a trash_item.
map_err(op, kind, status) ==
    CASE kind = "patch" /\ status = 409 -> "KeyVersion"
      [] kind = "patch" /\ status # 409 -> item_write_error(status)
      [] kind = "trash" -> item_write_error(status)
      [] op = "create_item_with_id" /\ status = 423 -> "Rotating"
      [] OTHER -> "ServerError"

Refused(c) ==
    /\ chan[c].phase = "replied" /\ chan[c].resp.status # 200
    /\ Finish(c, map_err(call[c].op, chan[c].req.kind, chan[c].resp.status))
    /\ UNCHANGED <<svcVars, orphans, keyring, known, calls, history>>

\* A reply that does not parse, or that names another vault or item.
Rejected(c) ==
    /\ Answered(c)
    /\ Finish(c, "Malformed")
    /\ UNCHANGED <<svcVars, orphans, keyring, known, calls, history>>

\* Mutant: a passed deadline is reported as a lockout.
TimeoutAsRotating(c) ==
    /\ chan[c].phase # "idle"
    /\ orphans' = IF chan[c].phase = "sent" /\ chan[c].req.kind \in Writes
                  THEN orphans \cup {chan[c].req} ELSE orphans
    /\ Finish(c, "Rotating")
    /\ UNCHANGED <<svcVars, keyring, known, calls, history>>

\* Mutant: no deadline before the response starts.
TimeoutOfBodyOnly(c) ==
    /\ chan[c].phase = "replied"
    /\ Finish(c, "Transport")
    /\ UNCHANGED <<svcVars, orphans, keyring, known, calls, history>>

\* The deadline of the request passes: before it was served, or with the reply
\* on its way.  A write the service has not served yet may still arrive.
Timeout(c) ==
    /\ chan[c].phase # "idle"
    /\ orphans' = IF chan[c].phase = "sent" /\ chan[c].req.kind \in Writes
                  THEN orphans \cup {chan[c].req} ELSE orphans
    /\ Finish(c, "Transport")
    /\ UNCHANGED <<svcVars, keyring, known, calls, history>>

-------------------------------------------------------------------------------
(* Specification *)

\* The hosts have listed the vaults and their items before.
Init ==
    /\ ServiceInit
    /\ call = [c \in Clients |-> NoCall]
    /\ chan = [c \in Clients |-> NoExchange]
    /\ orphans = {}
    /\ keyring = [c \in Clients |-> [v \in Vaults |-> 1]]
    /\ known = [c \in Clients |-> [i \in Items |-> store[i].rev]]
    /\ calls = 0
    /\ last = [c \in Clients |-> [op |-> "none", n |-> 0, outcome |-> "none"]]
    /\ minted = Seeded
    /\ created = {} /\ applied = {} /\ removals = {} /\ destroyed = {}

HostBegins(c) ==
    \/ list_vaults(c)
    \/ \E i \in Items, op \in {"get_item", "delete_item", "restore_item"} :
            OnItem(c, op, i)
    \/ \E i \in Items, x \in Contents : create_item(c, i, x)
    \/ \E i \in Items, x \in Contents, favorite \in {"on", "off"} :
            create_item_with_id(c, i, x, favorite)
    \/ \E i, j \in Items, op \in {"copy_item", "move_item"} :
            CopyOrMove(c, op, i, j)
    \/ \E i \in Items, x \in Contents, favorite \in {"keep", "on", "off"},
          m \in {0} \cup {known[c][j] : j \in Items} :
            update_item(c, i, x, favorite, m)
    \/ \E i \in Items, m \in {0} \cup {known[c][j] : j \in Items} :
            trash_item(c, i, m)

ClientResumes(c) ==
    \/ ListVaultsDone(c) \/ GetItemDone(c) \/ UpdateRead(c) \/ CopyRead(c)
    \/ MoveCopied(c) \/ WriteDone(c) \/ CannotDecrypt(c) \/ Refused(c)
    \/ Rejected(c) \/ Timeout(c)

ServiceServes ==
    \E status \in Statuses, applies \in BOOLEAN :
        \/ \E c \in Clients : Serve(c, status, applies)
        \/ \E q \in orphans : ServeOrphan(q, status, applies)

OthersAct ==
    /\ \/ \E v \in Vaults : BeginRotation(v) \/ FinishRotation(v)
       \/ \E i \in Items, favorite, reprompt \in BOOLEAN :
            OtherEdit(i, favorite, reprompt)
    /\ UNCHANGED <<hostVars, history>>

Next ==
    \/ \E c \in Clients : HostBegins(c) \/ ClientResumes(c)
    \/ ServiceServes
    \/ OthersAct

\* The executor runs a task whose reply or deadline has come; nothing obliges
\* the service to answer, or a host to call.
Fairness == \A c \in Clients : WF_vars(ClientResumes(c))

Spec == Init /\ [][Next]_vars
FairSpec == Spec /\ Fairness

-------------------------------------------------------------------------------
(* Properties *)

\* Every variable stays in its type: what the records on the wire, in the
\* store and in the clients look like.
TypeOK ==
    /\ store \in [Items -> ItemRecord]
    /\ keyVersion \in [Vaults -> Nat]
    /\ rotating \subseteq Vaults
    /\ clock \in Nat /\ edits \in Nat /\ calls \in Nat
    /\ call \in [Clients -> HostCall]
    /\ chan \in [Clients -> Exchange]
    /\ orphans \subseteq Request
    /\ keyring \in [Clients -> [Vaults -> Nat]]
    /\ known \in [Clients -> [Items -> Nat]]
    /\ last \in [Clients -> [op : Methods \cup {"none"}, n : Nat,
                             outcome : Outcomes]]
    /\ minted \subseteq Items /\ destroyed \subseteq Items
    /\ created \subseteq Items \X Contents
    /\ applied \subseteq Calls
    /\ removals \subseteq Items \X Calls \X Methods

\* Whatever the interleaving of updates, creates, late writes and key
\* rotations, every stored item can be read with the current key of its vault:
\* build_update_request passes the wrap through and sends the version of the
\* key it sealed under, build_create_request wraps the key it sealed with.
StoredItemsOpen ==
    \A i \in Items : Stored(i) => Opens(store[i].sealed, CurrentKey(i))

\* The requests the service may still apply.
Pending ==
    orphans \cup {chan[c].req : c \in {d \in Clients : chan[d].phase = "sent"}}

Keeps(q) ==
    /\ q.sealed.reprompt = store[q.item].sealed.reprompt
    /\ q.keeps => q.sealed.favorite = store[q.item].sealed.favorite

\* Conditional updates, those that lost their If-Match included.
Conditional(q) ==
    \/ q.ifMatch # 0
    \/ \E c \in Clients : q = chan[c].req /\ call[c].ifMatch # 0

\* An update_item called with a revision, if the service would accept its PATCH
\* now, overwrites exactly that revision and writes back the stored reprompt
\* flag and, called with favorite None, the stored favorite, although it read
\* both in an earlier request.
ConditionalUpdateKeepsFlags ==
    \A q \in Pending :
        (q.kind = "patch" /\ Conditional(q) /\ Refusals(q) = {})
            => q.ifMatch = store[q.item].rev /\ Keeps(q)

\* What the documentation of update_item says of every update, conditional or
\* not: favorite None keeps the stored favorite and reprompt is always kept.
UpdateKeepsFlags ==
    \A q \in Pending : (q.kind = "patch" /\ Refusals(q) = {}) => Keeps(q)

\* An item is erased only after two separate calls removed it, one of them a
\* delete_item: move_item and trash_item never permanently delete, and one
\* timed-out DELETE that is served late does not count twice.
ErasedDeliberately ==
    \A i \in destroyed :
        \E r, s \in removals :
            r[1] = i /\ s[1] = i /\ r[2] # s[2] /\ r[3] = "delete_item"

\* While move_item is removing its source, the service has stored the copy,
\* with the content the source had when it was read.
MoveRemovesOnlyCopied ==
    \A c \in Clients :
        (/\ call[c].op = "move_item" /\ chan[c].phase = "sent"
         /\ chan[c].req.kind \in {"trash", "delete"})
            => <<call[c].copy, call[c].content>> \in created

\* Stale, Rotating and KeyVersion tell the host that its write was not applied,
\* and it stays unapplied.  A move is excepted: its trash may be refused after
\* its copy was stored.
RefusalWroteNothing ==
    \A c \in Clients :
        (last[c].outcome \in {"Stale", "Rotating", "KeyVersion"}
            /\ last[c].op # "move_item") => <<c, last[c].n>> \notin applied

\* Every call returns, even when the service never answers: each request has
\* a deadline and no method sends an unbounded number of them.
CallsReturn ==
    \A c \in Clients : (call[c].op # "none") ~> (call[c].op = "none")
===============================================================================
