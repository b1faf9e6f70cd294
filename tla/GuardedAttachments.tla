-------------------------- MODULE GuardedAttachments --------------------------
(***************************************************************************)
(* The attachment writes of VaultClient (vault/attachments.rs) on one item, *)
(* over a lossy network.  put_attachment_with_id and                        *)
(* conditional_delete_attachment are guarded by the revision of the parent  *)
(* item and, for the deletion, by the exact digest ciphertext of the row;   *)
(* put_attachment and delete_attachment are not guarded.                    *)
(*                                                                         *)
(* A file stands for its bytes, name and size; files of equal bytes have one *)
(* SHA-256.  A digest ciphertext is named by the call that sealed it and the *)
(* SHA-256 it opens to: every seal has a fresh key and nonce, so two seals   *)
(* never have equal bytes.                                                  *)
(***************************************************************************)
EXTENDS Naturals

CONSTANTS
    Clients,     \* host tasks that hold a VaultClient
    Atts,        \* attachment ids
    Foreign,     \* the ids that attachments of other items use
    Files,
    Digests,
    Sha,         \* the SHA-256 of each file's bytes
    None,        \* no attachment, no digest
    HostOps,     \* the methods the hosts of this instance call
    MaxCalls,    \* bound: method calls made by all hosts together
    MaxTouches   \* bound: item edits and rotation locks by other applications

Methods ==
    {"put_attachment", "delete_attachment", "put_attachment_with_id",
     "conditional_delete_attachment"}
Guarded == {"put_attachment_with_id", "conditional_delete_attachment"}

ASSUME AttachmentAssumption ==
    /\ Clients # {} /\ Atts # {}
    /\ Foreign \subseteq Atts
    /\ None \notin Files /\ None \notin Digests
    /\ Sha \in [Files -> Digests]
    /\ HostOps \subseteq Methods
    /\ MaxCalls \in Nat /\ MaxTouches \in Nat

VARIABLES
    rows,        \* the item's attachments
    itemRev,     \* updated_at of the parent item
    locked,      \* whether a key rotation locks the vault
    touches,     \* item edits and rotation locks so far
    call,        \* the method each host is in, with its arguments
    chan,        \* the HTTP exchange of that method
    orphans,     \* writes whose client gave up before they were served
    told,        \* the parent revision each host was told last
    calls,       \* calls begun so far
    last,        \* how each host's previous call ended
    used,        \* history: attachment ids a host has used
    writes       \* history: the writes the service has applied

svcVars == <<rows, itemRev, locked, touches>>
hostVars == <<call, chan, orphans, told, calls, last>>
history == <<used, writes>>
vars == <<svcVars, hostVars, history>>

-------------------------------------------------------------------------------
(* Data *)

Calls == Clients \X Nat
Contents == Files \cup {None}
Seals == [by : Calls, sha : Digests \cup {None}]
Row == [file : Contents, seal : Seals]
Table == [Atts -> Row]

SomeCall == <<CHOOSE c \in Clients : TRUE, 0>>
SomeAtt == CHOOSE a \in Atts : TRUE
NoSeal == [by |-> SomeCall, sha |-> None]
NoRow == [file |-> None, seal |-> NoSeal]

HostCall ==
    [op : Methods \cup {"none"}, n : Nat, att : Atts, file : Contents,
     ifMatch : Nat, refusalRev : Nat]

\* upload and DELETE are the unguarded requests; wants and op are not on the
\* wire: they remember the revision and the method of the call.
Kinds == {"list", "upload", "DELETE", "deletion"}
Request ==
    [kind : Kinds, by : Calls, op : Methods, att : Atts, file : Contents,
     seal : Seals, ifMatch : Nat, wants : Nat]

\* ok; 412; 423; 409 with its error.kind (exists, conflict, mismatch); the
\* deletion route's already_absent; and failed, every other refusal, among
\* them coded refusals whose body the client can no longer parse.
Codes ==
    {"ok", "stale", "locked", "exists", "conflict", "mismatch", "absent",
     "failed"}
Response == [code : Codes, rev : Nat, rows : Table]
Exchange ==
    [phase : {"idle", "sent", "replied"}, req : Request, resp : Response]
Outcomes ==
    {"none", "Ok", "Created", "AlreadyPresent", "IdConflict", "Stale",
     "Deleted", "AlreadyAbsent", "Mismatch", "Rotating", "ServerError",
     "Malformed", "Transport"}
Result ==
    [op : Methods \cup {"none"}, n : Nat, att : Atts, file : Contents,
     outcome : Outcomes, rev : Nat]
Write ==
    [by : Calls, op : Methods, att : Atts, file : Contents, seal : Seals,
     old : Row, rev : Nat, wants : Nat]

NoCall ==
    [op |-> "none", n |-> 0, att |-> SomeAtt, file |-> None, ifMatch |-> 0,
     refusalRev |-> 0]
NoRequest ==
    [kind |-> "list", by |-> SomeCall, op |-> "put_attachment",
     att |-> SomeAtt, file |-> None, seal |-> NoSeal, ifMatch |-> 0,
     wants |-> 0]
NoResponse == [code |-> "ok", rev |-> 0, rows |-> [a \in Atts |-> NoRow]]
NoExchange == [phase |-> "idle", req |-> NoRequest, resp |-> NoResponse]
NoResult ==
    [op |-> "none", n |-> 0, att |-> SomeAtt, file |-> None,
     outcome |-> "none", rev |-> 0]

-------------------------------------------------------------------------------
(* The service *)

Stale(q) == q.ifMatch # 0 /\ q.ifMatch # itemRev
Present(a) == rows[a].file # None

\* The service refuses a stale revision and a locked vault before it looks at
\* the row; a deletion needs exactly the stored digest bytes.
Verdicts(q) ==
    IF q.kind # "list" /\ (Stale(q) \/ locked)
    THEN {v \in {"stale", "locked"} : (v = "stale" => Stale(q))
                                      /\ (v = "locked" => locked)}
    ELSE CASE q.kind = "list" -> {"ok"}
           [] q.kind = "upload" /\ q.att \in Foreign -> {"conflict"}
           [] q.kind = "upload" /\ q.att \notin Foreign ->
                {IF Present(q.att) THEN "exists" ELSE "ok"}
           [] q.kind = "DELETE" -> {IF Present(q.att) THEN "ok" ELSE "failed"}
           [] q.kind = "deletion" ->
                {IF ~Present(q.att) THEN "absent"
                 ELSE IF rows[q.att].seal # q.seal \/ q.seal = NoSeal
                      THEN "mismatch" ELSE "ok"}

\* failed may hide that the request was applied.
Handle(q, code, applies) ==
    /\ code \in Verdicts(q) \cup {"failed"}
    /\ applies => q.kind # "list" /\ Verdicts(q) = {"ok"}
    /\ code = "ok" /\ q.kind # "list" => applies
    /\ rows' = IF ~applies THEN rows
               ELSE [rows EXCEPT ![q.att] =
                        IF q.kind = "upload"
                        THEN [file |-> q.file, seal |-> q.seal] ELSE NoRow]
    /\ writes' = IF ~applies THEN writes
                 ELSE writes \cup
                        {[by |-> q.by, op |-> q.op, att |-> q.att,
                          file |-> q.file, seal |-> q.seal,
                          old |-> rows[q.att],
                          rev |-> itemRev, wants |-> q.wants]}
    \* Attachment writes never change the parent's updated_at.
    /\ UNCHANGED <<itemRev, locked, touches, used>>

\* Successes, the deletion's already_absent and the same-item duplicate
\* refusal carry the parent revision.
Reply(q, code) ==
    [code |-> code,
     rev |-> IF code \in {"ok", "absent", "exists"} THEN itemRev ELSE 0,
     rows |-> IF code = "ok" /\ q.kind = "list"
              THEN rows ELSE NoResponse.rows]

Serve(c, code, applies) ==
    /\ chan[c].phase = "sent"
    /\ Handle(chan[c].req, code, applies)
    /\ chan' = [chan EXCEPT ![c].phase = "replied",
                            ![c].resp = Reply(chan[c].req, code)]
    /\ UNCHANGED <<call, orphans, told, calls, last>>

ServeOrphan(q, code, applies) ==
    /\ q \in orphans
    /\ Handle(q, code, applies)
    /\ orphans' = orphans \ {q}
    /\ UNCHANGED <<call, chan, told, calls, last>>

\* Another application edits the item, or starts or ends a key rotation.
Touch ==
    /\ touches < MaxTouches
    /\ touches' = touches + 1
    /\ \/ ~locked /\ itemRev' = itemRev + 1 /\ UNCHANGED locked
       \/ ~locked /\ locked' = TRUE /\ UNCHANGED itemRev
    /\ UNCHANGED <<rows, hostVars, history>>

EndRotation ==
    /\ locked
    /\ locked' = FALSE
    /\ UNCHANGED <<rows, itemRev, touches, hostVars, history>>

-------------------------------------------------------------------------------
(* Hosts begin calls *)

Send(c, k, q) ==
    /\ call' = [call EXCEPT ![c] = k]
    /\ chan' = [chan EXCEPT ![c] = [NoExchange EXCEPT !.phase = "sent",
                                                      !.req = q]]

Req(c, k, kind, seal) ==
    [kind |-> kind, by |-> <<c, k.n>>, op |-> k.op, att |-> k.att,
     file |-> k.file, seal |-> seal,
     ifMatch |-> IF kind \in {"list", "DELETE"} THEN 0 ELSE k.ifMatch,
     wants |-> k.ifMatch]

\* A digest of the call's file under a key drawn for this call.
encrypt_digest(c, k) == [by |-> <<c, k.n>>, sha |-> Sha[k.file]]

FirstRequest(c, k) ==
    CASE k.op = "put_attachment" -> Req(c, k, "upload", NoSeal)
      [] k.op = "put_attachment_with_id" ->
            Req(c, k, "upload", encrypt_digest(c, k))
      [] k.op = "delete_attachment" -> Req(c, k, "DELETE", NoSeal)
      [] k.op = "conditional_delete_attachment" -> Req(c, k, "list", NoSeal)

Begin(c, k) ==
    /\ call[c].op = "none"
    /\ k.op \in HostOps
    /\ calls < MaxCalls
    /\ calls' = calls + 1
    /\ Send(c, k, FirstRequest(c, k))
    /\ UNCHANGED <<svcVars, orphans, told, last, writes>>

\* put_attachment draws an id nobody has used.
put_attachment(c, a, f) ==
    /\ a \notin used \cup Foreign
    /\ Begin(c, [NoCall EXCEPT !.op = "put_attachment", !.n = calls + 1,
                               !.att = a, !.file = f])
    /\ used' = used \cup {a}

put_attachment_with_id(c, a, f) ==
    /\ Begin(c, [NoCall EXCEPT !.op = "put_attachment_with_id",
                               !.n = calls + 1, !.att = a, !.file = f,
                               !.ifMatch = told[c]])
    /\ used' = used \cup {a}

delete_attachment(c, a) ==
    /\ Begin(c, [NoCall EXCEPT !.op = "delete_attachment", !.n = calls + 1,
                               !.att = a])
    /\ UNCHANGED used

\* f is the file whose SHA-256 the caller expects.
conditional_delete_attachment(c, a, f) ==
    /\ Begin(c, [NoCall EXCEPT !.op = "conditional_delete_attachment",
                               !.n = calls + 1, !.att = a, !.file = f,
                               !.ifMatch = told[c]])
    /\ UNCHANGED used

\* The host reads the parent item between two calls.
get_item(c) ==
    /\ call[c].op = "none"
    /\ told' = [told EXCEPT ![c] = itemRev]
    /\ UNCHANGED <<svcVars, call, chan, orphans, calls, last, history>>

-------------------------------------------------------------------------------
(* Clients resume *)

Finish(c, outcome, rev) ==
    /\ call' = [call EXCEPT ![c] = NoCall]
    /\ chan' = [chan EXCEPT ![c] = NoExchange]
    /\ last' = [last EXCEPT ![c] =
                   [op |-> call[c].op, n |-> call[c].n, att |-> call[c].att,
                    file |-> call[c].file, outcome |-> outcome, rev |-> rev]]
    /\ told' = IF rev = 0 THEN told ELSE [told EXCEPT ![c] = rev]
    /\ UNCHANGED <<svcVars, calls, history>>

Replied(c, kind, code) ==
    /\ chan[c].phase = "replied"
    /\ chan[c].req.kind = kind
    /\ chan[c].resp.code = code

\* The listed digest opens to the SHA-256 of f; a row without one never does.
Verified(row, f) == row.seal.sha = Sha[f]

\* The refusal's revision is kept while the list is read.
PutExists(c) ==
    /\ Replied(c, "upload", "exists") /\ call[c].op = "put_attachment_with_id"
    /\ Send(c, [call[c] EXCEPT !.refusalRev = chan[c].resp.rev],
            Req(c, call[c], "list", NoSeal))
    /\ UNCHANGED <<svcVars, orphans, told, calls, last, history>>

\* Mutant: a file of the same bytes under another name is taken for this one.
SameBytes(c) == Verified(chan[c].resp.rows[call[c].att], call[c].file)

\* The listed row has the SHA-256, the name and the size of the upload.
same_file(c) ==
    LET row == chan[c].resp.rows[call[c].att]
    IN  Verified(row, call[c].file) /\ row.file = call[c].file

PutCompared(c) ==
    /\ Replied(c, "list", "ok") /\ call[c].op = "put_attachment_with_id"
    /\ IF same_file(c) THEN Finish(c, "AlreadyPresent", call[c].refusalRev)
                       ELSE Finish(c, "IdConflict", 0)
    /\ UNCHANGED orphans

\* Mutant: a stored digest is sent whatever it opens to.
StoredDigest(c) == chan[c].resp.rows[call[c].att].seal

\* The stored bytes if they open to the expected SHA-256, else a throwaway.
expected_digest_ciphertext(c) ==
    LET row == chan[c].resp.rows[call[c].att]
    IN  IF Verified(row, call[c].file) THEN row.seal
        ELSE encrypt_digest(c, call[c])

DeleteListed(c) ==
    /\ Replied(c, "list", "ok")
    /\ call[c].op = "conditional_delete_attachment"
    /\ Send(c, call[c],
            Req(c, call[c], "deletion", expected_digest_ciphertext(c)))
    /\ UNCHANGED <<svcVars, orphans, told, calls, last, history>>

\* Mutant: a failure of the gateway is taken for a refusal.
AnyFailureIsRotating(op, code) ==
    CASE op = "put_attachment_with_id" /\ code = "ok" -> "Created"
      [] op = "conditional_delete_attachment" /\ code = "ok" -> "Deleted"
      [] op \notin Guarded /\ code = "ok" -> "Ok"
      [] OTHER -> "Rotating"

\* Mutant: the code is returned as it came.
RawCode(op, code) == code

\* What the answer to the deciding request becomes.  Only the guarded methods
\* read error.kind; the others end in item_write_error.
outcome_of(op, code) ==
    CASE op = "put_attachment_with_id" /\ code = "ok" -> "Created"
      [] op = "put_attachment_with_id" /\ code = "conflict" -> "IdConflict"
      [] op = "conditional_delete_attachment" /\ code = "ok" -> "Deleted"
      [] op = "conditional_delete_attachment" /\ code = "absent" ->
            "AlreadyAbsent"
      [] op = "conditional_delete_attachment" /\ code = "mismatch" ->
            "Mismatch"
      [] op \notin Guarded /\ code = "ok" -> "Ok"
      [] code = "stale" -> "Stale"
      [] code = "locked" -> "Rotating"
      [] OTHER -> "ServerError"

Settle(c) ==
    /\ chan[c].phase = "replied"
    /\ chan[c].req.kind = "list" => chan[c].resp.code # "ok"
    /\ ~(call[c].op = "put_attachment_with_id" /\ chan[c].resp.code = "exists")
    /\ Finish(c, outcome_of(call[c].op, chan[c].resp.code),
              IF call[c].op \in Guarded /\ chan[c].resp.code \in {"ok", "absent"}
              THEN chan[c].resp.rev ELSE 0)
    /\ UNCHANGED orphans

\* A reply that does not parse, does not open under the vault key, or names
\* another attachment, size or digest than the request.
Rejected(c) ==
    /\ chan[c].phase = "replied" /\ chan[c].resp.code \in {"ok", "absent"}
    /\ Finish(c, "Malformed", 0)
    /\ UNCHANGED orphans

Timeout(c) ==
    /\ chan[c].phase # "idle"
    /\ orphans' = IF chan[c].phase = "sent" /\ chan[c].req.kind # "list"
                  THEN orphans \cup {chan[c].req} ELSE orphans
    /\ Finish(c, "Transport", 0)

-------------------------------------------------------------------------------
(* Specification *)

\* Rows stored before the first call, with or without a digest.
OldRows ==
    {NoRow} \cup {[file |-> f, seal |-> NoSeal] : f \in Files}
    \cup {[file |-> f, seal |-> [by |-> SomeCall, sha |-> Sha[f]]] : f \in Files}

Init ==
    /\ rows \in {t \in [Atts -> OldRows] : \A a \in Foreign : t[a] = NoRow}
    /\ itemRev = 1 /\ locked = FALSE /\ touches = 0
    /\ call = [c \in Clients |-> NoCall]
    /\ chan = [c \in Clients |-> NoExchange]
    /\ orphans = {}
    /\ told = [c \in Clients |-> 1]
    /\ calls = 0
    /\ last = [c \in Clients |-> NoResult]
    /\ used = {a \in Atts : rows[a] # NoRow} /\ writes = {}

HostBegins(c) ==
    \/ get_item(c)
    \/ \E a \in Atts : delete_attachment(c, a)
    \/ \E a \in Atts, f \in Files : put_attachment(c, a, f)
    \/ \E a \in Atts, f \in Files : put_attachment_with_id(c, a, f)
    \/ \E a \in Atts, f \in Files : conditional_delete_attachment(c, a, f)

ClientResumes(c) ==
    \/ PutExists(c) \/ PutCompared(c) \/ DeleteListed(c)
    \/ Settle(c) \/ Rejected(c) \/ Timeout(c)

ServiceServes ==
    \E code \in Codes, applies \in BOOLEAN :
        \/ \E c \in Clients : Serve(c, code, applies)
        \/ \E q \in orphans : ServeOrphan(q, code, applies)

Next ==
    \/ \E c \in Clients : HostBegins(c) \/ ClientResumes(c)
    \/ ServiceServes
    \/ Touch \/ EndRotation

Spec == Init /\ [][Next]_vars

-------------------------------------------------------------------------------
(* Properties *)

\* Every variable stays in its type.
TypeOK ==
    /\ rows \in Table
    /\ itemRev \in Nat /\ locked \in BOOLEAN /\ touches \in Nat
    /\ call \in [Clients -> HostCall]
    /\ chan \in [Clients -> Exchange]
    /\ orphans \subseteq Request
    /\ told \in [Clients -> Nat]
    /\ calls \in Nat
    /\ last \in [Clients -> Result]
    /\ used \subseteq Atts
    /\ writes \subseteq Write

\* A guarded write only ever takes effect at the parent revision its caller
\* named; a conditional deletion only removes a file with the expected SHA-256,
\* and an upload never replaces a row, whatever was deleted, uploaded again or
\* delayed between the list, the guarded request and its arrival.
GuardedWritesExact ==
    \A w \in writes :
        /\ w.op \in Guarded => w.rev = w.wants
        /\ w.op = "conditional_delete_attachment" =>
                w.old.file # None /\ Sha[w.old.file] = Sha[w.file]
        /\ w.op = "put_attachment_with_id" => w.old.file = None

\* An outcome that says nothing was written is final: neither the call nor a
\* late copy of its request changes a row.
RefusalsWriteNothing ==
    \A c \in Clients :
        last[c].outcome \in {"AlreadyPresent", "IdConflict", "Stale",
                             "AlreadyAbsent", "Mismatch", "Rotating"}
            => \A w \in writes : w.by # <<c, last[c].n>>

\* A row that holds a different file than f, or one that cannot be verified.
Other(row, f) == row.file # None /\ (row.file # f \/ row.seal = NoSeal)

Removed(a) ==
    \E w \in writes :
        /\ w.att = a
        /\ w.op \in {"delete_attachment", "conditional_delete_attachment"}

\* As long as nobody deletes the attachment, what put_attachment_with_id told
\* its host is what the item holds: the call's own upload after Created, the
\* same file with a digest that says so after AlreadyPresent, another or an
\* unverifiable file after IdConflict.
PutOutcomesTruthful ==
    \A c \in Clients :
        LET r == last[c]
            row == rows[r.att]
        IN  (r.op = "put_attachment_with_id" /\ ~Removed(r.att)) =>
                /\ r.outcome = "Created" => row.seal.by = <<c, r.n>>
                /\ r.outcome = "AlreadyPresent" =>
                        row.file = r.file /\ row.seal.sha = Sha[r.file]
                /\ r.outcome = "IdConflict" =>
                        r.att \in Foreign \/ Other(row, r.file)

\* What the documentation of AttachmentPutOutcome::IdConflict says, deletions
\* included: another item uses the id, or the item has had it for another or an
\* unverifiable file.
IdConflictTruthful ==
    \A c \in Clients :
        LET r == last[c]
        IN  r.outcome = "IdConflict" =>
                \/ r.att \in Foreign
                \/ Other(rows[r.att], r.file)
                \/ \E w \in writes : w.att = r.att /\ Other(w.old, r.file)
===============================================================================
