----------------------- MODULE GuardedAttachmentsProofs -----------------------
(***************************************************************************)
(* Proofs about GuardedAttachments, for every number of hosts, attachments, *)
(* files and calls.                                                         *)
(***************************************************************************)
EXTENDS GuardedAttachments, TLAPS

-------------------------------------------------------------------------------
(* Types *)

\* The placeholders of idle hosts and of absent rows have their types.
LEMMA PlaceholderTypes ==
    /\ SomeAtt \in Atts /\ SomeCall \in Calls
    /\ NoSeal \in Seals /\ NoRow \in Row
    /\ NoCall \in HostCall /\ NoRequest \in Request
    /\ NoResponse \in Response /\ NoResponse.rows \in Table
    /\ NoExchange \in Exchange /\ NoResult \in Result
<1>1. SomeAtt \in Atts
  BY AttachmentAssumption DEF SomeAtt
<1>2. SomeCall \in Calls
  BY AttachmentAssumption DEF SomeCall, Calls
<1>3. NoSeal \in Seals
  BY <1>2 DEF NoSeal, Seals
<1>4. NoRow \in Row
  BY <1>3 DEF NoRow, Row, Contents
<1>5. NoCall \in HostCall
  BY <1>1 DEF NoCall, HostCall, Contents
<1>6. NoRequest \in Request
  BY <1>1, <1>2, <1>3 DEF NoRequest, Request, Contents, Kinds, Methods
<1>7. NoResponse \in Response /\ NoResponse.rows \in Table
  BY <1>4 DEF NoResponse, Response, Table, Codes
<1>8. NoExchange \in Exchange
  BY <1>6, <1>7 DEF NoExchange, Exchange
<1>9. NoResult \in Result
  BY <1>1 DEF NoResult, Result, Contents, Outcomes
<1> QED
  BY <1>1, <1>2, <1>3, <1>4, <1>5, <1>6, <1>7, <1>8, <1>9

\* The requests the methods build are well typed.
LEMMA RequestTypes ==
    ASSUME NEW c \in Clients, NEW k \in HostCall, k.op # "none"
    PROVE  /\ \A kind \in Kinds, seal \in Seals : Req(c, k, kind, seal) \in Request
           /\ k.file \in Files => encrypt_digest(c, k) \in Seals
           /\ (k.op \in Guarded => k.file \in Files) =>
                    FirstRequest(c, k) \in Request
<1>1. /\ <<c, k.n>> \in Calls /\ k.op \in Methods /\ k.att \in Atts
      /\ k.file \in Contents /\ k.ifMatch \in Nat
  BY DEF HostCall, Calls
<1>2. ASSUME NEW kind \in Kinds, NEW seal \in Seals
      PROVE  Req(c, k, kind, seal) \in Request
  BY <1>1 DEF Req, Request
<1>3. k.file \in Files => encrypt_digest(c, k) \in Seals
  BY <1>1, AttachmentAssumption DEF encrypt_digest, Seals
<1>4. (k.op \in Guarded => k.file \in Files) => FirstRequest(c, k) \in Request
  BY <1>1, <1>2, <1>3, PlaceholderTypes
     DEF FirstRequest, Methods, Kinds, Guarded
<1> QED
  BY <1>2, <1>3, <1>4

\* What Send and Finish do to the exchanges.
LEMMA SendEffect ==
    ASSUME TypeOK, NEW c \in Clients, NEW k \in HostCall, NEW q \in Request,
           Send(c, k, q)
    PROVE  /\ call' \in [Clients -> HostCall] /\ chan' \in [Clients -> Exchange]
           /\ call'[c] = k /\ chan'[c].req = q /\ chan'[c].resp = NoResponse
           /\ \A d \in Clients \ {c} : call'[d] = call[d] /\ chan'[d] = chan[d]
<1>1. NoExchange \in Exchange /\ NoExchange.resp = NoResponse
  BY PlaceholderTypes DEF NoExchange
<1>2. [NoExchange EXCEPT !.phase = "sent", !.req = q] \in Exchange
  BY <1>1 DEF Exchange
<1>3. /\ [NoExchange EXCEPT !.phase = "sent", !.req = q].req = q
      /\ [NoExchange EXCEPT !.phase = "sent", !.req = q].resp = NoResponse
  BY <1>1 DEF Exchange
<1> QED
  BY <1>2, <1>3 DEF Send, TypeOK

\* What a host leaves when its method returns.
LEMMA FinishEffect ==
    ASSUME TypeOK, NEW c \in Clients, NEW outcome \in Outcomes, NEW rev \in Nat,
           Finish(c, outcome, rev)
    PROVE  /\ call' \in [Clients -> HostCall] /\ chan' \in [Clients -> Exchange]
           /\ last' \in [Clients -> Result] /\ told' \in [Clients -> Nat]
           /\ call'[c] = NoCall /\ chan'[c] = NoExchange
           /\ \A d \in Clients \ {c} : call'[d] = call[d] /\ chan'[d] = chan[d]
           /\ \A d \in Clients : told'[d] = told[d] \/ (told'[d] = rev /\ rev # 0)
<1>1. call[c] \in HostCall
  BY DEF TypeOK
<1>2. [op |-> call[c].op, n |-> call[c].n, att |-> call[c].att,
       file |-> call[c].file, outcome |-> outcome, rev |-> rev] \in Result
  BY <1>1 DEF HostCall, Result
<1>3. last' \in [Clients -> Result]
  BY <1>2 DEF Finish, TypeOK
<1>4. /\ told' \in [Clients -> Nat]
      /\ \A d \in Clients : told'[d] = told[d] \/ (told'[d] = rev /\ rev # 0)
  BY DEF Finish, TypeOK
<1>5. /\ call' \in [Clients -> HostCall] /\ chan' \in [Clients -> Exchange]
      /\ call'[c] = NoCall /\ chan'[c] = NoExchange
      /\ \A d \in Clients \ {c} : call'[d] = call[d] /\ chan'[d] = chan[d]
  BY PlaceholderTypes DEF Finish, TypeOK
<1> QED
  BY <1>3, <1>4, <1>5

\* What a served request does to the rows and to the history.
LEMMA HandleEffect ==
    ASSUME TypeOK, NEW q \in Request, NEW code \in Codes, NEW applies \in BOOLEAN,
           Handle(q, code, applies)
    PROVE  /\ rows' \in Table /\ writes' \subseteq Write
           /\ Reply(q, code) \in Response
<1>1. /\ q.att \in Atts /\ q.file \in Contents /\ q.seal \in Seals
      /\ rows[q.att] \in Row /\ itemRev \in Nat
  BY DEF Request, TypeOK, Table
<1>2. [file |-> q.file, seal |-> q.seal] \in Row
  BY <1>1 DEF Row
<1>3. rows' \in Table
  BY <1>1, <1>2, PlaceholderTypes DEF Handle, TypeOK, Table
<1>4. [by |-> q.by, op |-> q.op, att |-> q.att, file |-> q.file,
       seal |-> q.seal, old |-> rows[q.att], rev |-> itemRev,
       wants |-> q.wants] \in Write
  BY <1>1 DEF Request, Write
<1>5. writes' \subseteq Write
  BY <1>4 DEF Handle, TypeOK
<1>6. Reply(q, code) \in Response
  <2> DEFINE rev == IF code \in {"ok", "absent", "exists"} THEN itemRev ELSE 0
             table == IF code = "ok" /\ q.kind = "list"
                      THEN rows ELSE NoResponse.rows
  <2>1. rev \in Nat /\ table \in Table
    BY <1>1, PlaceholderTypes DEF TypeOK
  <2>2. Reply(q, code) = [code |-> code, rev |-> rev, rows |-> table]
    BY DEF Reply
  <2> HIDE DEF rev, table
  <2> QED
    BY <2>1, <2>2 DEF Response
<1> QED
  BY <1>3, <1>5, <1>6

-------------------------------------------------------------------------------
(* The inductive invariant *)

\* A guarded call names a file and a revision the host was told.
CallGuarded(k) == k.op \in Guarded => k.file \in Files /\ k.ifMatch # 0

\* A request that may still be applied carries its caller's revision; a
\* deletion's digest ciphertext opens to the expected SHA-256, an upload's to
\* that of the uploaded file if it has one.
RequestGuarded(q) ==
    /\ q.op \in Guarded /\ q.kind # "list" => q.ifMatch = q.wants /\ q.wants # 0
    /\ q.op = "conditional_delete_attachment" => q.kind \in {"list", "deletion"}
    /\ q.op = "put_attachment_with_id" => q.kind \in {"list", "upload"}
    /\ q.kind = "deletion" => q.file \in Files /\ q.seal.sha = Sha[q.file]
    /\ q.kind = "upload" => /\ q.file \in Files
                            /\ q.seal.sha \in {None, Sha[q.file]}

RequestsGuarded ==
    /\ \A q \in orphans : RequestGuarded(q)
    /\ \A c \in Clients : RequestGuarded(chan[c].req)

HostsGuarded ==
    /\ itemRev # 0
    /\ \A c \in Clients : told[c] # 0 /\ CallGuarded(call[c])

\* A stored digest is that of the stored file.
SealsTruthful ==
    \A a \in Atts :
        rows[a].seal.sha # None =>
            rows[a].file \in Files /\ rows[a].seal.sha = Sha[rows[a].file]

IInv ==
    /\ TypeOK /\ HostsGuarded /\ RequestsGuarded /\ SealsTruthful
    /\ GuardedWritesExact

\* The requests the methods build satisfy RequestGuarded.
LEMMA BuiltRequestsGuarded ==
    ASSUME NEW c \in Clients, NEW k \in HostCall, k.op # "none",
           CallGuarded(k), k.op = "put_attachment" => k.file \in Files
    PROVE  /\ RequestGuarded(FirstRequest(c, k))
           /\ RequestGuarded(Req(c, k, "list", NoSeal))
           /\ \A seal \in Seals :
                (/\ k.op = "conditional_delete_attachment"
                 /\ seal.sha = Sha[k.file])
                    => RequestGuarded(Req(c, k, "deletion", seal))
<1>1. k.op \in Methods
  BY DEF HostCall
<1>2. RequestGuarded(Req(c, k, "list", NoSeal))
  BY DEF RequestGuarded, Req
<1>3. ASSUME NEW seal \in Seals, k.op = "conditional_delete_attachment",
             seal.sha = Sha[k.file]
      PROVE  RequestGuarded(Req(c, k, "deletion", seal))
  BY <1>3 DEF RequestGuarded, Req, CallGuarded, Guarded
<1>4. RequestGuarded(FirstRequest(c, k))
  <2>1. CASE k.op = "put_attachment"
    BY <2>1 DEF RequestGuarded, FirstRequest, Req, Guarded, NoSeal
  <2>2. CASE k.op = "put_attachment_with_id"
    BY <2>2 DEF RequestGuarded, FirstRequest, Req, CallGuarded, Guarded,
                encrypt_digest
  <2>3. CASE k.op = "delete_attachment"
    BY <2>3 DEF RequestGuarded, FirstRequest, Req, Guarded
  <2>4. CASE k.op = "conditional_delete_attachment"
    BY <1>2, <2>4 DEF FirstRequest
  <2> QED
    BY <1>1, <2>1, <2>2, <2>3, <2>4 DEF Methods
<1> QED
  BY <1>2, <1>3, <1>4

\* A guarded request that carries its call's guard keeps IInv.
LEMMA SendKeepsIInv ==
    ASSUME IInv, NEW c \in Clients, NEW k \in HostCall, NEW q \in Request,
           Send(c, k, q), CallGuarded(k), RequestGuarded(q),
           UNCHANGED <<svcVars, orphans, told, last, writes>>,
           calls' \in Nat, used' \subseteq Atts
    PROVE  IInv'
<1>1. /\ call' \in [Clients -> HostCall] /\ chan' \in [Clients -> Exchange]
      /\ call'[c] = k /\ chan'[c].req = q
      /\ \A d \in Clients \ {c} : call'[d] = call[d] /\ chan'[d] = chan[d]
  BY SendEffect DEF IInv
<1>2. TypeOK'
  BY <1>1 DEF IInv, TypeOK, svcVars
<1>3. HostsGuarded'
  BY <1>1 DEF IInv, HostsGuarded, svcVars
<1>4. RequestsGuarded'
  BY <1>1 DEF IInv, RequestsGuarded
<1>5. SealsTruthful' /\ GuardedWritesExact'
  BY DEF IInv, SealsTruthful, GuardedWritesExact, svcVars
<1> QED
  BY <1>2, <1>3, <1>4, <1>5 DEF IInv

\* A method that returns keeps IInv.
LEMMA FinishKeepsIInv ==
    ASSUME IInv, NEW c \in Clients, NEW outcome \in Outcomes, NEW rev \in Nat,
           Finish(c, outcome, rev),
           orphans' \subseteq orphans \cup {chan[c].req}
    PROVE  IInv'
<1>1. /\ call' \in [Clients -> HostCall] /\ chan' \in [Clients -> Exchange]
      /\ last' \in [Clients -> Result] /\ told' \in [Clients -> Nat]
      /\ call'[c] = NoCall /\ chan'[c] = NoExchange
      /\ \A d \in Clients \ {c} : call'[d] = call[d] /\ chan'[d] = chan[d]
      /\ \A d \in Clients : told'[d] = told[d] \/ (told'[d] = rev /\ rev # 0)
  BY FinishEffect DEF IInv
<1>2. UNCHANGED <<svcVars, calls, history>>
  BY DEF Finish
<1>3. /\ CallGuarded(NoCall) /\ NoExchange.req = NoRequest
      /\ RequestGuarded(NoRequest)
  BY DEF CallGuarded, NoCall, Guarded, NoExchange, RequestGuarded, NoRequest
<1>4. chan[c].req \in Request
  BY DEF IInv, TypeOK, Exchange
<1>5. TypeOK'
  BY <1>1, <1>2, <1>4 DEF IInv, TypeOK, svcVars, history
<1>6. HostsGuarded'
  BY <1>1, <1>2, <1>3 DEF IInv, HostsGuarded, svcVars
<1>7. RequestsGuarded'
  BY <1>1, <1>3 DEF IInv, RequestsGuarded
<1>8. SealsTruthful' /\ GuardedWritesExact'
  BY <1>2 DEF IInv, SealsTruthful, GuardedWritesExact, svcVars, history
<1> QED
  BY <1>5, <1>6, <1>7, <1>8 DEF IInv

\* The core of the argument: applying a guarded request is exact.
LEMMA HandleKeepsIInv ==
    ASSUME IInv, NEW q \in Request, RequestGuarded(q), NEW code \in Codes,
           NEW applies \in BOOLEAN, Handle(q, code, applies),
           UNCHANGED <<call, told, calls, last>>, orphans' \subseteq orphans,
           chan' \in [Clients -> Exchange],
           \A d \in Clients : chan'[d].req = chan[d].req
    PROVE  IInv'
<1>1. rows' \in Table /\ writes' \subseteq Write
  BY HandleEffect DEF IInv
<1>2. UNCHANGED <<itemRev, locked, touches, used>>
  BY DEF Handle
<1>3. TypeOK'
  BY <1>1, <1>2 DEF IInv, TypeOK
<1>4. HostsGuarded' /\ RequestsGuarded'
  BY <1>2 DEF IInv, HostsGuarded, RequestsGuarded
<1>5. CASE ~applies
  <2>1. rows' = rows /\ writes' = writes
    BY <1>5 DEF Handle
  <2>2. SealsTruthful' /\ GuardedWritesExact'
    BY <2>1 DEF IInv, SealsTruthful, GuardedWritesExact
  <2> QED
    BY <1>3, <1>4, <2>2 DEF IInv
<1>6. CASE applies
  <2>1. q.kind # "list" /\ Verdicts(q) = {"ok"} /\ q.att \in Atts
        /\ q.kind \in Kinds /\ itemRev # 0
    BY <1>6 DEF Handle, Request, IInv, HostsGuarded
  <2>2. ~Stale(q) /\ ~locked
    BY <2>1 DEF Verdicts
  <2>3. /\ q.kind = "upload" => ~Present(q.att)
        /\ q.kind = "deletion" =>
              /\ Present(q.att) /\ rows[q.att].seal = q.seal
              /\ q.seal # NoSeal
    BY <2>1, <2>2 DEF Verdicts
  <2> DEFINE w == [by |-> q.by, op |-> q.op, att |-> q.att, file |-> q.file,
                   seal |-> q.seal, old |-> rows[q.att], rev |-> itemRev,
                   wants |-> q.wants]
  <2>4. writes' = writes \cup {w}
    BY <1>6 DEF Handle
  <2>5. w.op \in Guarded => w.rev = w.wants
    BY <2>1, <2>2 DEF RequestGuarded, Stale
  <2>6. w.op = "conditional_delete_attachment" =>
            w.old.file # None /\ Sha[w.old.file] = Sha[w.file]
    <3> SUFFICES ASSUME q.op = "conditional_delete_attachment"
                 PROVE  rows[q.att].file # None
                        /\ Sha[rows[q.att].file] = Sha[q.file]
      OBVIOUS
    <3>1. q.kind = "deletion"
      BY <2>1 DEF RequestGuarded
    <3>2. q.file \in Files /\ rows[q.att].seal.sha = Sha[q.file]
      BY <2>3, <3>1 DEF RequestGuarded
    <3>3. rows[q.att].seal.sha # None
      BY <3>2, AttachmentAssumption
    <3> QED
      BY <2>1, <3>2, <3>3, AttachmentAssumption DEF IInv, SealsTruthful
  <2>7. w.op = "put_attachment_with_id" => w.old.file = None
    BY <2>1, <2>3 DEF RequestGuarded, Present
  <2>8. GuardedWritesExact'
    <3> HIDE DEF w
    <3> QED
      BY <2>4, <2>5, <2>6, <2>7 DEF IInv, GuardedWritesExact
  <2>9. SealsTruthful'
    <3> SUFFICES ASSUME NEW a \in Atts, rows'[a].seal.sha # None
                 PROVE  /\ rows'[a].file \in Files
                        /\ rows'[a].seal.sha = Sha[rows'[a].file]
      BY DEF SealsTruthful
    <3>1. CASE a # q.att
      <4>1. rows'[a] = rows[a]
        BY <1>6, <3>1 DEF Handle, IInv, TypeOK, Table
      <4> QED
        BY <4>1 DEF IInv, SealsTruthful
    <3>2. CASE a = q.att /\ q.kind = "upload"
      <4>1. rows'[a] = [file |-> q.file, seal |-> q.seal]
        BY <1>6, <3>2 DEF Handle, IInv, TypeOK, Table
      <4> QED
        BY <3>2, <4>1 DEF RequestGuarded
    <3>3. CASE a = q.att /\ q.kind # "upload"
      <4>1. rows'[a] = NoRow
        BY <1>6, <3>3 DEF Handle, IInv, TypeOK, Table
      <4> QED
        BY <4>1 DEF NoRow, NoSeal
    <3> QED
      BY <3>1, <3>2, <3>3
  <2> QED
    BY <1>3, <1>4, <2>8, <2>9 DEF IInv
<1> QED
  BY <1>5, <1>6

\* Every method a host begins keeps IInv.
LEMMA HostKeepsIInv ==
    ASSUME IInv, NEW c \in Clients, HostBegins(c)
    PROVE  IInv'
<1>1. /\ calls + 1 \in Nat /\ told[c] \in Nat /\ told[c] # 0
      /\ NoCall \in HostCall /\ used \subseteq Atts
  BY PlaceholderTypes DEF IInv, TypeOK, HostsGuarded
<1>2. ASSUME NEW k \in HostCall, Begin(c, k), CallGuarded(k),
             k.op = "put_attachment" => k.file \in Files, used' \subseteq Atts
      PROVE  IInv'
  <2>1. /\ k.op # "none" /\ Send(c, k, FirstRequest(c, k))
        /\ UNCHANGED <<svcVars, orphans, told, last, writes>>
        /\ calls' = calls + 1
    BY <1>2, AttachmentAssumption DEF Begin, Methods
  <2>2. FirstRequest(c, k) \in Request /\ RequestGuarded(FirstRequest(c, k))
    BY <1>2, <2>1, RequestTypes, BuiltRequestsGuarded DEF CallGuarded
  <2> QED
    BY <1>1, <1>2, <2>1, <2>2, SendKeepsIInv
<1>3. CASE get_item(c)
  <2>1. /\ told' = [told EXCEPT ![c] = itemRev]
        /\ UNCHANGED <<svcVars, call, chan, orphans, calls, last, history>>
    BY <1>3 DEF get_item
  <2>2. TypeOK'
    BY <2>1 DEF IInv, TypeOK, svcVars, history
  <2>3. HostsGuarded'
    BY <2>1 DEF IInv, HostsGuarded, TypeOK, svcVars
  <2>4. RequestsGuarded' /\ SealsTruthful' /\ GuardedWritesExact'
    BY <2>1 DEF IInv, RequestsGuarded, SealsTruthful, GuardedWritesExact,
                svcVars, history
  <2> QED
    BY <2>2, <2>3, <2>4 DEF IInv
<1>4. CASE \E a \in Atts : delete_attachment(c, a)
  <2>1. PICK a \in Atts : delete_attachment(c, a)
    BY <1>4
  <2> DEFINE k == [NoCall EXCEPT !.op = "delete_attachment", !.n = calls + 1,
                                 !.att = a]
  <2>2. k \in HostCall /\ k.op = "delete_attachment"
    BY <1>1 DEF HostCall, Methods
  <2>3. Begin(c, k) /\ used' \subseteq Atts
    BY <1>1, <2>1 DEF delete_attachment
  <2> HIDE DEF k
  <2> QED
    BY <1>2, <2>2, <2>3 DEF CallGuarded, Guarded
<1>5. CASE \E a \in Atts, f \in Files : put_attachment(c, a, f)
  <2>1. PICK a \in Atts, f \in Files : put_attachment(c, a, f)
    BY <1>5
  <2> DEFINE k == [NoCall EXCEPT !.op = "put_attachment", !.n = calls + 1,
                                 !.att = a, !.file = f]
  <2>2. k \in HostCall /\ k.op = "put_attachment" /\ k.file \in Files
    BY <1>1 DEF HostCall, Methods, Contents
  <2>3. Begin(c, k) /\ used' \subseteq Atts
    BY <1>1, <2>1 DEF put_attachment
  <2> HIDE DEF k
  <2> QED
    BY <1>2, <2>2, <2>3 DEF CallGuarded, Guarded
<1>6. CASE \E a \in Atts, f \in Files : put_attachment_with_id(c, a, f)
  <2>1. PICK a \in Atts, f \in Files : put_attachment_with_id(c, a, f)
    BY <1>6
  <2> DEFINE k == [NoCall EXCEPT !.op = "put_attachment_with_id",
                                 !.n = calls + 1, !.att = a, !.file = f,
                                 !.ifMatch = told[c]]
  <2>2. /\ k \in HostCall /\ k.op = "put_attachment_with_id"
        /\ k.file \in Files /\ k.ifMatch # 0
    BY <1>1 DEF HostCall, Methods, Contents
  <2>3. Begin(c, k) /\ used' \subseteq Atts
    BY <1>1, <2>1 DEF put_attachment_with_id
  <2> HIDE DEF k
  <2> QED
    BY <1>2, <2>2, <2>3 DEF CallGuarded
<1>7. CASE \E a \in Atts, f \in Files : conditional_delete_attachment(c, a, f)
  <2>1. PICK a \in Atts, f \in Files : conditional_delete_attachment(c, a, f)
    BY <1>7
  <2> DEFINE k == [NoCall EXCEPT !.op = "conditional_delete_attachment",
                                 !.n = calls + 1, !.att = a, !.file = f,
                                 !.ifMatch = told[c]]
  <2>2. /\ k \in HostCall /\ k.op = "conditional_delete_attachment"
        /\ k.file \in Files /\ k.ifMatch # 0
    BY <1>1 DEF HostCall, Methods, Contents
  <2>3. Begin(c, k) /\ used' \subseteq Atts
    BY <1>1, <2>1 DEF conditional_delete_attachment
  <2> HIDE DEF k
  <2> QED
    BY <1>2, <2>2, <2>3 DEF CallGuarded
<1> QED
  BY <1>3, <1>4, <1>5, <1>6, <1>7 DEF HostBegins

\* Every reply or timeout a method resumes with keeps IInv.
LEMMA ClientKeepsIInv ==
    ASSUME IInv, NEW c \in Clients, ClientResumes(c)
    PROVE  IInv'
<1>1. /\ call[c] \in HostCall /\ CallGuarded(call[c])
      /\ call[c].refusalRev \in Nat
      /\ chan[c].resp.rev \in Nat /\ chan[c].resp.rows \in Table
      /\ call[c].att \in Atts /\ calls \in Nat /\ used \subseteq Atts
  BY DEF IInv, TypeOK, HostsGuarded, HostCall, Exchange, Response
<1>2. CASE PutExists(c)
  <2> DEFINE k == [call[c] EXCEPT !.refusalRev = chan[c].resp.rev]
             q == Req(c, call[c], "list", NoSeal)
  <2>1. /\ call[c].op = "put_attachment_with_id" /\ Send(c, k, q)
        /\ UNCHANGED <<svcVars, orphans, told, calls, last, history>>
    BY <1>2 DEF PutExists
  <2>2. k \in HostCall /\ CallGuarded(k)
    BY <1>1, <2>1 DEF HostCall, CallGuarded
  <2>3. q \in Request /\ RequestGuarded(q)
    BY <1>1, <2>1, PlaceholderTypes, RequestTypes, BuiltRequestsGuarded DEF Kinds
  <2> HIDE DEF k, q
  <2> QED
    BY <1>1, <2>1, <2>2, <2>3, SendKeepsIInv DEF history
<1>3. CASE PutCompared(c)
  BY <1>1, <1>3, FinishKeepsIInv DEF PutCompared, Outcomes
<1>4. CASE DeleteListed(c)
  <2> DEFINE seal == expected_digest_ciphertext(c)
             q == Req(c, call[c], "deletion", seal)
  <2>1. /\ call[c].op = "conditional_delete_attachment" /\ Send(c, call[c], q)
        /\ UNCHANGED <<svcVars, orphans, told, calls, last, history>>
    BY <1>4 DEF DeleteListed
  <2>2. call[c].file \in Files
    BY <1>1, <2>1 DEF CallGuarded, Guarded
  <2>3. chan[c].resp.rows[call[c].att].seal \in Seals
    BY <1>1 DEF Table, Row
  <2>4. encrypt_digest(c, call[c]) \in Seals
        /\ encrypt_digest(c, call[c]).sha = Sha[call[c].file]
    BY <1>1, <2>1, <2>2, RequestTypes DEF encrypt_digest
  <2>5. seal \in Seals /\ seal.sha = Sha[call[c].file]
    BY <2>3, <2>4 DEF expected_digest_ciphertext, Verified
  <2> HIDE DEF seal
  <2>6. q \in Request /\ RequestGuarded(q)
    BY <1>1, <2>1, <2>5, RequestTypes, BuiltRequestsGuarded DEF Kinds
  <2> HIDE DEF q
  <2> QED
    BY <1>1, <2>1, <2>6, SendKeepsIInv DEF history
<1>5. CASE Settle(c)
  <2>1. outcome_of(call[c].op, chan[c].resp.code) \in Outcomes
    BY DEF outcome_of, Outcomes
  <2>2. (IF call[c].op \in Guarded /\ chan[c].resp.code \in {"ok", "absent"}
         THEN chan[c].resp.rev ELSE 0) \in Nat
    BY <1>1
  <2> QED
    BY <1>5, <2>1, <2>2, FinishKeepsIInv DEF Settle
<1>6. CASE Rejected(c)
  BY <1>6, FinishKeepsIInv DEF Rejected, Outcomes
<1>7. CASE Timeout(c)
  BY <1>7, FinishKeepsIInv DEF Timeout, Outcomes
<1> QED
  BY <1>2, <1>3, <1>4, <1>5, <1>6, <1>7 DEF ClientResumes

\* The service keeps IInv, with requests in time and late ones.
LEMMA ServiceKeepsIInv ==
    ASSUME IInv, ServiceServes
    PROVE  IInv'
<1>1. PICK code \in Codes, applies \in BOOLEAN :
        \/ \E c \in Clients : Serve(c, code, applies)
        \/ \E q \in orphans : ServeOrphan(q, code, applies)
  BY DEF ServiceServes
<1>2. ASSUME NEW c \in Clients, Serve(c, code, applies)
      PROVE  IInv'
  <2>1. PICK q \in Request : q = chan[c].req
    BY DEF IInv, TypeOK, Exchange
  <2>2. /\ Handle(q, code, applies) /\ RequestGuarded(q)
        /\ UNCHANGED <<call, orphans, told, calls, last>>
    BY <1>2, <2>1 DEF Serve, IInv, RequestsGuarded
  <2>3. Reply(q, code) \in Response
    BY <2>2, HandleEffect DEF IInv
  <2>4. /\ chan' \in [Clients -> Exchange]
        /\ \A d \in Clients : chan'[d].req = chan[d].req
    BY <1>2, <2>1, <2>3 DEF Serve, IInv, TypeOK, Exchange
  <2> QED
    BY <2>2, <2>4, HandleKeepsIInv
<1>3. ASSUME NEW q \in orphans, ServeOrphan(q, code, applies)
      PROVE  IInv'
  <2>1. /\ q \in Request /\ RequestGuarded(q) /\ Handle(q, code, applies)
        /\ UNCHANGED <<call, chan, told, calls, last>>
        /\ orphans' \subseteq orphans
    BY <1>3 DEF ServeOrphan, IInv, TypeOK, RequestsGuarded
  <2>2. chan' \in [Clients -> Exchange]
    BY <2>1 DEF IInv, TypeOK
  <2> QED
    BY <2>1, <2>2, HandleKeepsIInv
<1> QED
  BY <1>1, <1>2, <1>3

\* At first there are no rows, no requests and no calls.
LEMMA IInvInit == Init => IInv
<1> SUFFICES ASSUME Init PROVE IInv
  OBVIOUS
<1>1. \A f \in Files : Sha[f] \in Digests
  BY AttachmentAssumption
<1>2. ASSUME NEW r \in OldRows
      PROVE  /\ r \in Row
             /\ r.seal.sha # None => r.file \in Files /\ r.seal.sha = Sha[r.file]
  <2>1. CASE r = NoRow
    BY <2>1, PlaceholderTypes DEF NoRow, NoSeal
  <2>2. CASE \E f \in Files : r = [file |-> f, seal |-> NoSeal]
    BY <2>2, PlaceholderTypes DEF NoSeal, Row, Contents
  <2>3. CASE \E f \in Files :
                r = [file |-> f, seal |-> [by |-> SomeCall, sha |-> Sha[f]]]
    BY <1>1, <2>3, PlaceholderTypes DEF Row, Contents, Seals
  <2> QED
    BY <2>1, <2>2, <2>3 DEF OldRows
<1>3. rows \in [Atts -> OldRows]
  BY DEF Init
<1>4. TypeOK
  BY <1>2, <1>3, PlaceholderTypes DEF Init, TypeOK, Table
<1>5. SealsTruthful
  BY <1>2, <1>3 DEF SealsTruthful
<1>6. HostsGuarded /\ RequestsGuarded /\ GuardedWritesExact
  BY DEF Init, HostsGuarded, RequestsGuarded, GuardedWritesExact, CallGuarded,
         NoCall, Guarded, NoExchange, NoRequest, RequestGuarded
<1> QED
  BY <1>4, <1>5, <1>6 DEF IInv

\* IInv is inductive.
LEMMA IInvStep == IInv /\ [Next]_vars => IInv'
<1> SUFFICES ASSUME IInv, [Next]_vars PROVE IInv'
  OBVIOUS
<1>1. CASE \E c \in Clients : HostBegins(c) \/ ClientResumes(c)
  BY <1>1, HostKeepsIInv, ClientKeepsIInv
<1>2. CASE ServiceServes
  BY <1>2, ServiceKeepsIInv
<1>3. ASSUME itemRev' \in Nat, itemRev' # 0, locked' \in BOOLEAN, touches' \in Nat,
             UNCHANGED <<rows, hostVars, history>>
      PROVE  IInv'
  BY <1>3 DEF IInv, TypeOK, HostsGuarded, RequestsGuarded, SealsTruthful,
              GuardedWritesExact, hostVars, history
<1>4. CASE Touch
  <2>1. itemRev \in Nat /\ itemRev # 0 /\ touches \in Nat /\ locked \in BOOLEAN
    BY DEF IInv, TypeOK, HostsGuarded
  <2>2. locked' \in BOOLEAN
    <3>1. CASE locked' = locked
      BY <2>1, <3>1
    <3>2. CASE locked' = TRUE
      BY <3>2
    <3> QED
      BY <1>4, <3>1, <3>2, Zenon DEF Touch
  <2>3. itemRev' = itemRev + 1 \/ itemRev' = itemRev
    BY <1>4, Zenon DEF Touch
  <2>4. itemRev' \in Nat /\ itemRev' # 0
    BY <2>1, <2>3, SMT
  <2>5. touches' = touches + 1 /\ UNCHANGED <<rows, hostVars, history>>
    BY <1>4, Zenon DEF Touch
  <2>6. touches' \in Nat
    BY <2>1, <2>5, SMT
  <2> QED
    BY <1>3, <2>2, <2>4, <2>5, <2>6, Zenon
<1>5. CASE EndRotation
  <2>1. locked' \in BOOLEAN
    BY <1>5 DEF EndRotation
  <2>2. itemRev' \in Nat /\ itemRev' # 0 /\ touches' \in Nat
    BY <1>5 DEF EndRotation, IInv, TypeOK, HostsGuarded
  <2> QED
    BY <1>3, <1>5, <2>1, <2>2 DEF EndRotation
<1>6. CASE UNCHANGED vars
  BY <1>3, <1>6 DEF vars, svcVars, IInv, TypeOK, HostsGuarded
<1> QED
  BY <1>1, <1>2, <1>4, <1>5, <1>6 DEF Next

\* Type correctness of the attachment writes.
THEOREM AttachmentTypes == Spec => []TypeOK
<1>1. IInv => TypeOK
  BY DEF IInv
<1> QED
  BY IInvInit, IInvStep, <1>1, PTL DEF Spec

\* For any number of hosts, files and delays: a guarded attachment write takes
\* effect only at the revision its caller named, a conditional deletion removes
\* only a file with the expected SHA-256, and an upload replaces nothing.
THEOREM GuardedWritesAreExact == Spec => []GuardedWritesExact
<1>1. IInv => GuardedWritesExact
  BY DEF IInv
<1> QED
  BY IInvInit, IInvStep, <1>1, PTL DEF Spec

-------------------------------------------------------------------------------
(* Refusals are final *)

Refusals ==
    {"AlreadyPresent", "IdConflict", "Stale", "AlreadyAbsent", "Mismatch",
     "Rotating"}

\* No write the service applied was sent by call b, and none will be late.
NotWritten(b, W) == \A w \in W : w.by # b
NotLate(b, O) == \A q \in O : q.by # b

\* An exchange whose request has surely not been applied.
Unapplied(x) ==
    \/ x.phase = "sent"
    \/ /\ x.phase = "replied"
       /\ x.req.kind = "list" \/ x.resp.code \notin {"ok", "failed"}

\* The exchange x of host c is that of its call k, which is newer than the
\* host's last call r and has left nothing behind.
InProgress(c, k, x, r, N, W, O) ==
    x.phase # "idle" =>
        /\ k.op # "none" /\ k.n <= N /\ r.n < k.n
        /\ x.req.by = <<c, k.n>> /\ x.req.op = k.op /\ x.req.att = k.att
        /\ NotLate(<<c, k.n>>, O)
        /\ Unapplied(x) => NotWritten(<<c, k.n>>, W)

Final(c, r, N, W, O) ==
    /\ r.n <= N
    /\ r.outcome \in Refusals =>
            NotWritten(<<c, r.n>>, W) /\ NotLate(<<c, r.n>>, O)

Numbered(N, W, O) ==
    (\A w \in W : w.by[2] <= N) /\ (\A q \in O : q.by[2] <= N)

RefusalInv ==
    /\ Numbered(calls, writes, orphans)
    /\ \A c \in Clients :
            /\ InProgress(c, call[c], chan[c], last[c], calls, writes, orphans)
            /\ Final(c, last[c], calls, writes, orphans)

\* The state a call begins in: its number is new.
LEMMA NewCallsAreNew ==
    ASSUME TypeOK, RefusalInv, NEW c \in Clients
    PROVE  /\ last[c].n < calls + 1
           /\ NotWritten(<<c, calls + 1>>, writes)
           /\ NotLate(<<c, calls + 1>>, orphans)
<1>1. calls \in Nat /\ last[c].n \in Nat
  BY DEF TypeOK, Result
<1>2. last[c].n <= calls
  BY DEF RefusalInv, Final
<1>3. NotWritten(<<c, calls + 1>>, writes)
  BY <1>1 DEF RefusalInv, Numbered, NotWritten
<1>4. NotLate(<<c, calls + 1>>, orphans)
  BY <1>1 DEF RefusalInv, Numbered, NotLate
<1> QED
  BY <1>1, <1>2, <1>3, <1>4

\* A host sends the next request of its call, or the first of a new one.
LEMMA SendKeepsRefusals ==
    ASSUME TypeOK, RefusalInv, NEW c \in Clients, NEW k \in HostCall,
           NEW q \in Request, Send(c, k, q),
           calls' \in Nat, calls <= calls',
           UNCHANGED <<orphans, last, writes>>,
           k.op # "none", k.n <= calls', last[c].n < k.n,
           q.by = <<c, k.n>>, q.op = k.op, q.att = k.att,
           NotLate(<<c, k.n>>, orphans), NotWritten(<<c, k.n>>, writes)
    PROVE  RefusalInv'
<1>1. calls \in Nat /\ writes \subseteq Write /\ orphans \subseteq Request
  BY DEF TypeOK
<1>2. Numbered(calls, writes, orphans)'
  <2>1. ASSUME NEW w \in writes PROVE w.by[2] <= calls'
    <3>1. w.by[2] \in Nat
      BY <1>1 DEF Write, Calls
    <3>2. w.by[2] <= calls
      BY DEF RefusalInv, Numbered
    <3> QED
      BY <1>1, <3>1, <3>2
  <2>2. ASSUME NEW p \in orphans PROVE p.by[2] <= calls'
    <3>1. p.by[2] \in Nat
      BY <1>1 DEF Request, Calls
    <3>2. p.by[2] <= calls
      BY DEF RefusalInv, Numbered
    <3> QED
      BY <1>1, <3>1, <3>2
  <2> QED
    BY <2>1, <2>2 DEF Numbered
<1>3. ASSUME NEW d \in Clients
      PROVE  Final(d, last[d], calls, writes, orphans)'
  <2>1. last[d].n \in Nat
    BY DEF TypeOK, Result
  <2>2. Final(d, last[d], calls, writes, orphans)
    BY DEF RefusalInv
  <2> QED
    BY <1>1, <2>1, <2>2 DEF Final
<1>4. ASSUME NEW d \in Clients
      PROVE  InProgress(d, call[d], chan[d], last[d], calls, writes, orphans)'
  <2>1. CASE d = c
    <3>1. call'[c] = k /\ chan'[c].req = q
      BY SendEffect
    <3> QED
      BY <2>1, <3>1 DEF InProgress
  <2>2. CASE d # c
    <3>1. call'[d] = call[d] /\ chan'[d] = chan[d]
      BY <2>2, SendEffect
    <3>2. call[d].n \in Nat
      BY DEF TypeOK, HostCall
    <3>3. InProgress(d, call[d], chan[d], last[d], calls, writes, orphans)
      BY DEF RefusalInv
    <3> QED
      BY <1>1, <3>1, <3>2, <3>3 DEF InProgress
  <2> QED
    BY <2>1, <2>2
<1> QED
  BY <1>2, <1>3, <1>4 DEF RefusalInv

\* A call ends: a refusal is only reported when its request was not applied.
LEMMA FinishKeepsRefusals ==
    ASSUME TypeOK, RefusalInv, NEW c \in Clients, NEW outcome \in Outcomes,
           NEW rev \in Nat, Finish(c, outcome, rev), chan[c].phase # "idle",
           outcome \in Refusals => Unapplied(chan[c]) /\ orphans' = orphans,
           orphans' \subseteq orphans \cup {chan[c].req}
    PROVE  RefusalInv'
<1>1. /\ chan'[c] = NoExchange
      /\ \A d \in Clients \ {c} : call'[d] = call[d] /\ chan'[d] = chan[d]
  BY FinishEffect
<1>2. UNCHANGED <<calls, writes>>
  BY DEF Finish, history
<1>3. /\ \A d \in Clients \ {c} : last'[d] = last[d]
      /\ last'[c].n = call[c].n /\ last'[c].outcome = outcome
  BY DEF Finish, TypeOK
<1>4. InProgress(c, call[c], chan[c], last[c], calls, writes, orphans)
  BY DEF RefusalInv
<1>5. /\ call[c].n <= calls /\ chan[c].req.by = <<c, call[c].n>>
      /\ NotLate(<<c, call[c].n>>, orphans)
      /\ Unapplied(chan[c]) => NotWritten(<<c, call[c].n>>, writes)
  BY <1>4 DEF InProgress
<1>6. Numbered(calls, writes, orphans)'
  BY <1>2, <1>5 DEF RefusalInv, Numbered
<1>7. ASSUME NEW d \in Clients \ {c}, NEW b, NotLate(<<d, b>>, orphans)
      PROVE  NotLate(<<d, b>>, orphans')
  BY <1>5, <1>7 DEF NotLate
<1>8. ASSUME NEW d \in Clients
      PROVE  Final(d, last[d], calls, writes, orphans)'
  <2>1. CASE d = c
    BY <1>2, <1>3, <1>5, <2>1 DEF Final
  <2>2. CASE d # c
    <3>1. Final(d, last[d], calls, writes, orphans)
      BY DEF RefusalInv
    <3> QED
      BY <1>2, <1>3, <1>7, <2>2, <3>1 DEF Final
  <2> QED
    BY <2>1, <2>2
<1>9. ASSUME NEW d \in Clients
      PROVE  InProgress(d, call[d], chan[d], last[d], calls, writes, orphans)'
  <2>1. CASE d = c
    BY <1>1, <2>1 DEF InProgress, NoExchange
  <2>2. CASE d # c
    <3>1. InProgress(d, call[d], chan[d], last[d], calls, writes, orphans)
      BY DEF RefusalInv
    <3> QED
      BY <1>1, <1>2, <1>3, <1>7, <2>2, <3>1 DEF InProgress
  <2> QED
    BY <2>1, <2>2
<1> QED
  BY <1>6, <1>8, <1>9 DEF RefusalInv

\* A served request adds at most one write, its own; a listing and a coded
\* refusal add none.
LEMMA HandleWrites ==
    ASSUME NEW q \in Request, NEW code \in Codes, NEW applies \in BOOLEAN,
           Handle(q, code, applies)
    PROVE  /\ writes \subseteq writes'
           /\ \A w \in writes' : w \in writes \/ w.by = q.by
           /\ (q.kind = "list" \/ code \notin {"ok", "failed"}) =>
                    writes' = writes
<1>1. CASE applies
  <2>1. q.kind # "list" /\ code \in {"ok", "failed"}
    BY <1>1 DEF Handle
  <2> DEFINE w == [by |-> q.by, op |-> q.op, att |-> q.att, file |-> q.file,
                   seal |-> q.seal, old |-> rows[q.att], rev |-> itemRev,
                   wants |-> q.wants]
  <2>2. writes' = writes \cup {w} /\ w.by = q.by
    BY <1>1 DEF Handle
  <2> HIDE DEF w
  <2> QED
    BY <2>1, <2>2
<1>2. CASE ~applies
  BY <1>2 DEF Handle
<1> QED
  BY <1>1, <1>2

\* A request served in time keeps RefusalInv.
LEMMA ServeKeepsRefusals ==
    ASSUME TypeOK, RefusalInv, NEW c \in Clients, NEW code \in Codes,
           NEW applies \in BOOLEAN, Serve(c, code, applies)
    PROVE  RefusalInv'
<1>1. PICK q \in Request : q = chan[c].req
  BY DEF TypeOK, Exchange
<1>2. /\ chan[c].phase = "sent" /\ Handle(q, code, applies)
      /\ UNCHANGED <<call, orphans, calls, last>>
  BY <1>1 DEF Serve
<1>3. /\ \A w \in writes' : w \in writes \/ w.by = q.by
      /\ (q.kind = "list" \/ code \notin {"ok", "failed"}) => writes' = writes
  BY <1>2, HandleWrites
<1>4. /\ chan'[c].phase = "replied" /\ chan'[c].req = q
      /\ chan'[c].resp.code = code
      /\ \A d \in Clients \ {c} : chan'[d] = chan[d]
  BY <1>1 DEF Serve, TypeOK, Exchange, Reply
<1>5. /\ call[c].op # "none" /\ call[c].n <= calls /\ last[c].n < call[c].n
      /\ q.by = <<c, call[c].n>> /\ q.op = call[c].op /\ q.att = call[c].att
      /\ NotLate(<<c, call[c].n>>, orphans)
      /\ NotWritten(<<c, call[c].n>>, writes)
  BY <1>1, <1>2 DEF RefusalInv, InProgress, Unapplied
<1>6. last[c].n \in Nat /\ call[c].n \in Nat
  BY DEF TypeOK, Result, HostCall
<1>7. Numbered(calls, writes, orphans)'
  BY <1>2, <1>3, <1>5 DEF RefusalInv, Numbered
<1>8. ASSUME NEW d \in Clients, NEW b \in Nat, d # c \/ b # call[c].n,
             NotWritten(<<d, b>>, writes)
      PROVE  NotWritten(<<d, b>>, writes')
  BY <1>3, <1>5, <1>8 DEF NotWritten
<1>9. ASSUME NEW d \in Clients
      PROVE  Final(d, last[d], calls, writes, orphans)'
  <2>1. Final(d, last[d], calls, writes, orphans)
    BY DEF RefusalInv
  <2>2. last[d].n \in Nat /\ (d # c \/ last[d].n # call[c].n)
    BY <1>5, <1>6 DEF TypeOK, Result
  <2> QED
    BY <1>2, <1>8, <2>1, <2>2 DEF Final
<1>10. ASSUME NEW d \in Clients
       PROVE  InProgress(d, call[d], chan[d], last[d], calls, writes, orphans)'
  <2>1. CASE d = c
    <3>1. Unapplied(chan'[c]) => NotWritten(<<c, call[c].n>>, writes')
      BY <1>3, <1>4, <1>5 DEF Unapplied
    <3> QED
      BY <1>2, <1>4, <1>5, <2>1, <3>1 DEF InProgress
  <2>2. CASE d # c
    <3>1. InProgress(d, call[d], chan[d], last[d], calls, writes, orphans)
      BY DEF RefusalInv
    <3>2. call[d].n \in Nat
      BY DEF TypeOK, HostCall
    <3> QED
      BY <1>2, <1>4, <1>8, <2>2, <3>1, <3>2 DEF InProgress
  <2> QED
    BY <2>1, <2>2
<1> QED
  BY <1>7, <1>9, <1>10 DEF RefusalInv

\* A late request is that of a call that neither runs nor was refused.
LEMMA OrphanKeepsRefusals ==
    ASSUME TypeOK, RefusalInv, NEW q \in orphans, NEW code \in Codes,
           NEW applies \in BOOLEAN, ServeOrphan(q, code, applies)
    PROVE  RefusalInv'
<1>1. /\ q \in Request /\ Handle(q, code, applies) /\ orphans' \subseteq orphans
      /\ UNCHANGED <<call, chan, calls, last>>
  BY DEF ServeOrphan, TypeOK
<1>2. \A w \in writes' : w \in writes \/ w.by = q.by
  BY <1>1, HandleWrites
<1>3. Numbered(calls, writes, orphans)'
  BY <1>1, <1>2 DEF RefusalInv, Numbered
<1>4. ASSUME NEW b, NotWritten(b, writes), NotLate(b, orphans)
      PROVE  NotWritten(b, writes') /\ NotLate(b, orphans')
  BY <1>1, <1>2, <1>4 DEF NotWritten, NotLate
<1>5. ASSUME NEW b, NotLate(b, orphans)
      PROVE  NotLate(b, orphans')
  BY <1>1, <1>5 DEF NotLate
<1>6. ASSUME NEW d \in Clients
      PROVE  Final(d, last[d], calls, writes, orphans)'
  BY <1>1, <1>4 DEF RefusalInv, Final
<1>7. ASSUME NEW d \in Clients
      PROVE  InProgress(d, call[d], chan[d], last[d], calls, writes, orphans)'
  <2>1. InProgress(d, call[d], chan[d], last[d], calls, writes, orphans)
    BY DEF RefusalInv
  <2> QED
    BY <1>1, <1>4, <1>5, <2>1 DEF InProgress
<1> QED
  BY <1>3, <1>6, <1>7 DEF RefusalInv

\* The first request of a call is marked with the call.
LEMMA FirstRequestMarked ==
    ASSUME NEW c \in Clients, NEW k \in HostCall, k.op # "none"
    PROVE  /\ FirstRequest(c, k).by = <<c, k.n>>
           /\ FirstRequest(c, k).op = k.op /\ FirstRequest(c, k).att = k.att
<1>1. k.op \in Methods
  BY DEF HostCall
<1>2. PICK kind \in Kinds, seal \in Seals \cup {encrypt_digest(c, k)} :
        FirstRequest(c, k) = Req(c, k, kind, seal)
  BY <1>1, PlaceholderTypes DEF FirstRequest, Methods, Kinds
<1> QED
  BY <1>2 DEF Req

\* Every method a host begins keeps RefusalInv.
LEMMA HostKeepsRefusals ==
    ASSUME IInv, RefusalInv, NEW c \in Clients, HostBegins(c)
    PROVE  RefusalInv'
<1>1. /\ TypeOK /\ calls \in Nat /\ calls + 1 \in Nat /\ told[c] \in Nat
      /\ NoCall \in HostCall
  BY PlaceholderTypes DEF IInv, TypeOK
<1>2. ASSUME NEW k \in HostCall, Begin(c, k), k.n = calls + 1,
             k.op \in Guarded => k.file \in Files
      PROVE  RefusalInv'
  <2>1. /\ k.op # "none" /\ Send(c, k, FirstRequest(c, k))
        /\ UNCHANGED <<orphans, last, writes>> /\ calls' = calls + 1
    BY <1>2, AttachmentAssumption DEF Begin, Methods
  <2>2. FirstRequest(c, k) \in Request
    BY <1>2, <2>1, RequestTypes
  <2>3. calls' \in Nat /\ calls <= calls' /\ k.n <= calls'
    BY <1>1, <1>2, <2>1
  <2>4. /\ last[c].n < k.n /\ NotLate(<<c, k.n>>, orphans)
        /\ NotWritten(<<c, k.n>>, writes)
    BY <1>1, <1>2, NewCallsAreNew
  <2> QED
    BY <1>1, <2>1, <2>2, <2>3, <2>4, FirstRequestMarked, SendKeepsRefusals
<1>3. CASE get_item(c)
  BY <1>3 DEF get_item, RefusalInv, history
<1>4. CASE \E a \in Atts : delete_attachment(c, a)
  <2>1. PICK a \in Atts : delete_attachment(c, a)
    BY <1>4
  <2> DEFINE k == [NoCall EXCEPT !.op = "delete_attachment", !.n = calls + 1,
                                 !.att = a]
  <2>2. k \in HostCall /\ k.op = "delete_attachment" /\ k.n = calls + 1
    BY <1>1 DEF HostCall, Methods
  <2>3. Begin(c, k)
    BY <2>1 DEF delete_attachment
  <2> HIDE DEF k
  <2> QED
    BY <1>2, <2>2, <2>3 DEF Guarded
<1>5. CASE \E a \in Atts, f \in Files : put_attachment(c, a, f)
  <2>1. PICK a \in Atts, f \in Files : put_attachment(c, a, f)
    BY <1>5
  <2> DEFINE k == [NoCall EXCEPT !.op = "put_attachment", !.n = calls + 1,
                                 !.att = a, !.file = f]
  <2>2. k \in HostCall /\ k.file \in Files /\ k.n = calls + 1
    BY <1>1 DEF HostCall, Methods, Contents
  <2>3. Begin(c, k)
    BY <2>1 DEF put_attachment
  <2> HIDE DEF k
  <2> QED
    BY <1>2, <2>2, <2>3
<1>6. CASE \E a \in Atts, f \in Files : put_attachment_with_id(c, a, f)
  <2>1. PICK a \in Atts, f \in Files : put_attachment_with_id(c, a, f)
    BY <1>6
  <2> DEFINE k == [NoCall EXCEPT !.op = "put_attachment_with_id",
                                 !.n = calls + 1, !.att = a, !.file = f,
                                 !.ifMatch = told[c]]
  <2>2. k \in HostCall /\ k.file \in Files /\ k.n = calls + 1
    BY <1>1 DEF HostCall, Methods, Contents
  <2>3. Begin(c, k)
    BY <2>1 DEF put_attachment_with_id
  <2> HIDE DEF k
  <2> QED
    BY <1>2, <2>2, <2>3
<1>7. CASE \E a \in Atts, f \in Files : conditional_delete_attachment(c, a, f)
  <2>1. PICK a \in Atts, f \in Files : conditional_delete_attachment(c, a, f)
    BY <1>7
  <2> DEFINE k == [NoCall EXCEPT !.op = "conditional_delete_attachment",
                                 !.n = calls + 1, !.att = a, !.file = f,
                                 !.ifMatch = told[c]]
  <2>2. k \in HostCall /\ k.file \in Files /\ k.n = calls + 1
    BY <1>1 DEF HostCall, Methods, Contents
  <2>3. Begin(c, k)
    BY <2>1 DEF conditional_delete_attachment
  <2> HIDE DEF k
  <2> QED
    BY <1>2, <2>2, <2>3
<1> QED
  BY <1>3, <1>4, <1>5, <1>6, <1>7 DEF HostBegins

\* Every reply or timeout a method resumes with keeps RefusalInv.
LEMMA ClientKeepsRefusals ==
    ASSUME IInv, RefusalInv, NEW c \in Clients, ClientResumes(c)
    PROVE  RefusalInv'
<1>1. /\ TypeOK /\ call[c] \in HostCall /\ call[c].refusalRev \in Nat
      /\ chan[c].resp.rev \in Nat /\ chan[c].resp.rows \in Table
      /\ chan[c].resp.code \in Codes /\ call[c].op \in Methods \cup {"none"}
      /\ call[c].att \in Atts /\ calls \in Nat /\ CallGuarded(call[c])
  BY DEF IInv, TypeOK, HostCall, Exchange, Response, HostsGuarded
\* The next request of a call that has applied nothing yet.
<1>2. ASSUME NEW k \in HostCall, NEW q \in Request, Send(c, k, q),
             UNCHANGED <<orphans, last, writes, calls>>, k.n = call[c].n,
             k.op = call[c].op, k.att = call[c].att,
             chan[c].phase = "replied", Unapplied(chan[c]),
             q.by = <<c, k.n>>, q.op = k.op, q.att = k.att
      PROVE  RefusalInv'
  <2>1. /\ k.op # "none" /\ k.n <= calls /\ last[c].n < k.n
        /\ NotLate(<<c, k.n>>, orphans) /\ NotWritten(<<c, k.n>>, writes)
    BY <1>2 DEF RefusalInv, InProgress
  <2>2. calls' \in Nat /\ calls <= calls' /\ k.n <= calls'
    BY <1>1, <1>2, <2>1
  <2> QED
    BY <1>1, <1>2, <2>1, <2>2, SendKeepsRefusals
<1>3. CASE PutExists(c)
  <2> DEFINE k == [call[c] EXCEPT !.refusalRev = chan[c].resp.rev]
             q == Req(c, call[c], "list", NoSeal)
  <2>1. /\ call[c].op = "put_attachment_with_id" /\ Send(c, k, q)
        /\ UNCHANGED <<orphans, calls, last, writes>>
        /\ chan[c].phase = "replied" /\ Unapplied(chan[c])
    BY <1>3 DEF PutExists, Replied, Unapplied, history
  <2>2. /\ k \in HostCall /\ k.n = call[c].n /\ k.op = call[c].op
        /\ k.att = call[c].att
    BY <1>1 DEF HostCall
  <2>3. q \in Request /\ q.by = <<c, k.n>> /\ q.op = k.op /\ q.att = k.att
    BY <1>1, <2>1, <2>2, PlaceholderTypes, RequestTypes DEF Req, Kinds
  <2> HIDE DEF k, q
  <2> QED
    BY <1>2, <2>1, <2>2, <2>3
<1>4. CASE DeleteListed(c)
  <2> DEFINE seal == expected_digest_ciphertext(c)
             k == call[c]
             q == Req(c, call[c], "deletion", seal)
  <2>1. /\ call[c].op = "conditional_delete_attachment" /\ Send(c, k, q)
        /\ UNCHANGED <<orphans, calls, last, writes>>
        /\ chan[c].phase = "replied" /\ Unapplied(chan[c])
    BY <1>4 DEF DeleteListed, Replied, Unapplied, history
  <2>2. call[c].file \in Files
    BY <1>1, <2>1 DEF CallGuarded, Guarded
  <2>3. seal \in Seals
    BY <1>1, <2>1, <2>2, RequestTypes
       DEF Table, Row, expected_digest_ciphertext
  <2> HIDE DEF seal
  <2>4. q \in Request /\ q.by = <<c, k.n>> /\ q.op = k.op /\ q.att = k.att
    BY <1>1, <2>1, <2>3, RequestTypes DEF Req, Kinds
  <2> HIDE DEF q
  <2> QED
    BY <1>1, <1>2, <2>1, <2>4
<1>5. CASE PutCompared(c)
  <2>1. chan[c].phase # "idle" /\ Unapplied(chan[c]) /\ orphans' = orphans
    BY <1>5 DEF PutCompared, Replied, Unapplied
  <2>2. \E outcome \in Outcomes, rev \in Nat : Finish(c, outcome, rev)
    BY <1>1, <1>5 DEF PutCompared, Outcomes
  <2> QED
    BY <1>1, <2>1, <2>2, FinishKeepsRefusals
<1>6. CASE Settle(c)
  <2> DEFINE outcome == outcome_of(call[c].op, chan[c].resp.code)
             rev == IF call[c].op \in Guarded
                       /\ chan[c].resp.code \in {"ok", "absent"}
                    THEN chan[c].resp.rev ELSE 0
  <2>1. /\ chan[c].phase = "replied" /\ orphans' = orphans
        /\ chan[c].req.kind = "list" => chan[c].resp.code # "ok"
        /\ Finish(c, outcome, rev)
    BY <1>6 DEF Settle
  <2>2. outcome \in Outcomes /\ rev \in Nat
    BY <1>1 DEF outcome_of, Outcomes
  <2>3. call[c].op \in Methods
    BY <1>1, <2>1 DEF RefusalInv, InProgress
  <2>4. outcome \in Refusals => chan[c].resp.code \notin {"ok", "failed"}
    BY <2>3 DEF outcome_of, Refusals, Methods, Guarded
  <2> HIDE DEF outcome, rev
  <2> QED
    BY <1>1, <2>1, <2>2, <2>4, FinishKeepsRefusals DEF Unapplied
<1>7. CASE Rejected(c)
  BY <1>1, <1>7, FinishKeepsRefusals DEF Rejected, Outcomes, Refusals
<1>8. CASE Timeout(c)
  BY <1>1, <1>8, FinishKeepsRefusals DEF Timeout, Outcomes, Refusals
<1> QED
  BY <1>3, <1>4, <1>5, <1>6, <1>7, <1>8 DEF ClientResumes

\* At first no call was made.
LEMMA RefusalInvInit == Init => RefusalInv
<1> SUFFICES ASSUME Init PROVE RefusalInv
  OBVIOUS
<1>1. Numbered(calls, writes, orphans)
  BY DEF Init, Numbered
<1>2. ASSUME NEW c \in Clients
      PROVE  chan[c].phase = "idle" /\ last[c].n = 0 /\ calls = 0
             /\ last[c].outcome = "none"
  BY DEF Init, NoExchange, NoResult
<1> QED
  BY <1>1, <1>2 DEF RefusalInv, InProgress, Final, Refusals

\* RefusalInv is inductive relative to IInv.
LEMMA RefusalInvStep == IInv /\ RefusalInv /\ [Next]_vars => RefusalInv'
<1> SUFFICES ASSUME IInv, RefusalInv, [Next]_vars PROVE RefusalInv'
  OBVIOUS
<1>1. CASE \E c \in Clients : HostBegins(c) \/ ClientResumes(c)
  BY <1>1, HostKeepsRefusals, ClientKeepsRefusals
<1>2. CASE ServiceServes
  <2>1. TypeOK
    BY DEF IInv
  <2> QED
    BY <1>2, <2>1, ServeKeepsRefusals, OrphanKeepsRefusals DEF ServiceServes
<1>3. CASE UNCHANGED <<hostVars, writes>>
  BY <1>3 DEF RefusalInv, hostVars
<1> QED
  BY <1>1, <1>2, <1>3 DEF Next, Touch, EndRotation, vars, history

\* For any number of hosts, calls and late requests: when a method reports that
\* nothing was written (already present, conflict, stale, absent, mismatch,
\* rotating), no write of that call is ever applied, not even one that a
\* gateway held back.
THEOREM RefusalsAreFinal == Spec => []RefusalsWriteNothing
<1>1. Init => IInv /\ RefusalInv
  BY IInvInit, RefusalInvInit
<1>2. IInv /\ RefusalInv /\ [Next]_vars => (IInv /\ RefusalInv)'
  BY IInvStep, RefusalInvStep
<1>3. RefusalInv => RefusalsWriteNothing
  BY DEF RefusalInv, RefusalsWriteNothing, Final, Refusals, NotWritten
<1> QED
  BY <1>1, <1>2, <1>3, PTL DEF Spec

-------------------------------------------------------------------------------
(* Put outcomes are truthful *)

Removals == {"delete_attachment", "conditional_delete_attachment"}
RemovedBy(a, W) == \E w \in W : w.att = a /\ w.op \in Removals

\* Only the removing methods send the removing requests; an upload carries its
\* own call's seal, or none.
RequestPlain(q) ==
    /\ q.kind \in {"DELETE", "deletion"} => q.op \in Removals
    /\ q.kind = "upload" => (q.seal.sha = None => q.seal = NoSeal)
    /\ (q.kind = "upload" /\ q.op = "put_attachment_with_id") =>
            q.seal.by = q.by

\* What a host that is waiting in put_attachment_with_id may conclude while
\* nobody deletes the attachment: after ok the row is its own, after exists and
\* while it lists there is a row, and the listed row is still the stored one.
PutProgress(c, k, x, t, W) ==
    /\ (x.phase = "replied" /\ x.resp.code = "conflict") => k.att \in Foreign
    /\ (x.phase # "idle" /\ k.op = "put_attachment_with_id"
            /\ ~RemovedBy(k.att, W)) =>
        /\ (x.phase = "replied" /\ x.req.kind = "upload"
                /\ x.resp.code = "ok") =>
                t[k.att].file # None /\ t[k.att].seal.by = <<c, k.n>>
        /\ (x.phase = "replied" /\ x.resp.code = "exists") =>
                t[k.att].file # None
        /\ x.req.kind = "list" => t[k.att].file # None
        /\ (x.phase = "replied" /\ x.req.kind = "list"
                /\ x.resp.code = "ok") => x.resp.rows[k.att] = t[k.att]

PutTruth(c, r, t, W) ==
    (r.op = "put_attachment_with_id" /\ ~RemovedBy(r.att, W)) =>
        /\ r.outcome = "Created" =>
                t[r.att].file # None /\ t[r.att].seal.by = <<c, r.n>>
        /\ r.outcome = "AlreadyPresent" =>
                /\ t[r.att].file # None /\ t[r.att].file = r.file
                /\ t[r.att].seal.sha = Sha[r.file]
        /\ r.outcome = "IdConflict" =>
                r.att \in Foreign \/ Other(t[r.att], r.file)

PutInv ==
    /\ \A a \in Atts : rows[a].seal.sha = None => rows[a].seal = NoSeal
    /\ \A q \in orphans : RequestPlain(q)
    /\ \A c \in Clients :
            /\ RequestPlain(chan[c].req)
            /\ PutProgress(c, call[c], chan[c], rows, writes)
            /\ PutTruth(c, last[c], rows, writes)

\* A present row of an attachment that nobody has deleted stays as it is, and
\* what is removed stays removed.
LEMMA HandleKeepsRows ==
    ASSUME TypeOK, NEW q \in Request, RequestPlain(q), NEW code \in Codes,
           NEW applies \in BOOLEAN, Handle(q, code, applies)
    PROVE  /\ \A a \in Atts :
                /\ ~RemovedBy(a, writes') => ~RemovedBy(a, writes)
                /\ (~RemovedBy(a, writes') /\ rows[a].file # None) =>
                        rows'[a] = rows[a]
           /\ (\A a \in Atts : rows[a].seal.sha = None => rows[a].seal = NoSeal) =>
              (\A a \in Atts : rows'[a].seal.sha = None => rows'[a].seal = NoSeal)
<1>1. CASE ~applies
  BY <1>1 DEF Handle
<1>2. CASE applies
  <2>1. /\ q.kind # "list" /\ Verdicts(q) = {"ok"} /\ q.att \in Atts
        /\ q.kind \in Kinds
    BY <1>2 DEF Handle, Request
  <2>2. q.kind = "upload" => rows[q.att].file = None
    BY <2>1 DEF Verdicts, Present
  <2> DEFINE w == [by |-> q.by, op |-> q.op, att |-> q.att, file |-> q.file,
                   seal |-> q.seal, old |-> rows[q.att], rev |-> itemRev,
                   wants |-> q.wants]
             new == IF q.kind = "upload"
                    THEN [file |-> q.file, seal |-> q.seal] ELSE NoRow
  <2>3. writes' = writes \cup {w} /\ w.att = q.att /\ w.op = q.op
    BY <1>2 DEF Handle
  <2>4. /\ rows'[q.att] = new
        /\ \A a \in Atts \ {q.att} : rows'[a] = rows[a]
    BY <1>2, <2>1 DEF Handle, TypeOK, Table
  <2>5. new.seal.sha = None => new.seal = NoSeal
    BY DEF RequestPlain, NoRow
  <2> HIDE DEF w, new
  <2>6. q.kind # "upload" => RemovedBy(q.att, writes')
    BY <2>1, <2>3 DEF RemovedBy, RequestPlain, Kinds
  <2>7. \A a : ~RemovedBy(a, writes') => ~RemovedBy(a, writes)
    BY <2>3 DEF RemovedBy
  <2> QED
    BY <2>2, <2>4, <2>5, <2>6, <2>7
<1> QED
  BY <1>1, <1>2

\* What the hosts know survives every served request of somebody else.
LEMMA KnowledgeSurvives ==
    ASSUME NEW c \in Clients, NEW t, NEW u, NEW W, NEW V, NEW a \in Atts,
           \A b \in Atts : ~RemovedBy(b, V) => ~RemovedBy(b, W),
           \A b \in Atts : (~RemovedBy(b, V) /\ t[b].file # None) => u[b] = t[b]
    PROVE  /\ \A k, x : (k.att = a /\ PutProgress(c, k, x, t, W)) =>
                            PutProgress(c, k, x, u, V)
           /\ \A r : (r.att = a /\ PutTruth(c, r, t, W)) => PutTruth(c, r, u, V)
<1>1. ASSUME NEW k, NEW x, k.att = a, PutProgress(c, k, x, t, W)
      PROVE  PutProgress(c, k, x, u, V)
  BY <1>1 DEF PutProgress
<1>2. ASSUME NEW r, r.att = a, PutTruth(c, r, t, W)
      PROVE  PutTruth(c, r, u, V)
  BY <1>2 DEF PutTruth, Other
<1> QED
  BY <1>1, <1>2

\* A request that arrives late keeps PutInv.
LEMMA OrphanKeepsPuts ==
    ASSUME TypeOK, PutInv, NEW q \in orphans, NEW code \in Codes,
           NEW applies \in BOOLEAN, ServeOrphan(q, code, applies)
    PROVE  PutInv'
<1>1. /\ q \in Request /\ Handle(q, code, applies) /\ orphans' \subseteq orphans
      /\ UNCHANGED <<call, chan, last>> /\ RequestPlain(q)
  BY DEF ServeOrphan, TypeOK, PutInv
<1>2. /\ \A a \in Atts : ~RemovedBy(a, writes') => ~RemovedBy(a, writes)
      /\ \A a \in Atts : (~RemovedBy(a, writes') /\ rows[a].file # None) =>
                            rows'[a] = rows[a]
      /\ \A a \in Atts : rows'[a].seal.sha = None => rows'[a].seal = NoSeal
  BY <1>1, HandleKeepsRows DEF PutInv
<1>3. ASSUME NEW c \in Clients
      PROVE  /\ PutProgress(c, call[c], chan[c], rows', writes')
             /\ PutTruth(c, last[c], rows', writes')
  <2>1. call[c].att \in Atts /\ last[c].att \in Atts
    BY DEF TypeOK, HostCall, Result
  <2> QED
    BY <1>2, <2>1, KnowledgeSurvives DEF PutInv
<1> QED
  BY <1>1, <1>2, <1>3 DEF PutInv

\* The deciding case: the answer a host receives is true when it is sent.
LEMMA ServeKeepsPuts ==
    ASSUME IInv, PutInv, RefusalInv, NEW c \in Clients, NEW code \in Codes,
           NEW applies \in BOOLEAN, Serve(c, code, applies)
    PROVE  PutInv'
<1>0. TypeOK
  BY DEF IInv
<1>1. PICK q \in Request : q = chan[c].req
  BY <1>0 DEF TypeOK, Exchange
<1>2. /\ chan[c].phase = "sent" /\ Handle(q, code, applies)
      /\ UNCHANGED <<call, orphans, last>> /\ RequestPlain(q)
  BY <1>1 DEF Serve, PutInv
<1>3. /\ \A a \in Atts : ~RemovedBy(a, writes') => ~RemovedBy(a, writes)
      /\ \A a \in Atts : (~RemovedBy(a, writes') /\ rows[a].file # None) =>
                            rows'[a] = rows[a]
      /\ \A a \in Atts : rows'[a].seal.sha = None => rows'[a].seal = NoSeal
  BY <1>0, <1>2, HandleKeepsRows DEF PutInv
<1>4. /\ chan'[c].phase = "replied" /\ chan'[c].req = q
      /\ chan'[c].resp = Reply(q, code)
      /\ \A d \in Clients \ {c} : chan'[d] = chan[d]
  BY <1>0, <1>1 DEF Serve, TypeOK, Exchange
<1>5. /\ q.by = <<c, call[c].n>> /\ q.op = call[c].op /\ q.att = call[c].att
  BY <1>1, <1>2 DEF RefusalInv, InProgress
<1>6. call[c].att \in Atts /\ q.kind \in Kinds /\ rows \in Table
  BY <1>0 DEF TypeOK, HostCall, Request
<1>7. PutProgress(c, call[c], chan[c], rows', writes')
  BY <1>3, <1>6, KnowledgeSurvives DEF PutInv
<1>8. Reply(q, code).code = code
  BY DEF Reply
<1>9. PutProgress(c, call[c], chan'[c], rows', writes')
  <2>1. code = "conflict" => call[c].att \in Foreign
    BY <1>2, <1>5, <1>6 DEF Handle, Verdicts, Kinds
  <2>2. ASSUME call[c].op = "put_attachment_with_id",
               ~RemovedBy(call[c].att, writes'),
               q.kind = "upload", code = "ok"
        PROVE  /\ rows'[call[c].att].file # None
               /\ rows'[call[c].att].seal.by = <<c, call[c].n>>
    <3>1. applies
      BY <1>2, <2>2 DEF Handle
    <3>2. rows'[q.att] = [file |-> q.file, seal |-> q.seal]
      BY <1>2, <1>5, <1>6, <2>2, <3>1 DEF Handle, Table
    <3>3. q.file # None
      BY <1>1, <2>2, AttachmentAssumption
         DEF IInv, RequestsGuarded, RequestGuarded
    <3>4. q.seal.by = <<c, call[c].n>>
      BY <1>2, <1>5, <2>2 DEF RequestPlain
    <3> QED
      BY <1>5, <3>2, <3>3, <3>4
  <2>3. ASSUME call[c].op = "put_attachment_with_id",
               ~RemovedBy(call[c].att, writes'), code = "exists"
        PROVE  rows'[call[c].att].file # None
    <3>1. rows[call[c].att].file # None
      BY <1>2, <1>5, <1>6, <2>3 DEF Handle, Verdicts, Kinds, Present
    <3> QED
      BY <1>3, <1>6, <2>3, <3>1
  <2>4. ASSUME call[c].op = "put_attachment_with_id",
               ~RemovedBy(call[c].att, writes'), q.kind = "list"
        PROVE  rows'[call[c].att].file # None
    BY <1>1, <1>2, <1>7, <2>4 DEF PutProgress
  <2>5. ASSUME q.kind = "list", code = "ok"
        PROVE  Reply(q, code).rows[call[c].att] = rows'[call[c].att]
    BY <1>2, <2>5 DEF Reply, Handle
  <2> QED
    BY <1>4, <1>8, <2>1, <2>2, <2>3, <2>4, <2>5 DEF PutProgress
<1>10. ASSUME NEW d \in Clients
       PROVE  /\ RequestPlain(chan'[d].req)
              /\ PutProgress(d, call[d], chan'[d], rows', writes')
              /\ PutTruth(d, last[d], rows', writes')
  <2>1. call[d].att \in Atts /\ last[d].att \in Atts
    BY <1>0 DEF TypeOK, HostCall, Result
  <2>2. /\ PutTruth(d, last[d], rows', writes')
        /\ PutProgress(d, call[d], chan[d], rows', writes')
    BY <1>3, <2>1, KnowledgeSurvives DEF PutInv
  <2> QED
    BY <1>2, <1>4, <1>9, <2>2 DEF PutInv
<1> QED
  BY <1>2, <1>3, <1>10 DEF PutInv

\* The requests the methods build satisfy RequestPlain.
LEMMA BuiltRequestsPlain ==
    ASSUME NEW c \in Clients, NEW k \in HostCall, k.op # "none",
           k.op \in Guarded => k.file \in Files
    PROVE  /\ RequestPlain(FirstRequest(c, k))
           /\ FirstRequest(c, k).kind = "list" =>
                    k.op = "conditional_delete_attachment"
           /\ RequestPlain(Req(c, k, "list", NoSeal))
           /\ \A seal : k.op = "conditional_delete_attachment" =>
                            RequestPlain(Req(c, k, "deletion", seal))
<1>1. k.op \in Methods
  BY DEF HostCall
<1>2. RequestPlain(Req(c, k, "list", NoSeal))
  BY DEF RequestPlain, Req
<1>3. \A seal : k.op = "conditional_delete_attachment" =>
                    RequestPlain(Req(c, k, "deletion", seal))
  BY DEF RequestPlain, Req, Removals
<1>4. /\ RequestPlain(FirstRequest(c, k))
      /\ FirstRequest(c, k).kind = "list" =>
                k.op = "conditional_delete_attachment"
  <2>1. CASE k.op = "put_attachment"
    BY <2>1 DEF RequestPlain, FirstRequest, Req
  <2>2. CASE k.op = "put_attachment_with_id"
    <3>1. Sha[k.file] # None
      BY <2>2, AttachmentAssumption DEF Guarded
    <3> QED
      BY <2>2, <3>1 DEF RequestPlain, FirstRequest, Req, encrypt_digest
  <2>3. CASE k.op = "delete_attachment"
    BY <2>3 DEF RequestPlain, FirstRequest, Req, Removals
  <2>4. CASE k.op = "conditional_delete_attachment"
    BY <1>2, <2>4 DEF FirstRequest
  <2> QED
    BY <1>1, <2>1, <2>2, <2>3, <2>4 DEF Methods
<1> QED
  BY <1>2, <1>3, <1>4

\* A request sent by a call that may conclude nothing yet keeps PutInv.
LEMMA SendKeepsPuts ==
    ASSUME TypeOK, PutInv, NEW c \in Clients, NEW k \in HostCall,
           NEW q \in Request, Send(c, k, q), RequestPlain(q),
           UNCHANGED <<rows, orphans, last, writes>>,
           (q.kind = "list" /\ k.op = "put_attachment_with_id"
                /\ ~RemovedBy(k.att, writes)) => rows[k.att].file # None
    PROVE  PutInv'
<1>1. /\ call'[c] = k /\ chan'[c].req = q
      /\ \A d \in Clients \ {c} : call'[d] = call[d] /\ chan'[d] = chan[d]
  BY SendEffect
<1>2. chan'[c].phase = "sent"
  BY PlaceholderTypes DEF Send, TypeOK, Exchange
<1>3. PutProgress(c, call'[c], chan'[c], rows', writes')
  BY <1>1, <1>2 DEF PutProgress
<1> QED
  BY <1>1, <1>3 DEF PutInv

\* A truthful outcome keeps PutInv.
LEMMA FinishKeepsPuts ==
    ASSUME TypeOK, PutInv, NEW c \in Clients, NEW outcome \in Outcomes,
           NEW rev \in Nat, Finish(c, outcome, rev),
           orphans' \subseteq orphans \cup {chan[c].req},
           PutTruth(c, [op |-> call[c].op, n |-> call[c].n,
                        att |-> call[c].att, file |-> call[c].file,
                        outcome |-> outcome, rev |-> rev], rows, writes)
    PROVE  PutInv'
<1>1. /\ chan'[c] = NoExchange
      /\ \A d \in Clients \ {c} : call'[d] = call[d] /\ chan'[d] = chan[d]
  BY FinishEffect
<1>2. rows' = rows /\ writes' = writes
  BY DEF Finish, svcVars, history
<1>3. /\ \A d \in Clients \ {c} : last'[d] = last[d]
      /\ last'[c] = [op |-> call[c].op, n |-> call[c].n, att |-> call[c].att,
                     file |-> call[c].file, outcome |-> outcome, rev |-> rev]
  BY DEF Finish, TypeOK
<1>4. RequestPlain(NoExchange.req)
  BY DEF RequestPlain, NoExchange, NoRequest
<1>5. PutProgress(c, call'[c], NoExchange, rows, writes)
  BY DEF PutProgress, NoExchange
<1>6. \A q \in orphans' : RequestPlain(q)
  BY DEF PutInv
<1> QED
  BY <1>1, <1>2, <1>3, <1>4, <1>5, <1>6 DEF PutInv

\* Every method a host begins keeps PutInv.
LEMMA HostKeepsPuts ==
    ASSUME IInv, PutInv, NEW c \in Clients, HostBegins(c)
    PROVE  PutInv'
<1>1. /\ TypeOK /\ calls + 1 \in Nat /\ told[c] \in Nat /\ NoCall \in HostCall
  BY PlaceholderTypes DEF IInv, TypeOK
<1>2. ASSUME NEW k \in HostCall, Begin(c, k),
             k.op \in Guarded => k.file \in Files
      PROVE  PutInv'
  <2>1. /\ k.op # "none" /\ Send(c, k, FirstRequest(c, k))
        /\ UNCHANGED <<rows, orphans, last, writes>>
    BY <1>2, AttachmentAssumption DEF Begin, Methods, svcVars
  <2>2. FirstRequest(c, k) \in Request
    BY <1>2, <2>1, RequestTypes
  <2>3. /\ RequestPlain(FirstRequest(c, k))
        /\ FirstRequest(c, k).kind = "list" =>
                k.op = "conditional_delete_attachment"
    BY <1>2, <2>1, BuiltRequestsPlain
  <2> QED
    BY <1>1, <2>1, <2>2, <2>3, SendKeepsPuts
<1>3. CASE get_item(c)
  BY <1>3 DEF get_item, PutInv, history, svcVars
<1>4. CASE \E a \in Atts : delete_attachment(c, a)
  <2>1. PICK a \in Atts : delete_attachment(c, a)
    BY <1>4
  <2> DEFINE k == [NoCall EXCEPT !.op = "delete_attachment", !.n = calls + 1,
                                 !.att = a]
  <2>2. k \in HostCall /\ k.op = "delete_attachment"
    BY <1>1 DEF HostCall, Methods
  <2>3. Begin(c, k)
    BY <2>1 DEF delete_attachment
  <2> HIDE DEF k
  <2> QED
    BY <1>2, <2>2, <2>3 DEF Guarded
<1>5. CASE \E a \in Atts, f \in Files : put_attachment(c, a, f)
  <2>1. PICK a \in Atts, f \in Files : put_attachment(c, a, f)
    BY <1>5
  <2> DEFINE k == [NoCall EXCEPT !.op = "put_attachment", !.n = calls + 1,
                                 !.att = a, !.file = f]
  <2>2. k \in HostCall /\ k.file \in Files
    BY <1>1 DEF HostCall, Methods, Contents
  <2>3. Begin(c, k)
    BY <2>1 DEF put_attachment
  <2> HIDE DEF k
  <2> QED
    BY <1>2, <2>2, <2>3
<1>6. CASE \E a \in Atts, f \in Files : put_attachment_with_id(c, a, f)
  <2>1. PICK a \in Atts, f \in Files : put_attachment_with_id(c, a, f)
    BY <1>6
  <2> DEFINE k == [NoCall EXCEPT !.op = "put_attachment_with_id",
                                 !.n = calls + 1, !.att = a, !.file = f,
                                 !.ifMatch = told[c]]
  <2>2. k \in HostCall /\ k.file \in Files
    BY <1>1 DEF HostCall, Methods, Contents
  <2>3. Begin(c, k)
    BY <2>1 DEF put_attachment_with_id
  <2> HIDE DEF k
  <2> QED
    BY <1>2, <2>2, <2>3
<1>7. CASE \E a \in Atts, f \in Files : conditional_delete_attachment(c, a, f)
  <2>1. PICK a \in Atts, f \in Files : conditional_delete_attachment(c, a, f)
    BY <1>7
  <2> DEFINE k == [NoCall EXCEPT !.op = "conditional_delete_attachment",
                                 !.n = calls + 1, !.att = a, !.file = f,
                                 !.ifMatch = told[c]]
  <2>2. k \in HostCall /\ k.file \in Files
    BY <1>1 DEF HostCall, Methods, Contents
  <2>3. Begin(c, k)
    BY <2>1 DEF conditional_delete_attachment
  <2> HIDE DEF k
  <2> QED
    BY <1>2, <2>2, <2>3
<1> QED
  BY <1>3, <1>4, <1>5, <1>6, <1>7 DEF HostBegins

\* Every reply or timeout a method resumes with keeps PutInv.
LEMMA ClientKeepsPuts ==
    ASSUME IInv, RefusalInv, PutInv, NEW c \in Clients, ClientResumes(c)
    PROVE  PutInv'
<1>1. /\ TypeOK /\ call[c] \in HostCall /\ call[c].refusalRev \in Nat
      /\ chan[c].resp.rev \in Nat /\ chan[c].resp.rows \in Table
      /\ chan[c].resp.code \in Codes /\ call[c].att \in Atts
      /\ CallGuarded(call[c]) /\ rows \in Table
      /\ PutProgress(c, call[c], chan[c], rows, writes)
  BY DEF IInv, TypeOK, HostCall, Exchange, Response, HostsGuarded, PutInv
<1>2. CASE PutExists(c)
  <2> DEFINE k == [call[c] EXCEPT !.refusalRev = chan[c].resp.rev]
             q == Req(c, call[c], "list", NoSeal)
  <2>1. /\ call[c].op = "put_attachment_with_id" /\ Send(c, k, q)
        /\ UNCHANGED <<rows, orphans, last, writes>>
        /\ chan[c].phase = "replied" /\ chan[c].resp.code = "exists"
    BY <1>2 DEF PutExists, Replied, history, svcVars
  <2>2. k \in HostCall /\ k.att = call[c].att
    BY <1>1 DEF HostCall
  <2>3. q \in Request /\ RequestPlain(q)
    BY <1>1, <2>1, PlaceholderTypes, RequestTypes, BuiltRequestsPlain
       DEF Kinds, CallGuarded
  <2>4. ~RemovedBy(k.att, writes) => rows[k.att].file # None
    BY <1>1, <2>1, <2>2 DEF PutProgress
  <2> HIDE DEF k, q
  <2> QED
    BY <1>1, <2>1, <2>2, <2>3, <2>4, SendKeepsPuts
<1>3. CASE DeleteListed(c)
  <2> DEFINE seal == expected_digest_ciphertext(c)
             q == Req(c, call[c], "deletion", seal)
  <2>1. /\ call[c].op = "conditional_delete_attachment" /\ Send(c, call[c], q)
        /\ UNCHANGED <<rows, orphans, last, writes>>
    BY <1>3 DEF DeleteListed, history, svcVars
  <2>2. call[c].file \in Files
    BY <1>1, <2>1 DEF CallGuarded, Guarded
  <2>3. seal \in Seals
    BY <1>1, <2>1, <2>2, RequestTypes
       DEF Table, Row, expected_digest_ciphertext
  <2> HIDE DEF seal
  <2>4. q \in Request /\ RequestPlain(q) /\ q.kind = "deletion"
    BY <1>1, <2>1, <2>2, <2>3, RequestTypes, BuiltRequestsPlain DEF Kinds, Req
  <2> HIDE DEF q
  <2> QED
    BY <1>1, <2>1, <2>4, SendKeepsPuts
<1>4. CASE PutCompared(c)
  <2>1. /\ call[c].op = "put_attachment_with_id" /\ orphans' = orphans
        /\ chan[c].phase = "replied" /\ chan[c].req.kind = "list"
        /\ chan[c].resp.code = "ok"
    BY <1>4 DEF PutCompared, Replied
  <2>2. call[c].file \in Files
    BY <1>1, <2>1 DEF CallGuarded, Guarded
  <2>3. ~RemovedBy(call[c].att, writes) =>
            /\ rows[call[c].att].file # None
            /\ chan[c].resp.rows[call[c].att] = rows[call[c].att]
    BY <1>1, <2>1 DEF PutProgress
  <2>4. /\ rows[call[c].att].seal.sha = None =>
                rows[call[c].att].seal = NoSeal
        /\ rows[call[c].att].seal.sha # None =>
                rows[call[c].att].seal.sha = Sha[rows[call[c].att].file]
    BY <1>1 DEF PutInv, IInv, SealsTruthful
  <2>5. CASE same_file(c)
    <3>1. Finish(c, "AlreadyPresent", call[c].refusalRev)
      BY <1>4, <2>5 DEF PutCompared
    <3>2. PutTruth(c, [op |-> call[c].op, n |-> call[c].n,
                       att |-> call[c].att, file |-> call[c].file,
                       outcome |-> "AlreadyPresent",
                       rev |-> call[c].refusalRev], rows, writes)
      BY <2>3, <2>5 DEF PutTruth, same_file, Verified
    <3> QED
      BY <1>1, <2>1, <3>1, <3>2, FinishKeepsPuts DEF Outcomes
  <2>6. CASE ~same_file(c)
    <3>1. Finish(c, "IdConflict", 0)
      BY <1>4, <2>6 DEF PutCompared
    <3>2. PutTruth(c, [op |-> call[c].op, n |-> call[c].n,
                       att |-> call[c].att, file |-> call[c].file,
                       outcome |-> "IdConflict", rev |-> 0], rows, writes)
      BY <2>3, <2>4, <2>6 DEF PutTruth, same_file, Verified, Other
    <3> QED
      BY <1>1, <2>1, <3>1, <3>2, FinishKeepsPuts DEF Outcomes
  <2> QED
    BY <2>5, <2>6
<1>5. CASE Settle(c)
  <2> DEFINE code == chan[c].resp.code
             outcome == outcome_of(call[c].op, code)
             rev == IF call[c].op \in Guarded /\ code \in {"ok", "absent"}
                    THEN chan[c].resp.rev ELSE 0
  <2>1. /\ chan[c].phase = "replied" /\ orphans' = orphans
        /\ chan[c].req.kind = "list" => code # "ok"
        /\ Finish(c, outcome, rev)
    BY <1>5 DEF Settle
  <2>2. outcome \in Outcomes /\ rev \in Nat
    BY <1>1 DEF outcome_of, Outcomes
  <2>3. /\ call[c].op = "put_attachment_with_id" =>
                chan[c].req.kind \in {"list", "upload"}
    BY <2>1 DEF RefusalInv, InProgress, IInv, RequestsGuarded, RequestGuarded
  <2>4. call[c].op = "put_attachment_with_id" =>
            /\ outcome = "Created" => code = "ok"
            /\ outcome = "IdConflict" => code = "conflict"
            /\ outcome # "AlreadyPresent"
    BY DEF outcome_of, Guarded
  <2> HIDE DEF outcome, rev, code
  <2>5. PutTruth(c, [op |-> call[c].op, n |-> call[c].n, att |-> call[c].att,
                     file |-> call[c].file, outcome |-> outcome,
                     rev |-> rev], rows, writes)
    BY <1>1, <2>1, <2>3, <2>4 DEF PutTruth, PutProgress, code
  <2> QED
    BY <1>1, <2>1, <2>2, <2>5, FinishKeepsPuts
<1>6. CASE Rejected(c)
  <2>1. PutTruth(c, [op |-> call[c].op, n |-> call[c].n, att |-> call[c].att,
                     file |-> call[c].file, outcome |-> "Malformed",
                     rev |-> 0], rows, writes)
    BY DEF PutTruth
  <2> QED
    BY <1>1, <1>6, <2>1, FinishKeepsPuts DEF Rejected, Outcomes
<1>7. CASE Timeout(c)
  <2>1. PutTruth(c, [op |-> call[c].op, n |-> call[c].n, att |-> call[c].att,
                     file |-> call[c].file, outcome |-> "Transport",
                     rev |-> 0], rows, writes)
    BY DEF PutTruth
  <2> QED
    BY <1>1, <1>7, <2>1, FinishKeepsPuts DEF Timeout, Outcomes
<1> QED
  BY <1>2, <1>3, <1>4, <1>5, <1>6, <1>7 DEF ClientResumes

\* At first there are no rows, no requests and no outcomes.
LEMMA PutInvInit == Init => PutInv
<1> SUFFICES ASSUME Init PROVE PutInv
  OBVIOUS
<1>1. \A f \in Files : Sha[f] # None
  BY AttachmentAssumption
<1>2. \A r \in OldRows : r.seal.sha = None => r.seal = NoSeal
  BY <1>1 DEF OldRows, NoRow
<1>3. \A a \in Atts : rows[a].seal.sha = None => rows[a].seal = NoSeal
  BY <1>2 DEF Init
<1>4. \A c \in Clients : chan[c] = NoExchange /\ last[c] = NoResult
  BY DEF Init
<1>5. RequestPlain(NoExchange.req)
  BY DEF RequestPlain, NoExchange, NoRequest
<1>6. \A c \in Clients : PutProgress(c, call[c], NoExchange, rows, writes)
  BY DEF PutProgress, NoExchange
<1>7. \A c \in Clients : PutTruth(c, NoResult, rows, writes)
  BY DEF PutTruth, NoResult
<1> QED
  BY <1>3, <1>4, <1>5, <1>6, <1>7 DEF PutInv, Init

\* PutInv is inductive relative to IInv and RefusalInv.
LEMMA PutInvStep == IInv /\ RefusalInv /\ PutInv /\ [Next]_vars => PutInv'
<1> SUFFICES ASSUME IInv, RefusalInv, PutInv, [Next]_vars PROVE PutInv'
  OBVIOUS
<1>1. CASE \E c \in Clients : HostBegins(c) \/ ClientResumes(c)
  BY <1>1, HostKeepsPuts, ClientKeepsPuts
<1>2. CASE ServiceServes
  <2>1. TypeOK
    BY DEF IInv
  <2> QED
    BY <1>2, <2>1, ServeKeepsPuts, OrphanKeepsPuts DEF ServiceServes
<1>3. CASE UNCHANGED <<rows, hostVars, writes>>
  BY <1>3 DEF PutInv, hostVars
<1> QED
  BY <1>1, <1>2, <1>3 DEF Next, Touch, EndRotation, vars, svcVars, history

\* For any interleaving of hosts, listings and late requests: as long as nobody
\* deletes the attachment, Created, AlreadyPresent and IdConflict say what the
\* item holds.
THEOREM PutOutcomesAreTruthful == Spec => []PutOutcomesTruthful
<1>1. Init => IInv /\ RefusalInv /\ PutInv
  BY IInvInit, RefusalInvInit, PutInvInit
<1>2. IInv /\ RefusalInv /\ PutInv /\ [Next]_vars =>
            (IInv /\ RefusalInv /\ PutInv)'
  BY IInvStep, RefusalInvStep, PutInvStep
<1>3. PutInv => PutOutcomesTruthful
  <2>1. \A a : Removed(a) <=> RemovedBy(a, writes)
    BY DEF Removed, RemovedBy, Removals
  <2> QED
    BY <2>1 DEF PutInv, PutOutcomesTruthful, PutTruth
<1> QED
  BY <1>1, <1>2, <1>3, PTL DEF Spec
===============================================================================
