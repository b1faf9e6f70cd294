--------------------------- MODULE VaultItemsProofs ---------------------------
(***************************************************************************)
(* Proofs about VaultItems, for every number of hosts, vaults, items and    *)
(* calls.                                                                   *)
(***************************************************************************)
EXTENDS VaultItems, TLAPS

-------------------------------------------------------------------------------
(* Types of the values the model is built from *)

\* The placeholders of idle hosts and of absent records have their types.
LEMMA PlaceholderTypes ==
    /\ SomeItem \in Items
    /\ SomeCall \in Calls
    /\ NoSealed \in Sealed
    /\ NoRecord \in ItemRecord
    /\ NoCall \in HostCall
    /\ NoRequest \in Request
    /\ NoResponse \in Response
    /\ NoExchange \in Exchange
<1>1. SomeItem \in Items
  BY ServiceAssumption DEF SomeItem
<1>2. SomeCall \in Calls
  BY ServiceAssumption DEF SomeCall, Calls
<1>3. SomeVaultKey \in VaultKeys
  BY ServiceAssumption DEF SomeVaultKey, VaultKeys
<1>4. (CHOOSE x \in Contents : TRUE) \in Contents
  BY ServiceAssumption
<1>5. NoSealed \in Sealed
  BY <1>2, <1>3, <1>4 DEF NoSealed, Sealed
<1>6. NoRecord \in ItemRecord
  BY <1>5 DEF NoRecord, ItemRecord
<1>7. NoCall \in HostCall
  BY <1>1, <1>4 DEF NoCall, HostCall
<1>8. NoRequest \in Request
  BY <1>1, <1>2, <1>5 DEF NoRequest, Request, Reads, Methods
<1>9. NoResponse \in Response
  BY <1>6 DEF NoResponse, Response, Statuses
<1>10. NoExchange \in Exchange
  BY <1>8, <1>9 DEF NoExchange, Exchange
<1> QED
  BY <1>1, <1>2, <1>5, <1>6, <1>7, <1>8, <1>9, <1>10

\* The requests a host builds from its arguments are well typed.
LEMMA RequestTypes ==
    ASSUME TypeOK, NEW c \in Clients, NEW k \in HostCall, k.op # "none"
    PROVE  /\ \A kind \in Reads \cup Writes, i \in Items, m \in Nat :
                Plain(c, k, kind, i, m) \in Request
           /\ \A i \in Items, favorite \in BOOLEAN :
                build_create_request(c, k, i, favorite) \in Request
           /\ \A rec \in ItemRecord :
                build_update_request(c, k, rec) \in Request
           /\ move_source_request(c, k) \in Request
           /\ FirstRequest(c, k) \in Request
<1>1. <<c, k.n>> \in Calls /\ k.op \in Methods /\ k.item \in Items
      /\ k.content \in Contents /\ k.ifMatch \in Nat
  BY DEF HostCall, Calls
<1>2. \A i \in Items : Version(c, i) \in Nat /\ Key(c, i) \in VaultKeys
  BY ServiceAssumption DEF TypeOK, Version, Key, VaultKeys
<1>3. ASSUME NEW kind \in Reads \cup Writes, NEW i \in Items, NEW m \in Nat
      PROVE  Plain(c, k, kind, i, m) \in Request
  BY <1>1, PlaceholderTypes DEF Plain, Request
<1>4. ASSUME NEW i \in Items, NEW favorite \in BOOLEAN
      PROVE  build_create_request(c, k, i, favorite) \in Request
  <2>1. Plain(c, k, "create", i, 0) \in Request
    BY <1>3 DEF Writes
  <2>2. [content |-> k.content,
         bodyKey |-> <<c, k.n>>, wrapKey |-> <<c, k.n>>,
         wrapUnder |-> Key(c, i), metaUnder |-> Key(c, i),
         favorite |-> favorite, reprompt |-> FALSE] \in Sealed
    BY <1>1, <1>2 DEF Sealed
  <2> QED
    BY <1>2, <2>1, <2>2 DEF build_create_request, Request
<1>5. ASSUME NEW rec \in ItemRecord
      PROVE  build_update_request(c, k, rec) \in Request
  <2>1. Plain(c, k, "patch", k.item, k.ifMatch) \in Request
    BY <1>1, <1>3 DEF Writes
  <2>2. /\ rec.sealed.wrapKey \in Calls /\ rec.sealed.wrapUnder \in VaultKeys
        /\ rec.sealed.favorite \in BOOLEAN /\ rec.sealed.reprompt \in BOOLEAN
    BY DEF ItemRecord, Sealed
  <2>3. [content |-> k.content,
         bodyKey |-> rec.sealed.wrapKey, wrapKey |-> rec.sealed.wrapKey,
         wrapUnder |-> rec.sealed.wrapUnder, metaUnder |-> Key(c, k.item),
         favorite |-> IF k.favorite = "keep" THEN rec.sealed.favorite
                      ELSE k.favorite = "on",
         reprompt |-> rec.sealed.reprompt] \in Sealed
    BY <1>1, <1>2, <2>2 DEF Sealed
  <2> QED
    BY <1>1, <1>2, <2>1, <2>3 DEF build_update_request, Request
<1>6. move_source_request(c, k) \in Request
  BY <1>1, <1>3 DEF move_source_request, Writes
<1>7. FirstRequest(c, k) \in Request
  BY <1>1, <1>3, <1>4 DEF FirstRequest, Methods, Reads, Writes
<1> QED
  BY <1>3, <1>4, <1>5, <1>6, <1>7

\* The row and the reply of a served request are well typed, and so is the
\* service's state after it.
LEMMA HandleTypes ==
    ASSUME TypeOK, NEW q \in Request, NEW status \in Statuses,
           NEW applies \in BOOLEAN, Handle(q, status, applies)
    PROVE  /\ RowAfter(q) \in ItemRecord
           /\ Reply(q, status) \in Response
           /\ store' \in [Items -> ItemRecord]
           /\ keyVersion' \in [Vaults -> Nat]
           /\ rotating' \subseteq Vaults
           /\ clock' \in Nat /\ edits' \in Nat
<1>1. q.item \in Items /\ q.sealed \in Sealed
  BY DEF Request
<1>2. store[q.item] \in ItemRecord /\ clock + 1 \in Nat
  BY <1>1 DEF TypeOK
<1>3. RowAfter(q) \in ItemRecord
  BY <1>1, <1>2, PlaceholderTypes DEF RowAfter, ItemRecord
<1>4. Reply(q, status) \in Response
  <2>1. [NoRecord EXCEPT !.rev = RowAfter(q).rev] \in ItemRecord
    BY <1>3, PlaceholderTypes DEF ItemRecord
  <2>2. keyVersion \in [Vaults -> Nat] /\ NoResponse.versions \in [Vaults -> Nat]
    BY PlaceholderTypes DEF TypeOK, Response
  <2>3. DEFINE rec == CASE status # 200 \/ q.kind = "sync" -> NoRecord
                        [] status = 200 /\ q.kind = "get" -> store[q.item]
                        [] OTHER -> [NoRecord EXCEPT !.rev = RowAfter(q).rev]
               versions == IF status = 200 /\ q.kind = "sync"
                           THEN keyVersion ELSE NoResponse.versions
  <2>4. rec \in ItemRecord
    BY <1>2, <2>1, PlaceholderTypes
  <2>5. versions \in [Vaults -> Nat]
    BY <2>2
  <2>6. Reply(q, status) = [status |-> status, rec |-> rec, versions |-> versions]
    BY DEF Reply
  <2> HIDE DEF rec, versions
  <2> QED
    BY <2>4, <2>5, <2>6 DEF Response
<1>5. store' \in [Items -> ItemRecord] /\ clock' \in Nat
  <2>1. CASE applies
    <3>1. store' = [store EXCEPT ![q.item] = RowAfter(q)] /\ clock' = clock + 1
      BY <2>1 DEF Handle
    <3> QED
      BY <1>1, <1>2, <1>3, <3>1 DEF TypeOK
  <2>2. CASE ~applies
    BY <2>2 DEF Handle, TypeOK
  <2> QED
    BY <2>1, <2>2
<1>6. /\ keyVersion' \in [Vaults -> Nat] /\ rotating' \subseteq Vaults
      /\ edits' \in Nat
  BY DEF Handle, TypeOK
<1> QED
  BY <1>3, <1>4, <1>5, <1>6

\* The history variables stay well typed when a request is served.
LEMMA RecordTypes ==
    ASSUME TypeOK, NEW q \in Request, NEW applies \in BOOLEAN,
           Record(q, applies)
    PROVE  /\ minted' \subseteq Items /\ destroyed' \subseteq Items
           /\ created' \subseteq Items \X Contents
           /\ applied' \subseteq Calls
           /\ removals' \subseteq Items \X Calls \X Methods
<1>1. /\ q.item \in Items /\ q.by \in Calls /\ q.op \in Methods
      /\ q.sealed.content \in Contents
  BY DEF Request, Sealed
<1>2. <<q.item, q.sealed.content>> \in Items \X Contents
      /\ <<q.item, q.by, q.op>> \in Items \X Calls \X Methods
  BY <1>1
<1> QED
  BY <1>1, <1>2 DEF Record, TypeOK

\* A request of its type keeps the types.
LEMMA SendTypes ==
    ASSUME TypeOK, NEW c \in Clients, NEW k \in HostCall, NEW q \in Request,
           Send(c, k, q)
    PROVE  call' \in [Clients -> HostCall] /\ chan' \in [Clients -> Exchange]
<1>1. [NoExchange EXCEPT !.phase = "sent", !.req = q] \in Exchange
  BY PlaceholderTypes DEF Exchange
<1> QED
  BY <1>1 DEF Send, TypeOK

\* A result of its type keeps the types.
LEMMA FinishTypes ==
    ASSUME TypeOK, NEW c \in Clients, NEW outcome \in Outcomes,
           Finish(c, outcome)
    PROVE  /\ call' \in [Clients -> HostCall] /\ chan' \in [Clients -> Exchange]
           /\ last' \in [Clients -> [op : Methods \cup {"none"}, n : Nat,
                                     outcome : Outcomes]]
<1>1. call[c] \in HostCall
  BY DEF TypeOK
<1>2. [op |-> call[c].op, n |-> call[c].n, outcome |-> outcome]
        \in [op : Methods \cup {"none"}, n : Nat, outcome : Outcomes]
  BY <1>1 DEF HostCall
<1> QED
  BY <1>2, PlaceholderTypes DEF Finish, TypeOK

\* A call of its type, with its first request, keeps the types.
LEMMA BeginTypes ==
    ASSUME TypeOK, NEW c \in Clients, NEW k \in HostCall, Begin(c, k),
           minted' \subseteq Items
    PROVE  TypeOK'
<1>1. k.op # "none"
  BY HostAssumption DEF Begin, Methods
<1>2. FirstRequest(c, k) \in Request
  BY <1>1, RequestTypes
<1>3. call' \in [Clients -> HostCall] /\ chan' \in [Clients -> Exchange]
  BY <1>2, SendTypes DEF Begin
<1>4. UNCHANGED <<svcVars, orphans, keyring, known, last, created, applied,
                  removals, destroyed>> /\ calls' = calls + 1
  BY DEF Begin
<1> QED
  BY <1>3, <1>4 DEF TypeOK, svcVars

\* Arguments that a host may pass are well typed.
LEMMA ArgTypes ==
    ASSUME TypeOK, NEW op \in Methods, NEW i \in Items
    PROVE  Args(op, i) \in HostCall
<1>1. calls + 1 \in Nat
  BY DEF TypeOK
<1> QED
  BY <1>1, PlaceholderTypes DEF Args, HostCall

\* Every begin is a Begin with well-typed arguments, conditional only on a
\* revision the host was told.
LEMMA HostStepShape ==
    ASSUME TypeOK, NEW c \in Clients, HostBegins(c)
    PROVE  \E k \in HostCall :
              /\ Begin(c, k) /\ k.n = calls + 1
              /\ k.ifMatch = 0 \/ \E i \in Items : k.ifMatch = known[c][i]
              /\ minted' \subseteq Items
<1>1. ASSUME NEW op \in Methods, NEW i \in Items
      PROVE  /\ Args(op, i) \in HostCall /\ Args(op, i).ifMatch = 0
             /\ Args(op, i).n = calls + 1
  BY ArgTypes DEF Args, NoCall
<1>2. CASE list_vaults(c)
  BY <1>1, <1>2, PlaceholderTypes DEF list_vaults, Methods, TypeOK
<1>3. CASE \E i \in Items, op \in {"get_item", "delete_item", "restore_item"} :
              OnItem(c, op, i)
  BY <1>1, <1>3 DEF OnItem, Methods, TypeOK
<1>4. CASE \E i \in Items, x \in Contents : create_item(c, i, x)
  <2>1. PICK i \in Items, x \in Contents : create_item(c, i, x)
    BY <1>4
  <2> DEFINE k == [Args("create_item", i) EXCEPT !.content = x]
  <2>2. /\ Args("create_item", i) \in HostCall
        /\ Args("create_item", i).ifMatch = 0
        /\ Args("create_item", i).n = calls + 1
    BY <1>1 DEF Methods
  <2>3. k \in HostCall /\ k.ifMatch = 0 /\ k.n = calls + 1
    BY <2>2 DEF HostCall
  <2> QED
    BY <2>1, <2>3 DEF create_item, TypeOK
<1>5. CASE \E i \in Items, x \in Contents, favorite \in {"on", "off"} :
              create_item_with_id(c, i, x, favorite)
  <2>1. PICK i \in Items, x \in Contents, favorite \in {"on", "off"} :
            create_item_with_id(c, i, x, favorite)
    BY <1>5
  <2> DEFINE k == [Args("create_item_with_id", i) EXCEPT
                      !.content = x, !.favorite = favorite]
  <2>2. /\ Args("create_item_with_id", i) \in HostCall
        /\ Args("create_item_with_id", i).ifMatch = 0
        /\ Args("create_item_with_id", i).n = calls + 1
    BY <1>1 DEF Methods
  <2>3. k \in HostCall /\ k.ifMatch = 0 /\ k.n = calls + 1
    BY <2>2 DEF HostCall
  <2> QED
    BY <2>1, <2>3 DEF create_item_with_id, TypeOK
<1>6. CASE \E i, j \in Items, op \in {"copy_item", "move_item"} :
              CopyOrMove(c, op, i, j)
  <2>1. PICK i \in Items, j \in Items, op \in {"copy_item", "move_item"} :
            CopyOrMove(c, op, i, j)
    BY <1>6
  <2> DEFINE k == [Args(op, i) EXCEPT !.copy = j]
  <2>2. /\ Args(op, i) \in HostCall /\ Args(op, i).ifMatch = 0
        /\ Args(op, i).n = calls + 1
    BY <1>1 DEF Methods
  <2>3. k \in HostCall /\ k.ifMatch = 0 /\ k.n = calls + 1
    BY <2>2 DEF HostCall
  <2> QED
    BY <2>1, <2>3 DEF CopyOrMove, TypeOK
<1>7. CASE \E i \in Items, x \in Contents, favorite \in {"keep", "on", "off"},
              m \in {0} \cup {known[c][j] : j \in Items} :
              update_item(c, i, x, favorite, m)
  <2>1. PICK i \in Items, x \in Contents, favorite \in {"keep", "on", "off"},
            m \in {0} \cup {known[c][j] : j \in Items} :
            update_item(c, i, x, favorite, m)
    BY <1>7
  <2> DEFINE k == [Args("update_item", i) EXCEPT
                      !.content = x, !.favorite = favorite, !.ifMatch = m]
  <2>2. /\ m \in Nat /\ Args("update_item", i) \in HostCall
        /\ Args("update_item", i).n = calls + 1
    BY <1>1 DEF TypeOK, Methods
  <2>3. k \in HostCall /\ k.ifMatch = m /\ k.n = calls + 1
    BY <2>2 DEF HostCall
  <2> QED
    BY <2>1, <2>3 DEF update_item, TypeOK
<1>8. CASE \E i \in Items, m \in {0} \cup {known[c][j] : j \in Items} :
              trash_item(c, i, m)
  <2>1. PICK i \in Items, m \in {0} \cup {known[c][j] : j \in Items} :
            trash_item(c, i, m)
    BY <1>8
  <2> DEFINE k == [Args("trash_item", i) EXCEPT !.ifMatch = m]
  <2>2. /\ m \in Nat /\ Args("trash_item", i) \in HostCall
        /\ Args("trash_item", i).n = calls + 1
    BY <1>1 DEF TypeOK, Methods
  <2>3. k \in HostCall /\ k.ifMatch = m /\ k.n = calls + 1
    BY <2>2 DEF HostCall
  <2> QED
    BY <2>1, <2>3 DEF trash_item, TypeOK
<1> QED
  BY <1>2, <1>3, <1>4, <1>5, <1>6, <1>7, <1>8 DEF HostBegins

\* Every method a host begins keeps the types.
LEMMA HostBeginsTypes ==
    ASSUME TypeOK, NEW c \in Clients, HostBegins(c)
    PROVE  TypeOK'
BY HostStepShape, BeginTypes

\* Every step a method resumes with keeps the types.
LEMMA ClientResumesTypes ==
    ASSUME TypeOK, NEW c \in Clients, ClientResumes(c)
    PROVE  TypeOK'
<1>1. call[c] \in HostCall /\ chan[c] \in Exchange
  BY DEF TypeOK
<1>2. /\ chan[c].req \in Request /\ chan[c].resp.rec \in ItemRecord
      /\ chan[c].resp.rec.rev \in Nat
      /\ chan[c].resp.versions \in [Vaults -> Nat]
      /\ call[c].item \in Items
  BY <1>1 DEF Exchange, Response, ItemRecord, HostCall
<1>3. ASSUME NEW outcome \in Outcomes, Finish(c, outcome),
             UNCHANGED <<svcVars, calls, history>>,
             orphans' \subseteq Request,
             keyring' \in [Clients -> [Vaults -> Nat]],
             known' \in [Clients -> [Items -> Nat]]
      PROVE  TypeOK'
  BY <1>3, FinishTypes DEF TypeOK, svcVars, history
<1>4. ASSUME NEW k \in HostCall, NEW q \in Request, Send(c, k, q),
             UNCHANGED <<svcVars, orphans, keyring, known, calls, last, history>>
      PROVE  TypeOK'
  BY <1>4, SendTypes DEF TypeOK, svcVars, history
<1>5. CASE ListVaultsDone(c)
  <2>1. keyring' \in [Clients -> [Vaults -> Nat]]
    BY <1>2, <1>5 DEF ListVaultsDone, TypeOK
  <2> QED
    BY <1>3, <1>5, <2>1 DEF ListVaultsDone, TypeOK, Outcomes
<1>6. CASE GetItemDone(c)
  <2>1. known' \in [Clients -> [Items -> Nat]]
    BY <1>2, <1>6 DEF GetItemDone, TypeOK
  <2> QED
    BY <1>3, <1>6, <2>1 DEF GetItemDone, TypeOK, Outcomes
<1>7. CASE UpdateRead(c)
  <2>1. build_update_request(c, call[c], chan[c].resp.rec) \in Request
    BY <1>1, <1>2, <1>7, RequestTypes DEF UpdateRead
  <2> QED
    BY <1>1, <1>4, <1>7, <2>1 DEF UpdateRead
<1>8. CASE CopyRead(c)
  <2> DEFINE k == [call[c] EXCEPT !.content = chan[c].resp.rec.sealed.content]
  <2>1. chan[c].resp.rec.sealed.content \in Contents
    BY <1>2 DEF ItemRecord, Sealed
  <2>2. k \in HostCall /\ k.op # "none" /\ k.copy \in Items
    BY <1>1, <1>8, <2>1 DEF CopyRead, HostCall
  <2>3. build_create_request(c, k, k.copy, FALSE) \in Request
    BY <2>2, RequestTypes
  <2>4. Send(c, k, build_create_request(c, k, k.copy, FALSE))
    BY <1>8 DEF CopyRead
  <2>5. UNCHANGED <<svcVars, orphans, keyring, known, calls, last, history>>
    BY <1>8 DEF CopyRead
  <2> HIDE DEF k
  <2> QED
    BY <1>4, <2>2, <2>3, <2>4, <2>5
<1>9. CASE MoveCopied(c)
  <2>1. move_source_request(c, call[c]) \in Request
    BY <1>1, <1>9, RequestTypes DEF MoveCopied
  <2> QED
    BY <1>1, <1>4, <1>9, <2>1 DEF MoveCopied
<1>10. CASE WriteDone(c)
  <2>1. known' \in [Clients -> [Items -> Nat]]
    BY <1>2, <1>10 DEF WriteDone, TypeOK
  <2> QED
    BY <1>3, <1>10, <2>1 DEF WriteDone, TypeOK, Outcomes
<1>11. CASE CannotDecrypt(c)
  BY <1>3, <1>11 DEF CannotDecrypt, TypeOK, Outcomes
<1>12. CASE Refused(c)
  <2>1. map_err(call[c].op, chan[c].req.kind, chan[c].resp.status) \in Outcomes
    BY DEF map_err, item_write_error, Outcomes
  <2> QED
    BY <1>3, <1>12, <2>1 DEF Refused, TypeOK
<1>13. CASE Rejected(c)
  BY <1>3, <1>13 DEF Rejected, TypeOK, Outcomes
<1>14. CASE Timeout(c)
  <2>1. orphans' \subseteq Request
    BY <1>2, <1>14 DEF Timeout, TypeOK
  <2> QED
    BY <1>3, <1>14, <2>1 DEF Timeout, TypeOK, Outcomes
<1> QED
  BY <1>5, <1>6, <1>7, <1>8, <1>9, <1>10, <1>11, <1>12, <1>13, <1>14
     DEF ClientResumes

\* The service keeps the types, with requests in time and late ones.
LEMMA ServiceServesTypes ==
    ASSUME TypeOK, ServiceServes
    PROVE  TypeOK'
<1>1. PICK status \in Statuses, applies \in BOOLEAN :
        \/ \E c \in Clients : Serve(c, status, applies)
        \/ \E q \in orphans : ServeOrphan(q, status, applies)
  BY DEF ServiceServes
<1>2. CASE \E c \in Clients : Serve(c, status, applies)
  <2>1. PICK c \in Clients : Serve(c, status, applies)
    BY <1>2
  <2>2. chan[c] \in Exchange /\ chan[c].req \in Request
    BY DEF TypeOK, Exchange
  <2>3. Handle(chan[c].req, status, applies) /\ Record(chan[c].req, applies)
    BY <2>1 DEF Serve
  <2>4. Reply(chan[c].req, status) \in Response
    BY <2>2, <2>3, HandleTypes
  <2>5. chan' \in [Clients -> Exchange]
    BY <2>1, <2>2, <2>4 DEF Serve, TypeOK, Exchange
  <2>6. UNCHANGED <<call, orphans, keyring, known, calls, last>>
    BY <2>1 DEF Serve
  <2> QED
    BY <2>2, <2>3, <2>5, <2>6, HandleTypes, RecordTypes DEF TypeOK
<1>3. CASE \E q \in orphans : ServeOrphan(q, status, applies)
  <2>1. PICK q \in orphans : ServeOrphan(q, status, applies)
    BY <1>3
  <2>2. q \in Request
    BY DEF TypeOK
  <2>3. Handle(q, status, applies) /\ Record(q, applies) /\ orphans' = orphans \ {q}
        /\ UNCHANGED <<call, chan, keyring, known, calls, last>>
    BY <2>1 DEF ServeOrphan
  <2> QED
    BY <2>2, <2>3, HandleTypes, RecordTypes DEF TypeOK
<1> QED
  BY <1>1, <1>2, <1>3

\* Edits and rotations of other applications keep the types.
LEMMA OthersActTypes ==
    ASSUME TypeOK, OthersAct
    PROVE  TypeOK'
<1>1. ASSUME store' \in [Items -> ItemRecord], keyVersion' \in [Vaults -> Nat],
             rotating' \subseteq Vaults, clock' \in Nat, edits' \in Nat
      PROVE  TypeOK'
  BY <1>1 DEF OthersAct, TypeOK, hostVars, history
<1>2. ASSUME NEW v \in Vaults, BeginRotation(v)
      PROVE  TypeOK'
  BY <1>1, <1>2 DEF BeginRotation, TypeOK
<1>3. ASSUME NEW v \in Vaults, FinishRotation(v)
      PROVE  TypeOK'
  <2>1. ASSUME NEW i \in Items
        PROVE  [store[i] EXCEPT !.sealed = Reseal(i)] \in ItemRecord
    <3>1. store[i] \in ItemRecord /\ store[i].sealed \in Sealed
      BY DEF TypeOK, ItemRecord
    <3>2. <<VaultOf[i], keyVersion[VaultOf[i]] + 1>> \in VaultKeys
      BY ServiceAssumption DEF TypeOK, VaultKeys
    <3>3. Reseal(i) \in Sealed
      BY <3>1, <3>2 DEF Reseal, Sealed
    <3> QED
      BY <3>1, <3>3 DEF ItemRecord
  <2>2. store' \in [Items -> ItemRecord]
    BY <1>3, <2>1 DEF FinishRotation, TypeOK
  <2>3. keyVersion' \in [Vaults -> Nat]
    BY <1>3 DEF FinishRotation, TypeOK
  <2> QED
    BY <1>1, <1>3, <2>2, <2>3 DEF FinishRotation, TypeOK
<1>4. ASSUME NEW i \in Items, NEW favorite \in BOOLEAN, NEW reprompt \in BOOLEAN,
             OtherEdit(i, favorite, reprompt)
      PROVE  TypeOK'
  <2>1. store[i] \in ItemRecord /\ store[i].sealed \in Sealed /\ clock + 1 \in Nat
    BY DEF TypeOK, ItemRecord
  <2>2. store' \in [Items -> ItemRecord]
    BY <1>4, <2>1 DEF OtherEdit, TypeOK, ItemRecord, Sealed
  <2> QED
    BY <1>1, <1>4, <2>1, <2>2 DEF OtherEdit, TypeOK
<1> QED
  BY <1>2, <1>3, <1>4 DEF OthersAct

\* The initial state has the types.
LEMMA InitTypes == Init => TypeOK
<1> SUFFICES ASSUME Init PROVE TypeOK
  OBVIOUS
<1>1. ASSUME NEW i \in Items
      PROVE  [state |-> "active", rev |-> 1,
              sealed |-> [NoSealed EXCEPT !.wrapUnder = <<VaultOf[i], 1>>,
                                          !.metaUnder = <<VaultOf[i], 1>>]]
                \in ItemRecord
  <2>1. <<VaultOf[i], 1>> \in VaultKeys
    BY ServiceAssumption DEF VaultKeys
  <2>2. [NoSealed EXCEPT !.wrapUnder = <<VaultOf[i], 1>>,
                         !.metaUnder = <<VaultOf[i], 1>>] \in Sealed
    BY <2>1, PlaceholderTypes DEF Sealed
  <2> QED
    BY <2>2 DEF ItemRecord
<1>2. store \in [Items -> ItemRecord]
  BY <1>1, PlaceholderTypes DEF Init, ServiceInit
<1>3. known \in [Clients -> [Items -> Nat]]
  BY <1>2 DEF Init, ItemRecord
<1> QED
  BY <1>2, <1>3, PlaceholderTypes, ServiceAssumption
     DEF Init, ServiceInit, TypeOK, Outcomes

\* TypeOK is inductive.
LEMMA TypeStep == TypeOK /\ [Next]_vars => TypeOK'
<1> SUFFICES ASSUME TypeOK, [Next]_vars PROVE TypeOK'
  OBVIOUS
<1>1. CASE \E c \in Clients : HostBegins(c) \/ ClientResumes(c)
  BY <1>1, HostBeginsTypes, ClientResumesTypes
<1>2. CASE ServiceServes
  BY <1>2, ServiceServesTypes
<1>3. CASE OthersAct
  BY <1>3, OthersActTypes
<1>4. CASE UNCHANGED vars
  BY <1>4 DEF vars, svcVars, hostVars, history, TypeOK
<1> QED
  BY <1>1, <1>2, <1>3, <1>4 DEF Next

\* Type correctness: the records in the store, on the wire and in the hosts
\* keep their shape through every operation of VaultClient.
THEOREM TypeCorrect == Spec => []TypeOK
BY InitTypes, TypeStep, PTL DEF Spec

-------------------------------------------------------------------------------
(* Every stored item opens *)

SealedForVersion(q) ==
    q.kind \in {"create", "patch"} =>
        Opens(q.sealed, <<VaultOf[q.item], q.version>>)

\* What makes StoredItemsOpen inductive: a body that may still be written is
\* sealed, wrap included, under the vault key version the request names, which
\* the service compares with the current one.
RequestsOpen ==
    /\ \A q \in orphans : SealedForVersion(q)
    /\ \A c \in Clients : SealedForVersion(chan[c].req)

OpenInv == TypeOK /\ StoredItemsOpen /\ RequestsOpen

\* What Send and Finish do to the exchanges.
LEMMA SendEffect ==
    ASSUME TypeOK, NEW c \in Clients, NEW k \in HostCall, NEW q \in Request,
           Send(c, k, q)
    PROVE  /\ call'[c] = k /\ chan'[c].req = q /\ chan'[c].phase = "sent"
           /\ chan'[c].resp = NoResponse
           /\ \A d \in Clients \ {c} : call'[d] = call[d] /\ chan'[d] = chan[d]
<1>1. NoExchange \in Exchange /\ NoExchange.resp = NoResponse
  BY PlaceholderTypes DEF NoExchange
<1>2. chan'[c] = [NoExchange EXCEPT !.phase = "sent", !.req = q]
  BY DEF Send, TypeOK
<1>3. /\ chan'[c].req = q /\ chan'[c].phase = "sent"
      /\ chan'[c].resp = NoResponse
  BY <1>1, <1>2 DEF Exchange
<1> QED
  BY <1>3 DEF Send, TypeOK

\* What a host leaves when its method returns.
LEMMA FinishEffect ==
    ASSUME TypeOK, NEW c \in Clients, NEW outcome, Finish(c, outcome)
    PROVE  /\ call'[c] = NoCall /\ chan'[c] = NoExchange
           /\ \A d \in Clients \ {c} : call'[d] = call[d] /\ chan'[d] = chan[d]
BY DEF Finish, TypeOK

\* Every step of a client either ends its call or sends its next request.
LEMMA ClientStepShape ==
    ASSUME TypeOK, NEW c \in Clients, ClientResumes(c)
    PROVE  \/ UpdateRead(c) \/ CopyRead(c) \/ MoveCopied(c)
           \/ /\ \E outcome : Finish(c, outcome)
              /\ orphans' \subseteq orphans \cup {chan[c].req}
              /\ known' = known \/ \E i \in Items :
                    known' = [known EXCEPT ![c][i] = chan[c].resp.rec.rev]
              /\ UNCHANGED svcVars
<1>1. call[c].item \in Items
  BY DEF TypeOK, HostCall
<1>2. CASE Timeout(c)
  BY <1>2 DEF Timeout
<1>3. CASE GetItemDone(c)
  BY <1>1, <1>3 DEF GetItemDone
<1>4. CASE WriteDone(c)
  BY <1>1, <1>4 DEF WriteDone
<1>5. CASE ListVaultsDone(c) \/ CannotDecrypt(c) \/ Refused(c) \/ Rejected(c)
  BY <1>5 DEF ListVaultsDone, CannotDecrypt, Refused, Rejected
<1> QED
  BY <1>2, <1>3, <1>4, <1>5 DEF ClientResumes

\* The requests the methods build are sealed for the version they name.
LEMMA BuiltRequestsOpen ==
    ASSUME TypeOK, NEW c \in Clients, NEW k \in HostCall, k.op # "none"
    PROVE  /\ SealedForVersion(FirstRequest(c, k))
           /\ \A i \in Items, favorite \in BOOLEAN :
                SealedForVersion(build_create_request(c, k, i, favorite))
           /\ \A rec \in ItemRecord :
                rec.sealed.wrapUnder = Key(c, k.item) =>
                    SealedForVersion(build_update_request(c, k, rec))
           /\ SealedForVersion(move_source_request(c, k))
<1>1. k.item \in Items /\ k.ifMatch \in Nat /\ k.op \in Methods
  BY DEF HostCall
<1>2. ASSUME NEW kind \in Reads \cup Writes, NEW i \in Items, NEW m \in Nat
      PROVE  /\ Plain(c, k, kind, i, m) \in Request
             /\ Plain(c, k, kind, i, m).kind = kind
             /\ Plain(c, k, kind, i, m).item = i
  BY RequestTypes DEF Plain, NoRequest
<1>3. ASSUME NEW i \in Items, NEW favorite \in BOOLEAN
      PROVE  SealedForVersion(build_create_request(c, k, i, favorite))
  <2>1. /\ Plain(c, k, "create", i, 0) \in Request
        /\ Plain(c, k, "create", i, 0).item = i
    BY <1>2 DEF Writes
  <2>2. /\ build_create_request(c, k, i, favorite).item = i
        /\ build_create_request(c, k, i, favorite).version = Version(c, i)
        /\ build_create_request(c, k, i, favorite).sealed =
              [content |-> k.content,
               bodyKey |-> <<c, k.n>>, wrapKey |-> <<c, k.n>>,
               wrapUnder |-> Key(c, i), metaUnder |-> Key(c, i),
               favorite |-> favorite, reprompt |-> FALSE]
    BY <2>1 DEF build_create_request, Request
  <2> QED
    BY <2>2 DEF SealedForVersion, Opens, Key
<1>4. ASSUME NEW rec \in ItemRecord, rec.sealed.wrapUnder = Key(c, k.item)
      PROVE  SealedForVersion(build_update_request(c, k, rec))
  <2>1. /\ Plain(c, k, "patch", k.item, k.ifMatch) \in Request
        /\ Plain(c, k, "patch", k.item, k.ifMatch).item = k.item
    <3>1. "patch" \in Reads \cup Writes
      BY DEF Writes
    <3> QED
      BY <1>1, <1>2, <3>1
  <2>2. /\ build_update_request(c, k, rec).item = k.item
        /\ build_update_request(c, k, rec).version = Version(c, k.item)
        /\ build_update_request(c, k, rec).sealed.bodyKey = rec.sealed.wrapKey
        /\ build_update_request(c, k, rec).sealed.wrapKey = rec.sealed.wrapKey
        /\ build_update_request(c, k, rec).sealed.wrapUnder = rec.sealed.wrapUnder
        /\ build_update_request(c, k, rec).sealed.metaUnder = Key(c, k.item)
    BY <2>1 DEF build_update_request, Request
  <2> QED
    BY <1>4, <2>2 DEF SealedForVersion, Opens, Key
<1>5. SealedForVersion(move_source_request(c, k))
  <2>1. "trash" \in Reads \cup Writes
    BY DEF Writes
  <2>2. Plain(c, k, "trash", k.item, 0).kind = "trash"
    BY <1>1, <1>2, <2>1
  <2> QED
    BY <2>2 DEF SealedForVersion, move_source_request
<1>6. SealedForVersion(FirstRequest(c, k))
  <2>1. ASSUME NEW kind \in {"sync", "get", "trash", "delete", "restore"},
               NEW m \in Nat
        PROVE  SealedForVersion(Plain(c, k, kind, k.item, m))
    BY <1>1, <1>2 DEF SealedForVersion, Reads, Writes
  <2> QED
    BY <1>1, <1>3, <2>1 DEF FirstRequest, Methods
<1> QED
  BY <1>3, <1>4, <1>5, <1>6

\* Every step leaves only requests that open under the version they name.
LEMMA RequestsStep ==
    ASSUME OpenInv, Next
    PROVE  RequestsOpen'
<1> USE DEF OpenInv
<1>1. ASSUME NEW c \in Clients, NEW k \in HostCall, NEW q \in Request,
             Send(c, k, q), SealedForVersion(q), orphans' = orphans
      PROVE  RequestsOpen'
  BY <1>1, SendEffect DEF RequestsOpen
<1>2. ASSUME NEW c \in Clients, HostBegins(c)
      PROVE  RequestsOpen'
  <2>1. \E k \in HostCall : Begin(c, k)
    BY <1>2, HostStepShape
  <2>2. PICK k \in HostCall : Begin(c, k)
    BY <2>1
  <2>3. k.op # "none" /\ Send(c, k, FirstRequest(c, k)) /\ orphans' = orphans
    BY <2>2, HostAssumption DEF Begin, Methods
  <2> QED
    BY <1>1, <2>3, RequestTypes, BuiltRequestsOpen
<1>3. ASSUME NEW c \in Clients, ClientResumes(c)
      PROVE  RequestsOpen'
  <2>1. /\ call[c] \in HostCall /\ chan[c].resp.rec \in ItemRecord
        /\ chan[c].resp.rec.sealed.content \in Contents
    BY DEF TypeOK, Exchange, Response, ItemRecord, Sealed
  <2>2. CASE UpdateRead(c)
    <3>1. chan[c].resp.rec.sealed.wrapUnder = Key(c, call[c].item)
      BY <2>2 DEF UpdateRead, UpdateOpens
    <3>2. /\ build_update_request(c, call[c], chan[c].resp.rec) \in Request
          /\ SealedForVersion(build_update_request(c, call[c], chan[c].resp.rec))
      BY <2>1, <2>2, <3>1, RequestTypes, BuiltRequestsOpen DEF UpdateRead
    <3> QED
      BY <1>1, <2>1, <2>2, <3>2 DEF UpdateRead
  <2>3. CASE CopyRead(c)
    <3> DEFINE k == [call[c] EXCEPT
                        !.content = chan[c].resp.rec.sealed.content]
    <3>1. k \in HostCall /\ k.op # "none" /\ k.copy \in Items
      BY <2>1, <2>3 DEF CopyRead, HostCall
    <3>2. Send(c, k, build_create_request(c, k, k.copy, FALSE))
          /\ orphans' = orphans
      BY <2>3 DEF CopyRead
    <3> HIDE DEF k
    <3> QED
      BY <1>1, <3>1, <3>2, RequestTypes, BuiltRequestsOpen
  <2>4. CASE MoveCopied(c)
    <3>1. call[c].op # "none" /\ orphans' = orphans
          /\ Send(c, call[c], move_source_request(c, call[c]))
      BY <2>4 DEF MoveCopied
    <3> QED
      BY <1>1, <2>1, <3>1, RequestTypes, BuiltRequestsOpen
  <2>5. CASE /\ \E outcome : Finish(c, outcome)
             /\ orphans' \subseteq orphans \cup {chan[c].req}
    <3>1. SealedForVersion(NoRequest) /\ NoExchange.req = NoRequest
      BY DEF SealedForVersion, NoRequest, NoExchange
    <3> QED
      BY <2>5, <3>1, FinishEffect DEF RequestsOpen
  <2> QED
    BY <1>3, <2>2, <2>3, <2>4, <2>5, ClientStepShape
<1>4. CASE ServiceServes
  <2>1. PICK status \in Statuses, applies \in BOOLEAN :
        \/ \E c \in Clients : Serve(c, status, applies)
        \/ \E q \in orphans : ServeOrphan(q, status, applies)
    BY <1>4 DEF ServiceServes
  <2>2. ASSUME NEW c \in Clients, Serve(c, status, applies)
        PROVE  RequestsOpen'
    <3>1. \A d \in Clients : chan'[d].req = chan[d].req
      BY <2>2 DEF Serve, TypeOK, Exchange
    <3> QED
      BY <2>2, <3>1 DEF Serve, RequestsOpen
  <2>3. ASSUME NEW q \in orphans, ServeOrphan(q, status, applies)
        PROVE  RequestsOpen'
    BY <2>3 DEF ServeOrphan, RequestsOpen
  <2> QED
    BY <2>1, <2>2, <2>3
<1>5. CASE OthersAct
  BY <1>5 DEF OthersAct, hostVars, RequestsOpen
<1> QED
  BY <1>2, <1>3, <1>4, <1>5 DEF Next

\* A request that opens under the current version leaves an item that opens.
LEMMA HandleOpens ==
    ASSUME OpenInv, NEW q \in Request, SealedForVersion(q),
           NEW status \in Statuses, NEW applies \in BOOLEAN, Handle(q, status, applies)
    PROVE  StoredItemsOpen'
<1> USE DEF OpenInv
<1>1. CASE applies
  <2>1. Refusals(q) = {} /\ q.item \in Items
    BY <1>1 DEF Handle, Refusals, Statuses, Request
  <2>2. /\ store' = [store EXCEPT ![q.item] = RowAfter(q)]
        /\ keyVersion' = keyVersion
    BY <1>1 DEF Handle
  <2>3. RowAfter(q).state # "absent" =>
            Opens(RowAfter(q).sealed, CurrentKey(q.item))
    <3>1. CASE q.kind \in {"create", "patch"}
      <4>1. q.version = keyVersion[VaultOf[q.item]]
        BY <2>1, <3>1 DEF Refusals, Statuses
      <4>2. Opens(q.sealed, CurrentKey(q.item))
        BY <3>1, <4>1 DEF SealedForVersion, CurrentKey
      <4>3. RowAfter(q).sealed = q.sealed
        BY <2>1, <3>1 DEF RowAfter, TypeOK, ItemRecord
      <4> QED
        BY <4>2, <4>3
    <3>2. CASE q.kind \notin {"create", "patch"}
      <4>1. Stored(q.item)
        <5>1. q.kind \in Writes
          BY <1>1 DEF Handle
        <5> QED
          BY <2>1, <3>2, <5>1 DEF Refusals, Statuses, Writes
      <4>2. RowAfter(q) = NoRecord \/ RowAfter(q).sealed = store[q.item].sealed
        BY <2>1, <3>2 DEF RowAfter, TypeOK, ItemRecord
      <4> QED
        BY <2>1, <4>1, <4>2 DEF StoredItemsOpen, NoRecord
    <3> QED
      BY <3>1, <3>2
  <2> QED
    BY <2>1, <2>2, <2>3 DEF StoredItemsOpen, Stored, CurrentKey, TypeOK
<1>2. CASE ~applies
  BY <1>2 DEF Handle, StoredItemsOpen, Stored, CurrentKey
<1> QED
  BY <1>1, <1>2

\* Every step leaves only stored items that open.
LEMMA StoreStep ==
    ASSUME OpenInv, Next
    PROVE  StoredItemsOpen'
<1> USE DEF OpenInv
<1>1. ASSUME UNCHANGED svcVars
      PROVE  StoredItemsOpen'
  BY <1>1 DEF svcVars, StoredItemsOpen, Stored, CurrentKey
<1>2. ASSUME NEW c \in Clients, HostBegins(c)
      PROVE  StoredItemsOpen'
  BY <1>1, <1>2, HostStepShape DEF Begin
<1>3. ASSUME NEW c \in Clients, ClientResumes(c)
      PROVE  StoredItemsOpen'
  BY <1>1, <1>3, ClientStepShape DEF UpdateRead, CopyRead, MoveCopied
<1>4. CASE ServiceServes
  <2>1. PICK status \in Statuses, applies \in BOOLEAN :
        \/ \E c \in Clients : Serve(c, status, applies)
        \/ \E q \in orphans : ServeOrphan(q, status, applies)
    BY <1>4 DEF ServiceServes
  <2>2. ASSUME NEW c \in Clients, Serve(c, status, applies)
        PROVE  StoredItemsOpen'
    <3>1. chan[c].req \in Request /\ SealedForVersion(chan[c].req)
      BY DEF TypeOK, Exchange, RequestsOpen
    <3> QED
      BY <2>2, <3>1, HandleOpens DEF Serve
  <2>3. ASSUME NEW q \in orphans, ServeOrphan(q, status, applies)
        PROVE  StoredItemsOpen'
    <3>1. q \in Request /\ SealedForVersion(q)
      BY DEF TypeOK, RequestsOpen
    <3> QED
      BY <2>3, <3>1, HandleOpens DEF ServeOrphan
  <2> QED
    BY <2>1, <2>2, <2>3
<1>5. ASSUME NEW v \in Vaults, BeginRotation(v)
      PROVE  StoredItemsOpen'
  BY <1>5 DEF BeginRotation, StoredItemsOpen, Stored, CurrentKey
<1>6. ASSUME NEW v \in Vaults, FinishRotation(v)
      PROVE  StoredItemsOpen'
  <2> SUFFICES ASSUME NEW i \in Items, Stored(i)'
               PROVE  Opens(store'[i].sealed, CurrentKey(i)')
    BY DEF StoredItemsOpen
  <2>1. /\ VaultOf[i] \in Vaults /\ store[i] \in ItemRecord
        /\ store[i].sealed \in Sealed
    BY ServiceAssumption DEF TypeOK, ItemRecord
  <2>2. Stored(i) /\ Opens(store[i].sealed, CurrentKey(i))
    BY <1>6, <2>1 DEF FinishRotation, Stored, StoredItemsOpen
  <2>3. CASE VaultOf[i] = v
    <3>1. store'[i].sealed = Reseal(i)
      BY <1>6, <2>1, <2>2, <2>3 DEF FinishRotation, ItemRecord
    <3>2. CurrentKey(i)' = <<VaultOf[i], keyVersion[VaultOf[i]] + 1>>
      BY <1>6, <2>3 DEF FinishRotation, CurrentKey, TypeOK
    <3> QED
      BY <2>1, <2>2, <3>1, <3>2 DEF Reseal, Opens, Sealed
  <2>4. CASE VaultOf[i] # v
    BY <1>6, <2>1, <2>2, <2>4 DEF FinishRotation, CurrentKey, TypeOK
  <2> QED
    BY <2>3, <2>4
<1>7. ASSUME NEW i \in Items, NEW favorite \in BOOLEAN, NEW reprompt \in BOOLEAN,
             OtherEdit(i, favorite, reprompt)
      PROVE  StoredItemsOpen'
  <2>1. store[i] \in ItemRecord /\ store[i].sealed \in Sealed
    BY DEF TypeOK, ItemRecord
  <2>2. /\ store'[i].sealed.wrapUnder = store[i].sealed.wrapUnder
        /\ store'[i].sealed.metaUnder = store[i].sealed.metaUnder
        /\ store'[i].sealed.bodyKey = store[i].sealed.bodyKey
        /\ store'[i].sealed.wrapKey = store[i].sealed.wrapKey
        /\ \A j \in Items \ {i} : store'[j] = store[j]
    BY <1>7, <2>1 DEF OtherEdit, TypeOK, ItemRecord, Sealed
  <2>3. Stored(i) /\ keyVersion' = keyVersion
    BY <1>7 DEF OtherEdit
  <2> QED
    BY <2>2, <2>3 DEF StoredItemsOpen, Stored, CurrentKey, Opens
<1> QED
  BY <1>2, <1>3, <1>4, <1>5, <1>6, <1>7 DEF Next, OthersAct

\* At first nothing is stored or requested.
LEMMA OpenInit == Init => OpenInv
<1> SUFFICES ASSUME Init PROVE OpenInv
  OBVIOUS
<1>1. TypeOK
  BY InitTypes
<1>2. StoredItemsOpen
  <2> SUFFICES ASSUME NEW i \in Items, Stored(i)
               PROVE  Opens(store[i].sealed, CurrentKey(i))
    BY DEF StoredItemsOpen
  <2>1. i \in Seeded
    BY DEF Init, ServiceInit, Stored, NoRecord
  <2>2. store[i].sealed = [NoSealed EXCEPT !.wrapUnder = <<VaultOf[i], 1>>,
                                           !.metaUnder = <<VaultOf[i], 1>>]
    BY <2>1 DEF Init, ServiceInit
  <2>3. CurrentKey(i) = <<VaultOf[i], 1>>
    BY ServiceAssumption DEF Init, ServiceInit, CurrentKey
  <2> QED
    BY <2>2, <2>3 DEF Opens, NoSealed
<1>3. RequestsOpen
  BY DEF Init, RequestsOpen, SealedForVersion, NoExchange, NoRequest
<1> QED
  BY <1>1, <1>2, <1>3 DEF OpenInv

\* OpenInv is inductive.
LEMMA OpenStep == OpenInv /\ [Next]_vars => OpenInv'
<1> SUFFICES ASSUME OpenInv, [Next]_vars PROVE OpenInv'
  OBVIOUS
<1>1. TypeOK'
  BY TypeStep DEF OpenInv
<1>2. CASE Next
  BY <1>1, <1>2, RequestsStep, StoreStep DEF OpenInv
<1>3. CASE UNCHANGED vars
  BY <1>1, <1>3 DEF vars, svcVars, hostVars, OpenInv, StoredItemsOpen, Stored,
                    CurrentKey, RequestsOpen
<1> QED
  BY <1>2, <1>3

\* For any number of hosts and vaults, any rotations, lost replies and late
\* writes: every stored item opens under the current key of its vault.
THEOREM ItemsStayReadable == Spec => []StoredItemsOpen
<1>1. OpenInv => StoredItemsOpen
  BY DEF OpenInv
<1> QED
  BY OpenInit, OpenStep, <1>1, PTL DEF Spec

-------------------------------------------------------------------------------
(* Conditional updates keep the flags *)

SameFlags(s, t) == s.favorite = t.favorite /\ s.reprompt = t.reprompt

\* No revision on the wire or held by a host is newer than the clock.
RevisionsIssued ==
    /\ \A i \in Items : store[i].rev <= clock
    /\ \A c \in Clients :
          /\ \A i \in Items : known[c][i] <= clock
          /\ call[c].ifMatch <= clock
          /\ chan[c].req.ifMatch <= clock
          /\ chan[c].resp.rec.rev <= clock
    /\ \A q \in orphans : q.ifMatch <= clock

\* The exchange of an update is about its own item and its own revision.
ExchangeOfCall ==
    \A c \in Clients :
        /\ call[c].op = "update_item" => chan[c].req.item = call[c].item
        /\ chan[c].req.kind = "patch" => chan[c].req.ifMatch = call[c].ifMatch

\* While the revision an update was given is still the stored one, the record
\* the update has read carries the stored flags.
SnapshotsFresh ==
    \A c \in Clients :
        (/\ call[c].op = "update_item" /\ Answered(c)
         /\ chan[c].req.kind = "get"
         /\ call[c].ifMatch # 0
         /\ store[call[c].item].rev = call[c].ifMatch)
            => SameFlags(chan[c].resp.rec.sealed, store[call[c].item].sealed)

PatchFresh(q) ==
    (/\ q.kind = "patch" /\ q.ifMatch # 0
     /\ store[q.item].rev = q.ifMatch) => Keeps(q)

PatchesFresh ==
    /\ \A q \in orphans : PatchFresh(q)
    /\ \A c \in Clients : PatchFresh(chan[c].req)

FlagsInv ==
    /\ TypeOK /\ RevisionsIssued /\ ExchangeOfCall /\ SnapshotsFresh
    /\ PatchesFresh

\* The revision, the item and the flags of the requests the methods build.
LEMMA BuiltRequestsMatch ==
    ASSUME TypeOK, NEW c \in Clients, NEW k \in HostCall, k.op # "none"
    PROVE  /\ FirstRequest(c, k).ifMatch \in {0, k.ifMatch}
           /\ FirstRequest(c, k).item = k.item
           /\ FirstRequest(c, k).kind # "patch"
           /\ \A i \in Items, favorite \in BOOLEAN :
                LET q == build_create_request(c, k, i, favorite)
                IN  q.ifMatch = 0 /\ q.kind = "create"
           /\ \A rec \in ItemRecord :
                LET q == build_update_request(c, k, rec)
                IN  /\ q.ifMatch = k.ifMatch /\ q.item = k.item
                    /\ q.sealed.reprompt = rec.sealed.reprompt
                    /\ q.keeps => q.sealed.favorite = rec.sealed.favorite
           /\ move_source_request(c, k).ifMatch = 0
           /\ move_source_request(c, k).kind = "trash"
<1>1. k.item \in Items /\ k.ifMatch \in Nat /\ k.op \in Methods
  BY DEF HostCall
<1>2. ASSUME NEW kind \in Reads \cup Writes, NEW i \in Items, NEW m \in Nat
      PROVE  /\ Plain(c, k, kind, i, m) \in Request
             /\ Plain(c, k, kind, i, m).kind = kind
             /\ Plain(c, k, kind, i, m).item = i
             /\ Plain(c, k, kind, i, m).ifMatch = m
  BY RequestTypes DEF Plain, NoRequest
<1>3. ASSUME NEW i \in Items, NEW favorite \in BOOLEAN
      PROVE  /\ build_create_request(c, k, i, favorite).ifMatch = 0
             /\ build_create_request(c, k, i, favorite).kind = "create"
             /\ build_create_request(c, k, i, favorite).item = i
  <2>1. "create" \in Reads \cup Writes
    BY DEF Writes
  <2>2. /\ Plain(c, k, "create", i, 0) \in Request
        /\ Plain(c, k, "create", i, 0).kind = "create"
        /\ Plain(c, k, "create", i, 0).item = i
        /\ Plain(c, k, "create", i, 0).ifMatch = 0
    BY <1>2, <2>1
  <2> QED
    BY <2>2 DEF build_create_request, Request
<1>4. ASSUME NEW rec \in ItemRecord
      PROVE  LET q == build_update_request(c, k, rec)
             IN  /\ q.ifMatch = k.ifMatch /\ q.item = k.item
                 /\ q.sealed.reprompt = rec.sealed.reprompt
                 /\ q.keeps => q.sealed.favorite = rec.sealed.favorite
  <2>1. "patch" \in Reads \cup Writes
    BY DEF Writes
  <2>2. /\ Plain(c, k, "patch", k.item, k.ifMatch) \in Request
        /\ Plain(c, k, "patch", k.item, k.ifMatch).item = k.item
        /\ Plain(c, k, "patch", k.item, k.ifMatch).ifMatch = k.ifMatch
    BY <1>1, <1>2, <2>1
  <2> QED
    BY <2>2 DEF build_update_request, Request
<1>5. /\ move_source_request(c, k).ifMatch = 0
      /\ move_source_request(c, k).kind = "trash"
  <2>1. "trash" \in Reads \cup Writes
    BY DEF Writes
  <2> QED
    BY <1>1, <1>2, <2>1 DEF move_source_request
<1>6. /\ FirstRequest(c, k).ifMatch \in {0, k.ifMatch}
      /\ FirstRequest(c, k).item = k.item
      /\ FirstRequest(c, k).kind # "patch"
  <2>1. ASSUME NEW kind \in {"sync", "get", "trash", "delete", "restore"},
               NEW m \in Nat
        PROVE  /\ Plain(c, k, kind, k.item, m).ifMatch = m
               /\ Plain(c, k, kind, k.item, m).item = k.item
               /\ Plain(c, k, kind, k.item, m).kind = kind
    BY <1>1, <1>2 DEF Reads, Writes
  <2> QED
    BY <1>1, <1>3, <2>1, ZenonT(60) DEF FirstRequest, Methods
<1> QED
  BY <1>3, <1>4, <1>5, <1>6

\* What any step does to the rows: a row keeps its revision and its flags, or
\* is erased, or takes a revision newer than any that was handed out.
RowsMove ==
    /\ clock' \in Nat /\ clock <= clock'
    /\ \A i \in Items :
        \/ /\ store'[i].rev = store[i].rev
           /\ SameFlags(store'[i].sealed, store[i].sealed)
        \/ store'[i].rev = 0
        \/ store'[i].rev = clock + 1 /\ clock' = clock + 1

\* A request the service handles changes flags only together with the revision.
LEMMA HandleMoves ==
    ASSUME TypeOK, NEW q \in Request, NEW status \in Statuses,
           NEW applies \in BOOLEAN, Handle(q, status, applies)
    PROVE  /\ RowsMove
           /\ RowAfter(q).rev \in {0, store[q.item].rev, clock + 1}
           /\ (status = 200 /\ q.kind \in Writes) => clock' = clock + 1
<1>1. q.item \in Items /\ store[q.item] \in ItemRecord /\ clock \in Nat
  BY DEF Request, TypeOK
<1>2. \/ RowAfter(q) = store[q.item]
      \/ RowAfter(q).rev = 0
      \/ RowAfter(q).rev = clock + 1
  BY <1>1 DEF RowAfter, NoRecord, ItemRecord
<1>3. CASE applies
  <2>1. clock' = clock + 1 /\ store' = [store EXCEPT ![q.item] = RowAfter(q)]
    BY <1>3 DEF Handle
  <2>2. \A i \in Items : store'[i] = IF i = q.item THEN RowAfter(q) ELSE store[i]
    BY <2>1 DEF TypeOK
  <2> QED
    BY <1>1, <1>2, <2>1, <2>2 DEF RowsMove, SameFlags
<1>4. CASE ~applies
  BY <1>1, <1>2, <1>4 DEF Handle, RowsMove, SameFlags, TypeOK
<1> QED
  BY <1>2, <1>3, <1>4

\* Edits and rotations change flags only together with the revision.
LEMMA OthersMove ==
    ASSUME TypeOK, OthersAct
    PROVE  RowsMove
<1>1. clock \in Nat
  BY DEF TypeOK
<1>2. ASSUME NEW v \in Vaults, BeginRotation(v)
      PROVE  RowsMove
  BY <1>1, <1>2 DEF BeginRotation, RowsMove, SameFlags
<1>3. ASSUME NEW v \in Vaults, FinishRotation(v)
      PROVE  RowsMove
  <2>1. ASSUME NEW i \in Items
        PROVE  /\ store'[i].rev = store[i].rev
               /\ SameFlags(store'[i].sealed, store[i].sealed)
    <3>1. store[i] \in ItemRecord /\ store[i].sealed \in Sealed
      BY DEF TypeOK, ItemRecord
    <3>2. SameFlags(Reseal(i), store[i].sealed)
      BY <3>1 DEF Reseal, SameFlags, Sealed
    <3> QED
      BY <1>3, <3>1, <3>2 DEF FinishRotation, ItemRecord, SameFlags
  <2> QED
    BY <1>1, <1>3, <2>1 DEF FinishRotation, RowsMove
<1>4. ASSUME NEW i \in Items, NEW favorite \in BOOLEAN, NEW reprompt \in BOOLEAN,
             OtherEdit(i, favorite, reprompt)
      PROVE  RowsMove
  <2>1. store[i] \in ItemRecord
    BY DEF TypeOK
  <2>2. store'[i].rev = clock + 1 /\ clock' = clock + 1
        /\ \A j \in Items \ {i} : store'[j] = store[j]
    BY <1>4, <2>1 DEF OtherEdit, TypeOK, ItemRecord
  <2> QED
    BY <1>1, <2>2 DEF RowsMove, SameFlags
<1> QED
  BY <1>2, <1>3, <1>4 DEF OthersAct

\* A patch that was fresh stays fresh whatever happens to the rows.
LEMMA PatchStaysFresh ==
    ASSUME TypeOK, RowsMove, NEW q \in Request, PatchFresh(q),
           q.ifMatch <= clock
    PROVE  PatchFresh(q)'
<1> SUFFICES ASSUME q.kind = "patch", q.ifMatch # 0,
                    store'[q.item].rev = q.ifMatch
             PROVE  Keeps(q)'
  BY DEF PatchFresh
<1>1. q.item \in Items /\ q.ifMatch \in Nat /\ clock \in Nat
  BY DEF Request, TypeOK
<1>2. /\ store'[q.item].rev = store[q.item].rev
      /\ SameFlags(store'[q.item].sealed, store[q.item].sealed)
  BY <1>1 DEF RowsMove
<1>3. Keeps(q)
  BY <1>2 DEF PatchFresh
<1> QED
  BY <1>2, <1>3 DEF Keeps, SameFlags

\* A client step that sends a request of its own call.
LEMMA SendKeepsFlagsInv ==
    ASSUME FlagsInv, TypeOK', UNCHANGED <<svcVars, orphans, known>>,
           NEW c \in Clients, NEW k \in HostCall, NEW q \in Request,
           Send(c, k, q),
           k.ifMatch <= clock, q.ifMatch <= clock,
           k.op = "update_item" => q.item = k.item,
           q.kind = "patch" => q.ifMatch = k.ifMatch,
           PatchFresh(q)
    PROVE  FlagsInv'
<1> USE DEF FlagsInv
<1>1. /\ call'[c] = k /\ chan'[c].req = q /\ chan'[c].phase = "sent"
      /\ chan'[c].resp = NoResponse
      /\ \A d \in Clients \ {c} : call'[d] = call[d] /\ chan'[d] = chan[d]
  BY SendEffect
<1>2. store' = store /\ clock' = clock /\ clock \in Nat
  BY DEF svcVars, TypeOK
<1>3. RevisionsIssued'
  BY <1>1, <1>2 DEF RevisionsIssued, NoResponse, NoRecord
<1>4. ExchangeOfCall'
  BY <1>1 DEF ExchangeOfCall
<1>5. SnapshotsFresh'
  BY <1>1, <1>2 DEF SnapshotsFresh, Answered
<1>6. PatchesFresh'
  BY <1>1, <1>2 DEF PatchesFresh, PatchFresh, Keeps
<1> QED
  BY <1>3, <1>4, <1>5, <1>6

\* A method that returns keeps FlagsInv.
LEMMA FinishKeepsFlagsInv ==
    ASSUME FlagsInv, TypeOK', UNCHANGED svcVars,
           NEW c \in Clients, NEW outcome, Finish(c, outcome),
           orphans' \subseteq orphans \cup {chan[c].req},
           known' = known \/ \E i \in Items :
                known' = [known EXCEPT ![c][i] = chan[c].resp.rec.rev]
    PROVE  FlagsInv'
<1> USE DEF FlagsInv
<1>1. /\ call'[c] = NoCall /\ chan'[c] = NoExchange
      /\ \A d \in Clients \ {c} : call'[d] = call[d] /\ chan'[d] = chan[d]
  BY FinishEffect
<1>2. store' = store /\ clock' = clock /\ clock \in Nat
  BY DEF svcVars, TypeOK
<1>3. /\ NoCall.ifMatch = 0 /\ NoCall.op = "none"
      /\ NoExchange.phase = "idle" /\ NoExchange.req = NoRequest
      /\ NoRequest.ifMatch = 0 /\ NoRequest.kind = "get"
      /\ NoExchange.resp.rec.rev = 0
  BY DEF NoCall, NoExchange, NoRequest, NoResponse, NoRecord
<1>4. ASSUME NEW d \in Clients, NEW i \in Items
      PROVE  known'[d][i] <= clock
  <2>1. known[d][i] <= clock /\ chan[c].resp.rec.rev <= clock
    BY DEF RevisionsIssued
  <2>2. CASE known' = known
    BY <2>1, <2>2
  <2>3. CASE \E j \in Items :
                known' = [known EXCEPT ![c][j] = chan[c].resp.rec.rev]
    <3>1. PICK j \in Items :
              known' = [known EXCEPT ![c][j] = chan[c].resp.rec.rev]
      BY <2>3
    <3>2. known'[d][i] = IF d = c /\ i = j THEN chan[c].resp.rec.rev
                         ELSE known[d][i]
      BY <3>1 DEF TypeOK
    <3> QED
      BY <2>1, <3>2
  <2> QED
    BY <2>2, <2>3
<1>5. RevisionsIssued'
  BY <1>1, <1>2, <1>3, <1>4 DEF RevisionsIssued
<1>6. ExchangeOfCall'
  BY <1>1, <1>3 DEF ExchangeOfCall
<1>7. SnapshotsFresh'
  BY <1>1, <1>2, <1>3 DEF SnapshotsFresh, Answered
<1>8. PatchesFresh'
  BY <1>1, <1>2, <1>3 DEF PatchesFresh, PatchFresh, Keeps
<1> QED
  BY <1>5, <1>6, <1>7, <1>8

\* Every method a host begins keeps FlagsInv.
LEMMA HostKeepsFlagsInv ==
    ASSUME FlagsInv, TypeOK', NEW c \in Clients, HostBegins(c)
    PROVE  FlagsInv'
<1> USE DEF FlagsInv
<1>1. PICK k \in HostCall :
        /\ Begin(c, k)
        /\ k.ifMatch = 0 \/ \E i \in Items : k.ifMatch = known[c][i]
  BY HostStepShape
<1>2. /\ k.op # "none" /\ Send(c, k, FirstRequest(c, k))
      /\ UNCHANGED <<svcVars, orphans, known>>
  BY <1>1, HostAssumption DEF Begin, Methods
<1>3. k.ifMatch <= clock
  BY <1>1 DEF RevisionsIssued, TypeOK
<1>4. /\ FirstRequest(c, k) \in Request
      /\ FirstRequest(c, k).ifMatch \in {0, k.ifMatch}
      /\ FirstRequest(c, k).item = k.item
      /\ FirstRequest(c, k).kind # "patch"
  BY <1>2, RequestTypes, BuiltRequestsMatch
<1>5. FirstRequest(c, k).ifMatch <= clock /\ PatchFresh(FirstRequest(c, k))
  BY <1>3, <1>4 DEF PatchFresh, TypeOK
<1> QED
  BY <1>2, <1>3, <1>4, <1>5, SendKeepsFlagsInv

\* Every reply or timeout a method resumes with keeps FlagsInv.
LEMMA ClientKeepsFlagsInv ==
    ASSUME FlagsInv, TypeOK', NEW c \in Clients, ClientResumes(c)
    PROVE  FlagsInv'
<1> USE DEF FlagsInv
<1>1. /\ call[c] \in HostCall /\ chan[c].resp.rec \in ItemRecord
      /\ chan[c].resp.rec.sealed.content \in Contents
      /\ call[c].item \in Items /\ call[c].ifMatch <= clock /\ clock \in Nat
  BY DEF TypeOK, Exchange, Response, ItemRecord, Sealed, HostCall,
         RevisionsIssued
<1>2. CASE UpdateRead(c)
  <2> DEFINE q == build_update_request(c, call[c], chan[c].resp.rec)
  <2>1. /\ Answered(c) /\ call[c].op = "update_item"
        /\ chan[c].req.kind = "get"
        /\ Send(c, call[c], q) /\ UNCHANGED <<svcVars, orphans, known>>
    BY <1>2 DEF UpdateRead
  <2>2. /\ q \in Request /\ q.ifMatch = call[c].ifMatch /\ q.item = call[c].item
        /\ q.sealed.reprompt = chan[c].resp.rec.sealed.reprompt
        /\ q.keeps => q.sealed.favorite = chan[c].resp.rec.sealed.favorite
    BY <1>1, <2>1, RequestTypes, BuiltRequestsMatch
  <2> HIDE DEF q
  <2>3. PatchFresh(q)
    BY <2>1, <2>2 DEF PatchFresh, SnapshotsFresh, SameFlags, Keeps
  <2> QED
    BY <1>1, <2>1, <2>2, <2>3, SendKeepsFlagsInv
<1>3. CASE CopyRead(c)
  <2> DEFINE k == [call[c] EXCEPT !.content = chan[c].resp.rec.sealed.content]
             q == build_create_request(c, k, k.copy, FALSE)
  <2>1. /\ k \in HostCall /\ k.op = call[c].op /\ k.copy \in Items
        /\ k.ifMatch = call[c].ifMatch
    BY <1>1 DEF HostCall
  <2>2. /\ call[c].op \in {"copy_item", "move_item"}
        /\ Send(c, k, q) /\ UNCHANGED <<svcVars, orphans, known>>
    BY <1>3 DEF CopyRead
  <2> HIDE DEF k
  <2>3. q \in Request /\ q.ifMatch = 0 /\ q.kind = "create"
    BY <2>1, <2>2, RequestTypes, BuiltRequestsMatch
  <2> HIDE DEF q
  <2>4. PatchFresh(q)
    BY <2>3 DEF PatchFresh
  <2> QED
    BY <1>1, <2>1, <2>2, <2>3, <2>4, SendKeepsFlagsInv
<1>4. CASE MoveCopied(c)
  <2> DEFINE q == move_source_request(c, call[c])
  <2>1. /\ call[c].op = "move_item"
        /\ Send(c, call[c], q) /\ UNCHANGED <<svcVars, orphans, known>>
    BY <1>4 DEF MoveCopied
  <2>2. q \in Request /\ q.ifMatch = 0 /\ q.kind = "trash"
    BY <1>1, <2>1, RequestTypes, BuiltRequestsMatch
  <2> HIDE DEF q
  <2>3. PatchFresh(q)
    BY <2>2 DEF PatchFresh
  <2> QED
    BY <1>1, <2>1, <2>2, <2>3, SendKeepsFlagsInv
<1>5. CASE /\ \E outcome : Finish(c, outcome)
           /\ orphans' \subseteq orphans \cup {chan[c].req}
           /\ known' = known \/ \E i \in Items :
                 known' = [known EXCEPT ![c][i] = chan[c].resp.rec.rev]
           /\ UNCHANGED svcVars
  BY <1>5, FinishKeepsFlagsInv
<1> QED
  BY <1>2, <1>3, <1>4, <1>5, ClientStepShape

\* A step of the service or of another application: the requests stay, rows
\* move, and a reply that arrives is about the row as it is.
LEMMA RowsMoveKeepsFlagsInv ==
    ASSUME FlagsInv, TypeOK', RowsMove,
           UNCHANGED <<call, known>>, orphans' \subseteq orphans,
           \A d \in Clients : chan'[d].req = chan[d].req,
           \A d \in Clients :
              \/ chan'[d] = chan[d]
              \/ /\ chan'[d].resp.rec.rev <= clock'
                 /\ (chan'[d].resp.status = 200 /\ chan[d].req.kind = "get") =>
                        /\ store' = store
                        /\ chan'[d].resp.rec = store[chan[d].req.item]
    PROVE  FlagsInv'
<1> USE DEF FlagsInv
<1>1. clock \in Nat /\ clock' \in Nat /\ clock <= clock'
  BY DEF TypeOK, RowsMove
<1>2. RevisionsIssued'
  <2>1. ASSUME NEW i \in Items
        PROVE  store'[i].rev <= clock'
    <3>1. store[i].rev \in Nat /\ store[i].rev <= clock
      BY DEF RevisionsIssued, TypeOK, ItemRecord
    <3>2. store'[i].rev = store[i].rev \/ store'[i].rev = 0
          \/ (store'[i].rev = clock + 1 /\ clock' = clock + 1)
      BY DEF RowsMove
    <3> QED
      BY <1>1, <3>1, <3>2
  <2>2. ASSUME NEW d \in Clients
        PROVE  /\ \A i \in Items : known'[d][i] <= clock'
               /\ call'[d].ifMatch <= clock'
               /\ chan'[d].req.ifMatch <= clock'
    <3>1. /\ known[d] \in [Items -> Nat] /\ call[d].ifMatch \in Nat
          /\ chan[d].req.ifMatch \in Nat
      BY DEF TypeOK, HostCall, Exchange, Request
    <3> QED
      BY <1>1, <3>1 DEF RevisionsIssued
  <2>3. ASSUME NEW d \in Clients
        PROVE  chan'[d].resp.rec.rev <= clock'
    <3>1. chan[d].resp.rec.rev \in Nat
      BY DEF TypeOK, Exchange, Response, ItemRecord
    <3> QED
      BY <1>1, <3>1 DEF RevisionsIssued
  <2>4. ASSUME NEW q \in orphans
        PROVE  q.ifMatch <= clock'
    <3>1. q.ifMatch \in Nat
      BY DEF TypeOK, Request
    <3> QED
      BY <1>1, <3>1 DEF RevisionsIssued
  <2> QED
    BY <2>1, <2>2, <2>3, <2>4 DEF RevisionsIssued
<1>3. ExchangeOfCall'
  BY DEF ExchangeOfCall
<1>4. SnapshotsFresh'
  <2> SUFFICES ASSUME NEW d \in Clients,
                      call'[d].op = "update_item", Answered(d)',
                      chan'[d].req.kind = "get", call'[d].ifMatch # 0,
                      store'[call'[d].item].rev = call'[d].ifMatch
               PROVE  SameFlags(chan'[d].resp.rec.sealed,
                                store'[call'[d].item].sealed)
    BY DEF SnapshotsFresh
  <2>1. /\ call'[d] = call[d] /\ call[d].item \in Items
        /\ call[d].ifMatch \in Nat /\ call[d].ifMatch <= clock
        /\ chan[d].req.item = call[d].item /\ chan'[d].req = chan[d].req
    BY DEF TypeOK, HostCall, RevisionsIssued, ExchangeOfCall
  <2>2. CASE chan'[d] = chan[d]
    <3>1. /\ store'[call[d].item].rev = store[call[d].item].rev
          /\ SameFlags(store'[call[d].item].sealed, store[call[d].item].sealed)
      BY <1>1, <2>1 DEF RowsMove
    <3> QED
      BY <2>1, <2>2, <3>1 DEF SnapshotsFresh, Answered, SameFlags
  <2>3. CASE store' = store /\ chan'[d].resp.rec = store[chan[d].req.item]
    BY <2>1, <2>3 DEF SameFlags
  <2> QED
    BY <2>1, <2>2, <2>3 DEF Answered
<1>5. PatchesFresh'
  <2>1. ASSUME NEW d \in Clients
        PROVE  PatchFresh(chan[d].req)'
    <3>1. PICK q \in Request : q = chan[d].req
      BY DEF TypeOK, Exchange
    <3>2. PatchFresh(q) /\ q.ifMatch <= clock
      BY <3>1 DEF PatchesFresh, RevisionsIssued
    <3>3. PatchFresh(q)'
      BY <3>2, PatchStaysFresh
    <3>4. chan'[d].req = q
      BY <3>1
    <3> QED
      BY <3>3, <3>4
  <2>2. ASSUME NEW q \in orphans
        PROVE  PatchFresh(q)'
    <3>1. q \in Request /\ PatchFresh(q) /\ q.ifMatch <= clock
      BY DEF TypeOK, PatchesFresh, RevisionsIssued
    <3> QED
      BY <3>1, PatchStaysFresh
  <2> QED
    BY <2>1, <2>2 DEF PatchesFresh
<1> QED
  BY <1>2, <1>3, <1>4, <1>5

\* The service keeps FlagsInv, with requests in time and late ones.
LEMMA ServiceKeepsFlagsInv ==
    ASSUME FlagsInv, TypeOK', ServiceServes
    PROVE  FlagsInv'
<1> USE DEF FlagsInv
<1>1. PICK status \in Statuses, applies \in BOOLEAN :
        \/ \E c \in Clients : Serve(c, status, applies)
        \/ \E q \in orphans : ServeOrphan(q, status, applies)
  BY DEF ServiceServes
<1>2. ASSUME NEW c \in Clients, Serve(c, status, applies)
      PROVE  FlagsInv'
  <2> DEFINE q == chan[c].req
  <2>1. q \in Request /\ q.item \in Items /\ clock \in Nat
    BY DEF TypeOK, Exchange, Request
  <2>2. Handle(q, status, applies) /\ UNCHANGED <<call, orphans, known>>
    BY <1>2 DEF Serve
  <2>3. /\ RowsMove /\ RowAfter(q).rev \in {0, store[q.item].rev, clock + 1}
        /\ (status = 200 /\ q.kind \in Writes) => clock' = clock + 1
    BY <2>1, <2>2, HandleMoves
  <2>4. /\ chan'[c].req = q /\ chan'[c].resp = Reply(q, status)
        /\ \A d \in Clients \ {c} : chan'[d] = chan[d]
    BY <1>2 DEF Serve, TypeOK, Exchange
  <2>5. Reply(q, status).rec.rev <= clock'
    <3>1. CASE status # 200 \/ q.kind = "sync"
      BY <2>1, <2>3, <3>1 DEF Reply, NoRecord, RowsMove
    <3>2. CASE status = 200 /\ q.kind = "get"
      <4>1. Reply(q, status).rec = store[q.item]
        BY <3>2 DEF Reply
      <4>2. store[q.item].rev \in Nat /\ store[q.item].rev <= clock
        BY <2>1 DEF TypeOK, ItemRecord, RevisionsIssued
      <4> QED
        BY <2>1, <2>3, <4>1, <4>2 DEF RowsMove
    <3>3. CASE status = 200 /\ q.kind \notin Reads
      <4>1. q.kind \in Writes
        BY <2>1, <3>3 DEF Request
      <4>2. Reply(q, status).rec = [NoRecord EXCEPT !.rev = RowAfter(q).rev]
        BY <3>3 DEF Reply, Reads
      <4>3. Reply(q, status).rec.rev = RowAfter(q).rev
        BY <4>2 DEF NoRecord
      <4>4. store[q.item].rev \in Nat /\ store[q.item].rev <= clock
        BY <2>1 DEF TypeOK, ItemRecord, RevisionsIssued
      <4> QED
        BY <2>1, <2>3, <3>3, <4>1, <4>3, <4>4
    <3> QED
      BY <3>1, <3>2, <3>3 DEF Reads
  <2>6. (chan'[c].resp.status = 200 /\ q.kind = "get") =>
            store' = store /\ chan'[c].resp.rec = store[q.item]
    BY <2>2, <2>4 DEF Reply, Handle, Writes
  <2> QED
    BY <2>2, <2>3, <2>4, <2>5, <2>6, RowsMoveKeepsFlagsInv
<1>3. ASSUME NEW q \in orphans, ServeOrphan(q, status, applies)
      PROVE  FlagsInv'
  <2>1. /\ q \in Request /\ Handle(q, status, applies)
        /\ orphans' \subseteq orphans /\ UNCHANGED <<call, chan, known>>
    BY <1>3 DEF ServeOrphan, TypeOK
  <2>2. RowsMove
    BY <2>1, HandleMoves
  <2> QED
    BY <2>1, <2>2, RowsMoveKeepsFlagsInv
<1> QED
  BY <1>1, <1>2, <1>3

\* At first no revision was handed out.
LEMMA FlagsInit == Init => FlagsInv
<1> SUFFICES ASSUME Init PROVE FlagsInv
  OBVIOUS
<1>1. TypeOK
  BY InitTypes
<1>2. /\ NoCall.ifMatch = 0 /\ NoCall.op = "none"
      /\ NoExchange.req = NoRequest /\ NoRequest.ifMatch = 0
      /\ NoRequest.kind = "get" /\ NoExchange.resp.rec.rev = 0
      /\ NoRecord.rev = 0
  BY DEF NoCall, NoExchange, NoRequest, NoResponse, NoRecord
<1>3. \A i \in Items : store[i].rev \in {0, 1}
  BY <1>2 DEF Init, ServiceInit
<1>4. RevisionsIssued
  <2>0. clock = 1
    BY DEF Init, ServiceInit
  <2>1. \A i \in Items : store[i].rev <= clock
    BY <1>3, <2>0
  <2>2. \A c \in Clients, i \in Items : known[c][i] = store[i].rev
    BY DEF Init
  <2>3. orphans = {} /\ \A c \in Clients : call[c] = NoCall /\ chan[c] = NoExchange
    BY DEF Init
  <2>4. 0 <= clock
    BY <2>0
  <2> QED
    BY <1>2, <2>1, <2>2, <2>3, <2>4 DEF RevisionsIssued
<1>5. ExchangeOfCall /\ SnapshotsFresh /\ PatchesFresh
  BY <1>2 DEF Init, ExchangeOfCall, SnapshotsFresh, PatchesFresh, PatchFresh
<1> QED
  BY <1>1, <1>4, <1>5 DEF FlagsInv

\* FlagsInv is inductive.
LEMMA FlagsStep == FlagsInv /\ [Next]_vars => FlagsInv'
<1> SUFFICES ASSUME FlagsInv, [Next]_vars PROVE FlagsInv'
  OBVIOUS
<1>1. TypeOK'
  BY TypeStep DEF FlagsInv
<1>2. CASE \E c \in Clients : HostBegins(c) \/ ClientResumes(c)
  BY <1>1, <1>2, HostKeepsFlagsInv, ClientKeepsFlagsInv
<1>3. CASE ServiceServes
  BY <1>1, <1>3, ServiceKeepsFlagsInv
<1>4. CASE OthersAct
  <2>1. RowsMove
    BY <1>4, OthersMove DEF FlagsInv
  <2> QED
    BY <1>1, <1>4, <2>1, RowsMoveKeepsFlagsInv DEF OthersAct, hostVars
<1>5. CASE UNCHANGED vars
  <2>1. UNCHANGED <<store, clock, call, chan, orphans, known>>
    BY <1>5 DEF vars, svcVars, hostVars
  <2> QED
    BY <1>1, <2>1 DEF FlagsInv, RevisionsIssued, ExchangeOfCall, SnapshotsFresh,
                      Answered, PatchesFresh, PatchFresh, Keeps
<1> QED
  BY <1>2, <1>3, <1>4, <1>5 DEF Next

\* FlagsInv implies the property.
LEMMA FlagsInvSuffices == FlagsInv => ConditionalUpdateKeepsFlags
<1> SUFFICES ASSUME FlagsInv, NEW q \in Pending, q.kind = "patch",
                    Conditional(q), Refusals(q) = {}
             PROVE  q.ifMatch = store[q.item].rev /\ Keeps(q)
  BY DEF ConditionalUpdateKeepsFlags
<1>1. q \in orphans \/ \E c \in Clients : q = chan[c].req
  BY DEF Pending
<1>2. PatchFresh(q)
  BY <1>1 DEF FlagsInv, PatchesFresh
<1>3. q.ifMatch # 0
  BY DEF FlagsInv, Conditional, ExchangeOfCall
<1>4. q.ifMatch = store[q.item].rev
  BY <1>3 DEF Refusals, Statuses
<1> QED
  BY <1>2, <1>3, <1>4 DEF PatchFresh

\* For any number of hosts and items and any schedule: a conditional update that
\* the service would accept overwrites the revision its caller named and keeps
\* the stored flags it is documented to keep.
THEOREM ConditionalUpdatesKeepFlags == Spec => []ConditionalUpdateKeepsFlags
BY FlagsInit, FlagsStep, FlagsInvSuffices, PTL DEF Spec

-------------------------------------------------------------------------------
(* Refusals are final, and erasing takes two calls *)

Refusing == {"Stale", "Rotating", "KeyVersion"}

\* An exchange whose request has surely not been applied.
Unapplied(x) ==
    \/ x.phase = "sent"
    \/ /\ x.phase = "replied"
       /\ x.req.kind \in Reads \/ x.resp.status \notin {200, 500}

\* Only delete_item sends DELETE; a move copies before it trashes.
Deliberate(q) == q.kind = "delete" => q.op = "delete_item"

\* The exchange x of host c belongs to its call k, which is newer than the
\* host's last call r and has left no request behind.
InProgress(c, k, x, r, N, A, O) ==
    x.phase # "idle" =>
        /\ k.op # "none" /\ k.n <= N /\ r.n < k.n
        /\ x.req.by = <<c, k.n>> /\ x.req.op = k.op /\ Deliberate(x.req)
        /\ \A q \in O : q.by # <<c, k.n>>
        /\ (k.op # "move_item" /\ Unapplied(x)) => <<c, k.n>> \notin A

Final(c, r, N, A, O) ==
    /\ r.n <= N
    /\ (r.outcome \in Refusing /\ r.op # "move_item") =>
            <<c, r.n>> \notin A /\ \A q \in O : q.by # <<c, r.n>>

\* Late requests are of different calls, and only a move has written before.
LateInv(N, A, O) ==
    /\ \A b \in A : b[2] <= N
    /\ \A q \in O : /\ q.by[2] <= N /\ Deliberate(q)
                    /\ q.op # "move_item" => q.by \notin A
    /\ \A p, q \in O : p.by = q.by => p = q

RefusalInv ==
    /\ LateInv(calls, applied, orphans)
    /\ \A c \in Clients :
            /\ InProgress(c, call[c], chan[c], last[c], calls, applied, orphans)
            /\ Final(c, last[c], calls, applied, orphans)

\* The requests the methods build carry their call.
LEMMA BuiltRequestsMarked ==
    ASSUME TypeOK, NEW c \in Clients, NEW k \in HostCall, k.op # "none"
    PROVE  /\ LET q == FirstRequest(c, k)
              IN  /\ q.by = <<c, k.n>> /\ q.op = k.op /\ Deliberate(q)
                  /\ k.op = "move_item" => q.kind = "get"
           /\ \A i \in Items, favorite \in BOOLEAN :
                LET q == build_create_request(c, k, i, favorite)
                IN  /\ q.by = <<c, k.n>> /\ q.op = k.op /\ q.kind = "create"
                    /\ q.item = i /\ q.sealed.content = k.content
           /\ \A rec \in ItemRecord :
                LET q == build_update_request(c, k, rec)
                IN  q.by = <<c, k.n>> /\ q.op = k.op /\ q.kind = "patch"
           /\ LET q == move_source_request(c, k)
              IN  q.by = <<c, k.n>> /\ q.op = k.op /\ q.kind = "trash"
<1>1. k.item \in Items /\ k.ifMatch \in Nat /\ k.op \in Methods
  BY DEF HostCall
<1>2. ASSUME NEW kind \in Reads \cup Writes, NEW i \in Items, NEW m \in Nat
      PROVE  /\ Plain(c, k, kind, i, m) \in Request
             /\ Plain(c, k, kind, i, m).kind = kind
             /\ Plain(c, k, kind, i, m).item = i
             /\ Plain(c, k, kind, i, m).by = <<c, k.n>>
             /\ Plain(c, k, kind, i, m).op = k.op
  BY RequestTypes DEF Plain, NoRequest
<1>3. ASSUME NEW i \in Items, NEW favorite \in BOOLEAN
      PROVE  LET q == build_create_request(c, k, i, favorite)
             IN  /\ q.by = <<c, k.n>> /\ q.op = k.op /\ q.kind = "create"
                 /\ q.item = i /\ q.sealed.content = k.content
  <2>1. "create" \in Reads \cup Writes
    BY DEF Writes
  <2>2. /\ Plain(c, k, "create", i, 0) \in Request
        /\ Plain(c, k, "create", i, 0).kind = "create"
        /\ Plain(c, k, "create", i, 0).item = i
        /\ Plain(c, k, "create", i, 0).by = <<c, k.n>>
        /\ Plain(c, k, "create", i, 0).op = k.op
    BY <1>2, <2>1
  <2> QED
    BY <2>2 DEF build_create_request, Request
<1>4. ASSUME NEW rec \in ItemRecord
      PROVE  LET q == build_update_request(c, k, rec)
             IN  q.by = <<c, k.n>> /\ q.op = k.op /\ q.kind = "patch"
  <2>1. "patch" \in Reads \cup Writes
    BY DEF Writes
  <2>2. /\ Plain(c, k, "patch", k.item, k.ifMatch) \in Request
        /\ Plain(c, k, "patch", k.item, k.ifMatch).kind = "patch"
        /\ Plain(c, k, "patch", k.item, k.ifMatch).by = <<c, k.n>>
        /\ Plain(c, k, "patch", k.item, k.ifMatch).op = k.op
    BY <1>1, <1>2, <2>1
  <2> QED
    BY <2>2 DEF build_update_request, Request
<1>5. LET q == move_source_request(c, k)
      IN  q.by = <<c, k.n>> /\ q.op = k.op /\ q.kind = "trash"
  <2>1. "trash" \in Reads \cup Writes
    BY DEF Writes
  <2> QED
    BY <1>1, <1>2, <2>1 DEF move_source_request
<1>6. LET q == FirstRequest(c, k)
      IN  /\ q.by = <<c, k.n>> /\ q.op = k.op /\ Deliberate(q)
          /\ k.op = "move_item" => q.kind = "get"
  <2>1. ASSUME NEW kind \in {"sync", "get", "trash", "delete", "restore"},
               NEW m \in Nat
        PROVE  /\ Plain(c, k, kind, k.item, m).kind = kind
               /\ Plain(c, k, kind, k.item, m).by = <<c, k.n>>
               /\ Plain(c, k, kind, k.item, m).op = k.op
    BY <1>1, <1>2 DEF Reads, Writes
  <2> QED
    BY <1>1, <1>3, <2>1, ZenonT(60) DEF FirstRequest, Methods, Deliberate
<1> QED
  BY <1>3, <1>4, <1>5, <1>6

\* How a call ends: a refusal is reported only after an answer that says the
\* request was not applied.
LEMMA CallEnds ==
    ASSUME TypeOK, NEW c \in Clients, ClientResumes(c)
    PROVE  \/ UpdateRead(c) \/ CopyRead(c) \/ MoveCopied(c)
           \/ \E outcome \in Outcomes :
                /\ Finish(c, outcome) /\ chan[c].phase # "idle"
                /\ UNCHANGED <<store, calls, history>>
                /\ \/ orphans' = orphans
                   \/ /\ orphans' = orphans \cup {chan[c].req}
                      /\ chan[c].phase = "sent"
                /\ outcome \in Refusing =>
                        Unapplied(chan[c]) /\ orphans' = orphans
<1>1. CASE Timeout(c)
  BY <1>1 DEF Timeout, Outcomes, Refusing, svcVars
<1>2. CASE Refused(c)
  <2> DEFINE outcome == map_err(call[c].op, chan[c].req.kind,
                                chan[c].resp.status)
  <2>1. outcome \in Outcomes
    BY DEF map_err, item_write_error, Outcomes
  <2>2. outcome \in Refusing => chan[c].resp.status \in {409, 412, 423}
    BY DEF map_err, item_write_error, Refusing
  <2>3. /\ chan[c].phase = "replied" /\ Finish(c, outcome)
        /\ UNCHANGED <<store, calls, history, orphans>>
    BY <1>2 DEF Refused, svcVars
  <2> HIDE DEF outcome
  <2> QED
    BY <2>1, <2>2, <2>3 DEF Unapplied
<1>3. CASE ListVaultsDone(c) \/ GetItemDone(c) \/ WriteDone(c)
           \/ CannotDecrypt(c) \/ Rejected(c)
  <2>1. /\ chan[c].phase = "replied"
        /\ UNCHANGED <<store, calls, history, orphans>>
        /\ \E outcome \in {"Ok", "Crypto", "Malformed"} : Finish(c, outcome)
    BY <1>3 DEF ListVaultsDone, GetItemDone, WriteDone, CannotDecrypt,
                Rejected, Answered, svcVars
  <2> QED
    BY <2>1 DEF Outcomes, Refusing
<1> QED
  BY <1>1, <1>2, <1>3 DEF ClientResumes

\* A host sends the next request of its call, or the first of a new one.
LEMMA SendKeepsRefusals ==
    ASSUME TypeOK, RefusalInv, NEW c \in Clients, NEW k \in HostCall,
           NEW q \in Request, Send(c, k, q),
           calls' \in Nat, calls <= calls',
           UNCHANGED <<orphans, last, applied>>,
           k.op # "none", k.n <= calls', last[c].n < k.n,
           q.by = <<c, k.n>>, q.op = k.op, Deliberate(q),
           \A p \in orphans : p.by # <<c, k.n>>,
           k.op # "move_item" => <<c, k.n>> \notin applied
    PROVE  RefusalInv'
<1>1. calls \in Nat /\ applied \subseteq Calls /\ orphans \subseteq Request
  BY DEF TypeOK
<1>2. LateInv(calls, applied, orphans)'
  <2>1. ASSUME NEW b \in applied PROVE b[2] <= calls'
    <3>1. b[2] \in Nat /\ b[2] <= calls
      BY <1>1 DEF Calls, RefusalInv, LateInv
    <3> QED
      BY <1>1, <3>1
  <2>2. ASSUME NEW p \in orphans PROVE p.by[2] <= calls'
    <3>1. p.by[2] \in Nat /\ p.by[2] <= calls
      BY <1>1 DEF Request, Calls, RefusalInv, LateInv
    <3> QED
      BY <1>1, <3>1
  <2> QED
    BY <2>1, <2>2 DEF RefusalInv, LateInv
<1>3. ASSUME NEW d \in Clients
      PROVE  Final(d, last[d], calls, applied, orphans)'
  <2>1. last[d].n \in Nat
    BY DEF TypeOK
  <2>2. Final(d, last[d], calls, applied, orphans)
    BY DEF RefusalInv
  <2> QED
    BY <1>1, <2>1, <2>2 DEF Final
<1>4. ASSUME NEW d \in Clients
      PROVE  InProgress(d, call[d], chan[d], last[d], calls, applied, orphans)'
  <2>1. CASE d = c
    <3>1. call'[c] = k /\ chan'[c].req = q
      BY SendEffect
    <3> QED
      BY <2>1, <3>1 DEF InProgress
  <2>2. CASE d # c
    <3>1. call'[d] = call[d] /\ chan'[d] = chan[d]
      BY <2>2, SendEffect
    <3>2. call[d].n \in Nat
      BY DEF TypeOK, HostCall
    <3>3. InProgress(d, call[d], chan[d], last[d], calls, applied, orphans)
      BY DEF RefusalInv
    <3> QED
      BY <1>1, <3>1, <3>2, <3>3 DEF InProgress
  <2> QED
    BY <2>1, <2>2
<1> QED
  BY <1>2, <1>3, <1>4 DEF RefusalInv

\* Every method a host begins keeps RefusalInv.
LEMMA HostKeepsRefusals ==
    ASSUME TypeOK, RefusalInv, NEW c \in Clients, HostBegins(c)
    PROVE  RefusalInv'
<1>1. PICK k \in HostCall : Begin(c, k) /\ k.n = calls + 1
  BY HostStepShape
<1>2. /\ k.op # "none" /\ Send(c, k, FirstRequest(c, k))
      /\ UNCHANGED <<orphans, last, applied>> /\ calls' = calls + 1
  BY <1>1, HostAssumption DEF Begin, Methods
<1>3. FirstRequest(c, k) \in Request
  BY <1>2, RequestTypes
<1>4. calls \in Nat /\ calls' \in Nat /\ calls <= calls' /\ k.n <= calls'
  BY <1>1, <1>2 DEF TypeOK
<1>5. last[c].n \in Nat /\ last[c].n <= calls
  BY DEF TypeOK, RefusalInv, Final
<1>6. last[c].n < k.n
  BY <1>1, <1>4, <1>5
<1>7. \A p \in orphans : p.by # <<c, k.n>>
  BY <1>1, <1>4 DEF RefusalInv, LateInv
<1>8. <<c, k.n>> \notin applied
  BY <1>1, <1>4 DEF RefusalInv, LateInv
<1> QED
  BY <1>2, <1>3, <1>4, <1>6, <1>7, <1>8, BuiltRequestsMarked, SendKeepsRefusals

\* A method that returns keeps RefusalInv, if a refusal it reports wrote nothing.
LEMMA FinishKeepsRefusals ==
    ASSUME TypeOK, RefusalInv, NEW c \in Clients, NEW outcome \in Outcomes,
           Finish(c, outcome), chan[c].phase # "idle",
           UNCHANGED <<store, calls, history>>,
           \/ orphans' = orphans
           \/ orphans' = orphans \cup {chan[c].req} /\ chan[c].phase = "sent",
           outcome \in Refusing => Unapplied(chan[c]) /\ orphans' = orphans
    PROVE  RefusalInv'
<1>1. /\ chan'[c] = NoExchange
      /\ \A d \in Clients \ {c} : call'[d] = call[d] /\ chan'[d] = chan[d]
  BY FinishEffect
<1>2. UNCHANGED <<calls, applied>>
  BY DEF history
<1>3. /\ \A d \in Clients \ {c} : last'[d] = last[d]
      /\ last'[c].n = call[c].n /\ last'[c].outcome = outcome
      /\ last'[c].op = call[c].op
  BY DEF Finish, TypeOK
<1>4. InProgress(c, call[c], chan[c], last[c], calls, applied, orphans)
  BY DEF RefusalInv
<1>5. /\ call[c].n <= calls /\ chan[c].req.by = <<c, call[c].n>>
      /\ chan[c].req.op = call[c].op /\ Deliberate(chan[c].req)
      /\ \A q \in orphans : q.by # <<c, call[c].n>>
      /\ (call[c].op # "move_item" /\ Unapplied(chan[c])) =>
            <<c, call[c].n>> \notin applied
  BY <1>4 DEF InProgress
<1>6. LateInv(calls, applied, orphans)'
  <2>1. CASE orphans' = orphans
    BY <1>2, <2>1 DEF RefusalInv
  <2>2. CASE orphans' = orphans \cup {chan[c].req} /\ chan[c].phase = "sent"
    <3>1. Unapplied(chan[c])
      BY <2>2 DEF Unapplied
    <3>2. LateInv(calls, applied, orphans)
      BY DEF RefusalInv
    <3> QED
      BY <1>2, <1>5, <2>2, <3>1, <3>2 DEF LateInv
  <2> QED
    BY <2>1, <2>2
<1>7. ASSUME NEW d \in Clients \ {c}, NEW b, \A q \in orphans : q.by # <<d, b>>
      PROVE  \A q \in orphans' : q.by # <<d, b>>
  BY <1>5, <1>7
<1>8. ASSUME NEW d \in Clients
      PROVE  Final(d, last[d], calls, applied, orphans)'
  <2>1. CASE d = c
    BY <1>2, <1>3, <1>5, <2>1 DEF Final
  <2>2. CASE d # c
    <3>1. Final(d, last[d], calls, applied, orphans)
      BY DEF RefusalInv
    <3> QED
      BY <1>2, <1>3, <1>7, <2>2, <3>1 DEF Final
  <2> QED
    BY <2>1, <2>2
<1>9. ASSUME NEW d \in Clients
      PROVE  InProgress(d, call[d], chan[d], last[d], calls, applied, orphans)'
  <2>1. CASE d = c
    BY <1>1, <2>1 DEF InProgress, NoExchange
  <2>2. CASE d # c
    <3>1. InProgress(d, call[d], chan[d], last[d], calls, applied, orphans)
      BY DEF RefusalInv
    <3> QED
      BY <1>1, <1>2, <1>3, <1>7, <2>2, <3>1 DEF InProgress
  <2> QED
    BY <2>1, <2>2
<1> QED
  BY <1>6, <1>8, <1>9 DEF RefusalInv

\* A served request marks at most its own call as applied; a read and a coded
\* refusal mark none.
LEMMA HandleApplies ==
    ASSUME NEW q \in Request, NEW status \in Statuses, NEW applies \in BOOLEAN,
           Handle(q, status, applies), Record(q, applies)
    PROVE  /\ applied' \in {applied, applied \cup {q.by}}
           /\ (q.kind \in Reads \/ status \notin {200, 500}) =>
                    applied' = applied
<1>1. Reads \cap Writes = {}
  BY DEF Reads, Writes
<1> QED
  BY <1>1 DEF Handle, Record

\* A request served in time keeps RefusalInv.
LEMMA ServeKeepsRefusals ==
    ASSUME TypeOK, RefusalInv, NEW c \in Clients, NEW status \in Statuses,
           NEW applies \in BOOLEAN, Serve(c, status, applies)
    PROVE  RefusalInv'
<1>1. PICK q \in Request : q = chan[c].req
  BY DEF TypeOK, Exchange
<1>2. /\ chan[c].phase = "sent" /\ Handle(q, status, applies)
      /\ Record(q, applies) /\ UNCHANGED <<call, orphans, calls, last>>
  BY <1>1 DEF Serve
<1>3. /\ applied' \in {applied, applied \cup {q.by}}
      /\ (q.kind \in Reads \/ status \notin {200, 500}) => applied' = applied
  BY <1>2, HandleApplies
<1>4. /\ chan'[c].phase = "replied" /\ chan'[c].req = q
      /\ chan'[c].resp.status = status
      /\ \A d \in Clients \ {c} : chan'[d] = chan[d]
  BY <1>1 DEF Serve, TypeOK, Exchange, Reply
<1>5. /\ call[c].op # "none" /\ call[c].n <= calls /\ last[c].n < call[c].n
      /\ q.by = <<c, call[c].n>> /\ q.op = call[c].op /\ Deliberate(q)
      /\ \A p \in orphans : p.by # <<c, call[c].n>>
      /\ call[c].op # "move_item" => <<c, call[c].n>> \notin applied
  BY <1>1, <1>2 DEF RefusalInv, InProgress, Unapplied
<1>6. last[c].n \in Nat /\ call[c].n \in Nat
  BY DEF TypeOK, HostCall
<1>7. LateInv(calls, applied, orphans)'
  <2>1. LateInv(calls, applied, orphans)
    BY DEF RefusalInv
  <2> QED
    BY <1>2, <1>3, <1>5, <2>1 DEF LateInv
<1>8. ASSUME NEW d \in Clients, NEW b \in Nat, d # c \/ b # call[c].n,
             <<d, b>> \notin applied
      PROVE  <<d, b>> \notin applied'
  BY <1>3, <1>5, <1>8
<1>9. ASSUME NEW d \in Clients
      PROVE  Final(d, last[d], calls, applied, orphans)'
  <2>1. Final(d, last[d], calls, applied, orphans)
    BY DEF RefusalInv
  <2>2. last[d].n \in Nat /\ (d # c \/ last[d].n # call[c].n)
    BY <1>5, <1>6 DEF TypeOK
  <2> QED
    BY <1>2, <1>8, <2>1, <2>2 DEF Final
<1>10. ASSUME NEW d \in Clients
       PROVE  InProgress(d, call[d], chan[d], last[d], calls, applied, orphans)'
  <2>1. CASE d = c
    <3>1. (call[c].op # "move_item" /\ Unapplied(chan'[c])) =>
                <<c, call[c].n>> \notin applied'
      BY <1>3, <1>4, <1>5 DEF Unapplied
    <3> QED
      BY <1>2, <1>4, <1>5, <2>1, <3>1 DEF InProgress
  <2>2. CASE d # c
    <3>1. InProgress(d, call[d], chan[d], last[d], calls, applied, orphans)
      BY DEF RefusalInv
    <3>2. call[d].n \in Nat
      BY DEF TypeOK, HostCall
    <3> QED
      BY <1>2, <1>4, <1>8, <2>2, <3>1, <3>2 DEF InProgress
  <2> QED
    BY <2>1, <2>2
<1> QED
  BY <1>7, <1>9, <1>10 DEF RefusalInv

\* A request that arrives late keeps RefusalInv.
LEMMA OrphanKeepsRefusals ==
    ASSUME TypeOK, RefusalInv, NEW q \in orphans, NEW status \in Statuses,
           NEW applies \in BOOLEAN, ServeOrphan(q, status, applies)
    PROVE  RefusalInv'
<1>1. /\ q \in Request /\ Handle(q, status, applies) /\ Record(q, applies)
      /\ orphans' = orphans \ {q} /\ UNCHANGED <<call, chan, calls, last>>
  BY DEF ServeOrphan, TypeOK
<1>2. applied' \in {applied, applied \cup {q.by}}
  BY <1>1, HandleApplies
<1>3. LateInv(calls, applied, orphans)'
  <2>1. LateInv(calls, applied, orphans)
    BY DEF RefusalInv
  <2> QED
    BY <1>1, <1>2, <2>1 DEF LateInv
<1>4. ASSUME NEW d \in Clients
      PROVE  Final(d, last[d], calls, applied, orphans)'
  BY <1>1, <1>2 DEF RefusalInv, Final
<1>5. ASSUME NEW d \in Clients
      PROVE  InProgress(d, call[d], chan[d], last[d], calls, applied, orphans)'
  <2>1. InProgress(d, call[d], chan[d], last[d], calls, applied, orphans)
    BY DEF RefusalInv
  <2> QED
    BY <1>1, <1>2, <2>1 DEF InProgress
<1> QED
  BY <1>3, <1>4, <1>5 DEF RefusalInv

\* Every reply or timeout a method resumes with keeps RefusalInv.
LEMMA ClientKeepsRefusals ==
    ASSUME TypeOK, RefusalInv, NEW c \in Clients, ClientResumes(c)
    PROVE  RefusalInv'
<1>1. /\ call[c] \in HostCall /\ chan[c].resp.rec \in ItemRecord
      /\ chan[c].resp.rec.sealed.content \in Contents /\ calls \in Nat
  BY DEF TypeOK, Exchange, Response, ItemRecord, Sealed
\* The next request of a call that has applied nothing yet, or of a move.
<1>2. ASSUME NEW k \in HostCall, NEW q \in Request, Send(c, k, q),
             UNCHANGED <<orphans, last, applied, calls>>, k.n = call[c].n,
             k.op = call[c].op, chan[c].phase = "replied",
             k.op # "move_item" => Unapplied(chan[c]),
             q.by = <<c, k.n>>, q.op = k.op, Deliberate(q)
      PROVE  RefusalInv'
  <2>1. /\ k.op # "none" /\ k.n <= calls /\ last[c].n < k.n
        /\ \A p \in orphans : p.by # <<c, k.n>>
        /\ k.op # "move_item" => <<c, k.n>> \notin applied
    BY <1>2 DEF RefusalInv, InProgress
  <2>2. calls' \in Nat /\ calls <= calls' /\ k.n <= calls'
    BY <1>1, <1>2, <2>1
  <2> QED
    BY <1>2, <2>1, <2>2, SendKeepsRefusals
<1>3. CASE UpdateRead(c)
  <2> DEFINE k == call[c]
             q == build_update_request(c, call[c], chan[c].resp.rec)
  <2>1. /\ k.op = "update_item" /\ Send(c, k, q)
        /\ chan[c].phase = "replied" /\ Unapplied(chan[c])
        /\ UNCHANGED <<orphans, last, applied, calls>>
    BY <1>3 DEF UpdateRead, Answered, Unapplied, Reads, history
  <2>2. /\ q \in Request /\ q.by = <<c, k.n>> /\ q.op = k.op /\ Deliberate(q)
    BY <1>1, <2>1, RequestTypes, BuiltRequestsMarked DEF Deliberate
  <2> HIDE DEF q
  <2> QED
    BY <1>1, <1>2, <2>1, <2>2
<1>4. CASE CopyRead(c)
  <2> DEFINE k == [call[c] EXCEPT !.content = chan[c].resp.rec.sealed.content]
             q == build_create_request(c, k, k.copy, FALSE)
  <2>1. /\ k \in HostCall /\ k.op = call[c].op /\ k.copy \in Items
        /\ k.n = call[c].n
    BY <1>1 DEF HostCall
  <2>2. /\ call[c].op \in {"copy_item", "move_item"} /\ Send(c, k, q)
        /\ chan[c].phase = "replied" /\ Unapplied(chan[c])
        /\ UNCHANGED <<orphans, last, applied, calls>>
    BY <1>4 DEF CopyRead, Answered, Unapplied, Reads, history
  <2> HIDE DEF k
  <2>3. /\ q \in Request /\ q.by = <<c, k.n>> /\ q.op = k.op /\ Deliberate(q)
    BY <2>1, <2>2, RequestTypes, BuiltRequestsMarked, ZenonT(60) DEF Deliberate
  <2> HIDE DEF q
  <2> QED
    BY <1>2, <2>1, <2>2, <2>3
<1>5. CASE MoveCopied(c)
  <2> DEFINE k == call[c]
             q == move_source_request(c, call[c])
  <2>1. /\ k.op = "move_item" /\ Send(c, k, q) /\ chan[c].phase = "replied"
        /\ UNCHANGED <<orphans, last, applied, calls>>
    BY <1>5 DEF MoveCopied, Answered, history
  <2>2. /\ q \in Request /\ q.by = <<c, k.n>> /\ q.op = k.op /\ Deliberate(q)
    BY <1>1, <2>1, RequestTypes, BuiltRequestsMarked DEF Deliberate
  <2> HIDE DEF q
  <2> QED
    BY <1>1, <1>2, <2>1, <2>2
<1> QED
  BY <1>3, <1>4, <1>5, CallEnds, FinishKeepsRefusals

\* At first no call was made.
LEMMA RefusalInvInit == Init => RefusalInv
<1> SUFFICES ASSUME Init PROVE RefusalInv
  OBVIOUS
<1>1. LateInv(calls, applied, orphans)
  BY DEF Init, LateInv
<1>2. ASSUME NEW c \in Clients
      PROVE  chan[c].phase = "idle" /\ last[c].n = 0 /\ calls = 0
             /\ last[c].outcome = "none"
  BY DEF Init, NoExchange
<1> QED
  BY <1>1, <1>2 DEF RefusalInv, InProgress, Final, Refusing

\* RefusalInv is inductive relative to the types.
LEMMA RefusalInvStep == TypeOK /\ RefusalInv /\ [Next]_vars => RefusalInv'
<1> SUFFICES ASSUME TypeOK, RefusalInv, [Next]_vars PROVE RefusalInv'
  OBVIOUS
<1>1. CASE \E c \in Clients : HostBegins(c) \/ ClientResumes(c)
  BY <1>1, HostKeepsRefusals, ClientKeepsRefusals
<1>2. CASE ServiceServes
  BY <1>2, ServeKeepsRefusals, OrphanKeepsRefusals DEF ServiceServes
<1>3. CASE UNCHANGED <<hostVars, history>>
  BY <1>3 DEF RefusalInv, hostVars, history
<1> QED
  BY <1>1, <1>2, <1>3 DEF Next, OthersAct, vars

\* For any number of hosts, calls and late writes: after Stale, Rotating or
\* KeyVersion the write of that call has not been applied and never will be,
\* a move excepted.
THEOREM RefusalsAreFinal == Spec => []RefusalWroteNothing
<1>1. Init => TypeOK /\ RefusalInv
  BY InitTypes, RefusalInvInit
<1>2. TypeOK /\ RefusalInv /\ [Next]_vars => (TypeOK /\ RefusalInv)'
  BY TypeStep, RefusalInvStep
<1>3. RefusalInv => RefusalWroteNothing
  BY DEF RefusalInv, RefusalWroteNothing, Final, Refusing
<1> QED
  BY <1>1, <1>2, <1>3, PTL DEF Spec

\* A trashed item was removed by a call whose write was applied; what is erased
\* was removed by two.
EraseInv ==
    /\ \A r \in removals : r[2] \in applied
    /\ \A i \in Items : store[i].state = "trashed" => \E r \in removals : r[1] = i
    /\ ErasedDeliberately

\* The core of the argument: the DELETE that erases comes from another call
\* than the request that trashed the item.
LEMMA HandleKeepsErasures ==
    ASSUME TypeOK, EraseInv, NEW q \in Request, NEW status \in Statuses,
           NEW applies \in BOOLEAN, Handle(q, status, applies),
           Record(q, applies), Deliberate(q),
           q.op # "move_item" => q.by \notin applied
    PROVE  EraseInv'
<1>1. /\ q.item \in Items /\ q.by \in Calls /\ q.op \in Methods
      /\ store[q.item] \in ItemRecord
  BY DEF Request, TypeOK
<1>2. CASE ~applies
  <2>1. UNCHANGED <<store, removals, applied, destroyed>>
    BY <1>2 DEF Handle, Record
  <2> QED
    BY <2>1 DEF EraseInv, ErasedDeliberately
<1>3. CASE applies
  <2> DEFINE new == <<q.item, q.by, q.op>>
  <2>1. /\ applied' = applied \cup {q.by}
        /\ removals' = IF q.kind \in {"trash", "delete"}
                       THEN removals \cup {new} ELSE removals
        /\ destroyed' = IF q.kind \in {"trash", "delete"}
                           /\ RowAfter(q).state = "absent"
                        THEN destroyed \cup {q.item} ELSE destroyed
    BY <1>3 DEF Record
  <2>2. new[1] = q.item /\ new[2] = q.by /\ new[3] = q.op
    OBVIOUS
  <2> HIDE DEF new
  <2>3. \A r \in removals' : r[2] \in applied'
    BY <2>1, <2>2 DEF EraseInv
  <2>4. /\ q.kind \in Writes /\ Refusals(q) = {}
        /\ \A i \in Items : store'[i] = IF i = q.item THEN RowAfter(q) ELSE store[i]
    BY <1>1, <1>3 DEF Handle, TypeOK
  <2>5. store[q.item].state = "absent" => q.kind = "create"
    BY <2>4 DEF Refusals, Statuses, Writes, Stored
  <2>6. /\ RowAfter(q).state = "trashed" =>
              \/ store[q.item].state = "trashed"
              \/ q.kind \in {"trash", "delete"}
        /\ (q.kind \in {"trash", "delete"} /\ RowAfter(q).state = "absent") =>
              q.kind = "delete" /\ store[q.item].state = "trashed"
    BY <1>1, <2>5 DEF RowAfter, ItemRecord, NoRecord
  <2>7. \A i \in Items : store'[i].state = "trashed" =>
                            \E r \in removals' : r[1] = i
    BY <2>1, <2>2, <2>4, <2>6 DEF EraseInv
  <2>8. ErasedDeliberately'
    <3> SUFFICES ASSUME NEW i \in destroyed'
                 PROVE  \E r, s \in removals' :
                          r[1] = i /\ s[1] = i /\ r[2] # s[2]
                          /\ r[3] = "delete_item"
      BY DEF ErasedDeliberately
    <3>1. CASE i \in destroyed
      BY <2>1, <3>1 DEF EraseInv, ErasedDeliberately
    <3>2. CASE i \notin destroyed
      <4>1. i = q.item /\ q.kind = "delete" /\ store[q.item].state = "trashed"
        BY <2>1, <2>6, <3>2
      <4>2. q.op = "delete_item" /\ q.by \notin applied
        BY <4>1 DEF Deliberate
      <4>3. PICK s \in removals : s[1] = q.item
        BY <1>1, <4>1 DEF EraseInv
      <4>4. s[2] # q.by
        BY <4>2 DEF EraseInv
      <4> QED
        BY <2>1, <2>2, <4>1, <4>2, <4>3, <4>4
    <3> QED
      BY <3>1, <3>2
  <2> QED
    BY <2>3, <2>7, <2>8 DEF EraseInv
<1> QED
  BY <1>2, <1>3

\* Edits and rotations neither trash nor remove an item.
LEMMA OthersKeepStates ==
    ASSUME TypeOK, OthersAct
    PROVE  \A i \in Items : store'[i].state = store[i].state
<1>1. ASSUME NEW v \in Vaults, BeginRotation(v)
      PROVE  \A i \in Items : store'[i].state = store[i].state
  BY <1>1 DEF BeginRotation
<1>2. ASSUME NEW v \in Vaults, FinishRotation(v)
      PROVE  \A i \in Items : store'[i].state = store[i].state
  BY <1>2 DEF FinishRotation, TypeOK, ItemRecord
<1>3. ASSUME NEW j \in Items, NEW favorite \in BOOLEAN, NEW reprompt \in BOOLEAN,
             OtherEdit(j, favorite, reprompt)
      PROVE  \A i \in Items : store'[i].state = store[i].state
  <2>1. store[j] \in ItemRecord
    BY DEF TypeOK
  <2> QED
    BY <1>3, <2>1 DEF OtherEdit, TypeOK, ItemRecord
<1> QED
  BY <1>1, <1>2, <1>3 DEF OthersAct

\* EraseInv is inductive relative to the types and RefusalInv.
LEMMA EraseInvStep ==
    TypeOK /\ RefusalInv /\ EraseInv /\ [Next]_vars => EraseInv'
<1> SUFFICES ASSUME TypeOK, RefusalInv, EraseInv, [Next]_vars PROVE EraseInv'
  OBVIOUS
<1>1. ASSUME \A i \in Items : store'[i].state = store[i].state,
             UNCHANGED <<removals, applied, destroyed>>
      PROVE  EraseInv'
  BY <1>1 DEF EraseInv, ErasedDeliberately
<1>2. ASSUME NEW c \in Clients, HostBegins(c)
      PROVE  EraseInv'
  BY <1>1, <1>2, HostStepShape DEF Begin, svcVars
<1>3. ASSUME NEW c \in Clients, ClientResumes(c)
      PROVE  EraseInv'
  <2>1. UNCHANGED <<store, removals, applied, destroyed>>
    BY <1>3, CallEnds DEF UpdateRead, CopyRead, MoveCopied, svcVars, history
  <2> QED
    BY <1>1, <2>1
<1>4. ASSUME NEW status \in Statuses, NEW applies \in BOOLEAN, NEW c \in Clients,
             Serve(c, status, applies)
      PROVE  EraseInv'
  <2>1. PICK q \in Request : q = chan[c].req
    BY DEF TypeOK, Exchange
  <2>2. Handle(q, status, applies) /\ Record(q, applies)
    BY <1>4, <2>1 DEF Serve
  <2>3. Deliberate(q) /\ (q.op # "move_item" => q.by \notin applied)
    BY <1>4, <2>1 DEF Serve, RefusalInv, InProgress, Unapplied
  <2> QED
    BY <2>2, <2>3, HandleKeepsErasures
<1>5. ASSUME NEW status \in Statuses, NEW applies \in BOOLEAN, NEW q \in orphans,
             ServeOrphan(q, status, applies)
      PROVE  EraseInv'
  <2>1. q \in Request /\ Handle(q, status, applies) /\ Record(q, applies)
    BY <1>5 DEF ServeOrphan, TypeOK
  <2>2. Deliberate(q) /\ (q.op # "move_item" => q.by \notin applied)
    BY DEF RefusalInv, LateInv
  <2> QED
    BY <2>1, <2>2, HandleKeepsErasures
<1>6. CASE OthersAct
  BY <1>1, <1>6, OthersKeepStates DEF OthersAct, history
<1>7. CASE UNCHANGED vars
  BY <1>1, <1>7 DEF vars, svcVars, history
<1> QED
  BY <1>2, <1>3, <1>4, <1>5, <1>6, <1>7 DEF Next, ServiceServes

\* For any schedule, late DELETEs included: an item is erased only after two
\* different calls removed it, one of them a delete_item.
THEOREM ErasuresAreDeliberate == Spec => []ErasedDeliberately
<1>1. Init => TypeOK /\ RefusalInv /\ EraseInv
  <2>1. Init => EraseInv
    <3> SUFFICES ASSUME Init PROVE EraseInv
      OBVIOUS
    <3>1. \A i \in Items : store[i].state # "trashed"
      BY DEF Init, ServiceInit, NoRecord
    <3>2. removals = {} /\ destroyed = {}
      BY DEF Init
    <3> QED
      BY <3>1, <3>2 DEF EraseInv, ErasedDeliberately
  <2> QED
    BY <2>1, InitTypes, RefusalInvInit
<1>2. TypeOK /\ RefusalInv /\ EraseInv /\ [Next]_vars =>
            (TypeOK /\ RefusalInv /\ EraseInv)'
  BY TypeStep, RefusalInvStep, EraseInvStep
<1>3. EraseInv => ErasedDeliberately
  BY DEF EraseInv
<1> QED
  BY <1>1, <1>2, <1>3, PTL DEF Spec

-------------------------------------------------------------------------------
(* A move trashes what it has copied *)

\* The create of a move carries the copy's id and the content that was read; it
\* has been stored when the create was answered, and when the source goes.
MoveProgress(k, x, C) ==
    (x.phase # "idle" /\ k.op = "move_item") =>
        /\ x.req.kind = "create" =>
                x.req.item = k.copy /\ x.req.sealed.content = k.content
        /\ (x.req.kind = "create" /\ x.phase = "replied"
                /\ x.resp.status = 200) => <<k.copy, k.content>> \in C
        /\ x.req.kind = "trash" => <<k.copy, k.content>> \in C

MoveInv == \A c \in Clients : MoveProgress(call[c], chan[c], created)

\* MoveInv is inductive relative to the types and RefusalInv.
LEMMA MoveInvStep ==
    TypeOK /\ RefusalInv /\ MoveInv /\ [Next]_vars => MoveInv'
<1> SUFFICES ASSUME TypeOK, RefusalInv, MoveInv, [Next]_vars PROVE MoveInv'
  OBVIOUS
<1>1. ASSUME NEW c \in Clients, NEW k \in HostCall, NEW q \in Request,
             Send(c, k, q), created' = created,
             k.op = "move_item" =>
                \/ q.kind \notin {"create", "trash"}
                \/ /\ q.kind = "create" /\ q.item = k.copy
                   /\ q.sealed.content = k.content
                \/ q.kind = "trash" /\ <<k.copy, k.content>> \in created
      PROVE  MoveInv'
  <2>1. /\ call'[c] = k /\ chan'[c].req = q /\ chan'[c].phase = "sent"
        /\ \A d \in Clients \ {c} : call'[d] = call[d] /\ chan'[d] = chan[d]
    BY <1>1, SendEffect
  <2>2. MoveProgress(call'[c], chan'[c], created')
    BY <1>1, <2>1 DEF MoveProgress
  <2> QED
    BY <1>1, <2>1, <2>2 DEF MoveInv
<1>2. ASSUME NEW c \in Clients, HostBegins(c)
      PROVE  MoveInv'
  <2>1. PICK k \in HostCall : Begin(c, k)
    BY <1>2, HostStepShape
  <2>2. /\ k.op # "none" /\ Send(c, k, FirstRequest(c, k))
        /\ created' = created
    BY <2>1, HostAssumption DEF Begin, Methods
  <2> QED
    BY <1>1, <2>2, RequestTypes, BuiltRequestsMarked
<1>3. ASSUME NEW c \in Clients, ClientResumes(c)
      PROVE  MoveInv'
  <2>1. /\ call[c] \in HostCall /\ chan[c].resp.rec \in ItemRecord
        /\ chan[c].resp.rec.sealed.content \in Contents
    BY DEF TypeOK, Exchange, Response, ItemRecord, Sealed
  <2>2. CASE UpdateRead(c)
    <3>1. call[c].op = "update_item" /\ created' = created
      BY <2>2 DEF UpdateRead, history
    <3>2. Send(c, call[c], build_update_request(c, call[c], chan[c].resp.rec))
      BY <2>2 DEF UpdateRead
    <3> QED
      BY <1>1, <2>1, <3>1, <3>2, RequestTypes
  <2>3. CASE CopyRead(c)
    <3> DEFINE k == [call[c] EXCEPT !.content = chan[c].resp.rec.sealed.content]
               q == build_create_request(c, k, k.copy, FALSE)
    <3>1. k \in HostCall /\ k.op = call[c].op /\ k.copy \in Items
      BY <2>1 DEF HostCall
    <3>2. /\ call[c].op \in {"copy_item", "move_item"} /\ Send(c, k, q)
          /\ created' = created
      BY <2>3 DEF CopyRead, history
    <3> HIDE DEF k
    <3>3. /\ q \in Request /\ q.kind = "create" /\ q.item = k.copy
          /\ q.sealed.content = k.content
      BY <3>1, <3>2, RequestTypes, BuiltRequestsMarked, ZenonT(60)
    <3> HIDE DEF q
    <3> QED
      BY <1>1, <3>1, <3>2, <3>3
  <2>4. CASE MoveCopied(c)
    <3> DEFINE q == move_source_request(c, call[c])
    <3>1. /\ call[c].op = "move_item" /\ Send(c, call[c], q)
          /\ chan[c].phase = "replied" /\ chan[c].resp.status = 200
          /\ chan[c].req.kind = "create" /\ created' = created
      BY <2>4 DEF MoveCopied, Answered, history
    <3>2. <<call[c].copy, call[c].content>> \in created
      BY <3>1 DEF MoveInv, MoveProgress
    <3>3. q \in Request /\ q.kind = "trash"
      BY <2>1, <3>1, RequestTypes, BuiltRequestsMarked
    <3> HIDE DEF q
    <3> QED
      BY <1>1, <2>1, <3>1, <3>2, <3>3
  <2>5. ASSUME NEW outcome \in Outcomes, Finish(c, outcome),
               UNCHANGED history
        PROVE  MoveInv'
    <3>1. /\ call'[c] = NoCall
          /\ \A d \in Clients \ {c} : call'[d] = call[d] /\ chan'[d] = chan[d]
      BY <2>5, FinishEffect
    <3>2. MoveProgress(call'[c], chan'[c], created')
      BY <3>1 DEF MoveProgress, NoCall
    <3> QED
      BY <2>5, <3>1, <3>2 DEF MoveInv, history
  <2> QED
    BY <1>3, <2>2, <2>3, <2>4, <2>5, CallEnds
<1>4. ASSUME NEW status \in Statuses, NEW applies \in BOOLEAN, NEW c \in Clients,
             Serve(c, status, applies)
      PROVE  MoveInv'
  <2>1. PICK q \in Request : q = chan[c].req
    BY DEF TypeOK, Exchange
  <2>2. /\ Handle(q, status, applies) /\ Record(q, applies)
        /\ call' = call /\ chan[c].phase = "sent"
    BY <1>4, <2>1 DEF Serve
  <2>3. /\ chan'[c].phase = "replied" /\ chan'[c].req = q
        /\ chan'[c].resp.status = status
        /\ \A d \in Clients \ {c} : chan'[d] = chan[d]
    BY <1>4, <2>1 DEF Serve, TypeOK, Exchange, Reply
  <2>4. /\ created \subseteq created'
        /\ (status = 200 /\ q.kind = "create") =>
                <<q.item, q.sealed.content>> \in created'
    BY <2>2 DEF Handle, Record, Writes
  <2>5. MoveProgress(call[c], chan[c], created)
    BY DEF MoveInv
  <2>6. MoveProgress(call[c], chan'[c], created')
    BY <2>1, <2>2, <2>3, <2>4, <2>5 DEF MoveProgress
  <2>7. \A d \in Clients \ {c} : MoveProgress(call[d], chan'[d], created')
    BY <2>3, <2>4 DEF MoveInv, MoveProgress
  <2> QED
    BY <2>2, <2>6, <2>7 DEF MoveInv
<1>5. ASSUME created \subseteq created', UNCHANGED <<call, chan>>
      PROVE  MoveInv'
  BY <1>5 DEF MoveInv, MoveProgress
<1>6. ASSUME NEW status \in Statuses, NEW applies \in BOOLEAN, NEW q \in orphans,
             ServeOrphan(q, status, applies)
      PROVE  MoveInv'
  BY <1>5, <1>6 DEF ServeOrphan, Record
<1>7. CASE OthersAct
  BY <1>5, <1>7 DEF OthersAct, hostVars, history
<1>8. CASE UNCHANGED vars
  BY <1>5, <1>8 DEF vars, hostVars, history
<1> QED
  BY <1>2, <1>3, <1>4, <1>6, <1>7, <1>8 DEF Next, ServiceServes

\* For any schedule: when move_item removes its source, the service has stored
\* the copy with the content that was read.
THEOREM MovesRemoveOnlyCopied == Spec => []MoveRemovesOnlyCopied
<1>1. Init => TypeOK /\ RefusalInv /\ MoveInv
  <2>1. Init => MoveInv
    BY DEF Init, MoveInv, MoveProgress, NoExchange
  <2> QED
    BY <2>1, InitTypes, RefusalInvInit
<1>2. TypeOK /\ RefusalInv /\ MoveInv /\ [Next]_vars =>
            (TypeOK /\ RefusalInv /\ MoveInv)'
  BY TypeStep, RefusalInvStep, MoveInvStep
<1>3. RefusalInv /\ MoveInv => MoveRemovesOnlyCopied
  BY DEF RefusalInv, InProgress, Deliberate, MoveInv, MoveProgress,
         MoveRemovesOnlyCopied
<1> QED
  BY <1>1, <1>2, <1>3, PTL DEF Spec
===============================================================================
