---------------------------- MODULE SidecarProofs ----------------------------
(***************************************************************************)
(* Proofs about Sidecar: the types, the conservation of permits and the    *)
(* exactness of the queue, the freshness of nonces, and that answers and   *)
(* approvals belong to the request they are given to, for any number of    *)
(* callers, permits, deployments and items.                                *)
(***************************************************************************)
EXTENDS Sidecar, FiniteSetTheorems, SequenceTheorems, WellFoundedInduction, TLAPS

-----------------------------------------------------------------------------
(* Constants *)

\* The requests, exchanges and answers that stand for none are of their types.
LEMMA Placeholders ==
    /\ SomeRequest \in Request /\ SomeSigned \in Signed
    /\ SomePayload \in Payload /\ NoExchange \in Exchange
    /\ NoAnswer \in Answer
<1>1. PICK d \in Deployments, o \in Owners, i \in Items, f \in Fields : TRUE
  BY SidecarAssumption
<1>2. [deployment |-> d, owner |-> o, item |-> i, field |-> f,
       local |-> TRUE, token |-> TRUE, body |-> TRUE, uri |-> TRUE] \in Request
  BY <1>1 DEF Request
<1>3. SomeRequest \in Request
  BY <1>2, Zenon DEF SomeRequest
<1>4. (CHOOSE x \in Identities : TRUE) \in Identities
  BY SidecarAssumption
<1>5. SomeRequest.item \in Items /\ SomeRequest.field \in Fields
  BY <1>3 DEF Request
<1>6. SomeSigned \in Signed
  BY <1>4, <1>5 DEF SomeSigned, Signed
<1>7. SomePayload \in Payload
  BY <1>6 DEF SomePayload, Signed, Payload
<1>8. NoExchange \in Exchange
  BY <1>6, <1>7 DEF NoExchange, Exchange, Verdicts
<1>9. NoAnswer \in Answer
  BY <1>5 DEF NoAnswer, Answer, Statuses, Verdicts
<1> QED
  BY <1>3, <1>6, <1>7, <1>8, <1>9

\* A bounded set of natural numbers that is not empty has a largest member.
LEMMA Largest ==
  ASSUME NEW N \in Nat, NEW T, T \subseteq 1..N, T # {}
  PROVE  \E n \in T : \A m \in T : m <= n
<1> DEFINE U == {N - n : n \in T}
           R == OpToRel(<, Nat)
<1>1. U \subseteq Nat /\ U # {}
  <2>1. \A n \in T : N - n \in Nat
    OBVIOUS
  <2> QED
    BY <2>1
<1>2. IsWellFoundedOn(R, Nat)
  BY NatLessThanWellFounded
<1> HIDE DEF R
<1>3. PICK x \in U : \A y \in U : ~(<<y, x>> \in R)
  BY <1>1, <1>2, WFMin
<1>4. \A y \in U : ~(y < x)
  BY <1>1, <1>3, Zenon DEF R, OpToRel
<1>5. PICK n \in T : x = N - n
  BY <1>3
<1>6. ASSUME NEW m \in T PROVE m <= n
  <2>1. N - m \in U
    OBVIOUS
  <2> QED
    BY <2>1, <1>4, <1>5
<1> QED
  BY <1>5, <1>6

\* The map of load_deployments holds, for a configured id, one of its entries.
LEMMA ConfiguredDeployment ==
  ASSUME NEW d, Configured(d)
  PROVE  deployment(d) \in Config /\ deployment(d).deployment = d
<1> DEFINE T == {n \in 1..Len(Configs) : Configs[n].deployment = d}
<1>1. Len(Configs) \in Nat /\ T \subseteq 1..Len(Configs) /\ T # {}
  BY SidecarAssumption DEF Configured
<1>2. PICK n \in T : \A m \in T : m <= n
  BY <1>1, Largest
<1> DEFINE last == CHOOSE k \in 1..Len(Configs) :
                      /\ Configs[k].deployment = d
                      /\ \A m \in 1..Len(Configs) :
                            Configs[m].deployment = d => m <= k
<1>3. last \in 1..Len(Configs) /\ Configs[last].deployment = d
  BY <1>2
<1>4. deployment(d) = Configs[last]
  BY DEF deployment
<1> HIDE DEF last
<1> QED
  BY <1>3, <1>4, SidecarAssumption

-----------------------------------------------------------------------------
(* The steps of a handler *)

\* An answer that carries neither a plaintext nor an approval.
Plain(a) ==
    /\ a \in Answer
    /\ a.status # 200 /\ a.approval = 0 /\ a.verdict # "approval"

\* An error response is an answer with the given status and verdict.
LEMMA ErrorAnswers ==
  ASSUME NEW status \in Statuses, NEW v \in Verdicts
  PROVE  /\ err(status, v) \in Answer
         /\ err(status, v).status = status /\ err(status, v).verdict = v
         /\ err(status, v).approval = 0
BY Placeholders DEF err, NoAnswer, Answer

\* The answers of error responses are plain.
LEMMA ErrorsArePlain ==
  ASSUME NEW status \in Statuses, status # 200,
         NEW v \in Verdicts, v # "approval"
  PROVE  Plain(err(status, v))
BY ErrorAnswers DEF Plain

\* The guard answers plainly or lets a local request with the token queue.
LEMMA GuardSteps ==
  ASSUME TypeOK, NEW c \in Callers, guard(c)
  PROVE  /\ phase[c] = "arrived"
         /\ \/ \E a : Plain(a) /\ Respond(c, a)
            \/ req[c].local /\ req[c].token /\ Enqueue(c)
<1>1. req[c].local \in BOOLEAN /\ req[c].token \in BOOLEAN
  BY DEF TypeOK, Request
<1>2. CASE ~req[c].local
  <2>1. Respond(c, err(403, "none"))
    BY <1>1, <1>2 DEF guard
  <2> QED
    BY <2>1, ErrorsArePlain DEF guard, Statuses, Verdicts
<1>3. CASE req[c].local /\ ~req[c].token
  <2>1. Respond(c, err(401, "none"))
    BY <1>1, <1>3 DEF guard
  <2> QED
    BY <2>1, ErrorsArePlain DEF guard, Statuses, Verdicts
<1>4. CASE req[c].local /\ req[c].token
  BY <1>1, <1>4 DEF guard
<1> QED
  BY <1>1, <1>2, <1>3, <1>4

\* The handler answers plainly, or sends for a deployment bound to the owner.
LEMMA ResolveSteps ==
  ASSUME TypeOK, NEW c \in Callers, resolve(c)
  PROVE  /\ phase[c] = "reading"
         /\ \/ \E a : Plain(a) /\ Respond(c, a)
            \/ /\ Configured(req[c].deployment) /\ Bound(req[c])
               /\ Send(c, deployment(req[c].deployment).identity)
<1> DEFINE r == req[c]
           C == Configured(r.deployment)
           B == Bound(r)
<1>1. r.body \in BOOLEAN /\ r.uri \in BOOLEAN
  BY DEF TypeOK, Request
<1>2. /\ phase[c] = "reading"
      /\ CASE ~r.body -> Respond(c, err(400, "none"))
           [] r.body /\ ~C -> Respond(c, err(404, "none"))
           [] r.body /\ C /\ ~B -> Respond(c, err(403, "none"))
           [] r.body /\ C /\ B /\ ~r.uri -> Respond(c, err(400, "none"))
           [] OTHER -> Send(c, deployment(r.deployment).identity)
  BY Zenon DEF resolve
<1>3. C \in BOOLEAN /\ B \in BOOLEAN
  BY DEF Configured, Bound
<1> HIDE DEF C, B, r
<1>4. \/ Respond(c, err(400, "none")) \/ Respond(c, err(404, "none"))
      \/ Respond(c, err(403, "none"))
      \/ C /\ B /\ Send(c, deployment(r.deployment).identity)
  BY <1>1, <1>2, <1>3
<1>5. /\ Plain(err(400, "none")) /\ Plain(err(404, "none"))
      /\ Plain(err(403, "none"))
  BY ErrorsArePlain DEF Statuses, Verdicts
<1> QED
  BY <1>2, <1>4, <1>5, Zenon DEF C, B, r

\* A resolution that carries a plaintext.
Plaintext(c) ==
    [status |-> 200, item |-> wire[c].payload.item,
     field |-> wire[c].payload.field, from |-> wire[c].signed.identity,
     approval |-> 0, verdict |-> "ok"]

\* The service's answer is mapped to an approval, a plaintext or a plain answer.
LEMMA ResolvedSteps ==
  ASSUME TypeOK, NEW c \in Callers, Resolved(c)
  PROVE  /\ phase[c] = "upstream" /\ wire[c].verdict # "none"
         /\ \/ \E a : Plain(a) /\ Respond(c, a)
            \/ wire[c].verdict = "approval" /\ Respond(c, approval_err(c))
            \/ Opens(c) /\ Respond(c, Plaintext(c))
<1> DEFINE v == wire[c].verdict
           P == Opens(c) /\ extract_field(c)
<1>1. v \in Verdicts
  BY DEF TypeOK, Exchange
<1>2. /\ phase[c] = "upstream" /\ v # "none"
      /\ CASE v = "approval" -> Respond(c, approval_err(c))
           [] v \in {"replayed", "refused"} -> Respond(c, err(500, v))
           [] v = "ok" /\ ~P -> Respond(c, err(400, "ok"))
           [] v = "ok" /\ P -> Respond(c, Plaintext(c))
  BY ZenonT(60) DEF Resolved, Plaintext
<1>3. P \in BOOLEAN
  BY DEF Opens, extract_field
<1>4. P => Opens(c)
  OBVIOUS
<1> HIDE DEF v, P
<1>5. \/ v = "approval" /\ Respond(c, approval_err(c))
      \/ v \in {"replayed", "refused"} /\ Respond(c, err(500, v))
      \/ Respond(c, err(400, "ok"))
      \/ P /\ Respond(c, Plaintext(c))
  BY <1>1, <1>2, <1>3, ZenonT(60) DEF Verdicts
<1>6. Plain(err(400, "ok"))
  BY ErrorsArePlain DEF Statuses, Verdicts
<1>7. v \in {"replayed", "refused"} => Plain(err(500, v))
  BY ErrorsArePlain DEF Statuses, Verdicts
<1> QED
  BY <1>2, <1>4, <1>5, <1>6, <1>7, ZenonT(60) DEF v

-----------------------------------------------------------------------------
(* The inductive invariant *)

\* A request behind the guard is local and has the token.
Admitted ==
    \A c \in Callers :
        phase[c] \in {"queued"} \cup Working => req[c].local /\ req[c].token

Holders(ph) == {c \in Callers : ph[c] \in Working}

\* Every permit is free or held by a working request.
Balanced == permits + Cardinality(Holders(phase)) = MAX_CONCURRENT_RESOLVES

\* The request r may be resolved, and s was signed for it.
SignedFor(s, r) ==
    /\ Configured(r.deployment)
    /\ deployment(r.deployment).owner = r.owner
    /\ s.identity = deployment(r.deployment).identity
    /\ s.item = r.item /\ s.field = r.field

\* An upstream exchange is the request's own, and an approval in it was opened
\* for what it signed.
InFlight ==
    \A c \in Callers :
        phase[c] = "upstream" =>
            /\ SignedFor(wire[c].signed, req[c])
            /\ wire[c].verdict = "approval" =>
                  /\ wire[c].approval \in 1..Len(opened)
                  /\ opened[wire[c].approval] =
                        <<wire[c].signed.identity, wire[c].signed.item>>

\* What the answer a to the request r may say, when op are the approvals.
Reply(a, r, op) ==
    /\ a.status = 200 =>
        /\ r.local /\ r.token /\ Configured(r.deployment)
        /\ deployment(r.deployment).owner = r.owner
        /\ a.from = deployment(r.deployment).identity
        /\ a.item = r.item /\ a.field = r.field
    /\ a.verdict = "approval" => a.approval # 0
    /\ a.approval # 0 =>
        /\ a.status = 403
        /\ a.approval \in 1..Len(op)
        /\ op[a.approval] = <<deployment(r.deployment).identity, r.item>>

Replies == \A c \in Callers : Reply(answer[c], req[c], opened)

Pending(ph, w) == {c \in Callers : ph[c] = "upstream" /\ w[c].verdict = "none"}

\* Every nonce was drawn; one that may still arrive has not been seen, and no
\* two requests that may still arrive have the same.
DrawnOnce(P, w, l, used, n) ==
    /\ used \subseteq 1..n
    /\ \A c \in P :
        /\ w[c].signed.nonce \in 1..n
        /\ w[c].signed.nonce \notin used
        /\ \A d \in P : w[d].signed.nonce = w[c].signed.nonce => c = d
        /\ \A s \in l : s.nonce # w[c].signed.nonce
    /\ \A s \in l :
        /\ s.nonce \in 1..n /\ s.nonce \notin used
        /\ \A t \in l : s.nonce = t.nonce => s = t

NoncesDrawn == DrawnOnce(Pending(phase, wire), wire, late, consumed, nonces)

SidecarInv ==
    /\ TypeOK /\ QueueExact /\ Admitted /\ Balanced
    /\ InFlight /\ Replies /\ NoncesDrawn

-----------------------------------------------------------------------------
(* The moves of a request *)

\* a is the answer of a handler that comes to its end.
Answers(c, a) ==
    /\ phase[c] \in {"arrived"} \cup Working
    /\ phase[c] = "upstream" => wire[c].verdict # "none"
    /\ \/ Plain(a)
       \/ /\ phase[c] = "upstream"
          /\ \/ wire[c].verdict = "approval" /\ a = approval_err(c)
             \/ Opens(c) /\ a = Plaintext(c)

Move(c) ==
    \/ \E r \in Requests : Arrive(c, r)
    \/ \E a : Answers(c, a) /\ Respond(c, a)
    \/ phase[c] = "arrived" /\ req[c].local /\ req[c].token /\ Enqueue(c)
    \/ /\ phase[c] = "reading"
       /\ Configured(req[c].deployment) /\ Bound(req[c])
       /\ Send(c, deployment(req[c].deployment).identity)
    \/ Timeout(c)
    \/ Disconnect(c)
    \/ \E v \in Verdicts : \E p : Serve(c, v, p)

\* Every step is a move of one request, an admission, or one of the service.
LEMMA Moves ==
  ASSUME TypeOK, [Next]_vars
  PROVE  \/ \E c \in Callers : Move(c)
         \/ Admit
         \/ \E s \in late, v \in Verdicts : ServeLate(s, v)
         \/ \E n \in 1..Len(opened) : Approve(n) \/ Expire(n)
         \/ UNCHANGED vars
<1>1. ASSUME NEW c \in Callers, guard(c) PROVE Move(c)
  BY <1>1, GuardSteps, Zenon DEF Move, Answers, Working
<1>2. ASSUME NEW c \in Callers, resolve(c) PROVE Move(c)
  BY <1>2, ResolveSteps DEF Move, Answers, Working
<1>3. ASSUME NEW c \in Callers, Resolved(c) PROVE Move(c)
  BY <1>3, ResolvedSteps DEF Move, Answers, Working
<1>4. ASSUME NEW c \in Callers, Handler(c) PROVE Move(c)
  BY <1>1, <1>2, <1>3, <1>4, Zenon DEF Handler, Move
<1>5. ASSUME NEW c \in Callers, NEW r \in Requests, Arrive(c, r) PROVE Move(c)
  BY <1>5, Zenon DEF Move
<1>6. ASSUME NEW c \in Callers, Disconnect(c) PROVE Move(c)
  BY <1>6, Zenon DEF Move
<1>7. ASSUME NEW c \in Callers, NEW v \in Verdicts, NEW p, Serve(c, v, p)
      PROVE  Move(c)
  BY <1>7, Zenon DEF Move
<1> QED
  BY <1>4, <1>5, <1>6, <1>7, Zenon DEF Next, Service

\* What the service does to its own state.
LEMMA VerdictEffect ==
  ASSUME TypeOK, NEW s \in Signed, NEW v, Verdict(s, v)
  PROVE  /\ consumed' \in {consumed, consumed \cup {s.nonce}}
         /\ v = "approval" => opened' = Append(opened, <<s.identity, s.item>>)
         /\ v # "approval" => opened' = opened
         /\ active' = active
         /\ releases' \in SUBSET Payload
         /\ opened' \in Seq(Identities \X Items)
<1>1. s.nonce \in Nat /\ s.identity \in Identities /\ s.item \in Items
      /\ s.field \in Fields
  BY DEF Signed
<1>2. [item |-> s.item, field |-> s.field, to |-> s.identity] \in Payload
  BY <1>1 DEF Payload
<1>3. opened \in Seq(Identities \X Items) /\ releases \subseteq Payload
  BY DEF TypeOK
<1>4. Append(opened, <<s.identity, s.item>>) \in Seq(Identities \X Items)
  BY <1>1, <1>3
<1> QED
  BY <1>2, <1>3, <1>4 DEF Verdict, svcVars

\* An answer a handler gives is of the type of answers and one that it may give.
LEMMA AnswersAreReplies ==
  ASSUME SidecarInv, NEW c \in Callers, NEW a, Answers(c, a)
  PROVE  a \in Answer /\ Reply(a, req[c], opened)
<1>1. CASE Plain(a)
  BY <1>1 DEF Plain, Reply
<1>2. CASE /\ phase[c] = "upstream" /\ wire[c].verdict = "approval"
           /\ a = approval_err(c)
  <2>1. /\ wire[c].approval \in 1..Len(opened)
        /\ opened[wire[c].approval] =
              <<deployment(req[c].deployment).identity, req[c].item>>
    BY <1>2 DEF SidecarInv, InFlight, SignedFor
  <2>2. Len(opened) \in Nat
    BY DEF SidecarInv, TypeOK
  <2>3. /\ a \in Answer /\ a.status = 403 /\ a.verdict = "approval"
        /\ a.approval = wire[c].approval
    <3>1. /\ err(403, "approval") \in Answer
          /\ err(403, "approval").status = 403
          /\ err(403, "approval").verdict = "approval"
      BY ErrorAnswers DEF Statuses, Verdicts
    <3>2. wire[c].approval \in Nat
      BY <2>1, <2>2
    <3> HIDE DEF err
    <3> QED
      BY <1>2, <3>1, <3>2 DEF approval_err, Answer
  <2> QED
    BY <2>1, <2>2, <2>3 DEF Reply
<1>3. CASE phase[c] = "upstream" /\ Opens(c) /\ a = Plaintext(c)
  <2>1. wire[c] \in Exchange
    BY DEF SidecarInv, TypeOK
  <2>2. a \in Answer
    BY <1>3, <2>1 DEF Plaintext, Exchange, Payload, Signed, Answer, Statuses,
                      Verdicts
  <2>3. SignedFor(wire[c].signed, req[c]) /\ req[c].local /\ req[c].token
    BY <1>3 DEF SidecarInv, InFlight, Admitted, Working
  <2> QED
    BY <1>3, <2>2, <2>3 DEF Reply, Plaintext, Opens, SignedFor
<1> QED
  BY <1>1, <1>2, <1>3 DEF Answers

-----------------------------------------------------------------------------
(* The queue *)

\* A place taken out of a sequence: the ones behind it move up.
LEMMA PlaceRemoved ==
  ASSUME NEW S, NEW q \in Seq(S), NEW k \in 1..Len(q)
  PROVE  /\ RemoveAt(q, k) \in Seq(S)
         /\ Len(RemoveAt(q, k)) = Len(q) - 1
         /\ \A i \in 1..(Len(q) - 1) :
              RemoveAt(q, k)[i] = IF i < k THEN q[i] ELSE q[i + 1]
<1>1. Len(q) \in Nat /\ \A i \in 1..Len(q) : q[i] \in S
  OBVIOUS
<1> DEFINE head == SubSeq(q, 1, k - 1)
           tail == SubSeq(q, k + 1, Len(q))
<1>2. /\ head \in Seq(S) /\ Len(head) = k - 1
      /\ \A i \in 1..(k - 1) : head[i] = q[i]
  BY <1>1
<1>3. /\ tail \in Seq(S) /\ Len(tail) = Len(q) - k
      /\ \A i \in 1..(Len(q) - k) : tail[i] = q[k + i]
  BY <1>1
<1>4. RemoveAt(q, k) = head \o tail
  BY DEF RemoveAt
<1> HIDE DEF head, tail
<1>5. /\ head \o tail \in Seq(S) /\ Len(head \o tail) = Len(q) - 1
      /\ \A i \in 1..(k - 1) : (head \o tail)[i] = head[i]
      /\ \A i \in k..(Len(q) - 1) : (head \o tail)[i] = tail[i - (k - 1)]
  <2>1. /\ head \o tail \in Seq(S)
        /\ Len(head \o tail) = Len(head) + Len(tail)
        /\ \A i \in 1..(Len(head) + Len(tail)) :
              (head \o tail)[i] = IF i <= Len(head) THEN head[i]
                                  ELSE tail[i - Len(head)]
    BY <1>2, <1>3, ConcatProperties
  <2> QED
    BY <1>1, <1>2, <1>3, <2>1, SMTT(30)
<1>6. ASSUME NEW i \in 1..(Len(q) - 1)
      PROVE  (head \o tail)[i] = IF i < k THEN q[i] ELSE q[i + 1]
  <2>1. CASE i < k
    BY <1>1, <1>2, <1>5, <2>1
  <2>2. CASE ~(i < k)
    <3>1. i \in k..(Len(q) - 1) /\ i - (k - 1) \in 1..(Len(q) - k)
      BY <1>1, <2>2
    <3>2. k + (i - (k - 1)) = i + 1
      BY <3>1
    <3> QED
      BY <1>3, <1>5, <2>2, <3>1, <3>2
  <2> QED
    BY <2>1, <2>2
<1> QED
  BY <1>4, <1>5, <1>6

\* q holds the members of S, once each.
Lines(q, S) ==
    /\ q \in Seq(Callers)
    /\ {q[n] : n \in 1..Len(q)} = S
    /\ \A m, n \in 1..Len(q) : q[m] = q[n] => m = n

Queued(ph) == {c \in Callers : ph[c] = "queued"}

\* The queue of a caller that is dropped holds the other waiting callers.
LEMMA LeftQueue ==
  ASSUME TypeOK, QueueExact, NEW c \in Callers
  PROVE  Lines(Left(c), Queued(phase) \ {c})
<1>1. queue \in Seq(Callers) /\ Len(queue) \in Nat
  BY DEF TypeOK
<1>2. CASE phase[c] # "queued"
  BY <1>1, <1>2 DEF Left, Lines, Queued, QueueExact
<1>3. CASE phase[c] = "queued"
  <2> DEFINE k == CHOOSE n \in 1..Len(queue) : queue[n] = c
             q == RemoveAt(queue, k)
  <2>1. \E n \in 1..Len(queue) : queue[n] = c
    BY <1>3 DEF QueueExact
  <2>2. k \in 1..Len(queue) /\ queue[k] = c
    BY <2>1
  <2>3. Left(c) = q
    BY <1>3 DEF Left
  <2> HIDE DEF k
  <2>4. /\ q \in Seq(Callers) /\ Len(q) = Len(queue) - 1
        /\ \A i \in 1..(Len(queue) - 1) :
              q[i] = IF i < k THEN queue[i] ELSE queue[i + 1]
    BY <1>1, <2>2, PlaceRemoved
  <2> HIDE DEF q
  <2>5. \A m, n \in 1..Len(queue) : queue[m] = queue[n] => m = n
    BY DEF QueueExact
  <2>6. \A m, n \in 1..Len(q) : q[m] = q[n] => m = n
    BY <1>1, <2>2, <2>4, <2>5
  <2>7. ASSUME NEW n \in 1..Len(q) PROVE q[n] \in Queued(phase) \ {c}
    <3>1. PICK m \in 1..Len(queue) : m # k /\ q[n] = queue[m]
      <4>1. CASE n < k
        BY <1>1, <2>2, <2>4, <4>1
      <4>2. CASE ~(n < k)
        BY <1>1, <2>2, <2>4, <4>2
      <4> QED
        BY <4>1, <4>2
    <3>2. queue[m] # c
      BY <2>2, <2>5, <3>1
    <3> QED
      BY <3>1, <3>2 DEF QueueExact, Queued
  <2>8. ASSUME NEW d \in Queued(phase) \ {c} PROVE d \in {q[n] : n \in 1..Len(q)}
    <3>1. PICK m \in 1..Len(queue) : queue[m] = d
      BY DEF QueueExact, Queued
    <3>2. m # k
      BY <2>2, <3>1
    <3>3. CASE m < k
      BY <1>1, <2>2, <2>4, <3>1, <3>3
    <3>4. CASE ~(m < k)
      <4>1. m - 1 \in 1..Len(q) /\ ~(m - 1 < k)
        BY <1>1, <2>2, <2>4, <3>2, <3>4
      <4> QED
        BY <1>1, <2>4, <3>1, <4>1
    <3> QED
      BY <3>3, <3>4
  <2>9. {q[n] : n \in 1..Len(q)} = Queued(phase) \ {c}
    BY <2>7, <2>8
  <2> QED
    BY <2>3, <2>4, <2>6, <2>9, ZenonT(60) DEF Lines
<1> QED
  BY <1>2, <1>3

-----------------------------------------------------------------------------
(* Types *)

\* A move of a request keeps the types.
LEMMA MovesKeepTypes ==
  ASSUME SidecarInv, NEW c \in Callers, Move(c)
  PROVE  TypeOK'
<1> USE DEF SidecarInv
<1>1. ASSUME NEW r \in Requests, Arrive(c, r) PROVE TypeOK'
  BY <1>1, SidecarAssumption, Placeholders DEF Arrive, TypeOK, svcVars
<1>2. ASSUME NEW a, Answers(c, a), Respond(c, a) PROVE TypeOK'
  <2>1. a \in Answer
    BY <1>2, AnswersAreReplies
  <2> QED
    BY <1>2, <2>1, Placeholders DEF Respond, TypeOK, svcVars
<1>3. CASE Enqueue(c)
  BY <1>3 DEF Enqueue, TypeOK, svcVars
<1>4. ASSUME Configured(req[c].deployment),
             Send(c, deployment(req[c].deployment).identity)
      PROVE  TypeOK'
  <2> DEFINE signed == [identity |-> deployment(req[c].deployment).identity,
                        item |-> req[c].item, field |-> req[c].field,
                        nonce |-> Nonce]
  <2>1. deployment(req[c].deployment).identity \in Identities
    BY <1>4, ConfiguredDeployment DEF Config
  <2>2. req[c].item \in Items /\ req[c].field \in Fields /\ Nonce \in Nat
    BY DEF TypeOK, Request, Nonce
  <2>3. signed \in Signed
    BY <2>1, <2>2 DEF Signed
  <2>4. wire' = [wire EXCEPT ![c] = [NoExchange EXCEPT !.signed = signed]]
    BY <1>4 DEF Send
  <2> HIDE DEF signed
  <2>5. [NoExchange EXCEPT !.signed = signed] \in Exchange
    BY <2>3, Placeholders DEF NoExchange, Exchange
  <2>6. wire' \in [Callers -> Exchange]
    BY <2>4, <2>5 DEF TypeOK
  <2>7. /\ nonces' = nonces + 1 /\ phase' = [phase EXCEPT ![c] = "upstream"]
        /\ UNCHANGED <<req, queue, permits, late, answer, arrivals, svcVars>>
    BY <1>4 DEF Send
  <2> QED
    BY <2>6, <2>7 DEF TypeOK, svcVars, Working
<1>5. CASE Timeout(c)
  <2>1. PICK status \in PartialStatuses(wire[c].verdict) :
          answer' = [answer EXCEPT ![c] = err(status, "none")]
    BY <1>5 DEF Timeout
  <2>2. wire[c].signed \in Signed
    BY DEF TypeOK, Exchange
  <2>3. status \in Statuses
    BY <2>1 DEF PartialStatuses, Statuses
  <2>4. err(status, "none") \in Answer
    BY <2>3, ErrorAnswers DEF Verdicts
  <2> QED
    BY <1>5, <2>1, <2>2, <2>4, Placeholders
       DEF Timeout, TypeOK, svcVars, Abandoned
<1>6. CASE Disconnect(c)
  <2>1. wire[c].signed \in Signed
    BY DEF TypeOK, Exchange
  <2>2. Left(c) \in Seq(Callers)
    BY LeftQueue DEF Lines
  <2> QED
    BY <1>6, <2>1, <2>2, Placeholders DEF Disconnect, TypeOK, svcVars, Abandoned
<1>7. ASSUME NEW v \in Verdicts, NEW p, Serve(c, v, p) PROVE TypeOK'
  <2>1. wire[c] \in Exchange /\ wire[c].signed \in Signed
        /\ wire[c].signed.nonce \in Nat
    BY DEF TypeOK, Exchange, Signed
  <2>2. /\ consumed' \in {consumed, consumed \cup {wire[c].signed.nonce}}
        /\ active' = active /\ releases' \in SUBSET Payload
        /\ opened' \in Seq(Identities \X Items)
    BY <1>7, <2>1, VerdictEffect DEF Serve
  <2>3. p \in Payload
    BY <1>7, <2>2, Placeholders DEF Serve
  <2> DEFINE n == IF v = "approval" THEN Len(opened') ELSE 0
  <2>4. n \in Nat
    BY <2>2
  <2>5. wire' = [wire EXCEPT ![c].verdict = v, ![c].payload = p,
                             ![c].approval = n]
    BY <1>7 DEF Serve
  <2> HIDE DEF n
  <2>6. wire' \in [Callers -> Exchange]
    BY <2>1, <2>3, <2>4, <2>5 DEF TypeOK, Exchange
  <2> QED
    BY <1>7, <2>1, <2>2, <2>6 DEF Serve, TypeOK
<1> QED
  BY <1>1, <1>2, <1>3, <1>4, <1>5, <1>6, <1>7, Zenon DEF Move

\* Every step keeps the types.
LEMMA TypesKept ==
  ASSUME SidecarInv, [Next]_vars
  PROVE  TypeOK'
<1>0. TypeOK
  BY DEF SidecarInv
<1>1. CASE Admit
  <2>1. Head(queue) \in Callers /\ Tail(queue) \in Seq(Callers)
    BY <1>0, <1>1 DEF Admit, TypeOK
  <2> QED
    BY <1>0, <1>1, <2>1 DEF Admit, TypeOK, svcVars, Working
<1>2. ASSUME NEW s \in late, NEW v \in Verdicts, ServeLate(s, v) PROVE TypeOK'
  <2>1. s \in Signed /\ s.nonce \in Nat
    BY <1>0 DEF TypeOK, Signed
  <2>2. /\ consumed' \in {consumed, consumed \cup {s.nonce}}
        /\ active' = active /\ releases' \in SUBSET Payload
        /\ opened' \in Seq(Identities \X Items)
    BY <1>0, <1>2, <2>1, VerdictEffect DEF ServeLate
  <2> QED
    BY <1>0, <1>2, <2>1, <2>2 DEF ServeLate, TypeOK
<1>3. ASSUME NEW n \in 1..Len(opened), Approve(n) \/ Expire(n) PROVE TypeOK'
  <2>1. n \in Nat
    BY <1>0 DEF TypeOK
  <2>2. active' \subseteq Nat
    BY <1>0, <1>3, <2>1 DEF Approve, Expire, TypeOK
  <2> QED
    BY <1>0, <1>3, <2>2 DEF Approve, Expire, TypeOK, sidecarVars
<1>4. CASE UNCHANGED vars
  BY <1>0, <1>4 DEF TypeOK, vars, sidecarVars, svcVars
<1>5. ASSUME NEW c \in Callers, Move(c) PROVE TypeOK'
  BY <1>5, MovesKeepTypes
<1>6. \/ \E c \in Callers : Move(c)
      \/ Admit
      \/ \E s \in late, v \in Verdicts : ServeLate(s, v)
      \/ \E n \in 1..Len(opened) : Approve(n) \/ Expire(n)
      \/ UNCHANGED vars
  BY <1>0, Moves
<1> QED
  BY <1>1, <1>2, <1>3, <1>4, <1>5, <1>6, Zenon

-----------------------------------------------------------------------------
(* The other parts of the invariant, step by step *)

Others == QueueExact /\ Admitted /\ Balanced /\ InFlight /\ Replies /\ NoncesDrawn

\* The number of permits that are held, when the phase of one caller changes.
LEMMA HoldersCount ==
  ASSUME NEW ph, DOMAIN ph = Callers, NEW c \in Callers, NEW x
  PROVE  LET old == Cardinality(Holders(ph))
             new == Cardinality(Holders([ph EXCEPT ![c] = x]))
         IN  /\ old \in Nat /\ new \in Nat
             /\ x \in Working /\ ph[c] \notin Working => new = old + 1
             /\ x \notin Working /\ ph[c] \in Working => new = old - 1
             /\ (x \in Working <=> ph[c] \in Working) => new = old
<1> DEFINE H == Holders(ph)
           G == Holders([ph EXCEPT ![c] = x])
<1>1. IsFiniteSet(H) /\ IsFiniteSet(G)
  BY SidecarAssumption, FS_Subset DEF Holders
<1>2. Cardinality(H) \in Nat /\ Cardinality(G) \in Nat
  BY <1>1, FS_CardinalityType
<1>3. ASSUME x \in Working, ph[c] \notin Working
      PROVE  Cardinality(G) = Cardinality(H) + 1
  <2>1. G = H \cup {c} /\ c \notin H
    BY <1>3 DEF Holders
  <2> QED
    BY <1>1, <2>1, FS_AddElement
<1>4. ASSUME x \notin Working, ph[c] \in Working
      PROVE  Cardinality(G) = Cardinality(H) - 1
  <2>1. G = H \ {c} /\ c \in H
    BY <1>4 DEF Holders
  <2> QED
    BY <1>1, <2>1, FS_RemoveElement
<1>5. ASSUME x \in Working <=> ph[c] \in Working
      PROVE  G = H
  BY <1>5 DEF Holders
<1> QED
  BY <1>2, <1>3, <1>4, <1>5

\* The permits balance when a working request gives its permit back, when one
\* takes a permit to work, and when no request starts or stops working.
LEMMA BalanceKept ==
  ASSUME TypeOK, Balanced, NEW c \in Callers, NEW x,
         phase' = [phase EXCEPT ![c] = x],
         \/ (x \in Working <=> phase[c] \in Working) /\ permits' = permits
         \/ x \notin Working /\ phase[c] \in Working /\ permits' = permits + 1
         \/ x \in Working /\ phase[c] \notin Working /\ permits' = permits - 1
  PROVE  Balanced'
<1>1. DOMAIN phase = Callers /\ permits \in Nat
  BY DEF TypeOK
<1> DEFINE old == Cardinality(Holders(phase))
           new == Cardinality(Holders([phase EXCEPT ![c] = x]))
<1>2. /\ old \in Nat /\ new \in Nat
      /\ x \in Working /\ phase[c] \notin Working => new = old + 1
      /\ x \notin Working /\ phase[c] \in Working => new = old - 1
      /\ (x \in Working <=> phase[c] \in Working) => new = old
  BY <1>1, HoldersCount
<1>3. permits + old = MAX_CONCURRENT_RESOLVES
  BY DEF Balanced
<1> HIDE DEF old, new
<1>4. permits' + new = MAX_CONCURRENT_RESOLVES
  BY <1>1, <1>2, <1>3
<1> QED
  BY <1>4 DEF Balanced, new

\* The queue stays exact when no request starts or stops waiting.
LEMMA QueueUntouched ==
  ASSUME TypeOK, QueueExact, NEW c \in Callers, phase[c] # "queued",
         NEW x, x # "queued", phase' = [phase EXCEPT ![c] = x], queue' = queue
  PROVE  QueueExact'
<1>1. \A d \in Callers : phase'[d] = "queued" <=> phase[d] = "queued"
  BY DEF TypeOK
<1> QED
  BY <1>1 DEF QueueExact

\* Nonces stay drawn once when requests end, with their answers or without.
LEMMA NoncesWhenAnswered ==
  ASSUME NEW P, NEW w, NEW l, NEW used, NEW n,
         DrawnOnce(P, w, l, used, n),
         NEW Q \in SUBSET P, NEW x, \A c \in Q : x[c].signed = w[c].signed
  PROVE  DrawnOnce(Q, x, l, used, n)
BY DEF DrawnOnce

\* A pending request whose handler is gone may still arrive.
LEMMA NoncesWhenAbandoned ==
  ASSUME NEW P, NEW w, NEW l, NEW used, NEW n,
         DrawnOnce(P, w, l, used, n), NEW c \in P,
         NEW x, \A d \in P \ {c} : x[d].signed = w[d].signed
  PROVE  DrawnOnce(P \ {c}, x, l \cup {w[c].signed}, used, n)
BY DEF DrawnOnce

\* A request is signed with the next nonce.
LEMMA NoncesWhenSent ==
  ASSUME NEW P, NEW w, NEW l, NEW used, NEW n \in Nat,
         DrawnOnce(P, w, l, used, n), NEW c, c \notin P,
         NEW x, x[c].signed.nonce = n + 1,
         \A d \in P : x[d].signed = w[d].signed
  PROVE  DrawnOnce(P \cup {c}, x, l, used, n + 1)
<1>1. 1..n \subseteq 1..(n + 1) /\ n + 1 \in 1..(n + 1) /\ n + 1 \notin 1..n
  OBVIOUS
<1> QED
  BY <1>1 DEF DrawnOnce

\* A request that arrives.
LEMMA ArriveKeeps ==
  ASSUME SidecarInv, NEW c \in Callers, NEW r \in Requests, Arrive(c, r)
  PROVE  Others'
<1> USE DEF SidecarInv
<1>1. QueueExact'
  BY QueueUntouched DEF Arrive
<1>2. Admitted'
  BY DEF Arrive, TypeOK, Admitted, Working
<1>3. Balanced'
  BY BalanceKept DEF Arrive, Working
<1>4. InFlight'
  BY DEF Arrive, TypeOK, InFlight, svcVars
<1>5. Replies'
  BY DEF Arrive, TypeOK, Replies, Reply, NoAnswer, svcVars
<1>6. Pending(phase, wire)' = Pending(phase, wire)
  BY DEF Arrive, TypeOK, Pending
<1>7. NoncesDrawn'
  BY <1>6 DEF Arrive, NoncesDrawn, svcVars
<1> QED
  BY <1>1, <1>2, <1>3, <1>4, <1>5, <1>7 DEF Others

\* An answer.
LEMMA RespondKeeps ==
  ASSUME SidecarInv, NEW c \in Callers, NEW a, Answers(c, a), Respond(c, a)
  PROVE  Others'
<1> USE DEF SidecarInv
<1>0. phase[c] \in {"arrived"} \cup Working
  BY DEF Answers
<1>1. QueueExact'
  BY <1>0, QueueUntouched DEF Respond, Working
<1>2. Admitted'
  BY DEF Respond, TypeOK, Admitted, Working
<1>3. Balanced'
  BY BalanceKept DEF Respond, Working
<1>4. InFlight'
  BY DEF Respond, TypeOK, InFlight, svcVars
<1>5. Reply(a, req[c], opened)
  BY AnswersAreReplies
<1>6. Replies'
  BY <1>5 DEF Respond, TypeOK, Replies, svcVars
<1>7. Pending(phase, wire)' = Pending(phase, wire)
  BY DEF Respond, TypeOK, Pending, Answers
<1>8. \A d \in Pending(phase, wire) : wire'[d].signed = wire[d].signed
  BY DEF Respond, TypeOK, Pending, Answers
<1>9. DrawnOnce(Pending(phase, wire), wire', late, consumed, nonces)
  BY <1>8, NoncesWhenAnswered DEF NoncesDrawn
<1>10. NoncesDrawn'
  BY <1>7, <1>9 DEF Respond, NoncesDrawn, svcVars
<1> QED
  BY <1>1, <1>2, <1>3, <1>4, <1>6, <1>10 DEF Others

\* A request that the guard lets pass.
LEMMA EnqueueKeeps ==
  ASSUME SidecarInv, NEW c \in Callers, phase[c] = "arrived",
         req[c].local, req[c].token, Enqueue(c)
  PROVE  Others'
<1> USE DEF SidecarInv
<1>1. QueueExact'
  <2>1. /\ queue \in Seq(Callers) /\ Len(queue) \in Nat
        /\ \A n \in 1..Len(queue) : queue[n] # c
    BY DEF TypeOK, QueueExact
  <2>2. /\ Len(queue') = Len(queue) + 1 /\ queue'[Len(queue) + 1] = c
        /\ \A n \in 1..Len(queue) : queue'[n] = queue[n]
    BY <2>1, AppendProperties DEF Enqueue
  <2>3. 1..Len(queue') = 1..Len(queue) \cup {Len(queue) + 1}
    BY <2>1, <2>2
  <2>4. \A m, n \in 1..Len(queue') : queue'[m] = queue'[n] => m = n
    BY <2>1, <2>2, <2>3 DEF QueueExact
  <2>5. {queue'[n] : n \in 1..Len(queue')} = {queue[n] : n \in 1..Len(queue)} \cup {c}
    BY <2>2, <2>3
  <2>6. {d \in Callers : phase'[d] = "queued"}
          = {d \in Callers : phase[d] = "queued"} \cup {c}
    BY DEF Enqueue, TypeOK
  <2> QED
    BY <2>4, <2>5, <2>6 DEF QueueExact
<1>2. Admitted'
  BY DEF Enqueue, TypeOK, Admitted, Working
<1>3. Balanced'
  BY BalanceKept DEF Enqueue, Working
<1>4. InFlight'
  BY DEF Enqueue, TypeOK, InFlight, svcVars
<1>5. Replies'
  BY DEF Enqueue, TypeOK, Replies, svcVars
<1>6. Pending(phase, wire)' = Pending(phase, wire)
  BY DEF Enqueue, TypeOK, Pending
<1>7. NoncesDrawn'
  BY <1>6 DEF Enqueue, NoncesDrawn, svcVars
<1> QED
  BY <1>1, <1>2, <1>3, <1>4, <1>5, <1>7 DEF Others

\* The first waiter gets a permit.
LEMMA AdmitKeeps ==
  ASSUME SidecarInv, Admit
  PROVE  Others'
<1> USE DEF SidecarInv
<1> DEFINE c == Head(queue)
<1>1. /\ queue \in Seq(Callers) /\ Len(queue) \in Nat \ {0}
      /\ c = queue[1] /\ c \in Callers
  BY DEF Admit, TypeOK
<1>2. phase[c] = "queued"
  BY <1>1 DEF QueueExact
<1>3. /\ phase' = [phase EXCEPT ![c] = "reading"]
      /\ permits' = permits - 1 /\ queue' = Tail(queue)
      /\ UNCHANGED <<req, wire, late, answer, arrivals, nonces, svcVars>>
  BY DEF Admit
<1>4. /\ queue' \in Seq(Callers) /\ Len(queue') = Len(queue) - 1
      /\ \A n \in 1..(Len(queue) - 1) : queue'[n] = queue[n + 1]
  BY <1>1, <1>3, HeadTailProperties
<1> HIDE DEF c
<1>5. QueueExact'
  <2>1. \A m, n \in 1..Len(queue) : queue[m] = queue[n] => m = n
    BY DEF QueueExact
  <2>2. \A m, n \in 1..Len(queue') : queue'[m] = queue'[n] => m = n
    BY <1>1, <1>4, <2>1
  <2>3. ASSUME NEW n \in 1..Len(queue')
        PROVE  queue'[n] \in {d \in Callers : phase'[d] = "queued"}
    <3>1. queue'[n] = queue[n + 1] /\ n + 1 \in 1..Len(queue) /\ n + 1 # 1
      BY <1>1, <1>4
    <3>2. queue[n + 1] # c
      BY <1>1, <2>1, <3>1
    <3>3. queue[n + 1] \in {d \in Callers : phase[d] = "queued"}
      BY <3>1 DEF QueueExact
    <3> QED
      BY <1>3, <3>1, <3>2, <3>3 DEF TypeOK
  <2>4. ASSUME NEW d \in Callers, phase'[d] = "queued"
        PROVE  d \in {queue'[n] : n \in 1..Len(queue')}
    <3>1. d # c /\ phase[d] = "queued"
      BY <1>1, <1>3, <2>4 DEF TypeOK
    <3>2. PICK m \in 1..Len(queue) : queue[m] = d
      BY <3>1 DEF QueueExact
    <3>3. m # 1
      BY <1>1, <3>1, <3>2
    <3>4. m - 1 \in 1..Len(queue')
      BY <1>1, <1>4, <3>2, <3>3
    <3>5. queue'[m - 1] = d
      BY <1>1, <1>4, <3>2, <3>4
    <3> QED
      BY <3>4, <3>5
  <2>5. {queue'[n] : n \in 1..Len(queue')} = {d \in Callers : phase'[d] = "queued"}
    BY <2>3, <2>4
  <2> QED
    BY <2>2, <2>5 DEF QueueExact
<1>6. Admitted'
  BY <1>1, <1>2, <1>3 DEF TypeOK, Admitted, Working
<1>7. Balanced'
  BY <1>1, <1>2, <1>3, BalanceKept DEF Working
<1>8. InFlight'
  BY <1>1, <1>3 DEF TypeOK, InFlight, svcVars
<1>9. Replies'
  BY <1>3 DEF Replies, svcVars
<1>10. Pending(phase, wire)' = Pending(phase, wire)
  BY <1>1, <1>2, <1>3 DEF TypeOK, Pending
<1>11. NoncesDrawn'
  BY <1>3, <1>10 DEF NoncesDrawn, svcVars
<1> QED
  BY <1>5, <1>6, <1>7, <1>8, <1>9, <1>11 DEF Others

\* A request is signed and sent.
LEMMA SendKeeps ==
  ASSUME SidecarInv, NEW c \in Callers, phase[c] = "reading",
         Configured(req[c].deployment), Bound(req[c]),
         Send(c, deployment(req[c].deployment).identity)
  PROVE  Others'
<1> USE DEF SidecarInv
<1> DEFINE signed == [identity |-> deployment(req[c].deployment).identity,
                      item |-> req[c].item, field |-> req[c].field,
                      nonce |-> nonces + 1]
           sent == [NoExchange EXCEPT !.signed = signed]
<1>1. /\ nonces' = nonces + 1
      /\ wire' = [wire EXCEPT ![c] = sent]
      /\ phase' = [phase EXCEPT ![c] = "upstream"]
      /\ UNCHANGED <<req, queue, permits, late, answer, arrivals, svcVars>>
  BY DEF Send, Nonce
<1>2. sent.signed = signed /\ sent.verdict = "none"
  BY DEF NoExchange
<1>3. SignedFor(signed, req[c]) /\ signed.nonce = nonces + 1
  BY DEF SignedFor, Bound
<1> HIDE DEF signed, sent
<1>4. QueueExact'
  BY <1>1, QueueUntouched
<1>5. Admitted'
  BY <1>1 DEF TypeOK, Admitted, Working
<1>6. Balanced'
  BY <1>1, BalanceKept DEF Working
<1>7. InFlight'
  BY <1>1, <1>2, <1>3 DEF TypeOK, InFlight, svcVars
<1>8. Replies'
  BY <1>1 DEF Replies, svcVars
<1>9. /\ Pending(phase, wire)' = Pending(phase, wire) \cup {c}
      /\ c \notin Pending(phase, wire)
  BY <1>1, <1>2 DEF TypeOK, Pending
<1>10. /\ wire'[c].signed.nonce = nonces + 1
       /\ \A d \in Pending(phase, wire) : wire'[d].signed = wire[d].signed
  BY <1>1, <1>2, <1>3, <1>9 DEF TypeOK, Pending
<1>11. nonces \in Nat
  BY DEF TypeOK
<1>12. DrawnOnce(Pending(phase, wire) \cup {c}, wire', late, consumed, nonces + 1)
  BY <1>9, <1>10, <1>11, NoncesWhenSent DEF NoncesDrawn
<1>13. NoncesDrawn'
  BY <1>1, <1>9, <1>12 DEF NoncesDrawn, svcVars
<1> QED
  BY <1>4, <1>5, <1>6, <1>7, <1>8, <1>13 DEF Others

\* A handler that ends without an answer of the service, by its deadline or
\* with its connection: what it sent may still arrive.
LEMMA AbandonedNonces ==
  ASSUME SidecarInv, NEW c \in Callers,
         phase' = [phase EXCEPT ![c] = "idle"],
         wire' = [wire EXCEPT ![c] = NoExchange],
         late' = Abandoned(c), UNCHANGED <<nonces, consumed>>
  PROVE  NoncesDrawn'
<1> USE DEF SidecarInv
<1> DEFINE P == Pending(phase, wire)
<1>1. /\ Pending(phase, wire)' = P \ {c}
      /\ \A d \in P \ {c} : wire'[d].signed = wire[d].signed
  BY DEF TypeOK, Pending
<1>2. DrawnOnce(P, wire, late, consumed, nonces)
  BY DEF NoncesDrawn
<1> HIDE DEF P
<1>3. CASE c \in P
  <2>1. late' = late \cup {wire[c].signed}
    BY <1>3 DEF Abandoned, Pending, P
  <2>2. DrawnOnce(P \ {c}, wire', late \cup {wire[c].signed}, consumed, nonces)
    BY <1>1, <1>2, <1>3, NoncesWhenAbandoned
  <2> QED
    BY <1>1, <2>1, <2>2 DEF NoncesDrawn
<1>4. CASE c \notin P
  <2>1. late' = late
    BY <1>4 DEF Abandoned, Pending, P
  <2>2. DrawnOnce(P \ {c}, wire', late, consumed, nonces)
    BY <1>1, <1>2 DEF DrawnOnce
  <2> QED
    BY <1>1, <2>1, <2>2 DEF NoncesDrawn
<1> QED
  BY <1>3, <1>4

\* The deadline of an upstream request.
LEMMA TimeoutKeeps ==
  ASSUME SidecarInv, NEW c \in Callers, Timeout(c)
  PROVE  Others'
<1> USE DEF SidecarInv
<1>1. PICK status \in PartialStatuses(wire[c].verdict) :
        answer' = [answer EXCEPT ![c] = err(status, "none")]
  BY DEF Timeout
<1>2. Reply(err(status, "none"), req[c], opened)
  <2>1. status \in Statuses /\ status # 200
    BY <1>1 DEF PartialStatuses, Statuses
  <2> QED
    BY <2>1, ErrorAnswers DEF Reply, Verdicts
<1>3. QueueExact'
  BY QueueUntouched DEF Timeout
<1>4. Admitted'
  BY DEF Timeout, TypeOK, Admitted, Working
<1>5. Balanced'
  BY BalanceKept DEF Timeout, Working
<1>6. InFlight'
  BY DEF Timeout, TypeOK, InFlight, svcVars
<1>7. Replies'
  BY <1>1, <1>2 DEF Timeout, TypeOK, Replies, svcVars
<1>8. NoncesDrawn'
  BY AbandonedNonces DEF Timeout, svcVars
<1> QED
  BY <1>3, <1>4, <1>5, <1>6, <1>7, <1>8 DEF Others

\* A connection that closes.
LEMMA DisconnectKeeps ==
  ASSUME SidecarInv, NEW c \in Callers, Disconnect(c)
  PROVE  Others'
<1> USE DEF SidecarInv
<1>1. QueueExact'
  <2>1. Lines(Left(c), Queued(phase) \ {c})
    BY LeftQueue
  <2>2. Queued(phase') = Queued(phase) \ {c} /\ queue' = Left(c)
    BY DEF Disconnect, TypeOK, Queued
  <2>3. Lines(queue', Queued(phase'))
    BY <2>1, <2>2
  <2> QED
    BY <2>3 DEF Lines, Queued, QueueExact
<1>2. Admitted'
  BY DEF Disconnect, TypeOK, Admitted, Working
<1>3. Balanced'
  BY BalanceKept DEF Disconnect, Working
<1>4. InFlight'
  BY DEF Disconnect, TypeOK, InFlight, svcVars
<1>5. Replies'
  BY DEF Disconnect, Replies, svcVars
<1>6. NoncesDrawn'
  BY AbandonedNonces DEF Disconnect, svcVars
<1> QED
  BY <1>1, <1>2, <1>3, <1>4, <1>5, <1>6 DEF Others

\* The approvals that are open stay open: what replies and exchanges say of
\* them stays true.
LEMMA ApprovalsStay ==
  ASSUME NEW S, NEW op \in Seq(S), NEW x \in S
  PROVE  /\ Len(Append(op, x)) = Len(op) + 1
         /\ Append(op, x)[Len(op) + 1] = x
         /\ \A n \in 1..Len(op) : n \in 1..(Len(op) + 1) /\ Append(op, x)[n] = op[n]
<1>1. Len(op) \in Nat
  OBVIOUS
<1> QED
  BY <1>1, AppendProperties

\* The service answers a request, or one whose handler is gone: its approvals
\* only grow, and it answers replies of earlier requests as before.
LEMMA VerdictKeepsReplies ==
  ASSUME SidecarInv, NEW s \in Signed, NEW v, Verdict(s, v)
  PROVE  /\ Len(opened) \in Nat /\ Len(opened') \in Nat
         /\ Len(opened') >= Len(opened)
         /\ \A n \in 1..Len(opened) : opened'[n] = opened[n]
         /\ v = "approval" => /\ Len(opened') = Len(opened) + 1
                              /\ opened'[Len(opened')] = <<s.identity, s.item>>
<1>1. opened \in Seq(Identities \X Items) /\ Len(opened) \in Nat
  BY DEF SidecarInv, TypeOK
<1>2. <<s.identity, s.item>> \in Identities \X Items
  BY DEF Signed
<1>3. /\ v = "approval" => opened' = Append(opened, <<s.identity, s.item>>)
      /\ v # "approval" => opened' = opened
  BY VerdictEffect DEF SidecarInv
<1>4. CASE v = "approval"
  BY <1>1, <1>2, <1>3, <1>4, ApprovalsStay, SMTT(30)
<1>5. CASE v # "approval"
  BY <1>1, <1>3, <1>5
<1> QED
  BY <1>4, <1>5

\* The service answers a request.
LEMMA ServeKeeps ==
  ASSUME SidecarInv, NEW c \in Callers, NEW v \in Verdicts, NEW p, Serve(c, v, p)
  PROVE  Others'
<1> USE DEF SidecarInv
<1> DEFINE s == wire[c].signed
           P == Pending(phase, wire)
           n == IF v = "approval" THEN Len(opened') ELSE 0
<1>1. s \in Signed /\ wire \in [Callers -> Exchange] /\ wire[c] \in Exchange
  BY DEF TypeOK, Exchange
<1>2. /\ phase[c] = "upstream" /\ wire[c].verdict = "none" /\ Verdict(s, v)
      /\ wire' = [wire EXCEPT ![c].verdict = v, ![c].payload = p,
                              ![c].approval = n]
      /\ UNCHANGED <<phase, req, queue, permits, late, answer, arrivals, nonces>>
  BY DEF Serve
<1>3. v # "none"
  BY <1>2 DEF Verdict
<1>4. /\ Len(opened) \in Nat /\ Len(opened') \in Nat
      /\ Len(opened') >= Len(opened)
      /\ \A k \in 1..Len(opened) : opened'[k] = opened[k]
      /\ v = "approval" => /\ Len(opened') = Len(opened) + 1
                           /\ opened'[Len(opened')] = <<s.identity, s.item>>
  BY <1>1, <1>2, VerdictKeepsReplies
<1>5. consumed' \in {consumed, consumed \cup {s.nonce}}
  BY <1>1, <1>2, VerdictEffect
<1>6. /\ wire'[c].signed = s /\ wire'[c].verdict = v /\ wire'[c].approval = n
      /\ \A d \in Callers \ {c} : wire'[d] = wire[d]
  BY <1>1, <1>2 DEF Exchange
<1> HIDE DEF s, n
<1>7. QueueExact' /\ Admitted' /\ Balanced'
  BY <1>2 DEF QueueExact, Admitted, Balanced
<1>8. InFlight'
  <2> SUFFICES ASSUME NEW d \in Callers, phase[d] = "upstream"
               PROVE  /\ SignedFor(wire'[d].signed, req[d])
                      /\ wire'[d].verdict = "approval" =>
                            /\ wire'[d].approval \in 1..Len(opened')
                            /\ opened'[wire'[d].approval] =
                                  <<wire'[d].signed.identity, wire'[d].signed.item>>
    BY <1>2 DEF InFlight
  <2>1. CASE d = c
    <3>1. SignedFor(wire'[d].signed, req[d])
      BY <1>2, <1>6, <2>1 DEF InFlight, s
    <3>2. wire'[d].verdict = "approval" =>
            /\ wire'[d].approval \in 1..Len(opened')
            /\ opened'[wire'[d].approval] = <<s.identity, s.item>>
      BY <1>4, <1>6, <2>1 DEF n
    <3> QED
      BY <1>6, <2>1, <3>1, <3>2
  <2>2. CASE d # c
    <3>1. wire'[d] = wire[d]
      BY <1>6, <2>2
    <3>2. wire[d].verdict = "approval" =>
            /\ wire[d].approval \in 1..Len(opened)
            /\ opened[wire[d].approval] =
                  <<wire[d].signed.identity, wire[d].signed.item>>
      BY DEF InFlight
    <3>3. SignedFor(wire[d].signed, req[d])
      BY DEF InFlight
    <3> QED
      BY <1>4, <3>1, <3>2, <3>3
  <2> QED
    BY <2>1, <2>2
<1>9. Replies'
  BY <1>2, <1>4 DEF Replies, Reply
<1>10. c \in P /\ Pending(phase, wire)' = P \ {c}
  BY <1>2, <1>3, <1>6 DEF Pending
<1>11. \A d \in P \ {c} : wire'[d].signed = wire[d].signed
  BY <1>6 DEF Pending
<1>12. DrawnOnce(P, wire, late, consumed, nonces)
  BY DEF NoncesDrawn
<1> HIDE DEF P
<1>13. DrawnOnce(P \ {c}, wire', late, consumed', nonces)
  BY <1>5, <1>10, <1>11, <1>12 DEF DrawnOnce, s
<1>14. NoncesDrawn'
  BY <1>2, <1>10, <1>13 DEF NoncesDrawn
<1> QED
  BY <1>7, <1>8, <1>9, <1>14 DEF Others

\* The service sees a request whose handler is gone.
LEMMA ServeLateKeeps ==
  ASSUME SidecarInv, NEW s \in late, NEW v \in Verdicts, ServeLate(s, v)
  PROVE  Others'
<1> USE DEF SidecarInv
<1>1. s \in Signed
  BY DEF TypeOK
<1>2. /\ Verdict(s, v) /\ late' = late \ {s}
      /\ UNCHANGED <<phase, req, queue, permits, wire, answer, arrivals, nonces>>
  BY DEF ServeLate
<1>3. /\ Len(opened) \in Nat /\ Len(opened') \in Nat
      /\ Len(opened') >= Len(opened)
      /\ \A k \in 1..Len(opened) : opened'[k] = opened[k]
  BY <1>1, <1>2, VerdictKeepsReplies
<1>4. consumed' \in {consumed, consumed \cup {s.nonce}}
  BY <1>1, <1>2, VerdictEffect
<1>5. QueueExact' /\ Admitted' /\ Balanced'
  BY <1>2 DEF QueueExact, Admitted, Balanced
<1>6. InFlight'
  BY <1>2, <1>3 DEF InFlight
<1>7. Replies'
  BY <1>2, <1>3 DEF Replies, Reply
<1>8. DrawnOnce(Pending(phase, wire), wire, late \ {s}, consumed', nonces)
  BY <1>4 DEF NoncesDrawn, DrawnOnce
<1>9. NoncesDrawn'
  BY <1>2, <1>8 DEF NoncesDrawn, Pending
<1> QED
  BY <1>5, <1>6, <1>7, <1>9 DEF Others

\* Approvals that are granted or expire, and steps of others.
LEMMA RestKeeps ==
  ASSUME SidecarInv, UNCHANGED <<sidecarVars, consumed, opened>>
  PROVE  Others'
BY DEF SidecarInv, Others, QueueExact, Admitted, Balanced, InFlight, Replies,
       NoncesDrawn, Pending, sidecarVars

\* The invariant holds at first.
LEMMA SidecarInit == Init => SidecarInv
<1> SUFFICES ASSUME Init PROVE SidecarInv
  OBVIOUS
<1> USE DEF Init
<1>1. TypeOK
  BY Placeholders, SidecarAssumption DEF TypeOK, Working
<1>2. QueueExact
  BY DEF QueueExact
<1>3. Admitted /\ InFlight
  BY DEF Admitted, InFlight, Working
<1>4. Holders(phase) = {}
  BY DEF Holders, Working
<1>5. Balanced
  <2>1. Cardinality(Holders(phase)) = 0
    BY <1>4, FS_EmptySet
  <2> QED
    BY <2>1, SidecarAssumption DEF Balanced
<1>6. Replies
  BY DEF Replies, Reply, NoAnswer
<1>7. Pending(phase, wire) = {}
  BY DEF Pending
<1>8. NoncesDrawn
  BY <1>7 DEF NoncesDrawn, DrawnOnce
<1> QED
  BY <1>1, <1>2, <1>3, <1>5, <1>6, <1>8 DEF SidecarInv

\* Every step keeps the invariant.
LEMMA SidecarStep == SidecarInv /\ [Next]_vars => SidecarInv'
<1> SUFFICES ASSUME SidecarInv, [Next]_vars PROVE SidecarInv'
  OBVIOUS
<1>1. TypeOK /\ TypeOK'
  BY TypesKept DEF SidecarInv
<1>2. ASSUME NEW c \in Callers, Move(c) PROVE Others'
  BY <1>2, ArriveKeeps, RespondKeeps, EnqueueKeeps, SendKeeps, TimeoutKeeps,
     DisconnectKeeps, ServeKeeps, Zenon DEF Move
<1>3. ASSUME Admit PROVE Others'
  BY <1>3, AdmitKeeps
<1>4. ASSUME NEW s \in late, NEW v \in Verdicts, ServeLate(s, v) PROVE Others'
  BY <1>4, ServeLateKeeps
<1>5. ASSUME NEW n \in 1..Len(opened), Approve(n) \/ Expire(n) PROVE Others'
  BY <1>5, RestKeeps DEF Approve, Expire
<1>6. ASSUME UNCHANGED vars PROVE Others'
  BY <1>6, RestKeeps DEF vars, svcVars
<1>7. Others'
  BY <1>1, <1>2, <1>3, <1>4, <1>5, <1>6, Moves, Zenon
<1> QED
  BY <1>1, <1>7 DEF SidecarInv, Others

\* The invariant holds in every state.
LEMMA SidecarInvariant == Spec => []SidecarInv
BY SidecarInit, SidecarStep, PTL DEF Spec

-----------------------------------------------------------------------------
(* Theorems *)

\* Every variable of the sidecar and of the service stays in its type; the
\* number of free permits is never negative.
THEOREM SidecarTypes == Spec => []TypeOK
<1>1. SidecarInv => TypeOK
  BY DEF SidecarInv
<1> QED
  BY <1>1, SidecarInvariant, PTL

\* For any number of callers and permits, however requests end, each permit is
\* free or held by one working request that passed the guard: the concurrency
\* limit is neither exceeded nor worn down.
THEOREM PermitsAreConserved == Spec => []PermitsConserved
<1>1. SidecarInv => PermitsConserved
  <2> SUFFICES ASSUME SidecarInv PROVE PermitsConserved
    OBVIOUS
  <2>1. {c \in Callers : phase[c] \in Working /\ req[c].local /\ req[c].token}
          = Holders(phase)
    BY DEF SidecarInv, Admitted, Holders
  <2> QED
    BY <2>1 DEF SidecarInv, Balanced, PermitsConserved
<1> QED
  BY <1>1, SidecarInvariant, PTL

\* The semaphore's queue is the set of waiting requests, once each, whenever a
\* waiter is admitted or dropped from anywhere in it.
THEOREM QueueIsExact == Spec => []QueueExact
<1>1. SidecarInv => QueueExact
  BY DEF SidecarInv
<1> QED
  BY <1>1, SidecarInvariant, PTL

\* No signed request that may still arrive carries a nonce that the service has
\* seen or that another one carries, so none is taken for a replay.
THEOREM NoncesStayFresh == Spec => []NoncesFresh
<1>1. SidecarInv => NoncesFresh
  <2> SUFFICES ASSUME SidecarInv PROVE NoncesFresh
    OBVIOUS
  <2>1. DrawnOnce(Pending(phase, wire), wire, late, consumed, nonces)
    BY DEF SidecarInv, NoncesDrawn
  <2> QED
    BY <2>1 DEF NoncesFresh, Pending, DrawnOnce
<1> QED
  BY <1>1, SidecarInvariant, PTL

\* A plaintext is answered only to a request that passed the guard, for an
\* owner its deployment is configured for, and is the item and field it asked
\* for, opened with that deployment's identity.
THEOREM AnswersBelongToRequests == Spec => []AnswersBelong
<1>1. SidecarInv => AnswersBelong
  BY DEF SidecarInv, Replies, Reply, AnswersBelong
<1> QED
  BY <1>1, SidecarInvariant, PTL

\* An approval the service asked for reaches the caller with the id of an
\* approval for its own deployment's identity and item.
THEOREM ApprovalsAreReported == Spec => []ApprovalsReported
<1>1. SidecarInv => ApprovalsReported
  BY DEF SidecarInv, Replies, Reply, ApprovalsReported
<1> QED
  BY <1>1, SidecarInvariant, PTL
=============================================================================
