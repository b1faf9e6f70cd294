-------------------------------- MODULE Sidecar --------------------------------
(***************************************************************************)
(* The sidecar process (bin/seren_secrets_sidecar.rs), the resolver it      *)
(* calls (seren_secrets.rs) and the resolve route of the secrets service    *)
(* with its single-use nonces and approvals (external).                     *)
(*                                                                         *)
(* A local caller's request passes the guard, waits for one of the permits  *)
(* of the concurrency limit, has its body read, is bound to a configured    *)
(* deployment and resolved upstream.  The connection may close at any time, *)
(* which drops the handler; an upstream request outlives the handler that   *)
(* sent it.                                                                 *)
(***************************************************************************)
EXTENDS Naturals, FiniteSets, SequencesExt

CONSTANTS
    Callers,     \* local connections
    Deployments,
    Identities,
    Owners,      \* organizations with their users
    Items,       \* the vault and item a reference names
    Fields,
    Has,         \* the fields with a value, as <<item, field>> pairs
    Gated,       \* items whose policy requires an approval
    Configs,     \* SEREN_SECRETS_IDENTITIES_JSON, a sequence of entries
    Requests,    \* the requests the callers of this instance make
    None,        \* no identity
    MAX_CONCURRENT_RESOLVES,
    MaxArrivals  \* bound: requests of all callers together

Config == [deployment : Deployments, owner : Owners, identity : Identities]

\* local and token: what the guard's two checks find in the headers.  body is
\* whether the body is JSON of the right shape within the size limit, uri
\* whether the reference parses.
Request ==
    [deployment : Deployments, owner : Owners, item : Items, field : Fields,
     local : BOOLEAN, token : BOOLEAN, body : BOOLEAN, uri : BOOLEAN]

ASSUME SidecarAssumption ==
    /\ IsFiniteSet(Callers) /\ Callers # {}
    /\ Deployments # {} /\ Identities # {} /\ Owners # {}
    /\ Items # {} /\ Fields # {}
    /\ Has \subseteq Items \X Fields /\ Gated \subseteq Items
    /\ Configs \in Seq(Config)
    /\ Requests \subseteq Request
    /\ None \notin Identities
    /\ MAX_CONCURRENT_RESOLVES \in Nat \ {0} /\ MaxArrivals \in Nat

VARIABLES
    phase,       \* where each caller's request is
    req,         \* that request
    queue,       \* callers waiting for a permit, first come first served
    permits,     \* free permits
    wire,        \* the upstream exchange of each caller's request
    late,        \* upstream requests whose handler is gone
    answer,      \* what each caller was answered last
    arrivals,    \* requests so far
    nonces,      \* nonces drawn so far
    consumed,    \* nonces the service has seen
    opened,      \* approval requests the service opened
    active,      \* the approvals that are granted and not expired
    releases     \* payloads the service has sent

sidecarVars == <<phase, req, queue, permits, wire, late, answer, arrivals, nonces>>
svcVars == <<consumed, opened, active, releases>>
vars == <<sidecarVars, svcVars>>

-------------------------------------------------------------------------------
(* Data *)

Signed ==
    [identity : Identities, item : Items, field : Fields, nonce : Nat]
Payload == [item : Items, field : Fields, to : Identities]

\* Answers of the service: refused is every refusal but a used nonce and a
\* required approval.
Verdicts == {"none", "ok", "approval", "replayed", "refused"}
Exchange ==
    [signed : Signed, verdict : Verdicts, approval : Nat, payload : Payload]

\* 500 stands for every status passed through from the service.
Statuses == {0, 200, 400, 401, 403, 404, 500, 502}

\* from is the identity under whose key the plaintext was opened; verdict is
\* not part of the answer: it remembers what the service said, if its whole
\* answer was read.
Answer ==
    [status : Statuses, item : Items, field : Fields,
     from : Identities \cup {None}, approval : Nat, verdict : Verdicts]

SomeRequest == CHOOSE r \in Request : TRUE
SomeSigned ==
    [identity |-> CHOOSE i \in Identities : TRUE,
     item |-> SomeRequest.item, field |-> SomeRequest.field, nonce |-> 0]
SomePayload ==
    [item |-> SomeSigned.item, field |-> SomeSigned.field,
     to |-> SomeSigned.identity]
NoExchange ==
    [signed |-> SomeSigned, verdict |-> "none", approval |-> 0,
     payload |-> SomePayload]
NoAnswer ==
    [status |-> 0, item |-> SomeRequest.item, field |-> SomeRequest.field,
     from |-> None, approval |-> 0, verdict |-> "none"]

\* load_deployments inserts into a map: the last entry of an id stays.
Configured(d) == \E n \in 1..Len(Configs) : Configs[n].deployment = d
deployment(d) ==
    LET last == CHOOSE n \in 1..Len(Configs) :
                    /\ Configs[n].deployment = d
                    /\ \A m \in 1..Len(Configs) :
                          Configs[m].deployment = d => m <= n
    IN  Configs[last]

Working == {"reading", "upstream"}

-------------------------------------------------------------------------------
(* The sidecar *)

Arrive(c, r) ==
    /\ phase[c] = "idle"
    /\ arrivals < MaxArrivals
    /\ arrivals' = arrivals + 1
    /\ req' = [req EXCEPT ![c] = r]
    /\ phase' = [phase EXCEPT ![c] = "arrived"]
    /\ answer' = [answer EXCEPT ![c] = NoAnswer]
    /\ UNCHANGED <<queue, permits, wire, late, nonces, svcVars>>

\* The request ends with an answer; a request that works gives its permit back.
Respond(c, a) ==
    /\ answer' = [answer EXCEPT ![c] = a]
    /\ phase' = [phase EXCEPT ![c] = "idle"]
    /\ wire' = [wire EXCEPT ![c] = NoExchange]
    /\ permits' = IF phase[c] \in Working THEN permits + 1 ELSE permits
    /\ UNCHANGED <<req, queue, late, arrivals, nonces, svcVars>>

err(status, verdict) ==
    [NoAnswer EXCEPT !.status = status, !.verdict = verdict]

Enqueue(c) ==
    /\ queue' = Append(queue, c)
    /\ phase' = [phase EXCEPT ![c] = "queued"]
    /\ UNCHANGED <<req, permits, wire, late, answer, arrivals, nonces, svcVars>>

\* The outermost layer: a request that is not local or has no token is
\* answered before it waits for a permit or has its body read.
guard(c) ==
    /\ phase[c] = "arrived"
    /\ CASE ~req[c].local -> Respond(c, err(403, "none"))
         [] req[c].local /\ ~req[c].token -> Respond(c, err(401, "none"))
         [] OTHER -> Enqueue(c)

\* Mutant: the limit does not wait for a free permit.
AdmitAtOnce ==
    /\ queue # <<>>
    /\ permits' = permits - 1
    /\ phase' = [phase EXCEPT ![Head(queue)] = "reading"]
    /\ queue' = Tail(queue)
    /\ UNCHANGED <<req, wire, late, answer, arrivals, nonces, svcVars>>

\* GlobalConcurrencyLimitLayer.
Admit ==
    /\ queue # <<>> /\ permits > 0
    /\ permits' = permits - 1
    /\ phase' = [phase EXCEPT ![Head(queue)] = "reading"]
    /\ queue' = Tail(queue)
    /\ UNCHANGED <<req, wire, late, answer, arrivals, nonces, svcVars>>

\* Mutant: only the deployment is looked up, its owner is not compared.
BoundToAnyOwner(r) == Configured(r.deployment)

Bound(r) == deployment(r.deployment).owner = r.owner

\* Mutant: one nonce for the life of the resolver.
NonceOfResolver == 1

\* Uuid::new_v4 in every call.
Nonce == nonces + 1

\* The deployment's resolver signs the request and sends it.
Send(c, identity) ==
    /\ nonces' = nonces + 1
    /\ wire' = [wire EXCEPT ![c] = [NoExchange EXCEPT !.signed =
            [identity |-> identity, item |-> req[c].item,
             field |-> req[c].field, nonce |-> Nonce]]]
    /\ phase' = [phase EXCEPT ![c] = "upstream"]
    /\ UNCHANGED <<req, queue, permits, late, answer, arrivals, svcVars>>

\* The body has arrived.  resolve looks the deployment up, parses the
\* reference and calls the resolver.
resolve(c) ==
    LET r == req[c]
    IN  /\ phase[c] = "reading"
        /\ CASE ~r.body -> Respond(c, err(400, "none"))
             [] r.body /\ ~Configured(r.deployment) ->
                    Respond(c, err(404, "none"))
             [] r.body /\ Configured(r.deployment) /\ ~Bound(r) ->
                    Respond(c, err(403, "none"))
             [] r.body /\ Configured(r.deployment) /\ Bound(r) /\ ~r.uri ->
                    Respond(c, err(400, "none"))
             [] OTHER -> Send(c, deployment(r.deployment).identity)

\* Mutant: an approval is an upstream refusal like any other.
ApprovalFlattened(c) == err(500, wire[c].verdict)

approval_err(c) ==
    [err(403, "approval") EXCEPT !.approval = wire[c].approval]

\* An empty value is no value.
extract_field(c) == <<wire[c].payload.item, req[c].field>> \in Has

\* decrypt_resolve_payload: the payload names the requested item and field and
\* is sealed to the resolver's identity.
Opens(c) ==
    LET w == wire[c]
    IN  /\ w.payload.item = req[c].item /\ w.payload.field = req[c].field
        /\ w.payload.to = w.signed.identity

\* The service's answer is mapped to the caller's.
Resolved(c) ==
    LET w == wire[c]
    IN  /\ phase[c] = "upstream" /\ w.verdict # "none"
        /\ CASE w.verdict = "approval" -> Respond(c, approval_err(c))
             [] w.verdict \in {"replayed", "refused"} ->
                    Respond(c, err(500, w.verdict))
             [] w.verdict = "ok" /\ ~(Opens(c) /\ extract_field(c)) ->
                    Respond(c, err(400, "ok"))
             [] w.verdict = "ok" /\ Opens(c) /\ extract_field(c) ->
                    Respond(c, [status |-> 200, item |-> w.payload.item,
                                field |-> w.payload.field,
                                from |-> w.signed.identity,
                                approval |-> 0, verdict |-> "ok"])

Abandoned(c) ==
    IF phase[c] = "upstream" /\ wire[c].verdict = "none"
    THEN late \cup {wire[c].signed} ELSE late

\* What becomes of an answer whose body is not read to its end or is no JSON:
\* an error status that has arrived is kept, and an approval loses its id.
PartialStatuses(v) ==
    CASE v = "none" -> {502}
      [] v = "ok" -> {400, 502}
      [] v = "approval" -> {403}
      [] OTHER -> {500}

\* The deadline of the upstream request, which includes the body of its
\* answer, a failed connection, or a body over its cap.
Timeout(c) ==
    /\ phase[c] = "upstream"
    /\ \E status \in PartialStatuses(wire[c].verdict) :
            answer' = [answer EXCEPT ![c] = err(status, "none")]
    /\ phase' = [phase EXCEPT ![c] = "idle"]
    /\ wire' = [wire EXCEPT ![c] = NoExchange]
    /\ late' = Abandoned(c)
    /\ permits' = permits + 1
    /\ UNCHANGED <<req, queue, arrivals, nonces, svcVars>>

\* A waiter that is dropped leaves its place to those behind it.
Left(c) ==
    IF phase[c] = "queued"
    THEN RemoveAt(queue, CHOOSE n \in 1..Len(queue) : queue[n] = c)
    ELSE queue

\* Mutant: the permit is only given back with an answer.
DisconnectLeaks(c) ==
    /\ phase[c] # "idle"
    /\ phase' = [phase EXCEPT ![c] = "idle"]
    /\ wire' = [wire EXCEPT ![c] = NoExchange]
    /\ late' = Abandoned(c)
    /\ queue' = Left(c)
    /\ UNCHANGED <<req, permits, answer, arrivals, nonces, svcVars>>

\* Mutant: a caller that goes away keeps its place in the queue.
DisconnectStaysQueued(c) ==
    /\ phase[c] # "idle"
    /\ phase' = [phase EXCEPT ![c] = "idle"]
    /\ wire' = [wire EXCEPT ![c] = NoExchange]
    /\ late' = Abandoned(c)
    /\ permits' = IF phase[c] \in Working THEN permits + 1 ELSE permits
    /\ UNCHANGED <<req, queue, answer, arrivals, nonces, svcVars>>

\* The connection closes: the handler is dropped where it is, out of the queue
\* or with its permit.
Disconnect(c) ==
    /\ phase[c] # "idle"
    /\ phase' = [phase EXCEPT ![c] = "idle"]
    /\ wire' = [wire EXCEPT ![c] = NoExchange]
    /\ late' = Abandoned(c)
    /\ queue' = Left(c)
    /\ permits' = IF phase[c] \in Working THEN permits + 1 ELSE permits
    /\ UNCHANGED <<req, answer, arrivals, nonces, svcVars>>

-------------------------------------------------------------------------------
(* The service *)

Approved(s) == \E n \in active : opened[n] = <<s.identity, s.item>>
NeedsApproval(s) == s.item \in Gated /\ ~Approved(s)

\* The service verifies a signed request, consumes its nonce, and releases the
\* item, or asks for an approval, or refuses (an old timestamp, no membership,
\* its own failures), with or without having seen the nonce.
Verdict(s, v) ==
    \/ v = "replayed" /\ s.nonce \in consumed
       /\ UNCHANGED svcVars
    \/ v = "refused"
       /\ consumed' \in {consumed, consumed \cup {s.nonce}}
       /\ UNCHANGED <<opened, active, releases>>
    \/ v = "approval" /\ s.nonce \notin consumed /\ NeedsApproval(s)
       /\ consumed' = consumed \cup {s.nonce}
       /\ opened' = Append(opened, <<s.identity, s.item>>)
       /\ UNCHANGED <<active, releases>>
    \/ v = "ok" /\ s.nonce \notin consumed /\ ~NeedsApproval(s)
       /\ consumed' = consumed \cup {s.nonce}
       /\ releases' = releases \cup
            {[item |-> s.item, field |-> s.field, to |-> s.identity]}
       /\ UNCHANGED <<opened, active>>

\* A successful answer carries the released payload, or by a mix-up in the
\* service one that it sent before.
Serve(c, v, p) ==
    /\ phase[c] = "upstream" /\ wire[c].verdict = "none"
    /\ Verdict(wire[c].signed, v)
    /\ p \in IF v = "ok" THEN releases' ELSE {SomePayload}
    /\ wire' = [wire EXCEPT ![c].verdict = v, ![c].payload = p,
                    ![c].approval = IF v = "approval" THEN Len(opened') ELSE 0]
    /\ UNCHANGED <<phase, req, queue, permits, late, answer, arrivals, nonces>>

ServeLate(s, v) ==
    /\ s \in late
    /\ Verdict(s, v)
    /\ late' = late \ {s}
    /\ UNCHANGED <<phase, req, queue, permits, wire, answer, arrivals, nonces>>

\* The user decides, and grants expire.
Approve(n) ==
    /\ n \in 1..Len(opened) /\ n \notin active
    /\ active' = active \cup {n}
    /\ UNCHANGED <<sidecarVars, consumed, opened, releases>>

Expire(n) ==
    /\ n \in active
    /\ active' = active \ {n}
    /\ UNCHANGED <<sidecarVars, consumed, opened, releases>>

-------------------------------------------------------------------------------
(* Specification *)

Init ==
    /\ phase = [c \in Callers |-> "idle"]
    /\ req = [c \in Callers |-> SomeRequest]
    /\ queue = <<>>
    /\ permits = MAX_CONCURRENT_RESOLVES
    /\ wire = [c \in Callers |-> NoExchange]
    /\ late = {}
    /\ answer = [c \in Callers |-> NoAnswer]
    /\ arrivals = 0 /\ nonces = 0
    /\ consumed = {} /\ opened = <<>> /\ active = {} /\ releases = {}

Handler(c) == guard(c) \/ resolve(c) \/ Resolved(c) \/ Timeout(c)

Service ==
    \/ \E c \in Callers, v \in Verdicts, p \in releases \cup
            {[item |-> wire[d].signed.item, field |-> wire[d].signed.field,
              to |-> wire[d].signed.identity] : d \in Callers} \cup {SomePayload} :
            Serve(c, v, p)
    \/ \E s \in late, v \in Verdicts : ServeLate(s, v)
    \/ \E n \in 1..Len(opened) : Approve(n) \/ Expire(n)

Next ==
    \/ \E c \in Callers, r \in Requests : Arrive(c, r)
    \/ \E c \in Callers : Handler(c) \/ Disconnect(c)
    \/ Admit
    \/ Service

\* The runtime polls every handler that can go on, and the semaphore wakes its
\* first waiter.  A caller is assumed to send its body or to close: the body
\* read has no deadline of its own.
Fairness == WF_vars(Admit) /\ \A c \in Callers : WF_vars(Handler(c))

Spec == Init /\ [][Next]_vars
FairSpec == Spec /\ Fairness

-------------------------------------------------------------------------------
(* Properties *)

\* Every variable stays in its type.
TypeOK ==
    /\ phase \in [Callers -> {"idle", "arrived", "queued"} \cup Working]
    /\ req \in [Callers -> Request]
    /\ queue \in Seq(Callers)
    /\ permits \in Nat
    /\ wire \in [Callers -> Exchange]
    /\ late \subseteq Signed
    /\ answer \in [Callers -> Answer]
    /\ arrivals \in Nat /\ nonces \in Nat
    /\ consumed \subseteq Nat
    /\ opened \in Seq(Identities \X Items)
    /\ active \subseteq Nat
    /\ releases \subseteq Payload

\* However requests end (answered, timed out, dropped while they wait, while
\* their body is read or while they are upstream), every permit is free or held
\* by one working request that is local and has the token, so the limit is
\* neither exceeded nor worn down, nor spent on callers the guard rejects.
PermitsConserved ==
    permits + Cardinality({c \in Callers : phase[c] \in Working
                                /\ req[c].local /\ req[c].token})
        = MAX_CONCURRENT_RESOLVES

\* The waiting callers are exactly those in the semaphore's queue, once each:
\* a dropped request leaves no ghost that would take a permit for nobody.
QueueExact ==
    /\ {queue[n] : n \in 1..Len(queue)} = {c \in Callers : phase[c] = "queued"}
    /\ \A m, n \in 1..Len(queue) : queue[m] = queue[n] => m = n

\* A plaintext is answered only to a local caller with the token, whose owner
\* the deployment is configured for, opened with that deployment's identity, and it is the item
\* and field of this request, whatever payload the service sent.
AnswersBelong ==
    \A c \in Callers :
        answer[c].status = 200 =>
            /\ req[c].local /\ req[c].token /\ Configured(req[c].deployment)
            /\ deployment(req[c].deployment).owner = req[c].owner
            /\ answer[c].from = deployment(req[c].deployment).identity
            /\ answer[c].item = req[c].item /\ answer[c].field = req[c].field

\* No resolve is refused because of an earlier one: every signed request that
\* may still arrive, retries after a timeout or an approval included, carries
\* a nonce that neither the service nor another pending request has.
NoncesFresh ==
    LET pending == {c \in Callers :
                        phase[c] = "upstream" /\ wire[c].verdict = "none"}
    IN  /\ \A c \in pending :
            /\ wire[c].signed.nonce \notin consumed
            /\ \A d \in pending :
                  wire[d].signed.nonce = wire[c].signed.nonce => c = d
            /\ \A s \in late : s.nonce # wire[c].signed.nonce
        /\ \A s \in late : s.nonce \notin consumed

\* An approval the service asked for, once its answer is read, reaches the
\* caller with an id, and every id a caller is given is that of an approval
\* for its own deployment's identity and item, so approving it and retrying can
\* help.
ApprovalsReported ==
    \A c \in Callers :
        /\ answer[c].verdict = "approval" => answer[c].approval # 0
        /\ answer[c].approval # 0 =>
            /\ answer[c].status = 403
            /\ answer[c].approval \in 1..Len(opened)
            /\ opened[answer[c].approval] =
                  <<deployment(req[c].deployment).identity, req[c].item>>

\* A request that arrived is answered or its connection closes, even when the
\* service never answers and more callers wait than there are permits.
RequestsEnd ==
    \A c \in Callers : (phase[c] # "idle") ~> (phase[c] = "idle")
===============================================================================
