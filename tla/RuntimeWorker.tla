---------------------------- MODULE RuntimeWorker ----------------------------
(***************************************************************************)
(* The authorization plane (ATMAN-RUNTIME/1.1): use tokens are issued, and  *)
(* consumed or revoked on a per-subject authorization ledger.               *)
(*                                                                         *)
(* Every request is a process.  It first reads the trust policy, in a       *)
(* transaction of its own (_server_enforcement), and keeps what it read     *)
(* together with the time its launcher gave it; then it runs the governed   *)
(* operation, the ledger operations inside a second BEGIN IMMEDIATE         *)
(* transaction.  Between the two, other processes commit: ledger events of  *)
(* other requests, and rotations of the trust policy.  The policy is the    *)
(* register of PolicyRegister, which TrustGovernance implements.            *)
(***************************************************************************)
EXTENDS PolicyRegister, Sequences

CONSTANTS
    Workers,   \* worker processes that may be alive together
    Boot,      \* the deployment's bootstrap configuration
    Subjects,  \* subject_identity_ref values: one ledger each
    Attested,  \* attestations under the deployment's attestation keys
    Requests,  \* what clients send, see RequestAssumption
    MaxTokens, \* bound: tokens issued
    Idle       \* a worker that is not running

(* A request carries the grant and the proof a client made for it, in any   *)
(* combination: for an observer's receipt and an attestation of it, of      *)
(* another or a made-up one, for a token it holds or a made-up one, for a   *)
(* ledger generation that may be past.  Receipts and tokens belong to a     *)
(* subject.                                                                 *)
ASSUME BootIsConfig == Boot \in BootConfigs
ASSUME RequestAssumption ==
    \A r \in Requests :
        \/ /\ r.operation = "issue_use_token"
           /\ r.receipt.subject \in Subjects
           /\ r.attestation.verifiedAt \in Nat
           /\ r.ttl \in Int
           /\ r.maxAge \in Nat
        \/ /\ r.operation \in {"consume_use_token", "revoke_use_token"}
           /\ r.token.subject \in Subjects
           /\ r.expected \in Nat

VARIABLES
    tokens,   \* tokens authenticated by the deployment's token key, held by clients
    ledgers,  \* table authorization_ledgers
    worker    \* what each process is executing: its request and enforcement context

workerVars == <<tokens, ledgers, worker>>
vars == <<policy, tokens, ledgers, worker>>

-----------------------------------------------------------------------------
(* A client signs the action it wants at time signedAt; grant, role and     *)
(* scope are copied into the proof.                                         *)
Proof(grant, role, scope, action, signedAt) ==
    [grant    |-> grant,
     role     |-> role,
     scope    |-> scope,
     action   |-> action,
     signedAt |-> signedAt]

IssueAction(attestation, receipt, context, ttl, now) ==
    [operation   |-> "issue_use_token",
     receipt     |-> receipt,
     attestation |-> attestation,
     context     |-> context,
     ttl         |-> ttl,
     at          |-> now]

ConsumeAction(token, context, generation, expected, now) ==
    [operation  |-> "consume_use_token",
     token      |-> token,
     context    |-> context,
     generation |-> generation,
     expected   |-> expected,
     at         |-> now]

RevokeAction(token, generation, expected, now) ==
    [operation  |-> "revoke_use_token",
     token      |-> token,
     generation |-> generation,
     expected   |-> expected,
     at         |-> now]

(* Times are compared as the code does: both ends of a window are valid.    *)
Within(t, from, until) == from <= t /\ t <= until

(* Mutant: an issuer is recognised by its key id alone.                     *)
VerifyGrantByKeyId(grant, enforcement) ==
    /\ grant.issuer \in DOMAIN enforcement.roots
    /\ grant.generation = enforcement.generation
    /\ Within(enforcement.now, grant.validFrom, grant.validUntil)

VerifyGrant(grant, enforcement) ==
    /\ grant.issuer \in DOMAIN enforcement.roots
    /\ enforcement.roots[grant.issuer] = grant.issuerKey
    /\ grant.generation = enforcement.generation
    /\ Within(enforcement.now, grant.validFrom, grant.validUntil)

RequireAuthority(proof, action, role, scope, enforcement) ==
    /\ VerifyGrant(proof.grant, enforcement)
    /\ proof.role \in proof.grant.roles
    /\ proof.scope \in proof.grant.scopes
    /\ Within(proof.signedAt, proof.grant.validFrom, proof.grant.validUntil)
    /\ proof.action = action
    /\ proof.role = role
    /\ proof.scope = scope

-----------------------------------------------------------------------------
(* Attestations and tokens.                                                 *)
(* Mutant: an attestation is good for ever.                                 *)
VerifyAttestationAnyAge(attestation, receipt, context, now, maxAge) ==
    /\ attestation \in Attested
    /\ attestation.receipt = receipt
    /\ attestation.context = context
    /\ attestation.verifiedAt <= now

(* The receipt is compared by its digest, and field by field.               *)
VerifyAttestation(attestation, receipt, context, now, maxAge) ==
    /\ attestation \in Attested
    /\ attestation.receipt = receipt
    /\ attestation.context = context
    /\ attestation.verifiedAt <= now
    /\ now - attestation.verifiedAt <= maxAge

Token(attestation, receipt, now, ttl) ==
    [attestation |-> attestation,
     subject     |-> receipt.subject,
     context     |-> attestation.context,
     issuedAt    |-> now,
     expiresAt   |-> now + ttl]

(* Mutant: the token's MAC is not verified, only its shape.                 *)
TokenWellFormed(token) == token.expiresAt > token.issuedAt

TokenAuthentic(token) == token \in tokens

VerifyUseToken(token, context, now) ==
    /\ TokenAuthentic(token)
    /\ token.context = context
    /\ Within(now, token.issuedAt, token.expiresAt)

-----------------------------------------------------------------------------
(* The ledger of one subject is the sequence of its events; its generation  *)
(* is their number, and the hash chain is the order of the sequence.        *)
Generation(ledger) == Len(ledger)

TerminalEvents(ledger, token) == {i \in DOMAIN ledger : ledger[i].token = token}

VerifyLedger(ledger) ==
    /\ \A i \in DOMAIN ledger : ledger[i].generation = i
    /\ \A i, j \in DOMAIN ledger : ledger[i].token = ledger[j].token => i = j

(* Mutant: the generation check is taken to be enough.                      *)
AppendAnyEvent(token, type, now, expected) ==
    LET ledger == ledgers[token.subject] IN
    /\ expected = Generation(ledger)
    /\ ledgers' = [ledgers EXCEPT ![token.subject] =
          Append(@, [type       |-> type,
                     token      |-> token,
                     occurredAt |-> now,
                     generation |-> Generation(ledger) + 1])]

AppendTerminalEvent(token, type, now, expected) ==
    LET ledger == ledgers[token.subject] IN
    /\ expected = Generation(ledger)
    /\ TerminalEvents(ledger, token) = {}
    /\ ledgers' = [ledgers EXCEPT ![token.subject] =
          Append(@, [type       |-> type,
                     token      |-> token,
                     occurredAt |-> now,
                     generation |-> Generation(ledger) + 1])]

-----------------------------------------------------------------------------
Init ==
    /\ PolicyInit
    /\ tokens = {}
    /\ ledgers = [s \in Subjects |-> <<>>]
    /\ worker = [w \in Workers |-> Idle]

(* A process is launched at time now with a request, and reads (or          *)
(* bootstraps) the trust policy in its first transaction.                   *)
ServerEnforcement(w, request, now) ==
    /\ worker[w] = Idle
    /\ ReadOrBootstrap(Boot)
    /\ worker' = [worker EXCEPT ![w] =
          [request     |-> request,
           enforcement |-> [roots      |-> Locked(Boot).roots,
                            generation |-> Locked(Boot).generation,
                            now        |-> now]]]
    /\ UNCHANGED <<tokens, ledgers>>

Done(w) == worker' = [worker EXCEPT ![w] = Idle]

Running(w, operation) ==
    /\ worker[w] # Idle
    /\ worker[w].request.operation = operation

(* issue_use_token writes nothing: the token is the response.               *)
IssueUseToken(w) ==
    /\ Running(w, "issue_use_token")
    /\ LET r == worker[w].request
           e == worker[w].enforcement
       IN /\ RequireAuthority(r.proof, IssueAction(r.attestation, r.receipt, r.context, r.ttl, e.now),
                              "USE_TOKEN_ISSUER", r.receipt.subject, e)
          /\ r.ttl > 0
          /\ VerifyAttestation(r.attestation, r.receipt, r.context, e.now, r.maxAge)
          /\ r.receipt.verdict = "PASS"
          /\ tokens' = tokens \cup {Token(r.attestation, r.receipt, e.now, r.ttl)}
    /\ Done(w)
    /\ UNCHANGED <<policy, ledgers>>

(* The ledger transaction: the action is rebuilt from the locked ledger, so *)
(* the proof must have been signed against exactly this generation.         *)
ConsumeUseToken(w) ==
    /\ Running(w, "consume_use_token")
    /\ LET r == worker[w].request
           e == worker[w].enforcement
           ledger == ledgers[r.token.subject]
       IN /\ RequireAuthority(r.proof,
                ConsumeAction(r.token, r.context, Generation(ledger), r.expected, e.now),
                "USE_TOKEN_CONSUMER", r.token.subject, e)
          /\ VerifyLedger(ledger)
          /\ VerifyUseToken(r.token, r.context, e.now)
          /\ AppendTerminalEvent(r.token, "CONSUMED", e.now, r.expected)
    /\ Done(w)
    /\ UNCHANGED <<policy, tokens>>

(* Revocation asks neither for a context nor for the token to be in time.   *)
RevokeUseToken(w) ==
    /\ Running(w, "revoke_use_token")
    /\ LET r == worker[w].request
           e == worker[w].enforcement
           ledger == ledgers[r.token.subject]
       IN /\ RequireAuthority(r.proof,
                RevokeAction(r.token, Generation(ledger), r.expected, e.now),
                "USE_TOKEN_REVOKER", r.token.subject, e)
          /\ VerifyLedger(ledger)
          /\ TokenAuthentic(r.token)
          /\ AppendTerminalEvent(r.token, "REVOKED", e.now, r.expected)
    /\ Done(w)
    /\ UNCHANGED <<policy, tokens>>

(* A refused request rolls back, and a process may die before COMMIT.       *)
Abort(w) ==
    /\ worker[w] # Idle
    /\ Done(w)
    /\ UNCHANGED <<policy, tokens, ledgers>>

(* Another process commits a rotation of the trust policy.                  *)
RotatePolicy ==
    /\ \E proposal \in Proposals, now \in Times : Advance(Boot, proposal, now)
    /\ UNCHANGED workerVars

Next ==
    \/ RotatePolicy
    \/ \E w \in Workers :
        \/ \E request \in Requests, now \in Times : ServerEnforcement(w, request, now)
        \/ IssueUseToken(w) /\ Cardinality(tokens') <= MaxTokens
        \/ ConsumeUseToken(w)
        \/ RevokeUseToken(w)
        \/ Abort(w)

Spec == Init /\ [][Next]_vars
-----------------------------------------------------------------------------
Events == UNION {{ledgers[s][i] : i \in DOMAIN ledgers[s]} : s \in Subjects}

(* Types: events and tokens belong to the subject whose ledger holds them,  *)
(* and running workers hold a request clients send.                         *)
TypeOK ==
    /\ policy = NoPolicy \/ policy.generation \in Nat
    /\ \A t \in tokens : /\ t.subject \in Subjects
                         /\ t.issuedAt \in Times
                         /\ t.expiresAt > t.issuedAt
    /\ DOMAIN ledgers = Subjects
    /\ \A s \in Subjects : \A i \in 1 .. Len(ledgers[s]) :
        /\ ledgers[s][i].token.subject = s
        /\ ledgers[s][i].occurredAt \in Times
        /\ ledgers[s][i].generation = i
    /\ DOMAIN worker = Workers
    /\ \A w \in Workers :
        \/ worker[w] = Idle
        \/ /\ worker[w].request \in Requests
           /\ worker[w].enforcement.now \in Times

(* I-62: over all ledgers, whatever processes race, are retried or die, an  *)
(* exact token has at most one terminal event: it is not consumed twice and *)
(* not consumed after, or as well as, being revoked.                        *)
AtMostOneTerminal ==
    \A s, u \in Subjects : \A i \in 1 .. Len(ledgers[s]), j \in 1 .. Len(ledgers[u]) :
        ledgers[s][i].token = ledgers[u][j].token => s = u /\ i = j

(* A client asked for exactly this token, as an issuer of its subject.      *)
AskedFor(token, request) ==
    /\ request.operation = "issue_use_token"
    /\ token = Token(request.attestation, request.receipt, token.issuedAt, request.ttl)
    /\ request.proof.action =
          IssueAction(request.attestation, request.receipt, token.context, request.ttl, token.issuedAt)
    /\ "USE_TOKEN_ISSUER" \in request.proof.grant.roles
    /\ token.subject \in request.proof.grant.scopes
    /\ Within(token.issuedAt, request.proof.grant.validFrom, request.proof.grant.validUntil)

(* I-60, I-61 and the freshness rules together: what was consumed or        *)
(* revoked is a token that this deployment issued because an issuer of its  *)
(* subject asked for it, for an attestation that an observer made of a      *)
(* passed receipt, about the same subject and context, and that was not     *)
(* from the future and, at the time of issue, not older than that request   *)
(* allowed; and it was consumed inside its window, both ends included, as   *)
(* measured by processes whose clocks nothing orders.                       *)
CapabilityChain ==
    \A e \in Events :
        LET token == e.token
            attestation == token.attestation
        IN /\ token \in tokens
           /\ attestation \in Attested
           /\ attestation.receipt.verdict = "PASS"
           /\ attestation.receipt.subject = token.subject
           /\ attestation.context = token.context
           /\ attestation.verifiedAt <= token.issuedAt
           /\ \E request \in Requests :
                 /\ AskedFor(token, request)
                 /\ token.issuedAt - attestation.verifiedAt <= request.maxAge
           /\ e.type = "CONSUMED" => Within(e.occurredAt, token.issuedAt, token.expiresAt)

(* The policies the database holds or held: a policy is linked to the one   *)
(* it replaced.                                                             *)
PoliciesHeld ==
    LET back[n \in 0 .. MaxGeneration] ==
            IF n = 0 THEN policy
            ELSE IF back[n - 1] = NoPolicy THEN NoPolicy ELSE back[n - 1].previous
    IN {back[n] : n \in 0 .. MaxGeneration} \ {NoPolicy}

GrantOf(p, grant) ==
    /\ grant.generation = p.generation
    /\ grant.issuer \in DOMAIN p.roots
    /\ grant.issuerKey = p.roots[grant.issuer]

(* I-61, I-63: an event is appended only for a live process whose client    *)
(* signed exactly it - this token, this ledger generation, this time, in    *)
(* this role and scope - with a grant of a policy the database holds or     *)
(* held.  So a proof signed for generation n is worth one event at most.    *)
AppendsAuthorised ==
    [][\A s \in Subjects : ledgers'[s] # ledgers[s] =>
        \E w \in Workers :
            /\ worker[w] # Idle
            /\ worker[w].request.operation # "issue_use_token"
            /\ LET proof == worker[w].request.proof
                   event == ledgers'[s][Len(ledgers[s]) + 1]
               IN /\ ledgers'[s] = Append(ledgers[s], event)
                  /\ proof.action.token = event.token
                  /\ proof.action.generation = Len(ledgers[s])
                  /\ proof.action.at = event.occurredAt
                  /\ s \in proof.grant.scopes
                  /\ (IF event.type = "CONSUMED" THEN "USE_TOKEN_CONSUMER"
                                                 ELSE "USE_TOKEN_REVOKER") \in proof.grant.roles
                  /\ \E p \in PoliciesHeld : GrantOf(p, proof.grant)]_vars

(* I-66 and I-73 as the documents state them: terminal authorization state  *)
(* uses the CURRENT authority policy, and grants of a root that is not in   *)
(* the current policy are not trusted.                                      *)
CommitsUnderCurrentPolicy ==
    [][\A s \in Subjects : ledgers'[s] # ledgers[s] =>
        \E w \in Workers :
            /\ worker[w] # Idle
            /\ worker[w].request.operation # "issue_use_token"
            /\ worker[w].request.token = ledgers'[s][Len(ledgers'[s])].token
            /\ GrantOf(policy, worker[w].request.proof.grant)]_vars

(* The plane implements the one-time token register of TokenLifecycle: a    *)
(* token is spent once, after it was issued, in one serial history per      *)
(* subject that is only ever appended to.                                   *)
IssuableTokens ==
    {Token(r.attestation, r.receipt, now, r.ttl) :
        r \in {q \in Requests : q.operation = "issue_use_token"}, now \in Times}

Lifecycle == INSTANCE TokenLifecycle WITH
    Tokens  <- IssuableTokens,
    issued  <- tokens,
    history <- [s \in Subjects |->
                  [i \in DOMAIN ledgers[s] |-> <<ledgers[s][i].token, ledgers[s][i].type>>]]

ImplementsLifecycle == Lifecycle!LifecycleSpec
===============================================================================
