-------------------------- MODULE RuntimeWorkerProofs --------------------------
(***************************************************************************)
(* Proofs about RuntimeWorker, for any workers, subjects, requests, clocks  *)
(* and rotations of the trust policy.                                       *)
(*                                                                         *)
(* A token's fate is decided on the ledger of its own subject, so one       *)
(* terminal event per ledger is one over all ledgers, provided that every   *)
(* event's token is authentic and filed under its subject: that, and what   *)
(* an authentic token went through, is the strengthening.                   *)
(***************************************************************************)
EXTENDS RuntimeWorker, SequenceTheorems, WellFoundedInduction, TLAPS

EventType == {"CONSUMED", "REVOKED"}

Event == [type : EventType, token : IssuableTokens, occurredAt : Times, generation : Nat]

(* Ledgers are sequences of events.                                         *)
LedgersAreSequences == \A s \in Subjects : ledgers[s] \in Seq(Event)

(* What a token the deployment issued went through.                         *)
Certified(token) ==
    /\ token.attestation \in Attested
    /\ token.attestation.receipt.verdict = "PASS"
    /\ token.attestation.receipt.subject = token.subject
    /\ token.attestation.context = token.context
    /\ token.attestation.verifiedAt <= token.issuedAt
    /\ \E request \in Requests :
          /\ AskedFor(token, request)
          /\ token.issuedAt - token.attestation.verifiedAt <= request.maxAge

TokensCertified == \A t \in tokens : t \in IssuableTokens /\ Certified(t)

(* What every event's token is.                                             *)
EventsAuthentic ==
    \A s \in Subjects : \A i \in 1 .. Len(ledgers[s]) :
        /\ ledgers[s][i].token \in tokens
        /\ ledgers[s][i].type = "CONSUMED" =>
             /\ ledgers[s][i].token.issuedAt <= ledgers[s][i].occurredAt
             /\ ledgers[s][i].occurredAt <= ledgers[s][i].token.expiresAt

IInv == TypeOK /\ LedgersAreSequences /\ TokensCertified /\ EventsAuthentic /\ AtMostOneTerminal

-----------------------------------------------------------------------------
(* Tokens that may be issued belong to subjects.                            *)
LEMMA IssuableSubject ==
    ASSUME NEW t \in IssuableTokens
    PROVE  t.subject \in Subjects
BY RequestAssumption DEF IssuableTokens, Token

(* The policy a worker reads has a generation.                              *)
LEMMA LockedGeneration ==
    ASSUME TypeOK
    PROVE  Locked(Boot).generation \in Nat
BY BootIsConfig, BootAssumption DEF TypeOK, Locked, CreateBootstrapPolicy

(* One appended event of an authentic token that has none yet, filed under  *)
(* its subject, keeps everything that is said about ledgers.                *)
LEMMA AppendKeepsLedgers ==
    ASSUME IInv,
           NEW token \in tokens, NEW type \in EventType, NEW now \in Times, NEW expected,
           type = "CONSUMED" => token.issuedAt <= now /\ now <= token.expiresAt,
           AppendTerminalEvent(token, type, now, expected),
           UNCHANGED tokens
    PROVE  /\ LedgersAreSequences' /\ TokensCertified' /\ EventsAuthentic' /\ AtMostOneTerminal'
           /\ DOMAIN ledgers' = Subjects
           /\ \A s \in Subjects : \A i \in 1 .. Len(ledgers'[s]) :
                /\ ledgers'[s][i].token.subject = s
                /\ ledgers'[s][i].occurredAt \in Times
                /\ ledgers'[s][i].generation = i
<1> DEFINE subject == token.subject
           old == ledgers[subject]
           event == [type       |-> type,
                     token      |-> token,
                     occurredAt |-> now,
                     generation |-> Len(old) + 1]
           new == Append(old, event)
<1>1. token \in IssuableTokens /\ subject \in Subjects
  BY IssuableSubject DEF IInv, TokensCertified
<1>2. old \in Seq(Event) /\ Len(old) \in Nat /\ DOMAIN old = 1 .. Len(old)
  BY <1>1 DEF IInv, LedgersAreSequences
<1>3. event \in Event
  BY <1>1, <1>2 DEF Event
<1>4. /\ DOMAIN ledgers = Subjects
      /\ ledgers' = [ledgers EXCEPT ![subject] = new]
      /\ \A i \in 1 .. Len(old) : old[i].token # token
  BY <1>2 DEF AppendTerminalEvent, Generation, TerminalEvents, IInv, TypeOK
<1>5. /\ new \in Seq(Event)
      /\ Len(new) = Len(old) + 1
      /\ new[Len(old) + 1] = event
      /\ \A i \in 1 .. Len(old) : new[i] = old[i]
  BY <1>2, <1>3
<1>6. /\ DOMAIN ledgers' = Subjects
      /\ ledgers'[subject] = new
      /\ \A s \in Subjects : s # subject => ledgers'[s] = ledgers[s]
  BY <1>1, <1>4
<1> HIDE DEF new, event, old, subject
<1>7. /\ event.token = token /\ event.type = type /\ event.occurredAt = now
      /\ event.generation = Len(old) + 1
      /\ token.subject = subject
      /\ old = ledgers[subject]
  BY DEF event, subject, old
<1>8. LedgersAreSequences'
  BY <1>5, <1>6 DEF IInv, LedgersAreSequences
<1>9. TokensCertified'
  BY DEF IInv, TokensCertified
<1>10. EventsAuthentic'
  <2> SUFFICES ASSUME NEW s \in Subjects, NEW i \in 1 .. Len(ledgers'[s])
               PROVE  /\ ledgers'[s][i].token \in tokens
                      /\ ledgers'[s][i].type = "CONSUMED" =>
                           /\ ledgers'[s][i].token.issuedAt <= ledgers'[s][i].occurredAt
                           /\ ledgers'[s][i].occurredAt <= ledgers'[s][i].token.expiresAt
    BY DEF EventsAuthentic
  <2>1. CASE s # subject
    BY <2>1, <1>6 DEF IInv, EventsAuthentic
  <2>2. CASE s = subject /\ i \in 1 .. Len(old)
    BY <2>2, <1>1, <1>5, <1>6, <1>7 DEF IInv, EventsAuthentic
  <2>3. CASE s = subject /\ i = Len(old) + 1
    BY <2>3, <1>5, <1>6, <1>7
  <2> QED BY <2>1, <2>2, <2>3, <1>2, <1>5, <1>6
<1>11. \A s \in Subjects : \A i \in 1 .. Len(ledgers'[s]) :
          /\ ledgers'[s][i].token.subject = s
          /\ ledgers'[s][i].occurredAt \in Times
          /\ ledgers'[s][i].generation = i
  <2> TAKE s \in Subjects
  <2> TAKE i \in 1 .. Len(ledgers'[s])
  <2>1. CASE s # subject
    BY <2>1, <1>6 DEF IInv, TypeOK
  <2>2. CASE s = subject /\ i \in 1 .. Len(old)
    BY <2>2, <1>1, <1>5, <1>6, <1>7 DEF IInv, TypeOK
  <2>3. CASE s = subject /\ i = Len(old) + 1
    BY <2>3, <1>5, <1>6, <1>7
  <2> QED BY <2>1, <2>2, <2>3, <1>2, <1>5, <1>6
<1>12. AtMostOneTerminal'
  <2> SUFFICES ASSUME NEW s \in Subjects, NEW u \in Subjects,
                      NEW i \in 1 .. Len(ledgers'[s]), NEW j \in 1 .. Len(ledgers'[u]),
                      ledgers'[s][i].token = ledgers'[u][j].token
               PROVE  s = u /\ i = j
    BY DEF AtMostOneTerminal
  <2>1. s = u
    BY <1>11
  <2>2. CASE s # subject
    BY <2>1, <2>2, <1>6 DEF IInv, AtMostOneTerminal
  <2>3. CASE s = subject /\ i \in 1 .. Len(old) /\ j \in 1 .. Len(old)
    BY <2>1, <2>3, <1>5, <1>6, <1>7 DEF IInv, AtMostOneTerminal
  <2>4. CASE s = subject /\ (i = Len(old) + 1 <=> j = Len(old) + 1)
    BY <2>1, <2>3, <2>4, <1>2, <1>5, <1>6
  <2>5. CASE s = subject /\ ~(i = Len(old) + 1 <=> j = Len(old) + 1)
    BY <2>1, <2>5, <1>2, <1>4, <1>5, <1>6, <1>7
  <2> QED BY <2>2, <2>4, <2>5
<1> QED BY <1>6, <1>8, <1>9, <1>10, <1>11, <1>12

-----------------------------------------------------------------------------
(* The invariant holds initially.                                           *)
LEMMA InitIInv == Init => IInv
<1> SUFFICES ASSUME Init PROVE IInv
  OBVIOUS
<1>1. \A s \in Subjects : ledgers[s] \in Seq(Event) /\ Len(ledgers[s]) = 0
  BY DEF Init
<1> QED BY <1>1 DEF Init, PolicyInit, IInv, TypeOK, LedgersAreSequences, TokensCertified,
                    EventsAuthentic, AtMostOneTerminal

(* A rotation of the trust policy touches neither ledgers nor workers.      *)
LEMMA RotateIInv == IInv /\ RotatePolicy => IInv'
<1> SUFFICES ASSUME IInv, RotatePolicy PROVE IInv'
  OBVIOUS
<1>1. policy'.generation \in Nat
  BY LockedGeneration DEF IInv, RotatePolicy, Advance, SuccessorPolicy
<1> QED BY <1>1 DEF RotatePolicy, workerVars, IInv, TypeOK, LedgersAreSequences, TokensCertified,
                    EventsAuthentic, AtMostOneTerminal

(* Reading the policy starts a worker on one of the requests.               *)
LEMMA ServerEnforcementIInv ==
    ASSUME NEW w \in Workers, NEW request \in Requests, NEW now \in Times
    PROVE  IInv /\ ServerEnforcement(w, request, now) => IInv'
<1> SUFFICES ASSUME IInv, ServerEnforcement(w, request, now) PROVE IInv'
  OBVIOUS
<1>1. policy'.generation \in Nat
  BY LockedGeneration DEF IInv, ServerEnforcement, ReadOrBootstrap
<1>2. /\ DOMAIN worker' = Workers
      /\ \A v \in Workers :
            \/ worker'[v] = Idle
            \/ worker'[v].request \in Requests /\ worker'[v].enforcement.now \in Times
  BY DEF IInv, TypeOK, ServerEnforcement
<1> QED BY <1>1, <1>2 DEF ServerEnforcement, IInv, TypeOK, LedgersAreSequences, TokensCertified,
                          EventsAuthentic, AtMostOneTerminal

(* A worker that ends leaves the others as they are.                        *)
LEMMA DoneKeepsWorkers ==
    ASSUME TypeOK, NEW w \in Workers, Done(w)
    PROVE  /\ DOMAIN worker' = Workers
           /\ \A v \in Workers :
                 \/ worker'[v] = Idle
                 \/ worker'[v].request \in Requests /\ worker'[v].enforcement.now \in Times
BY DEF TypeOK, Done

(* An issued token is certified and belongs to its attestation's subject.   *)
LEMMA IssueIInv == ASSUME NEW w \in Workers PROVE IInv /\ IssueUseToken(w) => IInv'
<1> SUFFICES ASSUME IInv, IssueUseToken(w) PROVE IInv'
  OBVIOUS
<1> DEFINE r == worker[w].request
           now == worker[w].enforcement.now
           token == Token(r.attestation, r.receipt, now, r.ttl)
<1>1. r \in Requests /\ now \in Times /\ r.operation = "issue_use_token"
  BY DEF IInv, TypeOK, IssueUseToken, Running
<1>2. /\ r.receipt.subject \in Subjects
      /\ r.attestation.verifiedAt \in Nat
      /\ r.ttl \in Int
  BY <1>1, RequestAssumption
<1>3. /\ RequireAuthority(r.proof, IssueAction(r.attestation, r.receipt, r.context, r.ttl, now),
                          "USE_TOKEN_ISSUER", r.receipt.subject, worker[w].enforcement)
      /\ r.ttl > 0
      /\ r.attestation \in Attested /\ r.attestation.receipt = r.receipt
      /\ r.attestation.context = r.context
      /\ r.attestation.verifiedAt <= now /\ now - r.attestation.verifiedAt <= r.maxAge
      /\ r.receipt.verdict = "PASS"
      /\ tokens' = tokens \cup {token}
      /\ Done(w)
      /\ UNCHANGED <<policy, ledgers>>
  BY DEF IssueUseToken, VerifyAttestation
<1>4. token \in IssuableTokens
  BY <1>1 DEF IssuableTokens
<1>5. /\ token.attestation = r.attestation /\ token.subject = r.receipt.subject
      /\ token.context = r.context /\ token.issuedAt = now /\ token.expiresAt = now + r.ttl
      /\ token = Token(r.attestation, r.receipt, now, r.ttl)
  BY <1>3 DEF Token
<1>6. /\ token.subject \in Subjects
      /\ token.issuedAt \in Times
      /\ token.expiresAt > token.issuedAt
  <2> HIDE DEF r, now
  <2>1. now \in Int /\ r.ttl \in Int /\ r.ttl > 0
    BY <1>1, <1>2, <1>3, TimesAssumption
  <2>2. now + r.ttl > now
    BY <2>1
  <2> HIDE DEF token
  <2> QED BY <1>1, <1>2, <1>5, <2>2
<1> HIDE DEF token
<1>7. AskedFor(token, r)
  <2>1. r.proof.action = IssueAction(r.attestation, r.receipt, r.context, r.ttl, now)
    BY <1>3 DEF RequireAuthority
  <2>2. /\ "USE_TOKEN_ISSUER" \in r.proof.grant.roles /\ r.receipt.subject \in r.proof.grant.scopes
        /\ Within(now, r.proof.grant.validFrom, r.proof.grant.validUntil)
    BY <1>3 DEF RequireAuthority, VerifyGrant
  <2> QED BY <1>1, <1>5, <2>1, <2>2 DEF AskedFor
<1>8. Certified(token)
  BY <1>1, <1>3, <1>5, <1>7 DEF Certified
<1>9. \A t \in tokens' : t \in tokens \/ t = token
  BY <1>3
<1>10. TypeOK'
  BY <1>3, <1>6, <1>9, DoneKeepsWorkers DEF IInv, TypeOK
<1>11. TokensCertified'
  BY <1>4, <1>8, <1>9 DEF IInv, TokensCertified
<1>12. EventsAuthentic'
  BY <1>3 DEF IInv, EventsAuthentic
<1> QED BY <1>3, <1>10, <1>11, <1>12 DEF IInv, LedgersAreSequences, AtMostOneTerminal

(* What a ledger transaction appends, whether it consumes or revokes.       *)
LEMMA LedgerTransaction ==
    ASSUME NEW w \in Workers, IInv, ConsumeUseToken(w) \/ RevokeUseToken(w)
    PROVE  \E token \in tokens, type \in EventType, now \in Times :
              /\ type = "CONSUMED" => token.issuedAt <= now /\ now <= token.expiresAt
              /\ AppendTerminalEvent(token, type, now, worker[w].request.expected)
              /\ Done(w)
              /\ UNCHANGED <<policy, tokens>>
<1>1. worker[w].request \in Requests /\ worker[w].enforcement.now \in Times
  BY DEF IInv, TypeOK, ConsumeUseToken, RevokeUseToken, Running
<1>2. CASE ConsumeUseToken(w)
  BY <1>1, <1>2 DEF ConsumeUseToken, VerifyUseToken, TokenAuthentic, Within, EventType
<1>3. CASE RevokeUseToken(w)
  BY <1>1, <1>3 DEF RevokeUseToken, TokenAuthentic, EventType
<1> QED BY <1>2, <1>3

LEMMA LedgerIInv ==
    ASSUME NEW w \in Workers
    PROVE  IInv /\ (ConsumeUseToken(w) \/ RevokeUseToken(w)) => IInv'
<1> SUFFICES ASSUME IInv, ConsumeUseToken(w) \/ RevokeUseToken(w) PROVE IInv'
  OBVIOUS
<1>1. PICK token \in tokens, type \in EventType, now \in Times :
              /\ type = "CONSUMED" => token.issuedAt <= now /\ now <= token.expiresAt
              /\ AppendTerminalEvent(token, type, now, worker[w].request.expected)
              /\ Done(w)
              /\ UNCHANGED <<policy, tokens>>
  BY LedgerTransaction
<1>2. /\ LedgersAreSequences' /\ TokensCertified' /\ EventsAuthentic' /\ AtMostOneTerminal'
      /\ DOMAIN ledgers' = Subjects
      /\ \A s \in Subjects : \A i \in 1 .. Len(ledgers'[s]) :
           /\ ledgers'[s][i].token.subject = s
           /\ ledgers'[s][i].occurredAt \in Times
           /\ ledgers'[s][i].generation = i
  BY <1>1, AppendKeepsLedgers
<1>3. TypeOK'
  BY <1>1, <1>2, DoneKeepsWorkers DEF IInv, TypeOK
<1> QED BY <1>2, <1>3 DEF IInv

(* A refused request or a dead process changes its own worker only.         *)
LEMMA AbortIInv == ASSUME NEW w \in Workers PROVE IInv /\ Abort(w) => IInv'
<1> SUFFICES ASSUME IInv, Abort(w) PROVE IInv'
  OBVIOUS
<1>1. TypeOK'
  BY DoneKeepsWorkers DEF Abort, IInv, TypeOK
<1> QED BY <1>1 DEF Abort, IInv, LedgersAreSequences, TokensCertified, EventsAuthentic,
                    AtMostOneTerminal

LEMMA NextIInv == IInv /\ [Next]_vars => IInv'
<1> SUFFICES ASSUME IInv, [Next]_vars PROVE IInv'
  OBVIOUS
<1>1. CASE RotatePolicy
  BY <1>1, RotateIInv
<1>2. ASSUME NEW w \in Workers, NEW request \in Requests, NEW now \in Times,
             ServerEnforcement(w, request, now)
      PROVE  IInv'
  BY <1>2, ServerEnforcementIInv
<1>3. ASSUME NEW w \in Workers, IssueUseToken(w) PROVE IInv'
  BY <1>3, IssueIInv
<1>4. ASSUME NEW w \in Workers, ConsumeUseToken(w) \/ RevokeUseToken(w) PROVE IInv'
  BY <1>4, LedgerIInv
<1>5. ASSUME NEW w \in Workers, Abort(w) PROVE IInv'
  BY <1>5, AbortIInv
<1>6. CASE UNCHANGED vars
  BY <1>6 DEF vars, IInv, TypeOK, LedgersAreSequences, TokensCertified, EventsAuthentic,
              AtMostOneTerminal
<1> QED BY <1>1, <1>2, <1>3, <1>4, <1>5, <1>6 DEF Next

THEOREM Invariance == Spec => []IInv
BY InitIInv, NextIInv, PTL DEF Spec

(* Ledgers hold events of their own subject, and workers execute requests   *)
(* clients sent.                                                            *)
THEOREM TypeCorrect == Spec => []TypeOK
<1>1. IInv => TypeOK
  BY DEF IInv
<1> QED BY <1>1, Invariance, PTL

(* I-62: no race, retry or crash of any number of workers gives a token a   *)
(* second terminal event (consumption.py, _append_terminal_event).          *)
THEOREM OneTerminalEvent == Spec => []AtMostOneTerminal
<1>1. IInv => AtMostOneTerminal
  BY DEF IInv
<1> QED BY <1>1, Invariance, PTL

(* I-60, I-61: whatever is spent was issued because an issuer of its subject *)
(* asked for it, for an attestation of a passed receipt that was then not    *)
(* older than the request allowed, and it was consumed inside its window.    *)
THEOREM CapabilityAlways == Spec => []CapabilityChain
<1>1. IInv => CapabilityChain
  <2> SUFFICES ASSUME IInv, NEW s \in Subjects, NEW i \in DOMAIN ledgers[s], NEW e, e = ledgers[s][i]
               PROVE  LET token == e.token
                          attestation == token.attestation
                      IN /\ token \in tokens
                         /\ attestation \in Attested
                         /\ attestation.receipt.verdict = "PASS"
                         /\ attestation.receipt.subject = token.subject
                         /\ attestation.context = token.context
                         /\ attestation.verifiedAt <= token.issuedAt
                         /\ \E request \in Requests :
                               /\ AskedFor(token, request)
                               /\ token.issuedAt - attestation.verifiedAt <= request.maxAge
                         /\ e.type = "CONSUMED" => Within(e.occurredAt, token.issuedAt, token.expiresAt)
    BY DEF CapabilityChain, Events
  <2>1. i \in 1 .. Len(ledgers[s])
    BY DEF IInv, LedgersAreSequences
  <2>2. e.token \in tokens /\ Certified(e.token)
    BY <2>1 DEF IInv, EventsAuthentic, TokensCertified
  <2>3. e.type = "CONSUMED" => Within(e.occurredAt, e.token.issuedAt, e.token.expiresAt)
    BY <2>1 DEF IInv, EventsAuthentic, Within
  <2> QED BY <2>2, <2>3 DEF Certified
<1> QED BY <1>1, Invariance, PTL

-----------------------------------------------------------------------------
(* Who may append.  A process reads the policy before it opens the ledger,  *)
(* and others rotate in between.  What it read is a policy the database has *)
(* held: linked are the m policies one comes to from p by going back to     *)
(* what was replaced.                                                       *)
Linked(p, past, m) ==
    /\ past[0] = p
    /\ \A n \in 0 .. m : /\ past[n] # NoPolicy
                         /\ past[n].generation = p.generation - n
                         /\ past[n].generation \in Nat
    /\ \A n \in 1 .. m : past[n] = past[n - 1].previous

WasHeld(p, roots, generation) ==
    \E m \in 0 .. MaxGeneration : \E past :
        /\ Linked(p, past, m)
        /\ past[m].roots = roots
        /\ past[m].generation = generation

ReadersInform ==
    \A w \in Workers :
        worker[w] # Idle =>
            WasHeld(policy, worker[w].enforcement.roots, worker[w].enforcement.generation)

LEMMA HeldNow ==
    ASSUME NEW p, p # NoPolicy, p.generation \in Nat
    PROVE  WasHeld(p, p.roots, p.generation)
<1>1. PICK past : past = [n \in {0} |-> p]
  OBVIOUS
<1>2. past[0] = p /\ 0 \in 0 .. MaxGeneration /\ p.generation - 0 = p.generation
  BY <1>1, BoundAssumption
<1>3. Linked(p, past, 0)
  BY <1>2 DEF Linked
<1> QED BY <1>2, <1>3 DEF WasHeld

(* A rotation puts one more policy before those held.                       *)
LEMMA HeldLonger ==
    ASSUME NEW roots, NEW generation, WasHeld(policy, roots, generation),
           NEW proposal, NEW now, Advance(Boot, proposal, now)
    PROVE  WasHeld(policy', roots, generation)
<1>1. PICK m, past :
          /\ m \in 0 .. MaxGeneration /\ Linked(policy, past, m)
          /\ past[m].roots = roots /\ past[m].generation = generation
  BY DEF WasHeld
<1>2. /\ past[0] = policy /\ policy # NoPolicy /\ policy.generation \in Nat
      /\ policy.generation - m \in Nat /\ m \in Nat
  BY <1>1, BoundAssumption DEF Linked
<1>3. /\ policy'.generation = policy.generation + 1 /\ policy'.previous = policy
      /\ policy.generation < MaxGeneration
  BY <1>2 DEF Advance, Locked, SuccessorPolicy
<1>4. m + 1 \in 0 .. MaxGeneration
  BY <1>2, <1>3, BoundAssumption
<1>5. policy' # NoPolicy
  BY <1>2, <1>3 DEF NoPolicy
<1>6. PICK longer : longer = [n \in 0 .. m + 1 |-> IF n = 0 THEN policy' ELSE past[n - 1]]
  OBVIOUS
<1>7. /\ longer[0] = policy'
      /\ \A n \in 1 .. m + 1 : n - 1 \in 0 .. m /\ longer[n] = past[n - 1]
  BY <1>2, <1>6
<1>8. ASSUME NEW n \in 0 .. m + 1
      PROVE  /\ longer[n] # NoPolicy
             /\ longer[n].generation = policy'.generation - n
             /\ longer[n].generation \in Nat
  <2>1. CASE n = 0
    BY <2>1, <1>2, <1>3, <1>5, <1>7
  <2>2. CASE n # 0
    <3>1. n \in 1 .. m + 1 /\ n - 1 \in 0 .. m /\ longer[n] = past[n - 1]
      BY <2>2, <1>2, <1>7
    <3>2. /\ past[n - 1] # NoPolicy /\ past[n - 1].generation = policy.generation - (n - 1)
          /\ past[n - 1].generation \in Nat
      BY <1>1, <3>1 DEF Linked
    <3>3. policy.generation - (n - 1) = policy'.generation - n
      BY <1>2, <1>3, <3>1
    <3> QED BY <3>1, <3>2, <3>3
  <2> QED BY <2>1, <2>2
<1>9. ASSUME NEW n \in 1 .. m + 1 PROVE longer[n] = longer[n - 1].previous
  <2>1. CASE n = 1
    BY <2>1, <1>2, <1>3, <1>7
  <2>2. CASE n # 1
    <3>1. n - 1 \in 1 .. m /\ n - 1 \in 1 .. m + 1 /\ longer[n] = past[n - 1]
      BY <2>2, <1>2, <1>7
    <3>2. longer[n - 1] = past[(n - 1) - 1]
      BY <1>7, <3>1
    <3>3. past[n - 1] = past[(n - 1) - 1].previous
      BY <1>1, <3>1 DEF Linked
    <3> QED BY <3>1, <3>2, <3>3
  <2> QED BY <2>1, <2>2
<1>10. Linked(policy', longer, m + 1)
  BY <1>7, <1>8, <1>9 DEF Linked
<1>11. longer[m + 1] = past[m]
  <2>1. \A k \in Nat : k + 1 \in 1 .. k + 1 /\ (k + 1) - 1 = k
    OBVIOUS
  <2>2. m \in Nat
    BY <1>2, Zenon
  <2>3. m + 1 \in 1 .. m + 1 /\ (m + 1) - 1 = m
    BY <2>1, <2>2, Zenon
  <2> QED BY <1>7, <2>3, Zenon
<1> QED BY <1>1, <1>4, <1>10, <1>11 DEF WasHeld

LEMMA InformedInductive == IInv /\ ReadersInform /\ [Next]_vars => ReadersInform'
<1> SUFFICES ASSUME IInv, ReadersInform, [Next]_vars, NEW w \in Workers, worker'[w] # Idle
             PROVE  WasHeld(policy, worker[w].enforcement.roots, worker[w].enforcement.generation)'
  BY DEF ReadersInform
<1>1. CASE RotatePolicy
  <2>1. worker' = worker /\ \E proposal, now : Advance(Boot, proposal, now)
    BY <1>1 DEF RotatePolicy, workerVars
  <2>2. PICK roots, generation :
            roots = worker[w].enforcement.roots /\ generation = worker[w].enforcement.generation
    OBVIOUS
  <2>3. WasHeld(policy, roots, generation)
    BY <2>1, <2>2 DEF ReadersInform
  <2>4. WasHeld(policy', roots, generation)
    BY <2>1, <2>3, HeldLonger
  <2> QED BY <2>1, <2>2, <2>4
<1>2. CASE \E v \in Workers, request \in Requests, now \in Times : ServerEnforcement(v, request, now)
  <2>1. PICK v \in Workers, request \in Requests, now \in Times : ServerEnforcement(v, request, now)
    BY <1>2
  <2>2. CASE w = v
    <3>1. /\ worker'[w].enforcement.roots = policy'.roots
          /\ worker'[w].enforcement.generation = policy'.generation
      BY <2>1, <2>2 DEF ServerEnforcement, ReadOrBootstrap, IInv, TypeOK
    <3>2. policy' = Locked(Boot)
      BY <2>1 DEF ServerEnforcement, ReadOrBootstrap
    <3>3. policy' # NoPolicy /\ policy'.generation \in Nat
      <4>1. policy'.generation \in Nat
        BY <3>2, LockedGeneration DEF IInv
      <4> QED BY <4>1 DEF NoPolicy
    <3>4. WasHeld(policy', policy'.roots, policy'.generation)
      BY <3>3, HeldNow
    <3> QED BY <3>1, <3>4 DEF WasHeld
  <2>3. CASE w # v
    <3>1. worker'[w] = worker[w]
      BY <2>1, <2>3 DEF ServerEnforcement, IInv, TypeOK
    <3>2. WasHeld(policy, worker[w].enforcement.roots, worker[w].enforcement.generation)
      BY <3>1 DEF ReadersInform
    <3>3. policy # NoPolicy
      <4>1. PICK m, past : m \in 0 .. MaxGeneration /\ Linked(policy, past, m)
        BY <3>2 DEF WasHeld
      <4>2. 0 \in 0 .. m
        BY <4>1, BoundAssumption
      <4> QED BY <4>1, <4>2 DEF Linked
    <3>4. policy' = policy
      BY <2>1, <3>3 DEF ServerEnforcement, ReadOrBootstrap, Locked
    <3> QED BY <3>1, <3>2, <3>4 DEF WasHeld, Linked
  <2> QED BY <2>2, <2>3
<1>3. CASE policy' = policy /\ (worker' = worker \/ \E v \in Workers : Done(v))
  <2>1. worker'[w] = worker[w]
    BY <1>3 DEF Done, IInv, TypeOK
  <2>2. WasHeld(policy, worker[w].enforcement.roots, worker[w].enforcement.generation)
    BY <2>1 DEF ReadersInform
  <2> QED BY <1>3, <2>1, <2>2 DEF WasHeld, Linked
<1> QED BY <1>1, <1>2, <1>3 DEF Next, vars, IssueUseToken, ConsumeUseToken, RevokeUseToken, Abort

-----------------------------------------------------------------------------
(* Going back as far as the policies held go gives the policies held.       *)
GoneBack(F, n) ==
    IF n = 0 THEN policy ELSE IF F[n - 1] = NoPolicy THEN NoPolicy ELSE F[n - 1].previous

Back == CHOOSE F : F = [n \in 0 .. MaxGeneration |-> GoneBack(F, n)]

LEMMA NatMin ==
    ASSUME NEW T \in SUBSET Nat, T # {}
    PROVE  \E m \in T : \A k \in T : m <= k
<1> DEFINE R == OpToRel(<, Nat)
<1>1. IsWellFoundedOn(R, Nat)
  BY NatLessThanWellFounded
<1>2. PICK m \in T : \A k \in T : ~(<<k, m>> \in R)
  <2> HIDE DEF R
  <2> QED BY <1>1, WFMin, Zenon
<1>3. \A k \in T : ~(k < m)
  BY <1>2 DEF OpToRel
<1> QED BY <1>3

LEMMA BackIs == \A n \in 0 .. MaxGeneration : Back[n] = GoneBack(Back, n)
<1> DEFINE Good(m) == \E F : F = [n \in 0 .. m |-> GoneBack(F, n)]
           T == {m \in Nat : ~Good(m)}
<1>1. T = {}
  <2> SUFFICES ASSUME T # {} PROVE FALSE
    OBVIOUS
  <2>1. PICK m \in T : \A k \in T : m <= k
    <3>1. T \in SUBSET Nat
      OBVIOUS
    <3> HIDE DEF T
    <3> QED BY <3>1, NatMin
  <2>2. m \in Nat /\ ~Good(m)
    BY <2>1
  <2>3. m # 0
    <3>1. PICK F : F = [n \in 0 .. 0 |-> policy]
      OBVIOUS
    <3>2. F = [n \in 0 .. 0 |-> GoneBack(F, n)]
      BY <3>1 DEF GoneBack
    <3> QED BY <2>2, <3>2
  <2>4. Good(m - 1)
    <3>1. m - 1 \in Nat /\ m - 1 \notin T
      <4> HIDE DEF T
      <4> QED BY <2>1, <2>2, <2>3
    <3> HIDE DEF Good
    <3> QED BY <3>1
  <2>5. PICK F : F = [n \in 0 .. m - 1 |-> GoneBack(F, n)]
    BY <2>4
  <2> DEFINE G == [n \in 0 .. m |-> IF n = m THEN GoneBack(F, m) ELSE F[n]]
  <2>6. ASSUME NEW n \in 0 .. m PROVE G[n] = GoneBack(G, n)
    <3>1. n # 0 => G[n - 1] = F[n - 1]
      BY <2>2
    <3>2. GoneBack(G, n) = GoneBack(F, n)
      <4> HIDE DEF G
      <4> QED BY <3>1 DEF GoneBack
    <3>3. G[n] = GoneBack(F, n)
      <4>1. CASE n = m
        BY <4>1
      <4>2. CASE n # m
        <5>1. n \in 0 .. m - 1 /\ G[n] = F[n]
          BY <2>2, <4>2
        <5> HIDE DEF G
        <5> QED BY <2>5, <5>1
      <4> QED BY <4>1, <4>2
    <3> QED BY <3>2, <3>3
  <2>7. G = [n \in 0 .. m |-> GoneBack(G, n)]
    <3>1. G = [n \in 0 .. m |-> G[n]]
      OBVIOUS
    <3> HIDE DEF G
    <3> QED BY <2>6, <3>1
  <2>8. Good(m)
    <3> HIDE DEF G
    <3> QED BY <2>7
  <2> QED BY <2>2, <2>8
<1>2. Good(MaxGeneration)
  <2> HIDE DEF Good
  <2> QED BY <1>1, BoundAssumption
<1>3. Back = [n \in 0 .. MaxGeneration |-> GoneBack(Back, n)]
  BY <1>2 DEF Back
<1> QED BY <1>3

LEMMA WasHeldIsHeld ==
    ASSUME NEW roots, NEW generation, WasHeld(policy, roots, generation)
    PROVE  \E p \in PoliciesHeld : p.roots = roots /\ p.generation = generation
<1>1. PICK m, past :
          /\ m \in 0 .. MaxGeneration /\ Linked(policy, past, m)
          /\ past[m].roots = roots /\ past[m].generation = generation
  BY DEF WasHeld
<1> DEFINE T == {n \in 0 .. m : Back[n] # past[n]}
<1>2. m \in Nat /\ \A n \in 0 .. m : n \in 0 .. MaxGeneration
  BY <1>1, BoundAssumption
<1>3. T = {}
  <2> SUFFICES ASSUME T # {} PROVE FALSE
    OBVIOUS
  <2>1. PICK n \in T : \A k \in T : n <= k
    <3>1. T \in SUBSET Nat
      BY <1>2
    <3> HIDE DEF T
    <3> QED BY <3>1, NatMin
  <2>2. n \in 0 .. m /\ Back[n] # past[n]
    BY <2>1
  <2>3. Back[n] = GoneBack(Back, n)
    BY <1>2, <2>2, BackIs
  <2>4. n # 0
    BY <1>1, <2>2, <2>3 DEF GoneBack, Linked
  <2>5. n - 1 \in 0 .. m /\ n \in 1 .. m /\ n - 1 \notin T
    <3>1. n - 1 \in 0 .. m /\ n \in 1 .. m
      BY <1>2, <2>2, <2>4
    <3> HIDE DEF T
    <3> QED BY <1>2, <2>1, <2>2, <3>1
  <2>6. Back[n - 1] = past[n - 1] /\ past[n - 1] # NoPolicy /\ past[n] = past[n - 1].previous
    BY <1>1, <2>5 DEF Linked
  <2> QED BY <2>2, <2>3, <2>4, <2>6 DEF GoneBack
<1>4. Back[m] = past[m] /\ past[m] # NoPolicy
  <2>1. m \in 0 .. m
    BY <1>2
  <2> QED BY <1>1, <1>3, <2>1 DEF Linked
<1>5. Back[m] \in PoliciesHeld
  <2>1. PoliciesHeld = {Back[n] : n \in 0 .. MaxGeneration} \ {NoPolicy}
    BY DEF PoliciesHeld, Back, GoneBack
  <2> QED BY <1>1, <1>4, <2>1
<1> QED BY <1>1, <1>4, <1>5

(* The event that a step appends to the ledger of s is what some process    *)
(* was asked for.                                                           *)
Authorised(s) ==
    \E w \in Workers :
        /\ worker[w] # Idle
        /\ worker[w].request.operation # "issue_use_token"
        /\ LET proof == worker[w].request.proof
               event == ledgers'[s][Len(ledgers[s]) + 1]
           IN /\ ledgers'[s] = Append(ledgers[s], event)
              /\ proof.action.token = event.token
              /\ proof.action.generation = Len(ledgers[s])
              /\ proof.action.at = event.occurredAt
              /\ s \in proof.grant.scopes
              /\ (IF event.type = "CONSUMED" THEN "USE_TOKEN_CONSUMER"
                                             ELSE "USE_TOKEN_REVOKER") \in proof.grant.roles
              /\ \E p \in PoliciesHeld : GrantOf(p, proof.grant)

(* I-61, I-63: whoever appends holds a signature of exactly this event under *)
(* a grant of a policy the database holds or held (runtime_worker.py, the   *)
(* ledger transaction after _server_enforcement), however many rotations    *)
(* and ledger transactions of others come between.                          *)
THEOREM AppendsAreAuthorised == Spec => AppendsAuthorised
<1>1. Init => ReadersInform
  <2>1. Init => \A w \in Workers : worker[w] = Idle
    BY DEF Init
  <2> QED BY <2>1 DEF ReadersInform
<1>2. Spec => []ReadersInform
  BY <1>1, Invariance, InformedInductive, PTL DEF Spec
<1>3. ASSUME IInv, ReadersInform, [Next]_vars, NEW s \in Subjects, ledgers'[s] # ledgers[s]
      PROVE  Authorised(s)
  <2>1. PICK w \in Workers : ConsumeUseToken(w) \/ RevokeUseToken(w)
    BY <1>3 DEF Next, vars, RotatePolicy, workerVars, ServerEnforcement, IssueUseToken, Abort
  <2>2. PICK r, e, type, role :
           /\ r = worker[w].request /\ e = worker[w].enforcement
           /\ \/ type = "CONSUMED" /\ role = "USE_TOKEN_CONSUMER" /\ ConsumeUseToken(w)
              \/ type = "REVOKED" /\ role = "USE_TOKEN_REVOKER" /\ RevokeUseToken(w)
    BY <2>1
  <2>3. /\ worker[w] # Idle /\ r.operation # "issue_use_token"
        /\ AppendTerminalEvent(r.token, type, e.now, r.expected)
    BY <2>2 DEF ConsumeUseToken, RevokeUseToken, Running
  <2>4. \E action :
           /\ RequireAuthority(r.proof, action, role, r.token.subject, e)
           /\ action.token = r.token /\ action.at = e.now
           /\ action.generation = Len(ledgers[r.token.subject])
    <3>1. CASE type = "CONSUMED"
      <4> DEFINE action ==
                ConsumeAction(r.token, r.context, Len(ledgers[r.token.subject]), r.expected, e.now)
      <4>2. RequireAuthority(r.proof, action, role, r.token.subject, e)
        BY <2>2, <3>1 DEF ConsumeUseToken, Generation
      <4>3. /\ action.token = r.token /\ action.at = e.now
            /\ action.generation = Len(ledgers[r.token.subject])
        BY DEF ConsumeAction
      <4> HIDE DEF action
      <4> QED BY <4>2, <4>3
    <3>2. CASE type = "REVOKED"
      <4> DEFINE action ==
                RevokeAction(r.token, Len(ledgers[r.token.subject]), r.expected, e.now)
      <4>2. RequireAuthority(r.proof, action, role, r.token.subject, e)
        BY <2>2, <3>2 DEF RevokeUseToken, Generation
      <4>3. /\ action.token = r.token /\ action.at = e.now
            /\ action.generation = Len(ledgers[r.token.subject])
        BY DEF RevokeAction
      <4> HIDE DEF action
      <4> QED BY <4>2, <4>3
    <3> QED BY <2>2, <3>1, <3>2
  <2>5. /\ VerifyGrant(r.proof.grant, e)
        /\ role \in r.proof.grant.roles /\ r.token.subject \in r.proof.grant.scopes
        /\ r.proof.action.token = r.token /\ r.proof.action.at = e.now
        /\ r.proof.action.generation = Len(ledgers[r.token.subject])
    BY <2>4 DEF RequireAuthority
  <2>6. r.token.subject = s
    BY <1>3, <2>3 DEF AppendTerminalEvent, IInv, TypeOK
  <2>7. PICK event : /\ ledgers'[s] = Append(ledgers[s], event)
                     /\ event.token = r.token /\ event.type = type /\ event.occurredAt = e.now
    <3>1. PICK event : event = [type       |-> type,
                                token      |-> r.token,
                                occurredAt |-> e.now,
                                generation |-> Generation(ledgers[s]) + 1]
      OBVIOUS
    <3>2. ledgers' = [ledgers EXCEPT ![s] = Append(ledgers[s], event)]
      BY <2>3, <2>6, <3>1 DEF AppendTerminalEvent
    <3>3. ledgers'[s] = Append(ledgers[s], event)
      BY <1>3, <3>2 DEF IInv, TypeOK
    <3>4. event.token = r.token /\ event.type = type /\ event.occurredAt = e.now
      BY <3>1
    <3> QED BY <3>3, <3>4
  <2>8. ledgers'[s][Len(ledgers[s]) + 1] = event
    <3>1. ledgers[s] \in Seq(Event) /\ ledgers'[s] \in Seq(Event)
      BY <1>3, NextIInv DEF IInv, LedgersAreSequences
    <3>2. ledgers[s] \in Seq(Event \cup {event}) /\ event \in Event \cup {event}
      BY <3>1
    <3> QED BY <2>7, <3>2
  <2>9. \E p \in PoliciesHeld : GrantOf(p, r.proof.grant)
    <3>1. WasHeld(policy, e.roots, e.generation)
      BY <1>3, <2>2, <2>3 DEF ReadersInform
    <3>2. PICK p \in PoliciesHeld : p.roots = e.roots /\ p.generation = e.generation
      BY <3>1, WasHeldIsHeld
    <3> QED BY <2>5, <3>2 DEF VerifyGrant, GrantOf
  <2> QED BY <2>2, <2>3, <2>5, <2>6, <2>7, <2>8, <2>9 DEF Authorised
<1>4. IInv /\ ReadersInform /\ [Next]_vars =>
        \A s \in Subjects : ledgers'[s] # ledgers[s] => Authorised(s)
  BY <1>3
<1> QED BY <1>2, <1>4, Invariance, PTL DEF Spec, AppendsAuthorised, Authorised

-----------------------------------------------------------------------------
(* The refinement: a ledger is read as the tokens it spent, in order.       *)
Spendings(ledger) == [i \in DOMAIN ledger |-> <<ledger[i].token, ledger[i].type>>]

Histories == [s \in Subjects |-> Spendings(ledgers[s])]

(* Appending an event appends what it spends.                               *)
LEMMA SpendingsAppend ==
    ASSUME NEW ledger \in Seq(Event), NEW event \in Event
    PROVE  Spendings(Append(ledger, event)) =
             Append(Spendings(ledger), <<event.token, event.type>>)
<1> DEFINE new == Append(ledger, event)
           spent == Spendings(ledger)
           pair == <<event.token, event.type>>
<1>1. /\ Len(ledger) \in Nat /\ DOMAIN ledger = 1 .. Len(ledger)
      /\ Len(new) = Len(ledger) + 1 /\ DOMAIN new = 1 .. Len(ledger) + 1
      /\ new[Len(ledger) + 1] = event
      /\ \A i \in 1 .. Len(ledger) : new[i] = ledger[i]
  OBVIOUS
<1>2. spent \in Seq(IssuableTokens \X EventType) /\ Len(spent) = Len(ledger)
  <2>1. \A i \in 1 .. Len(ledger) : ledger[i] \in Event
    OBVIOUS
  <2>2. \A i \in 1 .. Len(ledger) :
            <<ledger[i].token, ledger[i].type>> \in IssuableTokens \X EventType
    BY <2>1 DEF Event
  <2> QED BY <1>1, <2>2, IsASeq DEF Spendings
<1>3. pair \in IssuableTokens \X EventType
  BY DEF Event
<1>4. /\ Append(spent, pair) \in Seq(IssuableTokens \X EventType)
      /\ Len(Append(spent, pair)) = Len(ledger) + 1
      /\ Append(spent, pair)[Len(ledger) + 1] = pair
      /\ \A i \in 1 .. Len(ledger) : Append(spent, pair)[i] = spent[i]
  BY <1>2, <1>3, AppendProperties
<1>5. Append(spent, pair) =
        [i \in 1 .. Len(ledger) + 1 |-> Append(spent, pair)[i]]
  BY <1>1, <1>4
<1>6. \A i \in 1 .. Len(ledger) + 1 :
        Append(spent, pair)[i] = <<new[i].token, new[i].type>>
  BY <1>1, <1>4 DEF Spendings
<1> QED BY <1>1, <1>5, <1>6 DEF Spendings

(* A ledger transaction spends one token, once, in the abstract history.    *)
LEMMA LedgerSpends ==
    ASSUME IInv,
           NEW token \in tokens, NEW type \in EventType, NEW now \in Times, NEW expected,
           AppendTerminalEvent(token, type, now, expected),
           UNCHANGED tokens
    PROVE  Lifecycle!LifecycleNext
<1> DEFINE subject == token.subject
           old == ledgers[subject]
           event == [type       |-> type,
                     token      |-> token,
                     occurredAt |-> now,
                     generation |-> Len(old) + 1]
<1>1. token \in IssuableTokens /\ subject \in Subjects
  BY IssuableSubject DEF IInv, TokensCertified
<1>2. old \in Seq(Event) /\ Len(old) \in Nat /\ event \in Event
  <2>1. old \in Seq(Event) /\ Len(old) \in Nat
    BY <1>1 DEF IInv, LedgersAreSequences
  <2> HIDE DEF old
  <2> QED BY <1>1, <2>1 DEF Event
<1>3. /\ DOMAIN ledgers = Subjects
      /\ ledgers' = [ledgers EXCEPT ![subject] = Append(old, event)]
  BY DEF AppendTerminalEvent, Generation, IInv, TypeOK
<1>4. Spendings(Append(old, event)) = Append(Spendings(old), <<token, type>>)
  BY <1>2, SpendingsAppend
<1>5. Histories' = [Histories EXCEPT ![subject] = Append(@, <<token, type>>)]
  <2>1. \A s \in Subjects : s # subject => ledgers'[s] = ledgers[s]
    BY <1>1, <1>3
  <2>2. ledgers'[subject] = Append(old, event)
    BY <1>1, <1>3
  <2> HIDE DEF subject, event
  <2>3. \A s \in Subjects :
            Spendings(ledgers'[s]) =
              IF s = subject THEN Append(Spendings(old), <<token, type>>)
                             ELSE Spendings(ledgers[s])
    BY <2>1, <2>2, <1>4
  <2> QED BY <2>3, <1>1 DEF Histories
<1>6. \A any \in Subjects : token \notin Lifecycle!Spent(any)
  <2> SUFFICES ASSUME NEW any \in Subjects, NEW i \in 1 .. Len(Histories[any]),
                      Histories[any][i][1] = token
               PROVE  FALSE
    BY DEF Lifecycle!Spent, Histories, Spendings
  <2>1. ledgers[any] \in Seq(Event)
    BY DEF IInv, LedgersAreSequences
  <2>2. i \in 1 .. Len(ledgers[any]) /\ ledgers[any][i].token = token
    <3>1. /\ Histories[any] = [j \in 1 .. Len(ledgers[any]) |->
                                 <<ledgers[any][j].token, ledgers[any][j].type>>]
          /\ Len(ledgers[any]) \in Nat
      BY <2>1 DEF Histories, Spendings
    <3>2. Len(Histories[any]) = Len(ledgers[any])
      BY <3>1
    <3> QED BY <3>1, <3>2
  <2>3. any = subject
    BY <2>2 DEF IInv, TypeOK
  <2>4. i \in TerminalEvents(old, token)
    BY <2>1, <2>2, <2>3 DEF TerminalEvents
  <2> QED BY <2>4 DEF AppendTerminalEvent
<1>7. Lifecycle!Spend(subject, token, type)
  BY <1>5, <1>6 DEF Lifecycle!Spend, Histories, Spendings
<1> QED BY <1>1, <1>7 DEF Lifecycle!LifecycleNext, Lifecycle!Kinds, EventType

(* The plane implements TokenLifecycle: no step outside its ledger          *)
(* transactions spends anything, and no step takes an issued token back.    *)
THEOREM RefinesLifecycle == Spec => ImplementsLifecycle
<1>1. Init => Lifecycle!LifecycleInit
  <2> SUFFICES ASSUME Init PROVE Lifecycle!LifecycleInit
    OBVIOUS
  <2>1. \A s \in Subjects : Spendings(ledgers[s]) = <<>>
    BY DEF Init, Spendings
  <2> QED BY <2>1 DEF Init, Lifecycle!LifecycleInit, Spendings
<1>2. IInv /\ [Next]_vars => [Lifecycle!LifecycleNext]_<<tokens, Histories>>
  <2> SUFFICES ASSUME IInv, [Next]_vars
               PROVE  Lifecycle!LifecycleNext \/ UNCHANGED <<tokens, ledgers>>
    BY DEF Histories
  <2>1. CASE RotatePolicy \/ UNCHANGED vars
    BY <2>1 DEF RotatePolicy, workerVars, vars
  <2>2. ASSUME NEW w \in Workers, NEW request \in Requests, NEW now \in Times,
               ServerEnforcement(w, request, now)
        PROVE  UNCHANGED <<tokens, ledgers>>
    BY <2>2 DEF ServerEnforcement
  <2>3. ASSUME NEW w \in Workers, IssueUseToken(w) PROVE Lifecycle!LifecycleNext
    <3> DEFINE token == Token(worker[w].request.attestation, worker[w].request.receipt,
                              worker[w].enforcement.now, worker[w].request.ttl)
    <3>1. /\ worker[w].request \in Requests
          /\ worker[w].enforcement.now \in Times
          /\ worker[w].request.operation = "issue_use_token"
          /\ tokens' = tokens \cup {token}
          /\ ledgers' = ledgers
      BY <2>3 DEF IInv, TypeOK, IssueUseToken, Running
    <3>2. token \in IssuableTokens
      BY <3>1 DEF IssuableTokens
    <3>3. Lifecycle!Issue(token)
      BY <3>1 DEF Lifecycle!Issue
    <3> QED BY <3>2, <3>3 DEF Lifecycle!LifecycleNext
  <2>4. ASSUME NEW w \in Workers, ConsumeUseToken(w) \/ RevokeUseToken(w)
        PROVE  Lifecycle!LifecycleNext
    <3>1. PICK token \in tokens, type \in EventType, now \in Times :
              /\ AppendTerminalEvent(token, type, now, worker[w].request.expected)
              /\ UNCHANGED tokens
      BY <2>4, LedgerTransaction
    <3> QED BY <3>1, LedgerSpends
  <2>5. ASSUME NEW w \in Workers, Abort(w) PROVE UNCHANGED <<tokens, ledgers>>
    BY <2>5 DEF Abort
  <2> QED BY <2>1, <2>2, <2>3, <2>4, <2>5 DEF Next
<1> QED BY <1>1, <1>2, Invariance, PTL
        DEF Spec, ImplementsLifecycle, Lifecycle!LifecycleSpec, Histories, Spendings
================================================================================
