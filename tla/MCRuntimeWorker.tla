---------------------------- MODULE MCRuntimeWorker ----------------------------
(* Instance of RuntimeWorker for TLC: the policy starts with root r1 and is  *)
(* rotated to root r2; subject s1 has two tokens, s2 one; grants exist from  *)
(* both roots, and one from a key that claims to be r1.                      *)
EXTENDS RuntimeWorker, TLC

CONSTANTS r1, r2, k1, k2, k3, s1, s2, c1, c2, w1, w2

MCBoot == [roots |-> (r1 :> k1), threshold |-> 1, generation |-> 0, activatedAt |-> 0]
MCBootConfigs == {MCBoot}
MCProposals == {[roots |-> (r2 :> k2), threshold |-> 1]}
MCSubjects == {s1, s2}
MCWorkers == {w1, w2}

Grant(issuer, key, generation, roles, scopes, until) ==
    [issuer |-> issuer, issuerKey |-> key, generation |-> generation, roles |-> roles,
     scopes |-> scopes, validFrom |-> 0, validUntil |-> until]

Issuer == "USE_TOKEN_ISSUER"
Consumer == "USE_TOKEN_CONSUMER"
Revoker == "USE_TOKEN_REVOKER"

G0 == Grant(r1, k1, 0, {Issuer, Consumer, Revoker}, {s1}, 2)
G1 == Grant(r2, k2, 1, {Issuer, Consumer, Revoker}, {s1, s2}, 3)
GForged == Grant(r1, k3, 0, {Consumer}, {s1}, 3)

Receipt(subject, verdict) == [subject |-> subject, verdict |-> verdict]

Attestation(receipt, verifiedAt) == [receipt |-> receipt, context |-> c1, verifiedAt |-> verifiedAt]

Good   == Receipt(s1, "PASS")
Passed == Attestation(Good, 1)
Failed == Attestation(Receipt(s1, "FAIL"), 1)
Late   == Attestation(Good, 3)
Other  == Attestation(Receipt(s2, "PASS"), 1)
MadeUp == Attestation(Good, 2)

MCAttested == {Passed, Failed, Late, Other}

IssueFor(g, a, receipt, c, ttl, age, t) ==
    [operation |-> "issue_use_token", attestation |-> a, receipt |-> receipt, context |-> c,
     ttl |-> ttl, maxAge |-> age,
     proof |-> Proof(g, Issuer, receipt.subject, IssueAction(a, receipt, c, ttl, t), t)]

Issue(g, a, c, ttl, age, t) == IssueFor(g, a, a.receipt, c, ttl, age, t)

Consume(g, token, c, n, t) ==
    [operation |-> "consume_use_token", token |-> token, context |-> c, expected |-> n,
     proof |-> Proof(g, Consumer, token.subject, ConsumeAction(token, c, n, n, t), t)]

Revoke(g, token, n, t) ==
    [operation |-> "revoke_use_token", token |-> token, expected |-> n,
     proof |-> Proof(g, Revoker, token.subject, RevokeAction(token, n, n, t), t)]

T1 == Token(Passed, Good, 1, 1)
T2 == Token(Passed, Good, 2, 1)
T3 == Token(Other, Other.receipt, 2, 1)

(* Requests for tokens that must not be issued: of an attestation that is   *)
(* one too old, from the future, of a failed receipt, or made up; and       *)
(* requests to consume them.                                                *)
TStale  == Token(Passed, Good, 2, 2)
TLate   == Token(Late, Good, 2, 1)
TFailed == Token(Failed, Good, 1, 1)
TMadeUp == Token(MadeUp, Good, 2, 1)

MCRefused ==
    {Issue(G0, Passed, c1, 2, 0, 2),
     Issue(G0, Late, c1, 1, 1, 2),
     Issue(G0, Failed, c1, 1, 0, 1),
     IssueFor(G0, Failed, Good, c1, 1, 0, 1),
     Issue(G0, MadeUp, c1, 1, 0, 2)}
    \cup {Consume(G0, t, c1, 0, 2) : t \in {TStale, TLate, TFailed, TMadeUp}}

(* Tokens are consumed in their windows, and one before and one after.      *)
MCRequests ==
    {Issue(G0, Passed, c1, 1, 0, 1),
     Issue(G0, Passed, c1, 1, 1, 2),
     Issue(G1, Other, c1, 1, 1, 2),
     Consume(G0, T1, c1, 0, 2),
     Consume(G0, T1, c2, 0, 2),
     Consume(GForged, T1, c1, 0, 2),
     Consume(G0, T2, c1, 0, 1),
     Consume(G0, T2, c1, 0, 2),
     Consume(G0, T2, c1, 1, 2),
     Consume(G1, T1, c1, 0, 3),
     Consume(G1, T2, c1, 1, 3),
     Consume(G1, T3, c1, 0, 3),
     Revoke(G0, T1, 0, 2),
     Revoke(G0, T2, 1, 2),
     Revoke(G1, T2, 0, 3)} \cup MCRefused

Symmetry == Permutations(MCWorkers)
=================================================================================
