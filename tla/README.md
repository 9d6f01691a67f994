# A TLA+ model of the ATMAN-LATTICE runtime

This directory holds TLA+ modules that model ATMAN-LATTICE: its stateful
runtime (`model/runtime_*.py` and the modules it calls) from trust governance to
remediation, and the lineage of identity receipts. TLC configurations check them
on small instances. TLAPS proves every safety property and refinement they find to
hold for every instance; the one liveness property is model-checked. Line numbers
refer to files under `model/`; "I-n" is invariant n of `docs/v1.*-invariants.md`.

How to run: `tlc -config X.cfg M` for every row of the table of runs below, and
`tlapm M.tla` for `TrustGovernanceProofs`, `RuntimeWorkerProofs`,
`VerificationPlaneProofs`, `EvidenceLoopProofs`, `ModelRevisionProofs`,
`StructureSearchProofs`, `RemediationProofs` and `MultiverseProofs`.

## 1. The system

ATMAN-LATTICE is a set of *planes* over one SQLite database. Every request is
its own operating system process: a worker (`*_worker.py`) reads one JSON
request from stdin, works, writes one JSON response and exits. Nothing lives
longer than a request except the database and what clients keep. The time of a
process is `ATMAN_RUNTIME_NOW` of its environment, so clocks of two processes
are unrelated. A transaction is `BEGIN IMMEDIATE ... COMMIT`; a process may die
anywhere and leaves a trace only by committing.

| component | code | state | operations |
|---|---|---|---|
| trust-root governance (v1.2) | `trust_root.py`, `runtime_store.py`, `runtime_worker.py` | `trust_policy_state` (one row), `trust_transition_receipts` | get, rotate; bootstrap from the environment when the table is empty |
| authority delegation (v1.0) | `authority.py`, `enforcement.py` | none: grants and proofs are client data | sign, verify |
| authorization plane (v0.6-v1.1) | `freshness.py`, `consumption.py`, `runtime_worker.py` | `authorization_ledgers`, one per subject; tokens and attestations are client data | issue, consume, revoke (and the read-only observations and merges) |
| verification pressure (v1.6) | `verification_pressure.py` | none | admission of work into a capacity window |
| verification plane and keeper (v1.7) | `runtime_verification.py`, `verification_keeper.py` | `verification_work`, `verification_schedule` | submit, schedule, complete, evaluate, finalize |
| economy (v1.8) | `verification_economy.py`, `runtime_economy.py` | candidates, cost observations, budget allocation | submit candidate, record cost, preview, finalize allocation |
| active verification (v1.9) | `active_verification.py`, `runtime_active_verification.py` | hypotheses, likelihood models, plan | register, preview, finalize plan |
| Bayesian evidence (v1.10) | `bayesian_evidence.py`, `runtime_bayesian.py` | rules, interpretation/update/rebase history | register rule, preview, apply update |
| multi-hypothesis evidence (v1.11) | `multihypothesis*.py`, `runtime_multihypothesis.py` | distributions, models, dependencies, rules, evidence history | register x 4, preview, apply |
| calibration (v1.12) | `calibration.py`, `runtime_calibration.py` | targets, resolutions, scores, pair samples | register target, resolve, score, record pair, summaries |
| model revision (v1.13) | `model_revision.py`, `runtime_revision.py` | proposals, replays, reviews, revisions; replaces v1.11 models | propose, replay, review, apply |
| graph revision (v1.14) | `dependency_graph_revision.py`, `runtime_dependency_graph.py` | `dependency_graph_current` and its history, proposals, replays, reviews | register, propose, replay, review, apply |
| structural validation (v1.15) | `structural_validation.py`, `runtime_structural_validation.py` | policy, candidates, validations, selections, reviews, revisions | register, validate, select, review, apply |
| search budget (v1.16) | `search_budget.py`, `runtime_search_budget.py` | reservations, evaluations, selections, reviews, revisions | reserve, evaluate, select, review, apply |
| protected confirmation (v1.17) | `protected_confirmation.py`, `runtime_protected_confirmation.py` | batches, exposures, evaluations, reviews, revisions | seal, expose, evaluate, review, apply |
| replication (v1.18) | `replication.py`, `runtime_replication.py` | targets, batches, evaluations, reviews, snapshots | register, seal, evaluate, review, snapshot |
| remediation (v1.19) | `remediation.py`, `runtime_remediation.py` | proposals, assessments, selections, reviews, executions | propose, assess, select, review, apply |
| identity lineage (v0.3-v0.6) | `lattice.py`, `replay.py`, `merge.py` | none: receipts are documents | issue, verify, restore, merge, observe |
| multiverse (v1.3) | `multiverse.py` | none: likewise | propose, commit, assess, bind |
| geometry (v1.4-v1.5) | `transition_geometry.py`, `geometric_coherence.py` | none | aggregate decisions |

How they interact:

- every worker reads (or bootstraps) the trust policy in a transaction of its
  own, `_server_enforcement`, *before* it opens the transaction of its plane.
  The policy is the only state all planes share;
- the economy, active, Bayesian and multi planes hang on `verification_work`
  by work hash, and on one another by candidate, hypothesis and model hashes:
  each binds what it read by a digest and checks the digest when it writes;
- governance planes (v1.12 on) record proposals and evaluations and re-check
  the state they were made for when they are applied. v1.13 writes the models
  of v1.11; v1.14 to v1.17 and v1.19 all write one row, the current dependency
  graph, and none of them is closed when a later one is introduced;
- clients carry attestations, tokens, previews and signatures between
  requests, may send any of them again, and may lose any response.

What is hard in it: steps of processes between two transactions of one request
(policy read and ledger write; schedule read and completion; the three reads of
a finalization), replays and retries, restarts with another environment,
unordered clocks, a capacity queue with aging, rules about what outranks what
in a decision, and evidence bound to models that other requests move.

What makes each component correct:

| component | properties |
|---|---|
| trust governance | a generation takes over only by a quorum of its predecessor; one line of policies; signatures spent once; implements a register |
| authorization plane | a token is spent at most once; only in its window and for an attestation that was authentic, passed and fresh when the token was issued; each event authorised by a signature for exactly it; implements the token lifecycle |
| pressure | the window is the best feasible set by rank; waiting bounds overtaking |
| verification plane | debt is neither lost, replaced nor settled twice; verdicts count only for admitted work; FAIL dominates; PASS rests on a complete passed set; a finalization confirms one real instant |
| economy, active, Bayes | knowledge is one line of evidence; a result cannot choose its meaning; evidence bound to a replaced model stays unused; evidence moves a belief the way it points; a confirmed plan is the plan that was shown |
| multi | a belief moves by Bayes' rule and by nothing else, once for each source event; a model is used only for the distribution it follows |
| calibration, model revision | a score is about the prediction that was used and the truth that was resolved; a model is revised on the complete history its reviewer saw; revisions are one line |
| graph planes | the graph is one acyclic line whichever protocol writes it; what is applied is the best of what its protocol tried on the same state (v1.15 by gain, v1.16 and v1.17 by margin), within the budget of looks, and confirmed on data that neither its choice nor another batch used |
| replication, remediation | persistent drift rests on observations independent of one another and of what confirmed the edge; a rollback answers the drift there is, once |
| lineage, multiverse | a verified merge joins two futures that split at the ancestor it names; what is accepted as one lineage began alike |

## 2. The modules

    PolicyRegister            abstract: bootstrap once, then only direct successors
      TrustGovernance         implements it: signatures, quorum, processes, restarts
        MCTrustGovernance     TLC instance
        TrustGovernanceProofs TLAPS
      RuntimeWorker           authorization plane, composed with the register
        MCRuntimeWorker       TLC instance
        RuntimeWorkerProofs   TLAPS
    TokenLifecycle            abstract: what RuntimeWorker implements
    VerificationPressure      the scheduler, as functions
      SchedulerCalls          asked of any queue, by any clock
      VerificationAging       the queue in the long run, with fairness
        MCVerificationAging   TLC instance of both
      VerificationPlane       the durable queue, its windows, completions, finalizations
        MCVerificationPlane   TLC instance
        VerificationPlaneProofs  TLAPS; also about SchedulerCalls
    VerificationDebt          abstract: what VerificationPlane implements
      EvidenceLoop            economy, active and Bayesian planes, composed with the debt
        MCEvidenceLoop        TLC instance
        EvidenceLoopProofs    TLAPS
    BayesianUpdate            the posterior, as functions; used by EvidenceLoop
    GenerationTable           tables whose rows later generations replace
    BeliefLedger              abstract: what multi-hypothesis evidence implements
      HypothesisDistribution  distributions over hypotheses and their posterior, as functions
      MultiEvidence           v1.11
        Calibration           v1.12, composed with it (CalibrationScores: its arithmetic)
          ModelRevision       v1.13, composed with both
            MCModelRevision   TLC instance
            ModelRevisionProofs  TLAPS
    GraphLine                 abstract: the dependency graph, whoever writes it
      GraphStructure          graphs, candidates and their gain on samples, as functions
      GraphRevision           v1.14
        StructuralValidation  v1.15
          SearchBudget        v1.16
            ProtectedConfirmation  v1.17, all four side by side; implements the line
              MCStructureSearch    TLC instance
              StructureSearchProofs  TLAPS
      Replication             v1.18, on the abstract line
        Remediation           v1.19
          MCRemediation       TLC instance
          RemediationProofs   TLAPS
    Lineage                   receipts, chains, restores, merges
      Multiverse              potentials, commits, incursions, composites, observers
        MCMultiverse          TLC instance
        MultiverseProofs      TLAPS

**PolicyRegister / TrustGovernance.** `policy` is the singleton row,
`receipts` the transition table, `approvals` every signature ever made,
`rotating` the request each process is executing. `Sign` is a client calling
`sign_trust_transition` with any policy it may know of: the current one, a
replaced one, the bootstrap policy of any configuration, or one that is only
expected (`Foreseen`). `Receive` launches
a process with any set of signatures; `RotateTrustRoots` is the transaction
(`mutate_trust_policy` calling `apply_trust_transition`); `AbortRotation` is a
refusal, which rolls back a bootstrap of the same transaction too, or a crash.
SHA-256 and Ed25519 are taken as ideal: a policy stands for its hash, so
`previous` is the predecessor itself, and a signature is a record nobody but
the holder of the key can add.

**RuntimeWorker.** `worker[w]` is the request of a live process and the
`enforcement` context it read: roots and generation of the policy *at that
time*, and its clock. `IssueUseToken`, `ConsumeUseToken`, `RevokeUseToken` are
the governed operations; the ledger ones rebuild the action from the locked
ledger, so a proof fits one generation. `RotatePolicy` is a step of the
register, that is, of `TrustGovernance` seen from here. Requests are a
constant: every combination of grant, proof and payload the instance lists,
including a grant by a key that claims to be a root, a stale expected
generation and tokens and attestations the client made up. `Attested` are the
attestations whose MAC verifies under the deployment's keys. A request carries
the observer's receipt beside the attestation, and `VerifyAttestation` is the
code's: MAC, receipt, context, not from the future, not older than `maxAge`.

**VerificationPressure.** `ScheduleVerification` is the whole of
`schedule_verification`; the loop is a recursive function over the ranked
queue, its turn the operator `AdmitNext`. Hashes are numbers because they break
ties by comparison. `IsGreedy` says what the window has to be, without a loop:
it fits, and where another choice that fits differs from it, the best-ranked item
the two disagree about is admitted. `SchedulerCalls` asks for windows of any
queue, under any policy, again and again on unrelated clocks.

**VerificationAging.** The queue again, for liveness: `waited` is how long the
open work of each stream has waited, `admitted` the current window, computed by
the same `ScheduleVerification`. The clock must not stop, so ages are stored
reduced: a gap between neighbouring ages that is decisive for any priorities
counts only modulo the quantum. `ReductionIsExact`, which TLC evaluates, says
that this changes no ranking.

**VerificationPlane.** `rows` is the work table, `windows` the pressure receipt
of each generation (the table keeps the last; the history is for the
properties), `clients` what a process has read so far, `previews` and `finals`
what keepers hold. `SubmitWork` and `Schedule` are one transaction each.
Completion is two steps: `AuthorizeCompletion` (the unlocked `_state` and the
proof) and `Complete` (the transaction). Evaluation is `ReadSchedule` and
`Preview`, its two SELECTs; finalization is three reads, `BeginFinalization`,
`EvaluateGeneration`, `Finalize`. Grants are checked as in RuntimeWorker and
left out. `instant` is a history field for `FinalizesAnInstant`. A work item
of another gate or time has another hash, hence is another item.

**EvidenceLoop.** The tables of the three planes that learn from verification:
`candidates` and `observations` (v1.8), `hypotheses`, `models` and `plan`
(v1.9), `rules` and `updates` (v1.10; one record for the interpretation and
update histories, which are written together). The verification plane appears
as its abstract specification, `VerificationDebt`: the debt register says which
work exists and what its verdict is, and a verdict carries its completion time.
Each registration is one action, as it is one `BEGIN IMMEDIATE` transaction.
`ApplyUpdate` is the whole transaction of `apply_bayesian_update`: it
interprets the completion, moves every candidate of the prior's cohort to the
posterior, rebases their models and writes the histories. A preview of an
active plan is four reads of one process, `ReadCandidates` to `ReadModels`, and
`FinalizePlan` compares what `state_hash` commits to, `PlanState`. A hash of a
hypothesis is the hypothesis itself, whose `evidence_state_hash` becomes its
`root` (what a keeper registered) and its `trail` (what was learned since).
Keepers may register any root the instance lists and any belief ever learned.

**BayesianUpdate.** `posterior_probability_bps` with its rounding, for any
scale (10 000 in the code).

**MultiEvidence.** `distributions`, `models`, `rules`, `dependencies` are the
current rows, `accepted` and `duplicates` the receipts of updates. `ApplyUpdate`
is the whole transaction: the posterior with largest remainders, the new
distribution, the rebased models of the whole cohort, the receipt. Work stands
for its candidate and its evidence. `BeliefLedger` keeps only beliefs and which
sources were counted; `ImplementsLedger` says that the plane is such a ledger.

**Calibration / ModelRevision.** `targets` freeze model and declaration before
completion, `resolutions` are the truth, `scores` and `pairs` what is recorded
of them. `RegisterProposal`, `RecordReplay`, `RecordReview` and `ApplyRevision`
are one transaction each; the last re-checks model, distribution and history.
The three planes are one specification, as each writes what another one reads.

**GraphStructure and the four search protocols.** A graph is a set of edges, a
sample a pair of outcomes with the resolution and evidence it comes from, a
candidate one edge to add or remove. Gain is the code's leave-one-out or
held-out error in basis points, divided and rounded as there. `GraphRevision`,
`StructuralValidation`, `SearchBudget` and `ProtectedConfirmation` each extend
the one before: their union is what the database serves. The actions have the
names of the protocols' operations; every one is a transaction, and its
staleness test is an operator (`BaseIsCurrent`, `SelectionFresh`, `SearchFresh`,
`Confirmable`). People are roles: `Holders` says who may act in which
role, and separation of duties is in the guards. `RecordSample` is calibration,
which keeps adding to the history.

**GraphLine.** What the writers of the graph promise together: generations one
edge apart, acyclic, some of them confirmed. `ImplementsGraphLine` shows it of
v1.14 to v1.17; `Replication` and `Remediation` are built on it instead of on
the four protocols, so that they see any graph those may produce.

**Replication / Remediation.** `series` (targets and their batches), `evaluations`,
`reviews`, `snapshots` of confirmed generations; `proposals`, `assessments`, `selections`,
`selectionReviews`, `executions` of alternatives. Batches are known by their
place in the series. Parameter and structural revisions, which v1.13 and v1.14
carry out, only mark the snapshot as answered; the rollback writes the graph.

**Lineage / Multiverse.** Receipts are documents without a register: the state
is the set of all that were ever issued, and every operation may be applied to
any of them at any time. The hash of a receipt is its place in the order of
issue, and issuing an equal receipt again gives the same hash. A content is
the state reference and payload; those of restores, merges and commits are derived
from what they name, by digests. A caller of `issue_genesis_receipt` and
`issue_successor_receipt` may copy the content of any receipt and give any
provenance (`GivenContents`, `GivenProvenances`): none, evidence that is no
receipt, or receipts under the tags the code uses itself, so that
a receipt made by hand may pose as a restored one. `ValidChain`, `VerifyRestore`, `VerifyMerge`,
`VerifyBranchCommit` and `VerifyCompositeReality` are the code's verifiers,
`ObserveAxis`, `CrossAxisBind` and `GlobalCoherence` the observers. The order of
the references in a provenance, which the hash covers, is left out. Restore,
merge and commit artifacts are those the code made.

Definitions marked "Mutant" are deliberate errors. Each replaces the definition
it stands before, and the property it is paired with in `PROJECT.json` must
then fail: they show that the property can fail.

## 3. Runs

Only `verification_aging` assumes fairness; all other properties are safety
properties, action properties and refinements without liveness. Nothing in the
code schedules or completes by itself: clients do. The assumptions are therefore
about the deployment: somebody keeps opening windows (`KeepsScheduling`), on
clocks that agree and advance, and executors complete what is admitted again and
again (strong fairness). Nothing is assumed of clients that submit.

| run | question | result | distinct states |
|---|---|---|---|
| `trust_governance` (MCTrustGovernance.cfg) | quorum, one line of policies, replayed signatures, refinement of the register | holds | 672,079 |
| `runtime_worker` (MCRuntimeWorker.cfg) | one terminal event; token window, and an authentic, passed and fresh attestation behind each token; authorised appends; refinement of the lifecycle | holds | 912,063 |
| `runtime_worker_rotation` (RuntimeWorkerRotation.cfg) | does terminal state use the *current* policy? | **violated** | - |
| `verification_aging` (VerificationAging.cfg) | best feasible window; bounded overtaking; is fitting work starved? | holds | 35,115 |
| `verification_plane` (VerificationPlane.cfg) | windows and completions agree; final PASS justified, FAIL dominates; is a finalization of one real instant? refinement of the debt register | holds | 363,812 |
| `completion_binding` (CompletionBinding.cfg) | does a completion bind the generation its proof was made for? | **violated** | - |
| `evidence` (MCEvidenceLoop.cfg) | who decides what a result means; replaced models; direction of evidence; does knowledge fork? is a confirmed plan the one the keeper saw? | holds | 369,014 |
| `model_revision` (ModelRevision.cfg) | v1.11 to v1.13: is every source counted once, every score about the prediction used, every revision applied to what was reviewed? refinement of the belief ledger | holds | 178,158 |
| `structure_search` (StructureSearch.cfg) | v1.14 to v1.17: best of what its protocol tried, budget of looks, unseen data, refinement of the graph line | holds | 84,295 |
| `confirmation_retry` (ConfirmationRetry.cfg) | does a candidate that failed its final check get another one? | **violated** | - |
| `remediation` (Remediation.cfg) | v1.18 and v1.19: drift on independent batches, answered once by the rollback | holds | 136,708 |
| `lineage` (Multiverse.cfg) | do merges join two futures of the ancestor they name? did what is accepted as one lineage begin alike, whatever provenance callers give? | holds | 26,326 |

Bounds, and why they are enough. Where parts of a model can be explored apart,
the operator `Scope` of the MC module, a `CONSTRAINT` of the configuration,
names the combinations that are; a state outside it is checked and not extended.

- *trust*: two processes, two generations after the bootstrap, two
  signatures (one rotation of the two-of-two deployment, two of the other one),
  three key ids one of which is re-keyed, two environments (one
  stale), one policy signed for before it exists. A fork needs two writers and one
  generation; a replay across generations needs two rotations; a lower next
  threshold needs a two-of-two policy. The proofs drop all these bounds.
- *authorization*: two workers, one rotation, times 1 to 3, two tokens of one
  subject and one of another. A token is consumed at both ends of its window, and
  asked to be just before it and just after it. Attestations are as old as is allowed,
  one older, from the future, of a failed receipt, of another receipt and made up
  (`MCRefused`); without any one of these checks, of the token's expiry or of its
  beginning, `CapabilityChain` is violated; a ledger with two tokens has a generation that is
  current for one and stale for the other.
- *pressure and aging*: three streams, priorities 0 to 2, a quantum of two. The large
  stream fills the window alone and is never urgent; the others together keep
  it full. An urgent, an ordinary and a displaced piece of work are enough for
  every pairwise alternation; submissions are unlimited. The scheduler is asked
  besides about every queue of up to three items of a small universe, with
  capacities that items fit exactly, with others and never. It treats items by
  pairs, so three show every order of a skipped, an admitted and a smaller item.
- *verification*: two processes; two gates or one; up to three windows, a
  resubmission at another time, a capacity policy that closes the window. The
  queue and the reads of a keeper are explored apart (`QueueScope`,
  `FinalizeScope`). A completion can be overtaken by a scheduling that drops the
  work and one that re-admits it, which needs three windows; a torn finalization
  needs a commit before each of its reads.
- *evidence*: two candidates of one subject; one
  hypothesis in two generations, so that beliefs can be replaced and brought
  back; a perfect and an imperfect test, so that impossible observations occur;
  two opposite meanings of a verdict, so that choosing one late would pay; two
  times, so that rules may be stamped later than the completion they precede;
  two updates. Plans are explored with one test, meaning and update
  (`Plain`). A fork needs one of a cohort of two and a late joiner of the
  same belief; a third candidate shows nothing else, and the proof is for any
  number. A scale of 100 instead of 10 000 keeps TLC's integers small.
- *v1.11 to v1.13*: two pieces of work that share a distribution over two
  hypotheses, so that an update of one rebinds the model of the other; two sources, so
  that evidence may be independent, conditional or a duplicate; two proposals
  for competing revisions, two people. Beliefs are in tenths or hundredths.
- *v1.14 to v1.17*: one pair of tests under two keys, so that an edge can be
  proposed in both directions and removed again; two candidates, so that one can
  win and another come in late; two batches, which share data with one another or
  with what calibration adds. `Scope` lets the protocols meet by pairs:
  selections of v1.15 with v1.16 or v1.14, confirmation with v1.16 or v1.14. Each
  protocol meets the others only in the graph and the history, and a stale
  selection needs one other writer.
- *v1.18 and v1.19*: one pair, two or three revisions of the graph, batches of
  one sample each, of which two drift, one repeats what another observed, one
  succeeds and one is too early; policies that ask for one or two drifts; two
  alternatives. A signal that rests on one observation twice needs two batches.
- *lineage*: four branches (a checkpoint, its two futures, their merge), three
  generations, five receipts, two potentials of one id. Callers give a provenance of
  at most one reference (`MaxRefs`), evidence or a receipt tagged as the source of
  a restore (`Tags`), and copy contents and name receipts while at most two are
  issued (`MaxNamed`). Beyond three artifacts either what is restored
  and merged, with one continued receipt, or what is proposed and committed, is
  explored. A merge needs four receipts and the fifth tells a head from what was
  restored; two first receipts that differ in their provenance only, and one that
  poses as restored, are there with two.

### What the violations show

`CommitsUnderCurrentPolicy`. A worker reads the policy (`runtime_worker.py`
93-99) and later opens the ledger transaction (314). If a rotation commits in
between, a grant of a root that the rotation removed still consumes or revokes
a token. I-66 and I-73 say that terminal authorization state uses the current
policy and that grants of removed roots are untrusted. The weaker property that
holds, `AppendsAuthorised`, is that the grant belongs to a policy the database
holds or held. The remedy would be to read the policy inside the ledger
transaction, or to compare generations there.

`CompletionBindsAuthorizedWindow`. `complete_verification_work` verifies the
executor's proof for generation and pressure hash of an unlocked read
(`runtime_verification.py` 689) and `_complete` re-reads the schedule (500) and
writes whatever it finds. If work admitted in generation n is admitted again in
n + 1 in between, the receipt says n + 1 although the signature says n. I-129
asks for the exact generation and pressure hash. What holds is
`CompletionInWindow`: the recorded window did admit the work.

`RejectedStaysRejected`. An exposure is refused for a selection or a batch that
was exposed before (`protected_confirmation.py` 240-243). A selection's hash
covers its reference: selecting once more over the same candidates gives another
hash for the same winner, which can be reviewed and shown a second fresh batch
after it failed on the first. `docs/v1.17-protected-fresh-holdout.md` (121) says
that this cannot be done. What holds is `ConfirmedOnUnseenData`: each batch is
fresh and used once. An exposure would have to be refused by candidate.

### Other observations made while modelling

- `schedule_verification` needs no grant: any client can open a new window.
- Finalization receipts are returned and not stored.
- A finalization is asked for with a preview that somebody was shown
  (`BeginFinalization`); a client may send any hash. One who guesses
  the hash of a state that only a torn read would see, or of one still to come, can
  have it confirmed: `FinalizesAnInstant` and `FinalCoherent` rest on the preview.
- Previews and finalizations read without a lock and a preview can be torn, yet
  a confirmed finalization is that of one instant: the preview pins generation
  and rows, and both only move forward.
- Key ids of roots are unique, public keys are not.
- A ledger event does not record the grant it was made under, and event times
  are not monotone within a ledger, as processes have their own clocks.
- Work stamped by a clock ahead of the scheduler's is outside the aging bound.
- Rules bind a model's hash, and an update of a cohort rebases the models of all
  its members. A sibling that is already completed cannot renew its rule, as
  rules are for incomplete work: its evidence is never applied. This is what
  `StaleRuleStaysStale` says of completed work, and it follows from I-164 and
  I-171 together with I-162; no document says whether it is intended.
- A candidate that is given a belief whose cohort has already moved on can never
  advance it: the prior is used (I-172). It needs the posterior registered.
- A rule stamped by a clock that is ahead of the executor's can be registered
  before completion and yet never be used, as its time is compared with the
  completion's.
- Sources are counted per distribution: one that was counted for it never informs
  another distribution either.
- The sample of a pair takes mode and parents from the declaration its target
  froze (`calibration.py` 503-516). Evidence that was declared anew, as
  conditional, after the target and before completion, is sampled as independent.
  I-209 asks for the declared relation; v1.12 does not say which declaration. A
  resolution may predate the target of the sibling (254), and a pair's key has
  no subject in it.
- A revision counts as improved against the predictions that were made, not
  against what the current model would predict.
- v1.14 stays open when held-out validation exists, v1.15 when a search budget
  exists, and so on: each later protection (I-267, for one) can be passed by the
  earlier protocol, whose writes it detects but does not prevent.
- A v1.15 validation after a v1.16 reservation keeps every v1.16 selection in that
  context from being made, while the look stays spent.
- Under the budget the winner is the look with the best margin, and the bar rises
  with each look: a later candidate that gained more may lose to an earlier one.
  Protocols do not compare their candidates: v1.15 may apply its winner
  while a v1.16 look at the same graph and history would win over it or has not been
  evaluated yet. `BestOfWhatWasSeen` is therefore said protocol by protocol, and
  v1.14 has no best.
- The look budget is counted by candidate hash, and applying a confirmed revision
  does not repeat v1.16's check of parallel exposures.
- Freshness of a confirmation batch is checked against the history of the same
  pair and against confirmation batches, that of a replication batch against
  earlier batches of the same target. One observation may so confirm one edge
  and replicate another one.
- The removal of an edge can be confirmed and never replicated
  (`replication.py` 604-606).
- A sealed replication batch whose evidence enters the history of the pair can never
  be evaluated, and a disputed or held evaluation is never taken up again: both
  leave a gap for good, and every later snapshot is refused. I-363 asks that
  disputes stay visible; that they end the series is nowhere said.
- A series that is too short resets the count of consecutive drifts, and the
  number of batches a snapshot asks for is the first policy's.
- The root of a lineage covers its first state and payload, not its provenance
  (`lattice.py` 27-43), while the hash of the receipt does. Two first receipts that a
  caller issues with the same content and different `provenance_refs` have two
  hashes and one root, and A1 to A4 accept them as one lineage. So are a receipt
  that was restored and one issued with its content by hand, and two commits of
  potentials of one id, branch, generation and payload proposed from
  different receipts. I-18 asks for equal roots, and gets them. That this "prevents
  independently originated histories with identical labels from being fused"
  (`INVARIANTS.md` 223) holds of histories that began with different states or
  payloads; `OneOrigin` says exactly how far: first receipts of one lineage are
  alike but for their provenance.
- `observe_axis` compares labels and roots and does not ask whether one receipt
  descends from the other, so two continuations of one receipt are one lineage.
- A merge takes any receipt of a branch for its head, also one that was
  continued, and the same parents can be merged again elsewhere.
- A composite is bound whatever the verdict of its incursion, `COEXIST` included.
- Admitted work that nobody completes keeps its place in every window: there is
  no cancellation.
- Rank is not monotone in time. Of two pieces of work whose priorities differ by
  one and whose ages differ by less than a quantum, the one that is ahead
  alternates with the phase of the clock. With windows opened less than a
  quantum apart, both may be admitted and displaced in turn, for ever: under
  weak fairness of completions `NoStarvation` fails. Executors must be strongly
  fair.
  No document claims more (`docs/v1.6-verification-pressure.md` disclaims
  universal fairness).

## 4. Proofs

All theorems rest on the named assumptions of the modules they are about, which
TLC evaluates in the runs of the same modules, and on nothing else. They say
what the code's validation of configuration, policies and requests ensures:

- bootstrap configurations and foreseen policies are valid, times and generations
  are natural numbers, listed requests name known subjects, different work has
  different hashes;
- capacity policies have a positive quantum; the numbers of the other policies
  are natural, and positive where the code asks for it;
- a hypothesis space has at least two hypotheses, priors are distributions,
  likelihoods are in basis points, verdicts have a decision and a time;
- a dependency graph that is registered is acyclic, a history has one sample for
  each pair and resolution, a sealed batch is not empty.

The constants that are named as bounds may have any value.

| module | theorem | states |
|---|---|---|
| `TrustGovernanceProofs` | `TypeCorrect` | `Spec => []TypeOK` |
| | `QuorumAlways` | `Spec => []QuorumOfPredecessor` |
| | `SuccessionAlways` | `Spec => []OneLineOfSuccession` |
| | `ApprovalsSpentOnce` | `Spec => []ApprovalSpentOnce` |
| | `RefinesRegister` | `Spec => ImplementsRegister` |
| `RuntimeWorkerProofs` | `TypeCorrect` | `Spec => []TypeOK` |
| | `OneTerminalEvent` | `Spec => []AtMostOneTerminal` |
| | `CapabilityAlways` | `Spec => []CapabilityChain` |
| | `AppendsAreAuthorised` | `Spec => AppendsAuthorised` |
| | `RefinesLifecycle` | `Spec => ImplementsLifecycle` |
| `VerificationPlaneProofs` | `TypeCorrect` | `Spec => []TypeOK` |
| | `CompletionsInWindow` | `Spec => []CompletionInWindow` |
| | `PassFinalsJustified` | `Spec => []PassFinalJustified` |
| | `FailuresDominate` | `Spec => []FailDominates` |
| | `FinalsCoherent` | `Spec => []FinalCoherent` |
| | `FinalizationIsAtomic` | `Spec => []FinalizesAnInstant` |
| | `RefinesDebt` | `Spec => ImplementsDebt` |
| | `RankingIsTotal` | `RankedBefore` is a strict order, total on different hashes |
| | `WaitingBoundsOvertaking` | the bound of aging, for any two items |
| | `WindowIsGreedy` | `IsGreedy` of any finite queue, policy and time |
| | `CallsAreGreedy` | `CallsSpec => []AdmissionIsGreedy` |
| | `CallsHonourWaiting` | `CallsSpec => []NoLateOvertaking` |
| | `WindowsAreGreedy` | every window of the plane is the greedy one of what it was offered |
| `EvidenceLoopProofs` | `TypeCorrect` | `Spec => []TypeOK` |
| | `EvidenceDirects` | `Spec => []EvidenceDirection` |
| | `StaleRulesStayStale` | `Spec => StaleRuleStaysStale` |
| | `MeaningsFixed` | `Spec => MeaningFixed` |
| | `KnowledgeIsLinear` | `Spec => []NoForkedKnowledge` |
| | `PlansConfirmPreviews` | `Spec => []PlanConfirmsPreview` |
| `ModelRevisionProofs` | `PosteriorIsDistribution` | Bayes' rule leads from distributions to distributions |
| | `TypeCorrect` | `RevisionSpec => []RevisionTypeOK` |
| | `ModelsStayBound` | `RevisionSpec => []ModelsFollow` |
| | `UsedIsScored` | `RevisionSpec => []ScoresWhatWasUsed` |
| | `RevisionsImprove` | `RevisionSpec => []RevisedOnReviewedHistory` |
| | `RevisionsAreALine` | `RevisionSpec => []RevisionsInLine` |
| | `EffectsFade` | `RevisionSpec => EffectsOnlyFade` |
| | `RefinesLedger` | `RevisionSpec => ImplementsLedger` |
| `StructureSearchProofs` | `TypeCorrect` | `Spec => []TypeOK` |
| | `BestApplied` | `Spec => []BestOfWhatWasSeen` |
| | `LooksInBudget` | `Spec => []LooksStayInBudget` |
| | `UnseenData` | `Spec => []ConfirmedOnUnseenData` |
| | `RefinesGraphLine` | `Spec => ImplementsGraphLine` |
| `RemediationProofs` | `DriftIsIndependent` | `Spec => []DriftOnIndependentData` |
| | `RollbacksAnswerDrift` | `Spec => []RollbackAnswersDrift` |
| `MultiverseProofs` | `MergesJoin` | `Spec => []MergesJoinFutures` |
| | `LineagesHaveOneOrigin` | `Spec => []OneOrigin` |

**Trust governance.** The inductive invariant is `TypeOK`,
`QuorumOfPredecessor`, `OneLineOfSuccession` and `Lineage`. `Lineage` is what
the receipts alone do not say: each committed policy is the successor of what
it replaced, and no receipt is ahead of the persisted policy. Without it
nothing would forbid a receipt that already replaced the current policy, and a
rotation would fork the line. `ApprovalSpentOnce` follows: a signature names
the policy it replaces, and no policy is replaced twice. The refinement needs
only that what a transaction locks is a valid policy.

**Authorization plane.** The code looks for a token's terminal event in one
ledger only, that of the token's subject. `AtMostOneTerminal`, which is about
all ledgers, is therefore inductive only together with `EventsAuthentic` (the
token of an event was issued by the deployment, and a consumption lies in its
window), the filing of events under their token's subject (in `TypeOK`), and
`TokensCertified` (what an issued token was certified to have: the attestation,
its age at the time of issue, and the request it answers).
`AppendsAuthorised` is about two transactions of one process, between which others
rotate the policy. `ReadersInform` says that what a live process read is still
reached from the current policy by going back along `previous`: a rotation makes
that chain one link longer and breaks none. That `PoliciesHeld` computes the same
chain is shown from the first link in which the two would differ.

**Scheduler.** Integer division is monotone by whole quanta (`QuantaCount`),
and that is the whole aging argument. For the window: ranks are a bijection from the
queue onto `1 .. n` (`RanksCount`), and `Decided` says what the loop has done after
`k` turns: the items of the first `k` ranks are decided and stay so, and what is
admitted fits. Take another set that fits, and the first rank at which it
differs from the window. An item of that set with this rank would have fitted
behind what the two share and would have been admitted; so the item of this
rank is in the window.

**Verification plane.** The tables only move forward (`TableGrows`): work and
verdicts are only added, and within one generation the deferred work of a gate
shrinks only by completion. The invariant says of everything a process has read
(previews, finalizations, the context of an open finalization) that it is
consistent with tables of the past (`Earlier`) and with what was read later
(`Follows`). `FinalizesAnInstant` then follows by squeezing: the preview, the
instant at which the generation was read and the rows of the last read are
ordered; preview and last read are equal; so what only grows is equal in
between. The generation is equal too, so deferred work cannot have been given
a new disposition in between. A torn preview is a true record as far as it is
read: it carries an older generation than its rows, and never confirms one it
does not belong to.

**Evidence loop.** That the tables are well formed (`TablesOK`) is inductive by
itself. `StaleRuleStaysStale` needs in addition that a rule's model is never of
a later generation than the current one (`RulesBehind`): models only advance,
so a rule that fell behind cannot fit again. `NoForkedKnowledge` is not
inductive: nothing in it keeps a candidate from advancing a belief from which
others have already learned. The invariant is `Line`, about all beliefs there
are or were: any two of one root and subject are comparable, a trail has one
belief, and every proper prefix of a trail was the prior of an update. A prior
is used once, so a belief that can still be updated has nothing after it and is
the end of its line, and the update makes that line longer.
`PlanConfirmsPreview` is a counting argument. What a preview saw has since only
been replaced by beliefs of later generations (`SightingsOK`). Suppose that the
counts of holders agree and somebody's belief has changed; of those who changed
take one whose belief is now of the latest generation. That belief has gained a
holder. It has lost none, as its former holders would hold later ones. So its
count has changed. `EvidenceDirection` is arithmetic: rounding to the nearest
integer cannot cross the prior, which is an integer itself.

**Model revision.** Arithmetic first. The floors of a posterior leave over
less than one unit for each hypothesis, and the largest remainders hand out
exactly that, so `PosteriorIsDistribution` holds for any scale. Then the planes.
`Grows` says that rows are added and never changed, except that a model gives way
to one of a later generation and a distribution to what was learned of it. So a
row that names another one goes on saying the truth about it, and the history a
reviewer saw is still there; that it is all there is, `ApplyRevision` checks.
`ModelsFollow` needs that an update rebinds the models of its whole cohort in its
own transaction, and that a model is offered only for the distribution there is.
`EffectsOnlyFade` uses that a rule is for one model, that completed work gets no
new rule, and that a model which gave way never returns, as generations only
grow. `RevisionsInLine` is inductive as it stands, because it says besides that no
revision is ahead of its model. For the ledger, only registrations and updates write
beliefs (`Writers`), and its arithmetic is the plane's (`SameArithmetic`).

**Graph planes.** Four protocols write one row, and what one of them promises must
survive the other three. Rows are added to the tables and never changed: the
lemmas `...Grow` say once, table by table, which action a new row is the work of.
That leaves the graph. `GraphOK` (acyclic, one piece of evidence for each
generation) is kept, and the line refined, because every protocol applies an edge
only to the graph its evidence was computed on. `BestOfWhatWasSeen` is two invariants,
`ValidatedAreBest` (by gain) and `BudgetedAreBest` (by margin): a revision is applied
on the very graph and history its selection ranked, and afterwards its protocol can try
no rival on them, since the graph has moved on. `LooksStayInBudget` has `LooksOK`: the
ordinals of a pair are `1 .. n` without gaps. For `ConfirmedOnUnseenData`, `BatchesApart` says that sealed
batches of a pair have nothing in common, `ExposuresOK` that a batch is shown to one
selection, and `ConfirmationsOK` that the batch which confirmed a candidate has
nothing in common with the history that chose it.

**Replication and remediation.** A series only gets longer, each of its batches is
apart from the others and from what confirmed the edge (`SeriesOK`), and reviewed
evaluations are never changed, so that the consecutive drifts a snapshot counted can
be counted again at any later time (`SnapshotsOK`). `RollbackOK` says of a
rollback what the property asks for, and that the graph has moved on since: of a
generation that is not the current one nothing more is sealed, evaluated or
proposed (`NothingMoreIsEvaluated`), so what was answered is all there will be.

**Lineage.** Receipts name only older receipts and each has one parent; what a
receipt was issued as can be read from it (`ReceiptOK`, `PotentialsOK`), and the
artifacts a merge was made with verify it for ever (`MergesOK`). `Chain` and `History`
are recursive functions over receipts: what holds of them is shown from the oldest
receipt of which it would not. The root travels unchanged down a chain, and first
receipts of one root differ in provenance only (`RootsAgree`). That a receipt was restored,
merged or committed is read from its content (`RestoreOK`, `MergeOK`, `CommitOK`), as
provenance can be made up, and so it is known which of them can share a root.
The histories of two heads meet in the history of the ancestor, whichever
artifacts a merge is verified with: their chains split behind it and cannot meet
again.

**Induction over data.** The library's induction theorems take an operator, which
the provers cannot instantiate. What is recursive here (sums over sets, the
scheduler's loop, chains of receipts, policies held) is treated by minimal
counterexample instead, with the well-foundedness of the natural numbers or of the
strict subset order of a finite set (`WFMin`).

Model-checked only: `NoStarvation`, which needs fairness, and that reduced ages
rank like ages (`ReductionIsExact`, an assumption of the instance that TLC
evaluates). Proved only: `WindowsAreGreedy`, as the run about the scheduler checks
what it rests on, and the type invariants of `RuntimeWorker` and
`VerificationPlane`, as the other invariants of their runs imply what matters of
them. Of the three properties that are violated, the weaker ones that section 3
names are proved.

## 5. What is not modelled

- The cryptography (digests injective, signatures unforgeable), JSON encoding
  (`runtime_protocol.py`), the worker's mode without a database.
- The read-only observations and the merge of `runtime_worker.py`: they return
  receipts and write nothing.
- The coverage receipt of the pure v1.6 layer: the runtime decides by its own
  rule (`_evaluate`), which is modelled.
- Of the economy: estimators, ranking and allocation; of active verification:
  the ranking by information gain. Of a finalized plan only the state it was
  computed from is kept.
- Reports and summaries of v1.12 and their statistics, as far as no later plane
  decides by them. In replication the times at which records are made; the
  times of collection are modelled.
- The geometry (v1.4, v1.5): pure functions from observations to a gate's
  decision, which the verification plane takes as a constant.
- Restore, merge and commit documents made by hand: verifiers are asked about those
  the code issued. Receipts may be made up as far as the code issues them.
- The assignment of samples to the held-out part, a hash of the sample: it is a
  field of the sample.

## 6. Plan

Written: trust governance, the authorization plane on the register, the
scheduler and the queue in the long run, the verification plane, the evidence
loop on the debt register, v1.11 to v1.13 as one composition, v1.14 to v1.17 as
another one on the graph line, v1.18 and v1.19 above the line, and the lineage.
All properties that hold are proved, except the liveness property. To come:

1. `VerificationEconomy`: cost estimators, utility and greedy allocation as
   functions (the ceiling of a mean, integer efficiency), and the finalization
   of an allocation by state hash. The arguments of `PlansConfirmPreviews` and of
   `WindowIsGreedy` are the ones it needs.
2. The coverage receipt of the pure v1.6 layer, and that the runtime's own rule
   never says PASS where the pure layer would not.
3. The observations and merges of the authorization plane.
