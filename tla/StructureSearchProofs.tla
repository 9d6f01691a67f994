------------------------- MODULE StructureSearchProofs -------------------------
(***************************************************************************)
(* Proofs about the protocols that revise the dependency graph, v1.14 to    *)
(* v1.17 side by side, for any candidates, samples, policies and people and *)
(* any number of revisions.                                                 *)
(*                                                                         *)
(* Rows are added to the tables and never changed.  What a step does is     *)
(* therefore said once, table by table (the lemmas ...Grow): a table is     *)
(* extended, and a new row is the work of one action.  The proofs of the    *)
(* invariants argue about old rows and new rows and no longer about actions.*)
(***************************************************************************)
EXTENDS ProtectedConfirmation, FiniteSetTheorems, SequenceTheorems, TLAPS

Grown(old, new) ==
    /\ DOMAIN old \subseteq DOMAIN new
    /\ \A x \in DOMAIN old : new[x] = old[x]

New(old, new) == DOMAIN new \ DOMAIN old

(* An added row is there, and nothing else changes.                         *)
LEMMA WithAdds ==
    ASSUME NEW f, NEW x, NEW y, x \notin DOMAIN f
    PROVE  /\ DOMAIN With(f, x, y) = DOMAIN f \cup {x}
           /\ With(f, x, y)[x] = y
           /\ Grown(f, With(f, x, y))
           /\ New(f, With(f, x, y)) = {x}
BY DEF With, Grown, New

LEMMA RowAdded ==
    ASSUME NEW f, NEW g, NEW x, x \notin DOMAIN f, \E y : g = With(f, x, y)
    PROVE  Grown(f, g) /\ New(f, g) = {x}
BY DEF With, Grown, New

LEMMA SameIsGrown == \A f : Grown(f, f) /\ New(f, f) = {}
BY DEF Grown, New

(* The empty table has no row.                                              *)
LEMMA NothingIsEmpty == DOMAIN Nothing = {}
BY DEF Nothing
-----------------------------------------------------------------------------
(* What a step does to the tables of v1.14.                                 *)
GraphTablesStep ==
    /\ samples' # samples => \E s \in NewSamples : RecordSample(s)
    /\ Grown(graphProposals, graphProposals')
    /\ \A p \in New(graphProposals, graphProposals') :
        /\ p \in GraphProposals
        /\ \E key \in Keys, direction \in Directions, policy \in GraphSignals, proposer \in Holders.proposer :
              RegisterProposal(p, key, direction, policy, proposer)
    /\ Grown(graphReplays, graphReplays')
    /\ \A p \in New(graphReplays, graphReplays') : \E minCases \in ReplayMinima : RecordReplay(p, minCases)
    /\ Grown(graphReviews, graphReviews')
    /\ \A p \in New(graphReviews, graphReviews') :
        \E decision \in Decisions, reviewer \in Holders.reviewer : RecordReview(p, decision, reviewer)
    /\ Grown(graphRevisions, graphRevisions')
    /\ \A p \in New(graphRevisions, graphRevisions') : ApplyRevision(p)

LEMMA GraphTablesGrow ==
    ASSUME [Next]_vars
    PROVE  GraphTablesStep
<1> USE SameIsGrown DEF GraphTablesStep
<1>1. CASE GraphStep
  <2>1. ASSUME NEW edges \in InitialEdges, RegisterGraph(edges) PROVE GraphTablesStep
    BY <2>1 DEF RegisterGraph, graphTables
  <2>2. ASSUME NEW s \in NewSamples, RecordSample(s) PROVE GraphTablesStep
    BY <2>2 DEF RecordSample, graphTables
  <2>3. ASSUME NEW p \in GraphProposals, NEW key \in Keys, NEW direction \in Directions,
               NEW policy \in GraphSignals, NEW proposer \in Holders.proposer,
               RegisterProposal(p, key, direction, policy, proposer)
        PROVE  GraphTablesStep
    <3>1. Grown(graphProposals, graphProposals') /\ New(graphProposals, graphProposals') = {p}
      BY <2>3, WithAdds DEF RegisterProposal
    <3>2. UNCHANGED <<samples, graphReplays, graphReviews, graphRevisions>>
      BY <2>3 DEF RegisterProposal
    <3> QED BY <2>3, <3>1, <3>2
  <2>4. ASSUME NEW p \in GraphProposals, NEW minCases \in ReplayMinima, RecordReplay(p, minCases)
        PROVE  GraphTablesStep
    <3>1. Grown(graphReplays, graphReplays') /\ New(graphReplays, graphReplays') = {p}
      <4>1. p \notin DOMAIN graphReplays /\ \E row : graphReplays' = With(graphReplays, p, row)
        BY <2>4 DEF RecordReplay
      <4> QED BY <4>1, RowAdded
    <3>2. UNCHANGED <<samples, graphProposals, graphReviews, graphRevisions>>
      BY <2>4 DEF RecordReplay
    <3> QED BY <2>4, <3>1, <3>2
  <2>5. ASSUME NEW p \in GraphProposals, NEW decision \in Decisions, NEW reviewer \in Holders.reviewer,
               RecordReview(p, decision, reviewer)
        PROVE  GraphTablesStep
    <3>1. Grown(graphReviews, graphReviews') /\ New(graphReviews, graphReviews') = {p}
      <4>1. p \notin DOMAIN graphReviews /\ \E row : graphReviews' = With(graphReviews, p, row)
        BY <2>5 DEF RecordReview
      <4> QED BY <4>1, RowAdded
    <3>2. UNCHANGED <<samples, graphProposals, graphReplays, graphRevisions>>
      BY <2>5 DEF RecordReview
    <3> QED BY <2>5, <3>1, <3>2
  <2>6. ASSUME NEW p \in GraphProposals, ApplyRevision(p) PROVE GraphTablesStep
    <3>1. Grown(graphRevisions, graphRevisions') /\ New(graphRevisions, graphRevisions') = {p}
      <4>1. p \notin DOMAIN graphRevisions /\ \E row : graphRevisions' = With(graphRevisions, p, row)
        BY <2>6 DEF ApplyRevision
      <4> QED BY <4>1, RowAdded
    <3>2. UNCHANGED <<samples, graphProposals, graphReplays, graphReviews>>
      BY <2>6 DEF ApplyRevision
    <3> QED BY <2>6, <3>1, <3>2
  <2> QED BY <1>1, <2>1, <2>2, <2>3, <2>4, <2>5, <2>6 DEF GraphStep
<1>2. CASE UNCHANGED <<samples, graphTables>>
  BY <1>2 DEF graphTables
<1>3. ValidationStep \/ SearchStep \/ ConfirmationStep \/ UNCHANGED vars => UNCHANGED <<samples, graphTables>>
  BY DEF ValidationStep, SearchStep, ConfirmationStep, vars, searchVars, validationVars, graphVars,
         RegisterPolicy, RegisterCandidate, RecordValidation, FinalizeSelection, ReviewSelection,
         ApplyValidated, RegisterSearchPolicy, Reserve, Evaluate, FinalizeSearch, ReviewSearch,
         ApplySearched, RegisterConfirmationPolicy, SealBatch, AuthorizeExposure,
         EvaluateConfirmation, ReviewConfirmation, ApplyConfirmed
<1> QED BY <1>1, <1>2, <1>3 DEF Next
-----------------------------------------------------------------------------
(* The same of the tables of v1.15.*)
ValidationTablesStep ==
    /\ validationPolicy' # validationPolicy => validationPolicy = Nothing /\ validationPolicy' \in ValidationPolicies
    /\ Grown(candidates, candidates')
    /\ \A c \in New(candidates, candidates') :
        /\ c \in Candidates
        /\ \E key \in Keys, direction \in Directions, proposer \in Holders.proposer :
              RegisterCandidate(c, key, direction, proposer)
    /\ Grown(validations, validations')
    /\ \A c \in New(validations, validations') :
        \E validator \in Holders.validator :
            RecordValidation(c, validator)
    /\ Grown(selections, selections')
    /\ \A r \in New(selections, selections') :
        \E key \in Keys, winner \in Candidates \cup {NoWinner}, selector \in Holders.selector :
            FinalizeSelection(r, key, winner, selector)
    /\ Grown(selectionReviews, selectionReviews')
    /\ \A r \in New(selectionReviews, selectionReviews') :
        \E decision \in Decisions, reviewer \in Holders.reviewer :
            ReviewSelection(r, decision, reviewer)
    /\ Grown(validatedRevisions, validatedRevisions')
    /\ \A r \in New(validatedRevisions, validatedRevisions') : ApplyValidated(r)

LEMMA ValidationTablesGrow ==
    ASSUME [Next]_vars
    PROVE  ValidationTablesStep
<1> USE SameIsGrown DEF ValidationTablesStep
<1>1. CASE ValidationStep
  <2>1. ASSUME NEW policy \in ValidationPolicies, RegisterPolicy(policy) PROVE ValidationTablesStep
    BY <2>1 DEF RegisterPolicy
  <2>2. ASSUME NEW c \in Candidates, NEW key \in Keys, NEW direction \in Directions, NEW proposer \in Holders.proposer, RegisterCandidate(c, key, direction, proposer)
        PROVE  ValidationTablesStep
    <3>1. c \notin DOMAIN candidates /\ \E row : candidates' = With(candidates, c, row)
      BY <2>2 DEF RegisterCandidate
    <3>2. Grown(candidates, candidates') /\ New(candidates, candidates') = {c}
      BY <3>1, RowAdded
    <3>3. UNCHANGED <<validationPolicy, validations, selections, selectionReviews, validatedRevisions>>
      BY <2>2 DEF RegisterCandidate
    <3> QED BY <2>2, <3>2, <3>3
  <2>3. ASSUME NEW c \in Candidates, NEW validator \in Holders.validator, RecordValidation(c, validator)
        PROVE  ValidationTablesStep
    <3>1. c \notin DOMAIN validations /\ \E row : validations' = With(validations, c, row)
      BY <2>3 DEF RecordValidation
    <3>2. Grown(validations, validations') /\ New(validations, validations') = {c}
      BY <3>1, RowAdded
    <3>3. UNCHANGED <<validationPolicy, candidates, selections, selectionReviews, validatedRevisions>>
      BY <2>3 DEF RecordValidation
    <3> QED BY <2>3, <3>2, <3>3
  <2>4. ASSUME NEW r \in Selections, NEW key \in Keys, NEW winner \in Candidates \cup {NoWinner}, NEW selector \in Holders.selector, FinalizeSelection(r, key, winner, selector)
        PROVE  ValidationTablesStep
    <3>1. r \notin DOMAIN selections /\ \E row : selections' = With(selections, r, row)
      BY <2>4 DEF FinalizeSelection
    <3>2. Grown(selections, selections') /\ New(selections, selections') = {r}
      BY <3>1, RowAdded
    <3>3. UNCHANGED <<validationPolicy, candidates, validations, selectionReviews, validatedRevisions>>
      BY <2>4 DEF FinalizeSelection
    <3> QED BY <2>4, <3>2, <3>3
  <2>5. ASSUME NEW r \in Selections, NEW decision \in Decisions, NEW reviewer \in Holders.reviewer, ReviewSelection(r, decision, reviewer)
        PROVE  ValidationTablesStep
    <3>1. r \notin DOMAIN selectionReviews /\ \E row : selectionReviews' = With(selectionReviews, r, row)
      BY <2>5 DEF ReviewSelection
    <3>2. Grown(selectionReviews, selectionReviews') /\ New(selectionReviews, selectionReviews') = {r}
      BY <3>1, RowAdded
    <3>3. UNCHANGED <<validationPolicy, candidates, validations, selections, validatedRevisions>>
      BY <2>5 DEF ReviewSelection
    <3> QED BY <2>5, <3>2, <3>3
  <2>6. ASSUME NEW r \in Selections, ApplyValidated(r) PROVE ValidationTablesStep
    <3>1. r \notin DOMAIN validatedRevisions /\ \E row : validatedRevisions' = With(validatedRevisions, r, row)
      BY <2>6 DEF ApplyValidated
    <3>2. Grown(validatedRevisions, validatedRevisions') /\ New(validatedRevisions, validatedRevisions') = {r}
      BY <3>1, RowAdded
    <3>3. UNCHANGED <<validationPolicy, candidates, validations, selections, selectionReviews>>
      BY <2>6 DEF ApplyValidated
    <3> QED BY <2>6, <3>2, <3>3
  <2> QED BY <1>1, <2>1, <2>2, <2>3, <2>4, <2>5, <2>6 DEF ValidationStep
<1>2. CASE UNCHANGED validationTables
  BY <1>2 DEF validationTables
<1>3. SearchStep \/ ConfirmationStep \/ UNCHANGED vars => UNCHANGED validationTables
  BY DEF validationTables, vars, searchVars, validationVars,
         SearchStep, ConfirmationStep, RegisterSearchPolicy, Reserve, Evaluate, FinalizeSearch,
         ReviewSearch, ApplySearched, RegisterConfirmationPolicy, SealBatch, AuthorizeExposure,
         EvaluateConfirmation, ReviewConfirmation, ApplyConfirmed
<1> QED BY <1>1, <1>2, <1>3 DEF Next
-----------------------------------------------------------------------------
(* The same of the tables of v1.16.*)
SearchTablesStep ==
    /\ searchPolicy' # searchPolicy => searchPolicy = Nothing /\ searchPolicy' \in SearchPolicies
    /\ Grown(reservations, reservations')
    /\ \A c \in New(reservations, reservations') :
        \E keeper \in Holders.keeper :
            Reserve(c, keeper)
    /\ Grown(searchEvaluations, searchEvaluations')
    /\ \A c \in New(searchEvaluations, searchEvaluations') :
        \E evaluator \in Holders.validator :
            Evaluate(c, evaluator)
    /\ Grown(searchSelections, searchSelections')
    /\ \A r \in New(searchSelections, searchSelections') :
        \E key \in Keys, winner \in Candidates \cup {NoWinner}, selector \in Holders.selector :
            FinalizeSearch(r, key, winner, selector)
    /\ Grown(searchReviews, searchReviews')
    /\ \A r \in New(searchReviews, searchReviews') :
        \E decision \in Decisions, reviewer \in Holders.reviewer :
            ReviewSearch(r, decision, reviewer)
    /\ Grown(searchRevisions, searchRevisions')
    /\ \A r \in New(searchRevisions, searchRevisions') : ApplySearched(r)

LEMMA SearchTablesGrow ==
    ASSUME [Next]_vars
    PROVE  SearchTablesStep
<1> USE SameIsGrown DEF SearchTablesStep
<1>1. CASE SearchStep
  <2>1. ASSUME NEW policy \in SearchPolicies, RegisterSearchPolicy(policy) PROVE SearchTablesStep
    BY <2>1 DEF RegisterSearchPolicy
  <2>2. ASSUME NEW c \in Candidates, NEW keeper \in Holders.keeper, Reserve(c, keeper)
        PROVE  SearchTablesStep
    <3>1. c \notin DOMAIN reservations /\ \E row : reservations' = With(reservations, c, row)
      BY <2>2 DEF Reserve
    <3>2. Grown(reservations, reservations') /\ New(reservations, reservations') = {c}
      BY <3>1, RowAdded
    <3>3. UNCHANGED <<searchPolicy, searchEvaluations, searchSelections, searchReviews, searchRevisions>>
      BY <2>2 DEF Reserve
    <3> QED BY <2>2, <3>2, <3>3
  <2>3. ASSUME NEW c \in Candidates, NEW evaluator \in Holders.validator, Evaluate(c, evaluator)
        PROVE  SearchTablesStep
    <3>1. c \notin DOMAIN searchEvaluations /\ \E row : searchEvaluations' = With(searchEvaluations, c, row)
      BY <2>3 DEF Evaluate
    <3>2. Grown(searchEvaluations, searchEvaluations') /\ New(searchEvaluations, searchEvaluations') = {c}
      BY <3>1, RowAdded
    <3>3. UNCHANGED <<searchPolicy, reservations, searchSelections, searchReviews, searchRevisions>>
      BY <2>3 DEF Evaluate
    <3> QED BY <2>3, <3>2, <3>3
  <2>4. ASSUME NEW r \in SearchSelections, NEW key \in Keys, NEW winner \in Candidates \cup {NoWinner}, NEW selector \in Holders.selector, FinalizeSearch(r, key, winner, selector)
        PROVE  SearchTablesStep
    <3>1. r \notin DOMAIN searchSelections /\ \E row : searchSelections' = With(searchSelections, r, row)
      BY <2>4 DEF FinalizeSearch
    <3>2. Grown(searchSelections, searchSelections') /\ New(searchSelections, searchSelections') = {r}
      BY <3>1, RowAdded
    <3>3. UNCHANGED <<searchPolicy, reservations, searchEvaluations, searchReviews, searchRevisions>>
      BY <2>4 DEF FinalizeSearch
    <3> QED BY <2>4, <3>2, <3>3
  <2>5. ASSUME NEW r \in SearchSelections, NEW decision \in Decisions, NEW reviewer \in Holders.reviewer, ReviewSearch(r, decision, reviewer)
        PROVE  SearchTablesStep
    <3>1. r \notin DOMAIN searchReviews /\ \E row : searchReviews' = With(searchReviews, r, row)
      BY <2>5 DEF ReviewSearch
    <3>2. Grown(searchReviews, searchReviews') /\ New(searchReviews, searchReviews') = {r}
      BY <3>1, RowAdded
    <3>3. UNCHANGED <<searchPolicy, reservations, searchEvaluations, searchSelections, searchRevisions>>
      BY <2>5 DEF ReviewSearch
    <3> QED BY <2>5, <3>2, <3>3
  <2>6. ASSUME NEW r \in SearchSelections, ApplySearched(r) PROVE SearchTablesStep
    <3>1. r \notin DOMAIN searchRevisions /\ \E row : searchRevisions' = With(searchRevisions, r, row)
      BY <2>6 DEF ApplySearched
    <3>2. Grown(searchRevisions, searchRevisions') /\ New(searchRevisions, searchRevisions') = {r}
      BY <3>1, RowAdded
    <3>3. UNCHANGED <<searchPolicy, reservations, searchEvaluations, searchSelections, searchReviews>>
      BY <2>6 DEF ApplySearched
    <3> QED BY <2>6, <3>2, <3>3
  <2> QED BY <1>1, <2>1, <2>2, <2>3, <2>4, <2>5, <2>6 DEF SearchStep
<1>2. CASE UNCHANGED searchTables
  BY <1>2 DEF searchTables
<1>3. ConfirmationStep \/ UNCHANGED vars => UNCHANGED searchTables
  BY DEF searchTables, vars, searchVars, ConfirmationStep,
         RegisterConfirmationPolicy, SealBatch, AuthorizeExposure, EvaluateConfirmation,
         ReviewConfirmation, ApplyConfirmed
<1> QED BY <1>1, <1>2, <1>3 DEF Next
-----------------------------------------------------------------------------
(* The same of the tables of v1.17.*)
ConfirmationTablesStep ==
    /\ confirmationPolicy' # confirmationPolicy => confirmationPolicy = Nothing
    /\ Grown(batches, batches')
    /\ \A b \in New(batches, batches') :
        \E key \in Keys, contents \in BatchContents, keeper \in Holders.batchKeeper :
            SealBatch(b, key, contents, keeper)
    /\ Grown(exposures, exposures')
    /\ \A r \in New(exposures, exposures') :
        \E b \in Batches, keeper \in Holders.exposureKeeper :
            AuthorizeExposure(r, b, keeper)
    /\ Grown(confirmationEvaluations, confirmationEvaluations')
    /\ \A r \in New(confirmationEvaluations, confirmationEvaluations') :
        \E evaluator \in Holders.validator :
            EvaluateConfirmation(r, evaluator)
    /\ Grown(confirmationReviews, confirmationReviews')
    /\ \A r \in New(confirmationReviews, confirmationReviews') :
        \E decision \in Decisions, reviewer \in Holders.reviewer :
            ReviewConfirmation(r, decision, reviewer)
    /\ Grown(confirmedRevisions, confirmedRevisions')
    /\ \A r \in New(confirmedRevisions, confirmedRevisions') : ApplyConfirmed(r)

LEMMA ConfirmationTablesGrow ==
    ASSUME [Next]_vars
    PROVE  ConfirmationTablesStep
<1> USE SameIsGrown DEF ConfirmationTablesStep
<1>1. CASE ConfirmationStep
  <2>1. ASSUME NEW policy \in ConfirmationPolicies, RegisterConfirmationPolicy(policy) PROVE ConfirmationTablesStep
    BY <2>1 DEF RegisterConfirmationPolicy
  <2>2. ASSUME NEW b \in Batches, NEW key \in Keys, NEW contents \in BatchContents, NEW keeper \in Holders.batchKeeper, SealBatch(b, key, contents, keeper)
        PROVE  ConfirmationTablesStep
    <3>1. b \notin DOMAIN batches /\ \E row : batches' = With(batches, b, row)
      BY <2>2 DEF SealBatch
    <3>2. Grown(batches, batches') /\ New(batches, batches') = {b}
      BY <3>1, RowAdded
    <3>3. UNCHANGED <<confirmationPolicy, exposures, confirmationEvaluations, confirmationReviews, confirmedRevisions>>
      BY <2>2 DEF SealBatch
    <3> QED BY <2>2, <3>2, <3>3
  <2>3. ASSUME NEW r \in SearchSelections, NEW b \in Batches, NEW keeper \in Holders.exposureKeeper, AuthorizeExposure(r, b, keeper)
        PROVE  ConfirmationTablesStep
    <3>1. r \notin DOMAIN exposures /\ \E row : exposures' = With(exposures, r, row)
      BY <2>3 DEF AuthorizeExposure
    <3>2. Grown(exposures, exposures') /\ New(exposures, exposures') = {r}
      BY <3>1, RowAdded
    <3>3. UNCHANGED <<confirmationPolicy, batches, confirmationEvaluations, confirmationReviews, confirmedRevisions>>
      BY <2>3 DEF AuthorizeExposure
    <3> QED BY <2>3, <3>2, <3>3
  <2>4. ASSUME NEW r \in SearchSelections, NEW evaluator \in Holders.validator, EvaluateConfirmation(r, evaluator)
        PROVE  ConfirmationTablesStep
    <3>1. r \notin DOMAIN confirmationEvaluations /\ \E row : confirmationEvaluations' = With(confirmationEvaluations, r, row)
      BY <2>4 DEF EvaluateConfirmation
    <3>2. Grown(confirmationEvaluations, confirmationEvaluations') /\ New(confirmationEvaluations, confirmationEvaluations') = {r}
      BY <3>1, RowAdded
    <3>3. UNCHANGED <<confirmationPolicy, batches, exposures, confirmationReviews, confirmedRevisions>>
      BY <2>4 DEF EvaluateConfirmation
    <3> QED BY <2>4, <3>2, <3>3
  <2>5. ASSUME NEW r \in SearchSelections, NEW decision \in Decisions, NEW reviewer \in Holders.reviewer, ReviewConfirmation(r, decision, reviewer)
        PROVE  ConfirmationTablesStep
    <3>1. r \notin DOMAIN confirmationReviews /\ \E row : confirmationReviews' = With(confirmationReviews, r, row)
      BY <2>5 DEF ReviewConfirmation
    <3>2. Grown(confirmationReviews, confirmationReviews') /\ New(confirmationReviews, confirmationReviews') = {r}
      BY <3>1, RowAdded
    <3>3. UNCHANGED <<confirmationPolicy, batches, exposures, confirmationEvaluations, confirmedRevisions>>
      BY <2>5 DEF ReviewConfirmation
    <3> QED BY <2>5, <3>2, <3>3
  <2>6. ASSUME NEW r \in SearchSelections, ApplyConfirmed(r) PROVE ConfirmationTablesStep
    <3>1. r \notin DOMAIN confirmedRevisions /\ \E row : confirmedRevisions' = With(confirmedRevisions, r, row)
      BY <2>6 DEF ApplyConfirmed
    <3>2. Grown(confirmedRevisions, confirmedRevisions') /\ New(confirmedRevisions, confirmedRevisions') = {r}
      BY <3>1, RowAdded
    <3>3. UNCHANGED <<confirmationPolicy, batches, exposures, confirmationEvaluations, confirmationReviews>>
      BY <2>6 DEF ApplyConfirmed
    <3> QED BY <2>6, <3>2, <3>3
  <2> QED BY <1>1, <2>1, <2>2, <2>3, <2>4, <2>5, <2>6 DEF ConfirmationStep
<1>2. CASE UNCHANGED confirmationTables
  BY <1>2 DEF confirmationTables
<1>3. UNCHANGED vars => UNCHANGED confirmationTables
  BY DEF vars, confirmationTables
<1> QED BY <1>1, <1>2, <1>3 DEF Next
-----------------------------------------------------------------------------
(* The graph: what there is of it, and what may become of it.               *)
Graphs == {edges \in SUBSET Edges : Acyclic(edges)}

References == GraphProposals \cup Candidates

IsGraph(g) ==
    /\ g = [edges |-> g.edges, generation |-> g.generation, evidence |-> g.evidence]
    /\ g.edges \in Graphs
    /\ g.evidence \in Seq(References)
    /\ g.generation = Len(g.evidence)

ProposalOK(proposal) ==
    /\ IsGraph(proposal.base)
    /\ proposal.edges \in Graphs
    /\ Line!Adjacent(proposal.base.edges, proposal.edges)

GraphOK == graph = Nothing \/ IsGraph(graph)

ProposalsOK ==
    /\ DOMAIN graphProposals \subseteq GraphProposals
    /\ DOMAIN candidates \subseteq Candidates
    /\ \A p \in DOMAIN graphProposals : ProposalOK(graphProposals[p])
    /\ \A c \in DOMAIN candidates : ProposalOK(candidates[c].proposal)

(* A record is not the empty table.                                         *)
LEMMA GraphIsSomething == \A g : IsGraph(g) => g # Nothing
<1> SUFFICES ASSUME NEW g, IsGraph(g), g = Nothing PROVE FALSE
  OBVIOUS
<1>1. DOMAIN g = {"edges", "generation", "evidence"}
  BY DEF IsGraph
<1>2. DOMAIN g = {}
  BY NothingIsEmpty
<1> QED BY <1>1, <1>2

(* Removing an edge closes no cycle.                                        *)
LEMMA FewerEdgesAcyclic ==
    ASSUME NEW edges, Acyclic(edges), NEW fewer \in SUBSET edges
    PROVE  Acyclic(fewer)
<1>1. Nodes(fewer) \subseteq Nodes(edges)
  BY DEF Nodes
<1>2. ASSUME NEW nodes \in SUBSET Nodes(fewer) \ {{}}
      PROVE  \E n \in nodes : \A e \in fewer : e[1] \in nodes => e[2] # n
  <2>1. nodes \in SUBSET Nodes(edges) \ {{}}
    BY <1>1, <1>2
  <2> QED BY <2>1 DEF Acyclic
<1> QED BY <1>2 DEF Acyclic

(* What may be proposed is an acyclic graph one edge away.                  *)
LEMMA ProposableIsAdjacent ==
    ASSUME NEW edges \in Graphs, NEW key \in Keys, NEW direction \in Directions, NEW assessment,
           Proposable(edges, key, direction, assessment)
    PROVE  /\ Toggled(edges, Edge(key, direction)) \in Graphs
           /\ Line!Adjacent(edges, Toggled(edges, Edge(key, direction)))
<1> DEFINE edge == Edge(key, direction)
           toggled == Toggled(edges, edge)
<1>1. edge \in Edges
  BY DEF Edges
<1>2. toggled \in SUBSET Edges
  BY <1>1 DEF Toggled, Graphs
<1>3. Acyclic(toggled)
  <2>1. CASE edge \in edges
    <3>1. toggled \in SUBSET edges
      BY <2>1 DEF Toggled
    <3> QED BY <3>1, FewerEdgesAcyclic DEF Graphs
  <2>2. CASE edge \notin edges
    BY <2>2 DEF Proposable
  <2> QED BY <2>1, <2>2
<1>4. (edges \ toggled) \cup (toggled \ edges) = {edge} /\ edge \in edges \cup toggled
  BY DEF Toggled
<1>5. Line!Adjacent(edges, toggled)
  <2> HIDE DEF toggled, edge
  <2> QED BY <1>4 DEF Line!Adjacent
<1> QED BY <1>2, <1>3, <1>5 DEF Graphs

LEMMA ProposalIsOK ==
    ASSUME GraphOK, graph # Nothing, NEW key \in Keys, NEW direction \in Directions, NEW proposer,
           NEW assessment, Proposable(graph.edges, key, direction, assessment)
    PROVE  ProposalOK(Proposal(key, direction, proposer))
<1>1. IsGraph(graph) /\ graph.edges \in Graphs
  BY DEF GraphOK, IsGraph
<1> QED BY <1>1, ProposableIsAdjacent DEF ProposalOK, Proposal

LEMMA ProposalsStep ==
    ASSUME GraphOK, ProposalsOK, [Next]_vars
    PROVE  ProposalsOK'
<1>1. ASSUME NEW p \in New(graphProposals, graphProposals')
      PROVE  p \in GraphProposals /\ ProposalOK(graphProposals'[p])
  <2>1. PICK key \in Keys, direction \in Directions, policy \in GraphSignals, proposer \in Holders.proposer :
            RegisterProposal(p, key, direction, policy, proposer)
    BY <1>1, GraphTablesGrow DEF GraphTablesStep
  <2>2. graphProposals'[p] = Proposal(key, direction, proposer)
    BY <2>1 DEF RegisterProposal, With
  <2>3. ProposalOK(Proposal(key, direction, proposer))
    BY <2>1, ProposalIsOK DEF RegisterProposal
  <2> QED BY <1>1, <2>2, <2>3, GraphTablesGrow DEF GraphTablesStep
<1>2. ASSUME NEW c \in New(candidates, candidates')
      PROVE  c \in Candidates /\ ProposalOK(candidates'[c].proposal)
  <2>1. PICK key \in Keys, direction \in Directions, proposer \in Holders.proposer :
            RegisterCandidate(c, key, direction, proposer)
    BY <1>2, ValidationTablesGrow DEF ValidationTablesStep
  <2>2. candidates'[c] = Candidate(key, direction, proposer)
    BY <2>1 DEF RegisterCandidate, With
  <2>3. ProposalOK(Proposal(key, direction, proposer))
    <3>1. graph # Nothing /\ \E assessment : Proposable(graph.edges, key, direction, assessment)
      BY <2>1 DEF RegisterCandidate, Admissible, Candidate, Proposal
    <3> QED BY <3>1, ProposalIsOK
  <2> QED BY <1>2, <2>2, <2>3, ValidationTablesGrow DEF ValidationTablesStep, Candidate
<1>3. Grown(graphProposals, graphProposals') /\ Grown(candidates, candidates')
  BY GraphTablesGrow, ValidationTablesGrow DEF GraphTablesStep, ValidationTablesStep
<1> QED BY <1>1, <1>2, <1>3 DEF ProposalsOK, Grown, New
-----------------------------------------------------------------------------
(* Which rows rest on which, and when policies are fixed.                   *)
Domains ==
    /\ DOMAIN graphRevisions \subseteq DOMAIN graphReviews
    /\ DOMAIN graphReviews \subseteq DOMAIN graphReplays
    /\ DOMAIN graphReplays \subseteq DOMAIN graphProposals
    /\ DOMAIN validations \subseteq DOMAIN candidates
    /\ DOMAIN reservations \subseteq DOMAIN candidates
    /\ DOMAIN searchEvaluations \subseteq DOMAIN reservations
    /\ DOMAIN validatedRevisions \subseteq DOMAIN selectionReviews
    /\ DOMAIN selectionReviews \subseteq DOMAIN selections
    /\ DOMAIN searchRevisions \subseteq DOMAIN searchReviews
    /\ DOMAIN exposures \subseteq DOMAIN searchReviews
    /\ DOMAIN searchReviews \subseteq DOMAIN searchSelections
    /\ DOMAIN confirmedRevisions \subseteq DOMAIN confirmationReviews
    /\ DOMAIN confirmationReviews \subseteq DOMAIN confirmationEvaluations
    /\ DOMAIN confirmationEvaluations \subseteq DOMAIN exposures

PoliciesOK ==
    /\ validationPolicy = Nothing \/ validationPolicy \in ValidationPolicies
    /\ searchPolicy = Nothing \/ searchPolicy \in SearchPolicies
    /\ DOMAIN candidates # {} => validationPolicy # Nothing
    /\ DOMAIN reservations # {} => searchPolicy # Nothing
    /\ DOMAIN batches # {} => confirmationPolicy # Nothing

LEMMA AllGrow ==
    ASSUME [Next]_vars
    PROVE  /\ Grown(graphProposals, graphProposals') /\ Grown(graphReplays, graphReplays')
           /\ Grown(graphReviews, graphReviews') /\ Grown(graphRevisions, graphRevisions')
           /\ Grown(candidates, candidates') /\ Grown(validations, validations')
           /\ Grown(selections, selections') /\ Grown(selectionReviews, selectionReviews')
           /\ Grown(validatedRevisions, validatedRevisions')
           /\ Grown(reservations, reservations') /\ Grown(searchEvaluations, searchEvaluations')
           /\ Grown(searchSelections, searchSelections') /\ Grown(searchReviews, searchReviews')
           /\ Grown(searchRevisions, searchRevisions')
           /\ Grown(batches, batches') /\ Grown(exposures, exposures')
           /\ Grown(confirmationEvaluations, confirmationEvaluations')
           /\ Grown(confirmationReviews, confirmationReviews')
           /\ Grown(confirmedRevisions, confirmedRevisions')
BY GraphTablesGrow, ValidationTablesGrow, SearchTablesGrow, ConfirmationTablesGrow
   DEF GraphTablesStep, ValidationTablesStep, SearchTablesStep, ConfirmationTablesStep

LEMMA RestsStill ==
    ASSUME NEW f, NEW g, NEW h, NEW k, Grown(f, g), Grown(h, k),
           DOMAIN f \subseteq DOMAIN h, New(f, g) \subseteq DOMAIN h
    PROVE  DOMAIN g \subseteq DOMAIN k
BY DEF Grown, New

LEMMA DomainsStep ==
    ASSUME Domains, [Next]_vars
    PROVE  Domains'
<1>1. /\ New(graphRevisions, graphRevisions') \subseteq DOMAIN graphReviews
      /\ New(graphReviews, graphReviews') \subseteq DOMAIN graphReplays
      /\ New(graphReplays, graphReplays') \subseteq DOMAIN graphProposals
  BY GraphTablesGrow DEF GraphTablesStep, ApplyRevision, RecordReview, RecordReplay
<1>2. /\ New(validations, validations') \subseteq DOMAIN candidates
      /\ New(validatedRevisions, validatedRevisions') \subseteq DOMAIN selectionReviews
      /\ New(selectionReviews, selectionReviews') \subseteq DOMAIN selections
  BY ValidationTablesGrow DEF ValidationTablesStep, RecordValidation, ApplyValidated, ReviewSelection
<1>3. /\ New(reservations, reservations') \subseteq DOMAIN candidates
      /\ New(searchEvaluations, searchEvaluations') \subseteq DOMAIN reservations
      /\ New(searchRevisions, searchRevisions') \subseteq DOMAIN searchReviews
      /\ New(searchReviews, searchReviews') \subseteq DOMAIN searchSelections
  BY SearchTablesGrow DEF SearchTablesStep, Reserve, Evaluate, ApplySearched, ReviewSearch
<1>4. /\ New(exposures, exposures') \subseteq DOMAIN searchReviews
      /\ New(confirmationEvaluations, confirmationEvaluations') \subseteq DOMAIN exposures
      /\ New(confirmationReviews, confirmationReviews') \subseteq DOMAIN confirmationEvaluations
      /\ New(confirmedRevisions, confirmedRevisions') \subseteq DOMAIN confirmationReviews
  BY ConfirmationTablesGrow
     DEF ConfirmationTablesStep, AuthorizeExposure, EvaluateConfirmation, ReviewConfirmation, ApplyConfirmed
<1>5. /\ DOMAIN graphRevisions' \subseteq DOMAIN graphReviews'
      /\ DOMAIN graphReviews' \subseteq DOMAIN graphReplays'
      /\ DOMAIN graphReplays' \subseteq DOMAIN graphProposals'
  BY <1>1, AllGrow, RestsStill DEF Domains
<1>6. /\ DOMAIN validations' \subseteq DOMAIN candidates'
      /\ DOMAIN validatedRevisions' \subseteq DOMAIN selectionReviews'
      /\ DOMAIN selectionReviews' \subseteq DOMAIN selections'
  BY <1>2, AllGrow, RestsStill DEF Domains
<1>7. /\ DOMAIN reservations' \subseteq DOMAIN candidates'
      /\ DOMAIN searchEvaluations' \subseteq DOMAIN reservations'
      /\ DOMAIN searchRevisions' \subseteq DOMAIN searchReviews'
      /\ DOMAIN searchReviews' \subseteq DOMAIN searchSelections'
  BY <1>3, AllGrow, RestsStill DEF Domains
<1>8. /\ DOMAIN exposures' \subseteq DOMAIN searchReviews'
      /\ DOMAIN confirmationEvaluations' \subseteq DOMAIN exposures'
      /\ DOMAIN confirmationReviews' \subseteq DOMAIN confirmationEvaluations'
      /\ DOMAIN confirmedRevisions' \subseteq DOMAIN confirmationReviews'
  BY <1>4, AllGrow, RestsStill DEF Domains
<1> QED BY <1>5, <1>6, <1>7, <1>8 DEF Domains

(* A policy that something was done under stays.                            *)
LEMMA PoliciesStay ==
    ASSUME PoliciesOK, [Next]_vars
    PROVE  /\ DOMAIN candidates # {} => validationPolicy' = validationPolicy
           /\ DOMAIN reservations # {} => searchPolicy' = searchPolicy
           /\ DOMAIN batches # {} => confirmationPolicy' = confirmationPolicy
BY ValidationTablesGrow, SearchTablesGrow, ConfirmationTablesGrow
   DEF PoliciesOK, ValidationTablesStep, SearchTablesStep, ConfirmationTablesStep

LEMMA PoliciesStep ==
    ASSUME PoliciesOK, [Next]_vars
    PROVE  PoliciesOK'
<1>1. /\ New(candidates, candidates') # {} => validationPolicy # Nothing
      /\ New(reservations, reservations') # {} => searchPolicy # Nothing
      /\ New(batches, batches') # {} => confirmationPolicy # Nothing
  BY ValidationTablesGrow, SearchTablesGrow, ConfirmationTablesGrow
     DEF ValidationTablesStep, SearchTablesStep, ConfirmationTablesStep,
         RegisterCandidate, Reserve, SealBatch
<1>2. /\ DOMAIN candidates' # {} => validationPolicy # Nothing
      /\ DOMAIN reservations' # {} => searchPolicy # Nothing
      /\ DOMAIN batches' # {} => confirmationPolicy # Nothing
  BY <1>1, AllGrow DEF PoliciesOK, Grown, New
<1> QED BY <1>2, ValidationTablesGrow, SearchTablesGrow, ConfirmationTablesGrow
        DEF PoliciesOK, ValidationTablesStep, SearchTablesStep, ConfirmationTablesStep
-----------------------------------------------------------------------------
(* What is recorded of a candidate and what can be computed from it stays.  *)
LEMMA CandidateStays ==
    ASSUME PoliciesOK, [Next]_vars, NEW c \in DOMAIN candidates
    PROVE  /\ c \in DOMAIN candidates'
           /\ candidates'[c] = candidates[c]
           /\ KeyOf(c)' = KeyOf(c)
           /\ \A cases : Gain(candidates[c], cases)' = Gain(candidates[c], cases)
           /\ HeldOutStatus(candidates[c])' = HeldOutStatus(candidates[c])
<1>1. c \in DOMAIN candidates' /\ candidates'[c] = candidates[c]
  BY AllGrow DEF Grown
<1>2. validationPolicy' = validationPolicy
  BY PoliciesStay
<1>3. KeyOf(c)' = KeyOf(c)
  BY <1>1 DEF KeyOf
<1>4. \A cases : Gain(candidates[c], cases)' = Gain(candidates[c], cases)
  BY <1>1, <1>2 DEF Gain
<1>5. HeldOutStatus(candidates[c])' = HeldOutStatus(candidates[c])
  BY <1>1, <1>2, <1>4 DEF HeldOutStatus
<1> QED BY <1>1, <1>3, <1>4, <1>5

LEMMA ValidationScoresStay ==
    ASSUME PoliciesOK, Domains, [Next]_vars, NEW among \in SUBSET DOMAIN validations
    PROVE  ValidationScores(among)' = ValidationScores(among)
<1>1. \A c \in among : /\ c \in DOMAIN candidates
                       /\ validations'[c] = validations[c]
  BY AllGrow DEF Domains, Grown
<1>2. \A c \in among : /\ candidates'[c] = candidates[c]
                       /\ \A cases : Gain(candidates[c], cases)' = Gain(candidates[c], cases)
  BY <1>1, CandidateStays
<1> QED BY <1>1, <1>2 DEF ValidationScores

LEMMA LookStays ==
    ASSUME PoliciesOK, Domains, [Next]_vars, NEW c \in DOMAIN reservations
    PROVE  /\ c \in DOMAIN candidates
           /\ c \in DOMAIN reservations'
           /\ reservations'[c] = reservations[c]
           /\ Margin(c)' = Margin(c)
           /\ searchPolicy' = searchPolicy
<1>1. c \in DOMAIN candidates /\ c \in DOMAIN reservations' /\ reservations'[c] = reservations[c]
  BY AllGrow DEF Domains, Grown
<1>2. searchPolicy' = searchPolicy
  BY PoliciesStay
<1>3. Margin(c)' = Margin(c)
  BY <1>1, CandidateStays DEF Margin
<1> QED BY <1>1, <1>2, <1>3

LEMMA SearchScoresStay ==
    ASSUME PoliciesOK, Domains, [Next]_vars, NEW among \in SUBSET DOMAIN searchEvaluations
    PROVE  SearchScores(among)' = SearchScores(among)
<1>1. \A c \in among : c \in DOMAIN reservations /\ searchEvaluations'[c] = searchEvaluations[c]
  BY AllGrow DEF Domains, Grown
<1>2. \A c \in among : Margin(c)' = Margin(c)
  BY <1>1, LookStays
<1> QED BY <1>1, <1>2 DEF SearchScores
-----------------------------------------------------------------------------
(* A selection with a winner names one of the best of those it is among.    *)
SelectionOK(r) ==
    /\ selections[r].among \subseteq DOMAIN validations
    /\ selections[r].winner # NoWinner =>
         selections[r].winner \in Best(ValidationScores(selections[r].among))

SearchSelectionOK(r) ==
    /\ searchSelections[r].among \subseteq DOMAIN searchEvaluations
    /\ Winner(r) # NoWinner => Winner(r) \in Best(SearchScores(searchSelections[r].among))

SelectionsOK ==
    /\ \A r \in DOMAIN selections : SelectionOK(r)
    /\ \A r \in DOMAIN searchSelections : SearchSelectionOK(r)

LEMMA WinnerIsBest ==
    ASSUME NEW score, NEW winner \in WinnersBy(score), winner # NoWinner
    PROVE  winner \in Best(score)
BY DEF WinnersBy

LEMMA SelectionStays ==
    ASSUME PoliciesOK, Domains, [Next]_vars, NEW r \in DOMAIN selections, SelectionOK(r)
    PROVE  SelectionOK(r)'
<1>1. selections'[r] = selections[r] /\ DOMAIN validations \subseteq DOMAIN validations'
  BY AllGrow DEF Grown
<1>2. PICK among : among = selections[r].among
  OBVIOUS
<1>3. ValidationScores(among)' = ValidationScores(among)
  BY <1>2, ValidationScoresStay DEF SelectionOK
<1> QED BY <1>1, <1>2, <1>3 DEF SelectionOK

LEMMA NewSelection ==
    ASSUME PoliciesOK, Domains, [Next]_vars, NEW r \in New(selections, selections')
    PROVE  SelectionOK(r)'
<1>1. PICK key \in Keys, winner \in Candidates \cup {NoWinner}, selector \in Holders.selector :
          FinalizeSelection(r, key, winner, selector)
  BY ValidationTablesGrow DEF ValidationTablesStep
<1>2. PICK among : among = CurrentOf(DOMAIN validations, key)
  OBVIOUS
<1>3. /\ selections'[r] = [key |-> key, among |-> among, winner |-> winner, selector |-> selector]
      /\ winner \in WinnersBy(ValidationScores(among))
      /\ validations' = validations
  BY <1>1, <1>2 DEF FinalizeSelection, With
<1>4. among \in SUBSET DOMAIN validations
  BY <1>2 DEF CurrentOf
<1>5. ValidationScores(among)' = ValidationScores(among)
  BY <1>4, ValidationScoresStay
<1> QED BY <1>3, <1>4, <1>5, WinnerIsBest DEF SelectionOK

LEMMA SearchSelectionStays ==
    ASSUME PoliciesOK, Domains, [Next]_vars, NEW r \in DOMAIN searchSelections, SearchSelectionOK(r)
    PROVE  SearchSelectionOK(r)'
<1>1. searchSelections'[r] = searchSelections[r] /\ DOMAIN searchEvaluations \subseteq DOMAIN searchEvaluations'
  BY AllGrow DEF Grown
<1>2. PICK among : among = searchSelections[r].among
  OBVIOUS
<1>3. SearchScores(among)' = SearchScores(among)
  BY <1>2, SearchScoresStay DEF SearchSelectionOK
<1> QED BY <1>1, <1>2, <1>3 DEF SearchSelectionOK, Winner

LEMMA NewSearchSelection ==
    ASSUME PoliciesOK, Domains, [Next]_vars, NEW r \in New(searchSelections, searchSelections')
    PROVE  SearchSelectionOK(r)'
<1>1. PICK key \in Keys, winner \in Candidates \cup {NoWinner}, selector \in Holders.selector :
          FinalizeSearch(r, key, winner, selector)
  BY SearchTablesGrow DEF SearchTablesStep
<1>2. PICK among : among = CurrentOf(DOMAIN reservations, key)
  OBVIOUS
<1>3. PICK family : searchSelections'[r] = [key |-> key, among |-> among, family |-> family,
                                            winner |-> winner, selector |-> selector]
  BY <1>1, <1>2 DEF FinalizeSearch, With
<1>4. /\ winner \in WinnersBy(SearchScores(among))
      /\ searchEvaluations' = searchEvaluations
      /\ among \in SUBSET DOMAIN searchEvaluations
  BY <1>1, <1>2 DEF FinalizeSearch
<1>5. SearchScores(among)' = SearchScores(among)
  BY <1>4, SearchScoresStay
<1> QED BY <1>3, <1>4, <1>5, WinnerIsBest DEF SearchSelectionOK, Winner

LEMMA SelectionsStep ==
    ASSUME PoliciesOK, Domains, SelectionsOK, [Next]_vars
    PROVE  SelectionsOK'
<1>1. \A r \in DOMAIN selections' : SelectionOK(r)'
  BY SelectionStays, NewSelection DEF SelectionsOK, New
<1>2. \A r \in DOMAIN searchSelections' : SearchSelectionOK(r)'
  BY SearchSelectionStays, NewSearchSelection DEF SelectionsOK, New
<1> QED BY <1>1, <1>2 DEF SelectionsOK
-----------------------------------------------------------------------------
(* What was applied, by any protocol.                                       *)
RevisionOK(r) ==
    /\ r = [base |-> r.base, new |-> r.new]
    /\ IsGraph(r.base)
    /\ r.base.generation < graph.generation
    /\ r.new.generation = r.base.generation + 1

RevisionsOK ==
    /\ graph = Nothing => Revisions = {}
    /\ \A r \in Revisions : RevisionOK(r)
    /\ \A r, s \in Revisions : r.base.generation = s.base.generation => r.base.edges = s.base.edges
    /\ graph # Nothing =>
         \A g \in 0 .. graph.generation - 1 : \E r \in Revisions : r.base.generation = g

Revises(edges, ref) ==
    /\ graph # Nothing
    /\ edges \in Graphs
    /\ ref \in References
    /\ Line!Adjacent(graph.edges, edges)
    /\ graph' = Successor(edges, ref)
    /\ Revisions' = Revisions \cup {Revision(edges, ref)}

revisionTables == <<graphRevisions, validatedRevisions, searchRevisions, confirmedRevisions>>

LEMMA EntryAdded ==
    ASSUME NEW f, NEW x, NEW y, x \notin DOMAIN f
    PROVE  Entries(With(f, x, y)) = Entries(f) \cup {y}
BY DEF Entries, With

(* The winner of a selection is a candidate.                                *)
LEMMA WinnersAreCandidates ==
    ASSUME Domains, SelectionsOK
    PROVE  /\ \A r \in DOMAIN selections : selections[r].winner # NoWinner =>
                 selections[r].winner \in DOMAIN candidates
           /\ \A r \in DOMAIN searchSelections : Winner(r) # NoWinner =>
                 /\ Winner(r) \in searchSelections[r].among
                 /\ Winner(r) \in DOMAIN searchEvaluations
                 /\ Winner(r) \in DOMAIN candidates
                 /\ searchEvaluations[Winner(r)] = "SEARCH_CORRECTED_IMPROVED"
BY DEF Domains, SelectionsOK, SelectionOK, SearchSelectionOK, Best, ValidationScores, SearchScores

LEMMA ApplyRevisionRevises ==
    ASSUME GraphOK, ProposalsOK, Domains, NEW p, ApplyRevision(p),
           UNCHANGED <<validatedRevisions, searchRevisions, confirmedRevisions>>
    PROVE  \E edges, ref : Revises(edges, ref)
<1> DEFINE edges == graphProposals[p].edges
<1>1. p \in DOMAIN graphProposals /\ graphProposals[p].base = graph /\ p \in GraphProposals
  BY DEF ApplyRevision, Domains, BaseIsCurrent, ProposalsOK
<1>2. /\ IsGraph(graph) /\ graph # Nothing
      /\ edges \in Graphs
      /\ Line!Adjacent(graph.edges, edges)
  BY <1>1, GraphIsSomething DEF ProposalsOK, ProposalOK
<1>3. Entries(graphRevisions)' = Entries(graphRevisions) \cup {Revision(edges, p)}
  BY EntryAdded DEF ApplyRevision
<1>4. Revisions' = Revisions \cup {Revision(edges, p)}
  BY <1>3 DEF Revisions
<1>5. graph' = Successor(edges, p)
  BY DEF ApplyRevision
<1> QED BY <1>1, <1>2, <1>4, <1>5 DEF Revises, References

LEMMA CandidateIsSuccessor ==
    ASSUME GraphOK, ProposalsOK, NEW c \in DOMAIN candidates, CandidateFresh(c)
    PROVE  /\ IsGraph(graph) /\ graph # Nothing
           /\ c \in References
           /\ candidates[c].proposal.edges \in Graphs
           /\ Line!Adjacent(graph.edges, candidates[c].proposal.edges)
<1>1. ProposalOK(candidates[c].proposal) /\ candidates[c].proposal.base = graph
  BY DEF ProposalsOK, CandidateFresh, BaseIsCurrent
<1> QED BY <1>1, GraphIsSomething DEF ProposalOK, ProposalsOK, References

LEMMA SelectionIsFresh ==
    ASSUME Domains, SelectionsOK, NEW r \in DOMAIN selections,
           selections[r].winner # NoWinner, SelectionFresh(r)
    PROVE  selections[r].winner \in DOMAIN candidates /\ CandidateFresh(selections[r].winner)
BY WinnersAreCandidates DEF SelectionFresh

LEMMA SearchIsFresh ==
    ASSUME Domains, SelectionsOK, NEW r \in DOMAIN searchSelections, SearchFresh(r)
    PROVE  /\ Winner(r) \in DOMAIN candidates
           /\ CandidateFresh(Winner(r))
           /\ KeyOf(Winner(r)) = searchSelections[r].key
<1>1. Winner(r) # NoWinner
  BY DEF SearchFresh, Winner
<1>2. Winner(r) \in CurrentOf(DOMAIN reservations, searchSelections[r].key)
  BY <1>1, WinnersAreCandidates DEF SearchFresh
<1> QED BY <1>1, <1>2, WinnersAreCandidates DEF CurrentOf, KeyOf

LEMMA ApplyValidatedRevises ==
    ASSUME GraphOK, ProposalsOK, Domains, SelectionsOK, NEW r, ApplyValidated(r),
           UNCHANGED <<graphRevisions, searchRevisions, confirmedRevisions>>
    PROVE  \E edges, ref : Revises(edges, ref)
<1> DEFINE winner == selections[r].winner
           edges == candidates[winner].proposal.edges
<1>1. winner \in DOMAIN candidates /\ CandidateFresh(winner)
  BY SelectionIsFresh DEF ApplyValidated, Domains
<1>2. /\ graph # Nothing /\ winner \in References /\ edges \in Graphs
      /\ Line!Adjacent(graph.edges, edges)
  BY <1>1, CandidateIsSuccessor
<1>3. Entries(validatedRevisions)' = Entries(validatedRevisions) \cup {Revision(edges, winner)}
  BY EntryAdded DEF ApplyValidated, CandidateRevision
<1>4. Revisions' = Revisions \cup {Revision(edges, winner)}
  BY <1>3 DEF Revisions
<1>5. graph' = Successor(edges, winner)
  BY DEF ApplyValidated
<1> QED BY <1>2, <1>4, <1>5 DEF Revises

LEMMA ApplySearchedRevises ==
    ASSUME GraphOK, ProposalsOK, Domains, SelectionsOK, NEW r, ApplySearched(r),
           UNCHANGED <<graphRevisions, validatedRevisions, confirmedRevisions>>
    PROVE  \E edges, ref : Revises(edges, ref)
<1> DEFINE winner == searchSelections[r].winner
           edges == candidates[winner].proposal.edges
<1>1. winner \in DOMAIN candidates /\ CandidateFresh(winner)
  BY SearchIsFresh DEF ApplySearched, Domains, Winner
<1>2. /\ graph # Nothing /\ winner \in References /\ edges \in Graphs
      /\ Line!Adjacent(graph.edges, edges)
  BY <1>1, CandidateIsSuccessor
<1>3. Entries(searchRevisions)' = Entries(searchRevisions) \cup {Revision(edges, winner)}
  BY EntryAdded DEF ApplySearched, CandidateRevision
<1>4. Revisions' = Revisions \cup {Revision(edges, winner)}
  BY <1>3 DEF Revisions
<1>5. graph' = Successor(edges, winner)
  BY DEF ApplySearched
<1> QED BY <1>2, <1>4, <1>5 DEF Revises

LEMMA ApplyConfirmedRevises ==
    ASSUME GraphOK, ProposalsOK, Domains, SelectionsOK, NEW r, ApplyConfirmed(r),
           UNCHANGED <<graphRevisions, validatedRevisions, searchRevisions>>
    PROVE  \E edges, ref :
              /\ Revises(edges, ref)
              /\ Entries(confirmedRevisions)' = Entries(confirmedRevisions) \cup {Revision(edges, ref)}
<1> DEFINE winner == Winner(r)
           edges == candidates[winner].proposal.edges
<1>1. winner \in DOMAIN candidates /\ CandidateFresh(winner)
  BY SearchIsFresh DEF ApplyConfirmed, Confirmable, Domains
<1>2. /\ graph # Nothing /\ winner \in References /\ edges \in Graphs
      /\ Line!Adjacent(graph.edges, edges)
  BY <1>1, CandidateIsSuccessor
<1>3. Entries(confirmedRevisions)' = Entries(confirmedRevisions) \cup {Revision(edges, winner)}
  BY EntryAdded DEF ApplyConfirmed, CandidateRevision
<1>4. Revisions' = Revisions \cup {Revision(edges, winner)}
  BY <1>3 DEF Revisions
<1>5. graph' = Successor(edges, winner)
  BY DEF ApplyConfirmed
<1> QED BY <1>2, <1>3, <1>4, <1>5 DEF Revises

Registers(edges) ==
    /\ graph = Nothing
    /\ edges \in Graphs
    /\ graph' = [edges |-> edges, generation |-> 0, evidence |-> << >>]

ConfirmsToo(edges, ref) ==
    Entries(confirmedRevisions)' = Entries(confirmedRevisions) \cup {Revision(edges, ref)}

LEMMA GraphMoves ==
    ASSUME GraphOK, ProposalsOK, Domains, SelectionsOK, [Next]_vars
    PROVE  \/ UNCHANGED <<graph, revisionTables>>
           \/ (\E edges : Registers(edges)) /\ UNCHANGED revisionTables
           \/ (\E edges, ref : Revises(edges, ref)) /\ UNCHANGED confirmedRevisions
           \/ \E edges, ref : Revises(edges, ref) /\ ConfirmsToo(edges, ref)
<1>1. CASE GraphStep /\ UNCHANGED <<validationTables, searchTables, confirmationTables>>
  <2>1. UNCHANGED <<validatedRevisions, searchRevisions, confirmedRevisions>>
    BY <1>1 DEF validationTables, searchTables, confirmationTables
  <2>2. ASSUME NEW edges \in InitialEdges, RegisterGraph(edges)
        PROVE  Registers(edges) /\ UNCHANGED revisionTables
    <3>1. edges \in Graphs
      BY GraphAssumption DEF Graphs, Edges
    <3> QED BY <2>1, <2>2, <3>1 DEF RegisterGraph, Registers, revisionTables, graphTables
  <2>3. ASSUME NEW p \in GraphProposals, ApplyRevision(p) PROVE \E edges, ref : Revises(edges, ref)
    BY <2>1, <2>3, ApplyRevisionRevises
  <2>4. CASE \/ \E s \in NewSamples : RecordSample(s)
             \/ \E p \in GraphProposals :
                 \/ \E key \in Keys, direction \in Directions, policy \in GraphSignals, proposer \in Holders.proposer :
                       RegisterProposal(p, key, direction, policy, proposer)
                 \/ \E minCases \in ReplayMinima : RecordReplay(p, minCases)
                 \/ \E decision \in Decisions, reviewer \in Holders.reviewer : RecordReview(p, decision, reviewer)
    BY <2>1, <2>4 DEF RecordSample, RegisterProposal, RecordReplay, RecordReview, revisionTables, graphTables
  <2> QED BY <1>1, <2>1, <2>2, <2>3, <2>4 DEF GraphStep
<1>2. CASE ValidationStep /\ UNCHANGED <<searchTables, confirmationTables>>
  <2>1. UNCHANGED <<searchRevisions, confirmedRevisions>>
    BY <1>2 DEF searchTables, confirmationTables
  <2>2. ASSUME NEW r \in Selections, ApplyValidated(r) PROVE \E edges, ref : Revises(edges, ref)
    BY <2>1, <2>2, ApplyValidatedRevises DEF ApplyValidated, graphTables
  <2>3. CASE ValidationStep /\ ~\E r \in Selections : ApplyValidated(r)
    BY <2>1, <2>3 DEF ValidationStep, RegisterPolicy, RegisterCandidate, RecordValidation, FinalizeSelection,
          ReviewSelection, revisionTables, graphVars, graphTables
  <2> QED BY <1>2, <2>1, <2>2, <2>3
<1>3. CASE SearchStep /\ UNCHANGED confirmationTables
  <2>1. UNCHANGED confirmedRevisions
    BY <1>3 DEF confirmationTables
  <2>2. ASSUME NEW r \in SearchSelections, ApplySearched(r) PROVE \E edges, ref : Revises(edges, ref)
    BY <2>1, <2>2, ApplySearchedRevises DEF ApplySearched, graphTables, validationTables
  <2>3. CASE SearchStep /\ ~\E r \in SearchSelections : ApplySearched(r)
    BY <2>1, <2>3 DEF SearchStep, RegisterSearchPolicy, Reserve, Evaluate, FinalizeSearch,
          ReviewSearch, revisionTables, graphVars, graphTables, validationVars, validationTables
  <2> QED BY <1>3, <2>1, <2>2, <2>3
<1>4. CASE ConfirmationStep
  <2>1. ASSUME NEW r \in SearchSelections, ApplyConfirmed(r)
        PROVE  \E edges, ref : Revises(edges, ref) /\ ConfirmsToo(edges, ref)
    BY <2>1, ApplyConfirmedRevises
       DEF ApplyConfirmed, graphTables, validationTables, searchTables, ConfirmsToo
  <2>2. CASE ConfirmationStep /\ ~\E r \in SearchSelections : ApplyConfirmed(r)
    <3>1. UNCHANGED <<searchVars, confirmedRevisions>>
      BY <2>2 DEF ConfirmationStep, RegisterConfirmationPolicy, SealBatch, AuthorizeExposure,
            EvaluateConfirmation, ReviewConfirmation
    <3> QED BY <3>1 DEF revisionTables, searchVars, searchTables, validationVars, validationTables,
               graphVars, graphTables
  <2> QED BY <1>4, <2>1, <2>2
<1>5. CASE UNCHANGED vars
  BY <1>5 DEF vars, searchVars, searchTables, validationVars, validationTables, graphVars, graphTables,
       confirmationTables, revisionTables
<1> QED BY <1>1, <1>2, <1>3, <1>4, <1>5 DEF Next

LEMMA SuccessorIsGraph ==
    ASSUME IsGraph(graph), NEW edges \in Graphs, NEW ref \in References
    PROVE  /\ IsGraph(Successor(edges, ref))
           /\ Successor(edges, ref).edges = edges
           /\ Successor(edges, ref).generation = graph.generation + 1
           /\ graph.generation \in Nat
<1>1. /\ graph.generation = Len(graph.evidence) /\ graph.evidence \in Seq(References)
      /\ Append(graph.evidence, ref) \in Seq(References)
      /\ Len(Append(graph.evidence, ref)) = Len(graph.evidence) + 1
      /\ Len(graph.evidence) \in Nat
  BY DEF IsGraph
<1> QED BY <1>1 DEF Successor, IsGraph

LEMMA GraphStaysOK ==
    ASSUME GraphOK, ProposalsOK, Domains, SelectionsOK, [Next]_vars
    PROVE  GraphOK'
<1>1. ASSUME NEW edges, Registers(edges) PROVE IsGraph(graph')
  <2>1. << >> \in Seq(References) /\ Len(<< >>) = 0
    OBVIOUS
  <2> QED BY <1>1, <2>1 DEF Registers, IsGraph
<1>2. ASSUME NEW edges, NEW ref, Revises(edges, ref) PROVE IsGraph(graph')
  BY <1>2, SuccessorIsGraph DEF Revises, GraphOK
<1> QED BY <1>1, <1>2, GraphMoves DEF GraphOK

LEMMA RevisionsStep ==
    ASSUME GraphOK, ProposalsOK, Domains, SelectionsOK, RevisionsOK, [Next]_vars
    PROVE  RevisionsOK'
<1>1. ASSUME UNCHANGED <<graph, revisionTables>> PROVE RevisionsOK'
  <2>1. Revisions' = Revisions /\ graph' = graph
    BY <1>1 DEF Revisions, Entries, revisionTables
  <2> QED BY <2>1 DEF RevisionsOK, RevisionOK
<1>2. ASSUME NEW edges, Registers(edges), UNCHANGED revisionTables PROVE RevisionsOK'
  <2>1. Revisions' = {}
    <3>1. Revisions' = Revisions
      BY <1>2 DEF Revisions, Entries, revisionTables
    <3>2. graph = Nothing
      BY <1>2 DEF Registers
    <3>3. Revisions = {}
      BY <3>2 DEF RevisionsOK
    <3> QED BY <3>1, <3>3
  <2>2. graph'.generation = 0
    BY <1>2 DEF Registers
  <2> QED BY <2>1, <2>2 DEF RevisionsOK
<1>3. ASSUME NEW edges, NEW ref, Revises(edges, ref) PROVE RevisionsOK'
  <2> DEFINE added == Revision(edges, ref)
             generation == graph.generation
  <2>1. /\ IsGraph(graph) /\ IsGraph(graph')
        /\ graph'.generation = generation + 1 /\ generation \in Nat
    BY <1>3, SuccessorIsGraph DEF Revises, GraphOK
  <2>2. Revisions' = Revisions \cup {added} /\ added = [base |-> graph, new |-> graph']
    BY <1>3 DEF Revises, Revision
  <2>3. ASSUME NEW r \in Revisions' PROVE RevisionOK(r)'
    <3>1. CASE r \in Revisions
      <4>1. RevisionOK(r)
        BY <3>1 DEF RevisionsOK
      <4>2. r.base.generation \in Nat
        BY <4>1 DEF RevisionOK, IsGraph
      <4> QED BY <2>1, <4>1, <4>2 DEF RevisionOK
    <3>2. CASE r = added
      BY <2>1, <2>2, <3>2 DEF RevisionOK
    <3> QED BY <2>2, <2>3, <3>1, <3>2
  <2>4. ASSUME NEW r \in Revisions', NEW s \in Revisions', r.base.generation = s.base.generation
        PROVE  r.base.edges = s.base.edges
    <3>1. ASSUME NEW t \in Revisions PROVE t.base.generation \in Nat /\ t.base.generation < generation
      <4>1. RevisionOK(t)
        BY DEF RevisionsOK
      <4> QED BY <4>1 DEF RevisionOK, IsGraph
    <3>2. added.base = graph
      BY <2>2
    <3> QED BY <2>1, <2>2, <2>4, <3>1, <3>2 DEF RevisionsOK
  <2>5. ASSUME NEW g \in 0 .. graph'.generation - 1 PROVE \E r \in Revisions' : r.base.generation = g
    <3>1. CASE g = generation
      BY <2>2, <3>1
    <3>2. CASE g \in 0 .. generation - 1
      BY <1>3, <2>2, <3>2 DEF RevisionsOK, Revises
    <3> QED BY <2>1, <2>5, <3>1, <3>2
  <2>6. graph' # Nothing
    BY <2>1, GraphIsSomething
  <2> QED BY <2>3, <2>4, <2>5, <2>6 DEF RevisionsOK
<1> QED BY <1>1, <1>2, <1>3, GraphMoves

(* The replaced graphs and the current one, read as a sequence.             *)
LineNow ==
    IF graph = Nothing THEN << >>
    ELSE [i \in 1 .. graph.generation + 1 |-> GraphOf(i - 1)]

LEMMA ChosenEdges ==
    ASSUME NEW R, NEW r \in R,
           \A s, t \in R : s.base.generation = t.base.generation => s.base.edges = t.base.edges
    PROVE  (CHOOSE s \in R : s.base.generation = r.base.generation).base.edges = r.base.edges
<1> DEFINE chosen == CHOOSE s \in R : s.base.generation = r.base.generation
<1>1. chosen \in R /\ chosen.base.generation = r.base.generation
  OBVIOUS
<1> HIDE DEF chosen
<1>2. chosen.base.edges = r.base.edges
  BY <1>1
<1> QED BY <1>2 DEF chosen

LEMMA LineExtends ==
    ASSUME GraphOK, RevisionsOK, GraphOK', RevisionsOK', NEW edges, NEW ref, Revises(edges, ref)
    PROVE  /\ LineNow # << >>
           /\ LineNow[Len(LineNow)] = graph.edges
           /\ LineNow' = Append(LineNow, edges)
           /\ Len(LineNow) = graph.generation + 1
<1>0. PICK n \in Nat : n = graph.generation
  BY SuccessorIsGraph DEF Revises, GraphOK
<1>1. /\ graph.generation = n /\ graph'.generation = n + 1 /\ graph'.edges = edges
      /\ graph # Nothing /\ graph' # Nothing
  BY <1>0, SuccessorIsGraph, GraphIsSomething DEF Revises, GraphOK
<1>2. LineNow = [i \in 1 .. n + 1 |-> GraphOf(i - 1)]
  BY <1>1 DEF LineNow
<1>3. LineNow' = [i \in 1 .. n + 2 |-> GraphOf(i - 1)']
  BY <1>1 DEF LineNow
<1>4. GraphOf(n) = graph.edges /\ GraphOf(n + 1)' = edges
  BY <1>1 DEF GraphOf
<1>5. Len(LineNow) = n + 1 /\ LineNow # << >> /\ LineNow[Len(LineNow)] = graph.edges
  BY <1>1, <1>2, <1>4
<1>6. ASSUME NEW g \in 0 .. n PROVE GraphOf(g)' = GraphOf(g)
  <2>1. PICK r \in Revisions' :
            /\ r.base.generation = g
            /\ g < n => r \in Revisions
            /\ g = n => r.base = graph
    <3>1. CASE g < n
      BY <1>1, <1>6, <3>1 DEF Revises, RevisionsOK
    <3>2. CASE g = n
      <4>1. Revision(edges, ref) \in Revisions' /\ Revision(edges, ref).base = graph
        BY DEF Revises, Revision
      <4> QED BY <1>1, <3>2, <4>1
    <3> QED BY <1>1, <1>6, <3>1, <3>2
  <2>2. GraphOf(g)' = r.base.edges
    <3>1. (CHOOSE s \in Revisions' : s.base.generation = g).base.edges = r.base.edges
      BY <2>1, ChosenEdges DEF RevisionsOK
    <3> QED BY <1>1, <1>6, <3>1 DEF GraphOf
  <2>3. CASE g < n
    <3>1. (CHOOSE s \in Revisions : s.base.generation = g).base.edges = r.base.edges
      BY <2>1, <2>3, ChosenEdges DEF RevisionsOK
    <3> QED BY <1>1, <1>6, <2>2, <2>3, <3>1 DEF GraphOf
  <2>4. CASE g = n
    BY <1>1, <1>4, <2>1, <2>2, <2>4
  <2> QED BY <1>6, <2>3, <2>4
<1>7. LineNow' = Append(LineNow, edges)
  <2>1. Append(LineNow, edges) = [i \in 1 .. n + 2 |-> IF i = n + 2 THEN edges ELSE GraphOf(i - 1)]
    BY <1>1, <1>2, <1>5
  <2>2. \A i \in 1 .. n + 2 : GraphOf(i - 1)' = IF i = n + 2 THEN edges ELSE GraphOf(i - 1)
    BY <1>1, <1>4, <1>6
  <2> QED BY <1>3, <2>1, <2>2
<1> QED BY <1>1, <1>5, <1>7

confirmedNow == {r.new.generation : r \in Entries(confirmedRevisions)}

LEMMA GraphStepRefines ==
    ASSUME GraphOK, ProposalsOK, Domains, SelectionsOK, RevisionsOK, [Next]_vars
    PROVE  [Line!LineNext]_<<LineNow, confirmedNow>>
<1>1. GraphOK' /\ RevisionsOK'
  BY GraphStaysOK, RevisionsStep
<1>2. ASSUME UNCHANGED <<graph, revisionTables>> PROVE UNCHANGED <<LineNow, confirmedNow>>
  <2>1. Revisions' = Revisions /\ graph' = graph /\ confirmedRevisions' = confirmedRevisions
    BY <1>2 DEF Revisions, Entries, revisionTables
  <2> QED BY <2>1 DEF LineNow, GraphOf, confirmedNow, Entries
<1>3. ASSUME NEW edges, Registers(edges), UNCHANGED revisionTables PROVE Line!LineNext
  <2>1. LineNow = << >>
    BY <1>3 DEF LineNow, Registers
  <2>2. LineNow' = <<edges>>
    <3>1. graph'.generation = 0 /\ graph'.edges = edges /\ graph' # Nothing
      BY <1>1, <1>3, GraphIsSomething, NothingIsEmpty DEF Registers
    <3>2. LineNow' = [i \in 1 .. 1 |-> GraphOf(i - 1)']
      BY <3>1 DEF LineNow
    <3>3. \A i \in 1 .. 1 : GraphOf(i - 1)' = edges
      BY <3>1 DEF GraphOf
    <3> QED BY <3>2, <3>3
  <2>3. UNCHANGED confirmedNow
    BY <1>3 DEF confirmedNow, Entries, revisionTables
  <2>4. edges \in Graphs
    BY <1>3 DEF Registers
  <2> QED BY <2>1, <2>2, <2>3, <2>4 DEF Line!LineNext, Line!Register, LineNow, confirmedNow, Graphs
<1>4. ASSUME NEW edges, NEW ref, Revises(edges, ref), UNCHANGED confirmedRevisions PROVE Line!LineNext
  <2>1. UNCHANGED confirmedNow
    BY <1>4 DEF confirmedNow, Entries
  <2>2. edges \in Graphs /\ Line!Adjacent(graph.edges, edges)
    BY <1>4 DEF Revises
  <2> QED BY <1>1, <1>4, <2>1, <2>2, LineExtends DEF Line!LineNext, Line!Revise, LineNow, confirmedNow, Graphs
<1>5. ASSUME NEW edges, NEW ref, Revises(edges, ref), ConfirmsToo(edges, ref) PROVE Line!LineNext
  <2>1. confirmedNow' = confirmedNow \cup {graph.generation + 1}
    <3>1. Revision(edges, ref).new.generation = graph.generation + 1
      BY DEF Revision, Successor
    <3> QED BY <1>5, <3>1 DEF confirmedNow, ConfirmsToo
  <2>2. edges \in Graphs /\ Line!Adjacent(graph.edges, edges) /\ graph.generation \in Nat
    BY <1>5, SuccessorIsGraph DEF Revises, GraphOK
  <2>3. /\ LineNow # << >> /\ LineNow[Len(LineNow)] = graph.edges
        /\ LineNow' = Append(LineNow, edges)
        /\ Len(LineNow) = graph.generation + 1
    BY <1>1, <1>5, LineExtends
  <2>4. Line!Current + 1 = graph.generation + 1
    BY <2>2, <2>3 DEF Line!Current, LineNow
  <2>5. Line!ReviseConfirmed(edges)
    BY <2>1, <2>2, <2>3, <2>4 DEF Line!ReviseConfirmed, LineNow, confirmedNow
  <2> QED BY <2>2, <2>5 DEF Line!LineNext, Graphs
<1> QED BY <1>2, <1>3, <1>4, <1>5, GraphMoves
-----------------------------------------------------------------------------
(* The looks at held-out parts are numbered in the order of reservation.    *)
LookOK(c) ==
    LET n == Cardinality(Looks(KeyOf(c))) IN
    /\ reservations[c].ordinal \in 1 .. n
    /\ reservations[c].threshold = Threshold(reservations[c].ordinal)
    /\ Cardinality(Before(c)) = reservations[c].ordinal - 1
    /\ {reservations[d].ordinal : d \in Looks(KeyOf(c))} = 1 .. n
    /\ n <= searchPolicy.maxLooks

LooksOK ==
    /\ IsFiniteSet(DOMAIN reservations)
    /\ \A c \in DOMAIN reservations : LookOK(c)

LEMMA LooksAreFinite ==
    ASSUME LooksOK, NEW key
    PROVE  IsFiniteSet(Looks(key)) /\ Cardinality(Looks(key)) \in Nat
<1>1. Looks(key) \in SUBSET DOMAIN reservations
  BY DEF Looks
<1> QED BY <1>1, FS_Subset, FS_CardinalityType DEF LooksOK

(* Nothing is reserved.                                                     *)
LEMMA LooksUndisturbed ==
    ASSUME PoliciesOK, Domains, LooksOK, [Next]_vars, New(reservations, reservations') = {}
    PROVE  LooksOK'
<1>1. DOMAIN reservations' = DOMAIN reservations
  BY AllGrow DEF Grown, New
<1>2. ASSUME NEW c \in DOMAIN reservations
      PROVE  reservations'[c] = reservations[c] /\ KeyOf(c)' = KeyOf(c) /\ searchPolicy' = searchPolicy
  BY LookStays, CandidateStays
<1>3. ASSUME NEW key PROVE Looks(key)' = Looks(key)
  BY <1>1, <1>2 DEF Looks
<1>4. ASSUME NEW c \in DOMAIN reservations PROVE LookOK(c)'
  <2>1. PICK key : key = KeyOf(c)
    OBVIOUS
  <2>2. Looks(key)' = Looks(key) /\ KeyOf(c)' = key
    BY <1>2, <1>3, <2>1
  <2>3. \A d \in Looks(key) : reservations'[d] = reservations[d]
    BY <1>2 DEF Looks
  <2>4. Before(c)' = Before(c)
    BY <1>2, <2>1, <2>2, <2>3 DEF Before
  <2>5. {reservations[d].ordinal : d \in Looks(key)}' = {reservations[d].ordinal : d \in Looks(key)}
    BY <2>2, <2>3
  <2>6. LookOK(c)
    BY DEF LooksOK
  <2> QED BY <1>2, <2>1, <2>2, <2>4, <2>5, <2>6 DEF LookOK, Threshold
<1> QED BY <1>1, <1>4 DEF LooksOK

LEMMA ReservedInOrder ==
    ASSUME PoliciesOK, Domains, LooksOK, [Next]_vars, NEW c, NEW keeper, Reserve(c, keeper)
    PROVE  LooksOK'
<1>1. PICK key : key = KeyOf(c)
  OBVIOUS
<1>2. PICK n : n = Cardinality(Looks(key))
  OBVIOUS
<1>3. /\ IsFiniteSet(Looks(key)) /\ n \in Nat
  BY <1>2, LooksAreFinite
<1>4. Family(KeyOf(c)) = Looks(key)
  BY <1>1 DEF Family, Looks
<1>5. /\ c \notin DOMAIN reservations
      /\ reservations' = With(reservations, c, [ordinal |-> n + 1, threshold |-> Threshold(n + 1), keeper |-> keeper])
      /\ UNCHANGED <<candidates, searchPolicy>>
      /\ n < searchPolicy.maxLooks
      /\ searchPolicy.maxLooks \in Nat
  <2>1. searchPolicy \in SearchPolicies
    BY DEF Reserve, PoliciesOK
  <2> QED BY <1>2, <1>4, <2>1, SearchAssumption DEF Reserve, validationVars, validationTables
<1>6. /\ DOMAIN reservations' = DOMAIN reservations \cup {c}
      /\ reservations'[c].ordinal = n + 1
      /\ reservations'[c].threshold = Threshold(n + 1)
      /\ \A d \in DOMAIN reservations : reservations'[d] = reservations[d]
  BY <1>5 DEF With
<1>7. ASSUME NEW d PROVE KeyOf(d)' = KeyOf(d)
  BY <1>5 DEF KeyOf
<1>8. ASSUME NEW k PROVE Looks(k)' = IF k = key THEN Looks(key) \cup {c} ELSE Looks(k)
  BY <1>1, <1>6, <1>7 DEF Looks
<1>9. Cardinality(Looks(key))' = n + 1
  <2>1. c \notin Looks(key)
    BY <1>5 DEF Looks
  <2> QED BY <1>2, <1>3, <1>8, <2>1, FS_AddElement
<1>10. ASSUME NEW d \in Looks(key) PROVE reservations[d].ordinal \in 1 .. n
  <2>1. LookOK(d) /\ KeyOf(d) = key
    BY DEF LooksOK, Looks
  <2> QED BY <1>2, <2>1 DEF LookOK
<1>11. {reservations[d].ordinal : d \in Looks(key)} = 1 .. n
  <2>1. CASE Looks(key) = {}
    <3>1. n = 0
      BY <1>2, <2>1, FS_EmptySet
    <3> QED BY <2>1, <3>1
  <2>2. CASE Looks(key) # {}
    <3>1. PICK d \in Looks(key) : TRUE
      BY <2>2
    <3>2. LookOK(d) /\ KeyOf(d) = key
      BY DEF LooksOK, Looks
    <3> QED BY <1>2, <3>2 DEF LookOK
  <2> QED BY <2>1, <2>2
<1>12. {reservations[d].ordinal : d \in Looks(key)}' = 1 .. n + 1
  <2>1. {reservations'[d].ordinal : d \in Looks(key) \cup {c}}
          = {reservations[d].ordinal : d \in Looks(key)} \cup {n + 1}
    BY <1>6 DEF Looks
  <2>2. (1 .. n) \cup {n + 1} = 1 .. n + 1
    BY <1>3
  <2> QED BY <1>8, <1>11, <2>1, <2>2
<1>13. LookOK(c)'
  <2>1. Before(c)' = Looks(key)
    <3>1. Before(c)' = {d \in Looks(key) \cup {c} : reservations'[d].ordinal < n + 1}
      BY <1>1, <1>6, <1>7, <1>8 DEF Before
    <3>2. \A d \in Looks(key) : reservations'[d].ordinal < n + 1
      BY <1>3, <1>6, <1>10 DEF Looks
    <3>3. ~(reservations'[c].ordinal < n + 1)
      BY <1>3, <1>6
    <3> QED BY <1>6, <3>1, <3>2, <3>3
  <2>2. Threshold(n + 1)' = Threshold(n + 1)
    BY <1>5 DEF Threshold
  <2> QED BY <1>1, <1>2, <1>3, <1>5, <1>6, <1>7, <1>9, <1>12, <2>1, <2>2 DEF LookOK
<1>14. ASSUME NEW d \in DOMAIN reservations PROVE LookOK(d)'
  <2>1. PICK k : k = KeyOf(d)
    OBVIOUS
  <2>2. LookOK(d) /\ reservations'[d] = reservations[d] /\ KeyOf(d)' = k
    BY <1>6, <1>7, <2>1 DEF LooksOK
  <2>3. Before(d)' = Before(d)
    <3>1. CASE k = key
      <4>1. Before(d)' = {e \in Looks(key) \cup {c} : reservations'[e].ordinal < reservations[d].ordinal}
        BY <1>8, <2>2, <3>1 DEF Before
      <4>2. reservations[d].ordinal \in 1 .. n
        BY <1>10, <2>1, <3>1 DEF Looks
      <4>3. ~(reservations'[c].ordinal < reservations[d].ordinal)
        BY <1>3, <1>6, <4>2
      <4> QED BY <1>6, <2>1, <3>1, <4>1, <4>3 DEF Before, Looks
    <3>2. CASE k # key
      <4>1. Looks(k)' = Looks(k)
        BY <1>8, <3>2
      <4> QED BY <1>6, <2>1, <2>2, <4>1 DEF Before, Looks
    <3> QED BY <3>1, <3>2
  <2>4. CASE k = key
    BY <1>2, <1>3, <1>5, <1>9, <1>12, <2>1, <2>2, <2>3, <2>4 DEF LookOK, Threshold
  <2>5. CASE k # key
    <3>1. Looks(k)' = Looks(k)
      BY <1>8, <2>5
    <3>2. {reservations[e].ordinal : e \in Looks(k)}' = {reservations[e].ordinal : e \in Looks(k)}
      BY <1>6, <3>1 DEF Looks
    <3> QED BY <1>5, <2>1, <2>2, <2>3, <3>1, <3>2 DEF LookOK, Threshold
  <2> QED BY <2>4, <2>5
<1>15. IsFiniteSet(DOMAIN reservations')
  BY <1>6, FS_AddElement DEF LooksOK
<1> QED BY <1>6, <1>13, <1>14, <1>15 DEF LooksOK

LEMMA LooksStep ==
    ASSUME PoliciesOK, Domains, LooksOK, [Next]_vars
    PROVE  LooksOK'
BY LooksUndisturbed, ReservedInOrder, SearchTablesGrow DEF SearchTablesStep
-----------------------------------------------------------------------------
(* What was applied was the best of its rivals, and has no new ones.        *)
LEMMA RivalsStay ==
    ASSUME PoliciesOK, [Next]_vars,
           NEW among \in SUBSET DOMAIN candidates, NEW more, among \subseteq more,
           \A c \in more \ among : c \in DOMAIN candidates /\ CandidateFresh(c),
           NEW winner \in DOMAIN candidates, NEW revision, revision.base # graph
    PROVE  Rivals(more, winner, revision)' = Rivals(among, winner, revision)
<1>1. \A c \in DOMAIN candidates : candidates'[c] = candidates[c] /\ KeyOf(c)' = KeyOf(c)
  BY CandidateStays
<1>2. \A c \in more \ among : candidates[c].proposal.base # revision.base
  BY DEF CandidateFresh, BaseIsCurrent
<1>3. \A c \in more : c \in DOMAIN candidates
  OBVIOUS
<1> QED BY <1>1, <1>2, <1>3 DEF Rivals

(* The candidates a selection is among when it is applied are the rivals.   *)
LEMMA RivalsAreCurrent ==
    ASSUME NEW table, NEW key, NEW winner \in CurrentOf(table, key), NEW revision, revision.base = graph
    PROVE  Rivals(table, winner, revision) = CurrentOf(table, key)
BY DEF Rivals, CurrentOf, CandidateFresh, BaseIsCurrent, KeyOf

LEMMA ReplacedIsNotCurrent ==
    ASSUME RevisionsOK, GraphOK, NEW r \in Revisions
    PROVE  r.base # graph
<1>1. RevisionOK(r) /\ r.base.generation \in Nat
  BY DEF RevisionsOK, RevisionOK, IsGraph
<1> QED BY <1>1 DEF RevisionOK

ValidatedIsBest(r) ==
    selections[r].winner \in
        Best(ValidationScores(Rivals(DOMAIN validations, selections[r].winner, validatedRevisions[r])))

ValidatedAreBest == \A r \in DOMAIN validatedRevisions : ValidatedIsBest(r)

LEMMA ValidatedStaysBest ==
    ASSUME PoliciesOK, Domains, GraphOK, RevisionsOK, [Next]_vars,
           NEW r \in DOMAIN validatedRevisions, ValidatedIsBest(r)
    PROVE  ValidatedIsBest(r)'
<1>1. PICK winner, revision, among, more :
        /\ winner = selections[r].winner /\ revision = validatedRevisions[r]
        /\ among = DOMAIN validations /\ more = DOMAIN validations'
  OBVIOUS
<1>2. selections'[r] = selections[r] /\ validatedRevisions'[r] = revision
  BY <1>1, AllGrow DEF Grown, Domains
<1>3. winner \in among /\ winner \in DOMAIN candidates /\ among \subseteq DOMAIN candidates
  BY <1>1 DEF ValidatedIsBest, Best, ValidationScores, Rivals, Domains
<1>4. among \subseteq more
  BY <1>1, AllGrow DEF Grown
<1>5. \A c \in more \ among : c \in DOMAIN candidates /\ CandidateFresh(c)
  BY <1>1, ValidationTablesGrow DEF ValidationTablesStep, RecordValidation, New
<1>6. revision.base # graph
  BY <1>1, ReplacedIsNotCurrent DEF Revisions, Entries
<1>7. Rivals(more, winner, revision)' = Rivals(among, winner, revision)
  BY <1>3, <1>4, <1>5, <1>6, RivalsStay
<1>8. PICK rivals : rivals = Rivals(among, winner, revision)
  OBVIOUS
<1>9. ValidationScores(rivals)' = ValidationScores(rivals)
  BY <1>1, <1>8, ValidationScoresStay DEF Rivals
<1> QED BY <1>1, <1>2, <1>7, <1>8, <1>9 DEF ValidatedIsBest

LEMMA NewValidatedIsBest ==
    ASSUME PoliciesOK, Domains, SelectionsOK, [Next]_vars,
           NEW r \in New(validatedRevisions, validatedRevisions')
    PROVE  ValidatedIsBest(r)'
<1>1. ApplyValidated(r)
  BY ValidationTablesGrow DEF ValidationTablesStep
<1>2. PICK winner, revision, key, among, table :
        /\ winner = selections[r].winner /\ revision = CandidateRevision(winner)
        /\ key = selections[r].key /\ among = selections[r].among
        /\ table = DOMAIN validations
  OBVIOUS
<1>3. /\ r \in DOMAIN selections /\ winner # NoWinner
      /\ among = CurrentOf(table, key)
      /\ validatedRevisions'[r] = revision
      /\ UNCHANGED <<candidates, validations, selections>>
  BY <1>1, <1>2 DEF ApplyValidated, SelectionFresh, With, Domains
<1>4. among \subseteq table /\ winner \in Best(ValidationScores(among))
  BY <1>2, <1>3 DEF SelectionsOK, SelectionOK
<1>5. winner \in among
  BY <1>4 DEF Best, ValidationScores
<1>6. Rivals(table, winner, revision) = among
  BY <1>2, <1>3, <1>5, RivalsAreCurrent DEF CandidateRevision, Revision
<1>7. Rivals(table, winner, revision)' = among
  BY <1>3, <1>6 DEF Rivals, KeyOf
<1>8. ValidationScores(among)' = ValidationScores(among)
  BY <1>2, <1>4, ValidationScoresStay
<1> QED BY <1>2, <1>3, <1>4, <1>7, <1>8 DEF ValidatedIsBest

LEMMA ValidatedStep ==
    ASSUME PoliciesOK, Domains, GraphOK, RevisionsOK, SelectionsOK, ValidatedAreBest, [Next]_vars
    PROVE  ValidatedAreBest'
BY ValidatedStaysBest, NewValidatedIsBest DEF ValidatedAreBest, New
-----------------------------------------------------------------------------
(* The same under the budget, by v1.16 and by v1.17.                        *)
BudgetedIsBest(a) ==
    /\ a.winner \in DOMAIN searchEvaluations
    /\ searchEvaluations[a.winner] = "SEARCH_CORRECTED_IMPROVED"
    /\ Rivals(DOMAIN reservations, a.winner, a.revision) \subseteq DOMAIN searchEvaluations
    /\ a.winner \in Best(SearchScores(Rivals(DOMAIN reservations, a.winner, a.revision)))
    /\ \A c \in Looks(KeyOf(a.winner)) \ a.family : candidates[c].proposal.base # a.revision.base

BudgetedAreBest == \A a \in BudgetedRevisions : BudgetedIsBest(a)

AppliesBest(r, a) ==
    /\ r \in DOMAIN searchSelections
    /\ SearchFresh(r)
    /\ a = [winner |-> Winner(r), revision |-> CandidateRevision(Winner(r)), family |-> searchSelections[r].family]
    /\ UNCHANGED <<candidates, reservations, searchEvaluations>>

LEMMA BudgetedStays ==
    ASSUME Domains, [Next]_vars, NEW r, NEW revision,
           \/ r \in DOMAIN searchRevisions /\ revision = searchRevisions'[r]
           \/ r \in DOMAIN confirmedRevisions /\ revision = confirmedRevisions'[r]
    PROVE  Applied(r, revision)' \in BudgetedRevisions
<1>1. r \in DOMAIN searchSelections
  BY DEF Domains
<1>2. searchSelections'[r] = searchSelections[r]
  BY <1>1, AllGrow DEF Grown
<1>3. Applied(r, revision)' = Applied(r, revision)
  BY <1>2 DEF Applied, Winner
<1>4. \/ r \in DOMAIN searchRevisions /\ revision = searchRevisions[r]
      \/ r \in DOMAIN confirmedRevisions /\ revision = confirmedRevisions[r]
  BY AllGrow DEF Grown
<1> QED BY <1>3, <1>4 DEF BudgetedRevisions

LEMMA SearchedApplies ==
    ASSUME Domains, [Next]_vars, NEW r \in New(searchRevisions, searchRevisions')
    PROVE  AppliesBest(r, Applied(r, searchRevisions[r])')
<1>1. ApplySearched(r)
  BY SearchTablesGrow DEF SearchTablesStep
<1>2. searchRevisions'[r] = CandidateRevision(Winner(r))
  BY <1>1 DEF ApplySearched, With, Winner
<1>3. r \in DOMAIN searchSelections /\ SearchFresh(r)
  BY <1>1 DEF ApplySearched, Domains
<1>4. UNCHANGED <<candidates, reservations, searchEvaluations, searchSelections>>
  BY <1>1 DEF ApplySearched, validationTables
<1> QED BY <1>2, <1>3, <1>4 DEF AppliesBest, Applied, Winner

LEMMA ConfirmedApplies ==
    ASSUME Domains, [Next]_vars, NEW r \in New(confirmedRevisions, confirmedRevisions')
    PROVE  AppliesBest(r, Applied(r, confirmedRevisions[r])')
<1>1. ApplyConfirmed(r)
  BY ConfirmationTablesGrow DEF ConfirmationTablesStep
<1>2. confirmedRevisions'[r] = CandidateRevision(Winner(r))
  BY <1>1 DEF ApplyConfirmed, With
<1>3. r \in DOMAIN searchSelections /\ SearchFresh(r)
  BY <1>1 DEF ApplyConfirmed, Confirmable, Domains
<1>4. UNCHANGED <<candidates, reservations, searchEvaluations, searchSelections>>
  BY <1>1 DEF ApplyConfirmed, validationTables, searchTables
<1> QED BY <1>2, <1>3, <1>4 DEF AppliesBest, Applied, Winner

LEMMA BudgetedMoves ==
    ASSUME Domains, [Next]_vars, NEW a \in BudgetedRevisions'
    PROVE  a \in BudgetedRevisions \/ \E r : AppliesBest(r, a)
<1>1. CASE \E r \in DOMAIN searchRevisions' : a = Applied(r, searchRevisions[r])'
  <2>1. PICK r \in DOMAIN searchRevisions' : a = Applied(r, searchRevisions[r])'
    BY <1>1
  <2>2. CASE r \in New(searchRevisions, searchRevisions')
    BY <2>1, <2>2, SearchedApplies
  <2>3. CASE r \in DOMAIN searchRevisions
    <3>1. PICK revision : revision = searchRevisions'[r]
      OBVIOUS
    <3>2. a = Applied(r, revision)'
      BY <2>1, <3>1 DEF Applied
    <3> QED BY <2>3, <3>1, <3>2, BudgetedStays
  <2> QED BY <2>2, <2>3 DEF New
<1>2. CASE \E r \in DOMAIN confirmedRevisions' : a = Applied(r, confirmedRevisions[r])'
  <2>1. PICK r \in DOMAIN confirmedRevisions' : a = Applied(r, confirmedRevisions[r])'
    BY <1>2
  <2>2. CASE r \in New(confirmedRevisions, confirmedRevisions')
    BY <2>1, <2>2, ConfirmedApplies
  <2>3. CASE r \in DOMAIN confirmedRevisions
    <3>1. PICK revision : revision = confirmedRevisions'[r]
      OBVIOUS
    <3>2. a = Applied(r, revision)'
      BY <2>1, <3>1 DEF Applied
    <3> QED BY <2>3, <3>1, <3>2, BudgetedStays
  <2> QED BY <2>2, <2>3 DEF New
<1> QED BY <1>1, <1>2 DEF BudgetedRevisions

LEMMA BudgetedStaysBest ==
    ASSUME PoliciesOK, Domains, GraphOK, RevisionsOK, [Next]_vars,
           NEW a \in BudgetedRevisions, BudgetedIsBest(a)
    PROVE  BudgetedIsBest(a)'
<1>1. PICK among, more : among = DOMAIN reservations /\ more = DOMAIN reservations'
  OBVIOUS
<1>2. /\ a.winner \in DOMAIN candidates
      /\ among \in SUBSET DOMAIN candidates /\ among \subseteq more
      /\ searchEvaluations'[a.winner] = searchEvaluations[a.winner]
      /\ DOMAIN searchEvaluations \subseteq DOMAIN searchEvaluations'
  BY <1>1, AllGrow DEF BudgetedIsBest, Domains, Grown
<1>3. \A c \in more \ among : c \in DOMAIN candidates /\ CandidateFresh(c)
  BY <1>1, SearchTablesGrow DEF SearchTablesStep, Reserve, Unexposed, New
<1>4. a.revision.base # graph
  BY ReplacedIsNotCurrent DEF Revisions, Entries, BudgetedRevisions, Applied
<1>5. Rivals(more, a.winner, a.revision)' = Rivals(among, a.winner, a.revision)
  BY <1>2, <1>3, <1>4, RivalsStay
<1>6. PICK rivals : rivals = Rivals(among, a.winner, a.revision)
  OBVIOUS
<1>7. SearchScores(rivals)' = SearchScores(rivals)
  BY <1>1, <1>6, SearchScoresStay DEF BudgetedIsBest
<1>8. ASSUME NEW c \in (Looks(KeyOf(a.winner)) \ a.family)'
      PROVE  (candidates[c].proposal.base # a.revision.base)'
  <2>1. c \in more /\ KeyOf(c)' = KeyOf(a.winner) /\ c \notin a.family
    BY <1>1, <1>2, CandidateStays DEF Looks
  <2>2. CASE c \in among
    <3>1. c \in Looks(KeyOf(a.winner)) /\ candidates'[c] = candidates[c]
      BY <1>1, <1>2, <2>1, <2>2, CandidateStays DEF Looks
    <3> QED BY <2>1, <3>1 DEF BudgetedIsBest
  <2>3. CASE c \notin among
    <3>1. c \in DOMAIN candidates /\ candidates[c].proposal.base = graph
      BY <1>3, <2>1, <2>3 DEF CandidateFresh, BaseIsCurrent
    <3>2. candidates'[c] = candidates[c]
      BY <3>1, CandidateStays
    <3> QED BY <1>4, <3>1, <3>2
  <2> QED BY <2>2, <2>3
<1> QED BY <1>1, <1>2, <1>5, <1>6, <1>7, <1>8 DEF BudgetedIsBest

LEMMA AppliedIsBest ==
    ASSUME PoliciesOK, Domains, SelectionsOK, [Next]_vars, NEW r, NEW a, AppliesBest(r, a)
    PROVE  BudgetedIsBest(a)'
<1>1. PICK key, among, table :
        key = searchSelections[r].key /\ among = searchSelections[r].among /\ table = DOMAIN reservations
  OBVIOUS
<1>2. /\ r \in DOMAIN searchSelections
      /\ among = CurrentOf(table, key)
      /\ a.family = Family(key) /\ a.winner = Winner(r)
      /\ a.revision.base = graph
      /\ a.winner # NoWinner
      /\ UNCHANGED <<candidates, reservations, searchEvaluations>>
  BY <1>1 DEF AppliesBest, SearchFresh, CandidateRevision, Revision, Winner
<1>3. /\ among \in SUBSET DOMAIN searchEvaluations
      /\ a.winner \in Best(SearchScores(among))
      /\ a.winner \in among
      /\ searchEvaluations[a.winner] = "SEARCH_CORRECTED_IMPROVED"
  BY <1>1, <1>2, WinnersAreCandidates DEF SelectionsOK, SearchSelectionOK
<1>4. Rivals(table, a.winner, a.revision) = among
  BY <1>2, <1>3, RivalsAreCurrent
<1>5. Rivals(table, a.winner, a.revision)' = among
  BY <1>2, <1>4 DEF Rivals, KeyOf
<1>6. SearchScores(among)' = SearchScores(among)
  BY <1>3, SearchScoresStay
<1>7. Looks(KeyOf(a.winner))' = a.family
  BY <1>2, <1>3 DEF Looks, Family, KeyOf, CurrentOf
<1> QED BY <1>1, <1>2, <1>3, <1>5, <1>6, <1>7 DEF BudgetedIsBest

LEMMA BudgetedStep ==
    ASSUME PoliciesOK, Domains, GraphOK, RevisionsOK, SelectionsOK, BudgetedAreBest, [Next]_vars
    PROVE  BudgetedAreBest'
<1> SUFFICES ASSUME NEW a \in BudgetedRevisions' PROVE BudgetedIsBest(a)'
  BY DEF BudgetedAreBest
<1> QED BY BudgetedMoves, BudgetedStaysBest, AppliedIsBest DEF BudgetedAreBest
-----------------------------------------------------------------------------
(* What was found to improve within the budget has a positive margin.       *)
EvaluationOK(c) ==
    searchEvaluations[c] = "SEARCH_CORRECTED_IMPROVED" =>
        HeldOutStatus(candidates[c]) = "HELDOUT_IMPROVED" /\ Margin(c) > 0

EvaluationsOK == \A c \in DOMAIN searchEvaluations : EvaluationOK(c)

LEMMA EvaluationsStep ==
    ASSUME PoliciesOK, Domains, EvaluationsOK, [Next]_vars
    PROVE  EvaluationsOK'
<1>1. ASSUME NEW c \in DOMAIN searchEvaluations PROVE EvaluationOK(c)'
  <2>1. c \in DOMAIN reservations /\ searchEvaluations'[c] = searchEvaluations[c] /\ EvaluationOK(c)
    BY AllGrow DEF Domains, Grown, EvaluationsOK
  <2>2. /\ Margin(c)' = Margin(c)
        /\ HeldOutStatus(candidates[c])' = HeldOutStatus(candidates[c])
    BY <2>1, LookStays, CandidateStays
  <2> QED BY <2>1, <2>2 DEF EvaluationOK
<1>2. ASSUME NEW c \in New(searchEvaluations, searchEvaluations') PROVE EvaluationOK(c)'
  <2>1. PICK evaluator \in Holders.validator : Evaluate(c, evaluator)
    BY <1>2, SearchTablesGrow DEF SearchTablesStep
  <2>2. c \in DOMAIN reservations /\ searchEvaluations'[c] = SearchStatus(c)
    BY <2>1 DEF Evaluate, With
  <2>3. /\ Margin(c)' = Margin(c)
        /\ HeldOutStatus(candidates[c])' = HeldOutStatus(candidates[c])
    BY <2>2, LookStays, CandidateStays
  <2> QED BY <2>2, <2>3 DEF EvaluationOK, SearchStatus
<1> QED BY <1>1, <1>2 DEF EvaluationsOK, New
-----------------------------------------------------------------------------
(* Batches of a pair have nothing in common, each is seen by one selection, *)
(* and what was confirmed on it had nothing in common with it either.       *)
BatchesApart ==
    \A b, d \in DOMAIN batches :
        b # d /\ batches[b].key = batches[d].key => Apart(batches[b].samples, batches[d].samples)

ExposureOK(r) ==
    /\ ExposedBatch(r) \in DOMAIN batches
    /\ batches[ExposedBatch(r)].key = searchSelections[r].key
    /\ Winner(r) # NoWinner

ExposuresOK ==
    /\ \A r \in DOMAIN exposures : ExposureOK(r)
    /\ \A r, q \in DOMAIN exposures : ExposedBatch(r) = ExposedBatch(q) => r = q

GainsOnBatch(r) ==
    confirmationEvaluations[r].status = "CONFIRMED" =>
        Gain(candidates[Winner(r)], batches[ExposedBatch(r)].samples) > confirmationPolicy.minGain

ConfirmedApart(r) ==
    /\ confirmationEvaluations[r].status = "CONFIRMED"
    /\ Apart(batches[ExposedBatch(r)].samples, candidates[Winner(r)].history)

ConfirmationsOK ==
    /\ \A r \in DOMAIN confirmationEvaluations : GainsOnBatch(r)
    /\ \A r \in DOMAIN confirmedRevisions : ConfirmedApart(r)

LEMMA ApartIsSymmetric == \A these, those : Apart(these, those) => Apart(those, these)
BY DEF Apart, SameProvenance

LEMMA BatchesStep ==
    ASSUME BatchesApart, [Next]_vars
    PROVE  BatchesApart'
<1>1. ASSUME NEW b \in New(batches, batches'), NEW d \in DOMAIN batches', b # d,
             batches'[b].key = batches'[d].key
      PROVE  Apart(batches'[b].samples, batches'[d].samples)
  <2>1. PICK key \in Keys, contents \in BatchContents, keeper \in Holders.batchKeeper :
            SealBatch(b, key, contents, keeper)
    BY <1>1, ConfirmationTablesGrow DEF ConfirmationTablesStep
  <2>2. /\ batches'[b] = [key |-> key, samples |-> contents, keeper |-> keeper]
        /\ d \in DOMAIN batches /\ batches'[d] = batches[d]
    BY <1>1, <2>1 DEF SealBatch, With
  <2>3. Apart(contents, History(key) \cup OtherBatches(b, key))
    BY <2>1 DEF SealBatch, BatchFresh
  <2>4. batches[d].samples \subseteq OtherBatches(b, key)
    BY <1>1, <2>2 DEF OtherBatches
  <2> QED BY <2>2, <2>3, <2>4 DEF Apart
<1>2. ASSUME NEW b \in DOMAIN batches, NEW d \in DOMAIN batches, b # d, batches'[b].key = batches'[d].key
      PROVE  Apart(batches'[b].samples, batches'[d].samples)
  <2>1. batches'[b] = batches[b] /\ batches'[d] = batches[d]
    BY AllGrow DEF Grown
  <2> QED BY <1>2, <2>1 DEF BatchesApart
<1> QED BY <1>1, <1>2, ApartIsSymmetric DEF BatchesApart, New

(* What an exposed selection and its batch are stays.                       *)
LEMMA ExposureStays ==
    ASSUME Domains, SelectionsOK, [Next]_vars, NEW r \in DOMAIN exposures, ExposureOK(r)
    PROVE  /\ ExposedBatch(r)' = ExposedBatch(r)
           /\ ExposedBatch(r) \in DOMAIN batches
           /\ batches'[ExposedBatch(r)] = batches[ExposedBatch(r)]
           /\ searchSelections'[r] = searchSelections[r]
           /\ Winner(r)' = Winner(r)
           /\ Winner(r) \in DOMAIN candidates
           /\ ExposureOK(r)'
<1>1. r \in DOMAIN searchSelections /\ exposures'[r] = exposures[r] /\ searchSelections'[r] = searchSelections[r]
  BY AllGrow DEF Domains, Grown
<1>2. ExposedBatch(r)' = ExposedBatch(r) /\ Winner(r)' = Winner(r)
  BY <1>1 DEF ExposedBatch, Winner
<1>3. /\ ExposedBatch(r) \in DOMAIN batches /\ ExposedBatch(r) \in DOMAIN batches'
      /\ batches'[ExposedBatch(r)] = batches[ExposedBatch(r)]
  BY AllGrow DEF ExposureOK, Grown
<1>4. Winner(r) \in DOMAIN candidates
  BY <1>1, WinnersAreCandidates DEF ExposureOK
<1> QED BY <1>1, <1>2, <1>3, <1>4 DEF ExposureOK

LEMMA ExposuresStep ==
    ASSUME Domains, SelectionsOK, ExposuresOK, [Next]_vars
    PROVE  ExposuresOK'
<1>1. ASSUME NEW r \in DOMAIN exposures PROVE ExposureOK(r)' /\ ExposedBatch(r)' = ExposedBatch(r)
  BY ExposureStays DEF ExposuresOK
<1>2. ASSUME NEW r \in New(exposures, exposures')
      PROVE  ExposureOK(r)' /\ \A q \in DOMAIN exposures : ExposedBatch(r)' # ExposedBatch(q)
  <2>1. PICK b \in Batches, keeper \in Holders.exposureKeeper : AuthorizeExposure(r, b, keeper)
    BY <1>2, ConfirmationTablesGrow DEF ConfirmationTablesStep
  <2>2. exposures'[r] = [batch |-> b, keeper |-> keeper] /\ UNCHANGED <<batches, searchSelections>>
    BY <2>1 DEF AuthorizeExposure, With, searchVars, searchTables
  <2>3. /\ b \in DOMAIN batches /\ batches[b].key = searchSelections[r].key
        /\ b \notin {exposures[s].batch : s \in DOMAIN exposures}
        /\ searchSelections[r].winner # NoWinner
    BY <2>1 DEF AuthorizeExposure, Confirmable, SearchFresh
  <2> QED BY <2>2, <2>3 DEF ExposureOK, ExposedBatch, Winner
<1>3. ASSUME NEW r \in New(exposures, exposures') PROVE New(exposures, exposures') = {r}
  <2>1. PICK b \in Batches, keeper \in Holders.exposureKeeper : AuthorizeExposure(r, b, keeper)
    BY <1>3, ConfirmationTablesGrow DEF ConfirmationTablesStep
  <2>2. r \notin DOMAIN exposures /\ \E row : exposures' = With(exposures, r, row)
    BY <2>1 DEF AuthorizeExposure
  <2> QED BY <2>2, RowAdded
<1> QED BY <1>1, <1>2, <1>3 DEF ExposuresOK, New

LEMMA GainOnBatchStays ==
    ASSUME PoliciesOK, Domains, SelectionsOK, ExposuresOK, [Next]_vars, NEW r \in DOMAIN exposures
    PROVE  Gain(candidates[Winner(r)], batches[ExposedBatch(r)].samples)'
             = Gain(candidates[Winner(r)], batches[ExposedBatch(r)].samples)
<1>1. PICK c, cases : c = Winner(r) /\ cases = batches[ExposedBatch(r)].samples
  OBVIOUS
<1>2. /\ Winner(r)' = c /\ c \in DOMAIN candidates
      /\ batches'[ExposedBatch(r)'].samples = cases
  BY <1>1, ExposureStays DEF ExposuresOK
<1>3. Gain(candidates[c], cases)' = Gain(candidates[c], cases)
  BY <1>2, CandidateStays
<1> QED BY <1>1, <1>2, <1>3

LEMMA ConfirmationsStep ==
    ASSUME PoliciesOK, Domains, SelectionsOK, ExposuresOK, ConfirmationsOK, [Next]_vars
    PROVE  ConfirmationsOK'
<1>1. ASSUME NEW r \in DOMAIN confirmationEvaluations
      PROVE  GainsOnBatch(r)' /\ confirmationEvaluations'[r] = confirmationEvaluations[r]
  <2>1. r \in DOMAIN exposures /\ confirmationEvaluations'[r] = confirmationEvaluations[r]
    BY AllGrow DEF Domains, Grown
  <2>2. confirmationPolicy' = confirmationPolicy
    BY <2>1, PoliciesStay DEF ExposuresOK, ExposureOK
  <2> QED BY <2>1, <2>2, GainOnBatchStays DEF GainsOnBatch, ConfirmationsOK
<1>2. ASSUME NEW r \in New(confirmationEvaluations, confirmationEvaluations') PROVE GainsOnBatch(r)'
  <2>1. PICK evaluator \in Holders.validator : EvaluateConfirmation(r, evaluator)
    BY <1>2, ConfirmationTablesGrow DEF ConfirmationTablesStep
  <2>2. /\ r \in DOMAIN exposures
        /\ confirmationEvaluations'[r].status = ConfirmationStatus(r)
        /\ UNCHANGED confirmationPolicy
    BY <2>1 DEF EvaluateConfirmation, With
  <2>3. ConfirmationStatus(r) = "CONFIRMED" =>
          Gain(candidates[Winner(r)], batches[ExposedBatch(r)].samples) > confirmationPolicy.minGain
    BY DEF ConfirmationStatus
  <2> QED BY <2>2, <2>3, GainOnBatchStays DEF GainsOnBatch
<1>3. ASSUME NEW r \in DOMAIN exposures, ConfirmedApart(r),
             confirmationEvaluations'[r] = confirmationEvaluations[r]
      PROVE  ConfirmedApart(r)'
  <2>1. candidates'[Winner(r)] = candidates[Winner(r)]
    BY <1>3, ExposureStays, CandidateStays DEF ExposuresOK
  <2> QED BY <1>3, <2>1, ExposureStays DEF ConfirmedApart, ExposuresOK
<1>4. ASSUME NEW r \in DOMAIN confirmedRevisions PROVE ConfirmedApart(r)'
  <2>1. r \in DOMAIN confirmationEvaluations /\ r \in DOMAIN exposures
    BY DEF Domains
  <2> QED BY <1>1, <1>3, <2>1 DEF ConfirmationsOK
<1>5. ASSUME NEW r \in New(confirmedRevisions, confirmedRevisions') PROVE ConfirmedApart(r)'
  <2>1. ApplyConfirmed(r)
    BY <1>5, ConfirmationTablesGrow DEF ConfirmationTablesStep
  <2>2. /\ r \in DOMAIN confirmationEvaluations /\ r \in DOMAIN exposures /\ r \in DOMAIN searchSelections
        /\ ExposureOK(r)
    BY <2>1 DEF ApplyConfirmed, Domains, ExposuresOK
  <2>3. /\ confirmationEvaluations[r].status = "CONFIRMED"
        /\ SearchFresh(r)
        /\ BatchFresh(ExposedBatch(r), searchSelections[r].key, batches[ExposedBatch(r)].samples)
    BY <2>1, <2>2 DEF ApplyConfirmed, Confirmable, ExposureOK
  <2>4. candidates[Winner(r)].history = History(searchSelections[r].key)
    BY <2>2, <2>3, SearchIsFresh DEF CandidateFresh, KeyOf
  <2>5. ConfirmedApart(r)
    BY <2>3, <2>4 DEF ConfirmedApart, BatchFresh, Apart
  <2> QED BY <1>1, <1>3, <2>2, <2>5
<1> QED BY <1>1, <1>2, <1>4, <1>5 DEF ConfirmationsOK, New
-----------------------------------------------------------------------------
LEMMA SamplesStep ==
    ASSUME OneForEachResolution(samples), [Next]_vars
    PROVE  OneForEachResolution(samples)'
<1>1. ASSUME NEW s \in NewSamples, RecordSample(s) PROVE OneForEachResolution(samples)'
  BY <1>1 DEF RecordSample, OneForEachResolution
<1> QED BY <1>1, GraphTablesGrow DEF GraphTablesStep, OneForEachResolution

(* The inductive invariant.                                                 *)
IInv ==
    /\ OneForEachResolution(samples)
    /\ GraphOK /\ ProposalsOK /\ Domains /\ PoliciesOK
    /\ SelectionsOK
    /\ RevisionsOK
    /\ LooksOK /\ EvaluationsOK
    /\ ValidatedAreBest /\ BudgetedAreBest
    /\ BatchesApart /\ ExposuresOK /\ ConfirmationsOK

LEMMA Initially == Init => IInv
<1> SUFFICES ASSUME Init PROVE IInv
  OBVIOUS
<1>1. /\ graph = Nothing /\ samples \in Histories
      /\ graphProposals = Nothing /\ graphReplays = Nothing
      /\ graphReviews = Nothing /\ graphRevisions = Nothing
      /\ validationPolicy = Nothing /\ candidates = Nothing /\ validations = Nothing /\ selections = Nothing
      /\ selectionReviews = Nothing /\ validatedRevisions = Nothing
      /\ searchPolicy = Nothing /\ reservations = Nothing /\ searchEvaluations = Nothing
      /\ searchSelections = Nothing /\ searchReviews = Nothing /\ searchRevisions = Nothing
      /\ confirmationPolicy = Nothing /\ batches = Nothing /\ exposures = Nothing
      /\ confirmationEvaluations = Nothing /\ confirmationReviews = Nothing /\ confirmedRevisions = Nothing
  BY DEF Init, SearchInit, ValidationInit, GraphInit
<1>2. OneForEachResolution(samples)
  BY <1>1, GraphAssumption
<1>3. GraphOK /\ ProposalsOK /\ Domains /\ PoliciesOK
  BY <1>1, NothingIsEmpty DEF GraphOK, ProposalsOK, Domains, PoliciesOK
<1>4. Revisions = {} /\ BudgetedRevisions = {}
  BY <1>1, NothingIsEmpty DEF Revisions, Entries, BudgetedRevisions
<1>5. SelectionsOK /\ RevisionsOK /\ EvaluationsOK /\ ValidatedAreBest /\ BudgetedAreBest
  BY <1>1, <1>4, NothingIsEmpty DEF SelectionsOK, RevisionsOK, EvaluationsOK, ValidatedAreBest, BudgetedAreBest
<1>6. LooksOK
  BY <1>1, NothingIsEmpty, FS_EmptySet DEF LooksOK
<1>7. BatchesApart /\ ExposuresOK /\ ConfirmationsOK
  BY <1>1, NothingIsEmpty DEF BatchesApart, ExposuresOK, ConfirmationsOK
<1> QED BY <1>2, <1>3, <1>5, <1>6, <1>7 DEF IInv

LEMMA Inductive == IInv /\ [Next]_vars => IInv'
<1> SUFFICES ASSUME IInv, [Next]_vars PROVE IInv'
  OBVIOUS
<1> USE DEF IInv
<1>1. OneForEachResolution(samples)' /\ Domains' /\ PoliciesOK'
  BY SamplesStep, DomainsStep, PoliciesStep
<1>2. GraphOK' /\ ProposalsOK' /\ RevisionsOK'
  BY GraphStaysOK, ProposalsStep, RevisionsStep
<1>3. SelectionsOK' /\ ValidatedAreBest' /\ BudgetedAreBest'
  BY SelectionsStep, ValidatedStep, BudgetedStep
<1>4. LooksOK' /\ EvaluationsOK'
  BY LooksStep, EvaluationsStep
<1>5. BatchesApart' /\ ExposuresOK' /\ ConfirmationsOK'
  BY BatchesStep, ExposuresStep, ConfirmationsStep
<1> QED BY <1>1, <1>2, <1>3, <1>4, <1>5

LEMMA Invariance == Spec => []IInv
BY Initially, Inductive, PTL DEF Spec
-----------------------------------------------------------------------------
(* Whatever the protocols v1.14 to v1.17 do side by side, the current graph *)
(* has no cycle and one piece of evidence for each generation, no record    *)
(* lacks the one it rests on, and a pair is sampled once for a resolution.  *)
THEOREM TypeCorrect == Spec => []TypeOK
<1>1. IInv => TypeOK
  <2> SUFFICES ASSUME IInv PROVE TypeOK
    OBVIOUS
  <2>1. graph # Nothing => Acyclic(graph.edges) /\ graph.generation = Len(graph.evidence)
    BY DEF IInv, GraphOK, IsGraph, Graphs
  <2> QED BY <2>1 DEF IInv, Domains, TypeOK
<1> QED BY <1>1, Invariance, PTL

(* The five histories and the current graph are one line of acyclic graphs, *)
(* each one edge away from the one before it, whichever protocol revised    *)
(* it: the planes together implement GraphLine.                             *)
THEOREM RefinesGraphLine == Spec => ImplementsGraphLine
<1>1. Init => Line!LineInit
  <2> SUFFICES ASSUME Init PROVE Line!LineInit
    OBVIOUS
  <2>1. graph = Nothing /\ confirmedRevisions = Nothing
    BY DEF Init, SearchInit, ValidationInit, GraphInit
  <2> QED BY <2>1, NothingIsEmpty DEF Line!LineInit, Entries
<1>2. IInv /\ [Next]_vars => [Line!LineNext]_Line!lineVars
  BY GraphStepRefines DEF IInv, Line!lineVars, LineNow, confirmedNow
<1> QED BY <1>1, <1>2, Invariance, PTL DEF Spec, ImplementsGraphLine, Line!LineSpec

(* What v1.15 applies has the best gain of what v1.15 had validated for the *)
(* pair on the same graph and history; what v1.16 and v1.17 apply has the   *)
(* best margin of the looks reserved for it there, and all of them had been *)
(* taken.                                                                   *)
THEOREM BestApplied == Spec => []BestOfWhatWasSeen
<1>1. IInv => BestOfWhatWasSeen
  BY DEF IInv, ValidatedAreBest, ValidatedIsBest, BudgetedAreBest, BudgetedIsBest, BestOfWhatWasSeen
<1> QED BY <1>1, Invariance, PTL

LEMMA NoLookIsFree ==
    ASSUME IInv, NEW a \in BudgetedRevisions
    PROVE  Gain(candidates[a.winner], HeldOut(candidates[a.winner].history)) -
             (searchPolicy.base + searchPolicy.penalty * Cardinality(Before(a.winner))) > 0
<1> DEFINE c == a.winner
           gain == Gain(candidates[c], HeldOut(candidates[c].history))
           n == Cardinality(Before(c))
<1>1. c \in DOMAIN searchEvaluations /\ searchEvaluations[c] = "SEARCH_CORRECTED_IMPROVED"
  BY DEF IInv, BudgetedAreBest, BudgetedIsBest
<1>2. Margin(c) > 0
  BY <1>1 DEF IInv, EvaluationsOK, EvaluationOK
<1>3. LookOK(c)
  BY <1>1 DEF IInv, Domains, LooksOK
<1>4. reservations[c].threshold = searchPolicy.base + searchPolicy.penalty * n
  BY <1>3 DEF LookOK, Threshold
<1> QED BY <1>2, <1>4 DEF Margin

(* The looks at the held-out data of a pair are numbered without gaps and   *)
(* kept within the policy's limit, what is applied had paid for every look  *)
(* before its own, and no look at the replaced graph was left out.          *)
THEOREM LooksInBudget == Spec => []LooksStayInBudget
<1>1. IInv => LooksStayInBudget
  <2> SUFFICES ASSUME IInv PROVE LooksStayInBudget
    OBVIOUS
  <2>1. \A c \in DOMAIN reservations :
            /\ {reservations[d].ordinal : d \in Looks(KeyOf(c))} = 1 .. Cardinality(Looks(KeyOf(c)))
            /\ Cardinality(Looks(KeyOf(c))) <= searchPolicy.maxLooks
    BY DEF IInv, LooksOK, LookOK
  <2>2. \A a \in BudgetedRevisions : \A c \in Looks(KeyOf(a.winner)) \ a.family :
            candidates[c].proposal.base # a.revision.base
    BY DEF IInv, BudgetedAreBest, BudgetedIsBest
  <2> QED BY <2>1, <2>2, NoLookIsFree DEF LooksStayInBudget
<1> QED BY <1>1, Invariance, PTL

(* What is applied as confirmed had gained on data that nothing it was      *)
(* chosen with shares a resolution or a piece of evidence with, and that no *)
(* other selection was shown.                                               *)
THEOREM UnseenData == Spec => []ConfirmedOnUnseenData
<1>1. IInv => ConfirmedOnUnseenData
  <2> SUFFICES ASSUME IInv PROVE ConfirmedOnUnseenData
    OBVIOUS
  <2> DEFINE batch(r)     == batches[ExposedBatch(r)]
             candidate(r) == candidates[Winner(r)]
             others(r)    == {b \in DOMAIN batches \ {ExposedBatch(r)} : batches[b].key = batch(r).key}
  <2>1. ASSUME NEW r \in DOMAIN confirmedRevisions
        PROVE  /\ Gain(candidate(r), batch(r).samples) > confirmationPolicy.minGain
               /\ \A s \in batch(r).samples :
                   /\ \A t \in candidate(r).history \cup UNION {batches[b].samples : b \in others(r)} :
                        s.resolution # t.resolution /\ s.evidence \cap t.evidence = {}
               /\ \A q \in DOMAIN exposures \ {r} : ExposedBatch(q) # ExposedBatch(r)
    <3>1. r \in DOMAIN confirmationEvaluations /\ r \in DOMAIN exposures
      BY DEF IInv, Domains
    <3>2. ConfirmedApart(r) /\ GainsOnBatch(r) /\ ExposureOK(r)
      BY <3>1 DEF IInv, ConfirmationsOK, ExposuresOK
    <3>3. Gain(candidate(r), batch(r).samples) > confirmationPolicy.minGain
      BY <3>2 DEF ConfirmedApart, GainsOnBatch
    <3>4. \A s \in batch(r).samples, t \in candidate(r).history : ~SameProvenance(s, t)
      BY <3>2 DEF ConfirmedApart, Apart
    <3>5. \A b \in others(r) : \A s \in batch(r).samples, t \in batches[b].samples : ~SameProvenance(s, t)
      BY <3>2 DEF IInv, BatchesApart, ExposureOK, Apart
    <3>6. \A q \in DOMAIN exposures \ {r} : ExposedBatch(q) # ExposedBatch(r)
      BY <3>1 DEF IInv, ExposuresOK
    <3>7. \A s \in batch(r).samples : \A t \in candidate(r).history \cup UNION {batches[b].samples : b \in others(r)} :
              s.resolution # t.resolution /\ s.evidence \cap t.evidence = {}
      BY <3>4, <3>5 DEF SameProvenance
    <3> QED BY <3>3, <3>6, <3>7
  <2> QED BY <2>1 DEF ConfirmedOnUnseenData
<1> QED BY <1>1, Invariance, PTL
================================================================================
