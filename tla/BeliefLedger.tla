----------------------------- MODULE BeliefLedger -----------------------------
(***************************************************************************)
(* What multi-hypothesis evidence promises: a belief is opened once, and    *)
(* from then on it moves by Bayes' rule and by nothing else, each time for  *)
(* a source event that never moved this or another belief before, however   *)
(* often the event is repeated, summarised or transported.                  *)
(***************************************************************************)
EXTENDS HypothesisDistribution, GenerationTable

CONSTANTS
    Beliefs,
    Sources,
    Openings,  \* distributions beliefs are opened with
    Tests      \* likelihoods of a positive outcome

VARIABLES
    belief,   \* from opened beliefs to distributions
    counted   \* the source events that moved one

ledger == <<belief, counted>>

LedgerInit == belief = Nothing /\ counted = {}

Open(b, distribution) ==
    /\ b \notin DOMAIN belief
    /\ belief' = With(belief, b, distribution)
    /\ UNCHANGED counted

Learn(b, source, likelihood, outcome) ==
    /\ b \in DOMAIN belief
    /\ source \notin counted
    /\ Possible(belief[b], likelihood, outcome)
    /\ belief' = [belief EXCEPT ![b] = Posterior(belief[b], likelihood, outcome)]
    /\ counted' = counted \cup {source}

LedgerNext ==
    \E b \in Beliefs :
        \/ \E distribution \in Openings : Open(b, distribution)
        \/ \E source \in Sources, likelihood \in Tests, outcome \in Outcomes :
              Learn(b, source, likelihood, outcome)

LedgerSpec == LedgerInit /\ [][LedgerNext]_ledger
===============================================================================
