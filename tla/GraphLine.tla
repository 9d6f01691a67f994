------------------------------ MODULE GraphLine ------------------------------
(***************************************************************************)
(* What the graph planes promise together, whichever of the protocols       *)
(* v1.14 to v1.19 writes: the dependency graph of a subject has one line of *)
(* generations, each one edge away from the one before it and acyclic, and  *)
(* some of them are known to have been confirmed on protected data.         *)
(***************************************************************************)
EXTENDS Integers, Sequences

CONSTANT Graphs   \* the acyclic sets of edges

VARIABLES
    line,      \* graphs by generation, from 1 for generation 0
    confirmed  \* generations that were confirmed before they were applied

lineVars == <<line, confirmed>>

Current == Len(line) - 1

Adjacent(edges, others) ==
    \E edge \in edges \cup others : (edges \ others) \cup (others \ edges) = {edge}

LineInit == line = << >> /\ confirmed = {}

Register(edges) ==
    /\ line = << >>
    /\ line' = <<edges>>
    /\ UNCHANGED confirmed

Revise(edges) ==
    /\ line # << >>
    /\ Adjacent(line[Len(line)], edges)
    /\ line' = Append(line, edges)
    /\ UNCHANGED confirmed

ReviseConfirmed(edges) ==
    /\ line # << >>
    /\ Adjacent(line[Len(line)], edges)
    /\ line' = Append(line, edges)
    /\ confirmed' = confirmed \cup {Current + 1}

LineNext == \E edges \in Graphs : Register(edges) \/ Revise(edges) \/ ReviseConfirmed(edges)

LineSpec == LineInit /\ [][LineNext]_lineVars
===============================================================================
