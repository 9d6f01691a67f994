--------------------------- MODULE GenerationTable ---------------------------
(***************************************************************************)
(* Tables as functions from their keys, with a domain that grows, and the   *)
(* rule by which the evidence planes let a row be replaced.                 *)
(***************************************************************************)
EXTENDS Integers

(* An empty table.                                                          *)
Nothing == [x \in {} |-> {}]

(* What f says of x becomes y.                                              *)
With(f, x, y) == [z \in DOMAIN f \cup {x} |-> IF z = x THEN y ELSE f[z]]

(* Mutant: a row may be overwritten by one of any generation.               *)
Overwrites(table, w, entry) == TRUE

(* A row is replaced only by one of a later generation.                     *)
Advances(table, w, entry) ==
    w \in DOMAIN table => entry.generation > table[w].generation
===============================================================================
