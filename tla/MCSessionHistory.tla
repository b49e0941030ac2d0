-------------------------- MODULE MCSessionHistory ---------------------------
(***************************************************************************)
(* SessionHistory with a small keyed hash.  A knock starts with port 1 or  *)
(* 2, by the parity of its window, and goes on with port 3; the channels   *)
(* of a window share a sequence, so that one knock fits several codes.     *)
(* In window 2, channel 1 goes on with port 2: the knocks of the odd       *)
(* windows near it can be mistaken, the others cannot.                     *)
(***************************************************************************)
EXTENDS SessionHistory, TLC, FiniteSets, Functions

Pair(w, c, i) ==
    IF i = 1 THEN w % 2
    ELSE IF i = 2 THEN (IF <<w, c>> = <<2, 1>> THEN 1 ELSE 2)
    ELSE w \div 2

MCHmacTable ==
    [w \in 0..8, c \in Channels |->
        [b \in 1..32 |-> IF b % 2 = 1 THEN 0 ELSE Pair(w, c, b \div 2)]]

MCHmac(msg) == MCHmacTable[msg[8], msg[9]]

\* Bounds the history: behaviours are followed until this many codes were spent,
\* or the sources' last packets are together more than this.
CONSTANTS MAX_CODES, MAX_RECENT

ShortHistory ==
    /\ Cardinality(DOMAIN accepted) <= MAX_CODES
    /\ FoldFunction(LAMBDA packets, n : Len(packets) + n, 0, recent) <= MAX_RECENT

Symmetry == Permutations(Sources)
=============================================================================
