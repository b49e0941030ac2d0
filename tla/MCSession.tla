----------------------------- MODULE MCSession ------------------------------
(***************************************************************************)
(* Session with a small keyed hash.  Of the 32 bytes only the pairs that   *)
(* derive_ports reads matter, and of the message only the low byte of the  *)
(* time counter and the channel: the windows of a run are below 256.       *)
(* Neighbouring windows and channels share prefixes, so that a candidate   *)
(* can follow several sequences at once, and distinct codes can collide.   *)
(***************************************************************************)
EXTENDS Session, TLC, FiniteSets

Hash(w, c, i) == IF i = 1 THEN w + c ELSE IF i = 2 THEN w \div 2 ELSE c * i + w

MCHmacTable ==
    [w \in 0..12, c \in Channels |->
        [b \in 1..32 |-> IF b % 2 = 1 THEN 0 ELSE Hash(w, c, b \div 2)]]

MCHmac(msg) == MCHmacTable[msg[8], msg[9]]

\* Bounds the history: behaviours are followed until this many codes were spent.
CONSTANT MAX_CODES
FewCodes == Cardinality(DOMAIN accepted) <= MAX_CODES
=============================================================================
