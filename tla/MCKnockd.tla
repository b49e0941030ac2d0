------------------------------ MODULE MCKnockd -------------------------------
(***************************************************************************)
(* Knockd with a small keyed hash: knocks of two ports out of two, a       *)
(* sequence for each of the four channels of window 0, the same ones in    *)
(* another order in window 1.                                              *)
(***************************************************************************)
EXTENDS Knockd, TLC, FiniteSets

Hash(w, c, i) == IF i = 1 THEN c \div 2 ELSE w + c

MCHmacTable ==
    [w \in 0..12, c \in Channels |->
        [b \in 1..32 |-> IF b % 2 = 1 THEN 0 ELSE Hash(w, c, b \div 2)]]

MCHmac(msg) == MCHmacTable[msg[8], msg[9]]

Section(command, open_port) == [command |-> command, open_port |-> open_port]

\* Channel 0 opens the primary ports, channel 3 has a section with neither key.
OneOfEach ==
    (1 :> Section(TRUE, "absent")) @@ (2 :> Section(FALSE, "ports"))
        @@ (3 :> Section(FALSE, "absent"))

\* An open_port without a port: the empty command.
NoPorts == 1 :> Section(FALSE, "empty")

\* Bounds the history: behaviours are followed until this many codes were spent.
CONSTANT MAX_CODES
FewCodes == Cardinality(DOMAIN honoured) <= MAX_CODES
=============================================================================
