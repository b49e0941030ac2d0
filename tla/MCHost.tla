------------------------------- MODULE MCHost --------------------------------
(***************************************************************************)
(* Host with the keyed hash of MCKnockd.  Channel 0 opens port 1, channel  *)
(* 1 opens port 2, and port 3 is always allowed.                           *)
(***************************************************************************)
EXTENDS Host, TLC, FiniteSets

Hash(w, c, i) == IF i = 1 THEN c \div 2 ELSE w + c

MCHmacTable ==
    [w \in 0..12, c \in D!Channels |->
        [b \in 1..32 |-> IF b % 2 = 1 THEN 0 ELSE Hash(w, c, b \div 2)]]

MCHmac(msg) == MCHmacTable[msg[8], msg[9]]

Section(command, open_port) == [command |-> command, open_port |-> open_port]
OnePort == 1 :> Section(FALSE, "ports")
Primary == <<1>>
OneGroup == 1 :> <<2>>
Always == <<3>>

\* Bounds the history: behaviours are followed until this many codes were spent.
CONSTANT MAX_CODES
FewCodes == Cardinality(DOMAIN honoured) <= MAX_CODES
=============================================================================
