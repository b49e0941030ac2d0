------------------------------ MODULE MCClient -------------------------------
(***************************************************************************)
(* Client with two clients at one address and a keyed hash whose knocks    *)
(* share ports: they all end with port 11 or 12, so that the first packet  *)
(* of one and the last of another can add up; channel 1 of window 1 starts *)
(* with a last port, and the channels of window 2 spell the same sequence. *)
(* The other knocks are unmistakable.                                      *)
(***************************************************************************)
EXTENDS Client

FirstPort(w, c) == IF w = 2 THEN 4 ELSE IF <<w, c>> = <<1, 1>> THEN 10 ELSE 2 * w + c
LastPort(w, c)  == 10 + (w % 2) * c

MCHmacTable ==
    [w \in 0..4, c \in Channels |->
        [b \in 1..32 |-> IF b = 2 THEN FirstPort(w, c) ELSE IF b = 4 THEN LastPort(w, c) ELSE 0]]

MCHmac(msg) == MCHmacTable[msg[8], msg[9]]

CONSTANTS ahead, behind, home

OneAddress == [c \in {ahead, behind} |-> home]

\* The clocks are off by as much as the three windows tolerate.
FarthestSkews ==
    [c \in {ahead, behind} |->
        IF c = ahead THEN time_step_seconds ELSE DELAY + SLACK - time_step_seconds]
=============================================================================
