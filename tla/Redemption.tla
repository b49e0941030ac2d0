----------------------------- MODULE Redemption ------------------------------
(***************************************************************************)
(* What SessionTracker promises its caller: a code, that is a source, a    *)
(* time window and a channel, is redeemed at most once, and only in the    *)
(* span of time that its window leaves it.                                 *)
(***************************************************************************)
EXTENDS Integers

CONSTANTS
    Start,                      \* reading of the clock at the beginning
    Earliest(_), Latest(_)      \* when a window's codes can be redeemed

VARIABLES
    redeemed,       \* code |-> the times it was redeemed
    clock

Init ==
    /\ redeemed = [code \in {} |-> <<>>]
    /\ clock = Start

Redeem(code) ==
    /\ code \notin DOMAIN redeemed
    /\ Earliest(code[2]) <= clock /\ clock <= Latest(code[2])
    /\ redeemed' = [x \in DOMAIN redeemed \cup {code} |->
                        IF x = code THEN <<clock>> ELSE redeemed[x]]
    /\ UNCHANGED clock

Pass == clock' = clock + 1 /\ UNCHANGED redeemed

Next == Pass \/ \E code \in DOMAIN redeemed' : Redeem(code)

Spec == Init /\ [][Next]_<<redeemed, clock>>
=============================================================================
