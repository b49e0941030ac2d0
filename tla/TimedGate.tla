------------------------------ MODULE TimedGate -----------------------------
(***************************************************************************)
(* What knockd promises the host: a source is let in to a channel's ports  *)
(* only because it was just verified on that channel, for open_duration.   *)
(* At most one opening is owed at a time.  It can be given up, and all     *)
(* entries can be lost, at any moment.                                     *)
(***************************************************************************)
EXTENDS Integers, Sequences

CONSTANTS
    Start,              \* reading of the clock at the beginning
    Opening,            \* the channels that open ports
    open_duration

VARIABLES
    verified,       \* <<source, window, channel>> |-> when it was verified
    due,            \* the <<source, channel>> to be opened: one, or none
    open,           \* <<source, channel>> |-> when the entry expires
    clock

vars == <<verified, due, open, clock>>

EmptyMap == [x \in {} |-> x]
Put(f, key, v) == [x \in DOMAIN f \cup {key} |-> IF x = key THEN v ELSE f[x]]

Init ==
    /\ verified = EmptyMap /\ due = {} /\ open = EmptyMap
    /\ clock = Start

TimesOf(code) == IF code \in DOMAIN verified THEN verified[code] ELSE <<>>

Verify(code) ==
    /\ due = {}
    /\ verified' = Put(verified, code, Append(TimesOf(code), clock))
    /\ due' = IF code[3] \in Opening THEN {<<code[1], code[3]>>} ELSE {}
    /\ UNCHANGED <<open, clock>>

\* An entry that is there already may keep its expiry.
Open ==
    \E x \in due :
        /\ due' = {}
        /\ \/ open' = Put(open, x, clock + open_duration)
           \/ x \in DOMAIN open /\ UNCHANGED open
        /\ UNCHANGED <<verified, clock>>

GiveUp == due' = {} /\ UNCHANGED <<verified, open, clock>>

LoseEntries == open' = EmptyMap /\ UNCHANGED <<verified, due, clock>>

Pass ==
    /\ clock' = clock + 1
    /\ open' = [x \in {y \in DOMAIN open : open[y] > clock + 1} |-> open[x]]
    /\ UNCHANGED <<verified, due>>

Next ==
    \/ \E code \in DOMAIN verified' : Verify(code)
    \/ Open \/ GiveUp \/ LoseEntries \/ Pass

Spec == Init /\ [][Next]_vars
=============================================================================
