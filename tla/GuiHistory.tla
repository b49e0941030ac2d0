----------------------------- MODULE GuiHistory -----------------------------
(***************************************************************************)
(* The recent entries of the client's windows (client/knockc/gui.py).      *)
(* Each window loads gui_history.json once, when it opens, and saves its   *)
(* own lists whole after every preview or knock that went through.         *)
(* write_text truncates the file and then writes it: two steps, between    *)
(* which another window can read, write or truncate, and the window can be *)
(* killed.                                                                 *)
(***************************************************************************)
EXTENDS Integers, Sequences, FiniteSets

CONSTANTS
    Windows,
    Entries,          \* what can be typed into a field; none is empty
    MAX_RECENTS,
    MAX_USES,         \* bound on previews and knocks
    MAX_FAULTS        \* bound on failed saves and killed windows

ASSUME GuiHistoryAssumption ==
    MAX_RECENTS \in Nat \ {0} /\ MAX_USES \in Nat /\ MAX_FAULTS \in Nat

Keys == {"config", "target"}
NoEntries == [key \in Keys |-> <<>>]

\* The file is absent or holds nothing that parses, or it holds lists.
NoFile  == [parses |-> FALSE, lists |-> NoEntries]
Holds(lists) == [parses |-> TRUE, lists |-> lists]

VARIABLES
    file,
    window,           \* "closed", "idle", or "saving": between the two steps
    history,          \* the lists in each window's memory
    shown,            \* what its two dropdowns show
    faults,
    uses,             \* history: all entries used, over all windows
    disturbed         \* history: two windows were open together, or one was
                      \* closed or killed when the file did not hold its lists

vars == <<file, window, history, shown, faults, uses, disturbed>>

Init ==
    /\ file = NoFile
    /\ window = [w \in Windows |-> "closed"]
    /\ history = [w \in Windows |-> NoEntries]
    /\ shown = history
    /\ faults = 0 /\ uses = <<>> /\ disturbed = FALSE

-----------------------------------------------------------------------------
Shortened(list) == SubSeq(list, 1, IF Len(list) < MAX_RECENTS THEN Len(list) ELSE MAX_RECENTS)

\* Mutant: an entry that is used again stays where it is as well.
Prepend(list, value) == Shortened(<<value>> \o list)

\* The entries that differ from value, in their order.
Without(list, value) ==
    LET kept    == {i \in 1..Len(list) : list[i] # value}
        Rank(i) == Cardinality({x \in kept : x <= i})
    IN  [j \in 1..Cardinality(kept) |-> list[CHOOSE i \in kept : Rank(i) = j]]

\* The value moves to the front; the list is cut at MAX_RECENTS.
remember(list, value) == Shortened(<<value>> \o Without(list, value))

\* Mutant: the window does not look at the file.
StartEmpty(w) ==
    /\ window[w] = "closed"
    /\ window' = [window EXCEPT ![w] = "idle"]
    /\ history' = [history EXCEPT ![w] = NoEntries]
    /\ shown' = [shown EXCEPT ![w] = NoEntries]
    /\ disturbed' = (disturbed \/ \E x \in Windows : window[x] # "closed")
    /\ UNCHANGED <<file, faults, uses>>

\* __init__ and load_history: what does not parse counts as empty.
Open(w) ==
    /\ window[w] = "closed"
    /\ window' = [window EXCEPT ![w] = "idle"]
    /\ history' = [history EXCEPT ![w] = file.lists]
    /\ shown' = [shown EXCEPT ![w] = file.lists]
    /\ disturbed' = (disturbed \/ \E x \in Windows : window[x] # "closed")
    /\ UNCHANGED <<file, faults, uses>>

Close(w) ==
    /\ window[w] = "idle"
    /\ window' = [window EXCEPT ![w] = "closed"]
    /\ disturbed' = (disturbed \/ (uses # <<>> /\ file # Holds(history[w])))
    /\ UNCHANGED <<file, history, shown, faults, uses>>

\* _remember_and_persist, after a preview or a knock with this config and
\* target, up to the truncation of the file.
Use(w, chosen) ==
    /\ window[w] = "idle"
    /\ Len(uses) < MAX_USES
    /\ uses' = Append(uses, chosen)
    /\ history' = [history EXCEPT ![w] =
                      [key \in Keys |-> remember(history[w][key], chosen[key])]]
    /\ UNCHANGED shown

BeginSave(w, chosen) ==
    /\ Use(w, chosen)
    /\ window' = [window EXCEPT ![w] = "saving"]
    /\ file' = NoFile
    /\ UNCHANGED <<faults, disturbed>>

\* The text is written at the start of the file.  What another window wrote
\* after the truncation may be longer: then the rest of it spoils the file.
EndSave(w) ==
    /\ window[w] = "saving"
    /\ \/ file' = Holds(history[w])
       \/ file.parses /\ file' = NoFile
    /\ window' = [window EXCEPT ![w] = "idle"]
    /\ shown' = [shown EXCEPT ![w] = history[w]]
    /\ UNCHANGED <<history, faults, uses, disturbed>>

\* The file cannot be opened: the exception leaves the window as it is.
SaveRefused(w, chosen) ==
    /\ Use(w, chosen)
    /\ faults < MAX_FAULTS /\ faults' = faults + 1
    /\ UNCHANGED <<file, window, disturbed>>

\* The write fails halfway, or the window is killed.
SaveBreaks(w) ==
    /\ window[w] = "saving"
    /\ faults < MAX_FAULTS /\ faults' = faults + 1
    /\ file' = NoFile
    /\ \/ window' = [window EXCEPT ![w] = "idle"] /\ UNCHANGED disturbed
       \/ window' = [window EXCEPT ![w] = "closed"] /\ disturbed' = TRUE
    /\ UNCHANGED <<history, shown, uses>>

Next ==
    \E w \in Windows :
        \/ Open(w) \/ Close(w) \/ EndSave(w) \/ SaveBreaks(w)
        \/ \E chosen \in [Keys -> Entries] : BeginSave(w, chosen) \/ SaveRefused(w, chosen)

Spec == Init /\ [][Next]_vars

-----------------------------------------------------------------------------
RangeOf(seq) == {seq[i] : i \in 1..Len(seq)}

\* When a value was last used for a key.
LastUse(key, value) ==
    CHOOSE i \in 1..Len(uses) :
        /\ uses[i][key] = value
        /\ \A j \in (i + 1)..Len(uses) : uses[j][key] # value

\* The last MAX_RECENTS distinct entries of all uses, the latest first.
AreRecents(lists) ==
    \A key \in Keys :
        LET list == lists[key]
            all  == {uses[i][key] : i \in 1..Len(uses)}
        IN  /\ RangeOf(list) \subseteq all /\ Len(list) <= MAX_RECENTS
            /\ Len(list) < MAX_RECENTS => RangeOf(list) = all
            /\ \A i, j \in 1..Len(list) :
                  i < j => LastUse(key, list[i]) > LastUse(key, list[j])
            /\ \A v \in all \ RangeOf(list), i \in 1..Len(list) :
                  LastUse(key, v) < LastUse(key, list[i])

AllClosed == \A w \in Windows : window[w] = "closed"

(***************************************************************************)
(* README.md, "GUI": the last MAX_RECENTS distinct entries are kept, for   *)
(* windows that are open one after the other, even if saves fail, as long  *)
(* as a later one of the same window goes through: nothing is lost in      *)
(* memory, in the file at the end, or in the dropdowns then.  Of windows   *)
(* that are open together the last to save keeps its own entries only.     *)
(***************************************************************************)
KeepsRecentsAlone ==
    ~disturbed =>
        /\ \A w \in Windows : window[w] # "closed" =>
              /\ AreRecents(history[w])
              /\ window[w] = "idle" /\ file = Holds(history[w]) => shown[w] = history[w]
        /\ AllClosed /\ uses # <<>> => file.parses /\ AreRecents(file.lists)

(***************************************************************************)
(* Whatever the windows do to one another's file, a list never holds an    *)
(* entry twice, nor one that nobody used.                                  *)
(***************************************************************************)
NoneTwice ==
    \A key \in Keys : \A list \in {file.lists[key]} \cup {history[w][key] : w \in Windows} :
        /\ \A i, j \in 1..Len(list) : i # j => list[i] # list[j]
        /\ RangeOf(list) \subseteq {uses[i][key] : i \in 1..Len(uses)}
=============================================================================
