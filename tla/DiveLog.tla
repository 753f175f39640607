------------------------------ MODULE DiveLog ------------------------------
(***************************************************************************)
(* What benthos-xfr promises its user: a dive computer records dives, runs *)
(* of the program hand them over, and a mark says from which dive on the   *)
(* next run starts.  Dives may be handed over twice, and the mark may be   *)
(* forgotten, but it never passes a dive that nobody has been given and    *)
(* nobody has asked to leave out.                                          *)
(***************************************************************************)
EXTENDS Naturals

CONSTANT MaxDives

VARIABLES
  held,     \* number of dives in the computer, numbered from the oldest
  mark,     \* the last dive not to transfer again; 0 for none
  settled   \* dives handed over, and dives the user asked to leave out

logVars == <<held, mark, settled>>

Init == held = 0 /\ mark = 0 /\ settled = {}

Record == held < MaxDives /\ held' = held + 1 /\ UNCHANGED <<mark, settled>>

(* A run hands over the dives after first.  leaveout: the user has chosen  *)
(* to begin there.                                                         *)
HandOver ==
  \E first \in 0 .. held, last \in 0 .. held, leaveout \in BOOLEAN :
    /\ first < last
    /\ settled' = settled \cup (first + 1) .. last \cup (IF leaveout THEN 1 .. first ELSE {})
    /\ UNCHANGED <<held, mark>>

Mark ==
  \E last \in 1 .. held :
    /\ 1 .. last \subseteq settled
    /\ mark' = last
    /\ UNCHANGED <<held, settled>>

Forget == mark' = 0 /\ UNCHANGED <<held, settled>>

Next == Record \/ HandOver \/ Mark \/ Forget

Spec == Init /\ [][Next]_logVars
=============================================================================
