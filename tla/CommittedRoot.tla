---------------------------- MODULE CommittedRoot ----------------------------
(***************************************************************************)
(* What a double-buffered store promises its callers, whatever it does on   *)
(* disk: a committed value that changes atomically, by one generation, to   *)
(* the value being saved, and to nothing else.  A save that is interrupted  *)
(* (power loss, write error) either took effect or did not.  The root       *)
(* journal and the object store are both shown to implement it.             *)
(***************************************************************************)
EXTENDS Naturals

CONSTANTS Values, None

VARIABLES
    current,   \* [value, generation] last committed, or None before the first
    pending    \* the value being committed, or None

absVars == <<current, pending>>

CurrentGen == IF current = None THEN 0 ELSE current.generation

Init == current = None /\ pending = None

\* Reformatting the device forgets every commit.
Reset == pending = None /\ current' = None /\ pending' = None

Request ==
    /\ pending = None
    /\ pending' \in Values
    /\ UNCHANGED current

\* The commit takes effect; its caller has not been told yet.
TakeEffect ==
    /\ pending # None
    /\ current' = [value |-> pending, generation |-> CurrentGen + 1]
    /\ pending' = None

\* The commit is interrupted before it took effect.
Abandon == pending # None /\ pending' = None /\ UNCHANGED current

Next ==
    \/ Reset
    \/ Request
    \/ TakeEffect
    \/ Abandon

Spec == Init /\ [][Next]_absVars
==============================================================================
