---------------------------- MODULE PublishedPool ----------------------------
(***************************************************************************)
(* What the suggestion refresh promises its readers: the batch served by   *)
(* /top-searches and /autocomplete is replaced at once by a newer batch,   *)
(* never by an older one, and never by nothing.                            *)
(***************************************************************************)
EXTENDS Integers

VARIABLE current   \* id of the served batch, 0 before the first one

Init == current = 0

Publish == current' \in Nat /\ current' > current

Spec == Init /\ [][Publish]_current
=============================================================================
