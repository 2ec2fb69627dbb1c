--------------------------- MODULE MCSearchSession ---------------------------
(***************************************************************************)
(* One stream and two plain searches of two tenants that use the same      *)
(* session id, in every way up to a renaming of the tenants and of the     *)
(* plain searches; or all of one session whose id is empty.                *)
(***************************************************************************)
EXTENDS SearchSession, TLC

CONSTANTS r1, r2, r3

MCRemembered == {<<"acme", "s">>, <<"beta", "s">>}
Nameless == <<"acme", "">>
MCSessions == MCRemembered \cup {Nameless}
Shared ==
  {(r1 :> <<"acme", "s">>) @@ (r2 :> <<t, "s">>) @@ (r3 :> <<u, "s">>) :
     t \in {"acme", "beta"}, u \in {"acme", "beta"}}
Renamed == (r1 :> <<"acme", "s">>) @@ (r2 :> <<"beta", "s">>) @@ (r3 :> <<"acme", "s">>)
MCAssignments == (Shared \ {Renamed}) \cup {[r \in {r1, r2, r3} |-> Nameless]}
=============================================================================
