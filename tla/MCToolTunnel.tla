---------------------------- MODULE MCToolTunnel ----------------------------
(***************************************************************************)
(* Three tools in every dependency graph over their ids and one that is    *)
(* not registered, and a registration that uses an id twice.               *)
(***************************************************************************)
EXTENDS ToolTunnel

MCIds == {"doc_rag", "web", "prices", "gone"}
MCIdChoices == {<<"web", "doc_rag", "prices">>, <<"web", "doc_rag", "web">>}
MCDepChoices ==
  {<<a, b, c>> : a \in SUBSET MCIds, b \in SUBSET (MCIds \ {"gone"}),
                 c \in SUBSET (MCIds \ {"gone"})}
=============================================================================
