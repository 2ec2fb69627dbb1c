------------------------------ MODULE MCAccess ------------------------------
(***************************************************************************)
(* A small deployment of Access: one replica, the public tenant and one    *)
(* that is added before it starts or while it runs.                        *)
(***************************************************************************)
EXTENDS Access

MCTenants == {"public", "acme"}
MCSeedAdmin == [t \in MCTenants |-> IF t = "public" THEN "ann" ELSE "bob"]

MCFiles == [p \in {"pub.pem", "key.pem"} |->
              [kind |-> "regular", size |-> "small", family |-> "RSA", pair |-> 1]]
AllSecrets ==
  [k \in Secrets |-> CASE k = "jwt_public" -> "pub.pem" [] k = "jwt_private" -> "key.pem" [] OTHER -> "given"]
Good == <<<<>>, <<>>, AllSecrets, <<>>>>
NoLlmKey == <<<<>>, <<>>, AllSecrets, "llm_key" :> "">>
CurveKey == <<<<>>, "jwt_algorithm" :> "EC", AllSecrets, <<>>>>
NoBurst == <<"burst" :> 0, <<>>, AllSecrets, <<>>>>

MCLayers == {Good, NoLlmKey, CurveKey, NoBurst}

Update(u, role, enabled) == [kind |-> "update", user |-> u, role |-> role, enabled |-> enabled]
MCOps ==
  {[kind |-> "list"], [kind |-> "create", user |-> "bob", role |-> "admin"],
   [kind |-> "reset", user |-> "bob"], Update("bob", "member", "yes"), Update("ann", None, "yes")}
  \cup {[kind |-> "delete", user |-> u] : u \in {"ann", "bob"}}

(* A token another replica minted when the tenant was on another plan.     *)
MCIssued ==
  {[seal |-> <<1, "RSA", "given", "given">>, tenant |-> "public", principal |-> "ann",
    tier |-> "free", exp |-> 1]}

Symmetry == Permutations(Callers)
=============================================================================
