--------------------------- MODULE MCTrendingFlush ---------------------------
(***************************************************************************)
(* Weeks of two days, lifetimes of one day for the daily keys and of two   *)
(* for the weekly ones.  A behaviour has one query over both days and      *)
(* failures; or two queries of one day that compete for the one place of   *)
(* their key that is read.                                                 *)
(***************************************************************************)
EXTENDS TrendingFlush

VARIABLE side

CONSTANTS q1, MaxCount

Asked(q) == recorded'[<<"daily", 1>>][q]

MCNext ==
  \/ /\ side = "days" /\ Next /\ UNCHANGED side
     /\ \A s \in Searches : skey'[s].query \in {q1, "none"}
  \/ /\ side = "ranks" /\ Next /\ UNCHANGED <<side, day, faults>>
     /\ \A s \in Searches : spc'[s] = "daily" =>
          \A p, q \in Queries : p # q => Asked(p) + Asked(q) < MaxCount

MCInit == side \in {"days", "ranks"} /\ Init
MCSpec == MCInit /\ [][MCNext]_<<side, vars>> /\ Fairness
=============================================================================
