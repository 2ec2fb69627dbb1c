----------------------------- MODULE ToolTunnel -----------------------------
(***************************************************************************)
(* The tool fan-out of a search.  ToolTunnel::new sorts the registered     *)
(* tools into tiers by their dependencies and panics when it cannot;       *)
(* execute runs the tiers one after the other and the tools of a tier      *)
(* concurrently, each under a timeout, and collects their outputs.         *)
(*                                                                         *)
(* Tools are the indices of the registration.  An output is abstracted to  *)
(* what the next tiers look at: whether the document retrieval brought     *)
(* enough chunks.                                                          *)
(***************************************************************************)
EXTENDS Integers, Sequences, FiniteSets

CONSTANTS
  N,           \* number of registered tools
  Ids,         \* tool ids, registered or not
  IdChoices,   \* registrations: sequences of N ids
  DepChoices,  \* dependencies: sequences of N sets of ids
  DocRag       \* the id whose chunks the web fallback counts

Tools == 1 .. N

ASSUME TunnelAssumption ==
  /\ N \in Nat
  /\ IdChoices \subseteq [Tools -> Ids]
  /\ DepChoices \subseteq [Tools -> SUBSET Ids]

Gates == { "on",       \* enabled, in the rollout, the query matches a trigger
           "off",      \* disabled, out of the rollout, or without a provider
           "fallback" }\* fires when the documents brought too few chunks
Outputs == {"enough", "few", "hits", "empty"}
Errors == {"bad_request", "upstream", "disabled"}
None == "none"

VARIABLES
  phase,    \* "build", "panic", "run" or "done"
  id,       \* ids of the registered tools
  deps,     \* what each of them depends on
  inDegree, \* dependencies without a tier, Placed for a tool with one
  tiers,    \* tiers found so far
  gate,     \* how should_fire of each tool decides for this request
  tier,     \* the tier that runs
  pending,  \* tools invoked and not finished
  result,   \* what an invocation of the running tier came to
  acc,      \* the tools with an output in the accumulated map, in its order
  output,   \* those outputs
  verdict   \* of execute: None, "ok" or "invalid"

buildVars == <<id, deps, inDegree, tiers>>
runVars == <<gate, tier, pending, result, acc, output>>
vars == <<phase, buildVars, runVars, verdict>>

Placed == -1
Elems(s) == {s[i] : i \in DOMAIN s}

\* Registered tools that j waits for; an id nobody registered is left out.
WaitsFor(j) == {i \in Tools : id[i] \in deps[j]}

-----------------------------------------------------------------------------

\* Mutation of InDegree: an id nobody registered is waited for as well.
InDegreeAll(j) == Cardinality(deps[j])

InDegree(j) == Cardinality(WaitsFor(j))

Init ==
  /\ phase = "build"
  /\ id \in IdChoices
  /\ deps \in DepChoices
  /\ inDegree = [j \in Tools |-> InDegree(j)]
  /\ tiers = <<>>
  /\ gate = [i \in Tools |-> "off"]
  /\ tier = 0
  /\ pending = {}
  /\ result = [i \in Tools |-> None]
  /\ acc = <<>>
  /\ output = [i \in Tools |-> None]
  /\ verdict = None

Duplicated == \E i, j \in Tools : i # j /\ id[i] = id[j]

\* new: two tools of one id panic before anything is sorted.
Refuse ==
  /\ phase = "build"
  /\ Duplicated
  /\ phase' = "panic"
  /\ UNCHANGED <<buildVars, runVars, verdict>>

Free == {i \in Tools : inDegree[i] = 0}

\* Mutation of Peeled: what becomes free joins the tier that is being peeled.
PeeledAtOnce ==
  Free \cup {j \in Tools : inDegree[j] # Placed /\ WaitsFor(j) # {} /\ WaitsFor(j) \subseteq Free}

Peeled == Free

\* One round of Kahn's algorithm: the tools whose dependencies all have a tier.
Peel ==
  /\ phase = "build"
  /\ ~Duplicated
  /\ Peeled # {}
  /\ tiers' = Append(tiers, Peeled)
  /\ inDegree' = [j \in Tools |->
       IF j \in Peeled \/ inDegree[j] = Placed THEN Placed
       ELSE inDegree[j] - Cardinality(WaitsFor(j) \cap Peeled)]
  /\ UNCHANGED <<phase, id, deps, runVars, verdict>>

\* No tool is free: all have a tier, or there is a cycle.  The gates are those
\* of the request that is executed.
Sorted ==
  /\ phase = "build"
  /\ ~Duplicated
  /\ Free = {}
  /\ IF \E j \in Tools : inDegree[j] # Placed
       THEN phase' = "panic" /\ UNCHANGED <<gate, tier>>
       ELSE /\ phase' = "run"
            /\ gate' \in [Tools -> Gates]
            /\ tier' = 1
  /\ UNCHANGED <<buildVars, pending, result, acc, output, verdict>>

\* The document tool brought at least fallback_min_chunks chunks.
EnoughChunks == \E i \in Elems(acc) : id[i] = DocRag /\ output[i] = "enough"

ShouldFire(i) == gate[i] = "on" \/ (gate[i] = "fallback" /\ ~EnoughChunks)

\* execute: invoke the tools of the next tier that fire on what earlier tiers
\* left, or pass over a tier in which none does.
StartTier ==
  LET firing == {i \in tiers[tier] : ShouldFire(i)}
  IN /\ phase = "run"
     /\ tier <= Len(tiers)
     /\ \A i \in Tools : result[i] = None
     /\ pending = {}
     /\ IF firing = {} THEN tier' = tier + 1 /\ UNCHANGED pending
                       ELSE pending' = firing /\ UNCHANGED tier
     /\ UNCHANGED <<phase, buildVars, gate, result, acc, output, verdict>>

\* A tool returns.
Return(i) ==
  /\ i \in pending
  /\ pending' = pending \ {i}
  /\ \E r \in Outputs \cup Errors :
       /\ r \in {"enough", "few"} => id[i] = DocRag
       /\ result' = [result EXCEPT ![i] = r]
  /\ UNCHANGED <<phase, buildVars, gate, tier, acc, output, verdict>>

\* Mutation of TimeOut: an invocation has no budget.
TimeOutNever(i) ==
  /\ i \in pending
  /\ pending' = pending
  /\ UNCHANGED <<phase, buildVars, gate, tier, result, acc, output, verdict>>

\* Its budget is over and it is dropped where it waits.
TimeOut(i) ==
  /\ i \in pending
  /\ pending' = pending \ {i}
  /\ result' = [result EXCEPT ![i] = "timeout"]
  /\ UNCHANGED <<phase, buildVars, gate, tier, acc, output, verdict>>

Returned == {i \in Tools : result[i] # None}

Fatal(r) == r = "bad_request"

Degraded(r) == IF r \in Outputs THEN r ELSE "empty"

\* Mutation of InOrder: the results are taken from the last tool to the first.
InOrderReversed(S) ==
  CHOOSE s \in [1 .. Cardinality(S) -> S] : \A i, j \in DOMAIN s : i < j => s[i] > s[j]

\* join_all keeps the order of the registration.
InOrder(S) ==
  CHOOSE s \in [1 .. Cardinality(S) -> S] : \A i, j \in DOMAIN s : i < j => s[i] < s[j]

\* Every tool of the tier is back: the first bad request fails the search,
\* otherwise the outputs join the map and the next tier starts.
EndTier ==
  /\ phase = "run"
  /\ pending = {}
  /\ Returned # {}
  /\ IF \E i \in Returned : Fatal(result[i])
       THEN /\ phase' = "done"
            /\ verdict' = "invalid"
            /\ UNCHANGED <<tier, acc, output>>
       ELSE /\ acc' = acc \o InOrder(Returned)
            /\ output' = [i \in Tools |-> IF i \in Returned THEN Degraded(result[i])
                                          ELSE output[i]]
            /\ tier' = tier + 1
            /\ UNCHANGED <<phase, verdict>>
  /\ result' = [i \in Tools |-> None]
  /\ UNCHANGED <<buildVars, gate, pending>>

Finish ==
  /\ phase = "run"
  /\ tier > Len(tiers)
  /\ phase' = "done"
  /\ verdict' = "ok"
  /\ UNCHANGED <<buildVars, runVars>>

Build == Refuse \/ Peel \/ Sorted
Run == StartTier \/ EndTier \/ Finish \/ \E i \in Tools : TimeOut(i)

Next == Build \/ Run \/ \E i \in Tools : Return(i)

Spec == Init /\ [][Next]_vars

\* The search is polled and timers fire; no tool ever has to return by itself.
FairSpec == Spec /\ WF_vars(Build) /\ WF_vars(Run)

-----------------------------------------------------------------------------

Before(k) == UNION {tiers[l] : l \in 1 .. k - 1}

\* A tool is only invoked when every registered tool it depends on has had its
\* turn, and what that one brought is visible to it.
DependenciesFirst ==
  \A j \in pending : \A i \in WaitsFor(j) :
    i \in Before(tier) /\ i \notin pending /\ (ShouldFire(i) /\ gate[i] = "on" => i \in Elems(acc))

\* An order that respects all dependencies exists.
Sortable ==
  \E rank \in [Tools -> Tools] : \A j \in Tools : \A i \in WaitsFor(j) : rank[i] < rank[j]

\* The server refuses to start exactly on a duplicate id or a cycle, and when it
\* does start every tool has exactly one tier, the first one that is possible.
SortedOrRefused ==
  /\ phase = "panic" => Duplicated \/ ~Sortable
  /\ phase \in {"run", "done"} =>
       /\ ~Duplicated /\ Sortable
       /\ UNION Elems(tiers) = Tools
       /\ \A k, l \in DOMAIN tiers : k # l => tiers[k] \cap tiers[l] = {}
       /\ \A k \in DOMAIN tiers : \A j \in tiers[k] : k > 1 => WaitsFor(j) \cap tiers[k - 1] # {}

\* Sources are numbered in one order, by tier and then by registration, whatever
\* order the tools come back in.
NumberingStable ==
  \A p, q \in DOMAIN acc : p < q =>
    \E k, l \in DOMAIN tiers :
      acc[p] \in tiers[k] /\ acc[q] \in tiers[l] /\ (k < l \/ (k = l /\ acc[p] < acc[q]))

\* A tool that hangs does not hang the search, and the search fails for a bad
\* request and for nothing else: any other failing tool counts as one without a
\* contribution.
ExecuteEnds ==
  /\ (phase = "run") ~> (phase = "done")
  /\ (\E i \in Tools : result[i] = "bad_request") ~> (verdict = "invalid")
  /\ [][verdict' = "invalid" => \E i \in Tools : result[i] = "bad_request"]_verdict
=============================================================================
