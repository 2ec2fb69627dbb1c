------------------------------ MODULE Feedback ------------------------------
(***************************************************************************)
(* POST /feedback (handlers/feedback, session/feedback, postgres/feedback):*)
(* a like, a dislike or a cancel of an answer.  There is one row for the   *)
(* answer of a tenant, and a later click replaces it.  Clicks may be in    *)
(* flight together, be sent again when their answer is lost, and name      *)
(* session and request ids that another tenant uses as well.               *)
(***************************************************************************)
EXTENDS Integers, Sequences, FiniteSets, TLC

CONSTANTS FeedbackKeys,   \* <<tenant, session, request>> clicks are made for
          Forms,          \* what a click says: action and reason
          ReasonIds,      \* reason_categories
          MaxClicks       \* bound: clicks of a behaviour

VARIABLES clicks,     \* history: every click, with those answered before it was made
          feedback    \* the table: which click a row shows, and the row's id

feedbackVars == <<clicks, feedback>>

Actions == {"like", "dislike", "cancel"}
Missing == {"missing", "empty"}

FeedbackInit == clicks = <<>> /\ feedback = [k \in {} |-> {}]

Stored == {i \in DOMAIN clicks : clicks[i].pc \in {"stored", "answered"}}
AnsweredClicks == {i \in DOMAIN clicks : clicks[i].pc = "answered"}

(* Ids that are missing or empty and actions that do not parse are refused.*)
Accepted(k, form) == k[2] \notin Missing /\ k[3] \notin Missing /\ form.action \in Actions

Click(k, form) ==
  /\ Len(clicks) < MaxClicks
  /\ Accepted(k, form)
  /\ clicks' = Append(clicks, [key |-> k, form |-> form, pc |-> "sent", before |-> AnsweredClicks])
  /\ UNCHANGED feedback

(* Mutation of Upserted: ON CONFLICT DO NOTHING.                           *)
UpsertedOnce(k, i) == IF k \in DOMAIN feedback THEN feedback ELSE (k :> [click |-> i, id |-> i]) @@ feedback

Conflict(k) == {j \in DOMAIN feedback : j = k}
Upserted(k, i) ==
  [j \in DOMAIN feedback \cup {k} |->
     IF j # k THEN feedback[j]
     ELSE [click |-> i, id |-> IF Conflict(k) = {} THEN i ELSE feedback[k].id]]

(* INSERT ... ON CONFLICT DO UPDATE: one statement.                        *)
create(i) ==
  /\ clicks[i].pc = "sent" /\ clicks[i].form.reason \in ReasonIds \cup {0}
  /\ feedback' = Upserted(clicks[i].key, i)
  /\ clicks' = [clicks EXCEPT ![i].pc = "stored"]

(* An unknown reason violates the foreign key, or the statement fails.     *)
FeedbackFails(i) ==
  /\ clicks[i].pc = "sent"
  /\ clicks' = [clicks EXCEPT ![i].pc = "failed"]
  /\ UNCHANGED feedback

(* The answer reaches the client; without it the client may click again.   *)
AnswerClick(i) ==
  /\ clicks[i].pc = "stored"
  /\ clicks' = [clicks EXCEPT ![i].pc = "answered"]
  /\ UNCHANGED feedback

FeedbackNext ==
  \/ \E k \in FeedbackKeys, form \in Forms : Click(k, form)
  \/ \E i \in DOMAIN clicks : create(i) \/ FeedbackFails(i) \/ AnswerClick(i)

-----------------------------------------------------------------------------
(* Every row shows a click of its own tenant on its own answer, and keeps  *)
(* the id of the first one: a session id two tenants share leads to two    *)
(* rows and not to one that both write.  The last word counts: a row never *)
(* shows a click that was answered before another one of the same answer   *)
(* was made and stored.                                                    *)
LastWord ==
  /\ \A k \in DOMAIN feedback :
       clicks[feedback[k].click].key = k /\ clicks[feedback[k].id].key = k
  /\ \A i \in Stored :
       /\ clicks[i].key \in DOMAIN feedback
       /\ feedback[clicks[i].key].click \notin clicks[i].before
=============================================================================
