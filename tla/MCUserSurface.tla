---------------------------- MODULE MCUserSurface ----------------------------
(***************************************************************************)
(* What users see beside answers: suggestions in their language, and their *)
(* own clicks.  Clicks share no state with suggestions; the crowd and the  *)
(* batches meet only in the answer that reads the one and then the other.  *)
(* A behaviour moves the crowd, the batches or the clicks.                 *)
(***************************************************************************)
EXTENDS Suggestions, Feedback

VARIABLE surface

MCShape(chars, cjk, spaces, top) == [chars |-> chars, cjk |-> cjk, spaces |-> spaces, top |-> top]
MCShapes ==
  [x \in {"", "btc", "Btc", "bitcoin price", "Bitcoin price", "rate", "zzzz"} |->
     CASE x = "" -> MCShape(0, FALSE, FALSE, 0)
       [] x = "zzzz" -> MCShape(26, FALSE, FALSE, 5)
       [] x = "rate" -> MCShape(60, TRUE, FALSE, 24)
       [] x \in {"bitcoin price", "Bitcoin price"} -> MCShape(13, FALSE, TRUE, 3)
       [] OTHER -> MCShape(3, FALSE, FALSE, 1)]
MCCapitalized ==
  [x \in DOMAIN MCShapes |-> CASE x = "btc" -> "Btc" [] x = "bitcoin price" -> "Bitcoin price" [] OTHER -> x]

Translated(tag, text) == [failed |-> FALSE, tag |-> tag, normalized |-> text]
MCQuestions ==
  {[raw |-> "btc", translation |-> Translated("en-us", "bitcoin price")],
   [raw |-> "btc", translation |-> [failed |-> TRUE]],
   [raw |-> "rate", translation |-> Translated("ja", "bitcoin price")],
   [raw |-> "zzzz", translation |-> Translated("pt", "")]}

Row(id, batch, locale, question, weight) ==
  [id |-> id, batch |-> batch, locale |-> locale, question |-> question, weight |-> weight]
MCDefaults ==
  {Row(1, 1, "en", "Bitcoin price", 10), Row(2, 1, "en", "Btc", 10), Row(3, 1, "en", "Btc", 5),
   Row(4, 2, "en", "Bitcoin price", 10), Row(5, 2, "ja", "rate", 10)}

Ask(kind, prefix, limit, locale, header, accept) ==
  [kind |-> kind, prefix |-> prefix, limit |-> limit, locale |-> locale, header |-> header,
   session |-> "device", accept |-> accept]
MCAsks ==
  {Ask("top", "", 200, "", "device", <<>>), Ask("top", "", 1, "EN", Absent, <<"pt", "ja">>),
   Ask("autocomplete", "bi", 2, "en", "too long", <<>>), Ask("autocomplete", "%", 2, "", Absent, <<>>)}
MCCompletes == {<<"bi", "bitcoin price">>, <<"bi", "Bitcoin price">>}

MCKeys == Tenants \X {"device", "missing"} \X {"request"}
MCTenants == Permutations(Tenants)
MCForms ==
  {[action |-> "like", reason |-> 0], [action |-> "dislike", reason |-> 1],
   [action |-> "dislike", reason |-> 9], [action |-> "maybe", reason |-> 0]}

MCInit ==
  /\ surface \in {"crowd", "batches", "feedback"}
  /\ LocaleInit /\ SuggestionsInit /\ FeedbackInit
MCNext ==
  \/ surface = "crowd" /\ CrowdNext /\ UNCHANGED <<surface, feedbackVars>>
  \/ surface = "batches" /\ RefreshNext /\ UNCHANGED <<surface, feedbackVars>>
  \/ surface # "feedback" /\ AnswerNext /\ UNCHANGED <<surface, feedbackVars>>
  \/ surface = "feedback" /\ FeedbackNext /\ UNCHANGED <<surface, allVars>>
MCSpec == MCInit /\ [][MCNext]_<<surface, allVars, feedbackVars>>
=============================================================================
