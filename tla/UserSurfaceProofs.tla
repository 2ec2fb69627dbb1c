-------------------------- MODULE UserSurfaceProofs --------------------------
(***************************************************************************)
(* Theorems about what a user is shown: the answers (Answering) and the    *)
(* titles of their links (TitleResolver), for any rankings, weights, cuts  *)
(* and failures of calls, any searches, links and lifetimes; the           *)
(* suggestions (Suggestions) and the clicks (Feedback), for any tenants,   *)
(* texts, batches, limits and numbers of requests in flight; and the text  *)
(* of a streamed answer (StreamParser), for any texts of any length and    *)
(* any cuts.  The five share no state, and a step of one leaves the others *)
(* alone.                                                                  *)
(***************************************************************************)
EXTENDS Answering, TitleResolver, StreamParser, Suggestions, Feedback,
        FiniteSetTheorems, SequenceTheorems, WellFoundedInduction, TLAPS

-----------------------------------------------------------------------------
(***************************************************************************)
(* Clicks.                                                                 *)
(***************************************************************************)

ClickPhases == {"sent", "stored", "answered", "failed"}
ClickRecords == [key : FeedbackKeys, form : Forms, pc : ClickPhases, before : SUBSET Nat]

\* A click was answered only if it was stored, and knows which were answered
\* before it was made.
ClicksInv ==
  /\ clicks \in Seq(ClickRecords)
  /\ \A i \in DOMAIN clicks : clicks[i].before \subseteq AnsweredClicks

\* A row shows a stored click of its answer, and that click was answered before
\* no other that is stored for the same answer.
RowsInv ==
  /\ \A k \in DOMAIN feedback :
       /\ feedback[k] \in [click : Stored, id : DOMAIN clicks]
       /\ clicks[feedback[k].click].key = k /\ clicks[feedback[k].id].key = k
  /\ \A i \in Stored :
       /\ clicks[i].key \in DOMAIN feedback
       /\ feedback[clicks[i].key].click \notin clicks[i].before

\* A click that goes on to another phase.
LEMMA GoesOn ==
  ASSUME ClicksInv, NEW i \in DOMAIN clicks, NEW p \in ClickPhases,
         clicks' = [clicks EXCEPT ![i].pc = p]
  PROVE  /\ clicks' \in Seq(ClickRecords)
         /\ DOMAIN clicks' = DOMAIN clicks
         /\ \A j \in DOMAIN clicks :
              /\ clicks'[j].key = clicks[j].key
              /\ clicks'[j].before = clicks[j].before
              /\ clicks'[j].pc = IF j = i THEN p ELSE clicks[j].pc
<1> DEFINE r == [clicks[i] EXCEPT !.pc = p]
<1>1. clicks \in Seq(ClickRecords) /\ clicks[i] \in ClickRecords
  BY DEF ClicksInv
<1>2. /\ r \in ClickRecords
      /\ r.key = clicks[i].key /\ r.before = clicks[i].before /\ r.pc = p
  BY <1>1 DEF ClickRecords
<1>3. clicks' = [clicks EXCEPT ![i] = r]
  OBVIOUS
<1> HIDE DEF r
<1>4. clicks' \in Seq(ClickRecords) /\ DOMAIN clicks' = DOMAIN clicks
  BY <1>1, <1>2, <1>3
<1>5. \A j \in DOMAIN clicks : clicks'[j] = IF j = i THEN r ELSE clicks[j]
  BY <1>1, <1>3
<1>6. ASSUME NEW j \in DOMAIN clicks
      PROVE  /\ clicks'[j].key = clicks[j].key
             /\ clicks'[j].before = clicks[j].before
             /\ clicks'[j].pc = IF j = i THEN p ELSE clicks[j].pc
  <2>1. CASE j = i
    BY <2>1, <1>2, <1>5
  <2>2. CASE j # i
    BY <2>2, <1>5
  <2> QED
    BY <2>1, <2>2
<1> QED
  BY <1>4, <1>6

LEMMA ClickKeepsRows ==
  ASSUME ClicksInv, RowsInv, NEW k \in FeedbackKeys, NEW f \in Forms, Click(k, f)
  PROVE  ClicksInv' /\ RowsInv'
<1> DEFINE new == [key |-> k, form |-> f, pc |-> "sent", before |-> AnsweredClicks]
<1>1. clicks \in Seq(ClickRecords) /\ clicks' = Append(clicks, new) /\ feedback' = feedback
  BY DEF Click, ClicksInv
<1>2. AnsweredClicks \in SUBSET Nat
  BY <1>1 DEF AnsweredClicks
<1>3. new \in ClickRecords
  BY <1>2 DEF ClickRecords, ClickPhases
<1> HIDE DEF new
<1>4. /\ clicks' \in Seq(ClickRecords)
      /\ DOMAIN clicks' = DOMAIN clicks \cup {Len(clicks) + 1}
      /\ \A j \in DOMAIN clicks : clicks'[j] = clicks[j]
      /\ clicks'[Len(clicks) + 1] = new
  BY <1>1, <1>3
<1>5. Len(clicks) + 1 \notin DOMAIN clicks
  BY <1>1
<1>6. new.pc = "sent" /\ new.before = AnsweredClicks
  BY DEF new
<1>7. Stored' = Stored /\ AnsweredClicks' = AnsweredClicks
  BY <1>4, <1>5, <1>6 DEF Stored, AnsweredClicks
<1>8. ClicksInv'
  BY <1>4, <1>6, <1>7 DEF ClicksInv
<1>9. Stored \subseteq DOMAIN clicks
  BY DEF Stored
<1>10. ASSUME NEW j \in DOMAIN feedback
       PROVE  /\ feedback[j] \in [click : Stored, id : DOMAIN clicks']
              /\ clicks'[feedback[j].click].key = j /\ clicks'[feedback[j].id].key = j
  <2>1. /\ feedback[j] \in [click : Stored, id : DOMAIN clicks]
        /\ clicks[feedback[j].click].key = j /\ clicks[feedback[j].id].key = j
    BY DEF RowsInv
  <2> QED
    BY <2>1, <1>4, <1>9
<1>11. ASSUME NEW i \in Stored
       PROVE  /\ clicks'[i].key \in DOMAIN feedback
              /\ feedback[clicks'[i].key].click \notin clicks'[i].before
  BY <1>4, <1>9 DEF RowsInv
<1> QED
  BY <1>1, <1>7, <1>8, <1>10, <1>11 DEF RowsInv

\* The statement that stores a click.
LEMMA CreateKeepsRows ==
  ASSUME ClicksInv, RowsInv, NEW i \in DOMAIN clicks, create(i)
  PROVE  ClicksInv' /\ RowsInv'
<1> DEFINE k == clicks[i].key
<1>1. /\ clicks[i].pc = "sent" /\ feedback' = Upserted(k, i)
      /\ clicks' = [clicks EXCEPT ![i].pc = "stored"]
  BY DEF create
<1>2. /\ clicks' \in Seq(ClickRecords)
      /\ DOMAIN clicks' = DOMAIN clicks
      /\ \A j \in DOMAIN clicks :
           /\ clicks'[j].key = clicks[j].key
           /\ clicks'[j].before = clicks[j].before
           /\ clicks'[j].pc = IF j = i THEN "stored" ELSE clicks[j].pc
  BY <1>1, GoesOn DEF ClickPhases
<1>3. Stored' = Stored \cup {i} /\ AnsweredClicks' = AnsweredClicks
  BY <1>1, <1>2 DEF Stored, AnsweredClicks
<1>4. ClicksInv'
  BY <1>2, <1>3 DEF ClicksInv
<1>5. /\ DOMAIN feedback' = DOMAIN feedback \cup {k}
      /\ feedback'[k].click = i
      /\ feedback'[k] \in [click : Stored', id : DOMAIN clicks]
      /\ clicks[feedback'[k].id].key = k
      /\ \A j \in DOMAIN feedback \ {k} : feedback'[j] = feedback[j]
  <2>1. Conflict(k) = {} <=> k \notin DOMAIN feedback
    BY DEF Conflict
  <2>2. feedback' = [j \in DOMAIN feedback \cup {k} |->
                       IF j # k THEN feedback[j]
                       ELSE [click |-> i, id |-> IF k \notin DOMAIN feedback THEN i
                                                 ELSE feedback[k].id]]
    BY <1>1, <2>1 DEF Upserted
  <2>3. k \in DOMAIN feedback => feedback[k].id \in DOMAIN clicks /\ clicks[feedback[k].id].key = k
    BY DEF RowsInv
  <2>4. \A d \in DOMAIN clicks : [click |-> i, id |-> d] \in [click : Stored', id : DOMAIN clicks]
    BY <1>3
  <2> HIDE DEF k
  <2>5. /\ DOMAIN feedback' = DOMAIN feedback \cup {k}
        /\ feedback'[k] = [click |-> i, id |-> IF k \notin DOMAIN feedback THEN i ELSE feedback[k].id]
        /\ \A j \in DOMAIN feedback \ {k} : feedback'[j] = feedback[j]
    BY <2>2
  <2>6. PICK d \in DOMAIN clicks : feedback'[k] = [click |-> i, id |-> d] /\ clicks[d].key = k
    BY <2>3, <2>5 DEF k
  <2> QED
    BY <2>4, <2>5, <2>6
<1>6. i \notin AnsweredClicks /\ Stored \subseteq DOMAIN clicks
  BY <1>1 DEF AnsweredClicks, Stored
<1>7. ASSUME NEW j \in DOMAIN feedback'
      PROVE  /\ feedback'[j] \in [click : Stored', id : DOMAIN clicks']
             /\ clicks'[feedback'[j].click].key = j /\ clicks'[feedback'[j].id].key = j
  <2>1. CASE j = k
    BY <2>1, <1>2, <1>5
  <2>2. CASE j # k
    <3>1. j \in DOMAIN feedback /\ feedback'[j] = feedback[j]
      BY <2>2, <1>5
    <3>2. /\ feedback[j] \in [click : Stored, id : DOMAIN clicks]
          /\ clicks[feedback[j].click].key = j /\ clicks[feedback[j].id].key = j
      BY <3>1 DEF RowsInv
    <3> QED
      BY <3>1, <3>2, <1>2, <1>3, <1>6
  <2> QED
    BY <2>1, <2>2
<1>8. ASSUME NEW j \in Stored'
      PROVE  /\ clicks'[j].key \in DOMAIN feedback'
             /\ feedback'[clicks'[j].key].click \notin clicks'[j].before
  <2>1. j \in DOMAIN clicks
    BY <1>3, <1>6
  <2>2. clicks'[j].key = clicks[j].key /\ clicks'[j].before = clicks[j].before
    BY <1>2, <2>1
  <2>3. clicks[j].before \subseteq AnsweredClicks
    BY <2>1 DEF ClicksInv
  <2>4. CASE clicks[j].key = k
    BY <2>2, <2>3, <2>4, <1>5, <1>6
  <2>5. CASE clicks[j].key # k
    <3>1. j \in Stored
      BY <2>5, <1>3
    <3>2. /\ clicks[j].key \in DOMAIN feedback
          /\ feedback[clicks[j].key].click \notin clicks[j].before
      BY <3>1 DEF RowsInv
    <3> QED
      BY <2>2, <2>5, <3>2, <1>5
  <2> QED
    BY <2>4, <2>5
<1> QED
  BY <1>4, <1>7, <1>8 DEF RowsInv

LEMMA OthersKeepRows ==
  ASSUME ClicksInv, RowsInv, NEW i \in DOMAIN clicks, FeedbackFails(i) \/ AnswerClick(i)
  PROVE  ClicksInv' /\ RowsInv'
<1>1. PICK p \in {"failed", "answered"} :
        /\ clicks' = [clicks EXCEPT ![i].pc = p] /\ feedback' = feedback
        /\ p = "failed" => clicks[i].pc = "sent"
        /\ p = "answered" => clicks[i].pc = "stored"
  BY DEF FeedbackFails, AnswerClick
<1>2. /\ clicks' \in Seq(ClickRecords)
      /\ DOMAIN clicks' = DOMAIN clicks
      /\ \A j \in DOMAIN clicks :
           /\ clicks'[j].key = clicks[j].key
           /\ clicks'[j].before = clicks[j].before
           /\ clicks'[j].pc = IF j = i THEN p ELSE clicks[j].pc
  <2>1. p \in ClickPhases /\ clicks' = [clicks EXCEPT ![i].pc = p]
    BY <1>1 DEF ClickPhases
  <2> QED
    BY <2>1, GoesOn
<1>3. Stored' = Stored /\ AnsweredClicks \subseteq AnsweredClicks' /\ Stored \subseteq DOMAIN clicks
  BY <1>1, <1>2 DEF Stored, AnsweredClicks
<1>4. ClicksInv'
  BY <1>2, <1>3 DEF ClicksInv
<1>5. ASSUME NEW j \in DOMAIN feedback
      PROVE  /\ feedback[j] \in [click : Stored, id : DOMAIN clicks']
             /\ clicks'[feedback[j].click].key = j /\ clicks'[feedback[j].id].key = j
  <2>1. /\ feedback[j] \in [click : Stored, id : DOMAIN clicks]
        /\ clicks[feedback[j].click].key = j /\ clicks[feedback[j].id].key = j
    BY DEF RowsInv
  <2> QED
    BY <2>1, <1>2, <1>3
<1>6. ASSUME NEW j \in Stored
      PROVE  /\ clicks'[j].key \in DOMAIN feedback
             /\ feedback[clicks'[j].key].click \notin clicks'[j].before
  BY <1>2, <1>3 DEF RowsInv
<1> QED
  BY <1>1, <1>3, <1>4, <1>5, <1>6 DEF RowsInv

FeedbackSpec == FeedbackInit /\ [][FeedbackNext]_feedbackVars

\* The last word counts, however many clicks on an answer are in flight, and in
\* whichever order their statements run (postgres/feedback.rs): a row shows a click
\* of its own tenant on its own answer, and none that had been answered when
\* another stored one was made.
THEOREM TheLastWordCounts == FeedbackSpec => []LastWord
<1>1. FeedbackInit => ClicksInv /\ RowsInv
  <2> SUFFICES ASSUME FeedbackInit PROVE ClicksInv /\ RowsInv
    OBVIOUS
  <2>1. clicks = <<>> /\ DOMAIN clicks = {} /\ DOMAIN feedback = {}
    BY DEF FeedbackInit
  <2> QED
    BY <2>1 DEF ClicksInv, RowsInv, Stored
<1>2. ClicksInv /\ RowsInv /\ [FeedbackNext]_feedbackVars => (ClicksInv /\ RowsInv)'
  <2> SUFFICES ASSUME ClicksInv, RowsInv, [FeedbackNext]_feedbackVars
               PROVE  (ClicksInv /\ RowsInv)'
    OBVIOUS
  <2>1. CASE UNCHANGED feedbackVars
    BY <2>1 DEF feedbackVars, ClicksInv, RowsInv, Stored, AnsweredClicks
  <2>2. CASE FeedbackNext
    BY <2>2, ClickKeepsRows, CreateKeepsRows, OthersKeepRows DEF FeedbackNext
  <2> QED
    BY <2>1, <2>2
<1>3. ClicksInv /\ RowsInv => LastWord
  BY DEF RowsInv, LastWord
<1> QED
  BY <1>1, <1>2, <1>3, PTL DEF FeedbackSpec

-----------------------------------------------------------------------------
(***************************************************************************)
(* Suggestions.  The runs move the crowd or the batches; the theorems are  *)
(* about both together.                                                    *)
(***************************************************************************)

SuggestionsSpec ==
  LocaleInit /\ SuggestionsInit /\ [][CrowdNext \/ RefreshNext \/ AnswerNext]_allVars

\* A bag counts, and a member of the sorted sets asks a question: that of a tenant,
\* in a language.
IsCount(bag) == \A e \in DOMAIN bag : bag[e] \in Nat
QuestionOf(m) == <<m[1], m[3], m[5]>>
QuestionOfRow(r) == <<r.tenant, r.locale, r.query>>

\* Every key has the language last written for its tenant and session, and has not
\* expired.
MemoryInv ==
  /\ clock \in Nat
  /\ \A k \in DOMAIN memory :
       memory[k].of = k /\ memory[k].at \in Nat /\ clock < memory[k].at + MemoryTtl

\* No member is counted more often than its question was asked, and no row shows
\* more than that.
CrowdInv ==
  /\ IsCount(scores) /\ IsCount(searched)
  /\ \A m \in DOMAIN scores : scores[m] <= Copies(QuestionOf(m), searched)
  /\ \A r \in DOMAIN rows :
       rows[r] \in Nat /\ rows[r] <= Copies(QuestionOfRow(r), searched)

\* What a request carries at each of its steps.
Carries(c) ==
  LET q == req[c] IN
  /\ q.pc \in {"idle", "crowd", "defaults", "done"}
  /\ q.pc = "idle" => q = NoRequest
  /\ q.pc = "crowd" =>
       q = [pc |-> "crowd", tenant |-> q.tenant, ask |-> q.ask, since |-> q.since,
            resolved |-> q.resolved, active |-> q.active]
  /\ q.pc = "defaults" =>
       q = [pc |-> "defaults", tenant |-> q.tenant, ask |-> q.ask, resolved |-> q.resolved,
            since |-> q.since, active |-> q.active, crowd |-> q.crowd]
  /\ q.pc = "done" =>
       q = [pc |-> "done", tenant |-> q.tenant, ask |-> q.ask, resolved |-> q.resolved,
            since |-> q.since, active |-> q.active, items |-> q.items]

\* The language it was given, the rows it has read of the crowd, and the batches.
Own(c) ==
  req[c].pc # "idle" /\ req[c].resolved.source = "session_memory" =>
    /\ req[c].resolved.of = <<req[c].tenant, SessionOf(req[c].ask)>>
    /\ req[c].since < req[c].resolved.at + MemoryTtl
WellAsked(c, r) == Copies(<<req[c].tenant, req[c].resolved.locale, r.query>>, searched) >= MinCount
Crowded(c) ==
  /\ req[c].pc = "defaults" => \A r \in req[c].crowd : WellAsked(c, r)
  /\ req[c].pc = "done" => \A r \in ItemsOf(c, "crowdsourced") : WellAsked(c, r)
Served(c) ==
  /\ req[c].pc \in {"crowd", "defaults"} => current \in req[c].active
  /\ req[c].pc = "done" => \E b \in req[c].active : \A d \in ItemsOf(c, "default") : d.batch = b

GoodRequest(c) == Carries(c) /\ Own(c) /\ Crowded(c) /\ Served(c)
RequestsInv ==
  /\ req = [c \in Clients |-> req[c]]
  /\ \A c \in Clients : GoodRequest(c)

LEMMA CopiesCount ==
  ASSUME NEW bag, IsCount(bag), NEW e
  PROVE  Copies(e, bag) \in Nat
BY DEF IsCount, Copies, BagIn, BagToSet

\* Each member of a set counted once more.
LEMMA CountsOnce ==
  ASSUME NEW bag, IsCount(bag), NEW S
  PROVE  LET more == bag (+) SetToBag(S)
         IN /\ IsCount(more) /\ DOMAIN more = DOMAIN bag \cup S
            /\ \A e : Copies(e, more) = Copies(e, bag) + (IF e \in S THEN 1 ELSE 0)
            /\ \A e : Copies(e, more) >= Copies(e, bag)
<1> DEFINE more == bag (+) SetToBag(S)
<1>1. /\ DOMAIN more = DOMAIN bag \cup S
      /\ \A e \in DOMAIN bag \cup S :
           more[e] = (IF e \in DOMAIN bag THEN bag[e] ELSE 0) + (IF e \in S THEN 1 ELSE 0)
  BY DEF (+), SetToBag
<1> HIDE DEF more
<1>2. \A e \in DOMAIN bag : bag[e] \in Nat
  BY DEF IsCount
<1>3. IsCount(more)
  BY <1>1, <1>2 DEF IsCount
<1>4. ASSUME NEW e PROVE Copies(e, more) = Copies(e, bag) + (IF e \in S THEN 1 ELSE 0)
  BY <1>1, <1>2 DEF Copies, BagIn, BagToSet
<1>5. ASSUME NEW e PROVE Copies(e, more) >= Copies(e, bag)
  BY <1>4, CopiesCount
<1> QED
  BY <1>1, <1>3, <1>4, <1>5 DEF more

LEMMA MemoryStep ==
  ASSUME MemoryInv, [CrowdNext \/ RefreshNext \/ AnswerNext]_allVars
  PROVE  MemoryInv'
<1>1. CASE Tick
  <2>1. /\ clock' = clock + 1
        /\ DOMAIN memory' = {j \in DOMAIN memory : memory[j].at + MemoryTtl > clock'}
        /\ \A k \in DOMAIN memory' : memory'[k] = memory[k]
    BY <1>1 DEF Tick
  <2>2. clock' \in Nat
    BY <2>1 DEF MemoryInv
  <2>3. ASSUME NEW k \in DOMAIN memory'
        PROVE  memory'[k].of = k /\ memory'[k].at \in Nat /\ clock' < memory'[k].at + MemoryTtl
    <3>1. k \in DOMAIN memory /\ memory'[k] = memory[k] /\ memory[k].at + MemoryTtl > clock'
      BY <2>1
    <3>2. memory[k].at + MemoryTtl \in Nat
      BY <3>1, LocaleAssumption DEF MemoryInv
    <3> QED
      BY <3>1, <3>2, <2>2 DEF MemoryInv
  <2> QED
    BY <2>2, <2>3 DEF MemoryInv
<1>2. ASSUME NEW w \in writes, RunWrite(w) PROVE MemoryInv'
  <2> DEFINE key == <<w.tenant, w.session>>
             entry == [locale |-> w.locale, at |-> clock, of |-> key]
  <2>1. /\ clock' = clock
        /\ DOMAIN memory' = DOMAIN memory \cup {key}
        /\ memory'[key] = entry
        /\ \A k \in DOMAIN memory \ {key} : memory'[k] = memory[k]
    BY <1>2 DEF RunWrite, Put, MemoryKey
  <2>2. entry.of = key /\ entry.at = clock
    OBVIOUS
  <2> HIDE DEF key, entry
  <2>3. clock \in Nat /\ clock < clock + MemoryTtl
    BY LocaleAssumption DEF MemoryInv
  <2> QED
    BY <2>1, <2>2, <2>3 DEF MemoryInv
<1>3. CASE UNCHANGED <<clock, memory>>
  BY <1>3 DEF MemoryInv
<1>4. ASSUME CrowdNext PROVE MemoryInv'
  BY <1>1, <1>2, <1>3, <1>4 DEF CrowdNext, DropWrite, Search, upsert, localeVars
<1>5. ASSUME RefreshNext \/ AnswerNext \/ UNCHANGED allVars PROVE MemoryInv'
  BY <1>3, <1>5 DEF RefreshNext, AnswerNext, InsertBatch, PublishBatch, RequestSuggestions, ReadCrowd,
     ReadDefaults, SuggestionsFail, allVars, localeVars
<1> QED
  BY <1>4, <1>5

\* A search counts members of its question, and the question with them.
LEMMA CountedAsks ==
  ASSUME CrowdInv, NEW S, NEW done \in SUBSET S,
         scores' = scores (+) SetToBag(done),
         searched' = searched (+) SetToBag({QuestionOf(m) : m \in S}),
         rows' = rows
  PROVE  CrowdInv' /\ \A e : Copies(e, searched') >= Copies(e, searched)
<1> DEFINE asked == {QuestionOf(m) : m \in S}
<1>1. IsCount(scores) /\ IsCount(searched)
  BY DEF CrowdInv
<1>2. /\ IsCount(scores') /\ DOMAIN scores' = DOMAIN scores \cup done
      /\ \A e : Copies(e, scores') = Copies(e, scores) + (IF e \in done THEN 1 ELSE 0)
  BY <1>1, CountsOnce
<1>3. searched' = searched (+) SetToBag(asked)
  OBVIOUS
<1> HIDE DEF asked
<1>4. /\ IsCount(searched')
      /\ \A e : Copies(e, searched') = Copies(e, searched) + (IF e \in asked THEN 1 ELSE 0)
      /\ \A e : Copies(e, searched') >= Copies(e, searched)
  <2> DEFINE more == searched (+) SetToBag(asked)
  <2>1. /\ IsCount(more)
        /\ \A e : Copies(e, more) = Copies(e, searched) + (IF e \in asked THEN 1 ELSE 0)
        /\ \A e : Copies(e, more) >= Copies(e, searched)
    BY <1>1, CountsOnce
  <2> QED
    BY <1>3, <2>1
<1>5. ASSUME NEW m \in DOMAIN scores'
      PROVE  scores'[m] <= Copies(QuestionOf(m), searched')
  <2>1. scores'[m] = Copies(m, scores')
    BY DEF Copies, BagIn, BagToSet
  <2>2. Copies(m, scores) <= Copies(QuestionOf(m), searched)
    <3>1. CASE m \in DOMAIN scores
      BY <3>1 DEF CrowdInv, Copies, BagIn, BagToSet
    <3>2. CASE m \notin DOMAIN scores
      BY <3>2, <1>1, CopiesCount DEF Copies, BagIn, BagToSet
    <3> QED
      BY <3>1, <3>2
  <2>3. m \in done => QuestionOf(m) \in asked
    BY DEF asked
  <2>4. Copies(m, scores) \in Nat /\ Copies(QuestionOf(m), searched) \in Nat
    BY <1>1, CopiesCount
  <2>5. /\ Copies(m, scores') = Copies(m, scores) + (IF m \in done THEN 1 ELSE 0)
        /\ Copies(QuestionOf(m), searched')
             = Copies(QuestionOf(m), searched) + (IF QuestionOf(m) \in asked THEN 1 ELSE 0)
    BY <1>2, <1>4
  <2> QED
    BY <2>1, <2>2, <2>3, <2>4, <2>5
<1>6. ASSUME NEW r \in DOMAIN rows
      PROVE  rows[r] \in Nat /\ rows[r] <= Copies(QuestionOfRow(r), searched')
  <2>1. rows[r] \in Nat /\ rows[r] <= Copies(QuestionOfRow(r), searched)
    BY DEF CrowdInv
  <2>2. Copies(QuestionOfRow(r), searched) \in Nat /\ Copies(QuestionOfRow(r), searched') \in Nat
    BY <1>1, <1>4, CopiesCount
  <2>3. Copies(QuestionOfRow(r), searched') >= Copies(QuestionOfRow(r), searched)
    BY <1>4
  <2> QED
    BY <2>1, <2>2, <2>3
<1> QED
  BY <1>2, <1>4, <1>5, <1>6 DEF CrowdInv

LEMMA CrowdStep ==
  ASSUME CrowdInv, [CrowdNext \/ RefreshNext \/ AnswerNext]_allVars
  PROVE  CrowdInv' /\ \A e : Copies(e, searched') >= Copies(e, searched)
<1>1. ASSUME NEW t \in Tenants, NEW s \in SessionIds, NEW q \in Questions, Search(t, s, q)
      PROVE  CrowdInv' /\ \A e : Copies(e, searched') >= Copies(e, searched)
  <2> DEFINE counted == Counted(t, resolve_translation(q.raw, q.translation), q.raw)
  <2>1. /\ \E done \in SUBSET counted : scores' = scores (+) SetToBag(done)
        /\ searched' = searched (+) SetToBag({QuestionOf(m) : m \in counted})
        /\ rows' = rows
    BY <1>1 DEF Search, QuestionOf
  <2> HIDE DEF counted
  <2> QED
    BY <2>1, CountedAsks
<1>2. ASSUME UNCHANGED searched
      PROVE  \A e : Copies(e, searched') >= Copies(e, searched)
  BY <1>2, CopiesCount DEF CrowdInv
<1>3. ASSUME NEW m \in BagToSet(scores), upsert(m) PROVE CrowdInv'
  <2> DEFINE r == [tenant |-> m[1], period |-> m[2], locale |-> m[3],
                   date |-> IF m[2] = "daily" THEN m[4] ELSE Day, query |-> m[5]]
  <2>1. rows' = Put(rows, r, Copies(m, scores)) /\ UNCHANGED <<scores, searched>>
    BY <1>3 DEF upsert
  <2>2. QuestionOfRow(r) = QuestionOf(m)
    BY DEF QuestionOfRow, QuestionOf
  <2> HIDE DEF r
  <2>3. /\ DOMAIN rows' = DOMAIN rows \cup {r}
        /\ rows'[r] = Copies(m, scores)
        /\ \A x \in DOMAIN rows \ {r} : rows'[x] = rows[x]
    BY <2>1 DEF Put
  <2>4. Copies(m, scores) \in Nat /\ Copies(m, scores) <= Copies(QuestionOfRow(r), searched)
    BY <2>2 DEF CrowdInv, IsCount, Copies, BagIn, BagToSet
  <2> QED
    BY <2>1, <2>3, <2>4 DEF CrowdInv
<1>4. CASE UNCHANGED <<scores, rows, searched>>
  BY <1>2, <1>4 DEF CrowdInv
<1>5. ASSUME CrowdNext PROVE CrowdInv' /\ \A e : Copies(e, searched') >= Copies(e, searched)
  BY <1>1, <1>2, <1>3, <1>4, <1>5 DEF CrowdNext, upsert, suggestionVars
<1>6. ASSUME RefreshNext \/ AnswerNext \/ UNCHANGED allVars
      PROVE  CrowdInv' /\ \A e : Copies(e, searched') >= Copies(e, searched)
  BY <1>4, <1>6 DEF RefreshNext, AnswerNext, InsertBatch, PublishBatch, RequestSuggestions, ReadCrowd,
     ReadDefaults, SuggestionsFail, allVars, suggestionVars
<1> QED
  BY <1>5, <1>6

\* What resolve remembers of a session was written for it, and has not expired.
LEMMA ResolvesOwn ==
  ASSUME MemoryInv, NEW t, NEW ask, NEW found \in resolve(t, ask),
         found.source = "session_memory"
  PROVE  found.of = <<t, SessionOf(ask)>> /\ clock < found.at + MemoryTtl
<1>1. \A locales : \A x \in Resolved(locales, "query_param") \cup Resolved(locales, "accept_language")
                            \cup Resolved(locales, "default") : x.source # "session_memory"
  BY DEF Resolved
<1>2. PICK read \in Lookup(t, SessionOf(ask)) : read # {} /\ found \in Remembered(read)
  BY <1>1 DEF resolve
<1> DEFINE key == MemoryKey(t, SessionOf(ask))
<1>3. key \in DOMAIN memory /\ read = {memory[key]}
  BY <1>2 DEF Lookup
<1>4. found = [locale |-> memory[key].locale, at |-> memory[key].at, of |-> memory[key].of,
               source |-> "session_memory"]
  BY <1>2, <1>3 DEF Remembered
<1>5. memory[key].of = key /\ clock < memory[key].at + MemoryTtl
  BY <1>3 DEF MemoryInv
<1>6. found.of = memory[key].of /\ found.at = memory[key].at
  BY <1>4
<1> QED
  BY <1>5, <1>6 DEF MemoryKey

LEMMA TopIsPart ==
  ASSUME NEW S, NEW Weight(_), NEW cap, NEW T \in TopOf(S, Weight, cap)
  PROVE  T \subseteq S
BY DEF TopOf, kSubset

\* A question that was asked often enough stays one.
LEMMA StaysAsked ==
  ASSUME CrowdInv, CrowdInv', \A e : Copies(e, searched') >= Copies(e, searched),
         NEW e, Copies(e, searched) >= MinCount
  PROVE  Copies(e, searched') >= MinCount
<1>1. Copies(e, searched) \in Nat /\ Copies(e, searched') \in Nat
  BY CopiesCount DEF CrowdInv
<1> QED
  BY <1>1, SuggestionsAssumption

LEMMA SameRequest ==
  ASSUME CrowdInv, CrowdInv', \A e : Copies(e, searched') >= Copies(e, searched),
         NEW c, GoodRequest(c), req'[c] = req[c], current' = current
  PROVE  GoodRequest(c)'
<1>1. Carries(c)'
  BY DEF GoodRequest, Carries
<1>2. Own(c)'
  BY DEF GoodRequest, Own
<1>3. \A source : ItemsOf(c, source)' = ItemsOf(c, source)
  BY DEF ItemsOf
<1>4. ASSUME NEW r, WellAsked(c, r) PROVE WellAsked(c, r)'
  BY <1>4, StaysAsked DEF WellAsked
<1>5. Crowded(c)'
  BY <1>3, <1>4 DEF GoodRequest, Crowded
<1>6. Served(c)'
  BY <1>3 DEF GoodRequest, Served
<1> QED
  BY <1>1, <1>2, <1>5, <1>6 DEF GoodRequest

\* A step of one request.
LEMMA OneRequest ==
  ASSUME CrowdInv, RequestsInv, UNCHANGED <<searched, current>>, NEW c \in Clients, NEW v,
         req' = [req EXCEPT ![c] = v], req'[c] = v => GoodRequest(c)'
  PROVE  RequestsInv'
<1>1. DOMAIN req = Clients
  BY DEF RequestsInv
<1>2. req'[c] = v /\ \A d \in Clients \ {c} : req'[d] = req[d]
  BY <1>1
<1>3. req' = [d \in Clients |-> req'[d]]
  BY <1>1
<1>4. ASSUME NEW d \in Clients \ {c} PROVE GoodRequest(d)'
  <2>1. GoodRequest(d) /\ req'[d] = req[d]
    BY <1>2 DEF RequestsInv
  <2>2. Carries(d)' /\ Own(d)'
    BY <2>1 DEF GoodRequest, Carries, Own
  <2>3. Crowded(d)' /\ Served(d)'
    BY <2>1 DEF GoodRequest, Crowded, Served, WellAsked, ItemsOf
  <2> QED
    BY <2>2, <2>3 DEF GoodRequest
<1> QED
  BY <1>2, <1>3, <1>4 DEF RequestsInv

LEMMA RequestStarts ==
  ASSUME MemoryInv, CrowdInv, RequestsInv, NEW c \in Clients, NEW t, NEW ask,
         RequestSuggestions(c, t, ask)
  PROVE  RequestsInv'
<1>1. PICK found \in resolve(t, ask) :
        req' = [req EXCEPT ![c] = [pc |-> "crowd", tenant |-> t, ask |-> ask, since |-> clock,
                                   resolved |-> found, active |-> {current}]]
  BY DEF RequestSuggestions
<1> DEFINE v == [pc |-> "crowd", tenant |-> t, ask |-> ask, since |-> clock,
                 resolved |-> found, active |-> {current}]
<1>2. UNCHANGED <<searched, current>>
  BY DEF RequestSuggestions
<1>3. ASSUME req'[c] = v PROVE GoodRequest(c)'
  <2>1. found.source = "session_memory" =>
          found.of = <<t, SessionOf(ask)>> /\ clock < found.at + MemoryTtl
    BY ResolvesOwn
  <2>2. Own(c)'
    BY <1>3, <2>1 DEF Own
  <2>3. Carries(c)' /\ Crowded(c)' /\ Served(c)'
    BY <1>2, <1>3 DEF Carries, Crowded, Served
  <2> QED
    BY <2>2, <2>3 DEF GoodRequest
<1> QED
  BY <1>1, <1>2, <1>3, OneRequest

LEMMA CrowdIsRead ==
  ASSUME CrowdInv, RequestsInv, NEW c \in Clients, ReadCrowd(c)
  PROVE  RequestsInv'
<1> DEFINE ask == req[c].ask
           locale == req[c].resolved.locale
           S == IF ask.kind = "top" THEN get_top(req[c].tenant, locale)
                ELSE search_popular(req[c].tenant, locale, ask.prefix)
<1>1. PICK crowd \in TopOf(S, LAMBDA r : rows[r], PoolCap) :
        req' = [req EXCEPT ![c] = [pc |-> "defaults", tenant |-> @.tenant, ask |-> ask,
                  resolved |-> @.resolved, since |-> @.since, active |-> @.active, crowd |-> crowd]]
  BY DEF ReadCrowd
<1> DEFINE v == [pc |-> "defaults", tenant |-> req[c].tenant, ask |-> ask,
                 resolved |-> req[c].resolved, since |-> req[c].since, active |-> req[c].active,
                 crowd |-> crowd]
<1>2. req[c].pc = "crowd" /\ UNCHANGED <<searched, current>> /\ GoodRequest(c)
  BY DEF ReadCrowd, RequestsInv
<1>3. req' = [req EXCEPT ![c] = v]
  BY <1>1 DEF RequestsInv
<1>4. crowd \subseteq Popular(req[c].tenant, locale)
  <2>1. crowd \subseteq S
    BY <1>1, TopIsPart
  <2> QED
    BY <2>1 DEF get_top, search_popular
<1>5. ASSUME NEW r \in crowd
      PROVE  Copies(<<req[c].tenant, locale, r.query>>, searched) >= MinCount
  <2>1. r \in DOMAIN rows /\ r.tenant = req[c].tenant /\ r.locale = locale /\ rows[r] >= MinCount
    BY <1>4 DEF Popular
  <2>2. rows[r] \in Nat /\ rows[r] <= Copies(QuestionOfRow(r), searched)
    BY <2>1 DEF CrowdInv
  <2>3. Copies(QuestionOfRow(r), searched) \in Nat
    BY CopiesCount DEF CrowdInv
  <2>4. QuestionOfRow(r) = <<req[c].tenant, locale, r.query>>
    BY <2>1 DEF QuestionOfRow
  <2> QED
    BY <2>1, <2>2, <2>3, <2>4, SuggestionsAssumption
<1>6. ASSUME req'[c] = v PROVE GoodRequest(c)'
  <2>1. Crowded(c)'
    BY <1>2, <1>5, <1>6 DEF Crowded, WellAsked
  <2>2. Carries(c)' /\ Served(c)' /\ Own(c)'
    BY <1>2, <1>6 DEF GoodRequest, Carries, Served, Own
  <2> QED
    BY <2>1, <2>2 DEF GoodRequest
<1> QED
  BY <1>2, <1>3, <1>6, OneRequest

LEMMA DefaultsAreRead ==
  ASSUME CrowdInv, RequestsInv, NEW c \in Clients, ReadDefaults(c)
  PROVE  RequestsInv'
<1> DEFINE ask == req[c].ask
           locale == req[c].resolved.locale
<1>1. PICK defaults \in TopOf(list_active(ask, locale), LAMBDA d : d.weight, PoolCap) :
        \E items \in weighted_sample(({"crowdsourced"} \X req[c].crowd) \cup
                                     ({"default"} \X defaults), Clamped(ask)) :
          req' = [req EXCEPT ![c] = [pc |-> "done", tenant |-> @.tenant, ask |-> ask,
                    resolved |-> @.resolved, since |-> @.since, active |-> @.active,
                    items |-> items]]
  BY DEF ReadDefaults
<1>2. PICK items \in weighted_sample(({"crowdsourced"} \X req[c].crowd) \cup
                                     ({"default"} \X defaults), Clamped(ask)) :
        req' = [req EXCEPT ![c] = [pc |-> "done", tenant |-> @.tenant, ask |-> ask,
                  resolved |-> @.resolved, since |-> @.since, active |-> @.active,
                  items |-> items]]
  BY <1>1
<1> DEFINE v == [pc |-> "done", tenant |-> req[c].tenant, ask |-> ask,
                 resolved |-> req[c].resolved, since |-> req[c].since, active |-> req[c].active,
                 items |-> items]
<1>3. req[c].pc = "defaults" /\ UNCHANGED <<searched, current>> /\ GoodRequest(c)
  BY DEF ReadDefaults, RequestsInv
<1>4. req' = [req EXCEPT ![c] = v]
  BY <1>2 DEF RequestsInv
<1>5. items \subseteq ({"crowdsourced"} \X req[c].crowd) \cup ({"default"} \X defaults)
  BY <1>2 DEF weighted_sample, kSubset
<1>6. \A i \in items : /\ i[1] = "crowdsourced" => i[2] \in req[c].crowd
                       /\ i[1] = "default" => i[2] \in defaults
  BY <1>5
<1>7. \A d \in defaults : d.batch = current
  <2>1. defaults \subseteq list_active(ask, locale)
    BY <1>1, TopIsPart
  <2> QED
    BY <2>1 DEF list_active, ActiveRows
<1>8. ASSUME req'[c] = v PROVE GoodRequest(c)'
  <2>1. /\ \A r \in ItemsOf(c, "crowdsourced")' : r \in req[c].crowd
        /\ \A d \in ItemsOf(c, "default")' : d \in defaults
    BY <1>6, <1>8 DEF ItemsOf
  <2>2. Crowded(c)'
    BY <1>3, <1>8, <2>1 DEF GoodRequest, Crowded, WellAsked
  <2>3. Served(c)'
    BY <1>3, <1>7, <1>8, <2>1 DEF GoodRequest, Served
  <2>4. Carries(c)' /\ Own(c)'
    BY <1>3, <1>8 DEF GoodRequest, Carries, Own
  <2> QED
    BY <2>2, <2>3, <2>4 DEF GoodRequest
<1> QED
  BY <1>3, <1>4, <1>8, OneRequest

LEMMA RequestFails ==
  ASSUME CrowdInv, RequestsInv, NEW c \in Clients, SuggestionsFail(c)
  PROVE  RequestsInv'
<1>1. req' = [req EXCEPT ![c] = NoRequest] /\ UNCHANGED <<searched, current>>
  BY DEF SuggestionsFail
<1>2. ASSUME req'[c] = NoRequest PROVE GoodRequest(c)'
  BY <1>2 DEF GoodRequest, Carries, Own, Crowded, Served, NoRequest
<1> QED
  BY <1>1, <1>2, OneRequest

\* The requests that will still read the rows of the batch see it published.
LEMMA PublishingIsSeen ==
  ASSUME RequestsInv, PublishBatch
  PROVE  RequestsInv'
<1>1. /\ req' = [c \in Clients |-> IF req[c].pc \in {"crowd", "defaults"}
                                   THEN [req[c] EXCEPT !.active = @ \cup {current'}] ELSE req[c]]
      /\ UNCHANGED searched
  BY DEF PublishBatch
<1>2. req' = [c \in Clients |-> req'[c]]
  BY <1>1
<1>3. ASSUME NEW c \in Clients, req[c].pc \in {"crowd", "defaults"} PROVE GoodRequest(c)'
  <2> DEFINE q == req[c]
  <2>1. GoodRequest(c)
    BY DEF RequestsInv
  <2>2. req'[c] = [q EXCEPT !.active = q.active \cup {current'}]
    BY <1>1, <1>3
  <2>3. CASE q.pc = "crowd"
    <3>1. q = [pc |-> "crowd", tenant |-> q.tenant, ask |-> q.ask, since |-> q.since,
               resolved |-> q.resolved, active |-> q.active]
      BY <2>1, <2>3 DEF GoodRequest, Carries
    <3>2. req'[c] = [pc |-> "crowd", tenant |-> q.tenant, ask |-> q.ask, since |-> q.since,
                     resolved |-> q.resolved, active |-> q.active \cup {current'}]
      BY <2>2, <3>1
    <3>3. Own(c)'
      BY <2>1, <2>3, <3>2 DEF GoodRequest, Own
    <3> QED
      BY <3>2, <3>3 DEF GoodRequest, Carries, Crowded, Served
  <2>4. CASE q.pc = "defaults"
    <3>1. q = [pc |-> "defaults", tenant |-> q.tenant, ask |-> q.ask, resolved |-> q.resolved,
               since |-> q.since, active |-> q.active, crowd |-> q.crowd]
      BY <2>1, <2>4 DEF GoodRequest, Carries
    <3>2. req'[c] = [pc |-> "defaults", tenant |-> q.tenant, ask |-> q.ask, resolved |-> q.resolved,
                     since |-> q.since, active |-> q.active \cup {current'}, crowd |-> q.crowd]
      BY <2>2, <3>1
    <3>3. Own(c)'
      BY <2>1, <2>4, <3>2 DEF GoodRequest, Own
    <3>4. Crowded(c)'
      BY <1>1, <2>1, <2>4, <3>2 DEF GoodRequest, Crowded, WellAsked
    <3> QED
      BY <3>2, <3>3, <3>4 DEF GoodRequest, Carries, Served
  <2> QED
    BY <1>3, <2>3, <2>4
<1>4. ASSUME NEW c \in Clients, req[c].pc \notin {"crowd", "defaults"} PROVE GoodRequest(c)'
  <2>1. GoodRequest(c) /\ req'[c] = req[c]
    BY <1>1, <1>4 DEF RequestsInv
  <2>2. Carries(c)' /\ Own(c)'
    BY <2>1 DEF GoodRequest, Carries, Own
  <2>3. Crowded(c)' /\ Served(c)'
    BY <1>1, <1>4, <2>1 DEF GoodRequest, Crowded, Served, WellAsked, ItemsOf
  <2> QED
    BY <2>2, <2>3 DEF GoodRequest
<1> QED
  BY <1>2, <1>3, <1>4 DEF RequestsInv

LEMMA RequestsStep ==
  ASSUME MemoryInv, CrowdInv, RequestsInv, [CrowdNext \/ RefreshNext \/ AnswerNext]_allVars
  PROVE  RequestsInv'
<1>1. CrowdInv' /\ \A e : Copies(e, searched') >= Copies(e, searched)
  BY CrowdStep
<1>2. CASE UNCHANGED <<req, current>>
  <2>1. \A c \in Clients : GoodRequest(c)'
    BY <1>1, <1>2, SameRequest DEF RequestsInv
  <2> QED
    BY <1>2, <2>1 DEF RequestsInv
<1>3. ASSUME CrowdNext \/ UNCHANGED allVars \/ \E b \in Batches : InsertBatch(b)
      PROVE  RequestsInv'
  BY <1>2, <1>3 DEF CrowdNext, Search, upsert, InsertBatch, allVars, suggestionVars
<1>4. ASSUME AnswerNext PROVE RequestsInv'
  BY <1>4, RequestStarts, CrowdIsRead, DefaultsAreRead, RequestFails DEF AnswerNext
<1> QED
  BY <1>3, <1>4, PublishingIsSeen DEF RefreshNext

SuggestionsInv == MemoryInv /\ CrowdInv /\ RequestsInv

LEMMA SuggestionsKeepInv == SuggestionsSpec => []SuggestionsInv
<1>1. LocaleInit /\ SuggestionsInit => SuggestionsInv
  <2> SUFFICES ASSUME LocaleInit, SuggestionsInit PROVE SuggestionsInv
    OBVIOUS
  <2>1. MemoryInv
    BY DEF LocaleInit, MemoryInv
  <2>2. DOMAIN scores = {} /\ DOMAIN searched = {} /\ DOMAIN rows = {}
    BY DEF SuggestionsInit, EmptyBag, SetToBag
  <2>3. CrowdInv
    BY <2>2 DEF CrowdInv, IsCount
  <2>4. req = [c \in Clients |-> NoRequest]
    BY DEF SuggestionsInit
  <2>5. \A c \in Clients : GoodRequest(c)
    BY <2>4 DEF GoodRequest, Carries, Own, Crowded, Served, NoRequest
  <2>6. req = [c \in Clients |-> req[c]]
    BY <2>4
  <2> QED
    BY <2>1, <2>3, <2>5, <2>6 DEF SuggestionsInv, RequestsInv
<1>2. SuggestionsInv /\ [CrowdNext \/ RefreshNext \/ AnswerNext]_allVars => SuggestionsInv'
  BY MemoryStep, CrowdStep, RequestsStep DEF SuggestionsInv
<1> QED
  BY <1>1, <1>2, PTL DEF SuggestionsSpec

\* A language taken from the memory of a session is one a search of that session and
\* that tenant was answered in, and not before the lifetime of the key: whatever writes are
\* late, lost or reordered, and whatever ids tenants share (session/locale_memory.rs).
THEOREM MemoryIsOfTheSession == SuggestionsSpec => []MemoryIsOwn
<1>1. SuggestionsInv => MemoryIsOwn
  BY DEF SuggestionsInv, RequestsInv, GoodRequest, Own, MemoryIsOwn
<1> QED
  BY <1>1, SuggestionsKeepInv, PTL

\* What is suggested as the crowd's was searched for at least min_count times by
\* users of the tenant, in the language of the request, while searches, flushes
\* and requests run in any order (foundation/suggestion.rs, postgres/trending.rs).
THEOREM CrowdIsAsked == SuggestionsSpec => []CrowdFloor
<1>1. SuggestionsInv => CrowdFloor
  BY DEF SuggestionsInv, RequestsInv, GoodRequest, Crowded, WellAsked, CrowdFloor, Answered
<1> QED
  BY <1>1, SuggestionsKeepInv, PTL

\* The generated suggestions of an answer come from one batch that was active at a
\* moment of the request, however often a batch is published while it reads
\* (postgres/default_suggestions.rs).
THEOREM OneBatchIsServed == SuggestionsSpec => []OneServedBatch
<1>1. SuggestionsInv => OneServedBatch
  BY DEF SuggestionsInv, RequestsInv, GoodRequest, Served, OneServedBatch, Answered
<1> QED
  BY <1>1, SuggestionsKeepInv, PTL

-----------------------------------------------------------------------------
(***************************************************************************)
(* Titles: an entry of the cache lives for TitleTtl from the moment its    *)
(* title stood behind its link, and no lookup holds one over a tick.       *)
(***************************************************************************)

TitleSpec == TitleInit /\ [][TitleStep]_titleVars

\* The title t of the link l was true when it was fetched.
StoodThere(l, t) ==
  \E p \in past :
    /\ p[1] = l /\ p[2] = t.at
    /\ \/ t.url = LinkTo[l] /\ t.title \in {p[3][x] : x \in Places} \ {Untitled, Blank}
       \/ t.url \in {l, LinkTo[l]} /\ t.title = SlugOf[t.url]

TitleTypes ==
  /\ head \in [Links -> Heads] /\ ticks \in Nat
  /\ cache = [l \in Links |-> cache[l]]
  /\ lookup \in [Lookups -> {"new", "fetch", "store", "done"}]
  /\ titled = [k \in Lookups |-> titled[k]]

EntryOf(l) ==
  /\ cache[l].at \in Nat /\ cache[l].until = cache[l].at + TitleTtl
  /\ StoodThere(l, cache[l])

TitleInv ==
  /\ TitleTypes
  /\ Present(head, ticks) \subseteq past
  /\ \A l \in Links : cache[l] = NoEntry \/ EntryOf(l)
  /\ \A k \in Lookups : lookup[k] = "store" =>
       titled[k].at = ticks /\ StoodThere(LinkOf(k), titled[k])

\* The title cut out of a page is none, or stands in one of its places and is not
\* blank.
LEMMA ExtractedStands ==
  ASSUME NEW places \in Heads
  PROVE  \/ ExtractTitle(places) = Untitled
         \/ ExtractTitle(places) \in {places[x] : x \in Places} \ {Untitled, Blank}
<1> DEFINE full == {i \in DOMAIN Cascade : places[Cascade[i]] # Untitled
                      /\ ~(Cascade[i] = "title" /\ places[Cascade[i]] = Blank)}
           first == places[Cascade[Min(full)]]
<1>1. CASE full = {}
  BY <1>1 DEF ExtractTitle
<1>2. CASE full # {}
  <2>1. DOMAIN Cascade = 1 .. 5
    BY DEF Cascade
  <2>2. full \subseteq 1 .. 5
    BY <2>1
  <2>3. \E m \in full : \A i \in full : m <= i
    <3> HIDE DEF full
    <3>1. PICK i \in 1 .. 5 : i \in full
      BY <1>2, <2>2
    <3>2. \/ 1 \in full
          \/ 1 \notin full /\ 2 \in full
          \/ 1 \notin full /\ 2 \notin full /\ 3 \in full
          \/ 1 \notin full /\ 2 \notin full /\ 3 \notin full /\ 4 \in full
          \/ 1 \notin full /\ 2 \notin full /\ 3 \notin full /\ 4 \notin full /\ 5 \in full
      BY <3>1, i = 1 \/ i = 2 \/ i = 3 \/ i = 4 \/ i = 5
    <3> QED
      BY <3>2, <2>2
  <2>4. Min(full) \in full
    <3> HIDE DEF full
    <3> QED
      BY <2>3, Zenon DEF Min
  <2>5. Cascade[Min(full)] \in Places /\ first # Untitled
    BY <2>4, Zenon DEF Places, ToSet
  <2>6. ExtractTitle(places) = IF first = Blank THEN Untitled ELSE first
    BY <1>2, Zenon DEF ExtractTitle
  <2> HIDE DEF full
  <2> QED
    BY <2>5, <2>6, Zenon
<1> QED
  BY <1>1, <1>2

\* What a fetch makes of a page, or of a link it cannot read, is true now.
LEMMA FetchedStands ==
  ASSUME TitleTypes, Present(head, ticks) \subseteq past, NEW l \in Links
  PROVE  /\ StoodThere(l, OfPage(l)) /\ OfPage(l).at = ticks
         /\ StoodThere(l, OfLink(l)) /\ OfLink(l).at = ticks
<1> DEFINE p == <<l, ticks, head[l]>>
<1>1. p \in past /\ p[1] = l /\ p[2] = ticks /\ p[3] = head[l]
  BY DEF Present
<1>2. head[l] \in Heads
  BY DEF TitleTypes
<1>3. /\ OfPage(l).at = ticks /\ OfPage(l).url = LinkTo[l]
      /\ \/ OfPage(l).title = SlugOf[LinkTo[l]]
         \/ OfPage(l).title \in {head[l][x] : x \in Places} \ {Untitled, Blank}
  <2>1. \/ ExtractTitle(head[l]) = Untitled
        \/ /\ ExtractTitle(head[l]) # Untitled
           /\ ExtractTitle(head[l]) \in {head[l][x] : x \in Places} \ {Untitled, Blank}
    BY <1>2, ExtractedStands
  <2> QED
    BY <2>1 DEF OfPage
<1>4. OfLink(l).at = ticks /\ OfLink(l).url = l /\ OfLink(l).title = SlugOf[l]
  BY DEF OfLink
<1> HIDE DEF p
<1>5. StoodThere(l, OfPage(l))
  BY <1>1, <1>3, Zenon DEF StoodThere
<1>6. StoodThere(l, OfLink(l))
  BY <1>1, <1>4, Zenon DEF StoodThere
<1> QED
  BY <1>3, <1>4, <1>5, <1>6

\* The past is never forgotten.
LEMMA StillStood ==
  ASSUME past \subseteq past', NEW l, NEW t, StoodThere(l, t)
  PROVE  StoodThere(l, t)'
BY DEF StoodThere

\* The lookup k moves from a phase to another.
LEMMA LookupMoves ==
  ASSUME TitleInv, NEW k \in Lookups, NEW p \in {"new", "fetch", "store", "done"},
         lookup' = [lookup EXCEPT ![k] = p]
  PROVE  /\ lookup' \in [Lookups -> {"new", "fetch", "store", "done"}]
         /\ lookup'[k] = p
         /\ \A j \in Lookups : j # k => lookup'[j] = lookup[j]
BY DEF TitleInv, TitleTypes

\* What a step keeps that leaves the clock and the pages as they are: the titles
\* not stored yet but that of k, and the entries.
LEMMA LookupStep ==
  ASSUME TitleInv, NEW k \in Lookups, Hit(k) \/ Miss(k) \/ Fetch(k) \/ Store(k)
  PROVE  TitleInv'
<1> USE DEF TitleInv
<1>1. UNCHANGED <<head, ticks, past>> /\ Present(head, ticks)' \subseteq past'
  BY DEF Hit, Miss, Fetch, Store, Present
<1>2. LinkOf(k) \in Links
  BY DEF Lookups, LinkOf
<1>3. ASSUME NEW l, NEW t, StoodThere(l, t)
      PROVE  StoodThere(l, t)'
  BY <1>1, <1>3 DEF StoodThere
<1>4. ASSUME NEW l \in Links, cache'[l] = cache[l]
      PROVE  cache'[l] = NoEntry \/ EntryOf(l)'
  BY <1>1, <1>4 DEF EntryOf, StoodThere
<1>5. ASSUME NEW j \in Lookups, lookup'[j] = lookup[j], titled'[j] = titled[j],
             lookup'[j] = "store"
      PROVE  titled'[j].at = ticks' /\ StoodThere(LinkOf(j), titled[j])'
  BY <1>1, <1>5 DEF StoodThere
<1>6. CASE Hit(k) \/ Miss(k)
  <2>1. cache' = cache
    BY <1>6 DEF Hit, Miss, AfterHit
  <2>2. lookup' \in [Lookups -> {"new", "fetch", "store", "done"}] /\ lookup'[k] # "store"
        /\ \A j \in Lookups : j # k => lookup'[j] = lookup[j] /\ titled'[j] = titled[j]
    BY <1>6, LookupMoves DEF Hit, Miss, TitleTypes
  <2>3. titled' = [j \in Lookups |-> titled'[j]]
    BY <1>6 DEF Hit, Miss, TitleTypes
  <2>4. TitleTypes'
    BY <1>1, <2>1, <2>2, <2>3 DEF TitleTypes
  <2> QED
    BY <1>1, <1>4, <1>5, <2>1, <2>2, <2>4
<1>7. CASE Fetch(k)
  <2>1. cache' = cache
    BY <1>7 DEF Fetch
  <2>2. lookup' \in [Lookups -> {"new", "fetch", "store", "done"}]
        /\ \A j \in Lookups : j # k => lookup'[j] = lookup[j] /\ titled'[j] = titled[j]
    BY <1>7, LookupMoves DEF Fetch, TitleTypes
  <2>3. titled' = [j \in Lookups |-> titled'[j]]
    BY <1>7 DEF Fetch, TitleTypes
  <2>4. TitleTypes'
    BY <1>1, <2>1, <2>2, <2>3 DEF TitleTypes
  <2>5. titled'[k] \in {OfPage(LinkOf(k)), OfLink(LinkOf(k))}
    BY <1>7 DEF Fetch, TitleTypes
  <2>6. titled'[k].at = ticks' /\ StoodThere(LinkOf(k), titled[k])'
    <3>1. titled'[k].at = ticks /\ StoodThere(LinkOf(k), titled'[k])
      BY <1>2, <2>5, FetchedStands, Zenon
    <3> QED
      BY <1>1, <3>1 DEF StoodThere
  <2> QED
    BY <1>1, <1>4, <1>5, <2>1, <2>2, <2>4, <2>6
<1>8. CASE Store(k)
  <2>1. titled' = titled
    BY <1>8 DEF Store
  <2>2. lookup' \in [Lookups -> {"new", "fetch", "store", "done"}] /\ lookup'[k] # "store"
        /\ \A j \in Lookups : j # k => lookup'[j] = lookup[j]
    BY <1>8, LookupMoves DEF Store
  <2>3. /\ cache' = [l \in Links |-> cache'[l]]
        /\ \A l \in Links : l # LinkOf(k) => cache'[l] = cache[l]
        /\ cache'[LinkOf(k)] = cache[LinkOf(k)] \/
           cache'[LinkOf(k)] = [until |-> ticks + TitleTtl, title |-> titled[k].title,
                                url |-> titled[k].url, at |-> titled[k].at]
    BY <1>2, <1>8 DEF Store, TitleTypes
  <2>4. TitleTypes'
    BY <1>1, <2>1, <2>2, <2>3 DEF TitleTypes
  <2>5. cache'[LinkOf(k)] = NoEntry \/ EntryOf(LinkOf(k))'
    <3>1. titled[k].at = ticks /\ StoodThere(LinkOf(k), titled[k])
      BY <1>8 DEF Store
    <3>2. CASE cache'[LinkOf(k)] = cache[LinkOf(k)]
      BY <1>2, <1>4, <3>2
    <3>3. CASE cache'[LinkOf(k)] = [until |-> ticks + TitleTtl, title |-> titled[k].title,
                                    url |-> titled[k].url, at |-> titled[k].at]
      <4>1. /\ cache'[LinkOf(k)].at = ticks /\ cache'[LinkOf(k)].until = ticks + TitleTtl
            /\ cache'[LinkOf(k)].title = titled[k].title /\ cache'[LinkOf(k)].url = titled[k].url
        BY <3>1, <3>3
      <4>2. StoodThere(LinkOf(k), cache[LinkOf(k)])'
        BY <1>1, <1>2, <3>1, <4>1, Zenon DEF StoodThere, LinkOf
      <4> QED
        BY <4>1, <4>2 DEF EntryOf, TitleTypes, LinkOf
    <3> QED
      BY <2>3, <3>2, <3>3
  <2> QED
    BY <1>1, <1>4, <1>5, <2>1, <2>2, <2>3, <2>4, <2>5
<1> QED
  BY <1>6, <1>7, <1>8

\* A tick finds no lookup between its fetch and its store; an edit adds to the past.
LEMMA WorldStep ==
  ASSUME TitleInv, TimePasses \/ \E l \in Links : Edit(l)
  PROVE  TitleInv'
<1> USE DEF TitleInv
<1>1. past \subseteq past' /\ UNCHANGED <<cache, lookup, titled>>
  BY DEF TimePasses, Edit
<1>2. head' \in [Links -> Heads] /\ ticks' \in Nat
  BY DEF TimePasses, Edit, TitleTypes
<1>3. Present(head, ticks)' \subseteq past'
  BY DEF TimePasses, Edit, Present
<1>4. TitleTypes'
  BY <1>1, <1>2 DEF TitleTypes
<1>5. \A l \in Links : cache'[l] = NoEntry \/ EntryOf(l)'
  BY <1>1 DEF EntryOf, StoodThere
<1>6. ASSUME NEW k \in Lookups, lookup'[k] = "store"
      PROVE  titled'[k].at = ticks' /\ StoodThere(LinkOf(k), titled[k])'
  <2>1. ticks' = ticks
    BY <1>1, <1>6 DEF TimePasses, Edit
  <2> QED
    BY <1>1, <1>6, <2>1 DEF StoodThere
<1> QED
  BY <1>3, <1>4, <1>5, <1>6

LEMMA TitlesKeep == TitleSpec => []TitleInv
<1>1. TitleInit => TitleInv
  <2> SUFFICES ASSUME TitleInit PROVE TitleInv
    OBVIOUS
  <2>1. TitleTypes
    BY DEF TitleInit, TitleTypes
  <2>2. Present(head, ticks) \subseteq past
    BY DEF TitleInit, Present
  <2>3. \A l \in Links : cache[l] = NoEntry
    BY DEF TitleInit
  <2>4. \A k \in Lookups : lookup[k] # "store"
    BY DEF TitleInit
  <2> QED
    BY <2>1, <2>2, <2>3, <2>4 DEF TitleInv
<1>2. TitleInv /\ [TitleStep]_titleVars => TitleInv'
  <2>1. TitleInv /\ UNCHANGED titleVars => TitleInv'
    BY DEF titleVars, TitleInv, TitleTypes, EntryOf, StoodThere, Present
  <2> QED
    BY <2>1, LookupStep, WorldStep, Zenon DEF TitleStep
<1> QED
  BY <1>1, <1>2, PTL DEF TitleSpec

\* A title that is shown belongs to its link and was true less than its lifetime
\* before it was looked up, for every number of searches that share the cache, every
\* lifetime, and every failure of a fetch or of Redis (title_resolver.rs).
THEOREM TitlesAreStillTrue == TitleSpec => TitleStillTrue
<1>1. TitleInv /\ [TitleStep]_titleVars =>
        [\A k \in Lookups : titled'[k] # titled[k] =>
           LET t == titled'[k] l == LinkOf(k)
           IN /\ ticks - t.at < TitleTtl
              /\ \E p \in past :
                   /\ p[1] = l /\ p[2] = t.at
                   /\ \/ t.url = LinkTo[l] /\ t.title \in {p[3][x] : x \in Places} \ {Untitled, Blank}
                      \/ t.url \in {l, LinkTo[l]} /\ t.title = SlugOf[t.url]]_titleVars
  <2> SUFFICES ASSUME TitleInv, TitleStep, NEW k \in Lookups, titled'[k] # titled[k]
               PROVE  ticks - titled'[k].at < TitleTtl /\ StoodThere(LinkOf(k), titled'[k])
    BY Zenon DEF StoodThere
  <2>1. LinkOf(k) \in Links
    BY DEF Lookups, LinkOf
  <2>2. Hit(k) \/ Fetch(k)
    BY DEF TitleStep, TitleInv, TitleTypes, Hit, Miss, Fetch, Store, TimePasses, Edit
  <2>3. ticks \in Nat /\ TitleTtl \in Nat /\ TitleTtl > 0
    BY TitleAssumption DEF TitleInv, TitleTypes
  <2>4. CASE Hit(k)
    <3>1. ticks < cache[LinkOf(k)].until
      BY <2>4 DEF Hit
    <3>2. EntryOf(LinkOf(k))
      <4>1. cache[LinkOf(k)] # NoEntry
        BY <2>3, <3>1 DEF NoEntry
      <4> QED
        BY <2>1, <4>1 DEF TitleInv
    <3>3. /\ titled'[k].at = cache[LinkOf(k)].at /\ titled'[k].url = cache[LinkOf(k)].url
          /\ titled'[k].title = cache[LinkOf(k)].title
      BY <2>4 DEF Hit, TitleInv, TitleTypes
    <3>4. ticks - titled'[k].at < TitleTtl
      BY <2>3, <3>1, <3>2, <3>3 DEF EntryOf
    <3>5. StoodThere(LinkOf(k), titled'[k])
      BY <3>2, <3>3, Zenon DEF EntryOf, StoodThere
    <3> QED
      BY <3>4, <3>5
  <2>5. CASE Fetch(k)
    <3>1. titled'[k] \in {OfPage(LinkOf(k)), OfLink(LinkOf(k))}
      BY <2>5 DEF Fetch, TitleInv, TitleTypes
    <3>2. titled'[k].at = ticks /\ StoodThere(LinkOf(k), titled'[k])
      BY <2>1, <3>1, FetchedStands, Zenon DEF TitleInv
    <3> QED
      BY <2>3, <3>2
  <2> QED
    BY <2>2, <2>4, <2>5
<1> QED
  BY <1>1, TitlesKeep, PTL DEF TitleSpec, TitleStillTrue

-----------------------------------------------------------------------------
(***************************************************************************)
(* Rankings: the score of a chunk.                                         *)
(***************************************************************************)

\* A rank divides the common multiple, so that a score is exact.
LEMMA Exact ==
  ASSUME NEW w \in Nat \ {0}, NEW r \in Nat \ {0}, Unit % r = 0
  PROVE  \E q \in Nat \ {0} : Unit = r * q /\ Reciprocal(w, r) = w * q
<1> DEFINE q == Unit \div r
           d == (w * Unit) \div r
<1>1. Unit \in Nat /\ Unit > 0
  <2>1. Unit \in Nat \ {0}
    BY AnswerAssumption, Zenon
  <2> QED
    BY <2>1
<1>2. q \in Int /\ Unit = r * q
  BY <1>1
<1> HIDE DEF q
<1>3. q > 0
  <2>1. q <= 0 => r * q <= 0
    BY <1>2
  <2> QED
    BY <1>1, <1>2, <2>1
<1>4. d \in Int /\ w * Unit - r * d >= 0 /\ w * Unit - r * d < r
  <2>1. w * Unit \in Int
    BY <1>1
  <2>2. ASSUME NEW x \in Int
        PROVE  x \div r \in Int /\ x - r * (x \div r) >= 0 /\ x - r * (x \div r) < r
    OBVIOUS
  <2> QED
    BY <2>1, <2>2
<1> HIDE DEF d
<1>5. w * Unit - r * d = r * (w * q - d)
  <2>1. w * Unit = r * (w * q)
    BY <1>2
  <2>2. w * q \in Int
    BY <1>2
  <2> QED
    BY <1>4, <2>1, <2>2
<1>6. d = w * q
  <2>1. w * q - d \in Int
    BY <1>2, <1>4
  <2>2. \A e \in Int : e >= 1 => r * e >= r
    OBVIOUS
  <2>3. \A e \in Int : e <= -1 => r * e < 0
    OBVIOUS
  <2>4. ~(w * q - d >= 1) /\ ~(w * q - d <= -1)
    BY <1>4, <1>5, <2>1, <2>2, <2>3
  <2> QED
    BY <1>2, <1>4, <2>1, <2>4
<1> QED
  BY <1>2, <1>3, <1>6 DEF Reciprocal, d

\* A better rank scores more.
LEMMA BetterRank ==
  ASSUME NEW w \in Nat \ {0}, NEW r \in Nat \ {0}, NEW t \in Nat \ {0}, r < t,
         Unit % r = 0, Unit % t = 0
  PROVE  Reciprocal(w, r) > Reciprocal(w, t)
<1>1. PICK q \in Nat \ {0} : Unit = r * q /\ Reciprocal(w, r) = w * q
  BY Exact
<1>2. PICK p \in Nat \ {0} : Unit = t * p /\ Reciprocal(w, t) = w * p
  BY Exact
<1>3. r * q = t * p
  BY <1>1, <1>2
<1>4. q > p
  <2> SUFFICES ASSUME q <= p PROVE FALSE
    OBVIOUS
  <2>1. r * q <= r * p
    OBVIOUS
  <2>2. r * p < t * p
    OBVIOUS
  <2> QED
    BY <1>3, <2>1, <2>2
<1>5. w * q > w * p
  BY <1>4
<1> QED
  BY <1>1, <1>2, <1>5

\* The rank of a chunk is where it stands.
LEMMA RankStands ==
  ASSUME NEW T, NEW s \in Seq(T), IsInjective(s), NEW c
  PROVE  /\ Rank(c, s) \in 0 .. Len(s)
         /\ \A i \in 1 .. Len(s) : s[i] = c => Rank(c, s) = i
         /\ c \notin ToSet(s) => Rank(c, s) = 0
         /\ Rank(c, s) # 0 => s[Rank(c, s)] = c
<1> DEFINE I == {i \in 1 .. Len(s) : s[i] = c}
<1>1. Len(s) \in Nat /\ DOMAIN s = 1 .. Len(s)
  OBVIOUS
<1>2. Rank(c, s) = IF I # {} THEN Min(I) ELSE 0
  BY DEF Rank, SelectInSeq
<1>3. ASSUME NEW i \in I PROVE Min(I) = i
  <2>1. I = {i}
    BY <1>1 DEF IsInjective
  <2> QED
    BY <1>1, <2>1 DEF Min
<1>4. \A i \in 1 .. Len(s) : s[i] = c => Rank(c, s) = i
  <2>1. \A i \in 1 .. Len(s) : s[i] = c => i \in I
    OBVIOUS
  <2> HIDE DEF I
  <2> QED
    BY <1>2, <1>3, <2>1
<1>5. CASE I = {}
  <2>1. Rank(c, s) = 0
    BY <1>2, <1>5
  <2> QED
    BY <1>1, <1>4, <2>1
<1>6. CASE I # {}
  <2>1. PICK i \in 1 .. Len(s) : s[i] = c
    BY <1>6
  <2>2. Rank(c, s) = i
    BY <1>4, <2>1
  <2>3. c \in ToSet(s)
    BY <1>1, <2>1 DEF ToSet
  <2> QED
    BY <1>1, <1>4, <2>1, <2>2, <2>3
<1> QED
  BY <1>5, <1>6

\* One ranking scores a chunk no less than one that is not behind it, and more
\* than one it is ahead of.
LEMMA Points ==
  ASSUME NEW s \in IndexRankings, NEW w \in Nat \ {0}, NEW c, NEW d
  PROVE  LET points(x) == Reciprocal(w, Rank(x, s))
         IN  /\ points(c) \in Nat /\ points(d) \in Nat
             /\ Ahead(c, d, s) => points(c) > points(d)
             /\ ~Behind(c, d, s) => points(c) >= points(d)
<1>1. s \in Seq(Chunks) /\ IsInjective(s) /\ \A i \in 1 .. Len(s) : Unit % i = 0
  <2>1. s \in Seq(Chunks) /\ IsInjective(s) /\ \A i \in DOMAIN s : Unit % i = 0
    BY AnswerAssumption
  <2> QED
    BY <2>1
<1>2. /\ Rank(c, s) \in Nat /\ (Rank(c, s) # 0 => Unit % Rank(c, s) = 0)
      /\ Rank(d, s) \in Nat /\ (Rank(d, s) # 0 => Unit % Rank(d, s) = 0)
  <2>1. Rank(c, s) \in 0 .. Len(s) /\ Rank(d, s) \in 0 .. Len(s) /\ Len(s) \in Nat
    BY <1>1, RankStands
  <2> QED
    BY <1>1, <2>1
<1>3. ASSUME NEW r \in Nat, r # 0 => Unit % r = 0
      PROVE  Reciprocal(w, r) \in Nat /\ (r # 0 => Reciprocal(w, r) > 0)
  <2>1. CASE r = 0
    BY <2>1 DEF Reciprocal
  <2>2. CASE r # 0
    <3>1. PICK q \in Nat \ {0} : Reciprocal(w, r) = w * q
      BY <1>3, <2>2, Exact
    <3>2. w * q \in Nat /\ w * q > 0
      OBVIOUS
    <3> QED
      BY <3>1, <3>2
  <2> QED
    BY <2>1, <2>2
<1>4. Reciprocal(w, 0) = 0
  BY DEF Reciprocal
<1>5. Ahead(c, d, s) => Reciprocal(w, Rank(c, s)) > Reciprocal(w, Rank(d, s))
  <2> SUFFICES ASSUME Ahead(c, d, s)
               PROVE  Reciprocal(w, Rank(c, s)) > Reciprocal(w, Rank(d, s))
    OBVIOUS
  <2>1. CASE Rank(d, s) = 0
    BY <1>2, <1>3, <1>4, <2>1 DEF Ahead
  <2>2. CASE Rank(d, s) # 0
    BY <1>2, <2>2, BetterRank DEF Ahead
  <2> QED
    BY <2>1, <2>2
<1>6. ~Behind(c, d, s) => Ahead(c, d, s) \/ Rank(c, s) = Rank(d, s)
  BY <1>2 DEF Behind, Ahead
<1> QED
  BY <1>2, <1>3, <1>5, <1>6

\* Agreement scores more.
LEMMA AgreedScore ==
  ASSUME NEW vector \in IndexRankings, NEW words \in IndexRankings, NEW c, NEW d,
         Ahead(c, d, vector) \/ Ahead(c, d, words),
         ~Behind(c, d, vector), ~Behind(c, d, words)
  PROVE  /\ Fused(c, vector, words) \in Int /\ Fused(d, vector, words) \in Int
         /\ Fused(c, vector, words) > Fused(d, vector, words)
<1>1. SemanticWeight \in Nat \ {0} /\ TextWeight \in Nat \ {0}
  BY AnswerAssumption
<1> DEFINE v(x) == Reciprocal(SemanticWeight, Rank(x, vector))
           t(x) == Reciprocal(TextWeight, Rank(x, words))
<1>2. /\ v(c) \in Nat /\ v(d) \in Nat /\ v(c) >= v(d)
      /\ Ahead(c, d, vector) => v(c) > v(d)
  BY <1>1, Points
<1>3. /\ t(c) \in Nat /\ t(d) \in Nat /\ t(c) >= t(d)
      /\ Ahead(c, d, words) => t(c) > t(d)
  BY <1>1, Points
<1>4. Fused(c, vector, words) = v(c) + t(c) /\ Fused(d, vector, words) = v(d) + t(d)
  BY DEF Fused
<1> HIDE DEF v, t
<1> QED
  BY <1>2, <1>3, <1>4

-----------------------------------------------------------------------------
(***************************************************************************)
(* Documents: the first TopK of an order by score.                         *)
(***************************************************************************)

\* The elements of a sequence are finitely many.
LEMMA FewElements ==
  ASSUME NEW T, NEW s \in Seq(T)
  PROVE  IsFiniteSet(ToSet(s)) /\ ToSet(s) \subseteq T
<1>1. Len(s) \in Nat /\ DOMAIN s = 1 .. Len(s) /\ \A i \in 1 .. Len(s) : s[i] \in T
  OBVIOUS
<1>2. IsFiniteSet(1 .. Len(s))
  <2>1. 1 \in Int /\ Len(s) \in Int
    BY <1>1
  <2> QED
    BY <2>1, FS_Interval
<1>3. ToSet(s) \subseteq T
  BY <1>1 DEF ToSet
<1>4. s \in Surjection(DOMAIN s, ToSet(s))
  BY DEF Surjection, ToSet
<1> QED
  BY <1>1, <1>2, <1>3, <1>4, FS_Surjection

\* An order of a set lists each of its elements once.
LEMMA Listing ==
  ASSUME NEW S, IsFiniteSet(S), NEW s \in SetToSeqs(S)
  PROVE  s \in Seq(S) /\ IsInjective(s) /\ ToSet(s) = S
<1> DEFINE n == Cardinality(S)
<1>1. n \in Nat
  BY FS_CardinalityType
<1>2. s \in [1 .. n -> S] /\ \A i, j \in 1 .. n : i # j => s[i] # s[j]
  BY DEF SetToSeqs
<1>3. IsFiniteSet(1 .. n) /\ Cardinality(1 .. n) = n
  <2>1. 1 \in Int /\ n \in Int /\ (IF 1 > n THEN 0 ELSE n - 1 + 1) = n
    BY <1>1
  <2> HIDE DEF n
  <2> QED
    BY <2>1, FS_Interval
<1> HIDE DEF n
<1>4. s \in Seq(S) /\ IsInjective(s)
  BY <1>1, <1>2 DEF IsInjective
<1>5. s \in Injection(1 .. n, S)
  BY <1>2, <1>4 DEF Injection
<1>6. s \in Surjection(1 .. n, S)
  BY <1>3, <1>5, FS_Injection DEF n
<1>7. ToSet(s) = S
  BY <1>2, <1>6 DEF ToSet, Surjection
<1> QED
  BY <1>4, <1>7

\* A cut of a sequence without repetitions has none, and keeps the ranks it has.
LEMMA Cut ==
  ASSUME NEW T, NEW s \in Seq(T), IsInjective(s), NEW m \in 0 .. Len(s)
  PROVE  LET cut == SubSeq(s, 1, m)
         IN  /\ cut \in Seq(T) /\ IsInjective(cut)
             /\ \A c \in ToSet(cut) : Rank(c, s) \in 1 .. m
             /\ \A c : Rank(c, s) \in 1 .. m => Rank(c, cut) = Rank(c, s)
<1> DEFINE cut == SubSeq(s, 1, m)
<1>1. /\ Len(s) \in Nat /\ DOMAIN s = 1 .. Len(s) /\ m \in Nat /\ m <= Len(s)
      /\ cut \in Seq(T) /\ Len(cut) = m /\ DOMAIN cut = 1 .. m
      /\ \A i \in 1 .. m : cut[i] = s[i]
  OBVIOUS
<1> HIDE DEF cut
<1>2. \A i \in 1 .. m : i \in 1 .. Len(s)
  BY <1>1
<1>3. IsInjective(cut)
  BY <1>1, <1>2 DEF IsInjective
<1>4. ASSUME NEW c \in ToSet(cut) PROVE Rank(c, s) \in 1 .. m
  <2>1. PICK i \in 1 .. m : cut[i] = c
    BY <1>1 DEF ToSet
  <2>2. Rank(c, s) = i
    BY <1>1, <1>2, <2>1, RankStands
  <2> QED
    BY <2>2
<1>5. ASSUME NEW c, Rank(c, s) \in 1 .. m PROVE Rank(c, cut) = Rank(c, s)
  <2>1. Rank(c, s) # 0
    BY <1>1, <1>5
  <2>2. s[Rank(c, s)] = c
    BY <2>1, RankStands
  <2>3. cut[Rank(c, s)] = c
    BY <1>1, <1>5, <2>2
  <2> QED
    BY <1>1, <1>3, <1>5, <2>3, RankStands
<1> QED
  BY <1>1, <1>3, <1>4, <1>5 DEF cut

\* What reranking may return is a cut of an order by score of all that was found.
LEMMA RerankedIsCut ==
  ASSUME NEW vector \in IndexRankings, NEW words \in IndexRankings,
         NEW docs \in Reranked(vector, words)
  PROVE  LET found == ToSet(vector) \cup ToSet(words)
         IN  \E s \in Seq(found) : \E m \in 0 .. Len(s) :
               /\ IsInjective(s) /\ ToSet(s) = found
               /\ \A i, j \in DOMAIN s :
                    i < j => Fused(s[i], vector, words) >= Fused(s[j], vector, words)
               /\ docs = SubSeq(s, 1, m)
<1> DEFINE found == ToSet(vector) \cup ToSet(words)
           kept(s) == Min({TopK, Len(s)})
<1>1. IsFiniteSet(found)
  <2>1. vector \in Seq(Chunks) /\ words \in Seq(Chunks)
    BY AnswerAssumption, Zenon
  <2> QED
    BY <2>1, FewElements, FS_Union
<1>2. PICK s \in SetToSeqs(found) :
        /\ \A i, j \in DOMAIN s : i < j => Fused(s[i], vector, words) >= Fused(s[j], vector, words)
        /\ docs = SubSeq(s, 1, kept(s))
  BY Zenon DEF Reranked
<1>3. s \in Seq(found) /\ IsInjective(s) /\ ToSet(s) = found
  BY <1>1, Listing
<1>4. kept(s) \in 0 .. Len(s)
  <2>1. TopK \in Nat /\ Len(s) \in Nat
    <3>1. TopK \in Nat
      BY AnswerAssumption, Zenon
    <3> HIDE DEF found
    <3> QED
      BY <1>3, <3>1
  <2>2. \E x \in {TopK, Len(s)} : \A y \in {TopK, Len(s)} : x <= y
    BY <2>1
  <2>3. kept(s) \in {TopK, Len(s)} /\ \A y \in {TopK, Len(s)} : kept(s) <= y
    BY <2>2, Zenon DEF Min
  <2> HIDE DEF kept
  <2> QED
    BY <2>1, <2>3
<1> HIDE DEF found, kept
<1> QED
  BY <1>2, <1>3, <1>4, Zenon DEF found

\* Of the documents that reranking may return, the one that scores more stands first.
LEMMA RerankedByScore ==
  ASSUME NEW vector \in IndexRankings, NEW words \in IndexRankings,
         NEW docs \in Reranked(vector, words),
         NEW c \in ToSet(vector) \cup ToSet(words), NEW d \in ToSet(docs),
         Fused(c, vector, words) \in Int, Fused(d, vector, words) \in Int,
         Fused(c, vector, words) > Fused(d, vector, words)
  PROVE  Rank(c, docs) # 0 /\ Rank(c, docs) < Rank(d, docs)
<1> DEFINE found == ToSet(vector) \cup ToSet(words)
           score(x) == Fused(x, vector, words)
<1>a. PICK s \in Seq(found) : \E m \in 0 .. Len(s) :
        /\ IsInjective(s) /\ ToSet(s) = found
        /\ \A i, j \in DOMAIN s : i < j => score(s[i]) >= score(s[j])
        /\ docs = SubSeq(s, 1, m)
  BY RerankedIsCut, Zenon
<1> HIDE DEF found
<1>1. PICK m \in 0 .. Len(s) :
        /\ IsInjective(s) /\ ToSet(s) = found
        /\ \A i, j \in DOMAIN s : i < j => score(s[i]) >= score(s[j])
        /\ docs = SubSeq(s, 1, m)
  BY <1>a
<1>2. DOMAIN s = 1 .. Len(s) /\ Len(s) \in Nat /\ m \in Nat /\ m <= Len(s)
  OBVIOUS
<1>3. /\ Rank(d, s) \in 1 .. m /\ Rank(d, docs) = Rank(d, s)
      /\ Rank(c, s) \in 1 .. m => Rank(c, docs) = Rank(c, s)
  BY <1>1, Cut
<1>4. Rank(c, s) \in 1 .. Len(s) /\ s[Rank(c, s)] = c
  <2>1. PICK i \in 1 .. Len(s) : s[i] = c
    BY <1>1, <1>2 DEF ToSet, found
  <2> QED
    BY <1>1, <2>1, RankStands
<1>5. Rank(d, s) \in 1 .. Len(s) /\ s[Rank(d, s)] = d
  <2>1. Rank(d, s) # 0
    BY <1>2, <1>3
  <2> QED
    BY <1>1, <1>2, <1>3, <2>1, RankStands
<1>6. Rank(c, s) < Rank(d, s)
  <2>1. ~(score(c) <= score(d))
    OBVIOUS
  <2>2. Rank(d, s) # Rank(c, s)
    BY <1>4, <1>5, <2>1
  <2>3. ~(Rank(d, s) < Rank(c, s))
    <3>1. score(d) >= score(c) => score(c) <= score(d)
      OBVIOUS
    <3> HIDE DEF score
    <3> QED
      BY <1>1, <1>2, <1>4, <1>5, <2>1, <3>1
  <2> QED
    BY <1>4, <1>5, <2>2, <2>3
<1> QED
  BY <1>2, <1>3, <1>4, <1>6

\* Nor does reranking return a chunk twice.
LEMMA RerankedOnce ==
  ASSUME NEW vector \in IndexRankings, NEW words \in IndexRankings,
         NEW docs \in Reranked(vector, words)
  PROVE  IsInjective(docs)
<1> DEFINE found == ToSet(vector) \cup ToSet(words)
<1>1. PICK s \in Seq(found) : \E m \in 0 .. Len(s) : IsInjective(s) /\ docs = SubSeq(s, 1, m)
  BY RerankedIsCut, Zenon
<1> HIDE DEF found
<1>2. PICK m \in 0 .. Len(s) : IsInjective(s) /\ docs = SubSeq(s, 1, m)
  BY <1>1
<1> QED
  BY <1>2, Cut

-----------------------------------------------------------------------------
(***************************************************************************)
(* The documents of an answer are what reranking made of the rankings.     *)
(***************************************************************************)

AnswerSpec == AnswerInit /\ [][AnswerStep]_answerVars

DocumentsInv ==
  \/ documents = <<>>
  \/ \E vector, words \in IndexRankings :
       rankings = [vector |-> vector, text |-> words] /\ documents \in Reranked(vector, words)

\* Only Retrieve sets the documents, together with the rankings.
LEMMA DocumentsKeep ==
  ASSUME DocumentsInv, [AnswerStep]_answerVars
  PROVE  DocumentsInv'
<1> USE DEF DocumentsInv
<1>1. CASE UNCHANGED <<documents, rankings>>
  BY <1>1, Zenon
<1>2. ASSUME NEW vector \in IndexRankings, NEW words \in IndexRankings, Retrieve(vector, words)
      PROVE  DocumentsInv'
  <2>1. rankings' = [vector |-> vector, text |-> words] /\ documents' \in Reranked(vector, words)
    BY <1>2, Zenon DEF Retrieve
  <2> QED
    BY <2>1, Zenon
<1> QED
  <2> SUFFICES ASSUME AnswerStep,
                      ~\E vector \in IndexRankings : \E words \in IndexRankings : Retrieve(vector, words)
               PROVE  UNCHANGED <<documents, rankings>>
    BY <1>1, <1>2, Zenon DEF answerVars
  <2> QED
    BY Zenon DEF AnswerStep, Preprocess, Classify, Translate, Join, RetrieveFails, WebSearch,
                 NoWeb, Generate, OpenStream, StreamBreaks, Stream, UnreadEvent,
                 StreamEnds, CompleteStream

\* Agreement wins: a chunk that neither search ranks behind another, and one of them
\* before it, is cited before it and never left out for it, and no chunk is cited
\* twice; for all rankings, weights and cuts (qdrant/client.rs, reranker.rs).
THEOREM AgreedChunksFirst == AnswerSpec => []AgreementWins
<1>1. AnswerInit => DocumentsInv
  BY DEF AnswerInit, DocumentsInv
<1>2. DocumentsInv => AgreementWins
  <2> SUFFICES ASSUME DocumentsInv PROVE AgreementWins
    OBVIOUS
  <2>1. CASE documents = <<>>
    <3>1. ToSet(documents) = {} /\ IsInjective(documents)
      BY <2>1 DEF ToSet, IsInjective
    <3> QED
      BY <3>1, Zenon DEF AgreementWins
  <2>2. CASE documents # <<>>
    <3>0. PICK vector \in IndexRankings, words \in IndexRankings :
          rankings = [vector |-> vector, text |-> words] /\ documents \in Reranked(vector, words)
      BY <2>2 DEF DocumentsInv
    <3>1. /\ DOMAIN rankings = {"vector", "text"}
          /\ rankings["vector"] = vector /\ rankings["text"] = words
          /\ rankings.vector = vector /\ rankings.text = words
      BY <3>0
    <3>2. IsInjective(documents)
      BY <3>0, <3>1, RerankedOnce, Zenon
    <3>3. ASSUME NEW d \in ToSet(documents),
                 NEW c \in ToSet(rankings.vector) \cup ToSet(rankings.text),
                 \E name \in DOMAIN rankings : Ahead(c, d, rankings[name]),
                 \A name \in DOMAIN rankings : ~Behind(c, d, rankings[name])
          PROVE  Rank(c, documents) # 0 /\ Rank(c, documents) < Rank(d, documents)
      <4>1. /\ Ahead(c, d, vector) \/ Ahead(c, d, words)
            /\ ~Behind(c, d, vector) /\ ~Behind(c, d, words)
        BY <3>1, <3>3, Zenon
      <4>2. /\ Fused(c, vector, words) \in Int
            /\ Fused(d, vector, words) \in Int
            /\ Fused(c, vector, words) > Fused(d, vector, words)
        BY <3>1, <4>1, AgreedScore, Zenon
      <4> QED
        BY <3>0, <3>1, <4>2, RerankedByScore, Zenon
    <3> QED
      BY <3>2, <3>3, Zenon DEF AgreementWins
  <2> QED
    BY <2>1, <2>2
<1> QED
  BY <1>1, <1>2, DocumentsKeep, PTL DEF AnswerSpec

-----------------------------------------------------------------------------
(***************************************************************************)
(* Usage: the accounts balance.                                            *)
(***************************************************************************)

Charges(cost, S) == [p \in Purposes |-> IF p \in S THEN cost[p] ELSE 0]
Total(f) ==
  f["preprocess"] + f["classify_intent"] + f["translate"] + f["generate"] + f["generate_stream"]

\* The stats list each purpose of S that cost something once, and nothing else.
Balanced(stats, cost, S) ==
  /\ stats.calls \in Seq([purpose : Purposes, tokens : Nat])
  /\ \A i, j \in 1 .. Len(stats.calls) :
       i # j => stats.calls[i].purpose # stats.calls[j].purpose
  /\ ToSet(stats.calls) =
       {[purpose |-> p, tokens |-> cost[p]] : p \in {q \in S : cost[q] # Unreported}}
  /\ stats.total = Total(Charges(cost, S))

\* The total grows by what is added.
LEMMA TotalGrows ==
  ASSUME NEW f \in [Purposes -> Nat], NEW g \in [Purposes -> Nat], NEW p \in Purposes,
         NEW n \in Nat, g[p] = f[p] + n, \A q \in Purposes \ {p} : g[q] = f[q]
  PROVE  Total(g) = Total(f) + n
<1>1. /\ f["preprocess"] \in Nat /\ f["classify_intent"] \in Nat /\ f["translate"] \in Nat
      /\ f["generate"] \in Nat /\ f["generate_stream"] \in Nat
  BY DEF Purposes
<1>2. \/ p = "preprocess" \/ p = "classify_intent" \/ p = "translate" \/ p = "generate"
      \/ p = "generate_stream"
  BY DEF Purposes
<1>3. /\ g["preprocess"] = IF p = "preprocess" THEN f["preprocess"] + n ELSE f["preprocess"]
      /\ g["classify_intent"] =
           IF p = "classify_intent" THEN f["classify_intent"] + n ELSE f["classify_intent"]
      /\ g["translate"] = IF p = "translate" THEN f["translate"] + n ELSE f["translate"]
      /\ g["generate"] = IF p = "generate" THEN f["generate"] + n ELSE f["generate"]
      /\ g["generate_stream"] =
           IF p = "generate_stream" THEN f["generate_stream"] + n ELSE f["generate_stream"]
  BY DEF Purposes
<1> QED
  BY <1>1, <1>2, <1>3 DEF Total

\* Recording a call that was not recorded before keeps the balance.
LEMMA RecordedBalances ==
  ASSUME NEW cost \in [Purposes -> Nat], NEW S \in SUBSET Purposes, NEW p \in Purposes \ S,
         NEW stats, Balanced(stats, cost, S)
  PROVE  Balanced(Recorded(stats, p, cost[p]), cost, S \cup {p})
<1> DEFINE entry == [purpose |-> p, tokens |-> cost[p]]
           calls == stats.calls
           Entries(T) == {[purpose |-> q, tokens |-> cost[q]] : q \in {r \in T : cost[r] # Unreported}}
<1>1. cost[p] \in Nat /\ entry \in [purpose : Purposes, tokens : Nat] /\ entry.purpose = p
  OBVIOUS
<1>2. /\ calls \in Seq([purpose : Purposes, tokens : Nat]) /\ Len(calls) \in Nat
      /\ DOMAIN calls = 1 .. Len(calls)
      /\ \A i, j \in 1 .. Len(calls) : i # j => calls[i].purpose # calls[j].purpose
      /\ ToSet(calls) = Entries(S)
  BY DEF Balanced
<1>3. \A i \in 1 .. Len(calls) : calls[i].purpose # p
  <2> SUFFICES ASSUME NEW i \in 1 .. Len(calls) PROVE calls[i].purpose # p
    OBVIOUS
  <2>1. calls[i] \in Entries(S)
    BY <1>2, Zenon DEF ToSet
  <2> QED
    BY <2>1
<1>4. CASE cost[p] = Unreported
  <2>1. Recorded(stats, p, cost[p]) = stats
    BY <1>4 DEF Recorded
  <2>2. Entries(S \cup {p}) = Entries(S)
    BY <1>4
  <2>3. cost[p] = 0
    BY <1>4 DEF Unreported
  <2> HIDE DEF entry, calls, Entries
  <2>4. Charges(cost, S \cup {p}) = Charges(cost, S)
    BY <2>3 DEF Charges
  <2> QED
    BY <2>1, <2>2, <2>4, Zenon DEF Balanced, Entries
<1>5. CASE cost[p] # Unreported
  <2> DEFINE stats2 == Recorded(stats, p, cost[p])
  <2>1. stats2.calls = Append(calls, entry) /\ stats2.total = stats.total + cost[p]
    BY <1>5 DEF Recorded
  <2>2. /\ Append(calls, entry) \in Seq([purpose : Purposes, tokens : Nat])
        /\ Len(Append(calls, entry)) = Len(calls) + 1
        /\ DOMAIN Append(calls, entry) = 1 .. Len(calls) + 1
        /\ \A i \in 1 .. Len(calls) : Append(calls, entry)[i] = calls[i]
        /\ Append(calls, entry)[Len(calls) + 1] = entry
    <3> HIDE DEF entry, calls
    <3> QED
      BY <1>1, <1>2
  <2>3. Entries(S \cup {p}) = Entries(S) \cup {entry}
    BY <1>5
  <2> HIDE DEF stats2, calls, entry, Entries
  <2>4. \A i, j \in 1 .. Len(calls) + 1 :
          i # j => Append(calls, entry)[i].purpose # Append(calls, entry)[j].purpose
    <3> SUFFICES ASSUME NEW i \in 1 .. Len(calls) + 1, NEW j \in 1 .. Len(calls) + 1, i # j
                 PROVE  Append(calls, entry)[i].purpose # Append(calls, entry)[j].purpose
      OBVIOUS
    <3>1. i \in 1 .. Len(calls) \/ i = Len(calls) + 1
      BY <1>2
    <3>2. j \in 1 .. Len(calls) \/ j = Len(calls) + 1
      BY <1>2
    <3> QED
      BY <1>1, <1>2, <1>3, <2>2, <3>1, <3>2, Zenon
  <2>5. ToSet(Append(calls, entry)) = ToSet(calls) \cup {entry}
    <3>1. \A i \in 1 .. Len(calls) + 1 : i \in 1 .. Len(calls) \/ i = Len(calls) + 1
      BY <1>2
    <3>2. \A i \in 1 .. Len(calls) : i \in 1 .. Len(calls) + 1
      BY <1>2
    <3>3. Len(calls) + 1 \in 1 .. Len(calls) + 1
      BY <1>2
    <3> QED
      BY <1>2, <2>2, <3>1, <3>2, <3>3 DEF ToSet
  <2>6. stats2.total = Total(Charges(cost, S \cup {p}))
    <3>1. /\ Charges(cost, S) \in [Purposes -> Nat] /\ Charges(cost, S \cup {p}) \in [Purposes -> Nat]
          /\ Charges(cost, S \cup {p})[p] = Charges(cost, S)[p] + cost[p]
          /\ \A q \in Purposes \ {p} : Charges(cost, S \cup {p})[q] = Charges(cost, S)[q]
      BY <1>1 DEF Charges
    <3>2. Total(Charges(cost, S \cup {p})) = Total(Charges(cost, S)) + cost[p]
      <4> DEFINE before == Charges(cost, S)
                 after == Charges(cost, S \cup {p})
                 paid == cost[p]
      <4>1. /\ before \in [Purposes -> Nat] /\ after \in [Purposes -> Nat] /\ paid \in Nat
            /\ after[p] = before[p] + paid
            /\ \A q \in Purposes \ {p} : after[q] = before[q]
        BY <1>1, <3>1
      <4>2. p \in Purposes
        OBVIOUS
      <4> HIDE DEF before, after, paid
      <4>3. Total(after) = Total(before) + paid
        BY <4>1, <4>2, TotalGrows
      <4> QED
        BY <4>3 DEF before, after, paid
    <3> QED
      BY <2>1, <3>2 DEF Balanced
  <2>7. ToSet(stats2.calls) = Entries(S \cup {p})
    BY <1>2, <2>1, <2>3, <2>5
  <2> QED
    BY <2>1, <2>2, <2>4, <2>6, <2>7, Zenon DEF Balanced, stats2, Entries
<1> QED
  BY <1>4, <1>5

\* What is not charged yet does not matter to the balance.
LEMMA OtherCosts ==
  ASSUME NEW stats, NEW S, NEW cost, NEW cost2, \A p \in S : cost2[p] = cost[p],
         Balanced(stats, cost, S)
  PROVE  Balanced(stats, cost2, S)
<1>1. Charges(cost2, S) = Charges(cost, S)
  BY DEF Charges
<1>2. {[purpose |-> p, tokens |-> cost2[p]] : p \in {q \in S : cost2[q] # Unreported}}
        = {[purpose |-> p, tokens |-> cost[p]] : p \in {q \in S : cost[q] # Unreported}}
  OBVIOUS
<1> QED
  BY <1>1, <1>2, Zenon DEF Balanced

Costs == [p \in Purposes |-> Cost(p)]
Preamble == {"preprocess", "classify_intent", "translate"}
Early == {"preprocess", "parallel", "documents", "web", "generate"}
Stages == Early \cup {"streaming", "finishing", "answered", "failed"}

\* What has been charged for when the search is at its stage.
Settled ==
  CASE stage = "preprocess" -> {}
    [] stage = "parallel" -> {"preprocess"}
    [] stage = "answered" -> Purposes
    [] OTHER -> Preamble

IsReply(reply) == reply = Failed \/ (Replied(reply) /\ reply.tokens \in Nat)

UsageInv ==
  /\ stage \in Stages
  /\ heard = [p \in Purposes |-> heard[p]]
  /\ \A p \in Purposes : heard[p] = NotAsked \/ IsReply(heard[p])
  /\ stage = "preprocess" => \A p \in Purposes : heard[p] = NotAsked
  /\ stage \in Early => heard["generate"] = NotAsked /\ heard["generate_stream"] = NotAsked
  /\ stage \in {"streaming", "finishing"} => heard["generate"] = NotAsked
  /\ stage \notin {"answered", "failed"} => streamed.tokens = Cost("generate_stream")
  /\ stage # "failed" => Balanced(spent, Costs, Settled)
  /\ stage = "answered" => response.usage = spent

\* No reply is no answer, and costs nothing.
LEMMA NoAnswer == ~Replied(NotAsked) /\ ~Replied(Failed)
BY DEF Replied, NotAsked, Failed

LEMMA CostsAreNumbers ==
  ASSUME UsageInv
  PROVE  /\ Costs \in [Purposes -> Nat]
         /\ \A p \in Purposes : Costs[p] = Cost(p) /\ (heard[p] = NotAsked => Costs[p] = Unreported)
<1>1. \A p \in Purposes : heard[p] = NotAsked \/ heard[p] = Failed => Cost(p) = 0
  BY NoAnswer, Zenon DEF Cost
<1>2. \A p \in Purposes : Cost(p) \in Nat
  BY <1>1 DEF UsageInv, IsReply, Cost
<1> QED
  BY <1>1, <1>2 DEF Costs, Unreported

\* Every reply of a call is one.
LEMMA RepliesAre ==
  ASSUME NEW reply \in PreprocessReplies \cup ClassifyReplies \cup TranslateReplies \cup GenerateReplies
  PROVE  IsReply(reply)
<1>1. Usages \subseteq Nat
  BY AnswerAssumption, Zenon
<1>2. \/ reply = Failed
      \/ reply.kind \in {"text", "malformed", "parsed"} /\ reply.tokens \in Usages
  BY DEF PreprocessReplies, ClassifyReplies, TranslateReplies, GenerateReplies
<1> QED
  BY <1>1, <1>2 DEF IsReply, Replied

\* A reply changes the cost of its purpose and no other.
LEMMA Hearing ==
  ASSUME UsageInv, NEW p \in Purposes, NEW reply, IsReply(reply), Hear(p, reply)
  PROVE  /\ heard' = [q \in Purposes |-> heard'[q]] /\ heard'[p] = reply
         /\ \A q \in Purposes : heard'[q] = NotAsked \/ IsReply(heard'[q])
         /\ \A q \in Purposes \ {p} : heard'[q] = heard[q] /\ Cost(q)' = Cost(q)
         /\ Costs' \in [Purposes -> Nat]
         /\ \A q \in Purposes : Costs'[q] = Cost(q)'
         /\ \A q \in Purposes \ {p} : Costs'[q] = Costs[q]
<1>1. /\ heard' = [q \in Purposes |-> heard'[q]] /\ heard'[p] = reply
      /\ \A q \in Purposes \ {p} : heard'[q] = heard[q]
  BY DEF UsageInv, Hear
<1>2. \A q \in Purposes : heard'[q] = NotAsked \/ IsReply(heard'[q])
  BY <1>1 DEF UsageInv
<1>3. \A q \in Purposes \ {p} : Cost(q)' = Cost(q)
  BY <1>1 DEF Cost
<1>4. \A q \in Purposes : Costs'[q] = Cost(q)' /\ Costs[q] = Cost(q)
  BY DEF Costs
<1>5. Costs' \in [Purposes -> Nat]
  <2>1. \A q \in Purposes : Cost(q)' \in Nat
    <3>1. \A q \in Purposes : heard'[q] = NotAsked \/ heard'[q] = Failed => Cost(q)' = 0
      BY NoAnswer, Zenon DEF Cost
    <3> QED
      BY <1>2, <3>1 DEF IsReply, Cost
  <2> QED
    BY <2>1 DEF Costs
<1> QED
  BY <1>1, <1>2, <1>3, <1>4, <1>5

\* The entry of a reply is its cost.
LEMMA ChargedIsCost ==
  ASSUME NEW p \in Purposes, NEW stats
  PROVE  Charged(stats, p) = Recorded(stats, p, Costs'[p])
BY DEF Charged, Costs, Cost, Recorded, Unreported

LEMMA FreeOfCharge ==
  ASSUME NEW cost \in [Purposes -> Nat], NEW S \in SUBSET Purposes, NEW p \in Purposes \ S,
         NEW stats, Balanced(stats, cost, S), cost[p] = Unreported
  PROVE  Balanced(stats, cost, S \cup {p})
<1>1. Recorded(stats, p, cost[p]) = stats
  BY DEF Recorded
<1> QED
  BY <1>1, RecordedBalances

LEMMA PurposesAre ==
  /\ "preprocess" \in Purposes /\ "classify_intent" \in Purposes /\ "translate" \in Purposes
  /\ "generate" \in Purposes /\ "generate_stream" \in Purposes
  /\ {"preprocess"} \in SUBSET Purposes /\ Preamble \in SUBSET Purposes
  /\ Preamble = ({"preprocess"} \cup {"classify_intent"}) \cup {"translate"}
  /\ Purposes = (Preamble \cup {"generate"}) \cup {"generate_stream"}
BY DEF Purposes, Preamble

\* A step that neither asks a model nor writes anything down.
LEMMA QuietStep ==
  ASSUME UsageInv, UNCHANGED <<heard, spent, response>>, streamed'.tokens = streamed.tokens,
         \/ stage \in {"documents", "web"} /\ stage' \in {"web", "generate"}
         \/ stage \in {"generate", "streaming"} /\ stage' \in {"streaming", "finishing", "failed"}
         \/ stage' = stage
  PROVE  UsageInv'
<1>1. stage' \in Stages /\ (stage' = "failed" \/ Settled' = Settled)
  BY DEF UsageInv, Stages, Early, Settled
<1>2. Costs' = Costs /\ Cost("generate_stream")' = Cost("generate_stream")
  BY DEF Costs, Cost
<1>3. stage' # "failed" => Balanced(spent, Costs, Settled)'
  <2> SUFFICES ASSUME stage' # "failed" PROVE Balanced(spent', Costs', Settled')
    OBVIOUS
  <2>1. stage # "failed"
    OBVIOUS
  <2> QED
    BY <1>1, <1>2, <2>1 DEF UsageInv
<1>4. /\ heard' = [p \in Purposes |-> heard'[p]]
      /\ \A p \in Purposes : heard'[p] = NotAsked \/ IsReply(heard'[p])
  BY DEF UsageInv
<1>5. /\ stage' = "preprocess" => \A p \in Purposes : heard'[p] = NotAsked
      /\ stage' \in Early => heard'["generate"] = NotAsked /\ heard'["generate_stream"] = NotAsked
      /\ stage' \in {"streaming", "finishing"} => heard'["generate"] = NotAsked
      /\ stage' = "answered" => response'.usage = spent'
  BY DEF UsageInv, Early
<1>6. stage' \notin {"answered", "failed"} => streamed'.tokens = Cost("generate_stream")'
  BY <1>2 DEF UsageInv
<1> QED
  BY <1>1, <1>3, <1>4, <1>5, <1>6 DEF UsageInv

\* The merged call: its entry, and when it answers none for the pair.
LEMMA PreprocessKeeps ==
  ASSUME UsageInv, NEW reply \in PreprocessReplies, Preprocess(reply)
  PROVE  UsageInv'
<1> DEFINE p == "preprocess"
<1>1. IsReply(reply) /\ Hear(p, reply) /\ p \in Purposes
  BY RepliesAre, PurposesAre DEF Preprocess
<1>2. /\ heard' = [q \in Purposes |-> heard'[q]]
      /\ \A q \in Purposes : heard'[q] = NotAsked \/ IsReply(heard'[q])
      /\ \A q \in Purposes \ {p} : heard'[q] = heard[q] /\ Cost(q)' = Cost(q)
      /\ Costs' \in [Purposes -> Nat]
      /\ \A q \in Purposes \ {p} : Costs'[q] = Costs[q]
  BY <1>1, Hearing
<1>3. stage = "preprocess" /\ stage' \in {"parallel", "documents"} /\ Settled = {}
  BY DEF Preprocess, Settled
<1>4. \A q \in Purposes \ {p} : heard'[q] = NotAsked /\ Costs'[q] = Unreported
  BY <1>2, <1>3, CostsAreNumbers DEF UsageInv
<1>5. Balanced(spent', Costs', {p})
  <2>1. Balanced(spent, Costs', {})
    BY <1>3, OtherCosts DEF UsageInv
  <2>2. Balanced(Recorded(spent, p, Costs'[p]), Costs', {} \cup {p})
    BY <1>1, <1>2, <2>1, RecordedBalances
  <2>3. spent' = Recorded(spent, p, Costs'[p])
    BY <1>1, ChargedIsCost, Zenon DEF Preprocess
  <2>4. {} \cup {p} = {p}
    OBVIOUS
  <2> QED
    BY <2>2, <2>3, <2>4, Zenon
<1>6. Balanced(spent', Costs', Preamble)
  <2>1. Balanced(spent', Costs', {p} \cup {"classify_intent"})
    BY <1>1, <1>2, <1>4, <1>5, PurposesAre, FreeOfCharge
  <2>2. Balanced(spent', Costs', ({p} \cup {"classify_intent"}) \cup {"translate"})
    BY <1>1, <1>2, <1>4, <2>1, PurposesAre, FreeOfCharge
  <2> QED
    BY <2>2, PurposesAre, Zenon
<1>7. Balanced(spent', Costs', Settled')
  <2>1. Settled' = IF stage' = "parallel" THEN {p} ELSE Preamble
    BY <1>3 DEF Settled
  <2> QED
    BY <1>5, <1>6, <2>1
<1>8. heard'["generate"] = NotAsked /\ heard'["generate_stream"] = NotAsked
  BY <1>4, PurposesAre
<1>9. streamed'.tokens = Cost("generate_stream")'
  <2>1. streamed' = streamed /\ Cost("generate_stream")' = Cost("generate_stream")
    BY <1>2, PurposesAre DEF Preprocess
  <2> QED
    BY <1>3, <2>1 DEF UsageInv
<1> QED
  BY <1>2, <1>3, <1>7, <1>8, <1>9 DEF UsageInv, Stages, Early

\* A call of the pair is not charged before both have answered.
LEMMA PairKeeps ==
  ASSUME UsageInv,
         \/ \E reply \in ClassifyReplies : Classify(reply)
         \/ \E reply \in TranslateReplies : Translate(reply)
  PROVE  UsageInv'
<1>1. PICK p \in {"classify_intent", "translate"} :
        \E reply : IsReply(reply) /\ Hear(p, reply)
  BY RepliesAre, Zenon DEF Classify, Translate
<1>2. PICK reply : IsReply(reply) /\ Hear(p, reply)
  BY <1>1
<1>3. /\ heard' = [q \in Purposes |-> heard'[q]]
      /\ \A q \in Purposes : heard'[q] = NotAsked \/ IsReply(heard'[q])
      /\ \A q \in Purposes \ {p} : heard'[q] = heard[q] /\ Cost(q)' = Cost(q)
      /\ \A q \in Purposes \ {p} : Costs'[q] = Costs[q]
  BY <1>2, PurposesAre, Hearing
<1>4. stage = "parallel" /\ stage' = "parallel" /\ UNCHANGED <<spent, streamed>>
  BY DEF Classify, Translate
<1>5. Settled = {"preprocess"} /\ Settled' = {"preprocess"}
  BY <1>4 DEF Settled
<1>6. Balanced(spent', Costs', Settled')
  <2>1. \A q \in {"preprocess"} : Costs'[q] = Costs[q]
    BY <1>3, PurposesAre
  <2> QED
    BY <1>4, <1>5, <2>1, OtherCosts DEF UsageInv
<1>7. /\ heard'["generate"] = NotAsked /\ heard'["generate_stream"] = NotAsked
      /\ streamed'.tokens = Cost("generate_stream")'
  <2>1. "generate" \in Purposes \ {p} /\ "generate_stream" \in Purposes \ {p}
    BY PurposesAre
  <2>2. heard["generate"] = NotAsked /\ heard["generate_stream"] = NotAsked
        /\ streamed.tokens = Cost("generate_stream")
    BY <1>4 DEF UsageInv, Early
  <2> QED
    BY <1>3, <1>4, <2>1, <2>2
<1> QED
  BY <1>3, <1>4, <1>6, <1>7 DEF UsageInv, Stages, Early

\* Both of the pair are charged, whichever failed.
LEMMA JoinKeeps ==
  ASSUME UsageInv, Join
  PROVE  UsageInv'
<1>1. UNCHANGED <<heard, streamed>> /\ stage = "parallel" /\ stage' = "documents"
  BY DEF Join
<1>2. Costs' = Costs /\ Cost("generate_stream")' = Cost("generate_stream") /\ Costs \in [Purposes -> Nat]
  BY <1>1, CostsAreNumbers DEF Costs, Cost
<1>3. Settled = {"preprocess"} /\ Settled' = Preamble
  BY <1>1 DEF Settled
<1> DEFINE one == Recorded(spent, "classify_intent", Costs'["classify_intent"])
<1>4. spent' = Recorded(one, "translate", Costs'["translate"])
  BY ChargedIsCost, PurposesAre, Zenon DEF Join, PairCharged
<1>5. Balanced(one, Costs', {"preprocess"} \cup {"classify_intent"})
  <2>1. Balanced(spent, Costs', {"preprocess"})
    BY <1>1, <1>2, <1>3 DEF UsageInv
  <2> QED
    BY <1>2, <2>1, PurposesAre, RecordedBalances
<1> HIDE DEF one
<1>6. Balanced(spent', Costs', ({"preprocess"} \cup {"classify_intent"}) \cup {"translate"})
  BY <1>2, <1>4, <1>5, PurposesAre, RecordedBalances
<1>7. Balanced(spent', Costs', Settled')
  BY <1>3, <1>6, PurposesAre, Zenon
<1> QED
  BY <1>1, <1>2, <1>7 DEF UsageInv, Stages, Early

\* A plain answer is charged for its generation, and no stream was asked.
LEMMA GenerateKeeps ==
  ASSUME UsageInv, NEW reply \in GenerateReplies, Generate(reply)
  PROVE  UsageInv'
<1> DEFINE p == "generate"
<1>1. IsReply(reply) /\ Hear(p, reply) /\ p \in Purposes
  BY RepliesAre, PurposesAre DEF Generate
<1>2. /\ heard' = [q \in Purposes |-> heard'[q]]
      /\ \A q \in Purposes : heard'[q] = NotAsked \/ IsReply(heard'[q])
      /\ Costs' \in [Purposes -> Nat]
      /\ \A q \in Purposes \ {p} : Costs'[q] = Costs[q]
  BY <1>1, Hearing
<1>3. stage = "generate" /\ stage' \in {"failed", "answered"} /\ Settled = Preamble
  BY DEF Generate, Settled
<1>4. CASE stage' = "failed"
  BY <1>2, <1>4 DEF UsageInv, Stages, Early
<1>5. CASE stage' = "answered"
  <2>1. Balanced(spent, Costs', Preamble)
    <3>1. \A q \in Preamble : Costs'[q] = Costs[q]
      BY <1>2, PurposesAre DEF Preamble
    <3> QED
      BY <1>3, <3>1, OtherCosts DEF UsageInv
  <2>2. spent' = Recorded(spent, p, Costs'[p])
    BY <1>1, ChargedIsCost, Zenon DEF Generate
  <2>3. Balanced(spent', Costs', Preamble \cup {p})
    BY <1>1, <1>2, <2>1, <2>2, PurposesAre, RecordedBalances DEF Preamble
  <2>4. Costs'["generate_stream"] = Unreported
    <3>1. heard["generate_stream"] = NotAsked
      BY <1>3 DEF UsageInv, Early
    <3> QED
      BY <1>2, <3>1, CostsAreNumbers, PurposesAre
  <2>5. Balanced(spent', Costs', (Preamble \cup {p}) \cup {"generate_stream"})
    <3>1. "generate_stream" \in Purposes \ (Preamble \cup {p}) /\ Preamble \cup {p} \in SUBSET Purposes
      BY PurposesAre DEF Preamble
    <3> QED
      BY <1>2, <2>3, <2>4, <3>1, FreeOfCharge
  <2>6. Settled' = Purposes
    BY <1>5 DEF Settled
  <2>7. Balanced(spent', Costs', Settled')
    BY <2>5, <2>6, PurposesAre, Zenon
  <2>8. response'.usage = spent'
    BY <1>3, <1>5 DEF Generate, SearchResponse
  <2> QED
    BY <1>2, <1>5, <2>7, <2>8 DEF UsageInv, Stages, Early
<1> QED
  BY <1>3, <1>4, <1>5

\* The handler has the usage the stream reported last.
LEMMA StreamKeeps ==
  ASSUME UsageInv, NEW event \in StreamEvents, Stream(event)
  PROVE  UsageInv'
<1> DEFINE p == "generate_stream"
<1>1. /\ stage = "streaming" /\ stage' \in {"streaming", "finishing"} /\ spent' = spent
      /\ Settled = Preamble /\ Settled' = Preamble
  BY DEF Stream, Settled
<1>2. streamed'.tokens = LatestUsage(streamed.tokens, event)
  BY DEF Stream
<1>3. streamed.tokens = Cost(p) /\ heard["generate"] = NotAsked /\ Balanced(spent, Costs, Preamble)
  BY <1>1 DEF UsageInv
<1>4. CASE event.tokens = Unreported
  <2>1. heard' = heard /\ streamed'.tokens = streamed.tokens
    BY <1>2, <1>4 DEF Stream, LatestUsage
  <2>2. Costs' = Costs /\ Cost(p)' = Cost(p)
    BY <2>1 DEF Costs, Cost
  <2>3. Balanced(spent', Costs', Settled')
    BY <1>1, <1>3, <2>2
  <2> QED
    BY <1>1, <1>3, <2>1, <2>2, <2>3 DEF UsageInv, Stages, Early
<1>5. CASE event.tokens # Unreported
  <2> DEFINE reply == [kind |-> "text", tokens |-> event.tokens]
  <2>1. Hear(p, reply) /\ streamed'.tokens = event.tokens
    BY <1>2, <1>5 DEF Stream, LatestUsage
  <2>2. IsReply(reply) /\ Replied(reply) /\ reply.tokens = event.tokens
    <3>1. Usages \subseteq Nat
      BY AnswerAssumption, Zenon
    <3>2. event.tokens \in Nat
      BY <3>1 DEF StreamEvents
    <3> QED
      BY <3>2 DEF IsReply, Replied
  <2> HIDE DEF reply
  <2>3. /\ heard' = [q \in Purposes |-> heard'[q]] /\ heard'[p] = reply
        /\ \A q \in Purposes : heard'[q] = NotAsked \/ IsReply(heard'[q])
        /\ \A q \in Purposes \ {p} : heard'[q] = heard[q] /\ Costs'[q] = Costs[q]
    BY <2>1, <2>2, PurposesAre, Hearing
  <2>4. streamed'.tokens = Cost(p)'
    BY <2>1, <2>2, <2>3 DEF Cost
  <2>5. Balanced(spent', Costs', Settled')
    <3>1. \A q \in Preamble : Costs'[q] = Costs[q]
      BY <2>3, PurposesAre DEF Preamble
    <3> QED
      BY <1>1, <1>3, <3>1, OtherCosts
  <2>6. heard'["generate"] = NotAsked
    BY <1>3, <2>3, PurposesAre
  <2> QED
    BY <1>1, <2>3, <2>4, <2>5, <2>6 DEF UsageInv, Stages, Early
<1> QED
  BY <1>4, <1>5

\* A streamed answer is charged for its stream, once.
LEMMA CompleteKeeps ==
  ASSUME UsageInv, NEW pages, CompleteStream(pages)
  PROVE  UsageInv'
<1> DEFINE p == "generate_stream"
<1>1. stage = "finishing" /\ stage' = "answered" /\ heard' = heard /\ Settled = Preamble
      /\ Settled' = Purposes
  BY DEF CompleteStream, Settled
<1>2. Costs' = Costs /\ Costs \in [Purposes -> Nat] /\ Costs[p] = Cost(p)
      /\ Costs["generate"] = Unreported
  <2>1. heard["generate"] = NotAsked
    BY <1>1 DEF UsageInv
  <2> QED
    BY <1>1, <2>1, CostsAreNumbers, PurposesAre DEF Costs, Cost
<1>3. spent' = Recorded(spent, p, Costs[p])
  BY <1>1, <1>2 DEF CompleteStream, UsageInv
<1>4. Balanced(spent, Costs, Preamble \cup {"generate"})
  <2>1. Balanced(spent, Costs, Preamble) /\ "generate" \in Purposes \ Preamble
    BY <1>1, PurposesAre DEF UsageInv, Preamble
  <2> QED
    BY <1>2, <2>1, PurposesAre, FreeOfCharge
<1>5. Balanced(spent', Costs, (Preamble \cup {"generate"}) \cup {p})
  <2>1. p \in Purposes \ (Preamble \cup {"generate"}) /\ Preamble \cup {"generate"} \in SUBSET Purposes
    BY PurposesAre DEF Preamble
  <2> QED
    BY <1>2, <1>3, <1>4, <2>1, RecordedBalances
<1>6. Balanced(spent', Costs', Settled')
  BY <1>1, <1>2, <1>5, PurposesAre, Zenon
<1>7. response'.usage = spent'
  BY DEF CompleteStream, SearchResponse
<1> QED
  BY <1>1, <1>6, <1>7 DEF UsageInv, Stages, Early

LEMMA NextUsage ==
  ASSUME UsageInv, [AnswerStep]_answerVars
  PROVE  UsageInv'
<1>1. CASE UNCHANGED answerVars
  BY <1>1, QuietStep DEF answerVars
<1>2. CASE \/ \E vector, words \in IndexRankings : Retrieve(vector, words)
           \/ RetrieveFails \/ (\E results \in WebAnswers : WebSearch(results)) \/ NoWeb
           \/ OpenStream \/ StreamBreaks \/ StreamEnds
  <2>1. UNCHANGED <<heard, spent, streamed, response>>
    BY <1>2, Zenon DEF Retrieve, RetrieveFails, WebSearch, NoWeb, OpenStream, StreamBreaks, StreamEnds
  <2>2. \/ stage = "documents" /\ stage' = "web"
        \/ stage = "web" /\ stage' = "generate"
        \/ stage = "generate" /\ stage' = "streaming"
        \/ stage \in {"generate", "streaming"} /\ stage' = "failed"
        \/ stage = "streaming" /\ stage' = "finishing"
    BY <1>2, Zenon DEF Retrieve, RetrieveFails, WebSearch, NoWeb, OpenStream, StreamBreaks, StreamEnds
  <2> QED
    BY <2>1, <2>2, QuietStep
<1>3. CASE UnreadEvent
  BY <1>3, QuietStep DEF UnreadEvent
<1> QED
  BY <1>1, <1>2, <1>3, PreprocessKeeps, PairKeeps, JoinKeeps, GenerateKeeps, StreamKeeps, CompleteKeeps,
     Zenon DEF AnswerStep

\* As many calls are listed as were paid for.
LEMMA OneEntryEach ==
  ASSUME NEW stats, NEW cost \in [Purposes -> Nat], Balanced(stats, cost, Purposes)
  PROVE  Len(stats.calls) = Cardinality({p \in Purposes : cost[p] # Unreported})
<1> DEFINE calls == stats.calls
           n == Len(calls)
           paid == {p \in Purposes : cost[p] # Unreported}
           of == [i \in 1 .. n |-> calls[i].purpose]
<1>1. /\ n \in Nat /\ DOMAIN calls = 1 .. n
      /\ \A i, j \in 1 .. n : i # j => calls[i].purpose # calls[j].purpose
      /\ ToSet(calls) = {[purpose |-> p, tokens |-> cost[p]] : p \in paid}
  BY DEF Balanced
<1>2. \A i \in 1 .. n : calls[i].purpose \in paid
  <2> SUFFICES ASSUME NEW i \in 1 .. n PROVE calls[i].purpose \in paid
    OBVIOUS
  <2>1. calls[i] \in ToSet(calls)
    BY <1>1 DEF ToSet
  <2> HIDE DEF paid, calls, n
  <2>2. calls[i] \in {[purpose |-> p, tokens |-> cost[p]] : p \in paid}
    BY <1>1, <2>1
  <2> QED
    BY <2>2
<1>3. \A p \in paid : \E i \in 1 .. n : calls[i].purpose = p
  <2> SUFFICES ASSUME NEW p \in paid PROVE \E i \in 1 .. n : calls[i].purpose = p
    OBVIOUS
  <2> HIDE DEF paid, calls, n
  <2>1. [purpose |-> p, tokens |-> cost[p]] \in ToSet(calls)
    BY <1>1
  <2>2. PICK i \in 1 .. n : calls[i] = [purpose |-> p, tokens |-> cost[p]]
    BY <1>1, <2>1, Zenon DEF ToSet
  <2> QED
    BY <2>2
<1> HIDE DEF calls, n, paid
<1>4. of \in [1 .. n -> paid] /\ \A i \in 1 .. n : of[i] = calls[i].purpose
  BY <1>2
<1> HIDE DEF of
<1>5. of \in Surjection(1 .. n, paid)
  BY <1>3, <1>4, Zenon DEF Surjection
<1>6. of \in Injection(1 .. n, paid)
  BY <1>1, <1>4 DEF Injection, IsInjective
<1>7. IsFiniteSet(1 .. n) /\ Cardinality(1 .. n) = n
  <2>1. 1 \in Int /\ n \in Int /\ (IF 1 > n THEN 0 ELSE n - 1 + 1) = n
    BY <1>1
  <2> QED
    BY <2>1, FS_Interval
<1>8. Cardinality(paid) = n
  BY <1>5, <1>6, <1>7, FS_Surjection
<1> QED
  BY <1>8 DEF calls, n, paid

\* Every call that reports its usage is accounted for in the answer, once and with
\* what it last reported, and nothing else is: also when the merged call failed
\* before it or the other call of the pair failed beside it, and however many
\* events of a stream report usage (types/usage.rs, brain/composite.rs).
THEOREM EveryCallIsAccounted == AnswerSpec => []UsageAccounted
<1>1. AnswerInit => UsageInv
  <2> SUFFICES ASSUME AnswerInit PROVE UsageInv
    OBVIOUS
  <2>1. heard = [p \in Purposes |-> NotAsked] /\ stage \in {"preprocess", "parallel"}
        /\ streamed.tokens = Unreported /\ spent = [calls |-> <<>>, total |-> 0]
    BY DEF AnswerInit
  <2>2. \A p \in Purposes : heard[p] = NotAsked /\ Cost(p) = 0 /\ Costs[p] = 0
    BY <2>1, NoAnswer DEF Cost, Costs
  <2>3. Balanced(spent, Costs, Settled)
    <3>1. {q \in Settled : Costs[q] # Unreported} = {}
      BY <2>1, <2>2, PurposesAre DEF Settled, Unreported
    <3>2. Charges(Costs, Settled) = [p \in Purposes |-> 0]
      BY <2>2 DEF Charges
    <3>3. Total([p \in Purposes |-> 0]) = 0
      BY PurposesAre DEF Total
    <3>4. /\ spent.calls = <<>> /\ spent.total = 0 /\ ToSet(<<>>) = {}
          /\ spent.calls \in Seq([purpose : Purposes, tokens : Nat]) /\ Len(spent.calls) = 0
      BY <2>1 DEF ToSet
    <3>5. ToSet(spent.calls) =
            {[purpose |-> p, tokens |-> Costs[p]] : p \in {q \in Settled : Costs[q] # Unreported}}
      BY <3>1, <3>4
    <3>6. \A i \in 1 .. Len(spent.calls) : FALSE
      BY <3>4
    <3>7. spent.total = Total(Charges(Costs, Settled))
      BY <3>2, <3>3, <3>4
    <3> QED
      BY <3>4, <3>5, <3>6, <3>7, Zenon DEF Balanced
  <2>4. streamed.tokens = Cost("generate_stream")
    BY <2>1, <2>2, PurposesAre DEF Unreported
  <2> QED
    BY <2>1, <2>2, <2>3, <2>4, PurposesAre DEF UsageInv, Stages, Early
<1>2. UsageInv => UsageAccounted
  <2> SUFFICES ASSUME UsageInv, stage = "answered" PROVE UsageAccounted
    BY Zenon DEF UsageAccounted
  <2> DEFINE paid == {p \in Purposes : Replied(heard[p]) /\ heard[p].tokens # Unreported}
  <2>1. response.usage = spent /\ Balanced(spent, Costs, Purposes)
    BY DEF UsageInv, Settled
  <2>2. paid = {p \in Purposes : Costs[p] # Unreported}
    BY DEF Costs, Cost, Unreported
  <2>3. \A p \in paid : Costs[p] = heard[p].tokens
    BY DEF Costs, Cost
  <2> HIDE DEF paid
  <2>4. Costs \in [Purposes -> Nat]
    BY CostsAreNumbers
  <2>5. Len(spent.calls) = Cardinality(paid)
    BY <2>1, <2>2, <2>4, OneEntryEach
  <2>6. ToSet(spent.calls) = {[purpose |-> p, tokens |-> heard[p].tokens] : p \in paid}
    <3>1. ToSet(spent.calls) = {[purpose |-> p, tokens |-> Costs[p]] : p \in paid}
      BY <2>1, <2>2, Zenon DEF Balanced
    <3> QED
      BY <2>3, <3>1
  <2>7. spent.total = Cost("preprocess") + Cost("classify_intent") + Cost("translate")
                        + Cost("generate") + Cost("generate_stream")
    <3>1. spent.total = Total(Charges(Costs, Purposes))
      BY <2>1 DEF Balanced
    <3>2. \A p \in Purposes : Charges(Costs, Purposes)[p] = Cost(p)
      BY DEF Charges, Costs
    <3> QED
      BY <3>1, <3>2, PurposesAre DEF Total
  <2> QED
    BY <2>1, <2>5, <2>6, <2>7, Zenon DEF UsageAccounted, paid
<1> QED
  BY <1>1, <1>2, NextUsage, PTL DEF AnswerSpec

-----------------------------------------------------------------------------
(***************************************************************************)
(* Sources: the first occurrence of every page.                            *)
(***************************************************************************)

\* A set of lengths that starts at 0 and never stops short reaches all of them.
LEMMA ReachesAll ==
  ASSUME NEW n \in Nat, NEW S \in SUBSET (0 .. n), 0 \in S,
         \A k \in 1 .. n : k - 1 \in S => k \in S
  PROVE  S = 0 .. n
<1> DEFINE Rest == (0 .. n) \ S
<1>1. ASSUME Rest # {} PROVE FALSE
  <2>1. Rest \in SUBSET Nat
    OBVIOUS
  <2> HIDE DEF Rest
  <2>2. PICK k \in Rest : \A j \in Rest : <<j, k>> \notin OpToRel(<, Nat)
    BY <1>1, <2>1, NatLessThanWellFounded, WFMin
  <2>3. \A j \in Nat : <<j, k>> \notin OpToRel(<, Nat) => k <= j
    BY <2>1 DEF OpToRel
  <2>4. k \in 1 .. n
    BY DEF Rest
  <2>5. k - 1 \notin Rest
    <3>1. k \in Nat /\ k - 1 \in Nat /\ ~(k <= k - 1)
      BY <2>4
    <3> QED
      BY <2>2, <2>3, <3>1, Zenon
  <2> QED
    BY <2>4, <2>5 DEF Rest
<1> QED
  BY <1>1

\* The recursion of Distinct defines a function.
LEMMA DistinctIsDefined ==
  ASSUME NEW T, NEW pages \in Seq(T)
  PROVE  \E f : f = [k \in 0 .. Len(pages) |->
                       IF k = 0 THEN <<>> ELSE Inserted(f[k - 1], pages[k])]
<1> DEFINE n == Len(pages)
           Upto(f, m) == /\ f = [k \in 0 .. m |-> f[k]] /\ f[0] = <<>>
                         /\ \A k \in 1 .. m : f[k] = Inserted(f[k - 1], pages[k])
           S == {m \in 0 .. n : \E f : Upto(f, m)}
<1>1. n \in Nat
  OBVIOUS
<1> HIDE DEF n
<1>2. 0 \in S
  <2>1. Upto([k \in 0 .. 0 |-> <<>>], 0)
    OBVIOUS
  <2> HIDE DEF Upto
  <2> QED
    BY <1>1, <2>1
<1>3. ASSUME NEW m \in 1 .. n, m - 1 \in S PROVE m \in S
  <2>1. PICK f : Upto(f, m - 1)
    BY <1>3
  <2> DEFINE g == [k \in 0 .. m |-> IF k = m THEN Inserted(f[m - 1], pages[m]) ELSE f[k]]
  <2>2. m \in Nat /\ m >= 1
    BY <1>1
  <2>3. \A k \in 0 .. m : k # m => k \in 0 .. m - 1 /\ g[k] = f[k]
    BY <2>2
  <2>4. g[m] = Inserted(f[m - 1], pages[m]) /\ g[m - 1] = f[m - 1] /\ g[0] = f[0]
    BY <2>2
  <2>5. \A k \in 1 .. m : k # m => k \in 1 .. m - 1 /\ g[k] = f[k] /\ g[k - 1] = f[k - 1]
    BY <2>2
  <2>6. g = [k \in 0 .. m |-> g[k]]
    OBVIOUS
  <2> HIDE DEF g
  <2>7. Upto(g, m)
    BY <2>1, <2>4, <2>5, <2>6
  <2> HIDE DEF Upto
  <2> QED
    BY <2>7
<1>4. S = 0 .. n
  <2> HIDE DEF S
  <2>1. S \in SUBSET (0 .. n)
    BY DEF S
  <2> QED
    BY <1>1, <1>2, <1>3, <2>1, ReachesAll
<1>5. PICK f : Upto(f, n)
  <2>1. n \in S
    BY <1>1, <1>4
  <2> QED
    BY <2>1
<1>6. f = [k \in 0 .. n |-> IF k = 0 THEN <<>> ELSE Inserted(f[k - 1], pages[k])]
  <2>1. \A k \in 0 .. n : f[k] = IF k = 0 THEN <<>> ELSE Inserted(f[k - 1], pages[k])
    <3>1. \A k \in 0 .. n : k = 0 \/ k \in 1 .. n
      BY <1>1
    <3> QED
      BY <1>5, <3>1
  <2>2. f = [k \in 0 .. n |-> f[k]]
    BY <1>5
  <2> HIDE DEF Upto
  <2> QED
    BY <2>1, <2>2
<1> QED
  BY <1>6 DEF n

\* Inserting a page.
LEMMA InsertedOnce ==
  ASSUME NEW T, NEW seen \in Seq(T), IsInjective(seen), NEW page \in T
  PROVE  /\ Inserted(seen, page) \in Seq(T) /\ IsInjective(Inserted(seen, page))
         /\ ToSet(Inserted(seen, page)) = ToSet(seen) \cup ({page} \ {NoPage})
<1>1. /\ Len(seen) \in Nat /\ DOMAIN seen = 1 .. Len(seen)
      /\ Contains(seen, page) <=> page \in ToSet(seen)
  BY DEF Contains, ToSet
<1>2. CASE page = NoPage \/ Contains(seen, page)
  <2>1. Inserted(seen, page) = seen
    BY <1>2 DEF Inserted
  <2> QED
    BY <1>1, <1>2, <2>1
<1>3. CASE page # NoPage /\ ~Contains(seen, page)
  <2> DEFINE s == Append(seen, page)
  <2>1. Inserted(seen, page) = s
    BY <1>3 DEF Inserted
  <2>2. /\ s \in Seq(T) /\ DOMAIN s = 1 .. Len(seen) + 1
        /\ \A i \in 1 .. Len(seen) : s[i] = seen[i]
        /\ s[Len(seen) + 1] = page
    BY <1>1
  <2> HIDE DEF s
  <2>3. \A i \in 1 .. Len(seen) + 1 : i \in 1 .. Len(seen) \/ i = Len(seen) + 1
    BY <1>1
  <2>4. /\ \A i \in 1 .. Len(seen) : i \in 1 .. Len(seen) + 1
        /\ Len(seen) + 1 \in 1 .. Len(seen) + 1
    BY <1>1
  <2>5. ToSet(s) = ToSet(seen) \cup {page}
    BY <1>1, <2>2, <2>3, <2>4 DEF ToSet
  <2>6. \A i \in 1 .. Len(seen) : seen[i] # page
    BY <1>1, <1>3 DEF ToSet
  <2>7. IsInjective(s)
    BY <1>1, <2>2, <2>3, <2>6 DEF IsInjective
  <2> QED
    BY <1>3, <2>1, <2>2, <2>5, <2>7
<1> QED
  BY <1>2, <1>3

\* Distinct lists every page once.
LEMMA DistinctLists ==
  ASSUME NEW T, NEW pages \in Seq(T)
  PROVE  /\ Distinct(pages) \in Seq(T) /\ IsInjective(Distinct(pages))
         /\ ToSet(Distinct(pages)) = ToSet(pages) \ {NoPage}
<1> DEFINE n == Len(pages)
           Rec(f) == f = [k \in 0 .. Len(pages) |->
                            IF k = 0 THEN <<>> ELSE Inserted(f[k - 1], pages[k])]
           upTo == CHOOSE f : Rec(f)
           Read(m) == {pages[i] : i \in 1 .. m}
           S == {m \in 0 .. n : /\ upTo[m] \in Seq(T) /\ IsInjective(upTo[m])
                                /\ ToSet(upTo[m]) = Read(m) \ {NoPage}}
<1>1. n \in Nat /\ \A i \in 1 .. n : pages[i] \in T
  OBVIOUS
<1>2. Distinct(pages) = upTo[n]
  BY Zenon DEF Distinct
<1>3. Rec(upTo)
  <2>1. \E f : Rec(f)
    BY DistinctIsDefined
  <2> HIDE DEF Rec
  <2> QED
    BY <2>1
<1>4. /\ upTo[0] = <<>>
      /\ \A k \in 1 .. n : upTo[k] = Inserted(upTo[k - 1], pages[k])
  <2> HIDE DEF upTo
  <2>1. upTo = [k \in 0 .. n |-> IF k = 0 THEN <<>> ELSE Inserted(upTo[k - 1], pages[k])]
    BY <1>3
  <2> HIDE DEF n, Rec
  <2>2. 0 \in 0 .. n /\ \A k \in 1 .. n : k \in 0 .. n /\ k # 0
    BY <1>1
  <2> QED
    BY <2>1, <2>2
<1> HIDE DEF upTo, Rec, n, Read
<1>5. 0 \in S
  <2>1. Read(0) = {}
    BY DEF Read
  <2>2. <<>> \in Seq(T) /\ IsInjective(<<>>) /\ ToSet(<<>>) = {}
    BY DEF IsInjective, ToSet
  <2>3. upTo[0] = <<>>
    BY <1>4
  <2>4. ToSet(upTo[0]) = Read(0) \ {NoPage}
    BY <2>1, <2>2, <2>3
  <2>5. 0 \in 0 .. n
    BY <1>1
  <2>6. upTo[0] \in Seq(T) /\ IsInjective(upTo[0])
    BY <2>2, <2>3
  <2> QED
    BY <2>4, <2>5, <2>6
<1>6. ASSUME NEW k \in 1 .. n, k - 1 \in S PROVE k \in S
  <2> DEFINE before == upTo[k - 1]
  <2>1. upTo[k] = Inserted(before, pages[k]) /\ pages[k] \in T
    BY <1>1, <1>4
  <2>2. /\ before \in Seq(T) /\ IsInjective(before)
        /\ ToSet(before) = Read(k - 1) \ {NoPage}
    BY <1>6
  <2> HIDE DEF S, before
  <2>3. /\ Inserted(before, pages[k]) \in Seq(T) /\ IsInjective(Inserted(before, pages[k]))
        /\ ToSet(Inserted(before, pages[k])) = ToSet(before) \cup ({pages[k]} \ {NoPage})
    <3>1. ASSUME NEW seen \in Seq(T), IsInjective(seen), NEW page \in T
          PROVE  /\ Inserted(seen, page) \in Seq(T) /\ IsInjective(Inserted(seen, page))
                 /\ ToSet(Inserted(seen, page)) = ToSet(seen) \cup ({page} \ {NoPage})
      BY <3>1, InsertedOnce
    <3> HIDE DEF n, Read
    <3> QED
      BY <2>1, <2>2, <3>1, Zenon
  <2>4. Read(k) = Read(k - 1) \cup {pages[k]}
    <3>1. \A i : i \in 1 .. k <=> (i \in 1 .. k - 1 \/ i = k)
      BY <1>1
    <3> QED
      BY <3>1 DEF Read
  <2>5. ToSet(upTo[k]) = Read(k) \ {NoPage}
    BY <2>1, <2>2, <2>3, <2>4
  <2>6. k \in 0 .. n
    BY <1>1
  <2> QED
    BY <2>1, <2>3, <2>5, <2>6 DEF S
<1>7. S = 0 .. n
  <2>1. S \in SUBSET (0 .. n)
    OBVIOUS
  <2> HIDE DEF S
  <2> QED
    BY <1>1, <1>5, <1>6, <2>1, ReachesAll
<1>8. n \in S
  BY <1>1, <1>7
<1>9. Read(n) = ToSet(pages)
  BY DEF Read, ToSet, n
<1> QED
  BY <1>2, <1>8, <1>9

Pages == {PageOf[c] : c \in Chunks} \cup DOMAIN FinalPage \cup {FinalPage[l] : l \in DOMAIN FinalPage}

\* What two lists hold together.
LEMMA Joined ==
  ASSUME NEW T, NEW s \in Seq(T), NEW t \in Seq(T)
  PROVE  s \o t \in Seq(T) /\ ToSet(s \o t) = ToSet(s) \cup ToSet(t)
<1>1. /\ s \o t \in Seq(T) /\ Len(s) \in Nat /\ Len(t) \in Nat
      /\ DOMAIN s = 1 .. Len(s) /\ DOMAIN t = 1 .. Len(t)
      /\ DOMAIN (s \o t) = 1 .. Len(s) + Len(t)
      /\ \A i \in 1 .. Len(s) : (s \o t)[i] = s[i]
      /\ \A i \in 1 .. Len(t) : (s \o t)[Len(s) + i] = t[i]
  OBVIOUS
<1> DEFINE st == s \o t
<1> HIDE DEF st
<1>2. \A i \in 1 .. Len(s) + Len(t) :
        i \in 1 .. Len(s) \/ \E j \in 1 .. Len(t) : i = Len(s) + j
  <2>1. ASSUME NEW i \in 1 .. Len(s) + Len(t), i \notin 1 .. Len(s)
        PROVE  i - Len(s) \in 1 .. Len(t) /\ i = Len(s) + (i - Len(s))
    BY <1>1, <2>1
  <2> QED
    BY <2>1
<1>3. /\ \A i \in 1 .. Len(s) : i \in 1 .. Len(s) + Len(t)
      /\ \A i \in 1 .. Len(t) : Len(s) + i \in 1 .. Len(s) + Len(t)
  BY <1>1
<1>4. /\ DOMAIN st = 1 .. Len(s) + Len(t)
      /\ \A i \in 1 .. Len(s) : st[i] = s[i]
      /\ \A i \in 1 .. Len(t) : st[Len(s) + i] = t[i]
  BY <1>1 DEF st
<1>5. ToSet(st) \subseteq ToSet(s) \cup ToSet(t)
  <2> SUFFICES ASSUME NEW i \in 1 .. Len(s) + Len(t) PROVE st[i] \in ToSet(s) \cup ToSet(t)
    BY <1>4 DEF ToSet
  <2>1. CASE i \in 1 .. Len(s)
    BY <1>1, <1>4, <2>1 DEF ToSet
  <2>2. ASSUME NEW j \in 1 .. Len(t), i = Len(s) + j PROVE st[i] \in ToSet(t)
    <3>1. st[i] = t[j]
      BY <1>4, <2>2
    <3> QED
      BY <1>1, <3>1 DEF ToSet
  <2> QED
    BY <1>2, <2>1, <2>2
<1>6. ToSet(s) \cup ToSet(t) \subseteq ToSet(st)
  <2>1. ASSUME NEW i \in 1 .. Len(s) PROVE s[i] \in ToSet(st)
    BY <1>3, <1>4 DEF ToSet
  <2>2. ASSUME NEW i \in 1 .. Len(t) PROVE t[i] \in ToSet(st)
    <3>1. Len(s) + i \in DOMAIN st /\ st[Len(s) + i] = t[i]
      BY <1>3, <1>4
    <3> QED
      BY <3>1, Zenon DEF ToSet
  <2> QED
    BY <1>1, <2>1, <2>2 DEF ToSet
<1>7. ToSet(st) = ToSet(s) \cup ToSet(t)
  BY <1>5, <1>6
<1> QED
  BY <1>1, <1>7 DEF st

\* The links and chunks of an answer are ones there are.
SourcesTyped ==
  /\ documents \in Seq(Chunks) /\ hits \in Seq(Chunks)
  /\ streamed.grounding \in Seq(DOMAIN FinalPage)

\* The sources of the cited chunks are their pages.
LEMMA ChunkPages ==
  ASSUME SourcesTyped
  PROVE  /\ ChunkSources \in Seq(Pages)
         /\ ToSet(ChunkSources) = {PageOf[c] : c \in ToSet(Cited)} \ {NoPage}
<1> DEFINE pages == [i \in DOMAIN Cited |-> PageOf[Cited[i]]]
<1>1. Cited \in Seq(Chunks)
  BY DEF SourcesTyped, Cited
<1>2. Len(Cited) \in Nat /\ DOMAIN Cited = 1 .. Len(Cited) /\ \A i \in DOMAIN Cited : Cited[i] \in Chunks
  BY <1>1
<1> HIDE DEF Chunks
<1>3. \A i \in DOMAIN Cited : PageOf[Cited[i]] \in Pages
  BY <1>2 DEF Pages
<1>4. pages \in Seq(Pages)
  BY <1>2, <1>3
<1>5. ToSet(pages) = {PageOf[c] : c \in ToSet(Cited)}
  BY DEF ToSet
<1>6. ChunkSources = Distinct(pages)
  BY Zenon DEF ChunkSources
<1> HIDE DEF pages
<1> QED
  BY <1>4, <1>5, <1>6, DistinctLists

\* A link is resolved to itself or to its page.
LEMMA LinksResolved ==
  ASSUME NEW links \in Seq(DOMAIN FinalPage), NEW pages \in Resolutions(links)
  PROVE  /\ pages \in Seq(Pages)
         /\ ToSet(pages) \subseteq ToSet(links) \cup {FinalPage[l] : l \in ToSet(links)}
<1>1. /\ Len(links) \in Nat /\ DOMAIN links = 1 .. Len(links)
      /\ \A i \in DOMAIN links : links[i] \in DOMAIN FinalPage
  OBVIOUS
<1>2. PICK followed \in SUBSET DOMAIN links :
        pages = [i \in DOMAIN links |-> IF i \in followed THEN FinalPage[links[i]] ELSE links[i]]
  BY DEF Resolutions
<1>3. /\ DOMAIN pages = DOMAIN links
      /\ \A i \in DOMAIN links : pages[i] \in {links[i], FinalPage[links[i]]}
  BY <1>2
<1>4. \A i \in DOMAIN links : pages[i] \in Pages
  BY <1>1, <1>3 DEF Pages
<1>5. pages \in Seq(Pages)
  BY <1>1, <1>2, <1>4
<1>6. ToSet(pages) \subseteq ToSet(links) \cup {FinalPage[l] : l \in ToSet(links)}
  BY <1>3 DEF ToSet
<1> QED
  BY <1>5, <1>6

\* A finished stream lists its sources.
LEMMA CompleteLists ==
  ASSUME SourcesTyped, NEW pages \in Resolutions(streamed.grounding), CompleteStream(pages)
  PROVE  SourcesListed'
<1> DEFINE links == streamed.grounding
           cited == {PageOf[c] : c \in ToSet(Cited)} \ {NoPage}
           sources == MergedSources(links, pages)
<1>1. links \in Seq(DOMAIN FinalPage)
  BY DEF SourcesTyped
<1>2. /\ pages \in Seq(Pages)
      /\ ToSet(pages) \subseteq ToSet(links) \cup {FinalPage[l] : l \in ToSet(links)}
  <2> HIDE DEF links
  <2> QED
    BY <1>1, LinksResolved DEF links
<1>3. ChunkSources \in Seq(Pages) /\ ToSet(ChunkSources) = cited
  BY ChunkPages, Zenon
<1>4. /\ pages \o ChunkSources \in Seq(Pages)
      /\ ToSet(pages \o ChunkSources) = ToSet(pages) \cup cited
  <2>1. pages \o ChunkSources \in Seq(Pages)
        /\ ToSet(pages \o ChunkSources) = ToSet(pages) \cup ToSet(ChunkSources)
    BY <1>2, <1>3, Joined
  <2> QED
    BY <1>3, <2>1, Zenon
<1>5. /\ IsInjective(sources)
      /\ ToSet(sources) = (ToSet(pages) \cup cited) \ {NoPage}
  <2> DEFINE all == pages \o ChunkSources
  <2>1. sources = Distinct(all)
    BY Zenon DEF MergedSources
  <2>2. all \in Seq(Pages) /\ ToSet(all) = ToSet(pages) \cup cited
    BY <1>4
  <2> HIDE DEF all, cited, sources
  <2> QED
    BY <2>1, <2>2, DistinctLists
<1>6. response'.sources = sources
  BY Zenon DEF CompleteStream, SearchResponse
<1>7. Cited' = Cited /\ streamed' = streamed /\ NoPage \notin cited
  BY DEF CompleteStream, Cited
<1> DEFINE named == ToSet(links)
<1>8. /\ IsInjective(response'.sources) /\ cited \subseteq ToSet(response'.sources)
      /\ ToSet(response'.sources) \ cited \subseteq named \cup {FinalPage[l] : l \in named}
  <2> HIDE DEF cited, sources, links
  <2> QED
    BY <1>2, <1>5, <1>6, <1>7
<1>9. /\ cited = {PageOf[c] : c \in ToSet(Cited')} \ {NoPage}
      /\ named = ToSet(streamed'.grounding)
  BY <1>7
<1> HIDE DEF cited, named, links, sources
<1> QED
  BY <1>8, <1>9, Zenon DEF SourcesListed

\* What reranking returns are chunks.
LEMMA RerankedChunks ==
  ASSUME NEW vector \in IndexRankings, NEW words \in IndexRankings,
         NEW docs \in Reranked(vector, words)
  PROVE  docs \in Seq(Chunks)
<1> DEFINE found == ToSet(vector) \cup ToSet(words)
<1>1. found \subseteq Chunks
  <2>1. vector \in Seq(Chunks) /\ words \in Seq(Chunks)
    BY AnswerAssumption, Zenon
  <2> HIDE DEF Chunks
  <2> QED
    BY <2>1 DEF ToSet
<1>2. PICK s \in Seq(found) : \E m \in 0 .. Len(s) : IsInjective(s) /\ docs = SubSeq(s, 1, m)
  BY RerankedIsCut, Zenon
<1> HIDE DEF found
<1>3. PICK m \in 0 .. Len(s) : docs = SubSeq(s, 1, m)
  BY <1>2
<1>4. s \in Seq(Chunks)
  BY <1>1
<1> QED
  BY <1>3, <1>4

\* A step keeps the chunks chunks and the links links.
LEMMA TypedStep ==
  ASSUME SourcesTyped, [AnswerStep]_answerVars
  PROVE  SourcesTyped'
<1> USE DEF SourcesTyped
<1>1. CASE UNCHANGED <<documents, hits, streamed>>
  BY <1>1
<1>2. ASSUME NEW vector \in IndexRankings, NEW words \in IndexRankings, Retrieve(vector, words)
      PROVE  SourcesTyped'
  <2>1. documents' \in Reranked(vector, words) /\ UNCHANGED <<hits, streamed>>
    BY <1>2, Zenon DEF Retrieve
  <2>2. documents' \in Seq(Chunks)
    BY <2>1, RerankedChunks
  <2> QED
    BY <2>1, <2>2
<1>3. ASSUME NEW results \in WebAnswers, WebSearch(results)
      PROVE  SourcesTyped'
  <2> DEFINE kept == Min({WebLimit, Len(results)})
  <2>1. hits' = SubSeq(results, 1, kept) /\ UNCHANGED <<documents, streamed>>
    BY <1>3, Zenon DEF WebSearch
  <2>2. results \in Seq(Chunks)
    BY AnswerAssumption, Zenon
  <2>3. kept \in 0 .. Len(results)
    <3>1. WebLimit \in Nat /\ Len(results) \in Nat
      <4>1. WebLimit \in Nat
        BY AnswerAssumption, Zenon
      <4> QED
        BY <2>2, <4>1
    <3>2. \E x \in {WebLimit, Len(results)} : \A y \in {WebLimit, Len(results)} : x <= y
      BY <3>1
    <3>3. kept \in {WebLimit, Len(results)} /\ \A y \in {WebLimit, Len(results)} : kept <= y
      BY <3>2, Zenon DEF Min
    <3> HIDE DEF kept
    <3> QED
      BY <3>1, <3>3
  <2> HIDE DEF kept
  <2>4. hits' \in Seq(Chunks)
    BY <2>1, <2>2, <2>3
  <2> QED
    BY <2>1, <2>4
<1>4. ASSUME NEW event \in StreamEvents, Stream(event)
      PROVE  SourcesTyped'
  <2>1. /\ streamed'.grounding = streamed.grounding \o event.grounding
        /\ UNCHANGED <<documents, hits>>
    BY <1>4 DEF Stream
  <2>2. event.grounding \in Seq(DOMAIN FinalPage)
    <3>1. event.grounding \in Groundings
      BY DEF StreamEvents
    <3>2. Groundings \subseteq Seq(DOMAIN FinalPage)
      BY AnswerAssumption, Zenon
    <3> QED
      BY <3>1, <3>2
  <2> QED
    BY <2>1, <2>2
<1>5. CASE UnreadEvent
  BY <1>5 DEF UnreadEvent
<1> QED
  <2> SUFFICES ASSUME AnswerStep, ~UnreadEvent,
                      ~\E vector \in IndexRankings : \E words \in IndexRankings : Retrieve(vector, words),
                      ~\E results \in WebAnswers : WebSearch(results),
                      ~\E event \in StreamEvents : Stream(event)
               PROVE  UNCHANGED <<documents, hits, streamed>>
    BY <1>1, <1>2, <1>3, <1>4, <1>5, Zenon DEF answerVars
  <2> QED
    BY Zenon DEF AnswerStep, Preprocess, Classify, Translate, Join, RetrieveFails, NoWeb, Generate,
                 OpenStream, StreamBreaks, StreamEnds, CompleteStream

\* Sources: a streamed answer names every page a cited chunk comes from and none twice,
\* also when a link of the model leads to one of them, and any other source is a page the
\* model named; for all links, redirects and chunks (search.rs, title resolver).
THEOREM SourcesAreListed == AnswerSpec => []SourcesListed
<1>1. AnswerInit => SourcesTyped /\ SourcesListed
  <2> SUFFICES ASSUME AnswerInit PROVE SourcesTyped /\ SourcesListed
    OBVIOUS
  <2>1. documents = <<>> /\ hits = <<>> /\ streamed.grounding = <<>> /\ stage # "answered"
    BY DEF AnswerInit
  <2>2. SourcesTyped
    BY <2>1 DEF SourcesTyped
  <2>3. SourcesListed
    BY <2>1, Zenon DEF SourcesListed
  <2> QED
    BY <2>2, <2>3
<1>2. SourcesTyped /\ SourcesListed /\ [AnswerStep]_answerVars => (SourcesTyped /\ SourcesListed)'
  <2> SUFFICES ASSUME SourcesTyped, SourcesListed, [AnswerStep]_answerVars
               PROVE  SourcesListed'
    BY TypedStep, Zenon
  <2>1. CASE UNCHANGED answerVars
    BY <2>1, Zenon DEF answerVars, SourcesListed, Cited
  <2>2. CASE \E pages \in Resolutions(streamed.grounding) : CompleteStream(pages)
    BY <2>2, CompleteLists, Zenon
  <2>3. CASE \E reply \in GenerateReplies : Generate(reply)
    <3>1. form' # "stream"
      BY <2>3 DEF Generate
    <3> QED
      BY <3>1, Zenon DEF SourcesListed
  <2>4. CASE \/ \E reply \in PreprocessReplies : Preprocess(reply)
             \/ \E reply \in ClassifyReplies : Classify(reply)
             \/ \E reply \in TranslateReplies : Translate(reply)
             \/ Join
             \/ \E vector, words \in IndexRankings : Retrieve(vector, words)
             \/ RetrieveFails
             \/ \E results \in WebAnswers : WebSearch(results)
             \/ NoWeb \/ OpenStream \/ StreamBreaks
             \/ \E event \in StreamEvents : Stream(event)
             \/ UnreadEvent \/ StreamEnds
    <3>1. stage' # "answered"
      BY <2>4 DEF Preprocess, Classify, Translate, Join, Retrieve, RetrieveFails, WebSearch, NoWeb,
                  OpenStream, StreamBreaks, Stream, UnreadEvent, StreamEnds
    <3> QED
      BY <3>1, Zenon DEF SourcesListed
  <2> QED
    BY <2>1, <2>2, <2>3, <2>4, Zenon DEF AnswerStep
<1> QED
  BY <1>1, <1>2, PTL DEF AnswerSpec

-----------------------------------------------------------------------------
(***************************************************************************)
(* The streamed text: where the message begins.                            *)
(*                                                                         *)
(* The parser is described by what it has received alone: between two      *)
(* slices it is where a reader of the whole buffer would be, and so the    *)
(* cuts cannot be told from its state.  The lemmas below say what the      *)
(* searches, the escapes and the decoding are as functions of the text;    *)
(* Follows says where the parser is in it.                                 *)
(***************************************************************************)

\* A non-empty set of numbers has a least.
LEMMA Least ==
  ASSUME NEW S \in SUBSET Nat, S # {}
  PROVE  \E k \in S : \A j \in S : k <= j
<1>1. PICK k \in S : \A j \in S : <<j, k>> \notin OpToRel(<, Nat)
  BY NatLessThanWellFounded, WFMin
<1>2. \A j \in Nat : <<j, k>> \notin OpToRel(<, Nat) => k <= j
  BY DEF OpToRel
<1> QED
  BY <1>1, <1>2, Zenon

\* It is where the space ends, and nothing else is.
EndsSpace(b, i, j) ==
  /\ j \in i .. Len(b) + 1
  /\ \A k \in i .. j - 1 : b[k] = " "
  /\ j = Len(b) + 1 \/ b[j] # " "

\* What the parser skips ends where the space does.
LEMMA SpaceEnds ==
  ASSUME NEW T, NEW b \in Seq(T), NEW i \in 1 .. Len(b) + 1
  PROVE  /\ EndsSpace(b, i, SkipSpace(b, i))
         /\ \A j \in Int : EndsSpace(b, i, j) => j = SkipSpace(b, i)
<1> DEFINE n == Len(b)
           S == {j \in i .. n + 1 : j = n + 1 \/ b[j] # " "}
<1>1. n \in Nat /\ n = Len(b) /\ i \in 1 .. n + 1
  OBVIOUS
<1> HIDE DEF n
<1>2. n + 1 \in S /\ S \subseteq i .. n + 1 /\ S \in SUBSET Nat
  <2>1. n + 1 \in S
    BY <1>1
  <2>2. S \subseteq i .. n + 1
    BY Zenon
  <2>3. i .. n + 1 \subseteq Nat
    BY <1>1
  <2> QED
    BY <2>1, <2>2, <2>3, Zenon
<1>0. \A k : k \in S <=> k \in i .. n + 1 /\ (k = n + 1 \/ b[k] # " ")
  BY Zenon
<1> HIDE DEF S
<1>3. PICK j \in S : \A k \in S : j <= k
  BY <1>2, Least
<1>4. \A k \in i .. j - 1 : k \in i .. n + 1 /\ k \notin S
  <2>1. j \in i .. n + 1
    BY <1>2, <1>3, Zenon
  <2>2. \A k \in i .. j - 1 : k \in i .. n + 1 /\ ~(j <= k)
    BY <1>1, <2>1
  <2> QED
    BY <1>3, <2>2
<1>5. EndsSpace(b, i, j)
  <2>1. j \in i .. n + 1 /\ (j = n + 1 \/ b[j] # " ")
    BY <1>0, <1>3
  <2>2. \A k \in i .. j - 1 : b[k] = " "
    BY <1>0, <1>4
  <2> QED
    BY <1>1, <2>1, <2>2 DEF EndsSpace
<1>6. ASSUME NEW k \in Int, NEW l \in Int, EndsSpace(b, i, k), EndsSpace(b, i, l), k < l
      PROVE  FALSE
  <2>1. k \in i .. n + 1 /\ l \in i .. n + 1
    BY <1>6, <1>1 DEF EndsSpace
  <2>2. k \in i .. l - 1 /\ k # n + 1
    BY <1>1, <1>6, <2>1
  <2> QED
    BY <1>1, <1>6, <2>2 DEF EndsSpace
<1>7. ASSUME NEW k \in Int, NEW l \in Int, EndsSpace(b, i, k), EndsSpace(b, i, l)
      PROVE  k = l
  <2>1. k < l \/ l < k \/ k = l
    BY <1>7
  <2> QED
    BY <2>1, <1>6, <1>7
<1>8. SkipSpace(b, i) = CHOOSE k \in i .. Len(b) + 1 : EndsSpace(b, i, k)
  BY DEF SkipSpace, EndsSpace
<1>9. j \in i .. Len(b) + 1
  BY <1>5 DEF EndsSpace
<1>10. EndsSpace(b, i, SkipSpace(b, i))
  BY <1>5, <1>8, <1>9
<1>11. SkipSpace(b, i) \in Int
  <2>1. \A k \in i .. n + 1 : k \in Int
    BY <1>1
  <2> QED
    BY <1>1, <2>1, <1>10 DEF EndsSpace
<1> QED
  BY <1>7, <1>10, <1>11

\* A key is its two symbols.
LEMMA KeyIs ==
  ASSUME NEW T, NEW b \in Seq(T), NEW i \in Int
  PROVE  IsKey(b, i) <=> i \in 1 .. Len(b) - 1 /\ b[i] = "mess" /\ b[i + 1] = "age"
<1>1. CASE i \in 1 .. Len(b) - 1
  <2>1. i \in 1 .. Len(b) /\ i + 1 \in 1 .. Len(b) /\ Len(b) \in Nat
    BY <1>1
  <2>2. \A j \in i .. i + 1 : b[j] \in T
    BY <2>1
  <2>3. /\ SubSeq(b, i, i + 1) \in Seq(T) /\ Len(SubSeq(b, i, i + 1)) = 2
        /\ SubSeq(b, i, i + 1)[1] = b[i] /\ SubSeq(b, i, i + 1)[2] = b[i + 1]
    <3> DEFINE p == SubSeq(b, i, i + 1)
    <3>1. p \in Seq(T) /\ Len(p) = (IF i <= i + 1 THEN i + 1 - i + 1 ELSE 0)
            /\ \A j \in 1 .. i + 1 - i + 1 : p[j] = b[i + j - 1]
      <4>1. i \in Int /\ i + 1 \in Int
        OBVIOUS
      <4> QED
        BY <4>1, <2>2, SubSeqProperties
    <3>2. i <= i + 1 /\ i + 1 - i + 1 = 2 /\ 1 \in 1 .. i + 1 - i + 1 /\ 2 \in 1 .. i + 1 - i + 1
           /\ i + 1 - 1 = i /\ i + 2 - 1 = i + 1
      OBVIOUS
    <3> HIDE DEF p
    <3>3. p[1] = b[i + 1 - 1] /\ p[2] = b[i + 2 - 1]
      BY <3>1, <3>2
    <3> QED
      BY <3>1, <3>2, <3>3 DEF p
  <2> DEFINE p == SubSeq(b, i, i + 1)
  <2> HIDE DEF p
  <2>4. p = Key <=> p[1] = "mess" /\ p[2] = "age"
    <3>1. p \in Seq(T) /\ Len(p) = 2
      BY <2>3 DEF p
    <3>2. Key = <<p[1], p[2]>> => p = Key
      BY <3>1 DEF Key
    <3> QED
      BY <3>1, <3>2 DEF Key
  <2> QED
    BY <1>1, <2>1, <2>3, <2>4 DEF IsKey, p
<1>2. CASE i \notin 1 .. Len(b) - 1
  BY <1>2 DEF IsKey
<1> QED
  BY <1>1, <1>2

\* The colon of a key is where the space behind it ends.
LEMMA ColonIs ==
  ASSUME NEW T, NEW b \in Seq(T), NEW k \in Int, IsKey(b, k)
  PROVE  /\ k \in 1 .. Len(b) - 1 /\ k + 2 \in 1 .. Len(b) + 1
         /\ EndsSpace(b, k + 2, SkipSpace(b, k + 2))
         /\ \A c \in Int : Named(b, k, c) <=>
              c = SkipSpace(b, k + 2) /\ c \in k + 2 .. Len(b) /\ b[c] = ":"
<1>1. k \in 1 .. Len(b) - 1 /\ Len(b) \in Nat
  BY KeyIs
<1>2. k + 2 \in 1 .. Len(b) + 1
  BY <1>1
<1>3. EndsSpace(b, k + 2, SkipSpace(b, k + 2))
  BY <1>2, SpaceEnds
<1>4. \A c \in Int : EndsSpace(b, k + 2, c) => c = SkipSpace(b, k + 2)
  BY <1>2, SpaceEnds
<1>5. ASSUME NEW c \in Int, Named(b, k, c)
      PROVE  c = SkipSpace(b, k + 2) /\ c \in k + 2 .. Len(b) /\ b[c] = ":"
  <2>1. c \in k + 2 .. Len(b) /\ b[c] = ":" /\ \A j \in k + 2 .. c - 1 : b[j] = " "
    BY <1>5 DEF Named
  <2>2. c \in k + 2 .. Len(b) + 1
    <3>1. c \in k + 2 .. Len(b)
      BY <2>1
    <3> QED
      BY <1>1, <3>1
  <2>3. EndsSpace(b, k + 2, c)
    BY <2>1, <2>2 DEF EndsSpace
  <2> QED
    BY <1>4, <1>5, <2>1, <2>3
<1>6. ASSUME NEW c \in Int, c = SkipSpace(b, k + 2), c \in k + 2 .. Len(b), b[c] = ":"
      PROVE  Named(b, k, c)
  BY <1>3, <1>6 DEF Named, EndsSpace
<1> QED
  BY <1>1, <1>2, <1>3, <1>5, <1>6

\* The space behind a key does not reach beyond the next.
LEMMA KeysApart ==
  ASSUME NEW T, NEW b \in Seq(T), NEW k \in Int, NEW l \in Int, l < k,
         IsKey(b, k), IsKey(b, l)
  PROVE  SkipSpace(b, l + 2) \in l + 2 .. k
<1>1. b[k] = "mess" /\ b[l + 1] = "age" /\ k \in 1 .. Len(b) - 1
  BY KeyIs
<1>2. l + 2 <= k
  <2>1. ASSUME l + 1 = k PROVE FALSE
    BY <1>1, <2>1
  <2> QED
    BY <2>1
<1>3. EndsSpace(b, l + 2, SkipSpace(b, l + 2))
  BY ColonIs
<1> DEFINE j == SkipSpace(b, l + 2)
<1>4. j \in l + 2 .. Len(b) + 1 /\ j \in Int
  <2>1. j \in l + 2 .. Len(b) + 1
    BY <1>3 DEF EndsSpace
  <2>2. Len(b) \in Nat
    OBVIOUS
  <2> HIDE DEF j
  <2> QED
    BY <2>1, <2>2
<1>5. \A m \in l + 2 .. j - 1 : b[m] = " "
  BY <1>3 DEF EndsSpace
<1> HIDE DEF j
<1>6. k \notin l + 2 .. j - 1
  BY <1>1, <1>5
<1>7. j \in l + 2 .. k
  BY <1>2, <1>4, <1>6
<1> QED
  BY <1>7 DEF j

\* A key with a colon is one the search does not skip, and those before it have none.
LEMMA NamedKeys ==
  ASSUME NEW T, NEW b \in Seq(T), NEW k \in Int, NEW c \in Int, Named(b, k, c)
  PROVE  /\ k \in ValueKeys(b)
         /\ \A l \in ValueKeys(b) : l < k => \E d \in 1 .. k - 1 : Named(b, l, d)
<1>1. IsKey(b, k)
  BY DEF Named
<1>2. c = SkipSpace(b, k + 2) /\ b[c] = ":" /\ k \in 1 .. Len(b) - 1
  BY <1>1, ColonIs
<1>3. k \in ValueKeys(b)
  <2>1. k \in DOMAIN b
    BY <1>2
  <2> QED
    BY <1>1, <1>2, <2>1 DEF ValueKeys
<1>4. ASSUME NEW l \in ValueKeys(b), l < k
      PROVE  \E d \in 1 .. k - 1 : Named(b, l, d)
  <2>1. l \in 1 .. Len(b) /\ IsKey(b, l)
    BY DEF ValueKeys
  <2>2. l \in Int /\ Len(b) \in Nat
    BY <2>1
  <2> DEFINE j == SkipSpace(b, l + 2)
  <2>3. j > Len(b) \/ b[j] = ":"
    BY DEF ValueKeys
  <2>4. j \in l + 2 .. k
    BY <1>1, <1>4, <2>1, <2>2, KeysApart
  <2> HIDE DEF j
  <2>5. b[j] = ":" /\ j \in l + 2 .. Len(b) /\ j \in Int
    BY <1>2, <2>2, <2>3, <2>4
  <2>6. b[k] = "mess"
    BY <1>1, KeyIs
  <2>7. j \in 1 .. k - 1
    <3>1. j # k
      BY <2>5, <2>6
    <3> QED
      BY <2>1, <2>2, <2>4, <3>1
  <2>8. Named(b, l, j)
    BY <2>1, <2>2, <2>5, ColonIs DEF j
  <2> QED
    BY <2>7, <2>8
<1> QED
  BY <1>3, <1>4

\* The parser finds the opening quote of the message when it is there, and nothing else.
LEMMA StartIs ==
  ASSUME NEW T, NEW b \in Seq(T)
  PROVE  /\ \A i \in 1 .. Len(b) : Opens(b, i) <=> ValueStart(b) = i + 1
         /\ ValueStart(b) = 0 \/ \E i \in 4 .. Len(b) : ValueStart(b) = i + 1
<1> DEFINE keys == ValueKeys(b)
           first == CHOOSE k \in keys : \A l \in keys : k <= l
           colon == SkipSpace(b, first + 2)
           quote == SkipSpace(b, colon + 1)
<1>0. Len(b) \in Nat
  OBVIOUS
<1>1. ValueStart(b) = IF keys = {} \/ colon >= Len(b) THEN 0
                      ELSE IF quote <= Len(b) /\ b[quote] = "quote" THEN quote + 1 ELSE 0
  BY DEF ValueStart
<1>2. keys \subseteq 1 .. Len(b) /\ \A k \in keys : IsKey(b, k) /\ k \in Nat
  BY DEF ValueKeys
<1>3. keys # {} => first \in keys /\ \A l \in keys : first <= l
  <2>1. keys \in SUBSET Nat
    BY <1>2
  <2> HIDE DEF keys
  <2> QED
    BY <2>1, Least
<1>4. ASSUME NEW i \in 1 .. Len(b), Opens(b, i) PROVE ValueStart(b) = i + 1
  <2>1. PICK k \in 1 .. i - 1, c \in 1 .. i - 1 :
          /\ Named(b, k, c)
          /\ \A j \in c + 1 .. i - 1 : b[j] = " "
          /\ \A l \in 1 .. k - 1, d \in 1 .. k - 1 : ~Named(b, l, d)
    BY <1>4 DEF Opens
  <2>2. k \in Int /\ c \in Int /\ i \in Int /\ c \in 1 .. Len(b) - 1 /\ c < i
    BY <1>0
  <2>3. k \in keys /\ \A l \in keys : l < k => \E d \in 1 .. k - 1 : Named(b, l, d)
    BY <2>1, <2>2, NamedKeys
  <2>4. \A l \in keys : k <= l
    <3> SUFFICES ASSUME NEW l \in keys, l < k PROVE FALSE
      <4>1. \A l \in keys : l \in Int
        BY <1>2
      <4> QED
        BY <2>2, <4>1
    <3>1. \E d \in 1 .. k - 1 : Named(b, l, d)
      BY <2>3
    <3>2. l \in 1 .. k - 1
      BY <1>2, <2>2
    <3> QED
      BY <2>1, <3>1, <3>2
  <2>5. first = k
    <3>1. first \in keys /\ first <= k /\ k <= first
      BY <1>3, <2>3, <2>4
    <3>2. first \in Int
      BY <1>2, <3>1
    <3> QED
      BY <2>2, <3>1, <3>2
  <2>6. colon = c
    <3>1. IsKey(b, k)
      BY <2>1 DEF Named
    <3> QED
      BY <2>1, <2>2, <2>5, <3>1, ColonIs
  <2>7. quote = i
    <3>1. b[i] = "quote"
      BY <1>4 DEF Opens
    <3>2. c + 1 \in 1 .. Len(b) + 1 /\ i \in c + 1 .. Len(b) + 1
      BY <1>0, <2>2
    <3>3. EndsSpace(b, c + 1, i)
      BY <2>1, <3>1, <3>2 DEF EndsSpace
    <3>4. i = SkipSpace(b, c + 1)
      BY <2>2, <3>2, <3>3, SpaceEnds
    <3> QED
      BY <2>6, <3>4
  <2>8. b[i] = "quote" /\ keys # {} /\ ~(c >= Len(b)) /\ i <= Len(b)
    <3>1. b[i] = "quote" /\ keys # {}
      BY <1>4, <2>3 DEF Opens
    <3> HIDE DEF keys
    <3> QED
      BY <1>0, <2>2, <3>1
  <2> HIDE DEF keys, first, colon, quote
  <2> QED
    BY <1>1, <2>6, <2>7, <2>8
<1>5. ASSUME ValueStart(b) # 0
      PROVE  \E i \in 4 .. Len(b) : Opens(b, i) /\ ValueStart(b) = i + 1
  <2>1. /\ keys # {} /\ ~(colon >= Len(b)) /\ quote <= Len(b) /\ b[quote] = "quote"
        /\ ValueStart(b) = quote + 1
    <3> HIDE DEF keys, first, colon, quote
    <3> QED
      BY <1>1, <1>5
  <2>2. first \in keys /\ (\A l \in keys : first <= l) /\ IsKey(b, first) /\ first \in Nat
    BY <1>2, <1>3, <2>1
  <2>3. EndsSpace(b, first + 2, colon) /\ first \in 1 .. Len(b) - 1
    BY <2>2, ColonIs
  <2>4. colon \in first + 2 .. Len(b) + 1 /\ (colon > Len(b) \/ b[colon] = ":")
    <3>1. colon > Len(b) \/ b[colon] = ":"
      BY <2>2 DEF ValueKeys
    <3> QED
      BY <2>3, <3>1 DEF EndsSpace
  <2> HIDE DEF colon
  <2>5. colon \in 3 .. Len(b) - 1 /\ colon \in first + 2 .. Len(b) /\ b[colon] = ":"
    BY <1>0, <2>1, <2>2, <2>3, <2>4
  <2>6. Named(b, first, colon)
    BY <2>2, <2>5, ColonIs DEF colon
  <2>7. colon + 1 \in 1 .. Len(b) + 1
    BY <1>0, <2>5
  <2>8. EndsSpace(b, colon + 1, quote)
    BY <2>7, SpaceEnds
  <2>9. quote \in 4 .. Len(b) /\ colon \in 1 .. quote - 1 /\ first \in 1 .. quote - 1
    <3>1. quote \in colon + 1 .. Len(b) + 1
      BY <2>8 DEF EndsSpace
    <3> HIDE DEF quote
    <3> QED
      BY <1>0, <2>1, <2>2, <2>3, <2>5, <3>1
  <2>10. ASSUME NEW l \in 1 .. first - 1, NEW d \in 1 .. first - 1, Named(b, l, d)
         PROVE  FALSE
    <3>1. l \in Int /\ d \in Int /\ ~(first <= l)
      BY <2>2
    <3>2. l \in keys
      BY <2>10, <3>1, NamedKeys
    <3> QED
      BY <2>2, <3>1, <3>2
  <2>11. Opens(b, quote)
    BY <2>1, <2>6, <2>8, <2>9, <2>10 DEF Opens, EndsSpace
  <2> HIDE DEF quote
  <2> QED
    BY <2>1, <2>9, <2>11
<1>6. ASSUME NEW i \in 1 .. Len(b), ValueStart(b) = i + 1 PROVE Opens(b, i)
  <2>1. ValueStart(b) # 0
    BY <1>6
  <2>2. PICK j \in 4 .. Len(b) : Opens(b, j) /\ ValueStart(b) = j + 1
    BY <1>5, <2>1
  <2>3. i = j
    BY <1>6, <2>2
  <2> QED
    BY <2>2, <2>3
<1> QED
  BY <1>4, <1>5, <1>6

\* What comes later does not move the opening quote.
LEMMA OpensKept ==
  ASSUME NEW T, NEW b \in Seq(T), NEW d \in Seq(T), Len(b) <= Len(d),
         \A j \in 1 .. Len(b) : d[j] = b[j],
         NEW i \in 1 .. Len(b)
  PROVE  Opens(d, i) <=> Opens(b, i)
<1>0. Len(b) \in Nat /\ Len(d) \in Nat
  OBVIOUS
<1>1. \A k \in 1 .. i - 1, c \in 1 .. i - 1 : Named(d, k, c) <=> Named(b, k, c)
  <2> SUFFICES ASSUME NEW k \in 1 .. i - 1, NEW c \in 1 .. i - 1
               PROVE  Named(d, k, c) <=> Named(b, k, c)
    OBVIOUS
  <2>1. c \in Int /\ k \in Int /\ c \in 1 .. Len(b)
    BY <1>0
  <2>2. CASE c \in k + 2 .. i - 1
    <3>1. k \in 1 .. Len(b) - 1 /\ k \in 1 .. Len(d) - 1 /\ k \in 1 .. Len(b) /\ k + 1 \in 1 .. Len(b)
          /\ c \in k + 2 .. Len(b) /\ c \in k + 2 .. Len(d)
      BY <1>0, <2>1, <2>2
    <3>2. IsKey(b, k) <=> IsKey(d, k)
      BY <2>1, <3>1, KeyIs
    <3>3. \A j \in k + 2 .. c - 1 : j \in 1 .. Len(b)
      BY <1>0, <2>1
    <3> QED
      BY <2>1, <3>1, <3>2, <3>3 DEF Named
  <2>3. CASE c \notin k + 2 .. i - 1
    <3>1. c \notin k + 2 .. Len(b) /\ c \notin k + 2 .. Len(d)
      BY <1>0, <2>1, <2>3
    <3> QED
      BY <3>1 DEF Named
  <2> QED
    BY <2>2, <2>3
<1>2. \A c \in 1 .. i - 1 : \A j \in c + 1 .. i - 1 : j \in 1 .. Len(b)
  BY <1>0
<1>3. \A k \in 1 .. i - 1 : \A l, e \in 1 .. k - 1 : l \in 1 .. i - 1 /\ e \in 1 .. i - 1
  BY <1>0
<1>4. d[i] = b[i]
  OBVIOUS
<1>5. ASSUME NEW k \in 1 .. i - 1, NEW c \in 1 .. i - 1
      PROVE  (/\ Named(d, k, c)
              /\ \A j \in c + 1 .. i - 1 : d[j] = " "
              /\ \A l \in 1 .. k - 1, e \in 1 .. k - 1 : ~Named(d, l, e)) <=>
             (/\ Named(b, k, c)
              /\ \A j \in c + 1 .. i - 1 : b[j] = " "
              /\ \A l \in 1 .. k - 1, e \in 1 .. k - 1 : ~Named(b, l, e))
  <2>1. (\A j \in c + 1 .. i - 1 : d[j] = " ") <=> (\A j \in c + 1 .. i - 1 : b[j] = " ")
    BY <1>2
  <2>2. (\A l \in 1 .. k - 1, e \in 1 .. k - 1 : ~Named(d, l, e))
           <=> (\A l \in 1 .. k - 1, e \in 1 .. k - 1 : ~Named(b, l, e))
    BY <1>1, <1>3
  <2> QED
    BY <1>1, <2>1, <2>2
<1> QED
  BY <1>4, <1>5 DEF Opens

-----------------------------------------------------------------------------
(***************************************************************************)
(* Backslashes: which symbols are escaped.                                 *)
(***************************************************************************)

\* The backslashes right before i are k.
Run(v, i, k) ==
  /\ \A j \in i - k .. i - 1 : v[j] = "esc"
  /\ i - k = 1 \/ v[i - k - 1] # "esc"

\* There is one number of them, and its parity decides.
LEMMA OneRun ==
  ASSUME NEW v, NEW i \in Nat \ {0}
  PROVE  /\ \E k \in 0 .. i - 1 : Run(v, i, k)
         /\ \A k, l \in 0 .. i - 1 : Run(v, i, k) /\ Run(v, i, l) => k = l
<1> DEFINE Short(k) == i - k = 1 \/ v[i - k - 1] # "esc"
           S == {k \in 0 .. i - 1 : Short(k)}
<1>1. S \in SUBSET Nat /\ \A k : k \in S <=> k \in 0 .. i - 1 /\ Short(k)
  <2>1. 0 .. i - 1 \subseteq Nat
    OBVIOUS
  <2> HIDE DEF Short
  <2>2. S \subseteq 0 .. i - 1
    OBVIOUS
  <2> QED
    BY <2>1, <2>2, Zenon
<1>2. i - 1 \in S
  <2>1. i - 1 \in 0 .. i - 1 /\ i - (i - 1) = 1
    OBVIOUS
  <2> QED
    BY <1>1, <2>1
<1> HIDE DEF S
<1>3. PICK k \in S : \A j \in S : k <= j
  BY <1>1, <1>2, Least
<1>4. k \in 0 .. i - 1 /\ Short(k)
  BY <1>1
<1>5. ASSUME NEW j \in i - k .. i - 1 PROVE v[j] = "esc"
  <2>1. /\ i - 1 - j \in 0 .. i - 1 /\ ~(k <= i - 1 - j)
        /\ i - (i - 1 - j) - 1 = j
    BY <1>4
  <2>2. ~Short(i - 1 - j)
    <3> HIDE DEF Short
    <3> QED
      BY <1>1, <1>3, <2>1
  <2> QED
    BY <2>1, <2>2
<1>6. ASSUME NEW l \in 0 .. i - 1, NEW m \in 0 .. i - 1, Run(v, i, l), Run(v, i, m), l < m
      PROVE  FALSE
  <2>1. i - l - 1 \in i - m .. i - 1 /\ i - l # 1
    BY <1>6
  <2> QED
    BY <1>6, <2>1 DEF Run
<1>7. ASSUME NEW l \in 0 .. i - 1, NEW m \in 0 .. i - 1, Run(v, i, l), Run(v, i, m)
      PROVE  l = m
  <2>1. l < m \/ m < l \/ l = m
    OBVIOUS
  <2> QED
    BY <1>6, <1>7, <2>1
<1>8. Run(v, i, k)
  BY <1>4, <1>5 DEF Run
<1> QED
  BY <1>4, <1>7, <1>8

\* A symbol is escaped if they are odd in number.
LEMMA EscapedIsOdd ==
  ASSUME NEW v, NEW i \in Nat \ {0}, NEW k \in 0 .. i - 1, Run(v, i, k)
  PROVE  Escaped(v, i) <=> k % 2 = 1
<1>1. Escaped(v, i) <=> \E l \in 1 .. i - 1 : l % 2 = 1 /\ Run(v, i, l)
  BY DEF Escaped, Run
<1>2. \A l \in 1 .. i - 1 : l \in 0 .. i - 1 /\ (Run(v, i, l) => l = k)
  <2>1. \A l \in 1 .. i - 1 : l \in 0 .. i - 1
    OBVIOUS
  <2> QED
    BY <2>1, OneRun
<1>3. k \in 1 .. i - 1 \/ k = 0
  OBVIOUS
<1>4. 0 % 2 # 1
  OBVIOUS
<1>5. CASE k = 0
  <2>1. \A l \in 1 .. i - 1 : l # 0
    OBVIOUS
  <2> QED
    BY <1>1, <1>2, <1>4, <1>5, <2>1
<1>6. CASE k \in 1 .. i - 1
  BY <1>1, <1>2, <1>6
<1> QED
  BY <1>3, <1>5, <1>6

\* A symbol is escaped by a backslash before it that is not escaped.
LEMMA EscapedNext ==
  ASSUME NEW v, NEW i \in Nat \ {0}
  PROVE  Escaped(v, i + 1) <=> v[i] = "esc" /\ ~Escaped(v, i)
<1>1. PICK k \in 0 .. i - 1 : Run(v, i, k)
  BY OneRun
<1>2. Escaped(v, i) <=> k % 2 = 1
  BY <1>1, EscapedIsOdd
<1>3. i + 1 \in Nat \ {0} /\ k \in Nat
  OBVIOUS
<1>4. CASE v[i] = "esc"
  <2>1. k + 1 \in 0 .. i + 1 - 1 /\ i + 1 - (k + 1) = i - k
    OBVIOUS
  <2>2. \A j \in i - k .. i + 1 - 1 : j = i \/ j \in i - k .. i - 1
    OBVIOUS
  <2>3. Run(v, i + 1, k + 1)
    BY <1>1, <1>4, <2>1, <2>2 DEF Run
  <2>4. Escaped(v, i + 1) <=> (k + 1) % 2 = 1
    BY <1>3, <2>1, <2>3, EscapedIsOdd
  <2>5. (k + 1) % 2 = 1 <=> k % 2 # 1
    BY <1>3
  <2> QED
    BY <1>2, <1>4, <2>4, <2>5
<1>5. CASE v[i] # "esc"
  <2>1. 0 \in 0 .. i + 1 - 1 /\ i + 1 - 0 - 1 = i /\ ~(i + 1 - 0 <= i + 1 - 1)
    OBVIOUS
  <2>2. Run(v, i + 1, 0)
    BY <1>5, <2>1 DEF Run
  <2>3. Escaped(v, i + 1) <=> 0 % 2 = 1
    BY <1>3, <2>1, <2>2, EscapedIsOdd
  <2> QED
    BY <1>5, <2>3
<1> QED
  BY <1>4, <1>5

\* What stands at the front is not, and what comes later does not matter.
LEMMA EscapedFront ==
  /\ \A v : ~Escaped(v, 1)
  /\ \A v, w : \A i \in Nat : (\A j \in 1 .. i - 1 : v[j] = w[j])
                 => (Escaped(v, i) <=> Escaped(w, i))
<1>1. ASSUME NEW v PROVE ~Escaped(v, 1)
  BY DEF Escaped
<1>2. ASSUME NEW v, NEW w, NEW i \in Nat, \A j \in 1 .. i - 1 : v[j] = w[j]
      PROVE  Escaped(v, i) <=> Escaped(w, i)
  <2>1. ASSUME NEW k \in 1 .. i - 1
        PROVE  /\ \A j \in i - k .. i - 1 : v[j] = w[j]
               /\ i - k = 1 \/ v[i - k - 1] = w[i - k - 1]
    <3>1. \A j \in i - k .. i - 1 : j \in 1 .. i - 1
      OBVIOUS
    <3>2. i - k = 1 \/ i - k - 1 \in 1 .. i - 1
      OBVIOUS
    <3> QED
      BY <1>2, <3>1, <3>2
  <2>2. \A k \in 1 .. i - 1 : Run(v, i, k) <=> Run(w, i, k)
    BY <2>1 DEF Run
  <2>3. \A x : Escaped(x, i) <=> \E k \in 1 .. i - 1 : k % 2 = 1 /\ Run(x, i, k)
    BY DEF Escaped, Run
  <2> QED
    BY <2>2, <2>3
<1> QED
  BY <1>1, <1>2

-----------------------------------------------------------------------------
(***************************************************************************)
(* Decoding: what one more symbol adds.                                    *)
(***************************************************************************)

\* The ways to go n times from a value of V to another, and what one that begins with
\* the value a passes.
Ways(n, V) == [1 .. n -> [V -> V]]
Passed(a, g, n, V) ==
  {f \in [0 .. n -> V] : f[0] = a /\ \A k \in 1 .. n : f[k] = g[k][f[k - 1]]}

\* A recursion over the numbers up to n defines a function: there is one that passes every step.
LEMMA Recursion ==
  ASSUME NEW n \in Nat, NEW V, NEW a \in V, NEW g \in Ways(n, V)
  PROVE  \E f : f \in Passed(a, g, n, V)
<1> DEFINE Upto(f, m) == f[0] = a /\ \A k \in 1 .. m : f[k] = g[k][f[k - 1]]
           S == {m \in 0 .. n : \E f \in [0 .. m -> V] : Upto(f, m)}
<1> USE DEF Ways
<1>1. 0 \in S
  <2>1. [k \in 0 .. 0 |-> a] \in [0 .. 0 -> V] /\ Upto([k \in 0 .. 0 |-> a], 0)
    OBVIOUS
  <2> HIDE DEF Upto
  <2> QED
    BY <2>1
<1>2. ASSUME NEW m \in 1 .. n, m - 1 \in S PROVE m \in S
  <2>1. PICK f \in [0 .. m - 1 -> V] : Upto(f, m - 1)
    BY <1>2
  <2> DEFINE h == [k \in 0 .. m |-> IF k = m THEN g[m][f[m - 1]] ELSE f[k]]
  <2>2. m \in Nat /\ m >= 1 /\ m - 1 \in 0 .. m - 1
    OBVIOUS
  <2>3. g[m][f[m - 1]] \in V
    <3>1. g[m] \in [V -> V] /\ f[m - 1] \in V
      BY <2>2
    <3> QED
      BY <3>1
  <2>4. \A k \in 0 .. m : k # m => k \in 0 .. m - 1 /\ h[k] = f[k] /\ f[k] \in V
    BY <2>2
  <2>5. h \in [0 .. m -> V]
    BY <2>3, <2>4
  <2>6. h[m] = g[m][f[m - 1]] /\ h[m - 1] = f[m - 1] /\ h[0] = f[0]
    BY <2>2
  <2>7. \A k \in 1 .. m : k # m => k \in 1 .. m - 1 /\ h[k] = f[k] /\ h[k - 1] = f[k - 1]
    BY <2>2
  <2> HIDE DEF h
  <2>8. Upto(h, m)
    BY <2>1, <2>6, <2>7
  <2> HIDE DEF Upto
  <2> QED
    BY <2>5, <2>8
<1>3. n \in S
  <2> HIDE DEF S
  <2>1. S \in SUBSET (0 .. n)
    BY DEF S
  <2>2. S = 0 .. n
    BY <1>1, <1>2, <2>1, ReachesAll
  <2> QED
    BY <2>2
<1> QED
  BY <1>3 DEF Passed

\* Two that begin and go on alike are the same.
Alike(f, h, n) ==
  f[0] = h[0] /\ \A k \in 1 .. n : f[k - 1] = h[k - 1] => f[k] = h[k]

\* There is only one such function.
LEMMA SameWay ==
  ASSUME NEW n \in Nat, NEW f, NEW h, Alike(f, h, n)
  PROVE  \A k \in 0 .. n : f[k] = h[k]
<1> DEFINE S == {m \in 0 .. n : f[m] = h[m]}
<1>1. S \in SUBSET (0 .. n) /\ 0 \in S /\ \A k \in 1 .. n : k - 1 \in S => k \in S
  BY DEF Alike
<1> HIDE DEF S
<1>2. S = 0 .. n
  BY <1>1, ReachesAll
<1> QED
  BY <1>2 DEF S

\* What the first k of some sequences make one after the other, for every k.
Joins(ss, C) ==
  {h \in [0 .. Len(ss) -> Seq(C)] :
     h[0] = <<>> /\ \A k \in 1 .. Len(ss) : h[k] = h[k - 1] \o ss[k]}

\* There is such a function.
LEMMA JoinedAll ==
  ASSUME NEW C, NEW ss \in Seq(Seq(C))
  PROVE  \E h : h \in Joins(ss, C)
<1> DEFINE n == Len(ss)
           g == [k \in 1 .. n |-> [v \in Seq(C) |-> v \o ss[k]]]
<1>1. n \in Nat /\ \A k \in 1 .. n : ss[k] \in Seq(C)
  OBVIOUS
<1>2. \A k \in 1 .. n : \A v \in Seq(C) : v \o ss[k] \in Seq(C)
  BY <1>1
<1>3. g \in Ways(n, Seq(C)) /\ <<>> \in Seq(C)
  BY <1>2 DEF Ways
<1>4. PICK h : h \in Passed(<<>>, g, n, Seq(C))
  <2> HIDE DEF g, n
  <2> QED
    BY <1>1, <1>3, Recursion
<1>5. /\ h \in [0 .. n -> Seq(C)] /\ h[0] = <<>>
      /\ \A k \in 1 .. n : h[k] = g[k][h[k - 1]]
  <2> HIDE DEF g, n
  <2> QED
    BY <1>4 DEF Passed
<1>6. \A k \in 1 .. n : h[k - 1] \in Seq(C)
  <2>1. \A k \in 1 .. n : k - 1 \in 0 .. n
    BY <1>1
  <2> HIDE DEF n, g
  <2> QED
    BY <1>5, <2>1
<1>7. \A k \in 1 .. n : h[k] = h[k - 1] \o ss[k]
  <2> HIDE DEF n
  <2> QED
    BY <1>5, <1>6
<1> QED
  BY <1>5, <1>7 DEF Joins

\* Flattening takes the last of them.
LEMMA FlattenIs ==
  ASSUME NEW C, NEW ss \in Seq(Seq(C)), NEW h \in Joins(ss, C)
  PROVE  FlattenSeq(ss) = h[Len(ss)]
<1> DEFINE n == Len(ss)
           Rec(f) == f = [i \in 1 .. Len(ss) |-> IF i = 1 THEN ss[i] ELSE f[i - 1] \o ss[i]]
           flatten == CHOOSE f : Rec(f)
           f0 == [i \in 1 .. n |-> h[i]]
<1>1. n \in Nat /\ \A k \in 1 .. n : ss[k] \in Seq(C)
  OBVIOUS
<1>2. h[0] = <<>> /\ \A k \in 1 .. n : h[k] = h[k - 1] \o ss[k]
  BY DEF Joins
<1>3. FlattenSeq(ss) = IF n = 0 THEN ss ELSE flatten[n]
  BY DEF FlattenSeq
<1>4. CASE n = 0
  <2>1. ss = <<>>
    BY <1>4
  <2> HIDE DEF n, flatten
  <2> QED
    BY <1>2, <1>3, <1>4, <2>1 DEF n
<1>5. CASE n # 0
  <2>1. \A i \in 1 .. n : f0[i] = IF i = 1 THEN ss[i] ELSE f0[i - 1] \o ss[i]
    <3> SUFFICES ASSUME NEW i \in 1 .. n
                 PROVE  f0[i] = IF i = 1 THEN ss[i] ELSE f0[i - 1] \o ss[i]
      OBVIOUS
    <3>1. f0[i] = h[i - 1] \o ss[i]
      BY <1>2
    <3>2. CASE i = 1
      <4>1. <<>> \o ss[i] = ss[i]
        BY <1>1
      <4>2. i - 1 = 0
        BY <3>2
      <4> HIDE DEF f0, n
      <4> QED
        BY <1>2, <3>1, <3>2, <4>1, <4>2
    <3>3. CASE i # 1
      <4>1. i - 1 \in 1 .. n
        BY <3>3
      <4>2. f0[i - 1] = h[i - 1]
        BY <4>1
      <4> HIDE DEF f0
      <4> QED
        BY <3>1, <3>3, <4>2
    <3> QED
      BY <3>2, <3>3
  <2>2. Rec(f0)
    <3>1. f0 = [i \in 1 .. n |-> IF i = 1 THEN ss[i] ELSE f0[i - 1] \o ss[i]]
      <4>1. f0 = [i \in 1 .. n |-> f0[i]]
        OBVIOUS
      <4> HIDE DEF f0
      <4> QED
        BY <2>1, <4>1
    <3> QED
      BY <3>1
  <2>3. Rec(flatten)
    <3> HIDE DEF Rec, f0
    <3> QED
      BY <2>2
  <2>4. 1 \in 1 .. n /\ \A i \in 1 .. n : flatten[i] = IF i = 1 THEN ss[i] ELSE flatten[i - 1] \o ss[i]
    <3>1. 1 \in 1 .. n
      BY <1>1, <1>5
    <3> HIDE DEF flatten
    <3>2. flatten = [i \in 1 .. n |-> IF i = 1 THEN ss[i] ELSE flatten[i - 1] \o ss[i]]
      BY <2>3
    <3> HIDE DEF n, Rec
    <3> QED
      BY <3>1, <3>2
  <2> DEFINE k0 == [i \in 0 .. n |-> IF i = 0 THEN <<>> ELSE flatten[i]]
  <2> HIDE DEF flatten
  <2>5. Alike(k0, h, n)
    <3>1. k0[0] = h[0]
      BY <1>1, <1>2
    <3>2. ASSUME NEW k \in 1 .. n, k0[k - 1] = h[k - 1] PROVE k0[k] = h[k]
      <4>1. k0[k] = flatten[k] /\ h[k] = h[k - 1] \o ss[k]
        <5>1. k \in 0 .. n /\ k # 0
          BY <1>1
        <5> HIDE DEF n
        <5> QED
          BY <1>2, <5>1
      <4>2. CASE k = 1
        <5>1. h[k - 1] = <<>> /\ flatten[k] = ss[k] /\ ss[k] \in Seq(C)
          BY <1>1, <1>2, <2>4, <4>2
        <5> QED
          BY <4>1, <5>1
      <4>3. CASE k # 1
        <5>1. flatten[k] = flatten[k - 1] \o ss[k]
          BY <2>4, <4>3
        <5>2. k0[k - 1] = flatten[k - 1]
          BY <1>1, <4>3
        <5> HIDE DEF k0
        <5> QED
          BY <3>2, <4>1, <5>1, <5>2
      <4> QED
        BY <4>2, <4>3
    <3> HIDE DEF k0
    <3> QED
      BY <3>1, <3>2 DEF Alike
  <2>6. n \in 0 .. n /\ k0[n] = flatten[n]
    BY <1>1, <1>5
  <2> HIDE DEF k0, n
  <2>7. k0[n] = h[n]
    BY <1>1, <2>5, <2>6, SameWay
  <2> QED
    BY <1>3, <1>5, <2>6, <2>7 DEF n
<1> QED
  BY <1>4, <1>5

\* Of nothing, and of one more.
LEMMA FlattenMore ==
  ASSUME NEW C, NEW ss \in Seq(Seq(C)), NEW tt \in Seq(Seq(C)),
         Len(tt) = Len(ss) + 1, \A i \in 1 .. Len(ss) : tt[i] = ss[i]
  PROVE  /\ FlattenSeq(ss) \in Seq(C)
         /\ FlattenSeq(tt) = FlattenSeq(ss) \o tt[Len(tt)]
<1> DEFINE n == Len(ss)
<1>1. n \in Nat /\ Len(tt) = n + 1
  OBVIOUS
<1>2. PICK h : h \in Joins(tt, C)
  BY JoinedAll
<1>3. /\ h \in [0 .. n + 1 -> Seq(C)] /\ h[0] = <<>>
      /\ \A k \in 1 .. n + 1 : h[k] = h[k - 1] \o tt[k]
  BY <1>1, <1>2 DEF Joins
<1> DEFINE f == [k \in 0 .. n |-> h[k]]
<1>4. f \in Joins(ss, C)
  <2>1. f \in [0 .. n -> Seq(C)] /\ f[0] = <<>> /\ f[n] = h[n]
    BY <1>1, <1>3
  <2>2. ASSUME NEW k \in 1 .. n PROVE f[k] = f[k - 1] \o ss[k]
    <3>1. k \in 0 .. n /\ k - 1 \in 0 .. n /\ k \in 1 .. n + 1
      BY <1>1
    <3>2. f[k] = h[k] /\ f[k - 1] = h[k - 1] /\ tt[k] = ss[k]
      BY <3>1
    <3> HIDE DEF f
    <3> QED
      BY <1>3, <3>1, <3>2
  <2> HIDE DEF f
  <2> QED
    BY <2>1, <2>2 DEF Joins
<1>5. FlattenSeq(ss) = h[n]
  <2>1. FlattenSeq(ss) = f[n]
    <3> HIDE DEF f
    <3> QED
      BY <1>4, FlattenIs
  <2>2. n \in 0 .. n
    BY <1>1
  <2> HIDE DEF n
  <2> QED
    BY <2>1, <2>2
<1>6. FlattenSeq(tt) = h[n + 1]
  BY <1>1, <1>2, FlattenIs
<1>7. h[n + 1] = h[n] \o tt[n + 1] /\ h[n] \in Seq(C)
  <2>1. n + 1 \in 1 .. n + 1 /\ n + 1 - 1 = n /\ n \in 0 .. n + 1
    BY <1>1
  <2>2. PICK m \in 1 .. n + 1 : m = n + 1 /\ m - 1 = n
    BY <2>1
  <2>3. h[m] = h[m - 1] \o tt[m]
    BY <1>3
  <2>4. h[n] \in Seq(C)
    BY <1>3, <2>1
  <2> HIDE DEF n
  <2> QED
    BY <2>2, <2>3, <2>4
<1> QED
  BY <1>1, <1>5, <1>6, <1>7

-----------------------------------------------------------------------------
\* What an answer is made of; what the symbol at i of a message adds to it; and the
\* answer to the whole message.
Chars == Symbols \cup {"newline", "esc", "u"}
Piece(v, i) ==
  IF ~Escaped(v, i) THEN IF v[i] = "esc" THEN <<>> ELSE <<v[i]>>
  ELSE IF v[i] = "u" THEN Unicode ELSE <<Unescape(v[i])>>
Plain(v) == Decoded(v, Unicode)

\* A symbol adds characters.
LEMMA PieceIs ==
  ASSUME NEW v \in Seq(Symbols), NEW i \in 1 .. Len(v)
  PROVE  Piece(v, i) \in Seq(Chars)
<1>1. v[i] \in Chars /\ "newline" \in Chars /\ "esc" \in Chars /\ "u" \in Chars
  BY DEF Chars
<1>2. Unescape(v[i]) \in Chars
  BY <1>1 DEF Unescape
<1> QED
  BY <1>1, <1>2 DEF Piece, Unicode

\* The decoding of a longer message goes on where that of its beginning ends.
LEMMA DecodedMore ==
  ASSUME NEW v \in Seq(Symbols), NEW w \in Seq(Symbols), Len(w) = Len(v) + 1,
         \A i \in 1 .. Len(v) : w[i] = v[i]
  PROVE  /\ Plain(v) \in Seq(Chars)
         /\ Plain(w) = Plain(v) \o Piece(w, Len(w))
<1> DEFINE Of(x) == [i \in DOMAIN x |-> Piece(x, i)]
<1>1. \A x : Plain(x) = FlattenSeq(Of(x))
  BY DEF Plain, Decoded, Piece
<1>2. ASSUME NEW x \in Seq(Symbols)
      PROVE  Of(x) \in Seq(Seq(Chars)) /\ Len(Of(x)) = Len(x)
             /\ \A i \in 1 .. Len(x) : Of(x)[i] = Piece(x, i)
  <2>1. DOMAIN x = 1 .. Len(x) /\ Len(x) \in Nat
    OBVIOUS
  <2>2. \A i \in 1 .. Len(x) : Piece(x, i) \in Seq(Chars)
    BY PieceIs
  <2> QED
    BY <2>1, <2>2
<1>3. \A i \in 1 .. Len(v) : Piece(w, i) = Piece(v, i)
  <2> SUFFICES ASSUME NEW i \in 1 .. Len(v) PROVE Piece(w, i) = Piece(v, i)
    OBVIOUS
  <2>1. i \in Nat /\ \A j \in 1 .. i - 1 : j \in 1 .. Len(v)
    OBVIOUS
  <2>2. Escaped(w, i) <=> Escaped(v, i)
    BY <2>1, EscapedFront
  <2> QED
    BY <2>2 DEF Piece
<1>4. Len(v) + 1 \in 1 .. Len(w) /\ \A i \in 1 .. Len(v) : i \in 1 .. Len(w)
  OBVIOUS
<1>5. \A i \in 1 .. Len(v) : Of(w)[i] = Of(v)[i]
  BY <1>2, <1>3, <1>4
<1> HIDE DEF Of
<1>6. /\ FlattenSeq(Of(v)) \in Seq(Chars)
      /\ FlattenSeq(Of(w)) = FlattenSeq(Of(v)) \o Of(w)[Len(Of(w))]
  BY <1>2, <1>5, FlattenMore
<1> QED
  BY <1>1, <1>2, <1>4, <1>6

\* An empty message is an empty answer.
LEMMA DecodedNothing == Plain(<<>>) = <<>>
<1>1. [i \in DOMAIN <<>> |-> Piece(<<>>, i)] = <<>>
  OBVIOUS
<1>2. FlattenSeq(<<>>) = <<>>
  BY DEF FlattenSeq
<1>3. Plain(<<>>) = FlattenSeq([i \in DOMAIN <<>> |-> Piece(<<>>, i)])
  BY DEF Plain, Decoded, Piece
<1> QED
  BY <1>1, <1>2, <1>3

-----------------------------------------------------------------------------
(***************************************************************************)
(* What the parser has done with what it has received.                     *)
(***************************************************************************)

\* No quote ends a message so far; and what comes next is escaped.
Unclosed(v) == \A i \in DOMAIN v : v[i] = "quote" => Escaped(v, i)
Owes(v) == Escaped(v, Len(v) + 1)

\* A part of a text.
LEMMA Part ==
  ASSUME NEW T, NEW b \in Seq(T), NEW q \in Nat \ {0}, NEW s \in q - 1 .. Len(b)
  PROVE  /\ SubSeq(b, q, s) \in Seq(T) /\ Len(SubSeq(b, q, s)) = s - q + 1
         /\ s - q + 1 \in Nat
         /\ \A i \in 1 .. s - q + 1 : SubSeq(b, q, s)[i] = b[q + i - 1]
<1>0. Len(b) \in Nat
  OBVIOUS
<1>1. q \in Int /\ s \in Int /\ \A i \in q .. s : i \in 1 .. Len(b)
  BY <1>0
<1>2. \A i \in q .. s : b[i] \in T
  BY <1>1
<1> DEFINE v == SubSeq(b, q, s)
<1>3. v \in Seq(T) /\ Len(v) = (IF q <= s THEN s - q + 1 ELSE 0)
        /\ \A i \in 1 .. s - q + 1 : v[i] = b[q + i - 1]
  BY <1>1, <1>2, SubSeqProperties
<1>4. s - q + 1 \in Nat /\ (IF q <= s THEN s - q + 1 ELSE 0) = s - q + 1
  BY <1>0, <1>1
<1> HIDE DEF v
<1> QED
  BY <1>3, <1>4 DEF v

\* One more symbol of the message.
LEMMA OneMore ==
  ASSUME NEW b \in Seq(Symbols), NEW q \in Nat \ {0}, NEW s \in q - 1 .. Len(b) - 1,
         Unclosed(SubSeq(b, q, s))
  PROVE  LET c == b[s + 1]
             v == SubSeq(b, q, s)
             w == SubSeq(b, q, s + 1) IN
         /\ Plain(v) \in Seq(Chars) /\ c \in Symbols
         /\ (c = "quote" => Owes(v)) => Unclosed(w)
         /\ Owes(w) <=> c = "esc" /\ ~Owes(v)
         /\ Plain(w) = Plain(v) \o (IF ~Owes(v) THEN IF c = "esc" THEN <<>> ELSE <<c>>
                                    ELSE IF c = "u" THEN Unicode ELSE <<Unescape(c)>>)
<1> DEFINE n == s - q + 1
           v == SubSeq(b, q, s)
           w == SubSeq(b, q, s + 1)
<1>0. Len(b) \in Nat /\ s \in Int /\ s \in q - 1 .. Len(b) /\ s + 1 \in q - 1 .. Len(b)
      /\ s + 1 \in 1 .. Len(b) /\ n \in Nat /\ s + 1 - q + 1 = n + 1
      /\ n + 1 \in Nat \ {0}
  OBVIOUS
<1>1. /\ v \in Seq(Symbols) /\ Len(v) = n /\ \A i \in 1 .. n : v[i] = b[q + i - 1]
      /\ w \in Seq(Symbols) /\ Len(w) = n + 1 /\ \A i \in 1 .. n + 1 : w[i] = b[q + i - 1]
  <2>1. v \in Seq(Symbols) /\ Len(v) = n /\ \A i \in 1 .. n : v[i] = b[q + i - 1]
    BY <1>0, Part
  <2>2. /\ w \in Seq(Symbols) /\ Len(w) = s + 1 - q + 1
        /\ \A i \in 1 .. s + 1 - q + 1 : w[i] = b[q + i - 1]
    BY <1>0, Part
  <2> HIDE DEF n
  <2> QED
    BY <1>0, <2>1, <2>2
<1>2. q + (n + 1) - 1 = s + 1 /\ n + 1 \in 1 .. n + 1
  BY <1>0
<1>u. Unclosed(v)
  OBVIOUS
<1> HIDE DEF n, v, w
<1>3. w[n + 1] = b[s + 1] /\ b[s + 1] \in Symbols
  <2>1. b[s + 1] \in Symbols
    BY <1>0
  <2>2. PICK m \in 1 .. n + 1 : m = n + 1 /\ q + m - 1 = s + 1
    BY <1>2
  <2>3. w[m] = b[q + m - 1]
    BY <1>1
  <2> QED
    BY <2>1, <2>2, <2>3
<1>4. \A i \in 1 .. n : i \in 1 .. n + 1 /\ w[i] = v[i]
  <2>1. \A i \in 1 .. n : i \in 1 .. n + 1
    BY <1>0
  <2> QED
    BY <1>1, <2>1
<1>5. \A i \in 1 .. n + 1 : Escaped(w, i) <=> Escaped(v, i)
  <2> SUFFICES ASSUME NEW i \in 1 .. n + 1 PROVE Escaped(w, i) <=> Escaped(v, i)
    OBVIOUS
  <2>1. i \in Nat /\ \A j \in 1 .. i - 1 : j \in 1 .. n
    BY <1>0
  <2> QED
    BY <1>4, <2>1, EscapedFront
<1>6. Escaped(w, n + 1) <=> Owes(v)
  BY <1>1, <1>2, <1>5 DEF Owes
<1>7. Owes(w) <=> b[s + 1] = "esc" /\ ~Owes(v)
  <2>1. Owes(w) <=> w[n + 1] = "esc" /\ ~Escaped(w, n + 1)
    BY <1>0, <1>1, EscapedNext DEF Owes
  <2> QED
    BY <1>3, <1>6, <2>1
<1>8. ASSUME b[s + 1] = "quote" => Owes(v) PROVE Unclosed(w)
  <2> SUFFICES ASSUME NEW i \in 1 .. n + 1, w[i] = "quote" PROVE Escaped(w, i)
    BY <1>1 DEF Unclosed
  <2>1. CASE i = n + 1
    BY <1>3, <1>6, <1>8, <2>1
  <2>2. CASE i # n + 1
    <3>1. i \in 1 .. n /\ DOMAIN v = 1 .. n
      BY <1>0, <1>1, <2>2
    <3>2. v[i] = "quote"
      BY <1>4, <3>1
    <3> QED
      BY <1>5, <1>u, <3>1, <3>2 DEF Unclosed
  <2> QED
    BY <2>1, <2>2
<1>9. Plain(v) \in Seq(Chars) /\ Plain(w) = Plain(v) \o Piece(w, n + 1)
  <2>1. Len(w) = Len(v) + 1 /\ \A i \in 1 .. Len(v) : w[i] = v[i]
    BY <1>1, <1>4
  <2> QED
    BY <1>1, <2>1, DecodedMore
<1>10. Piece(w, n + 1) = (IF ~Owes(v) THEN IF b[s + 1] = "esc" THEN <<>> ELSE <<b[s + 1]>>
                          ELSE IF b[s + 1] = "u" THEN Unicode ELSE <<Unescape(b[s + 1])>>)
  BY <1>3, <1>6 DEF Piece
<1> QED
  BY <1>3, <1>7, <1>8, <1>9, <1>10 DEF v, w

\* The states the parser can be in when it has received b.
Modes == {"seeking", "inside", "after"}
Machine(b) == [mode : Modes, scan : 0 .. Len(b), pending : BOOLEAN, out : Seq(Chars)]

\* Nothing is taken for the message yet.
Seeks(m, a) == m.mode = "seeking" /\ m.scan = 0 /\ ~m.pending /\ a = <<>>

\* The answer is what the symbols scanned so far decode to, but between the
\* backslash and the u of an escape.
Whole(v, m, a) == a = Plain(v) /\ (m.pending <=> Owes(v))
Half(b, v, m, a) ==
  /\ a = Append(Plain(v), "esc") /\ Owes(v) /\ ~m.pending
  /\ m.scan < Len(b) /\ b[m.scan + 1] = "u"
Inside(b, q, m, a) ==
  /\ m.mode = "inside" /\ Opens(b, q - 1) /\ m.scan \in q - 1 .. Len(b)
  /\ LET v == SubSeq(b, q, m.scan) IN Unclosed(v) /\ (Whole(v, m, a) \/ Half(b, v, m, a))

\* The quote at e ended the message.
After(b, q, e, m, a) ==
  /\ m.mode = "after" /\ Opens(b, q - 1) /\ e \in q .. m.scan /\ b[e] = "quote" /\ ~m.pending
  /\ LET v == SubSeq(b, q, e - 1) IN Unclosed(v) /\ ~Owes(v) /\ a = Plain(v)

\* The parser is where a reader of b would be, who has written a.
Follows(b, m, a) ==
  \/ Seeks(m, a)
  \/ \E q \in 2 .. Len(b) + 1 : Inside(b, q, m, a)
  \/ \E q, e \in 2 .. Len(b) + 1 : After(b, q, e, m, a)

\* What is left to scan, twice, and a turn for a pending backslash.
Left(b, m) == 2 * (Len(b) - m.scan) + (IF m.pending THEN 1 ELSE 0)

\* A character is written behind those written before.
LEMMA EmitIs ==
  ASSUME NEW b \in Seq(Symbols), NEW m \in Machine(b), NEW c \in Chars,
         NEW n \in Nat, m.scan + n <= Len(b), NEW a \in Seq(Chars)
  PROVE  /\ Emit(m, c, n, FALSE) \in Machine(b)
         /\ Emit(m, c, n, FALSE).mode = m.mode /\ Emit(m, c, n, FALSE).scan = m.scan + n
         /\ Emit(m, c, n, FALSE).pending = FALSE
         /\ a \o Emit(m, c, n, FALSE).out = Append(a \o m.out, c)
         /\ a \o m.out \in Seq(Chars)
<1> DEFINE r == Emit(m, c, n, FALSE)
<1>1. m.scan + n \in 0 .. Len(b) /\ Append(m.out, c) \in Seq(Chars) /\ m.out \in Seq(Chars)
      /\ m.mode \in Modes
  BY DEF Machine
<1>2. r = [m EXCEPT !.out = Append(m.out, c), !.scan = m.scan + n, !.pending = FALSE]
  BY DEF Emit
<1>3. /\ r \in Machine(b) /\ r.mode = m.mode /\ r.scan = m.scan + n /\ r.pending = FALSE
      /\ r.out = Append(m.out, c)
  <2> HIDE DEF r
  <2> QED
    BY <1>1, <1>2 DEF Machine
<1> HIDE DEF r
<1>4. a \o r.out = Append(a \o m.out, c) /\ a \o m.out \in Seq(Chars)
  <2>1. r.out = m.out \o <<c>> /\ <<c>> \in Seq(Chars)
    BY <1>1, <1>3, AppendIsConcat
  <2>2. a \o m.out \in Seq(Chars)
    BY <1>1, ConcatProperties
  <2>3. a \o (m.out \o <<c>>) = (a \o m.out) \o <<c>>
    <3> DEFINE o == m.out
               d == <<c>>
    <3>1. a \in Seq(Chars) /\ o \in Seq(Chars) /\ d \in Seq(Chars)
      BY <1>1, <2>1
    <3> HIDE DEF o, d
    <3>2. a \o (o \o d) = (a \o o) \o d
      BY <3>1, ConcatAssociative
    <3> QED
      BY <3>2 DEF o, d
  <2>4. Append(a \o m.out, c) = (a \o m.out) \o <<c>>
    BY <2>2, AppendIsConcat
  <2> QED
    BY <2>1, <2>2, <2>3, <2>4
<1> QED
  BY <1>3, <1>4 DEF r

\* One turn inside the message.
LEMMA ConsumeFollows ==
  ASSUME NEW b \in Seq(Symbols), NEW m \in Machine(b), NEW a \in Seq(Chars),
         NEW q \in 2 .. Len(b) + 1, Inside(b, q, m, a \o m.out), m.scan < Len(b)
  PROVE  /\ Consume(b, m) \in Machine(b)
         /\ \/ Inside(b, q, Consume(b, m), a \o Consume(b, m).out)
            \/ \E e \in 2 .. Len(b) + 1 : After(b, q, e, Consume(b, m), a \o Consume(b, m).out)
         /\ Left(b, Consume(b, m)) < Left(b, m)
<1> DEFINE s == m.scan
           c == b[s + 1]
           r == Consume(b, m)
           all == a \o m.out
           v == SubSeq(b, q, s)
           w == SubSeq(b, q, s + 1)
<1>1. /\ Len(b) \in Nat /\ s \in Nat /\ q \in Nat \ {0} /\ s \in q - 1 .. Len(b) - 1
      /\ s + 1 \in 1 .. Len(b) /\ c \in Symbols
  <2>1. Len(b) \in Nat /\ q \in Nat \ {0}
    OBVIOUS
  <2>2. s \in q - 1 .. Len(b) /\ s < Len(b)
    BY DEF Inside
  <2> HIDE DEF s
  <2>3. s \in Nat /\ s \in q - 1 .. Len(b) - 1 /\ s + 1 \in 1 .. Len(b)
    BY <2>1, <2>2
  <2> QED
    BY <2>1, <2>3
<1>2. m.mode = "inside" /\ Opens(b, q - 1) /\ Unclosed(v) /\ (Whole(v, m, all) \/ Half(b, v, m, all))
  BY DEF Inside
<1>3. /\ Plain(v) \in Seq(Chars)
      /\ (c = "quote" => Owes(v)) => Unclosed(w)
      /\ Owes(w) <=> c = "esc" /\ ~Owes(v)
      /\ Plain(w) = Plain(v) \o (IF ~Owes(v) THEN IF c = "esc" THEN <<>> ELSE <<c>>
                                 ELSE IF c = "u" THEN Unicode ELSE <<Unescape(c)>>)
  <2> HIDE DEF s
  <2> QED
    BY <1>1, <1>2, OneMore DEF s
<1> DEFINE D == Plain(v)
<1>4. \A x \in Chars : D \o <<x>> = Append(D, x) /\ Append(D, x) \in Seq(Chars)
  BY <1>3, AppendIsConcat, AppendProperties
<1>5. /\ c \in Chars /\ "esc" \in Chars /\ "u" \in Chars /\ Unescape(c) \in Chars
  BY <1>1 DEF Chars, Unescape
<1>6. D \o Unicode = Append(Append(D, "esc"), "u") /\ D \o <<>> = D
  <2>1. Unicode = <<"esc">> \o <<"u">> /\ <<"esc">> \in Seq(Chars) /\ <<"u">> \in Seq(Chars)
    BY <1>5 DEF Unicode
  <2>2. D \o (<<"esc">> \o <<"u">>) = (D \o <<"esc">>) \o <<"u">>
    BY <1>3, <2>1, ConcatAssociative
  <2>3. D \o <<"esc">> = Append(D, "esc") /\ Append(D, "esc") \in Seq(Chars)
    BY <1>4, <1>5
  <2>4. Append(D, "esc") \o <<"u">> = Append(Append(D, "esc"), "u")
    BY <1>5, <2>3, AppendIsConcat
  <2>5. D \o <<>> = D
    BY <1>3, ConcatEmptySeq
  <2> QED
    BY <2>1, <2>2, <2>3, <2>4, <2>5
<1>7. m.pending \in BOOLEAN /\ all \in Seq(Chars)
  BY ConcatProperties DEF Machine
<1>e. ASSUME NEW x \in Chars, NEW n \in Nat, s + n <= Len(b)
      PROVE  LET e == Emit(m, x, n, FALSE) IN
             /\ e \in Machine(b) /\ e.mode = m.mode /\ e.scan = s + n /\ e.pending = FALSE
             /\ a \o e.out = Append(all, x)
  BY <1>e, EmitIs
\* It scans a symbol that continues the message.
<1>8. ASSUME NEW x \in Chars, r = Emit(m, x, 1, FALSE), c = "quote" => Owes(v),
             Append(all, x) = Plain(w), ~Owes(w)
      PROVE  r \in Machine(b) /\ Inside(b, q, r, a \o r.out) /\ Left(b, r) < Left(b, m)
  <2>1. /\ r \in Machine(b) /\ r.mode = m.mode /\ r.scan = s + 1 /\ r.pending = FALSE
        /\ a \o r.out = Append(all, x)
    <3>1. 1 \in Nat /\ s + 1 <= Len(b)
      BY <1>1
    <3> DEFINE e == Emit(m, x, 1, FALSE)
    <3>2. /\ e \in Machine(b) /\ e.mode = m.mode /\ e.scan = s + 1 /\ e.pending = FALSE
          /\ a \o e.out = Append(all, x)
      BY <1>e, <3>1
    <3>3. r = e
      BY <1>8
    <3> HIDE DEF r, e, all
    <3> QED
      BY <3>2, <3>3
  <2>2. s + 1 \in q - 1 .. Len(b)
    <3> HIDE DEF s
    <3> QED
      BY <1>1
  <2>3. Unclosed(w)
    BY <1>3, <1>8
  <2> HIDE DEF r, v, w, all, c
  <2>4. Whole(w, r, a \o r.out)
    BY <1>8, <2>1 DEF Whole
  <2>5. Inside(b, q, r, a \o r.out)
    BY <1>2, <2>1, <2>2, <2>3, <2>4 DEF Inside, w
  <2>6. Left(b, r) < Left(b, m)
    <3>1. r.scan = s + 1 /\ ~r.pending /\ s = m.scan
      BY <2>1 DEF s
    <3>2. (IF m.pending THEN 1 ELSE 0) \in {0, 1} /\ (IF r.pending THEN 1 ELSE 0) = 0
      BY <3>1
    <3> DEFINE y == IF m.pending THEN 1 ELSE 0
    <3>3. Left(b, r) = 2 * (Len(b) - (s + 1)) /\ Left(b, m) = 2 * (Len(b) - s) + y
      <4>1. Left(b, r) = 2 * (Len(b) - (s + 1)) + 0
        BY <3>1, <3>2 DEF Left
      <4>2. 2 * (Len(b) - (s + 1)) + 0 = 2 * (Len(b) - (s + 1))
        BY <1>1
      <4> QED
        BY <4>1, <4>2 DEF Left
    <3> HIDE DEF s, y
    <3> QED
      BY <1>1, <3>2, <3>3 DEF y
  <2> QED
    BY <2>1, <2>5, <2>6
<1> HIDE DEF r
<1>9. CASE Half(b, v, m, all)
  <2>1. ~m.pending /\ all = Append(D, "esc") /\ Owes(v) /\ c = "u"
    BY <1>9 DEF Half
  <2>2. r = Emit(m, c, 1, FALSE)
    BY <2>1 DEF Consume, r
  <2>3. Append(all, c) = Plain(w) /\ ~Owes(w)
    <3> HIDE DEF v, w, c, all, D
    <3> QED
      BY <1>3, <1>6, <2>1 DEF D
  <2> QED
    BY <1>5, <1>8, <2>1, <2>2, <2>3 DEF r
<1>10. CASE Whole(v, m, all) /\ m.pending
  <2>1. all = D /\ Owes(v)
    BY <1>10 DEF Whole
  <2>2. r = Escape(m, c, 1)
    BY <1>10 DEF Consume, r
  <2>3. CASE c = "u"
    <3>1. r = Emit(m, "esc", 0, FALSE)
      BY <2>2, <2>3 DEF Escape
    <3>2. /\ r \in Machine(b) /\ r.mode = m.mode /\ r.scan = s + 0 /\ r.pending = FALSE
          /\ a \o r.out = Append(all, "esc")
      <4>1. 0 \in Nat /\ s + 0 <= Len(b) /\ "esc" \in Chars
        BY <1>1, <1>5
      <4> DEFINE e == Emit(m, "esc", 0, FALSE)
      <4>2. /\ e \in Machine(b) /\ e.mode = m.mode /\ e.scan = s + 0 /\ e.pending = FALSE
            /\ a \o e.out = Append(all, "esc")
        BY <1>e, <4>1
      <4>3. r = e
        BY <3>1
      <4> HIDE DEF e, all
      <4> QED
        BY <4>2, <4>3
    <3>3. r.scan = s /\ s \in q - 1 .. Len(b) /\ s < Len(b)
      <4> HIDE DEF s
      <4> QED
        BY <1>1, <3>2
    <3>4. Half(b, v, r, a \o r.out)
      <4> HIDE DEF v, all, s
      <4> QED
        BY <2>1, <2>3, <3>2, <3>3 DEF Half
    <3>5. Inside(b, q, r, a \o r.out)
      <4> HIDE DEF all
      <4> QED
        BY <1>2, <3>2, <3>3, <3>4 DEF Inside
    <3>6. Left(b, r) < Left(b, m)
      <4> HIDE DEF s
      <4> QED
        BY <1>1, <1>10, <3>2, <3>3 DEF Left, s
    <3> QED
      BY <3>2, <3>5, <3>6 DEF r
  <2>4. CASE c # "u"
    <3>1. r = Emit(m, Unescape(c), 1, FALSE)
      BY <2>2, <2>4 DEF Escape
    <3>2. Append(all, Unescape(c)) = Plain(w) /\ ~Owes(w)
      <4> HIDE DEF v, w, c, all, D
      <4> QED
        BY <1>3, <1>4, <1>5, <2>1, <2>4 DEF D
    <3> QED
      BY <1>5, <1>8, <2>1, <3>1, <3>2 DEF r
  <2> QED
    BY <2>3, <2>4
<1>11. CASE Whole(v, m, all) /\ ~m.pending
  <2>1. all = D /\ ~Owes(v)
    BY <1>11 DEF Whole
  <2>2. CASE c = "quote"
    <3>1. r = [m EXCEPT !.scan = s + 1, !.mode = "after"]
      BY <1>11, <2>2 DEF Consume, r
    <3>2. /\ r \in Machine(b) /\ r.mode = "after" /\ r.scan = s + 1 /\ r.pending = m.pending
          /\ r.out = m.out
      <4>1. s + 1 \in 0 .. Len(b) /\ "after" \in Modes
        BY <1>1 DEF Modes
      <4> HIDE DEF s
      <4> QED
        BY <3>1, <4>1 DEF Machine
    <3>3. s + 1 \in 2 .. Len(b) + 1 /\ s + 1 \in q .. s + 1 /\ s + 1 - 1 = s
      <4> HIDE DEF s
      <4> QED
        BY <1>1
    <3>4. PICK e \in 2 .. Len(b) + 1 : e = s + 1 /\ e - 1 = s /\ e \in q .. s + 1
      <4> HIDE DEF s
      <4> QED
        BY <1>1, <3>3
    <3>6. After(b, q, e, r, a \o r.out)
      <4>1. b[e] = "quote" /\ ~r.pending /\ a \o r.out = Plain(v) /\ SubSeq(b, q, e - 1) = v
        BY <1>11, <2>1, <2>2, <3>2, <3>4
      <4>2. e \in q .. r.scan /\ r.mode = "after"
        BY <3>2, <3>4
      <4>3. Opens(b, q - 1) /\ Unclosed(v) /\ ~Owes(v)
        BY <1>2, <2>1
      <4> HIDE DEF s, v, all
      <4> QED
        BY <4>1, <4>2, <4>3 DEF After
    <3>5. Left(b, r) < Left(b, m)
      <4>1. r.scan = s + 1 /\ ~r.pending /\ m.scan = s /\ ~m.pending
        BY <1>11, <3>2 DEF s
      <4> HIDE DEF s
      <4>2. Left(b, r) = 2 * (Len(b) - (s + 1)) + 0 /\ Left(b, m) = 2 * (Len(b) - s) + 0
        BY <4>1 DEF Left
      <4>3. 2 * (Len(b) - (s + 1)) + 0 < 2 * (Len(b) - s) + 0
        BY <1>1
      <4> QED
        BY <4>2, <4>3
    <3> QED
      BY <3>2, <3>5, <3>6 DEF r
  <2>3. CASE c # "quote" /\ c # "esc"
    <3>1. r = Emit(m, c, 1, FALSE)
      BY <1>11, <2>3 DEF Consume, r
    <3>2. Append(all, c) = Plain(w) /\ ~Owes(w)
      <4> HIDE DEF v, w, c, all, D
      <4> QED
        BY <1>3, <1>4, <1>5, <2>1, <2>3 DEF D
    <3> QED
      BY <1>5, <1>8, <2>3, <3>1, <3>2 DEF r
  <2>4. CASE c = "esc" /\ s + 1 = Len(b)
    <3>1. r = [m EXCEPT !.scan = s + 1, !.pending = TRUE]
      BY <1>11, <2>4 DEF Consume, r
    <3>2. /\ r \in Machine(b) /\ r.mode = "inside" /\ r.scan = s + 1 /\ r.pending
          /\ r.out = m.out
      <4>1. s + 1 \in 0 .. Len(b)
        BY <1>1
      <4> HIDE DEF s
      <4> QED
        BY <1>2, <3>1, <4>1 DEF Machine
    <3>3. Owes(w) /\ Unclosed(w) /\ Plain(w) = all
      <4> HIDE DEF v, w, c, all, D
      <4> QED
        BY <1>3, <1>6, <2>1, <2>4 DEF D
    <3>4. s + 1 \in q - 1 .. Len(b)
      <4> HIDE DEF s
      <4> QED
        BY <1>1
    <3>5. Inside(b, q, r, a \o r.out)
      BY <1>2, <3>2, <3>3, <3>4 DEF Inside, Whole
    <3>6. Left(b, r) < Left(b, m)
      <4> HIDE DEF s
      <4> QED
        BY <1>1, <1>11, <3>2 DEF Left, s
    <3> QED
      BY <3>2, <3>5, <3>6 DEF r
  <2>5. CASE c = "esc" /\ s + 1 # Len(b)
    <3> DEFINE d == b[s + 2]
               x == SubSeq(b, q, s + 1 + 1)
    <3>1. r = Escape(m, d, 2)
      BY <1>11, <2>5 DEF Consume, r
    <3>2. s + 1 \in q - 1 .. Len(b) - 1 /\ s + 1 + 1 = s + 2 /\ s + 2 \in 1 .. Len(b)
      <4>1. s + 1 # Len(b)
        BY <2>5
      <4> HIDE DEF s
      <4> QED
        BY <1>1, <4>1
    <3>3. Owes(w) /\ Unclosed(w) /\ Plain(w) = all
      <4> HIDE DEF v, w, c, all, D
      <4> QED
        BY <1>3, <1>6, <2>1, <2>5 DEF D
    <3>4. /\ d \in Symbols /\ Unclosed(x) /\ ~Owes(x)
          /\ Plain(x) = Plain(w) \o (IF d = "u" THEN Unicode ELSE <<Unescape(d)>>)
      <4> HIDE DEF s, all
      <4>1. b[s + 1 + 1] = d
        BY <3>2
      <4> HIDE DEF d
      <4> QED
        BY <1>1, <3>2, <3>3, <4>1, OneMore
    <3>5. CASE d = "u"
      <4>1. r = Emit(m, "esc", 1, FALSE)
        <5>1. 2 - 1 = 1
          OBVIOUS
        <5> QED
          BY <3>1, <3>5, <5>1 DEF Escape
      <4>2. /\ r \in Machine(b) /\ r.mode = m.mode /\ r.scan = s + 1 /\ r.pending = FALSE
            /\ a \o r.out = Append(all, "esc")
        <5>1. 1 \in Nat /\ s + 1 <= Len(b) /\ "esc" \in Chars
          BY <1>1, <1>5
        <5> DEFINE e == Emit(m, "esc", 1, FALSE)
        <5>2. /\ e \in Machine(b) /\ e.mode = m.mode /\ e.scan = s + 1 /\ e.pending = FALSE
              /\ a \o e.out = Append(all, "esc")
          BY <1>e, <5>1
        <5>3. r = e
          BY <4>1
        <5> HIDE DEF e, all
        <5> QED
          BY <5>2, <5>3
      <4>3. s + 1 < Len(b) /\ s + 1 \in q - 1 .. Len(b) /\ b[s + 1 + 1] = "u"
        <5>1. b[s + 1 + 1] = "u"
          BY <3>2, <3>5
        <5> HIDE DEF s
        <5> QED
          BY <1>1, <3>2, <5>1
      <4>4. Half(b, w, r, a \o r.out)
        <5> HIDE DEF w, all, s
        <5> QED
          BY <3>3, <4>2, <4>3 DEF Half
      <4>5. Inside(b, q, r, a \o r.out)
        <5> HIDE DEF all
        <5> QED
          BY <1>2, <3>3, <4>2, <4>3, <4>4 DEF Inside
      <4>6. Left(b, r) < Left(b, m)
        <5> HIDE DEF s
        <5> QED
          BY <1>1, <1>11, <4>2 DEF Left, s
      <4> QED
        BY <4>2, <4>5, <4>6 DEF r
    <3>6. CASE d # "u"
      <4>1. r = Emit(m, Unescape(d), 2, FALSE)
        BY <3>1, <3>6 DEF Escape
      <4>2. Unescape(d) \in Chars
        BY <3>4 DEF Chars, Unescape
      <4>3. /\ r \in Machine(b) /\ r.mode = m.mode /\ r.scan = s + 2 /\ r.pending = FALSE
            /\ a \o r.out = Append(all, Unescape(d))
        <5> DEFINE y == Unescape(d)
                   e == Emit(m, y, 2, FALSE)
        <5>1. 2 \in Nat /\ s + 2 <= Len(b) /\ y \in Chars
          BY <1>1, <3>2, <4>2
        <5>2. r = e
          BY <4>1
        <5> HIDE DEF y
        <5>3. /\ e \in Machine(b) /\ e.mode = m.mode /\ e.scan = s + 2 /\ e.pending = FALSE
              /\ a \o e.out = Append(all, y)
          BY <1>e, <5>1
        <5> HIDE DEF e, all, s
        <5> QED
          BY <5>2, <5>3 DEF y
      <4>4. Append(all, Unescape(d)) = Plain(x)
        <5>1. Append(all, Unescape(d)) = all \o <<Unescape(d)>>
          BY <1>7, <4>2, AppendIsConcat
        <5> HIDE DEF all, w, x, d
        <5> QED
          BY <3>3, <3>4, <3>6, <5>1
      <4>5. s + 2 \in q - 1 .. Len(b) /\ x = SubSeq(b, q, s + 2)
        <5>1. s + 2 \in q - 1 .. Len(b)
          <6> HIDE DEF s
          <6> QED
            BY <1>1, <3>2
        <5> QED
          BY <3>2, <5>1
      <4>6. Inside(b, q, r, a \o r.out)
        <5> HIDE DEF all, x
        <5> QED
          BY <1>2, <3>4, <4>3, <4>4, <4>5 DEF Inside, Whole
      <4>7. Left(b, r) < Left(b, m)
        <5>1. r.scan = s + 2 /\ ~r.pending /\ s = m.scan /\ ~m.pending
          BY <1>11, <4>3 DEF s
        <5>2. /\ Left(b, r) = 2 * (Len(b) - (s + 2)) + 0 /\ Left(b, m) = 2 * (Len(b) - s) + 0
          BY <5>1 DEF Left
        <5> HIDE DEF s
        <5> QED
          BY <1>1, <5>2
      <4> QED
        BY <4>3, <4>6, <4>7 DEF r
    <3> QED
      BY <3>5, <3>6
  <2> QED
    BY <2>2, <2>3, <2>4, <2>5
<1> QED
  BY <1>2, <1>9, <1>10, <1>11

\* One turn of the loop.
LEMMA TurnFollows ==
  ASSUME NEW b \in Seq(Symbols), NEW m \in Machine(b), NEW a \in Seq(Chars),
         Follows(b, m, a \o m.out), ~Waits(b, m)
  PROVE  /\ Turn(b, m) \in Machine(b) /\ Follows(b, Turn(b, m), a \o Turn(b, m).out)
         /\ Left(b, Turn(b, m)) < Left(b, m)
<1> DEFINE r == Turn(b, m)
<1>1. m.scan \in 0 .. Len(b) /\ Len(b) \in Nat /\ m.scan < Len(b)
  <2>1. m.scan \in 0 .. Len(b) /\ Len(b) \in Nat
    BY DEF Machine
  <2>2. ~(m.scan >= Len(b))
    BY DEF Waits
  <2> QED
    BY <2>1, <2>2
<1>2. CASE Seeks(m, a \o m.out)
  <2>1. m.mode = "seeking" /\ m.scan = 0 /\ m.pending = FALSE /\ a \o m.out = <<>>
    BY <1>2 DEF Seeks, Machine
  <2>2. ValueStart(b) # 0
    BY <2>1 DEF Waits
  <2>3. PICK i \in 4 .. Len(b) : ValueStart(b) = i + 1
    BY <2>2, StartIs
  <2>4. i \in 1 .. Len(b) /\ i + 1 \in 2 .. Len(b) + 1 /\ i + 1 - 1 = i /\ i \in Nat \ {0}
        /\ i \in 0 .. Len(b) /\ i + 1 \in Nat \ {0}
    BY <1>1
  <2>5. Opens(b, i)
    BY <2>3, <2>4, StartIs
  <2>6. r = [m EXCEPT !.scan = i, !.mode = "inside"]
    <3> DEFINE k == ValueStart(b) - 1
    <3>1. k = i
      BY <2>3, <2>4
    <3>2. r = [m EXCEPT !.scan = k, !.mode = "inside"]
      BY <2>1 DEF Turn
    <3> HIDE DEF k, r
    <3> QED
      BY <3>1, <3>2
  <2>7. /\ r \in Machine(b) /\ r.mode = "inside" /\ r.scan = i /\ r.pending = FALSE
        /\ r.out = m.out
    <3> HIDE DEF r
    <3> QED
      BY <2>1, <2>4, <2>6 DEF Machine, Modes
  <2> HIDE DEF r
  <2>8. PICK q \in 2 .. Len(b) + 1 : q = i + 1 /\ q - 1 = i /\ q \in Nat \ {0}
    BY <2>4
  <2> DEFINE v == SubSeq(b, q, i)
  <2>9. v = <<>>
    <3>1. q \in Int /\ i \in Int /\ i < q
      BY <2>4, <2>8
    <3> QED
      BY <3>1, SubSeqEmpty
  <2>10. Unclosed(v) /\ ~Owes(v) /\ Plain(v) = <<>>
    <3>1. Unclosed(<<>>)
      BY DEF Unclosed
    <3>2. ~Owes(<<>>)
      <4>1. Len(<<>>) + 1 = 1
        OBVIOUS
      <4> QED
        BY <4>1, EscapedFront DEF Owes
    <3> QED
      BY <2>9, <3>1, <3>2, DecodedNothing
  <2>11. Inside(b, q, r, a \o r.out)
    <3>1. Opens(b, q - 1) /\ r.scan \in q - 1 .. Len(b)
      BY <2>4, <2>5, <2>7, <2>8
    <3> HIDE DEF v
    <3>2. Whole(v, r, a \o r.out)
      BY <2>1, <2>7, <2>10 DEF Whole
    <3> QED
      BY <2>7, <2>10, <3>1, <3>2 DEF Inside, v
  <2>12. Left(b, r) < Left(b, m)
    <3>1. Left(b, r) = 2 * (Len(b) - i) + 0 /\ Left(b, m) = 2 * (Len(b) - 0) + 0
      BY <2>1, <2>7 DEF Left
    <3> QED
      BY <1>1, <2>4, <3>1
  <2> QED
    BY <2>7, <2>11, <2>12 DEF Follows, r
<1>3. ASSUME NEW q \in 2 .. Len(b) + 1, Inside(b, q, m, a \o m.out)
      PROVE  /\ r \in Machine(b) /\ Follows(b, r, a \o r.out)
             /\ Left(b, r) < Left(b, m)
  <2>1. r = Consume(b, m)
    BY <1>3 DEF Turn, Inside
  <2> HIDE DEF r
  <2>2. /\ r \in Machine(b)
        /\ \/ Inside(b, q, r, a \o r.out)
           \/ \E e \in 2 .. Len(b) + 1 : After(b, q, e, r, a \o r.out)
        /\ Left(b, r) < Left(b, m)
    BY <1>1, <1>3, <2>1, ConsumeFollows
  <2> QED
    BY <2>2 DEF Follows
<1>4. ASSUME NEW q \in 2 .. Len(b) + 1, NEW e \in 2 .. Len(b) + 1, After(b, q, e, m, a \o m.out)
      PROVE  /\ r \in Machine(b) /\ Follows(b, r, a \o r.out)
             /\ Left(b, r) < Left(b, m)
  <2>1. m.mode = "after" /\ m.pending = FALSE /\ e \in q .. m.scan
    BY <1>4 DEF After, Machine
  <2>2. r = [m EXCEPT !.scan = Len(b)]
    BY <2>1 DEF Turn
  <2> HIDE DEF r
  <2>3. /\ r \in Machine(b) /\ r.mode = "after" /\ r.scan = Len(b) /\ r.pending = FALSE
        /\ r.out = m.out
    <3>1. Len(b) \in 0 .. Len(b)
      BY <1>1
    <3> QED
      BY <2>1, <2>2, <3>1 DEF Machine
  <2>4. e \in q .. r.scan
    BY <1>1, <2>1, <2>3
  <2>5. After(b, q, e, r, a \o r.out)
    BY <1>4, <2>3, <2>4 DEF After
  <2>6. Left(b, r) < Left(b, m)
    <3>1. Left(b, r) = 2 * (Len(b) - Len(b)) + 0 /\ Left(b, m) = 2 * (Len(b) - m.scan) + 0
      BY <2>1, <2>3 DEF Left
    <3> QED
      BY <1>1, <3>1
  <2> QED
    BY <2>3, <2>5, <2>6 DEF Follows
<1> QED
  BY <1>2, <1>3, <1>4 DEF Follows

\* The state of the parser between two slices.
Parser == [mode |-> mode, scan |-> scan, pending |-> pending, out |-> <<>>]

\* The loop of push ends with nothing left to do.
LEMMA ScannedFollows ==
  ASSUME NEW b \in Seq(Symbols), NEW a \in Seq(Chars),
         Parser \in Machine(b), Follows(b, Parser, a)
  PROVE  /\ Scanned(b) \in Machine(b) /\ Follows(b, Scanned(b), a \o Scanned(b).out)
         /\ Waits(b, Scanned(b))
<1> DEFINE n == 2 * (Len(b) - scan) + 1
           V == {m \in Machine(b) : Follows(b, m, a \o m.out)}
           g == [k \in 1 .. n |-> [m \in V |-> Turn(b, m)]]
           Rec(f) == f = [k \in 0 .. n |-> IF k = 0 THEN Parser ELSE Turn(b, f[k - 1])]
           turns == CHOOSE f : Rec(f)
<1>1. Len(b) \in Nat /\ scan \in 0 .. Len(b) /\ n \in Nat
  BY DEF Parser, Machine
<1>2. \A m \in V : m \in Machine(b) /\ Follows(b, m, a \o m.out)
  OBVIOUS
<1>3. ASSUME NEW m \in V
      PROVE  Turn(b, m) \in V /\ (Waits(b, m) => Turn(b, m) = m)
             /\ (~Waits(b, m) => Left(b, Turn(b, m)) < Left(b, m))
  <2>1. m \in Machine(b) /\ Follows(b, m, a \o m.out)
    BY <1>2
  <2>2. CASE Waits(b, m)
    BY <2>1, <2>2 DEF Turn
  <2>3. CASE ~Waits(b, m)
    BY <2>1, <2>3, TurnFollows
  <2> QED
    BY <2>2, <2>3
<1>4. Parser \in V
  <2>1. a \o Parser.out = a
    BY ConcatEmptySeq DEF Parser
  <2> QED
    BY <2>1
<1> HIDE DEF V
<1>5. g \in Ways(n, V)
  BY <1>3 DEF Ways
<1>6. PICK f : f \in Passed(Parser, g, n, V)
  <2> HIDE DEF g, n
  <2> QED
    BY <1>1, <1>4, <1>5, Recursion
<1>7. /\ f \in [0 .. n -> V] /\ f[0] = Parser
      /\ \A k \in 1 .. n : f[k] = g[k][f[k - 1]]
  <2> HIDE DEF g, n
  <2> QED
    BY <1>6 DEF Passed
<1>8. \A k \in 1 .. n : k - 1 \in 0 .. n /\ k \in 0 .. n /\ k # 0
  <2> HIDE DEF n
  <2> QED
    BY <1>1
<1>9. \A k \in 1 .. n : f[k - 1] \in V /\ f[k] = Turn(b, f[k - 1])
  <2> HIDE DEF n
  <2>1. \A k \in 1 .. n : f[k - 1] \in V
    BY <1>7, <1>8
  <2> QED
    BY <1>7, <2>1
<1>10. Rec(f)
  <2>1. \A k \in 0 .. n : k = 0 \/ k \in 1 .. n
    OBVIOUS
  <2> HIDE DEF n
  <2>2. \A k \in 0 .. n : f[k] = IF k = 0 THEN Parser ELSE Turn(b, f[k - 1])
    BY <1>7, <1>9, <2>1
  <2>3. f = [k \in 0 .. n |-> f[k]]
    BY <1>7
  <2> QED
    BY <2>2, <2>3
<1>11. Rec(turns)
  <2> HIDE DEF Rec
  <2> QED
    BY <1>10
<1>12. Scanned(b) = turns[n]
  BY DEF Scanned, Parser
<1>13. turns[0] = Parser /\ \A k \in 1 .. n : turns[k] = Turn(b, turns[k - 1])
  <2> HIDE DEF turns
  <2>1. turns = [k \in 0 .. n |-> IF k = 0 THEN Parser ELSE Turn(b, turns[k - 1])]
    BY <1>11
  <2>2. 0 \in 0 .. n
    BY <1>1
  <2> HIDE DEF n, Rec
  <2> QED
    BY <1>8, <2>1, <2>2
<1> HIDE DEF turns, Rec, g
<1> DEFINE Ends(m, k) == Waits(b, m) \/ Left(b, m) <= n - k
           S == {k \in 0 .. n : turns[k] \in V /\ Ends(turns[k], k)}
<1>14. 0 \in S
  <2>1. 0 \in 0 .. n
    BY <1>1
  <2>2. Left(b, Parser) <= n - 0
    <3>1. Parser.scan = scan /\ (IF Parser.pending THEN 1 ELSE 0) \in {0, 1}
      BY DEF Parser
    <3> DEFINE y == IF Parser.pending THEN 1 ELSE 0
    <3>2. Left(b, Parser) = 2 * (Len(b) - scan) + y
      BY <3>1 DEF Left
    <3> HIDE DEF y
    <3> QED
      BY <1>1, <3>1, <3>2 DEF y
  <2> QED
    BY <1>4, <1>13, <2>1, <2>2
<1> HIDE DEF Ends
<1>15. ASSUME NEW k \in 1 .. n, k - 1 \in S PROVE k \in S
  <2> DEFINE m == turns[k - 1]
  <2>1. m \in V /\ Ends(m, k - 1)
    BY <1>15
  <2>2. turns[k] = Turn(b, m) /\ k \in 0 .. n
    BY <1>8, <1>13
  <2> HIDE DEF m
  <2>3. Turn(b, m) \in V
    BY <1>3, <2>1
  <2>4. Ends(Turn(b, m), k)
    <3>1. CASE Waits(b, m)
      BY <1>3, <2>1, <3>1 DEF Ends
    <3>2. CASE ~Waits(b, m)
      <4>1. Left(b, m) <= n - (k - 1) /\ Left(b, Turn(b, m)) < Left(b, m)
        BY <1>3, <2>1, <3>2 DEF Ends
      <4>2. \A x \in Machine(b) : Left(b, x) \in Int
        <5> SUFFICES ASSUME NEW x \in Machine(b) PROVE Left(b, x) \in Int
          OBVIOUS
        <5>1. x.scan \in 0 .. Len(b) /\ (IF x.pending THEN 1 ELSE 0) \in Int
          BY DEF Machine
        <5> DEFINE y == IF x.pending THEN 1 ELSE 0
        <5>2. Left(b, x) = 2 * (Len(b) - x.scan) + y
          BY DEF Left
        <5> HIDE DEF y
        <5> QED
          BY <1>1, <5>1, <5>2 DEF y
      <4>3. Left(b, m) \in Int /\ Left(b, Turn(b, m)) \in Int
        BY <1>2, <2>1, <2>3, <4>2
      <4> HIDE DEF n
      <4>4. Left(b, Turn(b, m)) <= n - k
        BY <1>1, <4>1, <4>3
      <4> QED
        BY <4>4 DEF Ends, n
    <3> QED
      BY <3>1, <3>2
  <2> HIDE DEF n
  <2> QED
    BY <2>2, <2>3, <2>4
<1>16. S \in SUBSET (0 .. n)
  <2> HIDE DEF n
  <2> QED
    OBVIOUS
<1>17. n \in S
  <2> HIDE DEF S, n
  <2>1. S = 0 .. n
    BY <1>1, <1>14, <1>15, <1>16, ReachesAll
  <2> QED
    BY <1>1, <2>1
<1>18. turns[n] \in V /\ Ends(turns[n], n)
  <2> HIDE DEF n
  <2> QED
    BY <1>17
<1> DEFINE m == turns[n]
<1> HIDE DEF m
<1>19. Waits(b, m)
  <2>1. m \in Machine(b) /\ (Waits(b, m) \/ Left(b, m) <= n - n)
    BY <1>2, <1>18 DEF m, Ends
  <2>2. m.scan \in 0 .. Len(b) /\ (IF m.pending THEN 1 ELSE 0) \in {0, 1}
    BY <2>1 DEF Machine
  <2> DEFINE y == IF m.pending THEN 1 ELSE 0
  <2>3. Left(b, m) = 2 * (Len(b) - m.scan) + y
    BY DEF Left
  <2>4. y \in {0, 1} /\ n - n = 0
    BY <1>1, <2>2
  <2> HIDE DEF y, n
  <2>5. CASE Left(b, m) <= n - n
    <3>1. m.scan >= Len(b)
      BY <1>1, <2>2, <2>3, <2>4, <2>5
    <3> QED
      BY <3>1 DEF Waits
  <2> QED
    BY <2>1, <2>5
<1> QED
  BY <1>2, <1>12, <1>18, <1>19 DEF m

\* What has come in of a text stays where it is.
LEMMA SamePart ==
  ASSUME NEW T, NEW b \in Seq(T), NEW d \in Seq(T), Len(b) <= Len(d),
         \A j \in 1 .. Len(b) : d[j] = b[j],
         NEW q \in Nat \ {0}, NEW s \in q - 1 .. Len(b)
  PROVE  SubSeq(d, q, s) = SubSeq(b, q, s)
<1> DEFINE v == SubSeq(b, q, s)
           w == SubSeq(d, q, s)
           n == s - q + 1
<1>1. s \in q - 1 .. Len(d) /\ \A i \in 1 .. n : q + i - 1 \in 1 .. Len(b)
  <2>1. Len(b) \in Nat /\ Len(d) \in Nat /\ s \in Int
    OBVIOUS
  <2> QED
    BY <2>1
<1>2. v \in Seq(T) /\ Len(v) = n /\ \A i \in 1 .. n : v[i] = b[q + i - 1]
  BY Part
<1>3. w \in Seq(T) /\ Len(w) = n /\ \A i \in 1 .. n : w[i] = d[q + i - 1]
  BY <1>1, Part
<1> HIDE DEF v, w, n
<1>4. \A i \in 1 .. n : w[i] = v[i]
  BY <1>1, <1>2, <1>3
<1> QED
  BY <1>2, <1>3, <1>4, SeqEqual DEF v, w

\* A parser that waits still follows when more has come in.
LEMMA GrowFollows ==
  ASSUME NEW b \in Seq(Symbols), NEW d \in Seq(Symbols), Len(b) <= Len(d),
         \A j \in 1 .. Len(b) : d[j] = b[j],
         NEW m \in Machine(b), NEW a, Follows(b, m, a), Waits(b, m)
  PROVE  m \in Machine(d) /\ Follows(d, m, a)
<1>1. Len(b) \in Nat /\ Len(d) \in Nat /\ m.scan \in 0 .. Len(b) /\ m.scan \in 0 .. Len(d)
  <2>1. Len(b) \in Nat /\ Len(d) \in Nat /\ m.scan \in 0 .. Len(b)
    BY DEF Machine
  <2> QED
    BY <2>1
<1>2. m \in Machine(d)
  BY <1>1 DEF Machine
<1>3. CASE Seeks(m, a)
  BY <1>2, <1>3 DEF Follows
<1>4. ASSUME NEW q \in 2 .. Len(b) + 1, Inside(b, q, m, a)
      PROVE  \E r \in 2 .. Len(d) + 1 : Inside(d, r, m, a)
  <2>1. q \in 2 .. Len(d) + 1 /\ q \in Nat \ {0} /\ q - 1 \in 1 .. Len(b)
    BY <1>1
  <2>2. m.mode = "inside" /\ Opens(b, q - 1) /\ m.scan \in q - 1 .. Len(b)
    BY <1>4 DEF Inside
  <2>3. m.scan >= Len(b)
    BY <2>2 DEF Waits
  <2>4. Opens(d, q - 1)
    BY <2>1, <2>2, OpensKept
  <2>5. m.scan \in q - 1 .. Len(d)
    BY <1>1, <2>2
  <2> DEFINE v == SubSeq(b, q, m.scan)
  <2>6. SubSeq(d, q, m.scan) = v
    BY <2>1, <2>2, SamePart
  <2>7. Unclosed(v) /\ (Whole(v, m, a) \/ Half(b, v, m, a))
    BY <1>4 DEF Inside
  <2>8. ~Half(b, v, m, a)
    BY <1>1, <2>3 DEF Half
  <2> HIDE DEF v
  <2>9. Inside(d, q, m, a)
    BY <2>2, <2>4, <2>5, <2>6, <2>7, <2>8 DEF Inside
  <2> QED
    BY <2>1, <2>9
<1>5. ASSUME NEW q \in 2 .. Len(b) + 1, NEW e \in 2 .. Len(b) + 1, After(b, q, e, m, a)
      PROVE  \E r, c \in 2 .. Len(d) + 1 : After(d, r, c, m, a)
  <2>1. /\ m.mode = "after" /\ Opens(b, q - 1) /\ e \in q .. m.scan /\ b[e] = "quote"
        /\ ~m.pending
    BY <1>5 DEF After
  <2>2. /\ q \in 2 .. Len(d) + 1 /\ e \in 2 .. Len(d) + 1 /\ q \in Nat \ {0}
        /\ q - 1 \in 1 .. Len(b) /\ e \in 1 .. Len(b) /\ e - 1 \in q - 1 .. Len(b)
    BY <1>1, <2>1
  <2>3. Opens(d, q - 1) /\ d[e] = "quote"
    BY <2>1, <2>2, OpensKept
  <2>4. SubSeq(d, q, e - 1) = SubSeq(b, q, e - 1)
    <3> DEFINE s == e - 1
    <3>1. s \in q - 1 .. Len(b)
      BY <2>2
    <3> HIDE DEF s
    <3>2. SubSeq(d, q, s) = SubSeq(b, q, s)
      BY <2>2, <3>1, SamePart
    <3> QED
      BY <3>2 DEF s
  <2>5. After(d, q, e, m, a)
    BY <1>5, <2>1, <2>3, <2>4 DEF After
  <2> QED
    BY <2>2, <2>5
<1> QED
  BY <1>2, <1>3, <1>4, <1>5 DEF Follows

-----------------------------------------------------------------------------
(***************************************************************************)
(* The stream: every event leaves the parser where a reader of the buffer  *)
(* would be, waiting for more.                                             *)
(***************************************************************************)

\* The parser follows what has come in and waits; the extras are those of the
\* complete text.
StreamInv ==
  /\ text \in Texts /\ sent \in 0 .. Len(text)
  /\ buffer \in Seq(Symbols) /\ answer \in Seq(Chars)
  /\ Parser \in Machine(buffer) /\ Follows(buffer, Parser, answer) /\ Waits(buffer, Parser)
  /\ phase \in {"open", "finished", "ended", "failed"}
  /\ extras = (phase = "finished" /\ WellFormed(buffer))

\* Where the parser is does not say what it wrote last.
LEMMA SameFollows ==
  ASSUME NEW b \in Seq(Symbols), NEW m \in Machine(b), NEW x \in Machine(b), NEW a,
         x.mode = m.mode, x.scan = m.scan, x.pending = m.pending,
         Follows(b, m, a), Waits(b, m)
  PROVE  Follows(b, x, a) /\ Waits(b, x)
<1>1. Seeks(m, a) => Seeks(x, a)
  BY DEF Seeks
<1>2. \A q : Inside(b, q, m, a) => Inside(b, q, x, a)
  BY DEF Inside, Whole, Half
<1>3. \A q, e : After(b, q, e, m, a) => After(b, q, e, x, a)
  BY DEF After
<1>4. Waits(b, x)
  BY DEF Waits
<1> QED
  BY <1>1, <1>2, <1>3, <1>4 DEF Follows

\* What push leaves behind.
LEMMA PushFollows ==
  ASSUME NEW slice \in Seq(Symbols), StreamInv, Push(slice)
  PROVE  /\ buffer' \in Seq(Symbols) /\ answer' \in Seq(Chars)
         /\ Parser' \in Machine(buffer') /\ Follows(buffer', Parser', answer')
         /\ Waits(buffer', Parser')
<1> DEFINE b == buffer
           d == buffer \o slice
           m == Scanned(d)
<1>1. b \in Seq(Symbols) /\ answer \in Seq(Chars) /\ Parser \in Machine(b)
      /\ Follows(b, Parser, answer) /\ Waits(b, Parser)
  BY DEF StreamInv
<1>2. /\ d \in Seq(Symbols) /\ Len(d) = Len(b) + Len(slice)
      /\ \A j \in 1 .. Len(b) : d[j] = b[j]
  BY <1>1, ConcatProperties
<1>3. buffer' = d /\ mode' = m.mode /\ scan' = m.scan /\ pending' = m.pending
      /\ answer' = answer \o m.out
  BY DEF Push
<1>4. Len(b) <= Len(d)
  <2>1. Len(b) \in Nat /\ Len(slice) \in Nat
    BY <1>1
  <2> HIDE DEF d
  <2> QED
    BY <1>2, <2>1
<1> HIDE DEF b, d
<1>5. Parser \in Machine(d) /\ Follows(d, Parser, answer)
  <2> DEFINE p == Parser
  <2>1. p \in Machine(b) /\ Follows(b, p, answer) /\ Waits(b, p)
    BY <1>1
  <2> HIDE DEF p
  <2>2. p \in Machine(d) /\ Follows(d, p, answer)
    BY <1>1, <1>2, <1>4, <2>1, GrowFollows
  <2> QED
    BY <2>2 DEF p
<1>6. m \in Machine(d) /\ Follows(d, m, answer \o m.out) /\ Waits(d, m)
  BY <1>1, <1>2, <1>5, ScannedFollows
<1> HIDE DEF m
<1> DEFINE x == [mode |-> m.mode, scan |-> m.scan, pending |-> m.pending, out |-> <<>>]
<1>7. Parser' = x
  BY <1>3 DEF Parser
<1>8. x \in Machine(d) /\ x.mode = m.mode /\ x.scan = m.scan /\ x.pending = m.pending
  BY <1>6 DEF Machine
<1>9. answer' \in Seq(Chars)
  <2>1. m.out \in Seq(Chars)
    BY <1>6 DEF Machine
  <2> QED
    BY <1>1, <1>3, <2>1, ConcatProperties
<1> HIDE DEF x
<1>10. Follows(d, x, answer') /\ Waits(d, x)
  BY <1>2, <1>3, <1>6, <1>8, SameFollows
<1> QED
  BY <1>2, <1>3, <1>7, <1>8, <1>9, <1>10

\* After every event the parser of generate_stream is where a reader of the whole
\* buffer would be, has written what that reader has decoded, and has nothing left to
\* scan; for all texts and slices (push, consume_message_char, finalize).
THEOREM StreamIsRead == Spec => []StreamInv
<1>1. Init => StreamInv
  <2> SUFFICES ASSUME Init PROVE StreamInv
    OBVIOUS
  <2>1. text \in Texts /\ text \in Seq(Symbols) /\ sent \in 0 .. Len(text)
    BY StreamAssumption DEF Init
  <2>2. buffer = <<>> /\ mode = "seeking" /\ scan = 0 /\ pending = FALSE /\ answer = <<>>
        /\ phase = "open" /\ extras = FALSE
    BY DEF Init
  <2>3. buffer \in Seq(Symbols) /\ answer \in Seq(Chars) /\ Len(buffer) = 0
    BY <2>2
  <2>4. Parser = [mode |-> "seeking", scan |-> 0, pending |-> FALSE, out |-> <<>>]
    BY <2>2 DEF Parser
  <2>5. Parser \in Machine(buffer)
    <3>1. 0 \in 0 .. Len(buffer) /\ <<>> \in Seq(Chars) /\ "seeking" \in Modes
      BY <2>3 DEF Modes
    <3> QED
      BY <2>4, <3>1 DEF Machine
  <2>6. Follows(buffer, Parser, answer)
    BY <2>2, <2>4 DEF Follows, Seeks
  <2>7. Waits(buffer, Parser)
    BY <2>3, <2>4 DEF Waits
  <2> QED
    BY <2>1, <2>2, <2>3, <2>5, <2>6, <2>7 DEF StreamInv
<1>2. StreamInv /\ [Next]_vars => StreamInv'
  <2> SUFFICES ASSUME StreamInv, [Next]_vars PROVE StreamInv'
    OBVIOUS
  <2>1. text \in Texts /\ text \in Seq(Symbols) /\ sent \in 0 .. Len(text) /\ Len(text) \in Nat
    BY StreamAssumption DEF StreamInv
  <2>f. Finish => phase' = "finished" /\ extras' = (phase' = "finished" /\ WellFormed(buffer'))
    BY DEF Finish, WellFormed
  \* What is not pushed to.
  <2>2. ASSUME UNCHANGED <<parserVars, answer>>
        PROVE  /\ buffer' \in Seq(Symbols) /\ answer' \in Seq(Chars)
               /\ Parser' \in Machine(buffer') /\ Follows(buffer', Parser', answer')
               /\ Waits(buffer', Parser') /\ buffer' = buffer
    <3>1. buffer' = buffer /\ answer' = answer /\ Parser' = Parser
      BY <2>2 DEF parserVars, Parser
    <3> QED
      BY <3>1 DEF StreamInv
  <2>3. ASSUME NEW n \in 0 .. Len(text) - sent, Event(n) PROVE StreamInv'
    <3>1. Slice(n) \in Seq(Symbols)
      <4> DEFINE q == sent + 1
                 s == sent + n
      <4>1. q \in Nat \ {0} /\ s \in q - 1 .. Len(text)
        BY <2>1
      <4> HIDE DEF q, s
      <4>2. SubSeq(text, q, s) \in Seq(Symbols)
        BY <2>1, <4>1, Part
      <4> QED
        BY <4>2 DEF Slice, q, s
    <3>2. /\ buffer' \in Seq(Symbols) /\ answer' \in Seq(Chars)
          /\ Parser' \in Machine(buffer') /\ Follows(buffer', Parser', answer')
          /\ Waits(buffer', Parser')
      BY <2>3, <3>1, PushFollows DEF Event
    <3>3. text' = text /\ sent' \in 0 .. Len(text') /\ phase = "open"
      BY <2>1, <2>3 DEF Event
    <3>4. CASE UNCHANGED <<extras, phase>>
      BY <2>1, <3>2, <3>3, <3>4 DEF StreamInv
    <3>5. CASE Finish
      BY <2>1, <3>2, <3>3, <3>5, <2>f DEF StreamInv
    <3> QED
      BY <2>3, <3>4, <3>5 DEF Event
  <2>4. ASSUME NEW n \in 0 .. Len(text) - sent, DropEvent(n) PROVE StreamInv'
    <3>1. text' = text /\ sent' \in 0 .. Len(text') /\ extras' = extras /\ phase' = phase
          /\ UNCHANGED <<parserVars, answer>>
      BY <2>1, <2>4 DEF DropEvent
    <3> QED
      BY <2>1, <2>2, <3>1 DEF StreamInv
  <2>5. CASE DoneEvent
    <3>1. text' = text /\ sent' = sent /\ UNCHANGED <<parserVars, answer>> /\ Finish
      BY <2>5 DEF DoneEvent
    <3> QED
      BY <2>1, <2>2, <2>f, <3>1 DEF StreamInv
  <2>6. CASE EndOfStream
    <3>1. text' = text /\ sent' = sent /\ UNCHANGED <<parserVars, answer>> /\ extras' = extras
          /\ phase = "open" /\ phase' = "ended"
      BY <2>6 DEF EndOfStream
    <3> QED
      BY <2>1, <2>2, <3>1 DEF StreamInv
  <2>7. CASE StreamError
    <3>1. text' = text /\ sent' = sent /\ UNCHANGED <<parserVars, answer>> /\ extras' = extras
          /\ phase = "open" /\ phase' = "failed"
      BY <2>7 DEF StreamError
    <3> QED
      BY <2>1, <2>2, <3>1 DEF StreamInv
  <2>8. CASE UNCHANGED vars
    <3>1. text' = text /\ sent' = sent /\ UNCHANGED <<parserVars, answer>> /\ extras' = extras
          /\ phase' = phase
      BY <2>8 DEF vars, parserVars
    <3> QED
      BY <2>1, <2>2, <3>1 DEF StreamInv
  <2> QED
    BY <2>3, <2>4, <2>5, <2>6, <2>7, <2>8 DEF Next
<1> QED
  BY <1>1, <1>2, PTL DEF Spec

\* The one opening quote.
LEMMA OpeningIs ==
  ASSUME NEW b \in Seq(Symbols), NEW q \in 2 .. Len(b) + 1, Opens(b, q - 1)
  PROVE  LET opening == {i \in DOMAIN b : Opens(b, i)} IN
         /\ opening # {}
         /\ SubSeq(b, 1 + CHOOSE i \in opening : TRUE, Len(b)) = SubSeq(b, q, Len(b))
<1> DEFINE opening == {i \in DOMAIN b : Opens(b, i)}
           i == CHOOSE j \in opening : TRUE
           p == q - 1
<1>1. p \in 1 .. Len(b) /\ 1 + p = q
  OBVIOUS
<1>2. \A j : j \in opening <=> j \in 1 .. Len(b) /\ Opens(b, j)
  OBVIOUS
<1>3. i = CHOOSE j \in opening : TRUE
  OBVIOUS
<1>p. Opens(b, p)
  OBVIOUS
<1> HIDE DEF opening, i, p
<1>4. p \in opening /\ i \in opening
  <2>1. p \in opening
    BY <1>1, <1>2, <1>p
  <2> QED
    BY <1>3, <2>1, Zenon
<1>5. i \in 1 .. Len(b) /\ Opens(b, i)
  BY <1>2, <1>4
<1>6. ValueStart(b) = i + 1 /\ ValueStart(b) = p + 1
  BY <1>1, <1>5, <1>p, StartIs
<1>7. 1 + i = q
  BY <1>1, <1>5, <1>6
<1> QED
  BY <1>4, <1>7 DEF opening, i

\* What has been received of a message that is not closed.
LEMMA OpenReceived ==
  ASSUME NEW b \in Seq(Symbols)
  PROVE  /\ (\A i \in 1 .. Len(b) : ~Opens(b, i)) => Received(b) = <<>>
         /\ \A q \in 2 .. Len(b) + 1 :
              Opens(b, q - 1) /\ Unclosed(SubSeq(b, q, Len(b)))
                => Received(b) = SubSeq(b, q, Len(b))
<1> DEFINE opening == {i \in DOMAIN b : Opens(b, i)}
           v == SubSeq(b, 1 + CHOOSE i \in opening : TRUE, Len(b))
           closing == {i \in DOMAIN v : v[i] = "quote" /\ ~Escaped(v, i)}
<1>1. DOMAIN b = 1 .. Len(b) /\ Len(b) \in Nat
  OBVIOUS
<1>2. ASSUME \A i \in 1 .. Len(b) : ~Opens(b, i) PROVE Received(b) = <<>>
  <2>1. opening = {}
    BY <1>1, <1>2
  <2> QED
    BY <2>1 DEF Received
<1>3. ASSUME NEW q \in 2 .. Len(b) + 1, Opens(b, q - 1), Unclosed(SubSeq(b, q, Len(b)))
      PROVE  Received(b) = SubSeq(b, q, Len(b))
  <2>1. opening # {} /\ v = SubSeq(b, q, Len(b))
    BY <1>1, <1>3, OpeningIs
  <2>2. closing = {}
    <3>1. Unclosed(v)
      BY <1>3, <2>1
    <3> HIDE DEF v
    <3> QED
      BY <3>1 DEF Unclosed
  <2>3. Received(b) = v
    BY <2>1, <2>2 DEF Received
  <2> QED
    BY <2>1, <2>3
<1> QED
  BY <1>2, <1>3

\* What has been received of a message that is.
LEMMA ClosedReceived ==
  ASSUME NEW b \in Seq(Symbols), NEW q \in 2 .. Len(b) + 1, Opens(b, q - 1),
         NEW e \in q .. Len(b), b[e] = "quote",
         Unclosed(SubSeq(b, q, e - 1)), ~Owes(SubSeq(b, q, e - 1))
  PROVE  Received(b) = SubSeq(b, q, e - 1)
<1> DEFINE opening == {i \in DOMAIN b : Opens(b, i)}
           v == SubSeq(b, 1 + CHOOSE i \in opening : TRUE, Len(b))
           closing == {i \in DOMAIN v : v[i] = "quote" /\ ~Escaped(v, i)}
           first == CHOOSE i \in closing : \A j \in closing : i <= j
           w == SubSeq(b, q, e - 1)
           n == e - q
<1>1. opening # {} /\ v = SubSeq(b, q, Len(b))
  BY OpeningIs
<1>2. /\ Len(b) \in Nat /\ q \in Nat \ {0} /\ n \in Nat /\ e - 1 \in q - 1 .. Len(b)
      /\ Len(b) \in q - 1 .. Len(b) /\ n + 1 \in 1 .. Len(b) - q + 1
      /\ \A i \in 1 .. n : i \in 1 .. Len(b) - q + 1
      /\ e - 1 - q + 1 = n /\ q + (n + 1) - 1 = e
  OBVIOUS
<1>3. v \in Seq(Symbols) /\ Len(v) = Len(b) - q + 1
      /\ \A i \in 1 .. Len(b) - q + 1 : v[i] = b[q + i - 1]
  <2> DEFINE l == Len(b)
  <2>1. l \in q - 1 .. Len(b) /\ q \in Nat \ {0}
    BY <1>2
  <2> HIDE DEF l
  <2>2. SubSeq(b, q, l) \in Seq(Symbols) /\ Len(SubSeq(b, q, l)) = l - q + 1
        /\ \A i \in 1 .. l - q + 1 : SubSeq(b, q, l)[i] = b[q + i - 1]
    BY <2>1, Part
  <2> QED
    BY <1>1, <2>2 DEF l
<1>4. w \in Seq(Symbols) /\ Len(w) = n /\ \A i \in 1 .. n : w[i] = b[q + i - 1]
  <2> DEFINE l == e - 1
  <2>1. l \in q - 1 .. Len(b) /\ q \in Nat \ {0} /\ l - q + 1 = n
    BY <1>2
  <2> HIDE DEF l, n
  <2>2. SubSeq(b, q, l) \in Seq(Symbols) /\ Len(SubSeq(b, q, l)) = l - q + 1
        /\ \A i \in 1 .. l - q + 1 : SubSeq(b, q, l)[i] = b[q + i - 1]
    BY <2>1, Part
  <2> QED
    BY <2>1, <2>2 DEF l
<1>5. Unclosed(w) /\ ~Owes(w)
  OBVIOUS
<1> DEFINE z == Len(b) - q + 1
<1>6. DOMAIN v = 1 .. z /\ DOMAIN w = 1 .. n
  <2> HIDE DEF v, w, n
  <2> QED
    BY <1>3, <1>4
<1>c. \A i : i \in closing <=> i \in 1 .. z /\ v[i] = "quote" /\ ~Escaped(v, i)
  BY <1>6
<1>f. first = CHOOSE i \in closing : \A j \in closing : i <= j
  OBVIOUS
<1>r. closing # {} => Received(b) = SubSeq(v, 1, first - 1)
  BY <1>1 DEF Received
<1> HIDE DEF v, w, n, z, closing, first, opening
<1>7. \A i \in 1 .. n : i \in 1 .. z /\ v[i] = w[i]
  BY <1>2, <1>3, <1>4 DEF z
<1>8. \A i \in 1 .. n + 1 : Escaped(v, i) <=> Escaped(w, i)
  <2> SUFFICES ASSUME NEW i \in 1 .. n + 1 PROVE Escaped(v, i) <=> Escaped(w, i)
    OBVIOUS
  <2>1. i \in Nat /\ \A j \in 1 .. i - 1 : j \in 1 .. n
    BY <1>2
  <2> QED
    BY <1>7, <2>1, EscapedFront
<1>9. n + 1 \in closing
  <2>1. PICK k \in 1 .. z : k = n + 1 /\ q + k - 1 = e
    BY <1>2 DEF z
  <2>2. v[k] = "quote"
    BY <1>3, <2>1 DEF z
  <2>3. ~Escaped(v, k)
    <3>1. n + 1 \in 1 .. n + 1
      BY <1>2
    <3> QED
      BY <1>4, <1>5, <1>8, <2>1, <3>1 DEF Owes
  <2> QED
    BY <1>c, <2>1, <2>2, <2>3
<1>10. \A j \in closing : n + 1 <= j
  <2> SUFFICES ASSUME NEW j \in closing, ~(n + 1 <= j) PROVE FALSE
    OBVIOUS
  <2>1. j \in 1 .. z /\ v[j] = "quote" /\ ~Escaped(v, j)
    BY <1>c
  <2>2. j \in 1 .. n /\ j \in 1 .. n + 1
    BY <1>2, <2>1 DEF z
  <2>3. w[j] = "quote" /\ ~Escaped(w, j)
    BY <1>7, <1>8, <2>1, <2>2
  <2> QED
    BY <1>5, <1>6, <2>2, <2>3 DEF Unclosed
<1>11. first = n + 1
  <2>1. first \in closing /\ \A j \in closing : first <= j
    BY <1>9, <1>10, <1>f, Zenon
  <2>2. first <= n + 1 /\ n + 1 <= first /\ first \in 1 .. z
    BY <1>9, <1>10, <1>c, <2>1
  <2> QED
    BY <1>2, <2>2 DEF z
<1>12. SubSeq(v, 1, n) = w
  <2>1. n \in 1 - 1 .. Len(v) /\ 1 \in Nat \ {0} /\ n - 1 + 1 = n
    BY <1>2, <1>3
  <2> DEFINE x == SubSeq(v, 1, n)
  <2>2. x \in Seq(Symbols) /\ Len(x) = n - 1 + 1 /\ \A i \in 1 .. n - 1 + 1 : x[i] = v[1 + i - 1]
    BY <1>3, <2>1, Part
  <2> HIDE DEF x
  <2>3. \A i \in 1 .. n : x[i] = w[i]
    <3> SUFFICES ASSUME NEW i \in 1 .. n PROVE x[i] = w[i]
      OBVIOUS
    <3>1. 1 + i - 1 = i
      BY <1>2
    <3> QED
      BY <1>7, <2>1, <2>2, <3>1
  <2> QED
    BY <1>4, <2>1, <2>2, <2>3, SeqEqual DEF x
<1>13. first - 1 = n
  BY <1>2, <1>11
<1> QED
  BY <1>9, <1>12, <1>13, <1>r DEF w

\* The answer of a parser that follows and waits.
LEMMA FollowsReceived ==
  ASSUME NEW b \in Seq(Symbols), NEW m \in Machine(b), NEW a, Follows(b, m, a), Waits(b, m)
  PROVE  a = Plain(Received(b))
<1>1. Len(b) \in Nat /\ m.scan \in 0 .. Len(b)
  BY DEF Machine
<1>2. CASE Seeks(m, a)
  <2>1. a = <<>> /\ m.mode = "seeking" /\ m.scan = 0
    BY <1>2 DEF Seeks
  <2>2. \A i \in 1 .. Len(b) : ~Opens(b, i)
    <3> SUFFICES ASSUME NEW i \in 1 .. Len(b), Opens(b, i) PROVE FALSE
      OBVIOUS
    <3>1. ValueStart(b) = i + 1
      BY StartIs
    <3>2. ~(m.scan >= Len(b)) /\ ValueStart(b) # 0
      BY <1>1, <2>1, <3>1
    <3> QED
      BY <3>2 DEF Waits
  <2>3. Received(b) = <<>>
    BY <2>2, OpenReceived
  <2> QED
    BY <2>1, <2>3, DecodedNothing
<1>3. ASSUME NEW q \in 2 .. Len(b) + 1, Inside(b, q, m, a) PROVE a = Plain(Received(b))
  <2>1. m.mode = "inside" /\ Opens(b, q - 1)
    BY <1>3 DEF Inside
  <2>2. m.scan = Len(b)
    BY <1>1, <2>1 DEF Waits
  <2> DEFINE v == SubSeq(b, q, Len(b))
  <2>3. Unclosed(v) /\ (Whole(v, m, a) \/ Half(b, v, m, a))
    BY <1>3, <2>2 DEF Inside
  <2>4. a = Plain(v)
    <3> HIDE DEF v
    <3> QED
      BY <1>1, <2>2, <2>3 DEF Half, Whole
  <2> QED
    BY <2>1, <2>3, <2>4, OpenReceived
<1>4. ASSUME NEW q \in 2 .. Len(b) + 1, NEW e \in 2 .. Len(b) + 1, After(b, q, e, m, a)
      PROVE  a = Plain(Received(b))
  <2>1. Opens(b, q - 1) /\ e \in q .. m.scan /\ b[e] = "quote"
    BY <1>4 DEF After
  <2>2. Unclosed(SubSeq(b, q, e - 1)) /\ ~Owes(SubSeq(b, q, e - 1)) /\ a = Plain(SubSeq(b, q, e - 1))
    BY <1>4 DEF After
  <2>3. e \in q .. Len(b)
    BY <1>1, <2>1
  <2> QED
    BY <2>1, <2>2, <2>3, ClosedReceived
<1> QED
  BY <1>2, <1>3, <1>4 DEF Follows

\* The message of a well-formed text is what has been received of it.
LEMMA FrameReceived ==
  ASSUME NEW b \in Seq(Symbols), NEW f \in FramesOf(b)
  PROVE  Received(b) = MessageIn(b, f)
<1> DEFINE h == f.head
           t == f.tail
           w == MessageIn(b, f)
           q == Len(h) + 1
           e == Len(b) - Len(t) + 1
<1>1. f \in Frames /\ b = h \o w \o t /\ Valid(w)
  BY DEF FramesOf
<1>2. /\ h \in Seq(Symbols) /\ h # <<>> /\ Opens(h, Len(h))
      /\ t \in Seq(Symbols) /\ t # <<>> /\ t[1] = "quote"
  BY <1>1, FrameAssumption
<1>3. w = SubSeq(b, Len(h) + 1, Len(b) - Len(t))
  BY DEF MessageIn
<1> HIDE DEF h, t, w
<1>4. Len(h) \in Nat \ {0} /\ Len(t) \in Nat \ {0} /\ Len(b) \in Nat
  BY <1>2, EmptySeq
<1>5. w \in Seq(Symbols)
  <2> DEFINE x == Len(h) + 1
             y == Len(b) - Len(t)
  <2>1. x \in Int /\ y \in Int /\ \A i \in x .. y : i \in 1 .. Len(b)
    BY <1>4
  <2>2. \A i \in x .. y : b[i] \in Symbols
    BY <2>1
  <2> HIDE DEF x, y
  <2>3. SubSeq(b, x, y) \in Seq(Symbols)
    BY <2>1, <2>2, SubSeqProperties
  <2> QED
    BY <1>3, <2>3 DEF x, y
<1>6. /\ h \o w \in Seq(Symbols) /\ Len(h \o w) = Len(h) + Len(w)
      /\ \A i \in 1 .. Len(h) : (h \o w)[i] = h[i]
  BY <1>2, <1>5, ConcatProperties
<1> DEFINE g == h \o w
<1>7. /\ Len(b) = Len(g) + Len(t) /\ \A i \in 1 .. Len(g) : b[i] = g[i]
      /\ \A i \in Len(g) + 1 .. Len(g) + Len(t) : b[i] = t[i - Len(g)]
  <2>1. g \in Seq(Symbols) /\ b = g \o t
    BY <1>1, <1>6
  <2> HIDE DEF g
  <2> QED
    BY <1>2, <2>1, ConcatProperties
<1>8. g \in Seq(Symbols) /\ Len(g) = Len(h) + Len(w) /\ Len(w) \in Nat /\ Len(g) \in Nat
      /\ \A i \in 1 .. Len(h) : g[i] = h[i]
  BY <1>5, <1>6
<1> HIDE DEF g
<1>9. /\ q \in 2 .. Len(b) + 1 /\ e \in q .. Len(b) /\ e = Len(g) + 1 /\ q - 1 = Len(h)
      /\ e - 1 = Len(b) - Len(t) /\ q = Len(h) + 1
  BY <1>4, <1>7, <1>8
<1>10. Opens(b, q - 1)
  <2>1. Len(h) <= Len(b) /\ \A i \in 1 .. Len(h) : i \in 1 .. Len(g)
    BY <1>4, <1>7, <1>8
  <2>2. \A i \in 1 .. Len(h) : b[i] = h[i]
    BY <1>7, <1>8, <2>1
  <2> DEFINE k == Len(h)
  <2>3. k \in 1 .. Len(h)
    BY <1>4
  <2>4. Opens(h, k)
    BY <1>2
  <2> HIDE DEF k
  <2>5. Opens(b, k)
    BY <1>2, <2>1, <2>2, <2>3, <2>4, OpensKept
  <2> QED
    BY <1>9, <2>5 DEF k
<1>11. b[e] = "quote"
  <2>1. PICK k \in Len(g) + 1 .. Len(g) + Len(t) : k = e /\ k - Len(g) = 1
    <3>1. e \in Len(g) + 1 .. Len(g) + Len(t) /\ e - Len(g) = 1
      <4> HIDE DEF e
      <4> QED
        BY <1>4, <1>8, <1>9
    <3> QED
      BY <3>1
  <2>2. b[k] = t[k - Len(g)]
    BY <1>7
  <2> QED
    BY <1>2, <2>1, <2>2
<1>12. SubSeq(b, q, e - 1) = w
  BY <1>3, <1>9
<1>13. Unclosed(w)
  BY <1>1 DEF Unclosed, Valid
<1>14. ~Owes(w)
  <2> DEFINE x == Append(w, "x")
             n == Len(w) + 1
  <2>1. n \in Nat /\ \A j \in 1 .. n - 1 : x[j] = w[j]
    BY <1>5
  <2>2. ~Escaped(x, n)
    BY <1>1 DEF Valid
  <2> HIDE DEF x, n
  <2>3. ~Escaped(w, n)
    BY <2>1, <2>2, EscapedFront
  <2> QED
    BY <2>3 DEF n, Owes
<1> HIDE DEF q, e
<1>15. Received(b) = SubSeq(b, q, e - 1)
  BY <1>9, <1>10, <1>11, <1>12, <1>13, <1>14, ClosedReceived
<1> QED
  BY <1>12, <1>15 DEF w

\* Wherever a text is cut, the answer so far is the decoding of the message so far; for
\* all texts, of any length, and any slices, lost events and breaks (push,
\* find_message_value_start, consume_message_char).
THEOREM CutsAreHarmless == Spec => []CutsDoNotMatter
<1>1. StreamInv => CutsDoNotMatter
  <2> SUFFICES ASSUME StreamInv PROVE answer = Plain(Received(buffer))
    BY DEF CutsDoNotMatter, Plain
  <2> QED
    BY FollowsReceived DEF StreamInv
<1> QED
  BY <1>1, StreamIsRead, PTL

\* A streamed answer is the message of its text as a plain search would have read it,
\* and its assets and suggestions are those of the complete text if that is well formed;
\* for all texts and slices (finalize, parse_merged_response).
THEOREM StreamsLikePlain == Spec => []StreamedAsPlain
<1>1. StreamInv => StreamedAsPlain
  <2> SUFFICES ASSUME StreamInv
               PROVE  /\ extras = (phase = "finished" /\ WellFormed(buffer))
                      /\ \A f \in FramesOf(buffer) : answer = Plain(MessageIn(buffer, f))
    BY DEF StreamedAsPlain, Plain
  <2>1. answer = Plain(Received(buffer)) /\ buffer \in Seq(Symbols)
    BY FollowsReceived DEF StreamInv
  <2> QED
    BY <2>1, FrameReceived DEF StreamInv
<1> QED
  BY <1>1, StreamIsRead, PTL
=============================================================================
