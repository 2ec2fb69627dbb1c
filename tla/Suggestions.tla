----------------------------- MODULE Suggestions -----------------------------
(***************************************************************************)
(* /top-searches and /autocomplete (handlers, foundation/suggestion): what *)
(* the crowd asked often and what the refresh worker generated, blended.   *)
(* Searches count their questions under the language they are answered in  *)
(* (foundation/quality, foundation/trending), the flush worker copies the  *)
(* counts to popular_queries (TrendingFlush has its details), and the      *)
(* served batch changes as PublishedPool says, which RefreshBatches        *)
(* implements.  An answer reads memory, crowd and batch one after another. *)
(***************************************************************************)
EXTENDS LocaleMemory, Bags, FiniteSetsExt

CONSTANTS Shape,          \* Shape[x]: what the quality filter sees of a text x
          Capitalized,    \* Capitalized[x]: x with its first letter in upper case
          Completes,      \* <<prefix, text>> where the text begins so
          Wild,           \* prefixes that are LIKE wildcards
          Questions,      \* searches: a raw text and a translation of it
          Defaults,       \* rows of default_suggestions, of all batches
          Asks,           \* requests for suggestions
          Clients,        \* requests for suggestions in flight at once
          Threshold,      \* trending.popularity_threshold
          MinCount,       \* trending.crowd_sourcing_min_count
          PoolCap,        \* default_suggestions.pool_cap
          DayLen,         \* ticks of a day
          MaxEvents       \* bound: searches and requests for suggestions

ASSUME SuggestionsAssumption == MinCount \in Int

VARIABLES scores,     \* the sorted sets in Redis, as a bag of the members' keys
          rows,       \* popular_queries: search_count of each row there is
          current,    \* the active refresh batch, 0 before the first
          running,    \* batches whose rows are inserted and not published
          req,        \* req[c]: the request for suggestions of c
          searched,   \* history: every search that is no gibberish, as it is counted
          events      \* searches and requests so far

suggestionVars == <<scores, rows, current, running, req, searched, events>>
allVars == <<localeVars, suggestionVars>>

Pool == INSTANCE PublishedPool
Batches == {d.batch : d \in Defaults}
Periods == {"daily", "weekly"}
Day == clock \div DayLen
Copies(m, bag) == IF BagIn(m, bag) THEN bag[m] ELSE 0
NoRequest == [pc |-> "idle"]

(* Quality filter.                                                         *)
MaxLength(s) == IF s.cjk THEN 60 ELSE 120
is_gibberish(x) ==
  LET s == Shape[x] IN
  \/ s.chars = 0 \/ s.chars > MaxLength(s)
  \/ ~s.cjk /\ s.chars >= 25 /\ ~s.spaces
  \/ s.chars >= 10 /\ 10 * s.top > 4 * s.chars

normalize_for_trending(locale, raw, normalized) ==
  Capitalized[IF locale = "en" /\ Shape[normalized].chars > 0 THEN normalized ELSE raw]

SuggestionsInit ==
  /\ Pool!Init
  /\ scores = EmptyBag /\ rows = [r \in {} |-> 0] /\ running = {}
  /\ req = [c \in Clients |-> NoRequest]
  /\ searched = EmptyBag /\ events = 0

(***************************************************************************)
(* Searches                                                                *)
(***************************************************************************)
(* The members a search increments, of the day and of the one week there is.*)
Counted(t, found, raw) ==
  LET stored == normalize_for_trending(found.locale, raw, found.query) IN
  IF is_gibberish(raw) THEN {}
  ELSE {<<t, p, found.locale, IF p = "daily" THEN Day ELSE 0, stored>> : p \in Periods}

(* A question is translated and its language remembered; then record_query *)
(* counts it, where either command may fail and nobody hears of it.        *)
Search(t, s, q) ==
  LET found == resolve_translation(q.raw, q.translation)
      counted == Counted(t, found, q.raw) IN
  /\ events < MaxEvents /\ events' = events + 1
  /\ writes' = Spawned(t, s, found.locale)
  /\ \E done \in SUBSET counted : scores' = scores (+) SetToBag(done)
  /\ searched' = searched (+) SetToBag({<<m[1], m[3], m[5]>> : m \in counted})
  /\ UNCHANGED <<clock, memory, rows, current, running, req>>

(* The flush worker mirrors a count; the row of a week has today's date.   *)
upsert(m) ==
  /\ Copies(m, scores) >= Threshold
  /\ rows' = Put(rows, [tenant |-> m[1], period |-> m[2], locale |-> m[3],
                        date |-> IF m[2] = "daily" THEN m[4] ELSE Day, query |-> m[5]],
                 Copies(m, scores))
  /\ rows' # rows
  /\ UNCHANGED <<localeVars, scores, current, running, req, searched, events>>

(***************************************************************************)
(* The refresh worker                                                      *)
(***************************************************************************)
InsertBatch(b) ==
  /\ b > current /\ b \notin running
  /\ running' = running \cup {b}
  /\ UNCHANGED <<localeVars, scores, rows, current, req, searched, events>>

(* The swap: answers in flight see one side of it or the other.            *)
PublishBatch ==
  /\ current' \in running /\ Pool!Publish
  /\ running' = running \ {current'}
  /\ req' = [c \in Clients |-> IF req[c].pc \in {"crowd", "defaults"}
                               THEN [req[c] EXCEPT !.active = @ \cup {current'}] ELSE req[c]]
  /\ UNCHANGED <<localeVars, scores, rows, searched, events>>

(***************************************************************************)
(* Requests for suggestions                                                *)
(***************************************************************************)
(* The handlers refuse an empty prefix and clamp the limit.                *)
Clamped(ask) == Min({ask.limit, IF ask.kind = "autocomplete" THEN 50 ELSE 100})
RequestSuggestions(c, t, ask) ==
  /\ req[c].pc \in {"idle", "done"}
  /\ events < MaxEvents /\ events' = events + 1
  /\ ask.kind = "autocomplete" => ask.prefix # ""
  /\ \E found \in resolve(t, ask) :
       req' = [req EXCEPT ![c] = [pc |-> "crowd", tenant |-> t, ask |-> ask, since |-> clock,
                                  resolved |-> found, active |-> {current}]]
  /\ UNCHANGED <<localeVars, scores, rows, current, running, searched>>

(* Rows in descending order of a rank, and no more than the cap: the ties  *)
(* may fall on either side.                                                *)
TopOf(S, Rank(_), cap) ==
  {T \in kSubset(Min({cap, Cardinality(S)}), S) :
     \A x \in T, y \in S \ T : Rank(x) >= Rank(y)}

(* Mutation of Popular: the tenant is not asked for.                       *)
PopularAnywhere(t, locale) == {r \in DOMAIN rows : r.locale = locale /\ rows[r] >= MinCount}

Popular(t, locale) ==
  {r \in DOMAIN rows : r.tenant = t /\ r.locale = locale /\ rows[r] >= MinCount}

(* get_top has the daily rows of every date; search_popular has no period, *)
(* and a wildcard in the prefix matches as one.                            *)
get_top(t, locale) == {r \in Popular(t, locale) : r.period = "daily"}
search_popular(t, locale, prefix) ==
  {r \in Popular(t, locale) : prefix \in Wild \/ <<prefix, r.query>> \in Completes}

ReadCrowd(c) ==
  LET ask == req[c].ask
      locale == req[c].resolved.locale IN
  /\ req[c].pc = "crowd"
  /\ \E crowd \in TopOf(IF ask.kind = "top" THEN get_top(req[c].tenant, locale)
                        ELSE search_popular(req[c].tenant, locale, ask.prefix),
                        LAMBDA r : rows[r], PoolCap) :
       req' = [req EXCEPT ![c] = [pc |-> "defaults", tenant |-> @.tenant, ask |-> ask,
                 resolved |-> @.resolved, since |-> @.since, active |-> @.active, crowd |-> crowd]]
  /\ UNCHANGED <<localeVars, scores, rows, current, running, searched, events>>

(* Mutation of ActiveRows: the status of the batch is not asked for.       *)
AllRows(locale) == {d \in Defaults : d.locale = locale /\ d.batch \in 1..current \cup running}

(* One statement over the rows of the active batch.                        *)
ActiveRows(locale) == {d \in Defaults : d.locale = locale /\ d.batch = current}
list_active(ask, locale) ==
  {d \in ActiveRows(locale) : ask.kind = "autocomplete" => <<ask.prefix, d.question>> \in Completes}

(* build_pool and weighted_sample: any of the pool, each row at most once. *)
weighted_sample(pool, limit) == kSubset(Min({limit, Cardinality(pool)}), pool)

ReadDefaults(c) ==
  LET ask == req[c].ask
      locale == req[c].resolved.locale IN
  /\ req[c].pc = "defaults"
  /\ \E defaults \in TopOf(list_active(ask, locale), LAMBDA d : d.weight, PoolCap) :
       \E items \in weighted_sample(({"crowdsourced"} \X req[c].crowd) \cup
                                    ({"default"} \X defaults), Clamped(ask)) :
         req' = [req EXCEPT ![c] = [pc |-> "done", tenant |-> @.tenant, ask |-> ask,
                   resolved |-> @.resolved, since |-> @.since, active |-> @.active,
                   items |-> items]]
  /\ UNCHANGED <<localeVars, scores, rows, current, running, searched, events>>

(* A statement fails and with it the request.                              *)
SuggestionsFail(c) ==
  /\ req[c].pc \in {"crowd", "defaults"}
  /\ req' = [req EXCEPT ![c] = NoRequest]
  /\ UNCHANGED <<localeVars, scores, rows, current, running, searched, events>>

CrowdNext ==
  \/ (Tick \/ \E w \in writes : RunWrite(w) \/ DropWrite(w)) /\ UNCHANGED suggestionVars
  \/ \E t \in Tenants, s \in SessionIds, q \in Questions : Search(t, s, q)
  \/ \E m \in BagToSet(scores) : upsert(m)
RefreshNext == (\E b \in Batches : InsertBatch(b)) \/ PublishBatch
AnswerNext ==
  \E c \in Clients :
    \/ \E t \in Tenants, ask \in Asks : RequestSuggestions(c, t, ask)
    \/ ReadCrowd(c) \/ ReadDefaults(c) \/ SuggestionsFail(c)

-----------------------------------------------------------------------------
Answered == {c \in Clients : req[c].pc = "done"}
ItemsOf(c, source) == {i[2] : i \in {j \in req[c].items : j[1] = source}}

(* A language taken from the memory of a session is one a search of that   *)
(* session and that tenant was answered in, within the lifetime of the     *)
(* key: two tenants that use one session id do not hear of each other.     *)
(* (English is also written where the translation failed.)                 *)
MemoryIsOwn ==
  \A c \in Clients : req[c].pc # "idle" /\ req[c].resolved.source = "session_memory" =>
    /\ req[c].resolved.of = <<req[c].tenant, SessionOf(req[c].ask)>>
    /\ req[c].since < req[c].resolved.at + MemoryTtl

(* What is suggested as the crowd's was searched for at least min_count    *)
(* times, by users of that tenant, in that language, and not by mashing    *)
(* keys: neither a retry of the flush nor a key of another tenant adds up. *)
CrowdFloor ==
  \A c \in Answered : \A r \in ItemsOf(c, "crowdsourced") :
    Copies(<<req[c].tenant, req[c].resolved.locale, r.query>>, searched) >= MinCount

(* The generated suggestions of an answer come from one batch, which was   *)
(* the active one at some moment of the request: never from a batch that   *)
(* is still being written, and never from two.                             *)
OneServedBatch ==
  \A c \in Answered : \E b \in req[c].active :
    \A d \in ItemsOf(c, "default") : d.batch = b
=============================================================================
