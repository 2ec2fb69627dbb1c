------------------------------ MODULE Answering ------------------------------
(***************************************************************************)
(* What an answer is made of: the model calls of one search and what is    *)
(* accounted for them, the ranking of the documents, the web search behind *)
(* it, and the response that is put together, in the plain form and from   *)
(* an event stream.                                                        *)
(*                                                                         *)
(* A question is "raw" as it was typed and "english" as the model          *)
(* normalizes it.  Tokens is what a reply reports it used, Unreported if   *)
(* it carries no usage.  The slices of a streamed text are StreamParser's, *)
(* the tiers and timeouts of the tools ToolTunnel's, and who waits for the *)
(* answer is SearchSession's.                                              *)
(***************************************************************************)
EXTENDS Integers, Sequences, SequencesExt, FiniteSets, FiniteSetsExt

CONSTANTS
  Labels, Intents,   \* what the model may call an intent; what is one
  LocaleTags, SpokenLocales, \* tags the model may name; the supported ones
  Usages,            \* what a call reports to have used
  IndexRankings,     \* answers of the index: sequences of chunks
  WebAnswers,        \* answers of the web search: sequences of hits
  PageOf,            \* the page of a chunk or a hit, NoPage if it has none
  SemanticWeight, TextWeight, Unit, \* weights, and a common multiple of all ranks
  TopK, FallbackMin, WebLimit, SuggestionCount,
  Triggers,          \* questions that match a trigger pattern
  Groundings,        \* pages a reply may say it is grounded on: sequences
  FinalPage,         \* the page such a link leads to
  Layout,            \* order of the components
  MaxStreamEvents    \* bound: events of a stream

Unreported == 0
NoPage == "no page"
Chunks == DOMAIN PageOf

ASSUME AnswerAssumption ==
  /\ Intents \subseteq Labels /\ SpokenLocales \subseteq LocaleTags
  /\ {"en", ""} \subseteq LocaleTags
  /\ Usages \subseteq Nat
  /\ IndexRankings \cup WebAnswers \subseteq Seq(Chunks)
  /\ SemanticWeight \in Nat \ {0} /\ TextWeight \in Nat \ {0} /\ Unit \in Nat \ {0}
  /\ \A s \in IndexRankings : IsInjective(s) /\ \A i \in DOMAIN s : Unit % i = 0
  /\ Groundings \subseteq Seq(DOMAIN FinalPage)
  /\ NoPage \notin DOMAIN FinalPage /\ \A l \in DOMAIN FinalPage : FinalPage[l] # NoPage
  /\ {TopK, FallbackMin, WebLimit, SuggestionCount, MaxStreamEvents} \subseteq Nat

VARIABLES
  form,       \* "plain" or "stream"
  preamble,   \* pipeline.preamble_mode: "merged" or "parallel"
  stage,      \* where the search is
  heard,      \* the reply to each call, NotAsked before it
  understood, \* intent, question, locale and its provenance
  rankings,   \* answers of the index to the two searches
  documents,  \* chunks of the document retrieval
  hits,       \* of the web search
  spent,      \* the request's UsageStats
  streamed,   \* what the handler accumulates of a stream
  response    \* the answer, NoResponse before

answerVars == <<form, preamble, stage, heard, understood, rankings, documents, hits, spent,
                streamed, response>>

Purposes == {"preprocess", "classify_intent", "translate", "generate", "generate_stream"}
NotAsked == [kind |-> "not asked"]
Failed == [kind |-> "failed"]
Replied(reply) == reply.kind \notin {"not asked", "failed"}
NoResponse == [form |-> "none"]

AnswerInit ==
  /\ form \in {"plain", "stream"}
  /\ preamble \in {"merged", "parallel"}
  /\ stage = IF preamble = "merged" THEN "preprocess" ELSE "parallel"
  /\ heard = [p \in Purposes |-> NotAsked]
  /\ understood = [intent |-> "unknown", question |-> "raw", locale |-> "en",
                   source |-> "fallback_en"]
  /\ rankings = [vector |-> <<>>, text |-> <<>>]
  /\ documents = <<>> /\ hits = <<>>
  /\ spent = [calls |-> <<>>, total |-> 0]
  /\ streamed = [count |-> 0, tokens |-> Unreported, grounding |-> <<>>, suggestions |-> <<>>]
  /\ response = NoResponse

-----------------------------------------------------------------------------
(* What the model calls of the preamble bring. *)

from_raw(label) == IF label \in Intents THEN label ELSE "unknown"

\* generate_brief: any text is taken for a label.
ClassifyReplies == {Failed} \cup [kind : {"text"}, label : Labels, tokens : Usages]

\* translate: a text that does not parse is no failure.
TranslateReplies ==
  {Failed} \cup [kind : {"malformed"}, tokens : Usages]
    \cup [kind : {"parsed"}, tag : LocaleTags, text : {"english", ""}, tokens : Usages]

PreprocessReplies ==
  {Failed} \cup [kind : {"malformed"}, tokens : Usages]
    \cup [kind : {"parsed"}, label : Labels, tag : LocaleTags, text : {"english", ""},
          tokens : Usages]

Normalized(reply) ==
  IF reply.kind = "parsed" /\ reply.text # "" THEN reply.text ELSE "raw"

\* The tag a call names; a failed or malformed merged call names none.
NamedTag(reply) == IF reply.kind = "parsed" THEN reply.tag ELSE ""

\* A malformed reply of the translator passes for English, a failed one does not.
TranslateTag(reply) == IF reply.kind = "malformed" THEN "en" ELSE NamedTag(reply)

\* resolve_translation
Understood(intent, question, tag) ==
  [intent |-> intent, question |-> question,
   locale |-> IF tag \in SpokenLocales THEN tag ELSE "en",
   source |-> IF tag \in SpokenLocales THEN "llm_detected" ELSE "fallback_en"]

\* UsageStats::push of a call that reports its usage; any other is left out.
Recorded(stats, purpose, tokens) ==
  IF tokens = Unreported THEN stats
  ELSE [calls |-> Append(stats.calls, [purpose |-> purpose, tokens |-> tokens]),
        total |-> stats.total + tokens]

\* The accounting entry of a reply, if there is one.
Charged(stats, purpose) ==
  IF Replied(heard'[purpose]) THEN Recorded(stats, purpose, heard'[purpose].tokens) ELSE stats

Hear(purpose, reply) == heard' = [heard EXCEPT ![purpose] = reply]

\* The merged call; when it fails, the pair of calls takes its place.
Preprocess(reply) ==
  /\ stage = "preprocess"
  /\ Hear("preprocess", reply)
  /\ spent' = Charged(spent, "preprocess")
  /\ IF reply = Failed
     THEN stage' = "parallel" /\ UNCHANGED understood
     ELSE /\ stage' = "documents"
          /\ understood' = Understood(
               IF reply.kind = "parsed" THEN from_raw(reply.label) ELSE "unknown",
               Normalized(reply), NamedTag(reply))
  /\ UNCHANGED <<form, preamble, rankings, documents, hits, streamed, response>>

Classify(reply) ==
  /\ stage = "parallel" /\ heard["classify_intent"] = NotAsked
  /\ Hear("classify_intent", reply)
  /\ UNCHANGED <<form, preamble, stage, understood, rankings, documents, hits, spent, streamed,
                 response>>

Translate(reply) ==
  /\ stage = "parallel" /\ heard["translate"] = NotAsked
  /\ Hear("translate", reply)
  /\ UNCHANGED <<form, preamble, stage, understood, rankings, documents, hits, spent, streamed,
                 response>>

\* Mutation of PairCharged: one failed call of the pair fails the pair.
PairChargedTogether ==
  IF Replied(heard'["classify_intent"]) /\ Replied(heard'["translate"])
  THEN Charged(Charged(spent, "classify_intent"), "translate") ELSE spent

PairCharged == Charged(Charged(spent, "classify_intent"), "translate")

\* parallel_preprocess joins the two; each failure has its default.
Join ==
  /\ stage = "parallel"
  /\ NotAsked \notin {heard["classify_intent"], heard["translate"]}
  /\ UNCHANGED heard
  /\ spent' = PairCharged
  /\ LET class == heard["classify_intent"]
         translation == heard["translate"]
     IN understood' = Understood(
          IF Replied(class) THEN from_raw(class.label) ELSE "unknown",
          Normalized(translation), TranslateTag(translation))
  /\ stage' = "documents"
  /\ UNCHANGED <<form, preamble, rankings, documents, hits, streamed, response>>

-----------------------------------------------------------------------------
(* Retrieval. *)

Rank(chunk, ranking) == SelectInSeq(ranking, LAMBDA c : c = chunk)  \* 0: not found
Reciprocal(weight, rank) == IF rank = 0 THEN 0 ELSE (weight * Unit) \div rank

\* Mutation of Fused: the entry of a chunk found by both is overwritten.
FusedLast(chunk, vector, text) ==
  IF Rank(chunk, text) # 0 THEN Reciprocal(TextWeight, Rank(chunk, text))
  ELSE Reciprocal(SemanticWeight, Rank(chunk, vector))

Fused(chunk, vector, text) ==
  Reciprocal(SemanticWeight, Rank(chunk, vector)) + Reciprocal(TextWeight, Rank(chunk, text))

\* What rerank may return: equal scores keep the arbitrary order of a HashMap.
Reranked(vector, text) ==
  LET found == ToSet(vector) \cup ToSet(text)
      sorted == {s \in SetToSeqs(found) : \A i, j \in DOMAIN s :
                   i < j => Fused(s[i], vector, text) >= Fused(s[j], vector, text)}
  IN {SubSeq(s, 1, Min({TopK, Len(s)})) : s \in sorted}

Retrieve(vector, text) ==
  /\ stage = "documents"
  /\ rankings' = [vector |-> vector, text |-> text]
  /\ documents' \in Reranked(vector, text)
  /\ stage' = "web"
  /\ UNCHANGED <<form, preamble, heard, understood, hits, spent, streamed, response>>

\* No embedding, a search that fails, or a timeout of the tool.
RetrieveFails ==
  /\ stage = "documents"
  /\ stage' = "web"
  /\ UNCHANGED <<form, preamble, heard, understood, rankings, documents, hits, spent, streamed,
                 response>>

WebFires == understood.question \in Triggers \/ Len(documents) < FallbackMin

WebSearch(results) ==
  /\ stage = "web" /\ WebFires
  /\ hits' = SubSeq(results, 1, Min({WebLimit, Len(results)}))
  /\ stage' = "generate"
  /\ UNCHANGED <<form, preamble, heard, understood, rankings, documents, spent, streamed, response>>

\* It does not fire, there is no provider, or the provider fails.
NoWeb ==
  /\ stage = "web"
  /\ stage' = "generate"
  /\ UNCHANGED <<form, preamble, heard, understood, rankings, documents, hits, spent, streamed,
                 response>>

\* The chunks as the prompt numbers them, [Source 1] first.
Cited == documents \o hits

-----------------------------------------------------------------------------
(* The response. *)

GenerateReplies ==
  {Failed} \cup [kind : {"malformed"}, tokens : Usages]
    \cup [kind : {"parsed"}, asked : 0 .. SuggestionCount + 1, assets : BOOLEAN, tokens : Usages]

\* Questions a model proposes, and the title of a chunk.
Proposed(n) == [i \in 1 .. n |-> <<"question", i>>]
Title(chunk) == <<"title", chunk>>
Offered(reply) == IF reply.kind = "parsed" THEN Proposed(reply.asked) ELSE <<>>

UpTo(s, n) == SubSeq(s, 1, Min({n, Len(s)}))
Titles(chunks) == [i \in DOMAIN chunks |-> Title(chunks[i])]

PlainSuggestions(offered) ==
  IF Len(offered) >= SuggestionCount
  THEN [suggestions |-> UpTo(offered, SuggestionCount), origin |-> "llm"]
  ELSE [suggestions |-> UpTo(Titles(Cited), SuggestionCount), origin |-> "vector_store"]

\* ComponentService::assemble: an empty list of assets has no component.
Components(assets) == SelectSeq(Layout, LAMBDA c : c # "assets" \/ assets)

SearchResponse(offer, components, sources) ==
  [form |-> form, intent |-> understood.intent, locale |-> understood.locale,
   localeSource |-> understood.source, retrievalCount |-> Len(Cited),
   webCount |-> Len(hits), usage |-> spent', suggestions |-> offer.suggestions,
   origin |-> offer.origin, components |-> components, sources |-> sources]

\* A plain answer lists no sources: no search tool of the model is attached, so
\* its reply has none, and the chunks are not listed.
Generate(reply) ==
  /\ stage = "generate" /\ form = "plain"
  /\ Hear("generate", reply)
  /\ spent' = Charged(spent, "generate")
  /\ IF reply = Failed THEN stage' = "failed" /\ UNCHANGED response
     ELSE /\ stage' = "answered"
          /\ response' = SearchResponse(PlainSuggestions(Offered(reply)),
               Components(reply.kind = "parsed" /\ reply.assets), <<>>)
  /\ UNCHANGED <<form, preamble, understood, rankings, documents, hits, streamed>>

OpenStream ==
  /\ stage = "generate" /\ form = "stream"
  /\ stage' = "streaming"
  /\ UNCHANGED <<form, preamble, heard, understood, rankings, documents, hits, spent, streamed,
                 response>>

\* The request for a stream, or the stream, breaks: the client gets an error.
StreamBreaks ==
  /\ stage \in {"generate", "streaming"} /\ form = "stream"
  /\ stage' = "failed"
  /\ UNCHANGED <<form, preamble, heard, understood, rankings, documents, hits, spent, streamed,
                 response>>

StreamEvents ==
  [finished : BOOLEAN, tokens : Usages, grounding : Groundings, asked : 0 .. SuggestionCount + 1]

\* The usage of an event replaces that of an earlier one.
LatestUsage(tokens, event) == IF event.tokens = Unreported THEN tokens ELSE event.tokens

Stream(event) ==
  /\ stage = "streaming" /\ streamed.count < MaxStreamEvents
  /\ event.finished \/ event.asked = 0
  /\ streamed' =
       [count |-> streamed.count + 1,
        tokens |-> LatestUsage(streamed.tokens, event),
        grounding |-> streamed.grounding \o event.grounding,
        suggestions |-> IF event.finished THEN Proposed(event.asked) ELSE streamed.suggestions]
  /\ IF event.tokens = Unreported THEN UNCHANGED heard
     ELSE Hear("generate_stream", [kind |-> "text", tokens |-> event.tokens])
  /\ stage' = IF event.finished THEN "finishing" ELSE "streaming"
  /\ UNCHANGED <<form, preamble, understood, rankings, documents, hits, spent, response>>

\* An event that does not parse (a last one without content, for one) is dropped
\* with all it carries: its usage, sources and suggestions.
UnreadEvent ==
  /\ stage = "streaming" /\ streamed.count < MaxStreamEvents
  /\ streamed' =
       [count |-> streamed.count + 1, tokens |-> streamed.tokens,
        grounding |-> streamed.grounding, suggestions |-> streamed.suggestions]
  /\ UNCHANGED <<form, preamble, stage, heard, understood, rankings, documents, hits, spent, response>>

\* The stream ends without a finishing event.
StreamEnds ==
  /\ stage = "streaming"
  /\ stage' = "finishing"
  /\ UNCHANGED <<form, preamble, heard, understood, rankings, documents, hits, spent, streamed,
                 response>>

\* The first occurrence of every page.
Inserted(seen, page) ==
  IF page = NoPage \/ Contains(seen, page) THEN seen ELSE Append(seen, page)
Distinct(pages) ==
  LET upTo[n \in 0 .. Len(pages)] ==
        IF n = 0 THEN <<>> ELSE Inserted(upTo[n - 1], pages[n])
  IN upTo[Len(pages)]

\* The pages of the cited chunks.
ChunkSources == Distinct([i \in DOMAIN Cited |-> PageOf[Cited[i]]])

\* resolve_batch: a link is followed to its page, or kept.
Resolutions(links) ==
  {[i \in DOMAIN links |-> IF i \in followed THEN FinalPage[links[i]] ELSE links[i]] :
     followed \in SUBSET DOMAIN links}

\* Mutation of MergedSources: duplicates are looked for before the links are resolved.
MergedSourcesEarly(links, pages) ==
  pages \o SelectSeq(ChunkSources, LAMBDA p : ~Contains(links, p))

\* Links of the model first, then chunks; a page once.
MergedSources(links, pages) == Distinct(pages \o ChunkSources)

CompleteStream(pages) ==
  /\ stage = "finishing"
  /\ UNCHANGED heard
  /\ spent' = Recorded(spent, "generate_stream", streamed.tokens)
  /\ stage' = "answered"
  /\ response' = SearchResponse(
       [suggestions |-> UpTo(streamed.suggestions, SuggestionCount), origin |-> "llm"],
       <<>>, MergedSources(streamed.grounding, pages))
  /\ UNCHANGED <<form, preamble, understood, rankings, documents, hits, streamed>>

AnswerStep ==
  \/ \E reply \in PreprocessReplies : Preprocess(reply)
  \/ \E reply \in ClassifyReplies : Classify(reply)
  \/ \E reply \in TranslateReplies : Translate(reply)
  \/ Join
  \/ \E vector, text \in IndexRankings : Retrieve(vector, text)
  \/ RetrieveFails
  \/ \E results \in WebAnswers : WebSearch(results)
  \/ NoWeb
  \/ \E reply \in GenerateReplies : Generate(reply)
  \/ OpenStream
  \/ StreamBreaks
  \/ \E event \in StreamEvents : Stream(event)
  \/ UnreadEvent
  \/ StreamEnds
  \/ \E pages \in Resolutions(streamed.grounding) : CompleteStream(pages)

-----------------------------------------------------------------------------

\* Every call whose reply reports its usage is accounted for in the answer,
\* once and with what it last reported, also when the merged call failed before
\* it or the other call of the pair failed beside it; nothing else is.  (What is
\* reported in an event that does not parse is not heard.)
Cost(purpose) == IF Replied(heard[purpose]) THEN heard[purpose].tokens ELSE 0
UsageAccounted ==
  stage = "answered" =>
    LET paid == {p \in Purposes : Replied(heard[p]) /\ heard[p].tokens # Unreported}
        usage == response.usage
    IN /\ Len(usage.calls) = Cardinality(paid)
       /\ ToSet(usage.calls) = {[purpose |-> p, tokens |-> heard[p].tokens] : p \in paid}
       /\ usage.total = Cost("preprocess") + Cost("classify_intent") + Cost("translate")
                          + Cost("generate") + Cost("generate_stream")

\* Agreement wins: a chunk that neither search ranks behind another, and one of
\* them before it, is cited before it, and is never left out for it; no chunk is
\* cited twice.
Ahead(c, d, ranking) ==
  Rank(c, ranking) # 0 /\ (Rank(d, ranking) = 0 \/ Rank(c, ranking) < Rank(d, ranking))
Behind(c, d, ranking) == Ahead(d, c, ranking)
AgreementWins ==
  /\ IsInjective(documents)
  /\ \A d \in ToSet(documents), c \in ToSet(rankings.vector) \cup ToSet(rankings.text) :
       /\ \E name \in DOMAIN rankings : Ahead(c, d, rankings[name])
       /\ \A name \in DOMAIN rankings : ~Behind(c, d, rankings[name])
       => Rank(c, documents) # 0 /\ Rank(c, documents) < Rank(d, documents)

\* The sources of a streamed answer name every page a cited chunk comes from and
\* none twice, also when a link of the model turns out to lead to one of them;
\* any other source is a page the model named.
SourcesListed ==
  stage = "answered" /\ form = "stream" =>
    LET cited == {PageOf[c] : c \in ToSet(Cited)} \ {NoPage}
        named == ToSet(streamed.grounding)
    IN /\ IsInjective(response.sources)
       /\ cited \subseteq ToSet(response.sources)
       /\ ToSet(response.sources) \ cited \subseteq named \cup {FinalPage[l] : l \in named}

=============================================================================
