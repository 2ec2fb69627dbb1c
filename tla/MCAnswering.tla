---------------------------- MODULE MCAnswering ----------------------------
(***************************************************************************)
(* From the model's output to the response: the slices of a streamed text, *)
(* the parts of an answer, and the titles of its links.  The three share   *)
(* no state; a behaviour moves one of them.  Of an answer it varies the    *)
(* model calls or the rankings, which do not depend on each other: Varied  *)
(* names what it leaves alone.  The parser reads messages of up to MaxBody *)
(* symbols, and longer ones of those that end or escape, in three frames.  *)
(* Of the titles, one link may change, and either a page is edited once or *)
(* Redis fails once.                                                       *)
(***************************************************************************)
EXTENDS StreamParser, Answering, TitleResolver

CONSTANT MaxBody
VARIABLE part

\* Frames: compact; with spaces and another field; behind a list that holds
\* "message".
key == <<"mess", "age">>
MCFrames == {
  [head |-> <<"{">> \o key \o <<":", "quote">>, tail |-> <<"quote", "}">>],
  [head |-> <<"{">> \o key \o <<" ", ":", " ", "quote">>,
   tail |-> <<"quote", ",", "quote", "assets:[]}">>],
  [head |-> <<"{", "list[">> \o key \o <<"],">> \o key \o <<":", "quote">>,
   tail |-> <<"quote", "}">>]}
OfLength(n, S) == UNION {[1 .. k -> S] : k \in 0 .. n}
MCBodies ==
  OfLength(MaxBody, {"x", "n", "u", "quote", "esc"})
    \cup OfLength(MaxBody + 1, {"u", "quote", "esc"})
\* A message that is no string, and none at all.
MCOthers == {
  <<"{">> \o key \o <<":", " ", "null", ",", "quote", "assets", "quote", ":[]}">>,
  <<"{", "quote", "assets", "quote", ":[]}">>}

\* Two chunks of one page, a chunk without a page, and hits of two pages.
MCPages == [c \in {"a", "b", "c", "web1", "web2"} |->
  CASE c \in {"a", "b", "web1"} -> "page1" [] c = "c" -> NoPage [] OTHER -> "page2"]
MCRankings == {<<>>} \cup UNION {SetToSeqs(S) : S \in {{"a"}, {"c"}, {"a", "b"}, {"a", "b", "c"}}}
MCWebAnswers == {<<>>, <<"web1", "web2", "web1">>}
MCGroundings == {<<>>, <<"link">>, <<"page2", "link">>}
MCFinalPage == [l \in {"link", "page2"} |-> IF l = "link" THEN "page1" ELSE l]
MCLayout == <<"llm_answer", "assets", "sources", "suggestions">>

MCHead(og, title) ==
  [p \in Places |-> CASE p = "og:title" -> og [] p = "title" -> title [] OTHER -> Untitled]
MCHeads == {MCHead(Untitled, Untitled), MCHead(Blank, "Markets"), MCHead("News", "Markets")}
MCAsked == [s \in {"search1", "search2", "search3"} |->
  IF s = "search1" THEN {"link1", "link2"} ELSE {"link1"}]
MCLinkTo == [l \in {"link1", "link2"} |-> IF l = "link1" THEN "page1" ELSE "page2"]
MCSlugs == [x \in {"link1", "link2", "page1", "page2"} |-> x]

MCInit ==
  /\ part \in {"parser", "calls", "ranks", "titles"}
  /\ Init /\ AnswerInit /\ TitleInit
  /\ part = "parser" \/ (sent = 0 /\ text = CHOOSE t \in Texts : TRUE)
  /\ head["link2"] = Bare /\ (part = "titles" \/ head["link1"] = Bare)
  /\ part \in {"calls", "ranks"} \/ (form = "plain" /\ preamble = "merged")
\* Of the calls: no order of documents and no suggestion.  Of the rankings: no call
\* of the preamble, one event and no usage.
Varied ==
  IF part = "calls"
  THEN /\ rankings'.vector \in {<<>>, <<"a", "b">>} /\ rankings'.text = <<>>
       /\ streamed'.grounding = <<>> /\ streamed'.suggestions = <<>>
       /\ heard'["generate"].kind = "parsed" => heard'["generate"].asked = 0
  ELSE /\ \A p \in {"preprocess", "classify_intent", "translate"} : heard'[p] \in {NotAsked, Failed}
       /\ streamed'.count <= 1 /\ spent'.calls = <<>>
MCNext ==
  \/ part = "parser" /\ Next /\ UNCHANGED <<part, answerVars, titleVars>>
  \/ part \in {"calls", "ranks"} /\ AnswerStep /\ Varied /\ UNCHANGED <<part, vars, titleVars>>
  \/ part = "titles" /\ TitleStep /\ edits' + cacheFaults' <= 1 /\ UNCHANGED <<part, vars, answerVars>>
MCSpec == MCInit /\ [][MCNext]_<<part, vars, answerVars, titleVars>>
=============================================================================
