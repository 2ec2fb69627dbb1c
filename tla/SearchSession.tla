--------------------------- MODULE SearchSession ---------------------------
(***************************************************************************)
(* The life of search requests and the session they share: the handler of  *)
(* POST /search in both its forms, the single-pass pipeline it drives, the *)
(* bounded channel of the event stream, the client that reads it or goes   *)
(* away, and the in-memory history of the sessions.                        *)
(*                                                                         *)
(* A text is abstracted to the number of its deltas.  The tools, the queue *)
(* of conversations and the trending counters have modules of their own    *)
(* (ToolTunnel, ConversationFlush, TrendingFlush); here they succeed or    *)
(* fail.  The locale memory, which no search reads, is left out.           *)
(***************************************************************************)
EXTENDS Integers, Sequences, FiniteSets

CONSTANTS
  Requests,     \* requests of all clients
  MaxOpen,      \* bound: requests open at a time
  Streamed,     \* those that ask for an event stream
  Sessions,     \* pairs of a tenant and a session id
  Remembered,   \* those with a history: it is enabled and the id is not empty
  Assignments,  \* sessions in which the requests may be asked
  MaxFaults,    \* bound: clients that leave, failures and evictions
  MaxDeltas,    \* bound: deltas of an answer
  Capacity,     \* of the channel between the handler's task and the response
  MaxTurns,     \* history.max_turns_per_session
  InjectTurns   \* history.inject_max_turns

ASSUME SearchAssumption ==
  /\ Streamed \subseteq Requests
  /\ \A s \in Sessions : s = <<s[1], s[2]>>
  /\ Remembered \subseteq Sessions
  /\ Assignments \subseteq [Requests -> Sessions]
  /\ MaxOpen \in Nat
  /\ MaxFaults \in Nat
  /\ MaxDeltas \in Nat \ {0}
  /\ Capacity \in Nat \ {0}
  /\ MaxTurns \in Nat
  /\ InjectTurns \in Nat

None == "none"
NotKept == -1

VARIABLES
  session,   \* tenant and session id of a request
  step,      \* where its handler is
  left,      \* whether its client went away, "asking" or "later", or None
  channel,   \* events sent and not read
  got,       \* events the client has read
  seen,      \* requests of the session answered to the client when it asked
  answer,    \* deltas accumulated so far
  snapshot,  \* turns given to the model
  kept,      \* the answer handed to the conversation service, or NotKept
  cancelled, \* requests whose token was cancelled
  history,   \* turns of each session
  evicted,   \* requests answered before an eviction of their session
  faults     \* clients that left, failures and evictions so far

clientVars == <<session, left, got, seen>>
taskVars == <<step, channel, answer, snapshot, kept, cancelled>>
sharedVars == <<history, evicted, faults>>
vars == <<clientVars, taskVars, sharedVars>>

Json == Requests \ Streamed
Terminal == {"done", "error"}
Preamble == {"preprocess", "tools", "generate"}
Elems(s) == {s[i] : i \in DOMAIN s}
SmallerOf(a, b) == IF a < b THEN a ELSE b
LargerOf(a, b) == IF a < b THEN b ELSE a

\* Mutation of Key: the tenant is not part of the key.
KeyUntenanted(r) == CHOOSE s \in Sessions : s[2] = session[r][2]

\* The key of the history.
Key(r) == session[r]

Init ==
  /\ session \in Assignments
  /\ step = [r \in Requests |-> "new"]
  /\ left = [r \in Requests |-> None]
  /\ channel = [r \in Requests |-> <<>>]
  /\ got = [r \in Requests |-> <<>>]
  /\ seen = [r \in Requests |-> {}]
  /\ answer = [r \in Requests |-> 0]
  /\ snapshot = [r \in Requests |-> <<>>]
  /\ kept = [r \in Requests |-> NotKept]
  /\ cancelled = {}
  /\ history = [s \in Sessions |-> <<>>]
  /\ evicted = {}
  /\ faults = 0

-----------------------------------------------------------------------------
(* Client.                                                                 *)

\* Mutation of Gone: nobody looks whether the reader is still there.
GoneUnnoticed(r) == FALSE

Gone(r) == left[r] # None

Open(r) == step[r] \notin {"new", "ended"} \/ channel[r] # <<>>

Ask(r) ==
  /\ step[r] = "new"
  /\ Cardinality({q \in Requests : Open(q)}) < MaxOpen
  /\ step' = [step EXCEPT ![r] = "preprocess"]
  /\ seen' = [seen EXCEPT ![r] =
       {q \in Requests : session[q] = session[r] /\ "done" \in Elems(got[q])}]
  /\ UNCHANGED <<session, left, got, channel, answer, snapshot, kept, cancelled, sharedVars>>

Read(r) ==
  /\ left[r] = None
  /\ channel[r] # <<>>
  /\ got' = [got EXCEPT ![r] = Append(@, Head(channel[r]))]
  /\ channel' = [channel EXCEPT ![r] = Tail(@)]
  /\ UNCHANGED <<session, left, seen, step, answer, snapshot, kept, cancelled, sharedVars>>

Fault == faults < MaxFaults /\ faults' = faults + 1

\* The connection is closed while the handler works; what is in flight is lost.
Leave(r) ==
  /\ step[r] \notin {"new", "ended"}
  /\ left[r] = None
  /\ Fault
  /\ left' = [left EXCEPT ![r] = IF step[r] \in Preamble THEN "asking" ELSE "later"]
  /\ channel' = [channel EXCEPT ![r] = <<>>]
  /\ UNCHANGED <<session, got, seen, step, answer, snapshot, kept, cancelled, history, evicted>>

-----------------------------------------------------------------------------
(* Events.                                                                 *)

\* Mutation of CanSend: the event is put with try_send.
CanSendTry(r) == TRUE

\* A send waits for room in the channel, and fails at once without a reader.
CanSend(r) == Gone(r) \/ Len(channel[r]) < Capacity

Sent(r, event) ==
  channel' = [channel EXCEPT ![r] =
    IF Gone(r) \/ Len(@) >= Capacity THEN @ ELSE Append(@, event)]

-----------------------------------------------------------------------------
(* Preamble: search and search_stream up to the model's answer.            *)

\* Intent, translation and locale; each failure has a default.
Preprocess(r) ==
  /\ step[r] = "preprocess"
  /\ step' = [step EXCEPT ![r] = "tools"]
  /\ UNCHANGED <<clientVars, channel, answer, snapshot, kept, cancelled, sharedVars>>

Latest(turns, n) == SubSeq(turns, LargerOf(0, Len(turns) - n) + 1, Len(turns))

\* The tools are through and the session is read for the prompt.
Retrieve(r) ==
  /\ step[r] = "tools"
  /\ step' = [step EXCEPT ![r] = "generate"]
  /\ snapshot' = [snapshot EXCEPT ![r] = Latest(history[Key(r)], InjectTurns)]
  /\ UNCHANGED <<clientVars, channel, answer, kept, cancelled, sharedVars>>

\* The model opens its stream, or has answered as a whole (perhaps with an
\* empty message).
Generate(r) ==
  /\ step[r] = "generate"
  /\ step' = [step EXCEPT ![r] = "trending"]
  /\ IF r \in Streamed THEN UNCHANGED answer
                       ELSE \E n \in 0 .. 1 : answer' = [answer EXCEPT ![r] = n]
  /\ UNCHANGED <<clientVars, channel, snapshot, kept, cancelled, sharedVars>>

\* The query is counted, or that failed, before the first event of a stream.
Trending(r) ==
  /\ step[r] = "trending"
  /\ step' = [step EXCEPT ![r] = IF r \in Streamed THEN "start" ELSE "record"]
  /\ UNCHANGED <<clientVars, channel, answer, snapshot, kept, cancelled, sharedVars>>

\* No collection, a tool's bad request, a model that does not answer.
Fail(r) ==
  /\ step[r] \in {"tools", "generate"}
  /\ Fault
  /\ step' = [step EXCEPT ![r] = "fail"]
  /\ UNCHANGED <<clientVars, channel, answer, snapshot, kept, cancelled, history, evicted>>

SendError(r) ==
  /\ step[r] = "fail"
  /\ CanSend(r)
  /\ Sent(r, "error")
  /\ step' = [step EXCEPT ![r] = "ended"]
  /\ UNCHANGED <<clientVars, answer, snapshot, kept, cancelled, sharedVars>>

\* An answer that is not streamed is dropped at any await when its client goes
\* away or the request timeout is over.
Awaiting(r) == r \in Json /\ step[r] \in {"preprocess", "tools", "generate", "trending"}

TimeOut(r) ==
  /\ Awaiting(r)
  /\ Sent(r, "error")
  /\ step' = [step EXCEPT ![r] = "ended"]
  /\ UNCHANGED <<clientVars, answer, snapshot, kept, cancelled, sharedVars>>

DropFuture(r) ==
  /\ Awaiting(r)
  /\ Gone(r)
  /\ step' = [step EXCEPT ![r] = "ended"]
  /\ UNCHANGED <<clientVars, channel, answer, snapshot, kept, cancelled, sharedVars>>

-----------------------------------------------------------------------------
(* The event stream.                                                       *)

\* The handler returns and its context goes: the guard cancels the token.
Abandon(r) ==
  /\ step' = [step EXCEPT ![r] = "ended"]
  /\ cancelled' = cancelled \cup {r}

Start(r) ==
  /\ step[r] = "start"
  /\ CanSend(r)
  /\ Sent(r, "start")
  /\ IF Gone(r) THEN Abandon(r)
                ELSE step' = [step EXCEPT ![r] = "stream"] /\ UNCHANGED cancelled
  /\ UNCHANGED <<clientVars, answer, snapshot, kept, sharedVars>>

\* A delta of the model is accumulated and sent; the chunk may be the last.
Delta(r) ==
  /\ step[r] = "stream"
  /\ answer[r] < MaxDeltas
  /\ CanSend(r)
  /\ answer' = [answer EXCEPT ![r] = @ + 1]
  /\ Sent(r, "delta")
  /\ IF Gone(r) THEN Abandon(r)
                ELSE /\ step' \in {step, [step EXCEPT ![r] = "record"]}
                     /\ UNCHANGED cancelled
  /\ UNCHANGED <<clientVars, snapshot, kept, sharedVars>>

\* The stream ends, with a last chunk that has no text or without one.
Exhaust(r) ==
  /\ step[r] = "stream"
  /\ step' = [step EXCEPT ![r] = "record"]
  /\ UNCHANGED <<clientVars, channel, answer, snapshot, kept, cancelled, sharedVars>>

\* Mutation of OnStreamError: the error is sent and the rest goes on.
OnStreamErrorGoOn == "record"

\* What follows the error event of a broken stream: nothing.
OnStreamError == "ended"

Break(r) ==
  /\ step[r] = "stream"
  /\ Fault
  /\ CanSend(r)
  /\ Sent(r, "error")
  /\ step' = [step EXCEPT ![r] = OnStreamError]
  /\ cancelled' = cancelled \cup {r}
  /\ UNCHANGED <<clientVars, answer, snapshot, kept, history, evicted>>

-----------------------------------------------------------------------------
(* Completion: the end of search, and complete_stream.                     *)

\* Mutation of After: the answer is sent before its turn is appended.
AfterEarly(s) ==
  CASE s = "record" -> "reply" [] s = "reply" -> "append" [] s = "append" -> "ended"

After(s) ==
  CASE s = "record" -> "append" [] s = "append" -> "reply" [] s = "reply" -> "ended"

Record(r) ==
  /\ step[r] = "record"
  /\ step' = [step EXCEPT ![r] = After("record")]
  /\ kept' = [kept EXCEPT ![r] = answer[r]]
  /\ UNCHANGED <<clientVars, channel, answer, snapshot, cancelled, sharedVars>>

\* SessionHistoryStore::append, for an answer that is not empty and a session that
\* has a history; the context of a stream ends here.
AppendTurn(r) ==
  /\ step[r] = "append"
  /\ step' = [step EXCEPT ![r] = After("append")]
  /\ history' = [history EXCEPT ![Key(r)] =
       IF answer[r] = 0 \/ Key(r) \notin Remembered THEN @
       ELSE Latest(Append(@, [of |-> r, said |-> answer[r]]), LargerOf(MaxTurns, 1))]
  /\ cancelled' = IF r \in Streamed THEN cancelled \cup {r} ELSE cancelled
  /\ UNCHANGED <<clientVars, channel, answer, snapshot, kept, evicted, faults>>

\* The done event, or the whole answer.
Reply(r) ==
  /\ step[r] = "reply"
  /\ CanSend(r)
  /\ Sent(r, "done")
  /\ step' = [step EXCEPT ![r] = After("reply")]
  /\ UNCHANGED <<clientVars, answer, snapshot, kept, cancelled, sharedVars>>

\* Requests whose turn was appended to a session.
Appended(s) ==
  {r \in Requests : session[r] = s /\ step[r] \in {"reply", "ended"} /\ kept[r] > 0}

\* The janitor removes a session that has been idle for its time to live.
Evict(s) ==
  /\ history[s] # <<>>
  /\ Fault
  /\ history' = [history EXCEPT ![s] = <<>>]
  /\ evicted' = evicted \cup Appended(s)
  /\ UNCHANGED <<clientVars, taskVars>>

\* Steps that wait for the model, which has no timeout of its own.
Model(r) == Preprocess(r) \/ Generate(r) \/ Delta(r) \/ Exhaust(r) \/ Break(r)

\* Steps that wait for Redis, which has none either: the counters, and the titles
\* of the links a stream's answer rests on.
Redis(r) == Trending(r) \/ (r \in Streamed /\ Record(r))

Handle(r) ==
  \/ Retrieve(r) \/ SendError(r) \/ TimeOut(r) \/ Start(r)
  \/ (r \in Json /\ Record(r)) \/ AppendTurn(r) \/ Reply(r)

Next ==
  \/ \E r \in Requests :
       \/ Ask(r) \/ Read(r) \/ Leave(r)
       \/ Model(r) \/ Redis(r) \/ Handle(r) \/ Fail(r) \/ DropFuture(r)
  \/ \E s \in Sessions : Evict(s)

Spec == Init /\ [][Next]_vars

\* The runtime polls every task and fires the timers, a client that stays reads
\* its response, and nothing makes the model or Redis answer.
FairSpec ==
  /\ Spec
  /\ \A r \in Requests : WF_vars(Handle(r)) /\ WF_vars(Read(r) \/ Leave(r))

-----------------------------------------------------------------------------

Steps == {"new", "preprocess", "tools", "generate", "trending", "start", "stream",
          "fail", "record", "append", "reply", "ended"}
Events == {"start", "delta"} \cup Terminal
Turns == [of : Requests, said : 1 .. MaxDeltas]

TypeOK ==
  /\ session \in Assignments
  /\ step \in [Requests -> Steps]
  /\ left \in [Requests -> {None, "asking", "later"}]
  /\ channel \in [Requests -> Seq(Events)]
  /\ got \in [Requests -> Seq(Events)]
  /\ snapshot \in [Requests -> Seq(Turns)]
  /\ \A r \in Requests : Len(channel[r]) <= Capacity /\ Len(snapshot[r]) <= InjectTurns
  /\ seen \in [Requests -> SUBSET Requests]
  /\ answer \in [Requests -> 0 .. MaxDeltas]
  /\ kept \in [Requests -> 0 .. MaxDeltas \cup {NotKept}]
  /\ cancelled \subseteq Requests
  /\ history \in [Sessions -> Seq(Turns)]
  /\ \A s \in Sessions : Len(history[s]) <= LargerOf(MaxTurns, 1)
  /\ evicted \subseteq Requests
  /\ faults \in 0 .. MaxFaults

\* Two tenants that use one session id never meet: neither in the turns that
\* reach the model nor in the stored history.
SessionsApart ==
  /\ \A r \in Requests : \A t \in Elems(snapshot[r]) : session[t.of] = session[r]
  /\ \A s \in Sessions : \A t \in Elems(history[s]) : session[t.of] = s

\* A question that follows an answer the client has received is asked with that
\* answer in the prompt.  It is missing only when the janitor removed the session
\* since, when the prompt is full of turns none of which the client had before it,
\* or in a session without a history.
FollowUpSeesAnswer ==
  \A r \in Requests : step[r] = "generate" =>
    \A q \in seen[r] :
      \/ answer[q] = 0 \/ session[q] \notin Remembered
      \/ q \in evicted
      \/ q \in {t.of : t \in Elems(snapshot[r])}
      \/ /\ Len(snapshot[r]) = SmallerOf(InjectTurns, LargerOf(MaxTurns, 1))
         /\ \A t \in Elems(snapshot[r]) : t.of \notin seen[q]

Count(r, event) == Cardinality({i \in DOMAIN got[r] : got[r][i] = event})
Stored(r) ==
  {t.said : t \in {u \in UNION {Elems(history[s]) : s \in Sessions} : u.of = r}}
    \cup ({kept[r]} \ {NotKept})

\* A client that reads done has read exactly the answer that is stored, and that
\* answer has been handed to the conversation service.
DoneIsStored ==
  \A r \in Streamed : "done" \in Elems(got[r]) =>
    kept[r] # NotKept /\ \A n \in Stored(r) : n = Count(r, "delta")

\* Of a request that was answered with an error, or of a stream whose client left
\* before the model began, nothing is stored.
NothingOfFailed ==
  \A r \in Requests :
    \/ "error" \in Elems(got[r] \o channel[r])
    \/ (r \in Streamed /\ left[r] = "asking")
    => kept[r] = NotKept /\ Stored(r) = {}

Flow(r) == got[r] \o channel[r]

\* The event stream is start, deltas and one end, or a single error, in this order.
EventGrammar ==
  \A r \in Requests : \A i \in DOMAIN Flow(r) :
    /\ Flow(r)[i] = "start" => i = 1
    /\ Flow(r)[i] = "delta" => i > 1
    /\ Flow(r)[i] \in Terminal => i = Len(Flow(r))
    /\ r \in Streamed /\ i = 1 => Flow(r)[i] \in {"start", "error"}

WaitsForService(r) ==
  step[r] \in {"preprocess", "generate", "trending", "stream"} \/ (r \in Streamed /\ step[r] = "record")

\* No handler is held up by its client, by a full channel or by the tools: each
\* comes to its end or to a step in which it waits for the model or for Redis, again
\* and again.  Without the event stream the request timeout bounds those as well.
OnlyServicesHold ==
  /\ \A r \in Requests : []<>(step[r] \in {"new", "ended"} \/ WaitsForService(r))
  /\ \A r \in Json : step[r] = "preprocess" ~> step[r] = "ended"

=============================================================================
