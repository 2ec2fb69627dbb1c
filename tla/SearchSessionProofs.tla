------------------------- MODULE SearchSessionProofs -------------------------
(***************************************************************************)
(* Theorems about SearchSession, for any number of requests and sessions   *)
(* and any bounds: types, sessions and the stream of events; then what is  *)
(* stored of an answer and what later searches see of it.                  *)
(***************************************************************************)
EXTENDS SearchSession, FiniteSetTheorems, SequenceTheorems, TLAPS

-----------------------------------------------------------------------------
(***************************************************************************)
(* The operators of the model.                                             *)
(***************************************************************************)

\* Latest keeps at most n turns, all of them turns it was given.
LEMMA LatestTurns ==
  ASSUME NEW T, NEW turns \in Seq(T), NEW n \in Nat
  PROVE  /\ Latest(turns, n) \in Seq(T)
         /\ Len(Latest(turns, n)) <= n
         /\ Elems(Latest(turns, n)) \subseteq Elems(turns)
<1> DEFINE first == LargerOf(0, Len(turns) - n) + 1
           last == SubSeq(turns, first, Len(turns))
<1>1. first \in Nat /\ 1 <= first /\ Len(turns) \in Nat /\ Len(turns) - first + 1 <= n
  BY DEF LargerOf
<1>2. last \in Seq(T) /\ Len(last) <= n
  BY <1>1
<1>3. DOMAIN last = 1 .. Len(last) /\ DOMAIN turns = 1 .. Len(turns)
  BY <1>2
<1>4. \A i \in 1 .. Len(last) : \E j \in 1 .. Len(turns) : last[i] = turns[j]
  BY <1>1
<1>5. Elems(last) \subseteq Elems(turns)
  BY <1>3, <1>4 DEF Elems
<1> QED
  BY <1>2, <1>5 DEF Latest

\* Appending a turn adds it to the elements.
LEMMA AppendElems ==
  ASSUME NEW T, NEW s \in Seq(T), NEW t \in T
  PROVE  Append(s, t) \in Seq(T) /\ Elems(Append(s, t)) = Elems(s) \cup {t}
<1>1. /\ Append(s, t) \in Seq(T) /\ Len(s) \in Nat /\ Len(Append(s, t)) = Len(s) + 1
      /\ \A i \in 1 .. Len(s) : Append(s, t)[i] = s[i]
      /\ Append(s, t)[Len(s) + 1] = t
  OBVIOUS
<1>2. DOMAIN s = 1 .. Len(s) /\ DOMAIN Append(s, t) = 1 .. Len(s) + 1
  BY <1>1
<1>3. 1 .. Len(s) + 1 = (1 .. Len(s)) \cup {Len(s) + 1}
  BY <1>1
<1> QED
  BY <1>1, <1>2, <1>3 DEF Elems

\* An event that is sent fits into the channel.
LEMMA SentType ==
  ASSUME TypeOK, NEW r \in Requests, NEW event \in Events, Sent(r, event)
  PROVE  /\ channel' \in [Requests -> Seq(Events)]
         /\ \A q \in Requests : Len(channel'[q]) <= Capacity
<1>1. /\ channel \in [Requests -> Seq(Events)] /\ Capacity \in Nat
      /\ \A q \in Requests : Len(channel[q]) \in Nat /\ Len(channel[q]) <= Capacity
  BY SearchAssumption DEF TypeOK
<1>2. /\ DOMAIN channel' = Requests /\ channel' = [q \in Requests |-> channel'[q]]
      /\ \A q \in Requests :
           \/ channel'[q] = channel[q]
           \/ channel'[q] = Append(channel[q], event) /\ ~(Len(channel[q]) >= Capacity)
  BY <1>1 DEF Sent
<1>3. ASSUME NEW q \in Requests
      PROVE  channel'[q] \in Seq(Events) /\ Len(channel'[q]) <= Capacity
  <2>1. CASE channel'[q] = channel[q]
    BY <1>1, <2>1
  <2>2. CASE channel'[q] = Append(channel[q], event) /\ ~(Len(channel[q]) >= Capacity)
    <3>1. Len(channel'[q]) = Len(channel[q]) + 1 /\ channel'[q] \in Seq(Events)
      BY <1>1, <2>2
    <3> QED
      BY <1>1, <2>2, <3>1
  <2> QED
    BY <1>2, <2>1, <2>2
<1> QED
  BY <1>2, <1>3

-----------------------------------------------------------------------------
(***************************************************************************)
(* Type correctness.                                                       *)
(***************************************************************************)

LEMMA InitSessionType == Init => TypeOK
<1> SUFFICES ASSUME Init PROVE TypeOK
  OBVIOUS
<1>1. /\ <<>> \in Seq(Events) /\ <<>> \in Seq(Turns) /\ Len(<<>>) = 0
  OBVIOUS
<1>2. /\ 0 <= Capacity /\ 0 <= InjectTurns /\ 0 <= LargerOf(MaxTurns, 1)
      /\ 0 \in 0 .. MaxDeltas /\ 0 \in 0 .. MaxFaults
  BY SearchAssumption DEF LargerOf
<1>3. \A r \in Requests : Len(channel[r]) <= Capacity /\ Len(snapshot[r]) <= InjectTurns
  BY <1>1, <1>2 DEF Init
<1>4. \A s \in Sessions : Len(history[s]) <= LargerOf(MaxTurns, 1)
  BY <1>1, <1>2 DEF Init
<1>5. "new" \in Steps /\ None \in {None, "asking", "later"} /\ NotKept \in 0 .. MaxDeltas \cup {NotKept}
  BY DEF Steps
<1> QED
  BY <1>1, <1>2, <1>3, <1>4, <1>5 DEF Init, TypeOK

\* Reads of the history and its appends keep it typed and bounded.
LEMMA HistoryType ==
  ASSUME TypeOK, NEW r \in Requests
  PROVE  /\ Retrieve(r) => /\ snapshot' \in [Requests -> Seq(Turns)]
                           /\ \A q \in Requests : Len(snapshot'[q]) <= InjectTurns
         /\ AppendTurn(r) => /\ history' \in [Sessions -> Seq(Turns)]
                             /\ \A s \in Sessions : Len(history'[s]) <= LargerOf(MaxTurns, 1)
<1>1. Key(r) \in Sessions
  BY SearchAssumption DEF Key, TypeOK
<1>2. /\ history \in [Sessions -> Seq(Turns)]
      /\ \A s \in Sessions : Len(history[s]) <= LargerOf(MaxTurns, 1)
      /\ answer[r] \in 0 .. MaxDeltas /\ MaxDeltas \in Nat
  BY SearchAssumption DEF TypeOK
<1>3. ASSUME Retrieve(r)
      PROVE  /\ snapshot' \in [Requests -> Seq(Turns)]
             /\ \A q \in Requests : Len(snapshot'[q]) <= InjectTurns
  <2>1. /\ Latest(history[Key(r)], InjectTurns) \in Seq(Turns)
        /\ Len(Latest(history[Key(r)], InjectTurns)) <= InjectTurns
    BY <1>1, <1>2, LatestTurns, SearchAssumption
  <2> QED
    BY <1>3, <2>1 DEF Retrieve, TypeOK
<1>4. ASSUME AppendTurn(r)
      PROVE  /\ history' \in [Sessions -> Seq(Turns)]
             /\ \A s \in Sessions : Len(history'[s]) <= LargerOf(MaxTurns, 1)
  <2> DEFINE turn == [of |-> r, said |-> answer[r]]
             longer == Latest(Append(history[Key(r)], turn), LargerOf(MaxTurns, 1))
  <2>1. CASE answer[r] = 0 \/ session[r] \notin Remembered
    BY <1>1, <1>2, <1>4, <2>1 DEF AppendTurn, Key
  <2>2. CASE answer[r] # 0 /\ session[r] \in Remembered
    <3>1. turn \in Turns
      BY <1>2, <2>2 DEF Turns
    <3>2. Append(history[Key(r)], turn) \in Seq(Turns)
      BY <1>1, <1>2, <3>1
    <3>3. LargerOf(MaxTurns, 1) \in Nat
      BY SearchAssumption DEF LargerOf
    <3>4. longer \in Seq(Turns) /\ Len(longer) <= LargerOf(MaxTurns, 1)
      BY <3>2, <3>3, LatestTurns
    <3>5. history' = [history EXCEPT ![Key(r)] = longer]
      BY <1>4, <2>2 DEF AppendTurn, Key
    <3> HIDE DEF longer
    <3> QED
      BY <1>1, <1>2, <3>4, <3>5
  <2> QED
    BY <2>1, <2>2
<1> QED
  BY <1>3, <1>4

LEMMA NextSessionType ==
  ASSUME TypeOK, [Next]_vars
  PROVE  TypeOK'
<1> USE DEF clientVars, taskVars, sharedVars
<1>e. {"start", "delta", "done", "error"} \subseteq Events
  BY DEF Events, Terminal
<1>n. MaxDeltas \in Nat \ {0} /\ MaxFaults \in Nat /\ Capacity \in Nat
  BY SearchAssumption
<1>1. ASSUME NEW r \in Requests, Ask(r) PROVE TypeOK'
  BY <1>1 DEF Ask, TypeOK, Steps
<1>2. ASSUME NEW r \in Requests, Read(r) PROVE TypeOK'
  <2>1. /\ channel[r] \in Seq(Events) /\ channel[r] # <<>> /\ got[r] \in Seq(Events)
        /\ Len(channel[r]) <= Capacity
    BY <1>2 DEF Read, TypeOK
  <2>2. /\ Head(channel[r]) \in Events /\ Tail(channel[r]) \in Seq(Events)
        /\ Len(Tail(channel[r])) <= Capacity
    BY <2>1, <1>n
  <2>3. Append(got[r], Head(channel[r])) \in Seq(Events)
    BY <2>1, <2>2
  <2> QED
    BY <1>2, <2>2, <2>3 DEF Read, TypeOK
<1>3. ASSUME NEW r \in Requests, Leave(r) PROVE TypeOK'
  <2>1. <<>> \in Seq(Events) /\ Len(<<>>) <= Capacity
    BY <1>n
  <2> QED
    BY <1>3, <2>1, <1>n DEF Leave, Fault, TypeOK, None
<1>4. ASSUME NEW r \in Requests, Preprocess(r) \/ Trending(r) \/ DropFuture(r) \/ Exhaust(r)
      PROVE  TypeOK'
  BY <1>4 DEF Preprocess, Trending, DropFuture, Exhaust, TypeOK, Steps
<1>5. ASSUME NEW r \in Requests, Retrieve(r) PROVE TypeOK'
  BY <1>5, HistoryType DEF Retrieve, TypeOK, Steps
<1>6. ASSUME NEW r \in Requests, Generate(r) PROVE TypeOK'
  <2>1. answer' \in [Requests -> 0 .. MaxDeltas]
    <3>1. PICK n \in 0 .. 1 : answer' = answer \/ answer' = [answer EXCEPT ![r] = n]
      BY <1>6 DEF Generate
    <3>2. n \in 0 .. MaxDeltas
      BY <1>n
    <3> QED
      BY <3>1, <3>2 DEF TypeOK
  <2> QED
    BY <1>6, <2>1 DEF Generate, TypeOK, Steps
<1>7. ASSUME NEW r \in Requests, Fail(r) PROVE TypeOK'
  BY <1>7, <1>n DEF Fail, Fault, TypeOK, Steps
<1>8. ASSUME NEW r \in Requests, SendError(r) \/ TimeOut(r) PROVE TypeOK'
  <2>1. /\ channel' \in [Requests -> Seq(Events)]
        /\ \A q \in Requests : Len(channel'[q]) <= Capacity
    BY <1>8, <1>e, SentType DEF SendError, TimeOut
  <2> QED
    BY <1>8, <2>1 DEF SendError, TimeOut, TypeOK, Steps
<1>9. ASSUME NEW r \in Requests, Start(r) PROVE TypeOK'
  <2>1. /\ channel' \in [Requests -> Seq(Events)]
        /\ \A q \in Requests : Len(channel'[q]) <= Capacity
    BY <1>9, <1>e, SentType DEF Start
  <2> QED
    BY <1>9, <2>1 DEF Start, Abandon, TypeOK, Steps
<1>10. ASSUME NEW r \in Requests, Delta(r) PROVE TypeOK'
  <2>1. /\ channel' \in [Requests -> Seq(Events)]
        /\ \A q \in Requests : Len(channel'[q]) <= Capacity
    BY <1>10, <1>e, SentType DEF Delta
  <2>2. answer' \in [Requests -> 0 .. MaxDeltas]
    BY <1>10, <1>n DEF Delta, TypeOK
  <2>3. step' \in [Requests -> Steps] /\ cancelled' \subseteq Requests
    BY <1>10 DEF Delta, Abandon, TypeOK, Steps
  <2> QED
    BY <1>10, <2>1, <2>2, <2>3 DEF Delta, TypeOK
<1>11. ASSUME NEW r \in Requests, Break(r) PROVE TypeOK'
  <2>1. /\ channel' \in [Requests -> Seq(Events)]
        /\ \A q \in Requests : Len(channel'[q]) <= Capacity
    BY <1>11, <1>e, SentType DEF Break
  <2> QED
    <3>1. step' \in [Requests -> Steps]
      BY <1>11 DEF Break, OnStreamError, TypeOK, Steps
    <3>2. faults' \in 0 .. MaxFaults
      BY <1>11, <1>n DEF Break, Fault, TypeOK
    <3>3. cancelled' \subseteq Requests
      BY <1>11 DEF Break, TypeOK
    <3> QED
      BY <1>11, <2>1, <3>1, <3>2, <3>3 DEF Break, TypeOK
<1>12. ASSUME NEW r \in Requests, Record(r) PROVE TypeOK'
  BY <1>12 DEF Record, After, TypeOK, Steps
<1>13. ASSUME NEW r \in Requests, AppendTurn(r) PROVE TypeOK'
  BY <1>13, HistoryType DEF AppendTurn, After, TypeOK, Steps
<1>14. ASSUME NEW r \in Requests, Reply(r) PROVE TypeOK'
  <2>1. /\ channel' \in [Requests -> Seq(Events)]
        /\ \A q \in Requests : Len(channel'[q]) <= Capacity
    BY <1>14, <1>e, SentType DEF Reply
  <2> QED
    BY <1>14, <2>1 DEF Reply, After, TypeOK, Steps
<1>15. ASSUME NEW s \in Sessions, Evict(s) PROVE TypeOK'
  <2>1. Appended(s) \subseteq Requests
    BY DEF Appended
  <2>2. /\ history' \in [Sessions -> Seq(Turns)]
        /\ \A u \in Sessions : Len(history'[u]) <= LargerOf(MaxTurns, 1)
    <3>1. <<>> \in Seq(Turns) /\ Len(<<>>) = 0 /\ 0 <= LargerOf(MaxTurns, 1)
      BY SearchAssumption DEF LargerOf
    <3> QED
      BY <1>15, <3>1 DEF Evict, TypeOK
  <2> QED
    BY <1>15, <2>1, <2>2, <1>n DEF Evict, Fault, TypeOK
<1>16. CASE UNCHANGED vars
  BY <1>16 DEF vars, TypeOK
<1> QED
  BY <1>1, <1>2, <1>3, <1>4, <1>5, <1>6, <1>7, <1>8, <1>9, <1>10, <1>11, <1>12, <1>13,
     <1>14, <1>15, <1>16 DEF Next, Model, Redis, Handle

\* Every reachable state of the searches is well typed: channels, prompts and
\* histories never exceed their bounds.
THEOREM SessionTypeCorrect == Spec => []TypeOK
<1>1. TypeOK /\ [Next]_vars => TypeOK'
  BY NextSessionType
<1> QED
  BY <1>1, InitSessionType, PTL DEF Spec

-----------------------------------------------------------------------------
(***************************************************************************)
(* Tenants and sessions.                                                   *)
(***************************************************************************)

\* A search reads and writes the turns of its own session only.
LEMMA HistoryApart ==
  ASSUME TypeOK, SessionsApart, NEW r \in Requests, session' = session
  PROVE  /\ Retrieve(r) => SessionsApart'
         /\ AppendTurn(r) => SessionsApart'
<1>1. Key(r) \in Sessions /\ Key(r) = session[r] /\ history[Key(r)] \in Seq(Turns)
  BY SearchAssumption DEF Key, TypeOK
<1>2. ASSUME Retrieve(r) PROVE SessionsApart'
  <2>1. Elems(Latest(history[Key(r)], InjectTurns)) \subseteq Elems(history[Key(r)])
    BY <1>1, LatestTurns, SearchAssumption
  <2>2. \A q \in Requests : snapshot'[q] =
          IF q = r THEN Latest(history[Key(r)], InjectTurns) ELSE snapshot[q]
    BY <1>2 DEF Retrieve, TypeOK
  <2>3. history' = history
    BY <1>2 DEF Retrieve, sharedVars
  <2> QED
    BY <1>1, <2>1, <2>2, <2>3 DEF SessionsApart
<1>3. ASSUME AppendTurn(r) PROVE SessionsApart'
  <2> DEFINE turn == [of |-> r, said |-> answer[r]]
             longer == Latest(Append(history[Key(r)], turn), LargerOf(MaxTurns, 1))
  <2>1. snapshot' = snapshot
    BY <1>3 DEF AppendTurn
  <2>2. CASE answer[r] = 0 \/ session[r] \notin Remembered
    <3>1. history' = history
      BY <1>1, <1>3, <2>2 DEF AppendTurn, Key, TypeOK
    <3> QED
      BY <2>1, <3>1 DEF SessionsApart
  <2>3. CASE answer[r] # 0 /\ session[r] \in Remembered
    <3>1. turn \in Turns
      BY <2>3, SearchAssumption DEF Turns, TypeOK
    <3>2. /\ Append(history[Key(r)], turn) \in Seq(Turns)
          /\ Elems(Append(history[Key(r)], turn)) = Elems(history[Key(r)]) \cup {turn}
      BY <1>1, <3>1, AppendElems
    <3>3. LargerOf(MaxTurns, 1) \in Nat
      BY SearchAssumption DEF LargerOf
    <3>4. Elems(longer) \subseteq Elems(history[Key(r)]) \cup {turn}
      BY <3>2, <3>3, LatestTurns
    <3>5. \A s \in Sessions : history'[s] = IF s = Key(r) THEN longer ELSE history[s]
      BY <1>1, <1>3, <2>3 DEF AppendTurn, Key, TypeOK
    <3>6. turn.of = r
      OBVIOUS
    <3> HIDE DEF longer, turn
    <3> QED
      BY <1>1, <2>1, <3>4, <3>5, <3>6 DEF SessionsApart
  <2> QED
    BY <2>2, <2>3
<1> QED
  BY <1>2, <1>3

LEMMA NextApart ==
  ASSUME TypeOK, SessionsApart, [Next]_vars
  PROVE  SessionsApart'
<1> USE DEF clientVars, taskVars, sharedVars
<1>1. session' = session
  BY DEF Next, Model, Redis, Handle, Ask, Read, Leave, Preprocess, Generate, Delta, Exhaust, Break,
         Retrieve, Trending, SendError, TimeOut, Start, Record, AppendTurn, Reply, Fail,
         DropFuture, Evict, vars
<1>2. CASE UNCHANGED <<history, snapshot>>
  BY <1>1, <1>2 DEF SessionsApart
<1>3. ASSUME NEW s \in Sessions, Evict(s) PROVE SessionsApart'
  <2>1. \A u \in Sessions : history'[u] = IF u = s THEN <<>> ELSE history[u]
    BY <1>3 DEF Evict, TypeOK
  <2>2. Elems(<<>>) = {}
    BY DEF Elems
  <2>3. snapshot' = snapshot
    BY <1>3 DEF Evict
  <2> QED
    BY <1>1, <2>1, <2>2, <2>3 DEF SessionsApart
<1>4. ASSUME NEW r \in Requests, Retrieve(r) \/ AppendTurn(r) PROVE SessionsApart'
  BY <1>1, <1>4, HistoryApart
<1> QED
  BY <1>2, <1>3, <1>4
     DEF Next, Model, Redis, Handle, Ask, Read, Leave, Preprocess, Generate, Delta, Exhaust, Break,
         Trending, SendError, TimeOut, Start, Record, Reply, Fail, DropFuture, vars

\* Tenants that use one session id never meet, in the prompts or in the stored
\* history, however their searches interleave.
THEOREM TenantsApart == Spec => []SessionsApart
<1>1. Init => SessionsApart
  BY DEF Init, SessionsApart, Elems
<1>2. TypeOK /\ SessionsApart /\ [Next]_vars => SessionsApart'
  BY NextApart
<1> QED
  BY <1>1, <1>2, SessionTypeCorrect, PTL DEF Spec

-----------------------------------------------------------------------------
(***************************************************************************)
(* The events of a request.                                                *)
(***************************************************************************)

Early == {"new", "preprocess", "tools", "generate", "trending", "start", "fail"}
Completing == {"record", "append", "reply"}

\* What the events sent to a client look like.
Shape(r) ==
  \A i \in 1 .. Len(Flow(r)) :
    /\ r \in Streamed => (i = 1 <=> Flow(r)[i] = "start") \/ Flow(r)[i] \in Terminal
    /\ r \in Streamed /\ i = 1 => Flow(r)[i] # "done"
    /\ r \in Json => i = 1 /\ Flow(r)[i] \in Terminal
    /\ Flow(r)[i] \in Terminal => i = Len(Flow(r)) /\ step[r] = "ended"
    /\ Flow(r)[i] = "done" /\ r \in Streamed => Len(Flow(r)) = answer[r] + 2

\* How many there are, in terms of where the handler is.
FlowOf(r) ==
  /\ step[r] \in {"start", "stream"} => r \in Streamed
  /\ step[r] \in Early => Flow(r) = <<>> /\ (r \in Streamed => answer[r] = 0)
  /\ step[r] \in Completing /\ r \in Json => Flow(r) = <<>>
  /\ step[r] \in Completing \cup {"stream"} /\ r \in Streamed /\ ~Gone(r)
       => Len(Flow(r)) = answer[r] + 1
  /\ Shape(r)

FlowInv == \A r \in Requests : FlowOf(r)

\* Indices of a concatenation.
LEMMA ConcatIndices ==
  ASSUME NEW s1 \in Seq(Events), NEW s2 \in Seq(Events)
  PROVE  /\ Len(s1) \in Nat /\ Len(s2) \in Nat
         /\ s1 \o s2 \in Seq(Events)
         /\ Len(s1 \o s2) = Len(s1) + Len(s2)
         /\ \A i \in 1 .. Len(s1) : (s1 \o s2)[i] = s1[i]
         /\ \A i \in 1 .. Len(s2) : (s1 \o s2)[Len(s1) + i] = s2[i]
<1>1. Len(s1) \in Nat /\ Len(s2) \in Nat
  OBVIOUS
<1>2. ASSUME NEW m \in Nat, NEW n \in Nat
      PROVE  /\ \A i \in 1 .. m : i \in 1 .. m + n /\ i <= m
             /\ \A i \in 1 .. n : m + i \in 1 .. m + n /\ ~(m + i <= m) /\ m + i - m = i
  OBVIOUS
<1> QED
  BY <1>1, <1>2, ConcatProperties

LEMMA FlowFacts ==
  ASSUME TypeOK, NEW r \in Requests
  PROVE  /\ Flow(r) \in Seq(Events)
         /\ Len(got[r]) \in Nat /\ Len(channel[r]) \in Nat
         /\ Len(Flow(r)) = Len(got[r]) + Len(channel[r])
         /\ \A i \in 1 .. Len(got[r]) : Flow(r)[i] = got[r][i]
         /\ \A i \in 1 .. Len(channel[r]) : Flow(r)[Len(got[r]) + i] = channel[r][i]
<1>1. got[r] \in Seq(Events) /\ channel[r] \in Seq(Events)
  BY DEF TypeOK
<1> DEFINE f == got[r] \o channel[r]
<1>2. /\ Len(got[r]) \in Nat /\ Len(channel[r]) \in Nat
      /\ f \in Seq(Events)
      /\ Len(f) = Len(got[r]) + Len(channel[r])
      /\ \A i \in 1 .. Len(got[r]) : f[i] = got[r][i]
      /\ \A i \in 1 .. Len(channel[r]) : f[Len(got[r]) + i] = channel[r][i]
  BY <1>1, ConcatIndices
<1> QED
  BY <1>2, Zenon DEF Flow

\* Sums of lengths.
LEMMA LengthSums ==
  ASSUME NEW m \in Nat, NEW n \in Nat
  PROVE  /\ m + n = 0 => m = 0 /\ n = 0
         /\ \A i \in 1 .. m : i \in 1 .. m + n
  OBVIOUS

\* An event behind the events of a channel is behind all events.
LEMMA ConcatAppend ==
  ASSUME NEW s1 \in Seq(Events), NEW s2 \in Seq(Events), NEW e \in Events
  PROVE  s1 \o Append(s2, e) = Append(s1 \o s2, e)
<1>1. <<e>> \in Seq(Events) /\ s1 \o s2 \in Seq(Events)
  OBVIOUS
<1>2. Append(s2, e) = s2 \o <<e>> /\ Append(s1 \o s2, e) = (s1 \o s2) \o <<e>>
  BY <1>1
<1> QED
  BY <1>1, <1>2, ConcatAssociative

\* Sending adds one event, to the events of its own request, while the client
\* is there.
LEMMA FlowSent ==
  ASSUME TypeOK, TypeOK', NEW r \in Requests, NEW event \in Events, Sent(r, event), got' = got
  PROVE  /\ \A q \in Requests \ {r} : Flow(q)' = Flow(q)
         /\ Gone(r) => Flow(r)' = Flow(r)
         /\ ~Gone(r) /\ Len(channel[r]) < Capacity =>
              /\ Len(Flow(r)') = Len(Flow(r)) + 1
              /\ \A i \in 1 .. Len(Flow(r)) : Flow(r)'[i] = Flow(r)[i]
              /\ Flow(r)'[Len(Flow(r)) + 1] = event
<1>1. /\ channel \in [Requests -> Seq(Events)] /\ Capacity \in Nat
      /\ channel' = [channel EXCEPT ![r] =
           IF Gone(r) \/ Len(@) >= Capacity THEN @ ELSE Append(@, event)]
  BY SearchAssumption DEF TypeOK, Sent
<1>2. \A q \in Requests \ {r} : Flow(q)' = Flow(q)
  BY <1>1 DEF Flow
<1>3. Gone(r) => Flow(r)' = Flow(r)
  BY <1>1 DEF Flow
<1>4. ASSUME ~Gone(r), Len(channel[r]) < Capacity
      PROVE  /\ Len(Flow(r)') = Len(Flow(r)) + 1
             /\ \A i \in 1 .. Len(Flow(r)) : Flow(r)'[i] = Flow(r)[i]
             /\ Flow(r)'[Len(Flow(r)) + 1] = event
  <2>1. channel[r] \in Seq(Events) /\ got[r] \in Seq(Events) /\ <<event>> \in Seq(Events)
    BY DEF TypeOK
  <2>2. channel'[r] = Append(channel[r], event)
    <3>1. Len(channel[r]) \in Nat
      BY <2>1
    <3> QED
      BY <1>1, <1>4, <3>1
  <2>4. Flow(r)' = Append(Flow(r), event)
    <3>1. got[r] \o Append(channel[r], event) = Append(got[r] \o channel[r], event)
      BY <2>1, ConcatAppend
    <3> QED
      BY <2>2, <3>1, Zenon DEF Flow
  <2>5. Flow(r) \in Seq(Events) /\ Len(Flow(r)) \in Nat
    <3>1. Flow(r) \in Seq(Events)
      BY FlowFacts
    <3> QED
      BY <3>1
  <2> HIDE DEF Flow
  <2> QED
    BY <2>4, <2>5
<1> QED
  BY <1>2, <1>3, <1>4

\* Reading moves an event from the channel to the client.
LEMMA FlowRead ==
  ASSUME TypeOK, NEW r \in Requests, Read(r)
  PROVE  \A q \in Requests : Flow(q)' = Flow(q)
<1>1. /\ channel[r] \in Seq(Events) /\ channel[r] # <<>> /\ got[r] \in Seq(Events)
      /\ got' = [got EXCEPT ![r] = Append(@, Head(channel[r]))]
      /\ channel' = [channel EXCEPT ![r] = Tail(@)]
      /\ got \in [Requests -> Seq(Events)] /\ channel \in [Requests -> Seq(Events)]
  BY DEF Read, TypeOK
<1> DEFINE h == Head(channel[r])
           t == Tail(channel[r])
<1>2. h \in Events /\ t \in Seq(Events) /\ <<h>> \in Seq(Events)
  BY <1>1
<1>3. Append(got[r], h) = got[r] \o <<h>>
  BY <1>1, <1>2
<1>4. <<h>> \o t = channel[r]
  <2>1. /\ <<h>> \o t \in Seq(Events) /\ Len(<<h>> \o t) = 1 + Len(t)
        /\ \A i \in 1 .. 1 + Len(t) : (<<h>> \o t)[i] = IF i <= 1 THEN h ELSE t[i - 1]
    BY <1>2, ConcatProperties
  <2>2. /\ Len(channel[r]) \in Nat /\ Len(t) = Len(channel[r]) - 1 /\ h = channel[r][1]
        /\ \A i \in 1 .. Len(t) : t[i] = channel[r][i + 1]
    BY <1>1
  <2>3. Len(<<h>> \o t) = Len(channel[r])
    BY <2>1, <2>2
  <2>4. \A i \in 1 .. Len(<<h>> \o t) : (<<h>> \o t)[i] = channel[r][i]
    <3> SUFFICES ASSUME NEW i \in 1 .. Len(channel[r])
                 PROVE  (<<h>> \o t)[i] = channel[r][i]
      BY <2>3
    <3>1. CASE i = 1
      BY <2>1, <2>2, <3>1
    <3>2. CASE i # 1
      <4>1. i - 1 \in 1 .. Len(t) /\ i - 1 + 1 = i /\ ~(i <= 1) /\ i \in 1 .. 1 + Len(t)
        BY <2>2, <3>2
      <4> QED
        BY <2>1, <2>2, <4>1
    <3> QED
      BY <3>1, <3>2
  <2> QED
    BY <1>1, <2>1, <2>3, <2>4, SeqEqual
<1>5. (got[r] \o <<h>>) \o t = got[r] \o channel[r]
  BY <1>1, <1>2, <1>4, ConcatAssociative
<1>6. Flow(r)' = Flow(r)
  BY <1>1, <1>3, <1>5 DEF Flow
<1>7. \A q \in Requests \ {r} : Flow(q)' = Flow(q)
  BY <1>1 DEF Flow
<1> QED
  BY <1>6, <1>7

\* A request about which nothing changes.
LEMMA FlowKept ==
  ASSUME NEW q \in Requests, FlowOf(q), Flow(q)' = Flow(q),
         step'[q] = step[q], left'[q] = left[q], answer'[q] = answer[q]
  PROVE  FlowOf(q)'
<1>1. Gone(q)' = Gone(q)
  BY DEF Gone
<1>2. Shape(q)'
  BY DEF FlowOf, Shape
<1> HIDE DEF Flow
<1> QED
  BY <1>1, <1>2 DEF FlowOf

\* A request whose handler moves without an event.
LEMMA FlowMoved ==
  ASSUME NEW r \in Requests, FlowOf(r), Flow(r)' = Flow(r), left' = left,
         step[r] # "ended",
         step'[r] = "start" => r \in Streamed,
         step'[r] \in Early => step[r] \in Early /\ (r \in Streamed => answer'[r] = answer[r]),
         step'[r] = "stream" => FALSE,
         step'[r] \in Completing =>
           \/ r \in Json /\ step[r] \in Early \cup Completing
           \/ r \in Streamed /\ step[r] \in Completing \cup {"stream"} /\ answer'[r] = answer[r]
  PROVE  FlowOf(r)'
<1>1. Gone(r)' = Gone(r)
  BY DEF Gone
<1>2. \A i \in 1 .. Len(Flow(r)) : Flow(r)[i] \notin Terminal
  BY DEF FlowOf, Shape
<1>3. "done" \in Terminal
  BY DEF Terminal
<1>4. Shape(r)'
  BY <1>2, <1>3 DEF FlowOf, Shape
<1>5. {"start", "stream"} \cap Completing = {} /\ "stream" \notin Early /\ Streamed \cap Json = {}
  BY DEF Completing, Early, Json
<1> QED
  BY <1>1, <1>4, <1>5 DEF FlowOf

\* A request to which an event is sent.
LEMMA FlowGrown ==
  ASSUME NEW r \in Requests, NEW event \in Events, TypeOK, TypeOK', FlowOf(r),
         Sent(r, event), CanSend(r) \/ Flow(r) = <<>>, got' = got, left' = left,
         step[r] # "ended",
         step'[r] \in {"ended", "stream", "record"},
         step'[r] # "ended" => ~Gone(r) /\ r \in Streamed /\ Len(Flow(r)) + 1 = answer'[r] + 1,
         r \in Json => event \in Terminal /\ Flow(r) = <<>>,
         r \in Streamed /\ ~Gone(r) => (event = "start" <=> Flow(r) = <<>>) \/ event \in Terminal,
         event \in Terminal => step'[r] = "ended",
         r \in Streamed /\ event = "done" =>
           answer'[r] = answer[r] /\ (Gone(r) \/ Len(Flow(r)) = answer[r] + 1)
  PROVE  FlowOf(r)'
<1>g. Gone(r)' = Gone(r)
  BY DEF Gone
<1>s. /\ Streamed \cap Json = {} /\ "done" \in Terminal
      /\ {"ended", "stream", "record"} \cap (Early \cup {"start"}) = {}
      /\ "ended" \notin Completing /\ "stream" \notin Completing
  BY DEF Json, Terminal, Early, Completing
<1>n. \A i \in 1 .. Len(Flow(r)) : Flow(r)[i] \notin Terminal
  BY DEF FlowOf, Shape
<1>1. CASE Gone(r)
  <2>1. Flow(r)' = Flow(r) /\ step'[r] = "ended"
    BY <1>1, FlowSent
  <2>2. Shape(r)'
    BY <2>1, <1>n, <1>s DEF FlowOf, Shape
  <2> QED
    BY <2>1, <2>2, <1>s DEF FlowOf
<1>2. CASE ~Gone(r)
  <2>f. Flow(r) \in Seq(Events) /\ Len(Flow(r)) \in Nat
    <3>1. Flow(r) \in Seq(Events)
      BY FlowFacts
    <3> QED
      BY <3>1
  <2>c. Len(channel[r]) < Capacity
    <3>1. CASE CanSend(r)
      BY <1>2, <3>1 DEF CanSend
    <3>2. CASE Flow(r) = <<>>
      <4>1. Len(Flow(r)) = 0
        BY <3>2
      <4>a. Len(Flow(r)) = Len(got[r]) + Len(channel[r])
        BY FlowFacts
      <4>b. Len(got[r]) \in Nat /\ Len(channel[r]) \in Nat
        BY DEF TypeOK
      <4>2. Len(channel[r]) = 0
        BY <4>1, <4>a, <4>b, LengthSums, Zenon
      <4> QED
        BY <4>2, SearchAssumption
    <3> QED
      BY <3>1, <3>2
  <2>1. /\ Len(Flow(r)') = Len(Flow(r)) + 1
        /\ \A i \in 1 .. Len(Flow(r)) : Flow(r)'[i] = Flow(r)[i]
        /\ Flow(r)'[Len(Flow(r)) + 1] = event
    BY <1>2, <2>c, FlowSent
  <2>2. \A i \in 1 .. Len(Flow(r)') : i \in 1 .. Len(Flow(r)) \/ i = Len(Flow(r)) + 1
    BY <2>1, <2>f
  <2>3. Flow(r) = <<>> <=> Len(Flow(r)) = 0
    BY <2>f
  <2>a. answer[r] \in Nat /\ answer'[r] \in Nat
    BY SearchAssumption DEF TypeOK
  <2>4. Shape(r)'
    <3> SUFFICES ASSUME NEW i \in 1 .. Len(Flow(r)')
                 PROVE  /\ r \in Streamed => (i = 1 <=> Flow(r)'[i] = "start") \/ Flow(r)'[i] \in Terminal
                        /\ r \in Streamed /\ i = 1 => Flow(r)'[i] # "done"
                        /\ r \in Json => i = 1 /\ Flow(r)'[i] \in Terminal
                        /\ Flow(r)'[i] \in Terminal => i = Len(Flow(r)') /\ step'[r] = "ended"
                        /\ Flow(r)'[i] = "done" /\ r \in Streamed => Len(Flow(r)') = answer'[r] + 2
      BY Zenon DEF Shape
    <3> HIDE DEF Flow
    <3>1. CASE i \in 1 .. Len(Flow(r))
      <4>1. Flow(r)'[i] = Flow(r)[i] /\ Flow(r)[i] \notin Terminal /\ ~(r \in Json)
        BY <2>1, <2>3, <2>f, <3>1, <1>n
      <4>2. r \in Streamed => (i = 1 <=> Flow(r)[i] = "start")
        BY <3>1, <4>1 DEF FlowOf, Shape
      <4> QED
        BY <4>1, <4>2, <1>s
    <3>2. CASE i = Len(Flow(r)) + 1
      <4>1. Flow(r)'[i] = event /\ i = Len(Flow(r)')
        BY <2>1, <3>2
      <4>2. i = 1 <=> Flow(r) = <<>>
        BY <2>3, <2>f, <3>2
      <4>3. r \in Streamed /\ event = "done" => i # 1 /\ Len(Flow(r)') = answer'[r] + 2
        BY <1>2, <2>1, <2>a, <2>f, <3>2
      <4> QED
        BY <1>2, <1>s, <4>1, <4>2, <4>3
    <3> QED
      BY <2>2, <3>1, <3>2
  <2>5. step'[r] # "ended" => Len(Flow(r)') = answer'[r] + 1
    BY <2>1
  <2> HIDE DEF Flow
  <2> QED
    BY <2>4, <2>5, <1>s DEF FlowOf
<1> QED
  BY <1>1, <1>2

\* A client that leaves: what it has read is what there was of its events.
LEMMA FlowLeft ==
  ASSUME NEW r \in Requests, TypeOK, TypeOK', FlowOf(r), Leave(r)
  PROVE  FlowOf(r)'
<1>1. /\ step' = step /\ answer' = answer /\ got' = got /\ channel'[r] = <<>>
      /\ step[r] # "ended" /\ Gone(r)'
  <2>1. left'[r] \in {"asking", "later"}
    BY DEF Leave, TypeOK
  <2> QED
    BY <2>1 DEF Leave, TypeOK, Gone, None
<1>2. /\ Len(got[r]) \in Nat /\ Len(channel[r]) \in Nat
      /\ Len(Flow(r)) = Len(got[r]) + Len(channel[r])
      /\ \A i \in 1 .. Len(got[r]) : Flow(r)[i] = got[r][i]
  BY FlowFacts
<1>3. Flow(r)' = got[r]
  <2>1. got[r] \in Seq(Events)
    BY DEF TypeOK
  <2>2. got[r] \o <<>> = got[r]
    BY <2>1
  <2> QED
    BY <1>1, <2>2 DEF Flow
<1>4. \A i \in 1 .. Len(got[r]) : i \in 1 .. Len(Flow(r)) /\ Flow(r)[i] = Flow(r)'[i]
  <2>1. \A i \in 1 .. Len(got[r]) : i \in 1 .. Len(got[r]) + Len(channel[r])
    BY <1>2, LengthSums, Zenon
  <2> HIDE DEF Flow
  <2> QED
    BY <1>2, <1>3, <2>1, Zenon
<1>5. \A i \in 1 .. Len(Flow(r)) : Flow(r)[i] \notin Terminal
  BY <1>1 DEF FlowOf, Shape
<1>6. "done" \in Terminal
  BY DEF Terminal
<1>7. Shape(r)'
  <2> SUFFICES ASSUME NEW i \in 1 .. Len(Flow(r)')
               PROVE  /\ r \in Streamed => (i = 1 <=> Flow(r)'[i] = "start") \/ Flow(r)'[i] \in Terminal
                      /\ r \in Streamed /\ i = 1 => Flow(r)'[i] # "done"
                      /\ r \in Json => i = 1 /\ Flow(r)'[i] \in Terminal
                      /\ Flow(r)'[i] \in Terminal => i = Len(Flow(r)') /\ step'[r] = "ended"
                      /\ Flow(r)'[i] = "done" /\ r \in Streamed => Len(Flow(r)') = answer'[r] + 2
    BY Zenon DEF Shape
  <2>1. i \in 1 .. Len(Flow(r)) /\ Flow(r)'[i] = Flow(r)[i]
    BY <1>3, <1>4
  <2> HIDE DEF Flow
  <2> QED
    BY <2>1, <1>5, <1>6 DEF FlowOf, Shape
<1>8. Flow(r) = <<>> => Flow(r)' = <<>>
  <2> SUFFICES ASSUME Flow(r) = <<>> PROVE got[r] = <<>>
    BY <1>3
  <2>1. Len(Flow(r)) = 0
    OBVIOUS
  <2>2. Len(got[r]) = 0
    BY <2>1, <1>2, LengthSums, Zenon
  <2> QED
    BY <2>2 DEF TypeOK
<1> HIDE DEF Flow
<1> QED
  BY <1>1, <1>7, <1>8 DEF FlowOf

\* What an action of one request leaves alone.
LEMMA OwnRequest ==
  ASSUME NEW r \in Requests, TypeOK,
         \/ Ask(r) \/ Leave(r) \/ Model(r) \/ Redis(r) \/ Handle(r) \/ Fail(r) \/ DropFuture(r)
  PROVE  \A q \in Requests \ {r} :
           /\ step'[q] = step[q] /\ left'[q] = left[q] /\ answer'[q] = answer[q]
           /\ kept'[q] = kept[q] /\ got'[q] = got[q] /\ channel'[q] = channel[q]
           /\ seen'[q] = seen[q] /\ snapshot'[q] = snapshot[q]
<1> USE DEF clientVars, taskVars, sharedVars, TypeOK
<1>1. CASE Ask(r) \/ Leave(r) \/ Fail(r) \/ DropFuture(r)
  BY <1>1 DEF Ask, Leave, Fail, DropFuture
<1>2. CASE Preprocess(r) \/ Generate(r) \/ Exhaust(r) \/ Retrieve(r) \/ Trending(r) \/ Record(r) \/ AppendTurn(r)
  BY <1>2 DEF Preprocess, Generate, Exhaust, Retrieve, Trending, Record, AppendTurn
<1>3. CASE Delta(r)
  BY <1>3 DEF Delta, Abandon, Sent
<1>4. CASE Break(r) \/ Start(r)
  BY <1>4 DEF Break, Start, Abandon, Sent
<1>5. CASE SendError(r) \/ TimeOut(r) \/ Reply(r)
  BY <1>5 DEF SendError, TimeOut, Reply, Sent
<1> QED
  BY <1>1, <1>2, <1>3, <1>4, <1>5 DEF Model, Redis, Handle

\* Steps of a handler that send nothing.
LEMMA QuietFlow ==
  ASSUME NEW r \in Requests, TypeOK, FlowOf(r),
         \/ Ask(r) \/ Preprocess(r) \/ Retrieve(r) \/ Generate(r) \/ Trending(r)
         \/ Fail(r) \/ Exhaust(r) \/ Record(r) \/ AppendTurn(r) \/ DropFuture(r)
  PROVE  FlowOf(r)'
<1> USE DEF clientVars, taskVars, sharedVars
<1>1. got' = got /\ channel' = channel /\ left' = left
  BY DEF Ask, Preprocess, Retrieve, Generate, Trending, Fail, Exhaust, Record, AppendTurn, DropFuture
<1>2. Flow(r)' = Flow(r)
  BY <1>1 DEF Flow
<1>3. step[r] = "stream" => r \in Streamed
  BY DEF FlowOf
<1>4. r \in Streamed \/ r \in Json
  BY DEF Json
<1> USE DEF TypeOK, Early, Completing
<1>5. CASE Ask(r) \/ Preprocess(r) \/ Retrieve(r) \/ Fail(r) \/ DropFuture(r)
  <2>1. /\ answer' = answer /\ step[r] \in Early
        /\ step'[r] \in {"preprocess", "tools", "generate", "fail", "ended"}
    BY <1>5 DEF Ask, Preprocess, Retrieve, Fail, DropFuture, Awaiting
  <2> QED
    BY <1>1, <1>2, <2>1, FlowMoved
<1>6. CASE Generate(r)
  <2>1. /\ step[r] = "generate" /\ step'[r] = "trending"
        /\ r \in Streamed => answer' = answer
    BY <1>6 DEF Generate
  <2> QED
    BY <1>1, <1>2, <2>1, FlowMoved
<1>7. CASE Trending(r)
  <2>1. /\ step[r] = "trending" /\ answer' = answer
        /\ r \in Streamed => step'[r] = "start"
        /\ r \in Json => step'[r] = "record"
    BY <1>7 DEF Trending, Json
  <2> QED
    BY <1>1, <1>2, <1>4, <2>1, FlowMoved
<1>8. CASE Exhaust(r)
  <2>1. step[r] = "stream" /\ answer' = answer /\ step'[r] = "record"
    BY <1>8 DEF Exhaust
  <2> QED
    BY <1>1, <1>2, <1>3, <2>1, FlowMoved
<1>9. CASE Record(r) \/ AppendTurn(r)
  <2>1. answer' = answer /\ step[r] \in Completing /\ step'[r] \in {"append", "reply"}
    BY <1>9 DEF Record, AppendTurn, After
  <2> QED
    BY <1>1, <1>2, <1>4, <2>1, FlowMoved
<1> QED
  BY <1>5, <1>6, <1>7, <1>8, <1>9

\* Steps of a handler that send an event.
LEMMA SendingFlow ==
  ASSUME NEW r \in Requests, TypeOK, TypeOK', FlowOf(r),
         SendError(r) \/ TimeOut(r) \/ Start(r) \/ Delta(r) \/ Break(r) \/ Reply(r)
  PROVE  FlowOf(r)'
<1> USE DEF clientVars, taskVars, sharedVars
<1>1. got' = got /\ left' = left
  BY DEF SendError, TimeOut, Start, Delta, Break, Reply
<1>2. /\ {"start", "delta", "done", "error"} \subseteq Events
      /\ "error" \in Terminal /\ "done" \in Terminal
      /\ "start" \notin Terminal /\ "delta" \notin Terminal
      /\ Streamed \cap Json = {} /\ (r \in Streamed \/ r \in Json)
  BY DEF Events, Terminal, Json
<1>3. /\ step \in [Requests -> Steps] /\ answer \in [Requests -> 0 .. MaxDeltas]
      /\ answer[r] \in Nat
  <2>1. answer[r] \in Nat
    BY SearchAssumption DEF TypeOK
  <2> QED
    BY <2>1 DEF TypeOK
<1>4. Flow(r) \in Seq(Events) /\ Len(Flow(r)) \in Nat /\ (Flow(r) = <<>> <=> Len(Flow(r)) = 0)
  <2>1. Flow(r) \in Seq(Events)
    BY FlowFacts
  <2> QED
    BY <2>1
<1>5. CASE SendError(r) \/ TimeOut(r)
  <2>1. /\ Sent(r, "error") /\ answer' = answer /\ step'[r] = "ended" /\ step[r] \in Early
        /\ CanSend(r) \/ r \in Json
    BY <1>3, <1>5 DEF SendError, TimeOut, Awaiting, Early
  <2>2. Flow(r) = <<>> /\ step[r] # "ended"
    BY <2>1 DEF FlowOf, Early
  <2> HIDE DEF Flow
  <2> QED
    BY <1>1, <1>2, <2>1, <2>2, FlowGrown
<1>6. CASE Start(r)
  <2>1. /\ Sent(r, "start") /\ CanSend(r) /\ answer' = answer /\ step[r] = "start"
        /\ step'[r] = IF Gone(r) THEN "ended" ELSE "stream"
    BY <1>3, <1>6 DEF Start, Abandon
  <2>2. r \in Streamed /\ Flow(r) = <<>> /\ answer[r] = 0
    BY <2>1 DEF FlowOf, Early
  <2>3. Len(Flow(r)) + 1 = answer'[r] + 1
    BY <1>4, <2>1, <2>2
  <2> HIDE DEF Flow
  <2> QED
    BY <1>1, <1>2, <2>1, <2>2, <2>3, FlowGrown
<1>7. CASE Delta(r)
  <2>1. /\ Sent(r, "delta") /\ CanSend(r) /\ answer'[r] = answer[r] + 1 /\ step[r] = "stream"
        /\ Gone(r) => step'[r] = "ended"
        /\ ~Gone(r) => step'[r] \in {"stream", "record"}
    BY <1>3, <1>7 DEF Delta, Abandon
  <2>2. r \in Streamed /\ (~Gone(r) => Len(Flow(r)) = answer[r] + 1)
    BY <2>1 DEF FlowOf
  <2>3. ~Gone(r) => Len(Flow(r)) + 1 = answer'[r] + 1 /\ Flow(r) # <<>>
    BY <1>3, <1>4, <2>1, <2>2
  <2> HIDE DEF Flow
  <2> QED
    BY <1>1, <1>2, <2>1, <2>2, <2>3, FlowGrown
<1>8. CASE Break(r)
  <2>1. /\ Sent(r, "error") /\ CanSend(r) /\ answer' = answer /\ step[r] = "stream"
        /\ step'[r] = "ended"
    BY <1>3, <1>8 DEF Break, OnStreamError
  <2>2. r \in Streamed
    BY <2>1 DEF FlowOf
  <2> HIDE DEF Flow
  <2> QED
    BY <1>1, <1>2, <2>1, <2>2, FlowGrown
<1>9. CASE Reply(r)
  <2>1. /\ Sent(r, "done") /\ CanSend(r) /\ answer' = answer /\ step[r] = "reply"
        /\ step'[r] = "ended"
    BY <1>3, <1>9 DEF Reply, After
  <2>2. /\ r \in Json => Flow(r) = <<>>
        /\ r \in Streamed /\ ~Gone(r) => Len(Flow(r)) = answer[r] + 1
    BY <2>1 DEF FlowOf, Completing
  <2> HIDE DEF Flow
  <2> QED
    BY <1>1, <1>2, <2>1, <2>2, FlowGrown
<1> QED
  BY <1>5, <1>6, <1>7, <1>8, <1>9

LEMMA NextFlow ==
  ASSUME TypeOK, TypeOK', FlowInv, [Next]_vars
  PROVE  FlowInv'
<1> USE DEF clientVars, taskVars, sharedVars
<1>1. CASE UNCHANGED vars \/ \E s \in Sessions : Evict(s)
  <2>1. /\ got' = got /\ channel' = channel /\ step' = step /\ left' = left
        /\ answer' = answer
    BY <1>1 DEF vars, Evict
  <2>2. \A q \in Requests : Flow(q)' = Flow(q)
    BY <2>1 DEF Flow
  <2> QED
    BY <2>1, <2>2, FlowKept DEF FlowInv
<1>2. ASSUME NEW r \in Requests, Read(r) PROVE FlowInv'
  <2>1. step' = step /\ left' = left /\ answer' = answer
    BY <1>2 DEF Read
  <2> QED
    BY <1>2, <2>1, FlowRead, FlowKept DEF FlowInv
<1>3. ASSUME NEW r \in Requests,
             \/ Ask(r) \/ Leave(r) \/ Model(r) \/ Redis(r) \/ Handle(r) \/ Fail(r) \/ DropFuture(r)
      PROVE  FlowInv'
  <2>1. \A q \in Requests \ {r} : FlowOf(q)'
    <3> SUFFICES ASSUME NEW q \in Requests \ {r} PROVE FlowOf(q)'
      OBVIOUS
    <3>1. /\ step'[q] = step[q] /\ left'[q] = left[q] /\ answer'[q] = answer[q]
          /\ got'[q] = got[q] /\ channel'[q] = channel[q]
      BY <1>3, OwnRequest
    <3>2. Flow(q)' = Flow(q)
      BY <3>1 DEF Flow
    <3> QED
      BY <3>1, <3>2, FlowKept DEF FlowInv
  <2>2. FlowOf(r)'
    <3>1. FlowOf(r)
      BY DEF FlowInv
    <3>2. CASE Leave(r)
      BY <3>1, <3>2, FlowLeft
    <3>3. CASE \/ Ask(r) \/ Preprocess(r) \/ Retrieve(r) \/ Generate(r) \/ Trending(r)
               \/ Fail(r) \/ Exhaust(r) \/ Record(r) \/ AppendTurn(r) \/ DropFuture(r)
      BY <3>1, <3>3, QuietFlow
    <3>4. CASE SendError(r) \/ TimeOut(r) \/ Start(r) \/ Delta(r) \/ Break(r) \/ Reply(r)
      BY <3>1, <3>4, SendingFlow
    <3> QED
      BY <1>3, <3>2, <3>3, <3>4 DEF Model, Redis, Handle
  <2> QED
    BY <2>1, <2>2 DEF FlowInv
<1> QED
  BY <1>1, <1>2, <1>3 DEF Next

\* What the handler sends, in whatever order it and its client move and whatever
\* fails, is start, deltas and one end, or a single error.
THEOREM StreamIsWellFormed == Spec => []EventGrammar
<1>1. Init => FlowInv
  <2> SUFFICES ASSUME Init, NEW r \in Requests PROVE FlowOf(r)
    BY DEF FlowInv
  <2>1. Flow(r) = <<>> /\ step[r] = "new" /\ answer[r] = 0
    BY DEF Init, Flow
  <2>2. Shape(r)
    <3>1. Len(Flow(r)) = 0
      BY <2>1
    <3> QED
      BY <3>1 DEF Shape
  <2> QED
    BY <2>1, <2>2 DEF FlowOf, Completing
<1>2. TypeOK /\ TypeOK' /\ FlowInv /\ [Next]_vars => FlowInv'
  BY NextFlow
<1>3. TypeOK /\ FlowInv => EventGrammar
  <2> SUFFICES ASSUME TypeOK, FlowInv, NEW r \in Requests, NEW i \in DOMAIN Flow(r)
               PROVE  /\ Flow(r)[i] = "start" => i = 1
                      /\ Flow(r)[i] = "delta" => i > 1
                      /\ Flow(r)[i] \in Terminal => i = Len(Flow(r))
                      /\ r \in Streamed /\ i = 1 => Flow(r)[i] \in {"start", "error"}
    BY Zenon DEF EventGrammar
  <2>1. Flow(r) \in Seq(Events)
    BY FlowFacts
  <2> HIDE DEF Flow
  <2>2. i \in 1 .. Len(Flow(r)) /\ Flow(r)[i] \in Events
    BY <2>1
  <2>3. Shape(r)
    BY DEF FlowInv, FlowOf
  <2>4. r \in Streamed \/ r \in Json
    BY DEF Json
  <2> QED
    BY <2>2, <2>3, <2>4 DEF Shape, Events, Terminal
<1> QED
  BY <1>1, <1>2, <1>3, SessionTypeCorrect, PTL DEF Spec

-----------------------------------------------------------------------------
(***************************************************************************)
(* The events of a request as a set.                                       *)
(***************************************************************************)

\* An event of a request is one at some index of its flow.
LEMMA FlowElems ==
  ASSUME TypeOK, NEW r \in Requests
  PROVE  /\ \A e : e \in Elems(Flow(r)) <=> \E i \in 1 .. Len(Flow(r)) : Flow(r)[i] = e
         /\ Elems(got[r]) \subseteq Elems(Flow(r))
<1>1. /\ Flow(r) \in Seq(Events) /\ Len(Flow(r)) = Len(got[r]) + Len(channel[r])
      /\ Len(got[r]) \in Nat /\ Len(channel[r]) \in Nat
      /\ \A i \in 1 .. Len(got[r]) : Flow(r)[i] = got[r][i]
  BY FlowFacts
<1> HIDE DEF Flow
<1>2. DOMAIN Flow(r) = 1 .. Len(Flow(r)) /\ DOMAIN got[r] = 1 .. Len(got[r])
  BY <1>1 DEF TypeOK
<1>3. \A i \in 1 .. Len(got[r]) : i \in 1 .. Len(Flow(r))
  BY <1>1, LengthSums, Zenon
<1> QED
  BY <1>1, <1>2, <1>3, Zenon DEF Elems

\* An end is the last thing of a request, which is over then.
LEMMA EndIsLast ==
  ASSUME TypeOK, NEW r \in Requests, FlowOf(r), NEW e \in Terminal, e \in Elems(Flow(r))
  PROVE  step[r] = "ended" /\ Flow(r)[Len(Flow(r))] = e
<1> HIDE DEF Flow
<1>1. PICK i \in 1 .. Len(Flow(r)) : Flow(r)[i] = e
  BY FlowElems
<1> QED
  BY <1>1 DEF FlowOf, Shape

\* What is sent is all that is new.
LEMMA SentElems ==
  ASSUME TypeOK, TypeOK', NEW r \in Requests, NEW event \in Events, Sent(r, event), got' = got
  PROVE  Elems(Flow(r)') \subseteq Elems(Flow(r)) \cup {event}
<1>1. CASE Gone(r)
  BY <1>1, FlowSent
<1>2. CASE ~Gone(r) /\ Len(channel[r]) < Capacity
  <2>1. /\ Len(Flow(r)') = Len(Flow(r)) + 1
        /\ \A i \in 1 .. Len(Flow(r)) : Flow(r)'[i] = Flow(r)[i]
        /\ Flow(r)'[Len(Flow(r)) + 1] = event
    BY <1>2, FlowSent
  <2>2. Flow(r) \in Seq(Events) /\ Flow(r)' \in Seq(Events)
    <3>1. Flow(r) \in Seq(Events)
      BY FlowFacts
    <3>2. got[r]' \in Seq(Events) /\ channel[r]' \in Seq(Events)
      BY DEF TypeOK
    <3>3. (got[r]' \o channel[r]') \in Seq(Events)
      BY <3>2, ConcatIndices
    <3> QED
      BY <3>1, <3>3 DEF Flow
  <2> HIDE DEF Flow
  <2>3. /\ DOMAIN Flow(r)' = 1 .. Len(Flow(r)) + 1 /\ DOMAIN Flow(r) = 1 .. Len(Flow(r))
        /\ Len(Flow(r)) \in Nat
    BY <2>1, <2>2
  <2>4. \A i \in 1 .. Len(Flow(r)) + 1 : i \in 1 .. Len(Flow(r)) \/ i = Len(Flow(r)) + 1
    BY <2>3
  <2> QED
    BY <2>1, <2>3, <2>4 DEF Elems
<1>3. CASE ~Gone(r) /\ ~(Len(channel[r]) < Capacity)
  <2>1. Len(channel[r]) \in Nat /\ Capacity \in Nat
    BY SearchAssumption DEF TypeOK
  <2>2. channel'[r] = channel[r]
    BY <1>3, <2>1 DEF Sent, TypeOK
  <2>3. Flow(r)' = Flow(r)
    BY <2>2 DEF Flow
  <2> QED
    BY <2>3
<1> QED
  BY <1>1, <1>2, <1>3

-----------------------------------------------------------------------------
(***************************************************************************)
(* The turns of the sessions.                                              *)
(***************************************************************************)

\* The most turns a session has.
Whole == LargerOf(MaxTurns, 1)

\* The turn of an answer.
TurnOf(r) == [of |-> r, said |-> answer[r]]

\* An answer that is not empty makes a turn; the append adds it to the history of
\* its session, where there is one, and nothing else.
LEMMA AppendAdds ==
  ASSUME TypeOK, NEW r \in Requests, AppendTurn(r)
  PROVE  /\ session[r] \in Sessions /\ history[session[r]] \in Seq(Turns)
         /\ Whole \in Nat \ {0}
         /\ (answer[r] = 0 \/ session[r] \notin Remembered) => history' = history
         /\ (answer[r] # 0 /\ session[r] \in Remembered) =>
              /\ TurnOf(r) \in Turns
              /\ \A s \in Sessions : history'[s] =
                   IF s = session[r] THEN Latest(Append(history[s], TurnOf(r)), Whole)
                                     ELSE history[s]
<1>1. session[r] \in Sessions /\ history \in [Sessions -> Seq(Turns)]
  BY SearchAssumption DEF TypeOK
<1>2. Whole \in Nat \ {0}
  BY SearchAssumption DEF Whole, LargerOf
<1>3. answer[r] # 0 => TurnOf(r) \in Turns
  BY SearchAssumption DEF TurnOf, Turns, TypeOK
<1>4. history' = [history EXCEPT ![session[r]] =
         IF answer[r] = 0 \/ session[r] \notin Remembered THEN @ ELSE Latest(Append(@, TurnOf(r)), Whole)]
  BY DEF AppendTurn, Key, TurnOf, Whole
<1> HIDE DEF TurnOf, Whole
<1> QED
  BY <1>1, <1>2, <1>3, <1>4

\* The turns of a session come from its history or from one append.
LEMMA TurnsAdded ==
  ASSUME TypeOK, [Next]_vars, NEW s \in Sessions, NEW t \in Elems(history'[s])
  PROVE  \/ t \in Elems(history[s])
         \/ \E r \in Requests : AppendTurn(r) /\ answer[r] # 0 /\ t = TurnOf(r)
<1> USE DEF clientVars, taskVars, sharedVars
<1>1. CASE history' = history
  BY <1>1
<1>2. ASSUME NEW u \in Sessions, Evict(u) PROVE t \in Elems(history[s])
  <2>1. history'[s] = history[s] \/ history'[s] = <<>>
    BY <1>2 DEF Evict, TypeOK
  <2>2. Elems(<<>>) = {}
    BY DEF Elems
  <2> QED
    BY <2>1, <2>2
<1>3. ASSUME NEW r \in Requests, AppendTurn(r), t \notin Elems(history[s])
      PROVE  answer[r] # 0 /\ t = TurnOf(r)
  <2>1. answer[r] # 0 /\ TurnOf(r) \in Turns /\ history[s] \in Seq(Turns) /\ Whole \in Nat
    BY <1>3, AppendAdds DEF TypeOK
  <2>2. history'[s] \in {history[s], Latest(Append(history[s], TurnOf(r)), Whole)}
    BY <1>3, <2>1, AppendAdds
  <2>3. /\ Append(history[s], TurnOf(r)) \in Seq(Turns)
        /\ Elems(Append(history[s], TurnOf(r))) = Elems(history[s]) \cup {TurnOf(r)}
    BY <2>1, AppendElems
  <2>4. Elems(Latest(Append(history[s], TurnOf(r)), Whole)) \subseteq Elems(history[s]) \cup {TurnOf(r)}
    BY <2>1, <2>3, LatestTurns
  <2> QED
    BY <1>3, <2>1, <2>2, <2>4
<1> QED
  BY <1>1, <1>2, <1>3
     DEF Next, Model, Redis, Handle, Ask, Read, Leave, Preprocess, Generate, Delta, Exhaust, Break,
         Retrieve, Trending, SendError, TimeOut, Start, Record, Reply, Fail, DropFuture, vars

-----------------------------------------------------------------------------
(***************************************************************************)
(* What is stored of a request.                                            *)
(***************************************************************************)

Completed == {"append", "reply", "ended"}

\* An answer is kept from the moment the handler records it; its turn is appended
\* after that and says the same; and nothing is kept of an error, or without a
\* client.
KeptOf(r) ==
  /\ kept[r] # NotKept => kept[r] = answer[r] /\ step[r] \in Completed
  /\ step[r] \in {"append", "reply"} => kept[r] # NotKept
  /\ "done" \in Elems(Flow(r)) => kept[r] # NotKept
  /\ "error" \in Elems(Flow(r)) => kept[r] = NotKept
  /\ r \in Streamed /\ left[r] = "asking" => step[r] \in Early \cup {"ended"} /\ kept[r] = NotKept

TurnsOf(r) ==
  \A s \in Sessions : \A t \in Elems(history[s]) : t.of = r =>
    t.said = answer[r] /\ kept[r] # NotKept /\ step[r] \in {"reply", "ended"}

KeptInv == \A r \in Requests : KeptOf(r) /\ TurnsOf(r)

\* A step of the handler before its answer is recorded.
LEMMA KeptBefore ==
  ASSUME TypeOK, TypeOK', NEW r \in Requests, FlowOf(r), KeptOf(r), TurnsOf(r),
         step[r] \notin Completed, step'[r] \notin {"append", "reply"},
         kept' = kept, history' = history,
         Elems(Flow(r)') \subseteq Elems(Flow(r)) \cup {"start", "delta", "error"},
         r \in Streamed /\ left'[r] = "asking" => step'[r] \in Early \cup {"ended"}
  PROVE  KeptOf(r)' /\ TurnsOf(r)'
<1> HIDE DEF Flow
<1>1. kept[r] = NotKept
  BY DEF KeptOf
<1>2. "done" \notin Elems(Flow(r))
  <2>1. "done" \in Terminal /\ step[r] # "ended"
    BY DEF Terminal, Completed
  <2> QED
    BY <2>1, EndIsLast
<1>3. KeptOf(r)'
  BY <1>1, <1>2 DEF KeptOf, Early
<1>4. TurnsOf(r)'
  BY <1>1 DEF TurnsOf
<1> QED
  BY <1>3, <1>4

LEMMA EarlySteps ==
  ASSUME TypeOK, TypeOK', NEW r \in Requests, FlowOf(r), KeptOf(r), TurnsOf(r),
         \/ Ask(r) \/ Preprocess(r) \/ Retrieve(r) \/ Generate(r) \/ Trending(r) \/ Fail(r)
         \/ Exhaust(r) \/ DropFuture(r) \/ Leave(r)
  PROVE  KeptOf(r)' /\ TurnsOf(r)'
<1> USE DEF clientVars, taskVars, sharedVars
<1>1. /\ kept' = kept /\ history' = history
      /\ step[r] \in Steps /\ left[r] \in {None, "asking", "later"}
  BY DEF Ask, Preprocess, Retrieve, Generate, Trending, Fail, Exhaust, DropFuture, Leave, TypeOK
<1>2. CASE ~Leave(r)
  <2>1. Flow(r)' = Flow(r) /\ left' = left
    BY <1>2 DEF Ask, Preprocess, Retrieve, Generate, Trending, Fail, Exhaust, DropFuture, Flow
  <2> HIDE DEF Flow
  <2>2. /\ step[r] \notin Completed /\ step'[r] \notin {"append", "reply"}
        /\ r \in Streamed /\ step[r] \in Early => step'[r] \in Early \cup {"ended"}
    BY <1>2 DEF Ask, Preprocess, Retrieve, Generate, Trending, Fail, Exhaust, DropFuture, Awaiting,
              Completed, Early, TypeOK
  <2>3. r \in Streamed /\ left[r] = "asking" => step[r] \in Early
    BY <2>2 DEF KeptOf, Completed
  <2> QED
    BY <1>1, <2>1, <2>2, <2>3, KeptBefore
<1>3. CASE Leave(r)
  <2>1. /\ step' = step /\ answer' = answer /\ got' = got /\ channel'[r] = <<>>
        /\ step[r] # "ended"
        /\ left'[r] = "asking" => step[r] \in Preamble
    BY <1>3 DEF Leave, TypeOK
  <2>2. Elems(Flow(r)') \subseteq Elems(Flow(r))
    <3>1. got[r] \in Seq(Events)
      BY DEF TypeOK
    <3>2. got[r] \o <<>> = got[r]
      BY <3>1
    <3>3. Flow(r)' = got[r]
      BY <2>1, <3>2 DEF Flow
    <3> HIDE DEF Flow
    <3> QED
      BY <3>3, FlowElems
  <2> HIDE DEF Flow
  <2>3. left'[r] = "asking" => kept[r] = NotKept /\ step[r] \in Early
    BY <2>1 DEF KeptOf, Preamble, Completed, Early
  <2>4. KeptOf(r)'
    <3>1. "done" \notin Elems(Flow(r)) /\ "error" \notin Elems(Flow(r))
      BY <2>1, EndIsLast DEF Terminal
    <3> QED
      BY <1>1, <2>1, <2>2, <2>3, <3>1 DEF KeptOf
  <2>5. TurnsOf(r)'
    BY <1>1, <2>1 DEF TurnsOf
  <2> QED
    BY <2>4, <2>5
<1> QED
  BY <1>2, <1>3

LEMMA SendingSteps ==
  ASSUME TypeOK, TypeOK', NEW r \in Requests, FlowOf(r), KeptOf(r), TurnsOf(r),
         SendError(r) \/ TimeOut(r) \/ Start(r) \/ Delta(r) \/ Break(r)
  PROVE  KeptOf(r)' /\ TurnsOf(r)'
<1> USE DEF clientVars, taskVars, sharedVars
<1>1. kept' = kept /\ history' = history /\ got' = got /\ left' = left
  BY DEF SendError, TimeOut, Start, Delta, Break
<1>2. {"start", "delta", "error"} \subseteq Events
  BY DEF Events, Terminal
<1>3. Elems(Flow(r)') \subseteq Elems(Flow(r)) \cup {"start", "delta", "error"}
  <2>1. \E event \in {"start", "delta", "error"} : Sent(r, event)
    BY DEF SendError, TimeOut, Start, Delta, Break
  <2> HIDE DEF Flow
  <2> QED
    BY <1>1, <1>2, <2>1, SentElems
<1>4. step[r] \notin Completed
  BY DEF SendError, TimeOut, Start, Delta, Break, Awaiting, Completed
<1>5. step'[r] \notin {"append", "reply"}
  BY DEF SendError, TimeOut, Start, Delta, Break, Abandon, OnStreamError, TypeOK
<1>6. r \in Streamed /\ left'[r] = "asking" => step'[r] \in Early \cup {"ended"}
  <2> SUFFICES ASSUME r \in Streamed, left[r] = "asking" PROVE step'[r] = "ended"
    BY <1>1
  <2>1. step[r] \in Early /\ Gone(r)
    BY <1>4 DEF KeptOf, Completed, Gone, None
  <2> QED
    BY <2>1 DEF SendError, TimeOut, Start, Delta, Break, Abandon, OnStreamError, Early, TypeOK
<1> HIDE DEF Flow
<1> QED
  BY <1>1, <1>3, <1>4, <1>5, <1>6, KeptBefore

LEMMA CompletingSteps ==
  ASSUME TypeOK, TypeOK', NEW r \in Requests, FlowOf(r), KeptOf(r), TurnsOf(r), [Next]_vars,
         Record(r) \/ AppendTurn(r) \/ Reply(r)
  PROVE  KeptOf(r)' /\ TurnsOf(r)'
<1> USE DEF clientVars, taskVars, sharedVars
<1>1. /\ step[r] \in {"record", "append", "reply"} /\ step[r] \notin Early \cup {"ended"}
      /\ got' = got /\ left' = left /\ answer' = answer /\ answer[r] # NotKept
      /\ step \in [Requests -> Steps] /\ kept \in [Requests -> 0 .. MaxDeltas \cup {NotKept}]
  BY DEF Record, AppendTurn, Reply, Early, TypeOK, NotKept
<1>2. "done" \notin Elems(Flow(r)) /\ "error" \notin Elems(Flow(r))
  BY <1>1, EndIsLast DEF Terminal
<1>3. ~(r \in Streamed /\ left[r] = "asking")
  BY <1>1 DEF KeptOf
<1>4. CASE Record(r)
  <2>1. /\ Flow(r)' = Flow(r) /\ history' = history /\ kept'[r] = answer[r] /\ step[r] = "record"
        /\ step'[r] = "append"
    BY <1>1, <1>4 DEF Record, After, Flow
  <2> HIDE DEF Flow
  <2>2. KeptOf(r)'
    BY <1>1, <1>2, <1>3, <2>1 DEF KeptOf, Completed
  <2>3. TurnsOf(r)'
    BY <1>1, <2>1 DEF TurnsOf
  <2> QED
    BY <2>2, <2>3
<1>5. CASE AppendTurn(r)
  <2>1. /\ Flow(r)' = Flow(r) /\ kept' = kept /\ step[r] = "append" /\ step'[r] = "reply"
    BY <1>1, <1>5 DEF AppendTurn, After, Flow
  <2> HIDE DEF Flow
  <2>2. kept[r] # NotKept /\ kept[r] = answer[r]
    BY <2>1 DEF KeptOf
  <2>3. KeptOf(r)'
    BY <1>1, <1>2, <1>3, <2>1, <2>2 DEF KeptOf, Completed
  <2>4. TurnsOf(r)'
    <3> SUFFICES ASSUME NEW s \in Sessions, NEW t \in Elems(history'[s]), t.of = r
                 PROVE  t.said = answer[r]
      BY <1>1, <2>1, <2>2 DEF TurnsOf
    <3>1. CASE t \in Elems(history[s])
      BY <3>1 DEF TurnsOf
    <3>2. CASE \E q \in Requests : t = TurnOf(q)
      BY <3>2 DEF TurnOf
    <3> QED
      BY <3>1, <3>2, TurnsAdded
  <2> QED
    BY <2>3, <2>4
<1>6. CASE Reply(r)
  <2>1. /\ Sent(r, "done") /\ kept' = kept /\ history' = history
        /\ step[r] = "reply" /\ step'[r] = "ended"
    BY <1>1, <1>6 DEF Reply, After
  <2>2. Elems(Flow(r)') \subseteq Elems(Flow(r)) \cup {"done"}
    BY <1>1, <2>1, SentElems DEF Events, Terminal
  <2> HIDE DEF Flow
  <2>3. kept[r] # NotKept /\ kept[r] = answer[r]
    BY <2>1 DEF KeptOf
  <2>4. KeptOf(r)'
    BY <1>1, <1>2, <1>3, <2>1, <2>2, <2>3 DEF KeptOf, Completed
  <2>5. TurnsOf(r)'
    BY <1>1, <2>1 DEF TurnsOf
  <2> QED
    BY <2>4, <2>5
<1> QED
  BY <1>4, <1>5, <1>6

LEMMA NextKept ==
  ASSUME TypeOK, TypeOK', FlowInv, KeptInv, [Next]_vars
  PROVE  KeptInv'
<1> USE DEF clientVars, taskVars, sharedVars
\* What an action of another request does to one.
<1>1. ASSUME NEW q \in Requests, Flow(q)' = Flow(q), step'[q] = step[q], left'[q] = left[q],
             answer'[q] = answer[q], kept'[q] = kept[q],
             \A s \in Sessions : \A t \in Elems(history'[s]) : t.of = q => t \in Elems(history[s])
      PROVE  KeptOf(q)' /\ TurnsOf(q)'
  <2> HIDE DEF Flow
  <2>1. KeptOf(q) /\ TurnsOf(q)
    BY DEF KeptInv
  <2>2. KeptOf(q)'
    BY <1>1, <2>1 DEF KeptOf
  <2>3. TurnsOf(q)'
    BY <1>1, <2>1 DEF TurnsOf
  <2> QED
    BY <2>2, <2>3
<1>2. CASE UNCHANGED vars \/ \E s \in Sessions : Evict(s)
  <2>1. /\ got' = got /\ channel' = channel /\ step' = step /\ left' = left
        /\ answer' = answer /\ kept' = kept
    BY <1>2 DEF vars, Evict
  <2>2. \A q \in Requests : Flow(q)' = Flow(q)
    BY <2>1 DEF Flow
  <2>3. \A s \in Sessions : \A t \in Elems(history'[s]) : t \in Elems(history[s])
    <3>1. CASE history' = history
      BY <3>1
    <3>2. ASSUME NEW u \in Sessions, Evict(u), NEW q \in Requests, AppendTurn(q) PROVE FALSE
      <4>1. step'[q] = step[q] /\ step'[q] # step[q]
        BY <3>2 DEF Evict, AppendTurn, After, TypeOK
      <4> QED
        BY <4>1
    <3> QED
      BY <1>2, <3>1, <3>2, TurnsAdded DEF vars
  <2> QED
    BY <1>1, <2>1, <2>2, <2>3 DEF KeptInv
<1>3. ASSUME NEW r \in Requests, Read(r) PROVE KeptInv'
  <2>1. /\ step' = step /\ left' = left /\ answer' = answer /\ kept' = kept
        /\ history' = history
    BY <1>3 DEF Read
  <2> QED
    BY <1>1, <1>3, <2>1, FlowRead DEF KeptInv
<1>4. ASSUME NEW r \in Requests,
             \/ Ask(r) \/ Leave(r) \/ Model(r) \/ Redis(r) \/ Handle(r) \/ Fail(r) \/ DropFuture(r)
      PROVE  KeptInv'
  <2>1. ASSUME NEW q \in Requests \ {r} PROVE KeptOf(q)' /\ TurnsOf(q)'
    <3>1. /\ step'[q] = step[q] /\ left'[q] = left[q] /\ answer'[q] = answer[q]
          /\ kept'[q] = kept[q] /\ got'[q] = got[q] /\ channel'[q] = channel[q]
      BY <1>4, OwnRequest
    <3>2. Flow(q)' = Flow(q)
      BY <3>1 DEF Flow
    <3>3. ASSUME NEW s \in Sessions, NEW t \in Elems(history'[s]), t.of = q
          PROVE  t \in Elems(history[s])
      <4>1. ASSUME NEW p \in Requests, AppendTurn(p), t = TurnOf(p) PROVE FALSE
        <5>1. p = q
          BY <3>3, <4>1 DEF TurnOf
        <5>2. step[q] = "append" /\ step'[q] = "reply"
          BY <4>1, <5>1 DEF AppendTurn, After, TypeOK
        <5> QED
          BY <3>1, <5>2
      <4> QED
        BY <3>3, <4>1, TurnsAdded
    <3> QED
      BY <1>1, <3>1, <3>2, <3>3
  <2>2. KeptOf(r)' /\ TurnsOf(r)'
    <3>1. FlowOf(r) /\ KeptOf(r) /\ TurnsOf(r)
      BY DEF FlowInv, KeptInv
    <3>2. CASE \/ Ask(r) \/ Preprocess(r) \/ Retrieve(r) \/ Generate(r) \/ Trending(r) \/ Fail(r)
               \/ Exhaust(r) \/ DropFuture(r) \/ Leave(r)
      BY <3>1, <3>2, EarlySteps
    <3>3. CASE SendError(r) \/ TimeOut(r) \/ Start(r) \/ Delta(r) \/ Break(r)
      BY <3>1, <3>3, SendingSteps
    <3>4. CASE Record(r) \/ AppendTurn(r) \/ Reply(r)
      BY <3>1, <3>4, CompletingSteps
    <3> QED
      BY <1>4, <3>2, <3>3, <3>4 DEF Model, Redis, Handle
  <2> QED
    BY <2>1, <2>2 DEF KeptInv
<1> QED
  BY <1>2, <1>3, <1>4 DEF Next

\* The invariants of the events and of what is stored hold together.
LEMMA SearchesKeepTheirWord == Spec => [](TypeOK /\ FlowInv /\ KeptInv)
<1>1. Init => FlowInv /\ KeptInv
  <2> SUFFICES ASSUME Init, NEW r \in Requests
               PROVE  FlowOf(r) /\ KeptOf(r) /\ TurnsOf(r)
    BY DEF FlowInv, KeptInv
  <2>1. /\ Flow(r) = <<>> /\ step[r] = "new" /\ answer[r] = 0 /\ kept[r] = NotKept
        /\ left[r] = None
    BY DEF Init, Flow
  <2>2. Elems(<<>>) = {} /\ Len(<<>>) = 0
    BY DEF Elems
  <2>3. Shape(r)
    BY <2>1, <2>2 DEF Shape
  <2>4. FlowOf(r)
    BY <2>1, <2>3 DEF FlowOf, Completing
  <2>5. KeptOf(r)
    BY <2>1, <2>2 DEF KeptOf, None
  <2>6. TurnsOf(r)
    BY <2>2 DEF Init, TurnsOf
  <2> QED
    BY <2>4, <2>5, <2>6
<1>2. TypeOK /\ FlowInv /\ KeptInv /\ [Next]_vars => (TypeOK /\ FlowInv /\ KeptInv)'
  BY NextSessionType, NextFlow, NextKept
<1> QED
  BY <1>1, <1>2, InitSessionType, PTL DEF Spec

\* What is stored of a request is the answer that was handed over.
LEMMA StoredIsKept ==
  ASSUME KeptInv, NEW r \in Requests
  PROVE  /\ \A n \in Stored(r) : n = kept[r]
         /\ kept[r] = NotKept => Stored(r) = {}
<1>1. \A s \in Sessions : \A t \in Elems(history[s]) : t.of = r => t.said = kept[r] /\ kept[r] # NotKept
  BY DEF KeptInv, KeptOf, TurnsOf
<1>2. \A n \in Stored(r) : n = kept[r] /\ kept[r] # NotKept
  BY <1>1 DEF Stored
<1> QED
  BY <1>2

\* Of a request answered with an error, or of a stream whose client left before
\* the model began, neither a turn nor a row of the conversations is ever stored.
THEOREM NothingIsStoredOfFailures == Spec => []NothingOfFailed
<1>1. TypeOK /\ FlowInv /\ KeptInv => NothingOfFailed
  <2> SUFFICES ASSUME TypeOK, KeptInv, NEW r \in Requests,
                      "error" \in Elems(Flow(r)) \/ (r \in Streamed /\ left[r] = "asking")
               PROVE  kept[r] = NotKept /\ Stored(r) = {}
    BY DEF NothingOfFailed, Flow
  <2>1. kept[r] = NotKept
    BY Zenon DEF KeptInv, KeptOf
  <2> QED
    BY <2>1, StoredIsKept
<1> QED
  BY <1>1, SearchesKeepTheirWord, PTL

-----------------------------------------------------------------------------
(***************************************************************************)
(* What a client reads.                                                    *)
(***************************************************************************)

\* A client that reads done has read start, the deltas of the answer, and done.
LEMMA WholeStream ==
  ASSUME TypeOK, FlowInv, NEW r \in Streamed, "done" \in Elems(got[r])
  PROVE  Count(r, "delta") = answer[r]
<1> DEFINE last == answer[r] + 2
<1>1. /\ r \in Requests /\ got[r] \in Seq(Events) /\ answer[r] \in Nat
      /\ Flow(r) \in Seq(Events) /\ Len(Flow(r)) \in Nat
      /\ Len(got[r]) \in Nat /\ Len(channel[r]) \in Nat
      /\ Len(Flow(r)) = Len(got[r]) + Len(channel[r])
      /\ \A i \in 1 .. Len(got[r]) : Flow(r)[i] = got[r][i]
  <2>1. r \in Requests /\ got[r] \in Seq(Events) /\ answer[r] \in Nat
    BY SearchAssumption DEF TypeOK
  <2>2. Flow(r) \in Seq(Events)
    BY <2>1, FlowFacts
  <2>3. Len(Flow(r)) \in Nat
    BY <2>2
  <2> QED
    BY <2>1, <2>2, <2>3, FlowFacts
<1>2. Shape(r)
  BY <1>1 DEF FlowInv, FlowOf
<1> HIDE DEF Flow
<1>3. PICK i \in 1 .. Len(got[r]) : got[r][i] = "done"
  BY <1>1 DEF Elems
<1>4. i \in 1 .. Len(Flow(r)) /\ Flow(r)[i] = "done"
  <2>1. i \in 1 .. Len(got[r]) + Len(channel[r])
    BY <1>1, LengthSums
  <2>2. i \in 1 .. Len(Flow(r))
    BY <1>1, <2>1, Zenon
  <2> QED
    BY <1>1, <1>3, <2>2, Zenon
<1>5. i = Len(Flow(r)) /\ Len(Flow(r)) = last
  BY <1>2, <1>4 DEF Shape, Terminal
<1>6. Len(got[r]) = last /\ last \in Nat
  <2>1. ASSUME NEW m \in Nat, NEW n \in Nat, NEW j \in 1 .. m, j = m + n PROVE j = m
    BY <2>1
  <2>2. i = Len(got[r])
    BY <1>1, <1>3, <1>5, <2>1, Zenon
  <2>3. last \in Nat
    BY <1>1
  <2> QED
    BY <1>5, <2>2, <2>3, Zenon
<1>7. \A j \in 1 .. last : got[r][j] = "delta" <=> j # 1 /\ j # last
  <2> SUFFICES ASSUME NEW j \in 1 .. last
               PROVE  got[r][j] = "delta" <=> j # 1 /\ j # last
    OBVIOUS
  <2>1. j \in 1 .. Len(Flow(r)) /\ j \in 1 .. Len(got[r]) /\ Len(Flow(r)) = last
    BY <1>5, <1>6
  <2>2. got[r][j] = Flow(r)[j] /\ got[r][j] \in Events
    <3>1. got[r] \in Seq(Events)
      BY <1>1
    <3>2. got[r][j] \in Events
      BY <2>1, <3>1
    <3> QED
      BY <1>1, <2>1, <3>2, Zenon
  <2>3. got[r][last] = "done" /\ last # 1
    <3>1. last # 1
      BY <1>1
    <3> QED
      BY <1>3, <1>5, <3>1, Zenon
  <2>4. j # last => Flow(r)[j] \notin Terminal /\ (j = 1 <=> Flow(r)[j] = "start")
    BY <1>2, <2>1 DEF Shape
  <2> QED
    BY <2>2, <2>3, <2>4 DEF Events, Terminal
<1>8. {j \in DOMAIN got[r] : got[r][j] = "delta"} = 2 .. answer[r] + 1
  <2>1. \A j \in 1 .. last : (j # 1 /\ j # last) <=> j \in 2 .. answer[r] + 1
    BY <1>1
  <2>2. DOMAIN got[r] = 1 .. last
    BY <1>1, <1>6
  <2>3. 2 .. answer[r] + 1 \subseteq 1 .. last
    BY <1>1
  <2> HIDE DEF last
  <2> QED
    BY <1>7, <2>1, <2>2, <2>3
<1>9. Cardinality(2 .. answer[r] + 1) = answer[r]
  <2>1. ASSUME NEW n \in Nat
        PROVE  2 \in Int /\ n + 1 \in Int /\ (IF 2 > n + 1 THEN 0 ELSE n + 1 - 2 + 1) = n
    OBVIOUS
  <2>2. ASSUME NEW n \in Nat PROVE Cardinality(2 .. n + 1) = n
    BY <2>1, FS_Interval
  <2> QED
    BY <1>1, <2>2, Zenon
<1> QED
  BY <1>8, <1>9 DEF Count

\* A client that reads done has read exactly the answer that is stored, wherever
\* it is stored, and the conversation service has it.
THEOREM WhatIsReadIsStored == Spec => []DoneIsStored
<1>1. TypeOK /\ FlowInv /\ KeptInv => DoneIsStored
  <2> SUFFICES ASSUME TypeOK, FlowInv, KeptInv, NEW r \in Streamed, "done" \in Elems(got[r])
               PROVE  kept[r] # NotKept /\ \A n \in Stored(r) : n = Count(r, "delta")
    BY DEF DoneIsStored
  <2>1. r \in Requests
    BY SearchAssumption
  <2>2. "done" \in Elems(Flow(r))
    BY <2>1, FlowElems
  <2>3. kept[r] # NotKept /\ kept[r] = answer[r]
    BY <2>1, <2>2, Zenon DEF KeptInv, KeptOf
  <2>4. Count(r, "delta") = kept[r]
    BY <2>3, WholeStream
  <2> QED
    BY <2>1, <2>3, <2>4, StoredIsKept
<1> QED
  BY <1>1, SearchesKeepTheirWord, PTL

-----------------------------------------------------------------------------
(***************************************************************************)
(* What later searches see.                                                *)
(***************************************************************************)

\* No turn is behind one whose client had been told of it before.
Ordered(turns) ==
  \A i, j \in 1 .. Len(turns) : i < j => turns[j].of \notin seen[turns[i].of]

\* What a client was told of when it asked is over, and was kept.
SeenDone(r) ==
  /\ step[r] = "new" => seen[r] = {}
  /\ \A q \in seen[r] : session[q] = session[r] /\ step[q] = "ended" /\ kept[q] # NotKept

\* An appended turn is in the history of a session that has one, unless it was
\* evicted since or is full of turns none of which the client had been told of.
TurnKept(r) ==
  step[r] \in {"reply", "ended"} /\ kept[r] > 0 /\ session[r] \in Remembered =>
    \/ r \in evicted
    \/ \E t \in Elems(history[session[r]]) : t.of = r
    \/ /\ Len(history[session[r]]) = Whole
       /\ \A t \in Elems(history[session[r]]) : t.of \notin seen[r]

FollowInv ==
  /\ \A s \in Sessions : Ordered(history[s])
  /\ \A r \in Requests : SeenDone(r) /\ TurnKept(r)

\* Latest is the end of the turns.
LEMMA LatestEnd ==
  ASSUME NEW T, NEW turns \in Seq(T), NEW n \in Nat
  PROVE  /\ Latest(turns, n) \in Seq(T)
         /\ Len(turns) \in Nat /\ Len(Latest(turns, n)) \in Nat
         /\ Len(Latest(turns, n)) = SmallerOf(n, Len(turns))
         /\ \A i \in 1 .. Len(Latest(turns, n)) :
              Latest(turns, n)[i] = turns[Len(turns) - SmallerOf(n, Len(turns)) + i]
<1> DEFINE first == LargerOf(0, Len(turns) - n) + 1
           last == SubSeq(turns, first, Len(turns))
<1>1. Len(turns) \in Nat /\ first \in 1 .. Len(turns) + 1
  BY DEF LargerOf
<1>2. first = Len(turns) - SmallerOf(n, Len(turns)) + 1
  <2>1. ASSUME NEW m \in Nat PROVE LargerOf(0, m - n) + 1 = m - SmallerOf(n, m) + 1
    BY DEF LargerOf, SmallerOf
  <2> QED
    BY <1>1, <2>1, Zenon
<1>3. /\ last \in Seq(T)
      /\ Len(last) = IF first <= Len(turns) THEN Len(turns) - first + 1 ELSE 0
      /\ \A i \in 1 .. Len(turns) - first + 1 : last[i] = turns[first + i - 1]
  BY <1>1
<1>4. SmallerOf(n, Len(turns)) \in 0 .. Len(turns)
  BY <1>1 DEF SmallerOf
<1>5. Len(last) = SmallerOf(n, Len(turns)) /\ Len(turns) - first + 1 = SmallerOf(n, Len(turns))
  BY <1>1, <1>2, <1>3, <1>4
<1>6. \A i \in 1 .. Len(last) : first + i - 1 = Len(turns) - SmallerOf(n, Len(turns)) + i
  BY <1>1, <1>2, <1>4, <1>5
<1>7. \A i \in 1 .. Len(last) : last[i] = turns[Len(turns) - SmallerOf(n, Len(turns)) + i]
  BY <1>3, <1>5, <1>6
<1>8. Latest(turns, n) = last
  BY DEF Latest
<1> HIDE DEF last
<1> QED
  BY <1>1, <1>3, <1>4, <1>5, <1>7, <1>8

\* A turn of an ordered history is among the latest, or these are all there may be
\* and its client had been told of none of them.
LEMMA LatestKeeps ==
  ASSUME NEW T, NEW turns \in Seq(T), Ordered(turns), NEW n \in Nat, NEW t \in Elems(turns)
  PROVE  /\ Ordered(Latest(turns, n))
         /\ \/ t \in Elems(Latest(turns, n))
            \/ /\ Len(Latest(turns, n)) = n /\ n < Len(turns)
               /\ \A u \in Elems(Latest(turns, n)) : u.of \notin seen[t.of]
<1> DEFINE latest == Latest(turns, n)
           skipped == Len(turns) - SmallerOf(n, Len(turns))
<1>1. /\ latest \in Seq(T) /\ Len(turns) \in Nat /\ Len(latest) = SmallerOf(n, Len(turns))
      /\ \A i \in 1 .. Len(latest) : latest[i] = turns[skipped + i]
  BY LatestEnd
<1>2. /\ SmallerOf(n, Len(turns)) \in 0 .. Len(turns) /\ skipped \in 0 .. Len(turns)
      /\ skipped > 0 => SmallerOf(n, Len(turns)) = n /\ n < Len(turns)
      /\ Len(latest) = Len(turns) - skipped
  BY <1>1 DEF SmallerOf
<1>3. DOMAIN latest = 1 .. Len(latest) /\ DOMAIN turns = 1 .. Len(turns)
  BY <1>1
<1>4. \A i \in 1 .. Len(latest) : skipped + i \in 1 .. Len(turns) /\ skipped < skipped + i
  <2>1. ASSUME NEW m \in Nat, NEW d \in 0 .. m
        PROVE  \A i \in 1 .. m - d : d + i \in 1 .. m /\ d < d + i
    OBVIOUS
  <2> HIDE DEF latest, skipped
  <2> QED
    BY <1>1, <1>2, <2>1, Zenon
<1>5. PICK k \in 1 .. Len(turns) : turns[k] = t
  BY <1>3 DEF Elems
<1>6. skipped \in Nat /\ Len(latest) \in Nat
  BY <1>1, <1>2
<1> HIDE DEF latest, skipped
<1>7. Ordered(latest)
  <2> SUFFICES ASSUME NEW i \in 1 .. Len(latest), NEW j \in 1 .. Len(latest), i < j
               PROVE  latest[j].of \notin seen[latest[i].of]
    BY DEF Ordered
  <2>1. skipped + i < skipped + j
    BY <1>6
  <2> QED
    BY <1>1, <1>4, <2>1 DEF Ordered
<1>8. CASE k > skipped
  <2>1. k - skipped \in 1 .. Len(latest) /\ skipped + (k - skipped) = k
    BY <1>1, <1>2, <1>6, <1>8
  <2>2. latest[k - skipped] = t
    BY <1>1, <1>5, <2>1
  <2> QED
    BY <1>3, <1>7, <2>1, <2>2 DEF Elems, latest
<1>9. CASE ~(k > skipped)
  <2>1. skipped > 0 /\ \A i \in 1 .. Len(latest) : k < skipped + i
    BY <1>6, <1>9
  <2>2. \A i \in 1 .. Len(latest) : latest[i].of \notin seen[t.of]
    BY <1>1, <1>4, <1>5, <2>1 DEF Ordered
  <2>3. \A u \in Elems(latest) : u.of \notin seen[t.of]
    BY <1>3, <2>2 DEF Elems
  <2>4. Len(latest) = n /\ n < Len(turns)
    BY <1>1, <1>2, <2>1
  <2> QED
    BY <1>7, <2>3, <2>4 DEF latest
<1> QED
  BY <1>6, <1>8, <1>9

\* A turn nobody has been told of may come last.
LEMMA AppendOrdered ==
  ASSUME NEW T, NEW turns \in Seq(T), NEW t \in T, Ordered(turns),
         \A u \in Elems(turns) : t.of \notin seen[u.of]
  PROVE  Append(turns, t) \in Seq(T) /\ Ordered(Append(turns, t))
<1>1. /\ Append(turns, t) \in Seq(T) /\ Len(turns) \in Nat /\ Len(Append(turns, t)) = Len(turns) + 1
      /\ \A i \in 1 .. Len(turns) : Append(turns, t)[i] = turns[i]
      /\ Append(turns, t)[Len(turns) + 1] = t
  OBVIOUS
<1>2. \A i \in 1 .. Len(turns) : t.of \notin seen[turns[i].of]
  BY DEF Elems
<1>3. ASSUME NEW i \in 1 .. Len(turns) + 1, NEW j \in 1 .. Len(turns) + 1, i < j
      PROVE  Append(turns, t)[j].of \notin seen[Append(turns, t)[i].of]
  <2>1. i \in 1 .. Len(turns) /\ (j \in 1 .. Len(turns) \/ j = Len(turns) + 1)
    BY <1>1, <1>3
  <2> QED
    BY <1>1, <1>2, <1>3, <2>1 DEF Ordered
<1> QED
  BY <1>1, <1>3 DEF Ordered

\* What a step leaves of a request.
LEMMA OverIsOver ==
  ASSUME TypeOK, TypeOK', FlowInv, KeptInv, [Next]_vars, NEW q \in Requests
  PROVE  /\ session' = session
         /\ step[q] = "ended" => step'[q] = "ended" /\ kept'[q] = kept[q] /\ answer'[q] = answer[q]
         /\ step'[q] = "new" => step[q] = "new"
         /\ step[q] # "new" => seen'[q] = seen[q]
         /\ step[q] = "new" => seen'[q] = seen[q] \/ Ask(q)
         /\ step'[q] = "generate" => Retrieve(q) \/ (step[q] = "generate" /\ snapshot'[q] = snapshot[q])
         /\ step'[q] \in {"reply", "ended"} /\ kept'[q] > 0 =>
              AppendTurn(q) \/ (step[q] \in {"reply", "ended"} /\ kept[q] > 0)
<1> USE DEF clientVars, taskVars, sharedVars
<1>1. session' = session
  BY DEF Next, Model, Redis, Handle, Ask, Read, Leave, Preprocess, Generate, Delta, Exhaust, Break,
         Retrieve, Trending, SendError, TimeOut, Start, Record, AppendTurn, Reply, Fail,
         DropFuture, Evict, vars
<1>0. KeptOf(q) /\ ~(NotKept > 0)
  BY DEF KeptInv, NotKept
<1>2. CASE /\ step'[q] = step[q] /\ kept'[q] = kept[q] /\ answer'[q] = answer[q]
           /\ seen'[q] = seen[q] /\ snapshot'[q] = snapshot[q]
  BY <1>1, <1>2
<1>3. CASE UNCHANGED vars \/ (\E s \in Sessions : Evict(s)) \/ (\E r \in Requests : Read(r))
  BY <1>2, <1>3 DEF vars, Evict, Read
<1>4. ASSUME NEW r \in Requests \ {q},
             \/ Ask(r) \/ Leave(r) \/ Model(r) \/ Redis(r) \/ Handle(r) \/ Fail(r) \/ DropFuture(r)
      PROVE  /\ step'[q] = step[q] /\ kept'[q] = kept[q] /\ answer'[q] = answer[q]
             /\ seen'[q] = seen[q] /\ snapshot'[q] = snapshot[q]
  BY <1>4, OwnRequest
<1>5. CASE \/ Leave(q) \/ Model(q) \/ Redis(q) \/ Handle(q) \/ Fail(q) \/ DropFuture(q) \/ Ask(q)
  <2>1. /\ step[q] # "ended"
        /\ step'[q] # "new" \/ step[q] = "new"
    BY <1>5 DEF Model, Redis, Handle, Ask, Leave, Preprocess, Generate, Delta, Exhaust, Break,
         Retrieve, Trending, SendError, TimeOut, Start, Record, AppendTurn, Reply, Fail,
         DropFuture, Awaiting, Abandon, OnStreamError, After, TypeOK
  <2>2. ~Ask(q) => seen' = seen /\ step[q] # "new"
    BY <1>5 DEF Model, Redis, Handle, Leave, Preprocess, Generate, Delta, Exhaust, Break,
         Retrieve, Trending, SendError, TimeOut, Start, Record, AppendTurn, Reply, Fail,
         DropFuture, Awaiting
  <2>3. Ask(q) => step[q] = "new"
    BY DEF Ask
  <2>4. step'[q] = "generate" => Retrieve(q) \/ (step[q] = "generate" /\ snapshot'[q] = snapshot[q])
    BY <1>5 DEF Model, Redis, Handle, Ask, Leave, Preprocess, Generate, Delta, Exhaust, Break,
         Trending, SendError, TimeOut, Start, Record, AppendTurn, Reply, Fail,
         DropFuture, Abandon, OnStreamError, After, TypeOK
  <2>5. kept'[q] = kept[q] \/ step'[q] = "append"
    BY <1>5 DEF Model, Redis, Handle, Ask, Leave, Preprocess, Generate, Delta, Exhaust, Break,
         Retrieve, Trending, SendError, TimeOut, Start, Record, AppendTurn, Reply, Fail,
         DropFuture, After, TypeOK
  <2>6. kept'[q] = kept[q] /\ kept[q] > 0 => step[q] \in Completed
    BY <1>0 DEF KeptOf
  <2>7. step[q] = "append" => AppendTurn(q) \/ step'[q] = "append"
    BY <1>5 DEF Model, Redis, Handle, Ask, Leave, Preprocess, Generate, Delta, Exhaust, Break,
         Retrieve, Trending, SendError, TimeOut, Start, Record, Reply, Fail,
         DropFuture, Awaiting
  <2>8. step'[q] \in {"reply", "ended"} /\ kept'[q] > 0 =>
          AppendTurn(q) \/ (step[q] \in {"reply", "ended"} /\ kept[q] > 0)
    BY <2>5, <2>6, <2>7 DEF Completed
  <2> QED
    BY <1>1, <2>1, <2>2, <2>3, <2>4, <2>8
<1> QED
  BY <1>2, <1>3, <1>4, <1>5 DEF Next

\* What was answered stays known to be.
LEMMA SeenStays ==
  ASSUME TypeOK, TypeOK', FlowInv, KeptInv, FollowInv, [Next]_vars, NEW r \in Requests
  PROVE  SeenDone(r)'
<1> HIDE DEF Flow
<1>1. seen \in [Requests -> SUBSET Requests] /\ SeenDone(r)
  BY DEF TypeOK, FollowInv
<1>2. \A q \in Requests : step[q] = "ended" => step'[q] = "ended" /\ kept'[q] = kept[q]
  BY OverIsOver
<1>3. session' = session /\ (step'[r] = "new" => step[r] = "new")
  BY OverIsOver
<1>4. CASE seen'[r] = seen[r]
  BY <1>1, <1>2, <1>3, <1>4 DEF SeenDone
<1>5. CASE Ask(r)
  <2>1. /\ step'[r] = "preprocess" /\ step[r] = "new"
        /\ seen'[r] = {q \in Requests : session[q] = session[r] /\ "done" \in Elems(got[q])}
    BY <1>5 DEF Ask, TypeOK
  <2>2. ASSUME NEW q \in Requests, "done" \in Elems(got[q])
        PROVE  step[q] = "ended" /\ kept[q] # NotKept
    <3>1. "done" \in Elems(Flow(q)) /\ FlowOf(q) /\ KeptOf(q) /\ "done" \in Terminal
      BY <2>2, FlowElems DEF FlowInv, KeptInv, Terminal
    <3> QED
      BY <3>1, EndIsLast DEF KeptOf
  <2> QED
    BY <1>2, <1>3, <2>1, <2>2 DEF SeenDone
<1> QED
  BY <1>4, <1>5, OverIsOver

\* An append puts its turn behind the others, and drops one only when the history
\* is full.
LEMMA AppendFollows ==
  ASSUME TypeOK, TypeOK', FlowInv, KeptInv, FollowInv, [Next]_vars, NEW r \in Requests, AppendTurn(r)
  PROVE  FollowInv'
<1> USE DEF clientVars, taskVars, sharedVars
<1> DEFINE s == session[r]
           h == history[s]
           longer == Append(h, TurnOf(r))
           pushed == Latest(longer, Whole)
<1>1. /\ seen' = seen /\ session' = session /\ kept' = kept /\ evicted' = evicted
      /\ step[r] = "append" /\ step'[r] = "reply"
      /\ \A q \in Requests \ {r} : step'[q] = step[q]
  BY DEF AppendTurn, After, TypeOK
<1>2. ASSUME NEW q \in Requests PROVE SeenDone(q)'
  BY SeenStays
<1>3. CASE answer[r] = 0 \/ session[r] \notin Remembered
  <2>1. history' = history
    BY <1>3, AppendAdds
  <2>2. kept[r] = 0 \/ session[r] \notin Remembered
    BY <1>1, <1>3 DEF KeptInv, KeptOf, NotKept
  <2>3. ASSUME NEW q \in Requests PROVE TurnKept(q)'
    <3>1. CASE q = r
      BY <1>1, <2>2, <3>1 DEF TurnKept
    <3>2. CASE q # r
      BY <1>1, <2>1, <3>2 DEF TurnKept, FollowInv
    <3> QED
      BY <3>1, <3>2
  <2> QED
    BY <1>1, <1>2, <2>1, <2>3 DEF FollowInv, Ordered
<1>4. CASE answer[r] # 0 /\ session[r] \in Remembered
  <2>1. /\ s \in Sessions /\ h \in Seq(Turns) /\ Whole \in Nat \ {0} /\ TurnOf(r) \in Turns
        /\ TurnOf(r).of = r
        /\ \A u \in Sessions : history'[u] = IF u = s THEN pushed ELSE history[u]
    BY <1>4, AppendAdds DEF TurnOf
  <2>2. \A t \in Elems(h) : t.of \in Requests /\ r \notin seen[t.of]
    <3>1. \A t \in Elems(h) : t.of \in Requests
      <4>1. \A i \in DOMAIN h : h[i] \in Turns
        BY <2>1
      <4>2. \A t \in Turns : t.of \in Requests
        BY DEF Turns
      <4> QED
        BY <4>1, <4>2, Zenon DEF Elems
    <3>2. \A q \in Requests : r \notin seen[q]
      BY <1>1 DEF FollowInv, SeenDone
    <3> QED
      BY <3>1, <3>2
  <2>3. longer \in Seq(Turns) /\ Ordered(longer) /\ Elems(longer) = Elems(h) \cup {TurnOf(r)}
    <3>1. Ordered(h)
      BY <2>1 DEF FollowInv
    <3> HIDE DEF h
    <3> QED
      BY <2>1, <2>2, <3>1, AppendOrdered, AppendElems
  <2>4. /\ pushed \in Seq(Turns) /\ Ordered(pushed) /\ Elems(pushed) \subseteq Elems(longer)
        /\ Len(longer) = Len(h) + 1 /\ Len(h) \in Nat /\ longer[Len(longer)] = TurnOf(r)
    <3>1. Len(longer) = Len(h) + 1 /\ Len(h) \in Nat /\ longer[Len(longer)] = TurnOf(r)
      BY <2>1
    <3> HIDE DEF longer
    <3>2. TurnOf(r) \in Elems(longer)
      BY <2>3
    <3> QED
      BY <2>1, <2>3, <3>1, <3>2, LatestKeeps, LatestTurns
  <2>5. TurnOf(r) \in Elems(pushed)
    <3> HIDE DEF longer
    <3>1. /\ Len(pushed) = SmallerOf(Whole, Len(longer)) /\ Len(pushed) \in Nat
          /\ \A i \in 1 .. Len(pushed) :
               pushed[i] = longer[Len(longer) - SmallerOf(Whole, Len(longer)) + i]
      BY <2>1, <2>3, LatestEnd
    <3>2. Len(pushed) >= 1
      BY <2>1, <2>4, <3>1 DEF SmallerOf
    <3>3. Len(longer) - Len(pushed) + Len(pushed) = Len(longer) /\ Len(pushed) \in 1 .. Len(pushed)
      BY <2>4, <3>1, <3>2
    <3>4. pushed[Len(pushed)] = TurnOf(r)
      BY <2>4, <3>1, <3>3
    <3>5. DOMAIN pushed = 1 .. Len(pushed)
      BY <2>4
    <3> QED
      BY <3>3, <3>4, <3>5 DEF Elems
  <2> HIDE DEF pushed, longer
  <2>6. ASSUME NEW q \in Requests PROVE TurnKept(q)'
    <3>1. CASE q = r
      BY <1>1, <2>1, <2>5, <3>1 DEF TurnKept
    <3>2. CASE q # r /\ session[q] # s
      <4>1. session[q] \in Sessions
        BY SearchAssumption DEF TypeOK
      <4>2. history'[session[q]] = history[session[q]]
        BY <2>1, <3>2, <4>1
      <4> QED
        BY <1>1, <3>2, <4>2 DEF TurnKept, FollowInv
    <3>3. CASE q # r /\ session[q] = s
      <4> SUFFICES ASSUME step[q] \in {"reply", "ended"}, kept[q] > 0, session[q] \in Remembered
                   PROVE  \/ q \in evicted
                          \/ \E t \in Elems(pushed) : t.of = q
                          \/ /\ Len(pushed) = Whole
                             /\ \A t \in Elems(pushed) : t.of \notin seen[q]
        BY <1>1, <2>1, <3>3 DEF TurnKept
      <4>1. CASE q \in evicted
        BY <4>1
      <4>2. ASSUME NEW t \in Elems(h), t.of = q
            PROVE  \/ t \in Elems(pushed)
                   \/ Len(pushed) = Whole /\ \A u \in Elems(pushed) : u.of \notin seen[q]
        <5>1. t \in Elems(longer)
          BY <2>3, <4>2
        <5> QED
          BY <2>1, <2>3, <4>2, <5>1, LatestKeeps DEF pushed
      <4>3. CASE Len(h) = Whole /\ \A t \in Elems(h) : t.of \notin seen[q]
        <5>1. Len(pushed) = Whole
          <6>1. Len(pushed) = SmallerOf(Whole, Len(longer)) /\ Len(longer) = Whole + 1
            BY <2>1, <2>3, <2>4, <4>3, LatestEnd DEF pushed
          <6> QED
            BY <2>1, <6>1 DEF SmallerOf
        <5>2. r \notin seen[q]
          BY <1>1 DEF FollowInv, SeenDone
        <5> QED
          BY <2>1, <2>3, <2>4, <4>3, <5>1, <5>2
      <4>4. TurnKept(q)
        BY DEF FollowInv
      <4> QED
        BY <3>3, <4>1, <4>2, <4>3, <4>4 DEF TurnKept
    <3> QED
      BY <3>1, <3>2, <3>3
  <2>7. ASSUME NEW u \in Sessions PROVE Ordered(history[u])'
    <3>1. Ordered(pushed) /\ Ordered(history[u])
      BY <2>4 DEF FollowInv
    <3>2. history'[u] = pushed \/ history'[u] = history[u]
      BY <2>1
    <3> QED
      BY <1>1, <3>1, <3>2 DEF Ordered
  <2> QED
    BY <1>2, <2>6, <2>7 DEF FollowInv
<1> QED
  BY <1>3, <1>4

LEMMA NextFollow ==
  ASSUME TypeOK, TypeOK', FlowInv, KeptInv, FollowInv, [Next]_vars
  PROVE  FollowInv'
<1> USE DEF clientVars, taskVars, sharedVars
<1>1. ASSUME NEW q \in Requests PROVE SeenDone(q)'
  BY SeenStays
<1>2. CASE \E r \in Requests : AppendTurn(r)
  BY <1>2, AppendFollows
<1>3. CASE history' = history /\ evicted' = evicted /\ ~\E r \in Requests : AppendTurn(r)
  <2>1. \A q \in Requests : q \in {t.of : t \in UNION {Elems(history[s]) : s \in Sessions}}
                              => step[q] # "new"
    BY DEF KeptInv, TurnsOf
  <2>2. ASSUME NEW s \in Sessions PROVE Ordered(history[s])'
    <3> SUFFICES ASSUME NEW i \in 1 .. Len(history[s]), NEW j \in 1 .. Len(history[s]), i < j
                 PROVE  history[s][j].of \notin seen'[history[s][i].of]
      BY <1>3 DEF Ordered
    <3>1. history[s] \in Seq(Turns)
      BY DEF TypeOK
    <3>2. i \in DOMAIN history[s] /\ history[s][i] \in Turns
      BY <3>1
    <3>3. history[s][i].of \in Requests /\ history[s][i] \in Elems(history[s])
      BY <3>2 DEF Turns, Elems
    <3>4. seen'[history[s][i].of] = seen[history[s][i].of]
      BY <2>1, <3>3, OverIsOver
    <3> QED
      BY <3>4 DEF FollowInv, Ordered
  <2>3. ASSUME NEW q \in Requests PROVE TurnKept(q)'
    <3> SUFFICES ASSUME step'[q] \in {"reply", "ended"}, kept'[q] > 0, session'[q] \in Remembered
                 PROVE  TurnKept(q)'
      BY DEF TurnKept
    <3>1. session' = session /\ step[q] \in {"reply", "ended"} /\ kept[q] > 0 /\ seen'[q] = seen[q]
      BY <1>3, OverIsOver
    <3>2. TurnKept(q)
      BY DEF FollowInv
    <3> QED
      BY <1>3, <3>1, <3>2 DEF TurnKept
  <2> QED
    BY <1>1, <2>2, <2>3 DEF FollowInv
<1>4. ASSUME NEW s \in Sessions, Evict(s) PROVE FollowInv'
  <2>1. /\ step' = step /\ kept' = kept /\ session' = session /\ seen' = seen
        /\ evicted' = evicted \cup Appended(s)
        /\ \A u \in Sessions : history'[u] = IF u = s THEN <<>> ELSE history[u]
    BY <1>4 DEF Evict, TypeOK
  <2>2. Ordered(<<>>)'
    BY DEF Ordered
  <2>3. ASSUME NEW u \in Sessions PROVE Ordered(history[u])'
    <3>1. CASE u = s
      BY <2>1, <3>1 DEF Ordered
    <3>2. CASE u # s
      BY <2>1, <3>2 DEF FollowInv, Ordered
    <3> QED
      BY <3>1, <3>2
  <2>4. ASSUME NEW q \in Requests PROVE TurnKept(q)'
    <3>1. session[q] \in Sessions /\ TurnKept(q)
      BY SearchAssumption DEF TypeOK, FollowInv
    <3>2. CASE session[q] = s
      BY <2>1, <3>2 DEF TurnKept, Appended
    <3>3. CASE session[q] # s
      BY <2>1, <3>1, <3>3 DEF TurnKept
    <3> QED
      BY <3>2, <3>3
  <2> QED
    BY <1>1, <2>3, <2>4 DEF FollowInv
<1> QED
  BY <1>2, <1>3, <1>4
     DEF Next, Model, Redis, Handle, Ask, Read, Leave, Preprocess, Generate, Delta, Exhaust, Break,
         Retrieve, Trending, SendError, TimeOut, Start, Record, Reply, Fail, DropFuture, vars

\* The prompt of a search has what its client was told of.
LEMMA RetrieveSees ==
  ASSUME TypeOK, KeptInv, FollowInv, NEW r \in Requests, NEW q \in seen[r], Retrieve(r)
  PROVE  \/ answer[q] = 0 \/ session[q] \notin Remembered
         \/ q \in evicted
         \/ q \in {t.of : t \in Elems(snapshot'[r])}
         \/ /\ Len(snapshot'[r]) = SmallerOf(InjectTurns, LargerOf(MaxTurns, 1))
            /\ \A t \in Elems(snapshot'[r]) : t.of \notin seen[q]
<1> DEFINE h == history[session[r]]
           prompt == Latest(h, InjectTurns)
<1>1. /\ session[r] \in Sessions /\ h \in Seq(Turns) /\ Len(h) \in Nat /\ Len(h) <= Whole
      /\ q \in Requests /\ InjectTurns \in Nat /\ Whole \in Nat
  BY SearchAssumption DEF TypeOK, Whole, LargerOf
<1>2. snapshot'[r] = prompt
  BY DEF Retrieve, Key, TypeOK
<1>3. Ordered(h) /\ TurnKept(q)
  BY <1>1 DEF FollowInv
<1>4. session[q] = session[r] /\ step[q] = "ended" /\ kept[q] = answer[q]
  BY <1>1 DEF FollowInv, SeenDone, KeptInv, KeptOf
<1> SUFFICES ASSUME answer[q] # 0, session[q] \in Remembered, q \notin evicted
             PROVE  \/ q \in {t.of : t \in Elems(prompt)}
                    \/ /\ Len(prompt) = SmallerOf(InjectTurns, Whole)
                       /\ \A t \in Elems(prompt) : t.of \notin seen[q]
  BY <1>2 DEF Whole
<1>5. kept[q] > 0
  <2>1. answer[q] \in Nat
    BY <1>1, SearchAssumption DEF TypeOK
  <2> QED
    BY <1>4, <2>1
<1> HIDE DEF h
<1>6. ASSUME NEW t \in Elems(h), t.of = q
      PROVE  \/ t \in Elems(prompt)
             \/ /\ Len(prompt) = SmallerOf(InjectTurns, Whole)
                /\ \A u \in Elems(prompt) : u.of \notin seen[q]
  <2>1. InjectTurns < Len(h) => InjectTurns = SmallerOf(InjectTurns, Whole)
    BY <1>1 DEF SmallerOf
  <2> QED
    BY <1>1, <1>3, <1>6, <2>1, LatestKeeps
<1>7. ASSUME Len(h) = Whole, \A t \in Elems(h) : t.of \notin seen[q]
      PROVE  /\ Len(prompt) = SmallerOf(InjectTurns, Whole)
             /\ \A t \in Elems(prompt) : t.of \notin seen[q]
  <2>1. Len(prompt) = SmallerOf(InjectTurns, Len(h)) /\ Elems(prompt) \subseteq Elems(h)
    BY <1>1, LatestEnd, LatestTurns
  <2> QED
    BY <1>7, <2>1
<1> QED
  BY <1>3, <1>4, <1>5, <1>6, <1>7 DEF TurnKept, h

LEMMA NextFollowUp ==
  ASSUME TypeOK, TypeOK', FlowInv, KeptInv, FollowInv, FollowUpSeesAnswer, [Next]_vars
  PROVE  FollowUpSeesAnswer'
<1> SUFFICES ASSUME NEW r \in Requests, step'[r] = "generate", NEW q \in seen'[r]
             PROVE  \/ answer'[q] = 0 \/ session'[q] \notin Remembered
                    \/ q \in evicted'
                    \/ q \in {t.of : t \in Elems(snapshot'[r])}
                    \/ /\ Len(snapshot'[r]) = SmallerOf(InjectTurns, LargerOf(MaxTurns, 1))
                       /\ \A t \in Elems(snapshot'[r]) : t.of \notin seen'[q]
  BY DEF FollowUpSeesAnswer
<1>1. \/ Retrieve(r)
      \/ step[r] = "generate" /\ snapshot'[r] = snapshot[r]
  BY OverIsOver
<1>2. step[r] # "new" /\ seen'[r] = seen[r]
  <2>1. step[r] # "new"
    BY <1>1 DEF Retrieve
  <2> QED
    BY <2>1, OverIsOver
<1>3. q \in Requests /\ step[q] = "ended"
  BY <1>2 DEF FollowInv, SeenDone, TypeOK
<1>4. answer'[q] = answer[q] /\ seen'[q] = seen[q] /\ session' = session
  BY <1>3, OverIsOver
<1>5. evicted \subseteq evicted'
  BY DEF Next, Model, Redis, Handle, Ask, Read, Leave, Preprocess, Generate, Delta, Exhaust, Break,
         Retrieve, Trending, SendError, TimeOut, Start, Record, AppendTurn, Reply, Fail,
         DropFuture, Evict, vars, sharedVars
<1>6. CASE Retrieve(r)
  BY <1>2, <1>4, <1>5, <1>6, RetrieveSees
<1>7. CASE step[r] = "generate" /\ snapshot'[r] = snapshot[r]
  BY <1>2, <1>4, <1>5, <1>7 DEF FollowUpSeesAnswer
<1> QED
  BY <1>1, <1>6, <1>7

\* A question that follows an answer its client has received is asked with that
\* answer in the prompt, unless the janitor removed the session since or the
\* prompt is full of turns the client had not been told of before it.
THEOREM FollowUpsSeeAnswers == Spec => []FollowUpSeesAnswer
<1>1. Init => FollowInv /\ FollowUpSeesAnswer
  <2> SUFFICES ASSUME Init PROVE FollowInv /\ FollowUpSeesAnswer
    OBVIOUS
  <2>1. \A s \in Sessions : Ordered(history[s])
    BY DEF Init, Ordered
  <2>2. \A r \in Requests : step[r] = "new" /\ seen[r] = {}
    BY DEF Init
  <2>3. \A r \in Requests : SeenDone(r) /\ TurnKept(r)
    BY <2>2 DEF SeenDone, TurnKept
  <2>4. FollowUpSeesAnswer
    BY <2>2 DEF FollowUpSeesAnswer
  <2> QED
    BY <2>1, <2>3, <2>4 DEF FollowInv
<1>2. /\ TypeOK /\ FlowInv /\ KeptInv /\ TypeOK'
      /\ FollowInv /\ FollowUpSeesAnswer
      /\ [Next]_vars
      => (FollowInv /\ FollowUpSeesAnswer)'
  BY NextFollow, NextFollowUp
<1> QED
  BY <1>1, <1>2, SearchesKeepTheirWord, PTL DEF Spec

=============================================================================
