---------------------------- MODULE StreamParser ----------------------------
(***************************************************************************)
(* The model streams its answer as slices of one JSON text                 *)
(* {"message": "...", "assets": [...], ...}, cut anywhere.  The parser of  *)
(* generate_stream finds the message, decodes it as the slices come in and *)
(* hands every piece to the handler, which accumulates them; the complete  *)
(* text is parsed once more at the end, for the assets and suggestions.    *)
(*                                                                         *)
(* A text is a sequence of symbols: the characters that matter and, as one *)
(* symbol each, runs of text that no cut can make ambiguous.  The key      *)
(* "message" (with its quotes) is two symbols so that a cut may fall into  *)
(* it; "u" stands for u and its four hexadecimal digits.  The whitespace   *)
(* is what find_message_value_start takes for it: no carriage return.      *)
(***************************************************************************)
EXTENDS Integers, Sequences, SequencesExt

CONSTANTS
  Symbols,   \* what texts are made of
  Frames,    \* [head, tail]: what surrounds the message, its quotes included
  Bodies,    \* escaped messages, the invalid ones included
  Others,    \* texts of another shape
  MaxDrops   \* bound: events that do not parse

Key == <<"mess", "age">>
Unicode == <<"esc", "u">>   \* what a streamed \uXXXX is: itself
Texts == {f.head \o b \o f.tail : f \in Frames, b \in Bodies} \cup Others

ASSUME StreamAssumption ==
  MaxDrops \in Nat /\ Texts # {} /\ Texts \subseteq Seq(Symbols)

VARIABLES
  text,      \* what the model writes
  sent,      \* symbols of it that have been sent
  buffer,    \* what the parser has received
  mode,      \* ParseState
  scan,      \* symbols of buffer that are scanned
  pending,   \* a backslash was the last symbol of a slice
  answer,    \* the handler's accumulated deltas
  extras,    \* assets and suggestions come from the parsed text, or are empty
  phase,     \* "open", "finished" (a finishing event), "ended", "failed"
  drops      \* events dropped so far

parserVars == <<buffer, mode, scan, pending>>
vars == <<text, sent, parserVars, answer, extras, phase, drops>>

-----------------------------------------------------------------------------
(* The parser. *)

SkipSpace(b, i) ==
  CHOOSE j \in i .. Len(b) + 1 :
    /\ \A k \in i .. j - 1 : b[k] = " "
    /\ j = Len(b) + 1 \/ b[j] # " "

IsKey(b, i) == i >= 1 /\ i < Len(b) /\ SubSeq(b, i, i + 1) = Key

\* The occurrences of "message" the search does not skip: at the end of what is
\* there, or followed by a colon.
ValueKeys(b) ==
  {i \in DOMAIN b : IsKey(b, i) /\
     LET j == SkipSpace(b, i + 2) IN j > Len(b) \/ b[j] = ":"}

\* find_message_value_start: the position behind the opening quote of the value,
\* 0 while it is not there (for ever, if the value is not a string).
ValueStart(b) ==
  LET keys == ValueKeys(b)
      i == CHOOSE k \in keys : \A l \in keys : k <= l
      colon == SkipSpace(b, i + 2)
      quote == SkipSpace(b, colon + 1)
  IN IF keys = {} \/ colon >= Len(b) THEN 0
     ELSE IF quote <= Len(b) /\ b[quote] = "quote" THEN quote + 1 ELSE 0

\* What an escape stands for; an unknown one is passed through.
Unescape(c) == IF c = "n" THEN "newline" ELSE c

Emit(m, c, n, p) == [m EXCEPT !.out = Append(@, c), !.scan = @ + n, !.pending = p]

\* An escape that ends in c, n symbols from here.  Of a \u only the backslash is
\* written: the u comes next, as a plain symbol.
Escape(m, c, n) ==
  IF c = "u" THEN Emit(m, "esc", n - 1, FALSE) ELSE Emit(m, Unescape(c), n, FALSE)

\* Mutation of Consume: a backslash at the end of a slice is scanned and forgotten.
ConsumeForgets(b, m) ==
  LET c == b[m.scan + 1]
  IN IF m.pending THEN Escape(m, c, 1)
     ELSE IF c = "quote" THEN [m EXCEPT !.scan = @ + 1, !.mode = "after"]
     ELSE IF c # "esc" THEN Emit(m, c, 1, FALSE)
     ELSE IF m.scan + 1 = Len(b) THEN [m EXCEPT !.scan = @ + 1, !.pending = FALSE]
     ELSE Escape(m, b[m.scan + 2], 2)

\* One unit of the message: consume_message_char and its caller.
Consume(b, m) ==
  LET c == b[m.scan + 1]
  IN IF m.pending THEN Escape(m, c, 1)
     ELSE IF c = "quote" THEN [m EXCEPT !.scan = @ + 1, !.mode = "after"]
     ELSE IF c # "esc" THEN Emit(m, c, 1, FALSE)
     ELSE IF m.scan + 1 = Len(b) THEN [m EXCEPT !.scan = @ + 1, !.pending = TRUE]
     ELSE Escape(m, b[m.scan + 2], 2)

\* Everything is scanned, or the value is not there yet.
Waits(b, m) == m.scan >= Len(b) \/ (m.mode = "seeking" /\ ValueStart(b) = 0)

\* One turn of the loop of push.
Turn(b, m) ==
  IF Waits(b, m) THEN m
  ELSE IF m.mode = "seeking" THEN [m EXCEPT !.scan = ValueStart(b) - 1, !.mode = "inside"]
  ELSE IF m.mode = "inside" THEN Consume(b, m)
  ELSE [m EXCEPT !.scan = Len(b)]

\* push: turns until nothing is left to scan.  A symbol takes two at most.
Scanned(b) ==
  LET most == 2 * (Len(b) - scan) + 1
      turns[k \in 0 .. most] ==
        IF k = 0 THEN [mode |-> mode, scan |-> scan, pending |-> pending, out |-> <<>>]
        ELSE Turn(b, turns[k - 1])
  IN turns[most]

Push(slice) ==
  LET m == Scanned(buffer \o slice)
  IN /\ buffer' = buffer \o slice
     /\ mode' = m.mode /\ scan' = m.scan /\ pending' = m.pending
     /\ answer' = answer \o m.out

-----------------------------------------------------------------------------
(* JSON, as serde_json reads it. *)

\* A symbol is escaped by an odd number of backslashes before it.
Escaped(v, i) ==
  \E k \in 1 .. i - 1 :
    /\ k % 2 = 1
    /\ \A j \in i - k .. i - 1 : v[j] = "esc"
    /\ i - k = 1 \/ v[i - k - 1] # "esc"

Valid(v) ==
  /\ \A i \in DOMAIN v : IF Escaped(v, i) THEN v[i] \in {"n", "u", "quote", "esc"}
                         ELSE v[i] # "quote"
  /\ ~Escaped(Append(v, "x"), Len(v) + 1)

\* A key at k has its colon at c.
Named(b, k, c) ==
  /\ IsKey(b, k)
  /\ c \in k + 2 .. Len(b) /\ b[c] = ":"
  /\ \A j \in k + 2 .. c - 1 : b[j] = " "

\* The value of the first key that has a colon is a string, and its quote is at i.
Opens(b, i) ==
  /\ b[i] = "quote"
  /\ \E k, c \in 1 .. i - 1 :
       /\ Named(b, k, c)
       /\ \A j \in c + 1 .. i - 1 : b[j] = " "
       /\ \A l \in 1 .. k - 1, d \in 1 .. k - 1 : ~Named(b, l, d)

\* The quotes of the message are in the frame.
ASSUME FrameAssumption ==
  \A f \in Frames :
    /\ f.head \in Seq(Symbols) \ {<<>>} /\ Opens(f.head, Len(f.head))
    /\ f.tail \in Seq(Symbols) \ {<<>>} /\ f.tail[1] = "quote"

MessageIn(b, f) == SubSeq(b, Len(f.head) + 1, Len(b) - Len(f.tail))
FramesOf(b) == {f \in Frames : b = f.head \o MessageIn(b, f) \o f.tail /\ Valid(MessageIn(b, f))}
\* (A text without a message, of which the code reads an empty one, is in no frame.)
WellFormed(b) == FramesOf(b) # {}

\* The message behind the escapes, with u for every \uXXXX.
Decoded(v, u) ==
  FlattenSeq([i \in DOMAIN v |->
    IF ~Escaped(v, i) THEN IF v[i] = "esc" THEN <<>> ELSE <<v[i]>>
    ELSE IF v[i] = "u" THEN u ELSE <<Unescape(v[i])>>])

-----------------------------------------------------------------------------

Init ==
  /\ text \in Texts
  /\ sent = 0
  /\ buffer = <<>> /\ mode = "seeking" /\ scan = 0 /\ pending = FALSE
  /\ answer = <<>> /\ extras = FALSE
  /\ phase = "open"
  /\ drops = 0

Slice(n) == SubSeq(text, sent + 1, sent + n)

\* Mutation of Finish: the text is parsed before the last slice is pushed.
FinishEarly == extras' = WellFormed(buffer) /\ phase' = "finished"

\* finalize: the whole text is parsed.  The handler stops reading.
Finish == extras' = WellFormed(buffer') /\ phase' = "finished"

\* An event with the next slice.  It may have a finish reason, which may cut the
\* text short.
Event(n) ==
  /\ phase = "open"
  /\ Push(Slice(n))
  /\ sent' = sent + n
  /\ \/ n > 0 /\ UNCHANGED <<extras, phase>>
     \/ Finish
  /\ UNCHANGED <<text, drops>>

\* The event [DONE].
DoneEvent ==
  /\ phase = "open"
  /\ UNCHANGED <<text, sent, parserVars, answer, drops>>
  /\ Finish

\* An event that does not parse is dropped with its text.
DropEvent(n) ==
  /\ phase = "open" /\ n > 0
  /\ drops < MaxDrops
  /\ drops' = drops + 1
  /\ sent' = sent + n
  /\ UNCHANGED <<text, parserVars, answer, extras, phase>>

\* The stream ends without a finishing event; the handler completes the answer.
EndOfStream ==
  /\ phase = "open"
  /\ phase' = "ended"
  /\ UNCHANGED <<text, sent, parserVars, answer, extras, drops>>

\* The connection breaks: nothing of the answer is kept.
StreamError ==
  /\ phase = "open"
  /\ phase' = "failed"
  /\ UNCHANGED <<text, sent, parserVars, answer, extras, drops>>

Next ==
  \/ \E n \in 0 .. Len(text) - sent : Event(n) \/ DropEvent(n)
  \/ DoneEvent
  \/ EndOfStream
  \/ StreamError

Spec == Init /\ [][Next]_vars

-----------------------------------------------------------------------------

\* The message as far as it has come in: what follows the value's opening quote,
\* up to the first quote that is not escaped.
Received(b) ==
  LET opening == {i \in DOMAIN b : Opens(b, i)}
      v == SubSeq(b, 1 + CHOOSE i \in opening : TRUE, Len(b))
      closing == {i \in DOMAIN v : v[i] = "quote" /\ ~Escaped(v, i)}
  IN IF opening = {} THEN <<>>
     ELSE IF closing = {} THEN v
     ELSE SubSeq(v, 1, (CHOOSE i \in closing : \A j \in closing : i <= j) - 1)

\* The cuts make no difference: after every event, wherever the slices end, the
\* answer so far is the decoding of the message so far; a key, a space or an
\* escape that is cut loses and doubles nothing, and nothing of the text around
\* the message gets into the answer.
CutsDoNotMatter == answer = Decoded(Received(buffer), Unicode)

\* A streamed search gives what a plain one gives: of a well-formed text the
\* answer is the message parse_merged_response returns, but for \uXXXX, which
\* stays as it is; the assets and suggestions come with the finishing event.
StreamedAsPlain ==
  phase \in {"finished", "ended"} =>
    /\ extras = (phase = "finished" /\ WellFormed(buffer))
    /\ \A f \in FramesOf(buffer) : answer = Decoded(MessageIn(buffer, f), Unicode)
=============================================================================
