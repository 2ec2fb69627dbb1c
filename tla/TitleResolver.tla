---------------------------- MODULE TitleResolver ----------------------------
(***************************************************************************)
(* The titles of the links a model grounds its answer on.  Each link of a  *)
(* search is looked up in the cache or fetched, concurrently with the      *)
(* others and with those of other searches, and what came of it is stored  *)
(* under the link for a day.                                               *)
(*                                                                         *)
(* A tick is longer than a fetch, which has two seconds.  How a title is   *)
(* cut out of a page is abstracted to what its five places hold: nothing,  *)
(* blanks, or a title.  The field at, which no code reads, tells when a    *)
(* title was fetched, and past what was behind a link at each tick.        *)
(***************************************************************************)
EXTENDS Integers, Sequences, SequencesExt, FiniteSets

CONSTANTS
  Links,         \* links of the model
  LinkTo,        \* the page a link leads to
  SlugOf,        \* the title made of the address of a link or a page, or its host
  Heads,         \* what may be in the places of a page: functions on Places
  Asked,         \* the links of each search
  TitleTtl,      \* TITLE_TTL_OK_SECS
  MaxTicks, MaxEdits, MaxCacheFaults   \* bounds

Cascade == <<"og:title", "twitter:title", "title", "headline", "name">>
Places == ToSet(Cascade)
Untitled == ""
Blank == " "
Bare == [place \in Places |-> Untitled]  \* an error page is read as one without a title

ASSUME TitleAssumption ==
  /\ \A s \in DOMAIN Asked : Asked[s] \subseteq Links
  /\ Heads \subseteq [Places -> STRING] /\ Bare \in Heads
  /\ TitleTtl \in Nat \ {0}
  /\ {MaxTicks, MaxEdits, MaxCacheFaults} \subseteq Nat

Lookups == {k \in (DOMAIN Asked) \X Links : k[2] \in Asked[k[1]]}
LinkOf(k) == k[2]
NoEntry == [until |-> 0]
NoTitle == [at |-> -1]

VARIABLES
  head,     \* what is behind each link now
  ticks,    \* the clock
  cache,    \* Redis: the entry of each link
  lookup,   \* where each lookup of a search is
  titled,   \* what it has found, NoTitle before
  past,     \* what was behind a link at a tick
  edits, cacheFaults

titleVars == <<head, ticks, cache, lookup, titled, past, edits, cacheFaults>>

Present(h, t) == {<<l, t, h[l]>> : l \in Links}

TitleInit ==
  /\ head \in [Links -> Heads]
  /\ ticks = 0
  /\ cache = [l \in Links |-> NoEntry]
  /\ lookup = [k \in Lookups |-> "new"]
  /\ titled = [k \in Lookups |-> NoTitle]
  /\ past = Present(head, 0)
  /\ edits = 0 /\ cacheFaults = 0

-----------------------------------------------------------------------------

\* extract_title: the first place that holds something decides, even if that is
\* blank; only a blank <title> is trimmed before it is looked at.
ExtractTitle(places) ==
  LET full == {i \in DOMAIN Cascade : places[Cascade[i]] # Untitled
                 /\ ~(Cascade[i] = "title" /\ places[Cascade[i]] = Blank)}
      first == places[Cascade[Min(full)]]
  IN IF full = {} \/ first = Blank THEN Untitled ELSE first

\* What resolve_one makes of a page, and of a link that cannot be fetched.
OfPage(l) ==
  LET title == ExtractTitle(head[l])
  IN [title |-> IF title # Untitled THEN title ELSE SlugOf[LinkTo[l]], url |-> LinkTo[l],
      at |-> ticks]
OfLink(l) == [title |-> SlugOf[l], url |-> l, at |-> ticks]

CacheFault == cacheFaults < MaxCacheFaults /\ cacheFaults' = cacheFaults + 1

\* Mutation of AfterHit: a hit prolongs the entry.
AfterHitProlonged(l) == [cache EXCEPT ![l].until = ticks + TitleTtl]

\* A hit leaves the entry, and its time, as they are.
AfterHit(l) == cache

Hit(k) ==
  /\ lookup[k] = "new"
  /\ ticks < cache[LinkOf(k)].until
  /\ titled' = [titled EXCEPT ![k] =
       [title |-> cache[LinkOf(k)].title, url |-> cache[LinkOf(k)].url, at |-> cache[LinkOf(k)].at]]
  /\ lookup' = [lookup EXCEPT ![k] = "done"]
  /\ cache' = AfterHit(LinkOf(k))
  /\ UNCHANGED <<head, ticks, past, edits, cacheFaults>>

\* No entry, or Redis fails, which is no different.
Miss(k) ==
  /\ lookup[k] = "new"
  /\ IF ticks < cache[LinkOf(k)].until THEN CacheFault ELSE UNCHANGED cacheFaults
  /\ lookup' = [lookup EXCEPT ![k] = "fetch"]
  /\ UNCHANGED <<head, ticks, cache, titled, past, edits>>

\* The page is read, or the fetch fails, which it always may.
Fetch(k) ==
  /\ lookup[k] = "fetch"
  /\ lookup' = [lookup EXCEPT ![k] = "store"]
  /\ titled' \in {[titled EXCEPT ![k] = OfPage(LinkOf(k))], [titled EXCEPT ![k] = OfLink(LinkOf(k))]}
  /\ UNCHANGED <<head, ticks, cache, past, edits, cacheFaults>>

\* The time to live is that of a success: a title made of an address is not
\* empty.  A store that fails is not noticed.
Store(k) ==
  /\ lookup[k] = "store"
  /\ lookup' = [lookup EXCEPT ![k] = "done"]
  /\ \/ /\ cache' = [cache EXCEPT ![LinkOf(k)] =
             [until |-> ticks + TitleTtl, title |-> titled[k].title, url |-> titled[k].url,
              at |-> titled[k].at]]
        /\ UNCHANGED cacheFaults
     \/ CacheFault /\ UNCHANGED cache
  /\ UNCHANGED <<head, ticks, titled, past, edits>>

\* No fetch and no store takes as long as a tick.
TimePasses ==
  /\ ticks < MaxTicks
  /\ \A k \in Lookups : lookup[k] \in {"new", "done"}
  /\ ticks' = ticks + 1
  /\ past' = past \cup Present(head, ticks')
  /\ UNCHANGED <<head, cache, lookup, titled, edits, cacheFaults>>

\* Somebody edits a page.
Edit(l) ==
  /\ edits < MaxEdits
  /\ edits' = edits + 1
  /\ head' \in {[head EXCEPT ![l] = h] : h \in Heads}
  /\ past' = past \cup Present(head', ticks)
  /\ UNCHANGED <<ticks, cache, lookup, titled, cacheFaults>>

TitleStep ==
  \/ \E k \in Lookups : Hit(k) \/ Miss(k) \/ Fetch(k) \/ Store(k)
  \/ TimePasses
  \/ \E l \in Links : Edit(l)

-----------------------------------------------------------------------------

\* A title that is shown belongs to its link and was true less than a day before
\* it was looked up: it stood in the page the link leads to, or was made of an
\* address because the page had no usable title or could not be fetched.  A hit
\* gives an entry no longer life, and no search stores under another's link.
TitleStillTrue ==
  [][\A k \in Lookups : titled'[k] # titled[k] =>
       LET t == titled'[k] l == LinkOf(k)
       IN /\ ticks - t.at < TitleTtl
          /\ \E p \in past :
               /\ p[1] = l /\ p[2] = t.at
               /\ \/ t.url = LinkTo[l] /\ t.title \in {p[3][x] : x \in Places} \ {Untitled, Blank}
                  \/ t.url \in {l, LinkTo[l]} /\ t.title = SlugOf[t.url]]_titleVars
=============================================================================
