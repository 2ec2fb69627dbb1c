----------------------------- MODULE Ingestion -----------------------------
(***************************************************************************)
(* The ingestion command (crate kenjaku-ingest with the Qdrant client and  *)
(* the embedding client): the sources are discovered by a crawl or a walk  *)
(* of a folder, and each becomes a document: its text is cut into chunks,  *)
(* a context is put before each, the chunks are embedded in batches and    *)
(* stored.  Every call may fail and the command may be killed between any  *)
(* two; the operator then starts it again.                                 *)
(***************************************************************************)
EXTENDS Naturals, Sequences, FiniteSets, SequencesExt

CONSTANTS Anchors,      \* Anchors[p]: the anchors of page p, resolved, in order
          Entries,      \* Entries[d]: what the entries of folder d resolve to
          Text,         \* Text[s]: the text a source is read as
          Options,      \* command lines: command, entry, depth, size, overlap, batch, and
                        \* whether the tokenizer could be initialised
          MaxRuns,      \* bound: starts of the command
          MaxFaults,    \* bound: calls that fail and kills
          MaxFrames     \* bound: folders a walk may be inside of at once

VARIABLES pc,           \* what the command is doing, "ended" when it is not running
          opts,         \* the command line of this run
          visit,        \* pages or folder entries still to look at, with their depth
          visited,      \* pages the crawl has taken up
          found,        \* sources discovered, in order
          next,         \* the source that is read next
          docs,         \* the documents begun by all runs, in order
          at,           \* chunks of the last document whose batch is stored
          pending,      \* the points of the batch that is stored next
          report,       \* totals of this run: documents, chunks, errors
          collection,   \* "absent", "bare", "content" or "indexed"
          store,        \* points of the collection
          runs, faults

vars == <<pc, opts, visit, visited, found, next, docs, at, pending, report,
          collection, store, runs, faults>>
walkVars == <<visit, visited, found>>
docVars == <<docs, at, pending>>

Pages == DOMAIN Anchors
Folders == DOMAIN Entries

Positive == Nat \ {0}
ASSUME IngestionAssumption ==
  /\ Pages \subseteq DOMAIN Text
  /\ \A p \in Pages :
       Anchors[p] \in Seq([to : Pages, domain : STRING, scheme : STRING, fragment : BOOLEAN])
  /\ \A s \in DOMAIN Text :
       Text[s] \in [chars : Nat, width : Positive, unit : Positive, ends : SUBSET Nat,
                   blank : SUBSET Nat]
  /\ Options # {}
  /\ Options \subseteq [command : {"url", "folder"}, entry : Pages \cup Folders, depth : Nat,
                        size : Nat, overlap : Nat, batch : Nat, bpe : BOOLEAN]
  /\ \A o \in Options : o.command = "url" => o.entry \in Pages
  /\ {MaxRuns, MaxFaults, MaxFrames} \subseteq Nat

(***************************************************************************)
(* Chunking.  A text is chars characters of width bytes each; its tokens   *)
(* are unit bytes long, so that one may end inside a character.  ends are  *)
(* the positions of sentence ends, blank those of white space.             *)
(***************************************************************************)
Bytes(t) == t.chars * t.width
Tokens(t) == (Bytes(t) + t.unit - 1) \div t.unit
NoText(t) == 0..(t.chars - 1) \subseteq t.blank
Least(a, b) == IF a <= b THEN a ELSE b

(* The sentence end the chunk <<from, to>> is cut after: the last one not  *)
(* before 85% of its length, where the length is counted in bytes and the  *)
(* position in characters.                                                 *)
MinKeep(t, n) == (n * t.width * 85) \div 100
adjust_to_sentence_boundary(t, from, to, has_more) ==
  LET cuts == {i \in (from + MinKeep(t, to - from))..(to - 1) : i \in t.ends}
  IN  IF has_more /\ cuts # {} THEN Max(cuts) + 1 ELSE to

StepNoOverlap(size, overlap) == IF size > 0 THEN size ELSE 1
Step(size, overlap) == IF size > overlap THEN size - overlap ELSE 1

(* A slice of tokens is a text only if it begins and ends with characters. *)
SliceEnd(t, s, size) == Least((s + size) * t.unit, Bytes(t))
Decodes(t, s, size) == (s * t.unit) % t.width = 0 /\ SliceEnd(t, s, size) % t.width = 0
Reaches(t, s, size) == s + size >= Tokens(t)

(* Where the loop takes a slice: a slice that does not decode is passed    *)
(* over before the test that ends the loop.                                *)
Starts(t, size, overlap) ==
  LET all == {k * Step(size, overlap) : k \in 0..Tokens(t)}
  IN  {s \in all : s < Tokens(t) /\ \A r \in all : r < s => ~(Reaches(t, r, size) /\ Decodes(t, r, size))}

Slice(t, s, size) ==
  LET from == (s * t.unit) \div t.width
      to   == SliceEnd(t, s, size) \div t.width
  IN  [from |-> from, to |-> adjust_to_sentence_boundary(t, from, to, ~Reaches(t, s, size))]
Inked(t, c) == ~(c.from..(c.to - 1) \subseteq t.blank)
InOrder(S) ==
  [i \in 1..Cardinality(S) |-> CHOOSE c \in S : Cardinality({d \in S : d.from < c.from}) = i - 1]

Whole(t) == <<[from |-> 0, to |-> t.chars]>>

(* The fallback without a tokenizer works on characters and trims nothing. *)
chunk_by_chars(t, size, overlap) ==
  LET all    == {k * Step(size, overlap) : k \in 0..t.chars}
      starts == {s \in all : s < t.chars /\ \A r \in all : r < s => r + size < t.chars}
      slices == {[from |-> s, to |-> Least(s + size, t.chars)] : s \in starts}
  IN  IF t.chars <= size THEN Whole(t) ELSE InOrder({c \in slices : Inked(t, c)})

chunk_text(t, o) ==
  CASE NoText(t)             -> <<>>
    [] ~NoText(t) /\ ~o.bpe  -> chunk_by_chars(t, o.size * 4, o.overlap * 4)
    [] OTHER ->
         IF Tokens(t) <= o.size THEN Whole(t)
         ELSE InOrder({c \in {Slice(t, s, o.size) :
                              s \in {s \in Starts(t, o.size, o.overlap) : Decodes(t, s, o.size)}} : Inked(t, c)})

(***************************************************************************)
(* The run of the command                                                  *)
(***************************************************************************)
NoReport == [docs |-> 0, chunks |-> 0, errors |-> 0]

Init ==
  /\ pc = "ended" /\ opts = (CHOOSE o \in Options : TRUE)
  /\ visit = <<>> /\ visited = {} /\ found = <<>> /\ next = 1
  /\ docs = <<>> /\ at = 0 /\ pending = {}
  /\ report = NoReport
  /\ collection = "absent" /\ store = {}
  /\ runs = 0 /\ faults = 0

Fault == faults < MaxFaults /\ faults' = faults + 1

Start ==
  /\ pc = "ended" /\ runs < MaxRuns
  /\ pc' = "connect" /\ opts' \in Options /\ runs' = runs + 1
  /\ visit' = <<>> /\ visited' = {} /\ found' = <<>> /\ next' = 1
  /\ at' = 0 /\ pending' = {} /\ report' = NoReport
  /\ UNCHANGED <<docs, collection, store, faults>>

(* ensure_collection: only the client that creates the collection gives it *)
(* its two text indexes.                                                   *)
Discovery == IF opts.command = "url" THEN "crawl" ELSE "walk"
Targets == <<<<opts.entry, 0>>>>
ensure_collection ==
  /\ pc = "connect"
  /\ IF collection = "absent"
     THEN collection' = "bare" /\ pc' = "index" /\ UNCHANGED visit
     ELSE pc' = Discovery /\ visit' = Targets /\ UNCHANGED collection
  /\ UNCHANGED <<opts, visited, found, next, docVars, report, store, runs, faults>>

create_text_index ==
  /\ pc = "index"
  /\ IF collection = "bare"
     THEN collection' = "content" /\ UNCHANGED <<pc, visit>>
     ELSE collection' = "indexed" /\ pc' = Discovery /\ visit' = Targets
  /\ UNCHANGED <<opts, visited, found, next, docVars, report, store, runs, faults>>

(***************************************************************************)
(* Discovery                                                               *)
(***************************************************************************)
Domain == "site"
Only(s, S) ==
  LET upTo[n \in 0..Len(s)] ==
        IF n = 0 THEN <<>>
        ELSE IF s[n] \in S THEN Append(upTo[n - 1], s[n]) ELSE upTo[n - 1]
  IN  upTo[Len(s)]
OnSite(a) == a.domain = Domain /\ a.scheme = "http" /\ ~a.fragment
extract_links(p) ==
  LET kept == Only(Anchors[p], {a \in ToSet(Anchors[p]) : OnSite(a)})
  IN  [i \in DOMAIN kept |-> kept[i].to]

Url == Last(visit)[1]
Depth == Last(visit)[2]
Unvisited(url) == Only(extract_links(url), Pages \ (visited \cup {url}))
PushedAsDeep(url, depth) ==
  LET links == Unvisited(url) IN [i \in DOMAIN links |-> <<links[i], depth>>]
Pushed(url, depth) ==
  LET links == Unvisited(url) IN [i \in DOMAIN links |-> <<links[i], depth + 1>>]

Crawling == pc = "crawl" /\ visit # <<>>
SkipUrl ==
  /\ Crawling /\ (Url \in visited \/ Depth > opts.depth)
  /\ visit' = Front(visit)
  /\ UNCHANGED <<pc, opts, visited, found, next, docVars, report, collection, store, runs, faults>>

(* The page is fetched and its links are put on the stack.                 *)
crawl_urls ==
  /\ Crawling /\ Url \notin visited /\ Depth <= opts.depth
  /\ visited' = visited \cup {Url}
  /\ found' = Append(found, Url)
  /\ visit' = Front(visit) \o (IF Depth < opts.depth THEN Pushed(Url, Depth) ELSE <<>>)
  /\ UNCHANGED <<pc, opts, next, docVars, report, collection, store, runs, faults>>

(* The address is refused, the request fails or has no success status; or  *)
(* the body is cut off, which counts as an empty page.                     *)
CrawlFails ==
  /\ Crawling /\ Url \notin visited /\ Depth <= opts.depth /\ Fault
  /\ visited' = visited \cup {Url}
  /\ found' \in {found, Append(found, Url)}
  /\ visit' = Front(visit)
  /\ UNCHANGED <<pc, opts, next, docVars, report, collection, store, runs>>

(* An entry of a folder: another folder of the tree, a file of a supported *)
(* kind, or something that is left alone, such as a link out of the tree.  *)
discover_files_inner ==
  /\ pc = "walk" /\ visit # <<>>
  /\ IF Url \in Folders
     THEN /\ Depth < MaxFrames
          /\ visit' = Front(visit) \o [i \in DOMAIN Entries[Url] |->
                        <<Reverse(Entries[Url])[i], Depth + 1>>]
          /\ UNCHANGED found
     ELSE /\ visit' = Front(visit)
          /\ found' = IF Url \in DOMAIN Text THEN Append(found, Url) ELSE found
  /\ UNCHANGED <<pc, opts, visited, next, docVars, report, collection, store, runs, faults>>

(* A folder that cannot be read, or an entry that cannot be resolved, is   *)
(* left out without a word.                                                *)
EntryFails ==
  /\ pc = "walk" /\ visit # <<>> /\ Fault
  /\ visit' = Front(visit)
  /\ UNCHANGED <<pc, opts, visited, found, next, docVars, report, collection, store, runs>>

(* Nothing remembers the folders seen: a link to a folder that contains it *)
(* is followed until the stack of the thread is used up.                   *)
StackOverflow ==
  /\ pc = "walk" /\ visit # <<>> /\ Url \in Folders /\ Depth >= MaxFrames
  /\ pc' = "ended"
  /\ UNCHANGED <<opts, walkVars, next, docVars, report, collection, store, runs, faults>>

Discovered ==
  /\ pc \in {"crawl", "walk"} /\ visit = <<>>
  /\ pc' = "documents"
  /\ UNCHANGED <<opts, walkVars, next, docVars, report, collection, store, runs, faults>>

(***************************************************************************)
(* Documents                                                               *)
(***************************************************************************)
Count(field, n) == report' = [report EXCEPT ![field] = @ + n]
Reading == pc = "documents" /\ next <= Len(found)
Source == found[next]
NewDoc(chunks, status) ==
  [source |-> Source, run |-> runs, opts |-> opts, chunks |-> chunks, status |-> status]

(* A source that cannot be fetched or parsed; a cut-off body is skipped    *)
(* like an empty page.                                                     *)
ReadFails ==
  /\ Reading /\ Fault
  /\ next' = next + 1
  /\ Count("errors", 1) \/ (opts.command = "url" /\ UNCHANGED report)
  /\ UNCHANGED <<pc, opts, walkVars, docVars, collection, store, runs>>

SkipEmpty ==
  /\ Reading /\ NoText(Text[Source])
  /\ next' = next + 1
  /\ UNCHANGED <<pc, opts, walkVars, docVars, report, collection, store, runs, faults>>

(* Nothing is left of the text: a document without chunks is counted.      *)
NoChunks ==
  /\ Reading /\ ~NoText(Text[Source]) /\ chunk_text(Text[Source], opts) = <<>>
  /\ next' = next + 1
  /\ docs' = Append(docs, NewDoc(<<>>, "stored"))
  /\ Count("docs", 1)
  /\ UNCHANGED <<pc, opts, walkVars, at, pending, collection, store, runs, faults>>

(* The chunks, each behind its context or, when that call fails, alone.    *)
contextualize(c, ok) == [chunk |-> c, context |-> ok]
BeginDocument ==
  LET chunks == chunk_text(Text[Source], opts) IN
  /\ Reading /\ ~NoText(Text[Source]) /\ chunks # <<>>
  /\ \E failing \in SUBSET DOMAIN chunks :
       /\ faults + Cardinality(failing) <= MaxFaults
       /\ faults' = faults + Cardinality(failing)
       /\ docs' = Append(docs, NewDoc([i \in DOMAIN chunks |->
                    contextualize(chunks[i], i \notin failing)], "open"))
  /\ pc' = IF opts.batch = 0 THEN "ended" ELSE "embed"
  /\ at' = 0
  /\ UNCHANGED <<opts, walkVars, next, pending, report, collection, store, runs>>

Doc == Len(docs)
DocChunks == docs[Doc].chunks
Batch == SubSeq(DocChunks, at + 1, Least(at + opts.batch, Len(DocChunks)))
Conclude(status) ==
  /\ docs' = [docs EXCEPT ![Doc].status = status]
  /\ next' = next + 1
  /\ pc' = "documents"

(* What the service may answer: an entry for each input, with its index,   *)
(* in any order; or, at fault, without one of them.                        *)
Data(texts, indices) == {[index |-> i, embedding |-> texts[i]] : i \in indices}
Replies(texts, indices) == SetToSeqs(Data(texts, indices))
embed(data) ==
  LET sorted == CHOOSE s \in SetToSeqs(ToSet(data)) :
                  \A i, j \in DOMAIN s : i < j => s[i].index <= s[j].index
  IN  [i \in DOMAIN sorted |-> sorted[i].embedding]

(* zip stops with the shorter of the two, so the lengths are compared.     *)
Zipped(texts, embeddings) ==
  {[doc |-> Doc, index |-> at + i, text |-> texts[i], vector |-> embeddings[i]] :
     i \in DOMAIN texts \cap DOMAIN embeddings}

EmbedBatch ==
  /\ pc = "embed"
  /\ \E data \in Replies(Batch, DOMAIN Batch) : pending' = Zipped(Batch, embed(data))
  /\ pc' = "upsert"
  /\ UNCHANGED <<opts, walkVars, next, docs, at, report, collection, store, runs, faults>>

(* The request fails, or an entry is missing: `?` ends the document.       *)
EmbedFails ==
  /\ pc = "embed" /\ Fault
  /\ Conclude("failed") /\ Count("errors", 1)
  /\ UNCHANGED <<opts, walkVars, at, pending, collection, store, runs>>

LastBatch == at + Cardinality(pending) = Len(DocChunks)
upsert_points ==
  /\ pc = "upsert"
  /\ store' = store \cup pending
  /\ at' = at + Cardinality(pending)
  /\ pending' = {}
  /\ IF LastBatch
     THEN /\ Conclude("stored")
          /\ report' = [report EXCEPT !.docs = @ + 1, !.chunks = @ + Len(DocChunks)]
     ELSE pc' = "embed" /\ UNCHANGED <<docs, next, report>>
  /\ UNCHANGED <<opts, walkVars, collection, runs, faults>>

(* As if the error of a batch were logged and the next one taken.          *)
UpsertIgnored ==
  /\ pc = "upsert" /\ Fault
  /\ at' = at + Cardinality(pending) /\ pending' = {}
  /\ IF LastBatch
     THEN /\ Conclude("stored")
          /\ report' = [report EXCEPT !.docs = @ + 1, !.chunks = @ + Len(DocChunks)]
     ELSE pc' = "embed" /\ UNCHANGED <<docs, next, report>>
  /\ UNCHANGED <<opts, walkVars, collection, store, runs>>

(* The call fails, before or after the points were stored.                 *)
UpsertFails ==
  /\ pc = "upsert" /\ Fault
  /\ store' \in {store, store \cup pending}
  /\ pending' = {}
  /\ Conclude("failed") /\ Count("errors", 1)
  /\ UNCHANGED <<opts, walkVars, at, collection, runs>>

Finish ==
  /\ pc = "documents" /\ next > Len(found)
  /\ pc' = "ended"
  /\ UNCHANGED <<opts, walkVars, next, docVars, report, collection, store, runs, faults>>

(* The command is killed, or ends with the error of a call that all of it  *)
(* depends on: connecting, creating the collection, resolving the source.  *)
Kill ==
  /\ pc # "ended" /\ Fault
  /\ pc' = "ended"
  /\ store' \in {store, store \cup pending}
  /\ UNCHANGED <<opts, walkVars, next, docVars, report, collection, runs>>

Next ==
  \/ Start \/ ensure_collection \/ create_text_index
  \/ SkipUrl \/ crawl_urls \/ CrawlFails
  \/ discover_files_inner \/ EntryFails \/ StackOverflow \/ Discovered
  \/ ReadFails \/ SkipEmpty \/ NoChunks \/ BeginDocument
  \/ EmbedBatch \/ EmbedFails \/ upsert_points \/ UpsertFails
  \/ Finish \/ Kill

Spec == Init /\ [][Next]_vars

(***************************************************************************)
(* Properties                                                              *)
(***************************************************************************)

(* Pages within n links of the page entry.                                 *)
Within(entry, n) ==
  LET reach[k \in 0..n] ==
        IF k = 0 THEN {entry}
        ELSE reach[k - 1] \cup UNION {ToSet(extract_links(p)) : p \in reach[k - 1]}
  IN  reach[n]

(* A crawl lists no page twice and none further than the depth it was      *)
(* given, whatever path a page is first met on; and when nothing failed it *)
(* has every page the entry links to.  It need not have all within the     *)
(* depth: a page met first at the full depth is not expanded again.        *)
CrawlBounds ==
  opts.command = "url" =>
    /\ IsInjective(found)
    /\ ToSet(found) \subseteq Within(opts.entry, opts.depth)
    /\ pc = "documents" /\ faults = 0 => Within(opts.entry, Least(opts.depth, 1)) \subseteq ToSet(found)

(* A document reported as ingested is stored whole, and the totals are     *)
(* those of the documents of this run; chunks of any other document are    *)
(* what a failed batch, a lost answer or a kill has left.  Every vector is *)
(* that of the text stored with it, in whatever order the service answered *)
(* and whatever batch failed before.                                       *)
StoredOf(d) == {p.index : p \in {q \in store : q.doc = d}}
Reported == {d \in DOMAIN docs : docs[d].status = "stored"}
ReportTrue ==
  /\ \A p \in store : p.vector = p.text /\ p.text = docs[p.doc].chunks[p.index]
  /\ \A d \in Reported : StoredOf(d) = DOMAIN docs[d].chunks
  /\ report.docs = Cardinality({d \in Reported : docs[d].run = runs})
  /\ report.chunks = Cardinality({p \in store : p.doc \in Reported /\ docs[p.doc].run = runs})
  /\ Cardinality({d \in DOMAIN docs : docs[d].run = runs /\ docs[d].status = "failed"}) <= report.errors

(* The characters of a document no chunk has.                              *)
Lost(d) ==
  LET t == Text[docs[d].source]
  IN  {i \in 0..(t.chars - 1) : i \notin t.blank /\
         \A k \in DOMAIN docs[d].chunks : LET c == docs[d].chunks[k].chunk IN i \notin c.from..(c.to - 1)}

(* Nothing of a text is lost between its chunks when no token ends inside  *)
(* a character and the overlap, which is less than a chunk however large   *)
(* the option is, is at least what the search for a sentence end may take  *)
(* from a chunk.                                                           *)
MaxTrim(t, size) == LET n == size * t.unit IN n - Least(n, MinKeep(t, n) + 1)
Safe(t, o) == o.size > 0 /\ t.width = 1 /\ (o.bpe => MaxTrim(t, o.size) <= Least(o.overlap, o.size - 1) * t.unit)
Open == {d \in DOMAIN docs : docs[d].status = "open"}
OverlapCovers ==
  \A d \in Open : Safe(Text[docs[d].source], docs[d].opts) => Lost(d) = {}

(* What chunker.rs says of an overlap of 10 to 20%: that it preserves the  *)
(* continuity across chunks.                                               *)
ContinuityPreserved ==
  \A d \in Open :
    LET o == docs[d].opts IN
    o.overlap * 10 >= o.size /\ o.overlap * 5 <= o.size => Lost(d) = {}
=============================================================================
