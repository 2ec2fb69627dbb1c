---------------------------- MODULE MCIngestion ----------------------------
(***************************************************************************)
(* A site of four pages, a folder with a link back to itself, and command  *)
(* lines for them.  On the site the page "b" is linked from the entry and  *)
(* from "a", so that a crawl of depth 2 meets it first at depth 2.         *)
(***************************************************************************)
EXTENDS Ingestion

Anchor(p) == [to |-> p, domain |-> "site", scheme |-> "http", fragment |-> FALSE]
MCAnchors ==
  [p \in {"home", "a", "b", "c"} |->
     CASE p = "home" -> <<Anchor("b"), Anchor("a"), [Anchor("c") EXCEPT !.fragment = TRUE]>>
       [] p = "a"    -> <<Anchor("home"), Anchor("b"), [Anchor("c") EXCEPT !.domain = "other"]>>
       [] p = "b"    -> <<Anchor("c"), [Anchor("a") EXCEPT !.scheme = "mailto"]>>
       [] p = "c"    -> <<Anchor("a")>>]

MCEntries == [d \in {"root", "sub", "loop"} |->
     CASE d = "root" -> <<"notes", "sub", "outside">> [] d = "sub" -> <<"paper">> [] OTHER -> <<"loop">>]

Prose(n, ends) == [chars |-> n, width |-> 1, unit |-> 4, ends |-> ends, blank |-> {}]
MCText ==
  [s \in {"home", "a", "b", "c", "notes", "paper"} |->
     CASE s = "home"  -> [Prose(4, {}) EXCEPT !.blank = 0..3]
       [] s = "a"     -> Prose(140, {54, 70, 108})
       [] s = "b"     -> [chars |-> 40, width |-> 3, unit |-> 2, ends |-> {}, blank |-> {}]
       [] s = "c"     -> Prose(20, {19})
       [] s = "notes" -> Prose(140, {54, 70, 108})
       [] s = "paper" -> [Prose(100, {54}) EXCEPT !.blank = 90..99]]

Line(command, entry, depth, size, overlap, batch, bpe) ==
  [command |-> command, entry |-> entry, depth |-> depth, size |-> size, overlap |-> overlap,
   batch |-> batch, bpe |-> bpe]
MCOptions ==
  {Line("url", "home", 2, 16, 3, 2, TRUE), Line("url", "home", 1, 16, 2, 1, TRUE),
   Line("folder", "root", 0, 16, 3, 2, TRUE), Line("folder", "root", 0, 8, 2, 2, FALSE),
   Line("folder", "root", 0, 0, 0, 1, TRUE), Line("folder", "root", 0, 16, 3, 0, TRUE),
   Line("folder", "loop", 0, 16, 3, 2, TRUE)}
MCDefaults == {Line("folder", "root", 0, 16, 2, 2, TRUE)}
=============================================================================
