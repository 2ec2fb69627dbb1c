---------------------------- MODULE LocaleMemory ----------------------------
(***************************************************************************)
(* The language of a request: what the translator detects in a question    *)
(* (types/locale, search.rs), the memory of the last one per session in    *)
(* Redis (session/locale_memory, redis/locale_memory), and the chain by    *)
(* which the suggestion endpoints resolve theirs (extractors/locale).      *)
(* The writes to the memory are spawned: they land late, in any order, or  *)
(* not at all.                                                             *)
(***************************************************************************)
EXTENDS Integers, FiniteSets, TLC

CONSTANTS Tenants,
          SessionIds,   \* session ids clients use
          Usable,       \* those of 1 to 128 bytes
          MemoryTtl,    \* locale_memory.ttl_seconds, in ticks
          Enabled,      \* locale_memory.enabled
          MaxClock      \* bound: ticks of a behaviour

ASSUME LocaleAssumption ==
  Usable \subseteq SessionIds /\ MemoryTtl \in Nat \ {0} /\ Enabled \in BOOLEAN /\ MaxClock \in Nat

VARIABLES clock,
          memory,    \* the keys in Redis: a locale, with the tick and the session it is from
          writes     \* spawned SETs that have not run

localeVars == <<clock, memory, writes>>

Locales == {"en", "zh", "zh-TW", "ja", "ko", "de", "fr", "es"}

\* The tags of a locale, in lower case.
Tags ==
  [en |-> {"en", "en-us", "en-gb"}, zh |-> {"zh", "zh-cn", "zh-hans"}, ja |-> {"ja", "ja-jp"},
   ko |-> {"ko", "ko-kr"}, de |-> {"de", "de-de"}, fr |-> {"fr", "fr-fr"},
   es |-> {"es", "es-es", "es-mx"}]
  @@ ("zh-TW" :> {"zh-tw", "zh_tw", "zh-hant", "zh-hant-tw"})

\* DetectedLocale: the locale, or nothing for an unsupported tag.
from_bcp47(tag) == {l \in Locales : tag \in Tags[l]}

\* resolve_translation: what is searched for, and the language of the answer.
resolve_translation(raw, tr) ==
  IF tr.failed THEN [query |-> raw, locale |-> "en"]
  ELSE [query |-> tr.normalized,
        locale |-> IF from_bcp47(tr.tag) = {} THEN "en" ELSE CHOOSE l \in from_bcp47(tr.tag) : TRUE]

\* Mutation of MemoryKey: the tenant is not part of it.
KeyUntenanted(t, s) == <<"sl", s>>

MemoryKey(t, s) == <<t, s>>

LocaleInit ==
  /\ clock = 0
  /\ memory = [k \in {} |-> {}]
  /\ writes = {}

\* Time passes, and Redis removes what has expired.
Tick ==
  /\ clock < MaxClock
  /\ clock' = clock + 1
  /\ memory' = [k \in {j \in DOMAIN memory : memory[j].at + MemoryTtl > clock'} |-> memory[k]]
  /\ UNCHANGED writes

\* Each search spawns a write of the language it is answered in: what was detected,
\* or English where nothing was or the translation failed.
Spawned(t, s, l) ==
  IF Enabled /\ s \in Usable THEN writes \cup {[tenant |-> t, session |-> s, locale |-> l]} ELSE writes

\* A table with one entry written.
Put(f, x, v) == [y \in DOMAIN f \cup {x} |-> IF y = x THEN v ELSE f[y]]

\* SET EX: each write starts the lifetime of the key anew.
RunWrite(w) ==
  /\ w \in writes
  /\ writes' = writes \ {w}
  /\ memory' = Put(memory, MemoryKey(w.tenant, w.session),
                   [locale |-> w.locale, at |-> clock, of |-> <<w.tenant, w.session>>])
  /\ UNCHANGED clock

\* The command fails, which is only logged, or the process is gone.
DropWrite(w) ==
  /\ w \in writes
  /\ writes' = writes \ {w}
  /\ UNCHANGED <<clock, memory>>

\* A GET: the remembered entry, or nothing; it may fail, which is nothing too.
Lookup(t, s) ==
  IF Enabled /\ s \in Usable /\ MemoryKey(t, s) \in DOMAIN memory
  THEN {{}, {memory[MemoryKey(t, s)]}} ELSE {{}}

\* The first supported tag of Accept-Language, which is ordered by weight.
FirstSupported(accept) ==
  LET good == {i \in DOMAIN accept : from_bcp47(accept[i]) # {}} IN
  IF good = {} THEN {} ELSE from_bcp47(accept[CHOOSE i \in good : \A j \in good : i <= j])

\* X-Session-Id, and ?session_id= only without that header.
Absent == "absent"
SessionOf(ask) == IF ask.header = Absent THEN ask.session ELSE ask.header

\* What resolve may return: ?locale=, the session, the browser, English.
Remembered(found) ==
  {[locale |-> e.locale, at |-> e.at, of |-> e.of, source |-> "session_memory"] : e \in found}
Resolved(locales, source) == {[locale |-> l, source |-> source] : l \in locales}
resolve(t, ask) ==
  IF from_bcp47(ask.locale) # {} THEN Resolved(from_bcp47(ask.locale), "query_param")
  ELSE UNION {IF found # {} THEN Remembered(found)
              ELSE IF FirstSupported(ask.accept) # {}
                   THEN Resolved(FirstSupported(ask.accept), "accept_language")
                   ELSE Resolved({"en"}, "default") : found \in Lookup(t, SessionOf(ask))}
=============================================================================
