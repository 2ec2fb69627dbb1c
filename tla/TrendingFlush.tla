---------------------------- MODULE TrendingFlush ----------------------------
(***************************************************************************)
(* Crowd-sourced trends: every search increments its query in two Redis    *)
(* sorted sets, one of the day and one of the week, whose keys expire;     *)
(* every replica's TrendingFlushWorker scans the keys and overwrites rows  *)
(* of popular_queries with the scores it has read.  Increment and expiry   *)
(* are separate commands, a cycle reads a key first and writes its rows    *)
(* one by one later, and the date of a weekly row is the day of the write. *)
(*                                                                         *)
(* One tenant and one locale: keys and rows of others have other names.    *)
(* Time is counted in days; a key is <<period, window>> where the window   *)
(* is a day or a week.  Queries are those that pass is_gibberish, after    *)
(* normalisation.                                                          *)
(***************************************************************************)
EXTENDS Integers, FiniteSets

CONSTANTS
  Queries,     \* normalised queries
  Searches,    \* concurrent record_query calls of one moment
  Flushers,    \* processes with a flush worker
  MaxDay,      \* bound: days 1 .. MaxDay
  WeekLen,     \* days of a week (7)
  DailyTtl,    \* trending.daily_ttl_secs, in days (2)
  WeeklyTtl,   \* trending.weekly_ttl_secs, in days (14)
  TopLimit,    \* how many entries of a key a cycle reads (1000)
  Threshold,   \* trending.popularity_threshold
  MaxScore,    \* bound: recorded searches of one query in one window
  MaxFaults    \* bound: commands and statements that fail, tasks that are dropped

Days == 1 .. MaxDay
Week(d) == (d - 1) \div WeekLen
Weeks == {Week(d) : d \in Days}
Keys == ({"daily"} \X Days) \cup ({"weekly"} \X Weeks)
RowKeys == {"daily", "weekly"} \X Days \X Queries
Never == MaxDay + DailyTtl + WeeklyTtl + 1

ASSUME TrendingAssumption ==
  /\ {MaxDay, WeekLen, TopLimit, Threshold, MaxScore} \subseteq Nat \ {0}
  /\ DailyTtl \in Nat /\ DailyTtl >= 1
  /\ WeeklyTtl \in Nat /\ WeeklyTtl >= WeekLen
  /\ MaxFaults \in Nat

VARIABLES
  day,       \* today (UTC)
  zset,      \* the sorted sets: zset[k][q] is the score, 0 for no member
  expires,   \* the day a key expires, Never without a TTL
  recorded,  \* increments of a query in a window (not stored by the code)
  spc,       \* a search: "idle", or the command it is about to send
  skey,      \* the day and the query it records
  rows,      \* popular_queries.search_count, 0 without a row
  origin,    \* the key a row was last written from (not stored by the code)
  todo,      \* a flush worker: the keys its scan returned and it has not read yet
  cur,       \* the key whose entries it is writing, or NoKey
  entries,   \* the entries read and not written yet: a partial map to scores
  faults     \* failures so far

redisVars == <<zset, expires, recorded>>
searchVars == <<spc, skey>>
tableVars == <<rows, origin>>
flushVars == <<todo, cur, entries>>
vars == <<day, redisVars, searchVars, tableVars, flushVars, faults>>

NoKey == <<"daily", 0>>
NoSearch == [day |-> 0, query |-> "none"]
Commands == {"daily", "daily_ttl", "weekly", "weekly_ttl"}
NoEntries == [q \in {} |-> 0]
Live(k) == \E q \in Queries : zset[k][q] > 0

-----------------------------------------------------------------------------

Init ==
  /\ day = 1
  /\ zset = [k \in Keys |-> [q \in Queries |-> 0]]
  /\ expires = [k \in Keys |-> Never]
  /\ recorded = [k \in Keys |-> [q \in Queries |-> 0]]
  /\ spc = [s \in Searches |-> "idle"]
  /\ skey = [s \in Searches |-> NoSearch]
  /\ rows = [r \in RowKeys |-> 0]
  /\ origin = [r \in RowKeys |-> NoKey]
  /\ todo = [f \in Flushers |-> {}]
  /\ cur = [f \in Flushers |-> NoKey]
  /\ entries = [f \in Flushers |-> NoEntries]
  /\ faults = 0

\* Midnight.  No command of a search of an earlier day is still under way.
NextDay ==
  /\ day < MaxDay
  /\ \A s \in Searches : spc[s] # "idle" => skey[s].day = day
  /\ day' = day + 1
  /\ UNCHANGED <<redisVars, searchVars, tableVars, flushVars, faults>>

\* Redis deletes a key when its time has come.  A lifetime is at least a day and
\* a search takes seconds: those of the day before are over.
Expire(k) ==
  /\ Live(k)
  /\ \A s \in Searches : spc[s] # "idle" => skey[s].day = day
  /\ expires[k] <= day
  /\ zset' = [zset EXCEPT ![k] = [q \in Queries |-> 0]]
  /\ expires' = [expires EXCEPT ![k] = Never]
  /\ UNCHANGED <<day, recorded, searchVars, tableVars, flushVars, faults>>

\* record_query: both keys are named after the day it starts.
RecordQuery(s, q) ==
  /\ spc[s] = "idle"
  /\ recorded[<<"daily", day>>][q] < MaxScore
  /\ recorded[<<"weekly", Week(day)>>][q] < MaxScore
  /\ spc' = [spc EXCEPT ![s] = "daily"]
  /\ skey' = [skey EXCEPT ![s] = [day |-> day, query |-> q]]
  /\ UNCHANGED <<day, redisVars, tableVars, flushVars, faults>>

KeyOf(s) ==
  IF spc[s] \in {"daily", "daily_ttl"} THEN <<"daily", skey[s].day>>
  ELSE <<"weekly", Week(skey[s].day)>>

\* The command after those of this key; nothing is left of a search that is over.
GoOn(s, l) ==
  /\ spc' = [spc EXCEPT ![s] = l]
  /\ skey' = IF l = "idle" THEN [skey EXCEPT ![s] = NoSearch] ELSE skey
After(s) == IF spc[s] \in {"daily", "daily_ttl"} THEN "weekly" ELSE "idle"

\* Mutation of TtlOf: the weekly keys get the lifetime of the daily ones.
TtlOfDay(k) == DailyTtl

TtlOf(k) == IF k[1] = "daily" THEN DailyTtl ELSE WeeklyTtl

\* increment_trending, first command: ZINCRBY.
Increment(s) ==
  LET k == KeyOf(s)
      q == skey[s].query
  IN /\ spc[s] \in {"daily", "weekly"}
     /\ zset' = [zset EXCEPT ![k][q] = @ + 1]
     /\ recorded' = [recorded EXCEPT ![k][q] = @ + 1]
     /\ spc' = [spc EXCEPT ![s] = IF @ = "daily" THEN "daily_ttl" ELSE "weekly_ttl"]
     /\ UNCHANGED <<day, expires, skey, tableVars, flushVars, faults>>

\* Second and third command: TTL, then EXPIRE for a key that has none.
SetTtl(s) ==
  LET k == KeyOf(s)
  IN /\ spc[s] \in {"daily_ttl", "weekly_ttl"}
     /\ expires' = [expires EXCEPT ![k] =
                      IF @ = Never /\ Live(k) THEN day + TtlOf(k) ELSE @]
     /\ GoOn(s, After(s))
     /\ UNCHANGED <<day, zset, recorded, tableVars, flushVars, faults>>

Fault == faults < MaxFaults /\ faults' = faults + 1

\* A command fails: the error of the daily key is ignored and the weekly key is
\* tried; or the task is dropped with its process.
RecordError(s) ==
  /\ Fault
  /\ spc[s] # "idle"
  /\ GoOn(s, After(s)) \/ GoOn(s, "idle")
  /\ UNCHANGED <<day, redisVars, tableVars, flushVars>>

\* flush_once: SCAN trending:* ...
Scan(f) ==
  /\ todo[f] = {} /\ cur[f] = NoKey
  /\ todo' = [todo EXCEPT ![f] = {k \in Keys : Live(k)}]
  /\ UNCHANGED <<day, redisVars, searchVars, tableVars, cur, entries, faults>>

Members(k) == {q \in Queries : zset[k][q] > 0}

\* Mutation of Ahead: the range is read in ascending order.
AheadAscending(k, q, p) == zset[k][q] <= zset[k][p]

\* Of two members the one with the higher score comes first; of two with one
\* score either may, as their names decide.
Ahead(k, q, p) == zset[k][q] >= zset[k][p]

\* get_top_trending: ZREVRANGE from the first to the TopLimit-th member.
Tops(k) ==
  {T \in SUBSET Members(k) :
     /\ Cardinality(T) <= TopLimit
     /\ Cardinality(T) < TopLimit => T = Members(k)
     /\ \A q \in T, p \in Members(k) \ T : Ahead(k, q, p)}

Popular(k, T) == {q \in T : zset[k][q] >= Threshold}

\* ... read the first entries of the next key, and leave out the unpopular ones ...
ReadKey(f, k) ==
  /\ cur[f] = NoKey
  /\ k \in todo[f]
  /\ todo' = [todo EXCEPT ![f] = @ \ {k}]
  /\ \E T \in Tops(k) :
       /\ cur' = [cur EXCEPT ![f] = IF Popular(k, T) = {} THEN NoKey ELSE k]
       /\ entries' = [entries EXCEPT ![f] = [q \in Popular(k, T) |-> zset[k][q]]]
  /\ UNCHANGED <<day, redisVars, searchVars, tableVars, faults>>

\* The date of a row: the key's day; the week does not parse as a date, and then
\* it is the day of the write.
RowDate(k) == IF k[1] = "daily" THEN k[2] ELSE day

\* Mutation of Stored: the score is added to the row.
StoredSum(old, score) == old + score

Stored(old, score) == score

\* ... and upsert them one by one, those with the highest scores first.
Upsert(f) ==
  \E q \in DOMAIN entries[f] :
    LET r == <<cur[f][1], RowDate(cur[f]), q>>
        left == DOMAIN entries[f] \ {q}
    IN /\ \A p \in left : entries[f][p] <= entries[f][q]
       /\ rows' = [rows EXCEPT ![r] = Stored(@, entries[f][q])]
       /\ origin' = [origin EXCEPT ![r] = cur[f]]
       /\ entries' = [entries EXCEPT ![f] = [p \in left |-> @[p]]]
       /\ cur' = [cur EXCEPT ![f] = IF left = {} THEN NoKey ELSE @]
       /\ UNCHANGED <<day, redisVars, searchVars, todo, faults>>

\* The first error ends the cycle: the rest waits for the next one.
FlushError(f) ==
  /\ Fault
  /\ todo' = [todo EXCEPT ![f] = {}]
  /\ cur' = [cur EXCEPT ![f] = NoKey]
  /\ entries' = [entries EXCEPT ![f] = NoEntries]
  /\ UNCHANGED <<day, redisVars, searchVars, tableVars>>

Search(s) == Increment(s) \/ SetTtl(s)
Cycle(f) == Scan(f) \/ (\E k \in Keys : ReadKey(f, k)) \/ Upsert(f)

Next ==
  \/ NextDay
  \/ \E k \in Keys : Expire(k)
  \/ \E s \in Searches : (\E q \in Queries : RecordQuery(s, q)) \/ Search(s) \/ RecordError(s)
  \/ \E f \in Flushers : Cycle(f) \/ FlushError(f)

Spec == Init /\ [][Next]_vars

\* The ticker fires for ever and every command of a cycle returns.
Fairness == \A f \in Flushers : WF_vars(Cycle(f))
FairSpec == Spec /\ Fairness

-----------------------------------------------------------------------------

\* Overwriting never counts a search twice: however often and by however many
\* workers a key is flushed, a row shows no more searches than its window saw,
\* and no row shows a query below the threshold.
RowsBacked ==
  \A r \in RowKeys : rows[r] > 0 =>
    rows[r] >= Threshold /\ rows[r] <= recorded[origin[r]][r[3]]

\* A window's key outlives the window: while a key expires no search counts in
\* it any more, so a score never starts over and overwrites a higher one.
WindowKeptWhole ==
  \A k \in Keys : \A q \in Queries :
    zset[k][q] \in {0, recorded[k][q]} /\
    ((k = <<"daily", day>> \/ k = <<"weekly", Week(day)>>) => zset[k][q] = recorded[k][q])

\* Postgres catches up with a key that stays: the daily row of a query gets its
\* final score and keeps it, whichever worker writes last, if its rank is among
\* those that are read.  (A query that falls behind them keeps the row it had.)
Ranked(k, q) == Cardinality({p \in Queries \ {q} : zset[k][p] >= zset[k][q]}) < TopLimit
DailyMirrored ==
  \A d \in Days, q \in Queries, n \in Threshold .. MaxScore :
    <>[](zset[<<"daily", d>>][q] = n /\ Ranked(<<"daily", d>>, q))
      => <>[](rows[<<"daily", d, q>>] = n)

=============================================================================
