------------------------- MODULE TrendingFlushProofs -------------------------
(***************************************************************************)
(* Theorems about TrendingFlush, for any number of queries, searches,      *)
(* workers and days, and any lifetimes the assumption allows.              *)
(***************************************************************************)
EXTENDS TrendingFlush, TLAPS

-----------------------------------------------------------------------------
(***************************************************************************)
(* Types.                                                                  *)
(***************************************************************************)

TypeOK ==
  /\ day \in Days
  /\ zset \in [Keys -> [Queries -> Nat]]
  /\ expires \in [Keys -> Nat]
  /\ recorded \in [Keys -> [Queries -> Nat]]
  /\ spc \in [Searches -> Commands \cup {"idle"}]
  /\ skey \in [Searches -> [day : Days, query : Queries] \cup {NoSearch}]
  /\ \A s \in Searches : spc[s] # "idle" => skey[s] \in [day : Days, query : Queries]
  /\ rows \in [RowKeys -> Nat]
  /\ origin \in [RowKeys -> Keys \cup {NoKey}]
  /\ todo \in [Flushers -> SUBSET Keys]
  /\ cur \in [Flushers -> Keys \cup {NoKey}]
  /\ DOMAIN entries = Flushers

\* What a worker is writing: scores it has read, of a key that had at least as
\* many searches, none below the threshold.
ReadScores(f) ==
  /\ DOMAIN entries[f] \subseteq Queries
  /\ \A q \in DOMAIN entries[f] :
       /\ cur[f] \in Keys
       /\ entries[f][q] \in Nat
       /\ Threshold <= entries[f][q] /\ entries[f][q] <= recorded[cur[f]][q]

\* A key belongs to a day, or to the week of one.
LEMMA KeyOfDay ==
  ASSUME NEW d \in Days
  PROVE  <<"daily", d>> \in Keys /\ <<"weekly", Week(d)>> \in Keys
BY DEF Keys, Weeks

\* The key a search is about to send a command for.
LEMMA KeyOfSearch ==
  ASSUME TypeOK, NEW s \in Searches, spc[s] # "idle"
  PROVE  /\ KeyOf(s) \in Keys
         /\ KeyOf(s) \in {<<"daily", skey[s].day>>, <<"weekly", Week(skey[s].day)>>}
<1>1. skey[s].day \in Days
  BY DEF TypeOK
<1> QED
  BY <1>1, KeyOfDay DEF KeyOf

LEMMA Constants ==
  /\ MaxDay \in Nat \ {0} /\ WeekLen \in Nat \ {0} /\ Threshold \in Nat \ {0}
  /\ MaxScore \in Nat \ {0}
  /\ DailyTtl \in Nat /\ DailyTtl >= 1 /\ WeeklyTtl \in Nat /\ WeeklyTtl >= WeekLen
  /\ Never \in Nat /\ \A d \in Days : d \in Nat /\ d < Never
BY TrendingAssumption DEF Never, Days

\* The row a score is written to, and the step that writes it.
RowOf(f, q) == <<cur[f][1], RowDate(cur[f]), q>>

UpsertOf(f, q) ==
  LET left == DOMAIN entries[f] \ {q}
  IN /\ rows' = [rows EXCEPT ![RowOf(f, q)] = entries[f][q]]
     /\ origin' = [origin EXCEPT ![RowOf(f, q)] = cur[f]]
     /\ entries' = [entries EXCEPT ![f] = [p \in left |-> @[p]]]
     /\ cur' = [cur EXCEPT ![f] = IF left = {} THEN NoKey ELSE @]
     /\ UNCHANGED <<day, redisVars, searchVars, todo, faults>>

LEMMA UpsertsOne ==
  ASSUME NEW f \in Flushers, Upsert(f)
  PROVE  \E q \in DOMAIN entries[f] : UpsertOf(f, q)
BY DEF Upsert, UpsertOf, RowOf, Stored

LEMMA RowWritten ==
  ASSUME TypeOK, NEW f \in Flushers, ReadScores(f), NEW q \in DOMAIN entries[f]
  PROVE  /\ RowOf(f, q) \in RowKeys /\ RowOf(f, q)[3] = q /\ q \in Queries
         /\ entries[f][q] \in Nat /\ cur[f] \in Keys
         /\ Threshold <= entries[f][q] /\ entries[f][q] <= recorded[cur[f]][q]
<1>1. /\ q \in Queries /\ cur[f] \in Keys /\ entries[f][q] \in Nat
      /\ Threshold <= entries[f][q] /\ entries[f][q] <= recorded[cur[f]][q]
  BY DEF ReadScores
<1>2. /\ cur[f][1] \in {"daily", "weekly"}
      /\ cur[f][1] = "daily" => cur[f][2] \in Days
  BY <1>1 DEF Keys
<1>3. RowDate(cur[f]) \in Days
  BY <1>2 DEF RowDate, TypeOK
<1> QED
  BY <1>1, <1>2, <1>3 DEF RowOf, RowKeys

LEMMA InitType == Init => TypeOK
<1> SUFFICES ASSUME Init PROVE TypeOK
  OBVIOUS
<1>1. 1 \in Days /\ Never \in Nat
  BY Constants DEF Days
<1> QED
  BY <1>1 DEF Init, TypeOK

LEMMA NextType ==
  ASSUME TypeOK, \A f \in Flushers : ReadScores(f), [Next]_vars
  PROVE  TypeOK'
<1> USE DEF redisVars, searchVars, tableVars, flushVars
<1>1. CASE NextDay
  <2>1. day' \in Days
    BY <1>1, Constants DEF NextDay, TypeOK, Days
  <2> QED
    BY <1>1, <2>1 DEF NextDay, TypeOK
<1>2. ASSUME NEW k \in Keys, Expire(k) PROVE TypeOK'
  <2>1. /\ zset' \in [Keys -> [Queries -> Nat]] /\ expires' \in [Keys -> Nat]
    BY <1>2, Constants DEF Expire, TypeOK
  <2> QED
    BY <1>2, <2>1 DEF Expire, TypeOK
<1>3. ASSUME NEW s \in Searches, NEW q \in Queries, RecordQuery(s, q) PROVE TypeOK'
  <2>1. [day |-> day, query |-> q] \in [day : Days, query : Queries]
    BY DEF TypeOK
  <2>2. /\ spc' = [spc EXCEPT ![s] = "daily"]
        /\ skey' = [skey EXCEPT ![s] = [day |-> day, query |-> q]]
    BY <1>3 DEF RecordQuery
  <2>3. /\ spc' \in [Searches -> Commands \cup {"idle"}]
        /\ skey' \in [Searches -> [day : Days, query : Queries] \cup {NoSearch}]
        /\ \A t \in Searches : spc'[t] # "idle" => skey'[t] \in [day : Days, query : Queries]
    BY <2>1, <2>2 DEF TypeOK, Commands
  <2> QED
    BY <1>3, <2>3 DEF RecordQuery, TypeOK
<1>4. ASSUME NEW s \in Searches, Increment(s) PROVE TypeOK'
  <2>1. KeyOf(s) \in Keys /\ skey[s].query \in Queries
    BY <1>4, KeyOfSearch DEF Increment, TypeOK
  <2>2. /\ zset' \in [Keys -> [Queries -> Nat]] /\ recorded' \in [Keys -> [Queries -> Nat]]
    BY <1>4, <2>1 DEF Increment, TypeOK
  <2>3. /\ spc' \in [Searches -> Commands \cup {"idle"}]
        /\ \A t \in Searches : spc'[t] # "idle" => skey[t] \in [day : Days, query : Queries]
    BY <1>4 DEF Increment, TypeOK, Commands
  <2> QED
    BY <1>4, <2>2, <2>3 DEF Increment, TypeOK
<1>5. ASSUME NEW s \in Searches, NEW l \in Commands \cup {"idle"}, spc[s] # "idle", GoOn(s, l)
      PROVE  /\ spc' \in [Searches -> Commands \cup {"idle"}]
             /\ skey' \in [Searches -> [day : Days, query : Queries] \cup {NoSearch}]
             /\ \A t \in Searches : spc'[t] # "idle" => skey'[t] \in [day : Days, query : Queries]
  BY <1>5 DEF GoOn, TypeOK, Commands
<1>6. ASSUME NEW s \in Searches, SetTtl(s) PROVE TypeOK'
  <2>1. KeyOf(s) \in Keys /\ spc[s] # "idle"
    BY <1>6, KeyOfSearch DEF SetTtl
  <2>2. /\ spc' \in [Searches -> Commands \cup {"idle"}]
        /\ skey' \in [Searches -> [day : Days, query : Queries] \cup {NoSearch}]
        /\ \A t \in Searches : spc'[t] # "idle" => skey'[t] \in [day : Days, query : Queries]
    BY <1>5, <1>6, <2>1 DEF SetTtl, After, Commands
  <2>3. expires' \in [Keys -> Nat]
    <3>1. day + TtlOf(KeyOf(s)) \in Nat
      BY Constants DEF TtlOf, TypeOK
    <3>2. expires' = [expires EXCEPT ![KeyOf(s)] =
                        IF @ = Never /\ Live(KeyOf(s)) THEN day + TtlOf(KeyOf(s)) ELSE @]
      BY <1>6 DEF SetTtl
    <3> QED
      BY <2>1, <3>1, <3>2 DEF TypeOK
  <2> QED
    BY <1>6, <2>2, <2>3 DEF SetTtl, TypeOK
<1>7. ASSUME NEW s \in Searches, RecordError(s) PROVE TypeOK'
  <2>1. GoOn(s, After(s)) \/ GoOn(s, "idle")
    BY <1>7 DEF RecordError
  <2>2. /\ spc' \in [Searches -> Commands \cup {"idle"}]
        /\ skey' \in [Searches -> [day : Days, query : Queries] \cup {NoSearch}]
        /\ \A t \in Searches : spc'[t] # "idle" => skey'[t] \in [day : Days, query : Queries]
    BY <1>5, <1>7, <2>1 DEF RecordError, After, Commands
  <2> QED
    BY <1>7, <2>2 DEF RecordError, TypeOK
<1>8. ASSUME NEW f \in Flushers, Scan(f) PROVE TypeOK'
  BY <1>8 DEF Scan, TypeOK
<1>9. ASSUME NEW f \in Flushers, NEW k \in Keys, ReadKey(f, k) PROVE TypeOK'
  BY <1>9 DEF ReadKey, TypeOK
<1>10. ASSUME NEW f \in Flushers, FlushError(f) PROVE TypeOK'
  BY <1>10 DEF FlushError, TypeOK
<1>11. ASSUME NEW f \in Flushers, Upsert(f) PROVE TypeOK'
  <2>1. PICK q \in DOMAIN entries[f] : UpsertOf(f, q)
    BY <1>11, UpsertsOne
  <2>2. RowOf(f, q) \in RowKeys /\ entries[f][q] \in Nat /\ cur[f] \in Keys
    BY RowWritten
  <2>3. /\ rows' \in [RowKeys -> Nat] /\ origin' \in [RowKeys -> Keys \cup {NoKey}]
        /\ cur' \in [Flushers -> Keys \cup {NoKey}] /\ DOMAIN entries' = Flushers
    BY <2>1, <2>2 DEF UpsertOf, TypeOK
  <2> QED
    BY <2>1, <2>3 DEF UpsertOf, TypeOK
<1>12. CASE UNCHANGED vars
  BY <1>12 DEF vars, TypeOK
<1> QED
  BY <1>1, <1>2, <1>3, <1>4, <1>6, <1>7, <1>8, <1>9, <1>10, <1>11, <1>12 DEF Next, Search, Cycle

-----------------------------------------------------------------------------
(***************************************************************************)
(* The windows.                                                            *)
(***************************************************************************)

\* The days of a key's window.
InWindow(k, d) == k = <<"daily", d>> \/ k = <<"weekly", Week(d)>>

\* A day whose searches may still be counted.
Counting(d) == day <= d \/ \E s \in Searches : spc[s] # "idle" /\ skey[s].day = d

\* A search is of today or of yesterday; a key lives longer than its window; and
\* as long as searches count in the window it has every one.
WindowInv ==
  /\ \A s \in Searches : spc[s] # "idle" => skey[s].day <= day
  /\ \A k \in Keys, d \in Days : InWindow(k, d) => d < expires[k]
  /\ \A k \in Keys, d \in Days : InWindow(k, d) /\ Counting(d) => zset[k] = recorded[k]
  /\ \A k \in Keys, q \in Queries : zset[k][q] \in {0, recorded[k][q]}

\* Days of one week are less than a week apart.
LEMMA SameWeek ==
  ASSUME NEW d \in Days, NEW e \in Days, Week(d) = Week(e)
  PROVE  d < e + WeekLen
<1>1. ASSUME NEW m \in Nat, NEW n \in Nat, NEW w \in Nat \ {0}, m \div w = n \div w
      PROVE  m < n + w
  <2>1. /\ m = w * (m \div w) + (m % w) /\ m % w \in 0 .. w - 1
        /\ n = w * (n \div w) + (n % w) /\ n % w \in 0 .. w - 1
    OBVIOUS
  <2> QED
    BY <1>1, <2>1
<1>2. d - 1 \in Nat /\ e - 1 \in Nat /\ d \in Nat /\ e \in Nat
  BY DEF Days
<1>3. d - 1 < (e - 1) + WeekLen
  BY <1>1, <1>2, Constants DEF Week
<1> QED
  BY <1>2, <1>3, Constants

LEMMA NextWindow ==
  ASSUME TypeOK, TypeOK', WindowInv, [Next]_vars
  PROVE  WindowInv'
<1> USE DEF redisVars, searchVars, tableVars, flushVars
<1>d. day \in Nat /\ day' \in Nat /\ \A d \in Days : d \in Nat /\ d < Never
  BY Constants DEF TypeOK
<1>k. ASSUME NEW s \in Searches, spc[s] # "idle"
      PROVE  /\ KeyOf(s) \in Keys /\ skey[s].day \in Days /\ skey[s].query \in Queries
             /\ InWindow(KeyOf(s), skey[s].day) /\ Counting(skey[s].day)
             /\ zset[KeyOf(s)] = recorded[KeyOf(s)]
  BY <1>k, KeyOfSearch DEF InWindow, Counting, WindowInv, TypeOK
\* A step that counts nothing and after which no more searches are under way.
<1>c. ASSUME UNCHANGED <<zset, expires, recorded>>, day <= day',
             \A s \in Searches : spc'[s] # "idle" =>
               (spc[s] # "idle" /\ skey'[s] = skey[s]) \/ skey'[s].day = day
      PROVE  WindowInv'
  <2>1. \A d \in Days : Counting(d)' => Counting(d)
    BY <1>c, <1>d DEF Counting
  <2>2. \A s \in Searches : spc'[s] # "idle" => skey'[s].day <= day'
    <3> SUFFICES ASSUME NEW s \in Searches, spc'[s] # "idle" PROVE skey'[s].day <= day'
      OBVIOUS
    <3>1. skey'[s].day <= day /\ skey'[s].day \in Days
      BY <1>c, <1>d DEF WindowInv, TypeOK
    <3> QED
      BY <1>c, <1>d, <3>1
  <2> QED
    BY <1>c, <2>1, <2>2 DEF WindowInv, InWindow
<1>1. CASE NextDay
  <2>1. day' = day + 1 /\ UNCHANGED <<zset, expires, recorded, spc, skey>>
    BY <1>1 DEF NextDay
  <2> QED
    BY <1>c, <1>d, <2>1
<1>2. ASSUME NEW k \in Keys, Expire(k) PROVE WindowInv'
  <2>1. /\ day' = day /\ recorded' = recorded /\ spc' = spc /\ skey' = skey /\ expires[k] <= day
        /\ \A s \in Searches : spc[s] # "idle" => skey[s].day = day
        /\ \A j \in Keys : zset'[j] = IF j = k THEN [q \in Queries |-> 0] ELSE zset[j]
        /\ \A j \in Keys : expires'[j] = IF j = k THEN Never ELSE expires[j]
        /\ expires[k] \in Nat
    BY <1>2 DEF Expire, TypeOK
  <2>2. \A d \in Days : Counting(d)' => day <= d
    BY <1>d, <2>1 DEF Counting
  <2>3. \A d \in Days : InWindow(k, d) => ~(day <= d)
    BY <1>d, <2>1 DEF WindowInv
  <2>4. \A j \in Keys, d \in Days : InWindow(j, d) => d < expires'[j]
    BY <1>d, <2>1 DEF WindowInv
  <2>5. \A j \in Keys, d \in Days : InWindow(j, d) /\ Counting(d)' => zset'[j] = recorded[j]
    BY <2>1, <2>2, <2>3 DEF WindowInv, Counting
  <2>6. \A j \in Keys, q \in Queries : zset'[j][q] \in {0, recorded[j][q]}
    BY <2>1 DEF WindowInv
  <2> QED
    BY <2>1, <2>4, <2>5, <2>6 DEF WindowInv, InWindow
<1>3. ASSUME NEW s \in Searches, NEW q \in Queries, RecordQuery(s, q) PROVE WindowInv'
  <2>1. /\ \A t \in Searches \ {s} : spc'[t] = spc[t] /\ skey'[t] = skey[t]
        /\ skey'[s].day = day /\ day' = day
        /\ UNCHANGED <<zset, expires, recorded>>
    BY <1>3 DEF RecordQuery, TypeOK
  <2> QED
    BY <1>c, <1>d, <2>1
<1>4. ASSUME NEW s \in Searches, Increment(s) PROVE WindowInv'
  <2> DEFINE k == KeyOf(s)
             asked == skey[s].query
  <2>1. /\ k \in Keys /\ asked \in Queries /\ zset[k] = recorded[k]
        /\ zset' = [zset EXCEPT ![k][asked] = @ + 1]
        /\ recorded' = [recorded EXCEPT ![k][asked] = @ + 1]
        /\ UNCHANGED <<day, expires, skey>> /\ spc[s] # "idle"
        /\ \A t \in Searches : spc'[t] # "idle" => spc[t] # "idle"
    <3>1. spc[s] # "idle"
      BY <1>4 DEF Increment
    <3>2. \A t \in Searches : spc'[t] # "idle" => spc[t] # "idle"
      BY <1>4, <3>1 DEF Increment, TypeOK
    <3> QED
      BY <1>4, <1>k, <3>1, <3>2 DEF Increment
  <2> HIDE DEF k, asked
  <2>2. /\ \A j \in Keys \ {k} : zset'[j] = zset[j] /\ recorded'[j] = recorded[j]
        /\ zset'[k] = recorded'[k]
    BY <2>1 DEF TypeOK
  <2>3. \A d \in Days : Counting(d)' => Counting(d)
    BY <2>1 DEF Counting
  <2>4. \A j \in Keys, q \in Queries : zset'[j][q] \in {0, recorded'[j][q]}
    BY <2>2 DEF WindowInv
  <2> QED
    BY <2>1, <2>2, <2>3, <2>4 DEF WindowInv, InWindow
<1>5. ASSUME NEW s \in Searches, SetTtl(s) PROVE WindowInv'
  <2> DEFINE k == KeyOf(s)
             today == skey[s].day
  <2>1. /\ k \in Keys /\ today \in Days /\ today <= day /\ spc[s] # "idle"
        /\ k \in {<<"daily", today>>, <<"weekly", Week(today)>>}
        /\ UNCHANGED <<day, zset, recorded>>
        /\ \A j \in Keys : expires'[j] = expires[j] \/ (j = k /\ expires'[j] = day + TtlOf(k))
        /\ \A t \in Searches : spc'[t] # "idle" => spc[t] # "idle" /\ skey'[t] = skey[t]
    <3>1. spc[s] # "idle"
      BY <1>5 DEF SetTtl
    <3>2. \A t \in Searches : spc'[t] # "idle" => spc[t] # "idle" /\ skey'[t] = skey[t]
      BY <1>5, <3>1 DEF SetTtl, GoOn, After, TypeOK
    <3>3. /\ k \in Keys /\ today \in Days /\ today <= day
          /\ k \in {<<"daily", today>>, <<"weekly", Week(today)>>}
      BY <1>k, <3>1, KeyOfSearch DEF WindowInv
    <3>4. \A j \in Keys : expires'[j] = expires[j] \/ (j = k /\ expires'[j] = day + TtlOf(k))
      <4>1. expires' = [expires EXCEPT ![k] = IF @ = Never /\ Live(k) THEN day + TtlOf(k) ELSE @]
        BY <1>5 DEF SetTtl
      <4> HIDE DEF k
      <4> QED
        BY <3>3, <4>1 DEF TypeOK
    <3> QED
      BY <1>5, <3>1, <3>2, <3>3, <3>4 DEF SetTtl
  <2> HIDE DEF k, today
  <2>2. \A d \in Days : InWindow(k, d) => d < day + TtlOf(k)
    <3> SUFFICES ASSUME NEW d \in Days, InWindow(k, d) PROVE d < day + TtlOf(k)
      OBVIOUS
    <3>1. CASE k[1] = "daily"
      <4>1. d = today /\ TtlOf(k) = DailyTtl
        BY <2>1, <3>1 DEF InWindow, TtlOf
      <4> QED
        BY <1>d, <2>1, <4>1, Constants
    <3>2. CASE k[1] = "weekly"
      <4>1. Week(d) = Week(today) /\ TtlOf(k) = WeeklyTtl
        BY <2>1, <3>2 DEF InWindow, TtlOf
      <4>2. d < today + WeekLen
        BY <2>1, <4>1, SameWeek
      <4> QED
        BY <1>d, <2>1, <4>1, <4>2, Constants
    <3> QED
      BY <2>1, <3>1, <3>2
  <2>3. \A j \in Keys, d \in Days : InWindow(j, d) => d < expires'[j]
    BY <2>1, <2>2 DEF WindowInv
  <2>4. \A d \in Days : Counting(d)' => Counting(d)
    BY <2>1 DEF Counting
  <2> QED
    BY <2>1, <2>3, <2>4 DEF WindowInv, InWindow
<1>6. ASSUME NEW s \in Searches, RecordError(s) PROVE WindowInv'
  <2>1. /\ spc[s] # "idle" /\ UNCHANGED <<day, zset, expires, recorded>>
        /\ GoOn(s, After(s)) \/ GoOn(s, "idle")
    BY <1>6 DEF RecordError
  <2>2. \A t \in Searches : spc'[t] # "idle" => spc[t] # "idle" /\ skey'[t] = skey[t]
    BY <2>1 DEF GoOn, After, TypeOK
  <2> QED
    BY <1>c, <1>d, <2>1, <2>2
<1>7. CASE UNCHANGED <<day, zset, expires, recorded, spc, skey>>
  BY <1>7, <1>c, <1>d
<1> QED
  BY <1>1, <1>2, <1>3, <1>4, <1>5, <1>6, <1>7
     DEF Next, Search, Cycle, Scan, ReadKey, Upsert, FlushError, vars

-----------------------------------------------------------------------------
(***************************************************************************)
(* The rows.                                                               *)
(***************************************************************************)

BackedInv ==
  /\ RowsBacked
  /\ \A r \in RowKeys : rows[r] > 0 => origin[r] \in Keys
  /\ \A f \in Flushers : ReadScores(f)

\* No search is ever uncounted.
LEMMA RecordedGrows ==
  ASSUME TypeOK, [Next]_vars
  PROVE  \A k \in Keys, q \in Queries : recorded[k][q] <= recorded'[k][q]
<1> USE DEF redisVars, searchVars, tableVars, flushVars
<1>1. ASSUME recorded' = recorded
      PROVE  \A k \in Keys, q \in Queries : recorded[k][q] <= recorded'[k][q]
  BY <1>1 DEF TypeOK
<1>2. ASSUME NEW s \in Searches, Increment(s)
      PROVE  \A k \in Keys, q \in Queries : recorded[k][q] <= recorded'[k][q]
  <2>1. recorded' = [recorded EXCEPT ![KeyOf(s)][skey[s].query] = @ + 1]
    BY <1>2 DEF Increment
  <2>2. KeyOf(s) \in Keys /\ skey[s].query \in Queries
    BY <1>2, KeyOfSearch DEF Increment, TypeOK
  <2> QED
    BY <2>1, <2>2 DEF TypeOK
<1> QED
  BY <1>1, <1>2
     DEF Next, Search, Cycle, NextDay, Expire, RecordQuery, SetTtl, RecordError, Scan, ReadKey,
         Upsert, FlushError, vars

\* A score is never more than its window saw.
LEMMA ScoreRecorded ==
  ASSUME TypeOK, WindowInv, NEW k \in Keys, NEW q \in Queries
  PROVE  zset[k][q] \in Nat /\ recorded[k][q] \in Nat /\ zset[k][q] <= recorded[k][q]
<1>1. zset[k][q] \in {0, recorded[k][q]}
  BY DEF WindowInv
<1> QED
  BY <1>1 DEF TypeOK

LEMMA NextBacked ==
  ASSUME TypeOK, TypeOK', WindowInv, BackedInv, [Next]_vars
  PROVE  BackedInv'
<1> USE DEF redisVars, searchVars, tableVars, flushVars
<1>t. Threshold \in Nat \ {0}
  BY Constants
\* Scores that were read stay backed, and so do rows that were written.
<1>1. ASSUME NEW f \in Flushers,
             \/ entries'[f] = entries[f] /\ cur'[f] = cur[f]
             \/ DOMAIN entries'[f] = {}
      PROVE  ReadScores(f)'
  <2>1. CASE DOMAIN entries'[f] = {}
    BY <2>1 DEF ReadScores
  <2>2. CASE entries'[f] = entries[f] /\ cur'[f] = cur[f]
    <3> SUFFICES ASSUME NEW q \in DOMAIN entries[f]
                 PROVE  entries[f][q] <= recorded'[cur[f]][q]
      BY <2>2 DEF BackedInv, ReadScores
    <3>1. /\ q \in Queries /\ cur[f] \in Keys /\ entries[f][q] \in Nat
          /\ entries[f][q] <= recorded[cur[f]][q]
      BY DEF BackedInv, ReadScores
    <3>2. recorded[cur[f]][q] <= recorded'[cur[f]][q]
      BY <3>1, RecordedGrows
    <3>3. recorded[cur[f]][q] \in Nat /\ recorded'[cur[f]][q] \in Nat
      BY <3>1 DEF TypeOK
    <3> QED
      BY <3>1, <3>2, <3>3
  <2> QED
    BY <1>1, <2>1, <2>2
<1>2. ASSUME NEW r \in RowKeys, rows'[r] = rows[r], origin'[r] = origin[r], rows'[r] > 0
      PROVE  /\ rows'[r] >= Threshold /\ rows'[r] <= recorded'[origin'[r]][r[3]]
             /\ origin'[r] \in Keys
  <2>1. /\ r[3] \in Queries /\ rows[r] \in Nat /\ rows[r] >= Threshold
        /\ rows[r] <= recorded[origin[r]][r[3]] /\ origin[r] \in Keys
    BY <1>2 DEF BackedInv, RowsBacked, RowKeys, TypeOK
  <2>2. recorded[origin[r]][r[3]] <= recorded'[origin[r]][r[3]]
    BY <2>1, RecordedGrows
  <2>3. recorded[origin[r]][r[3]] \in Nat /\ recorded'[origin[r]][r[3]] \in Nat
    BY <2>1 DEF TypeOK
  <2> QED
    BY <1>2, <2>1, <2>2, <2>3
<1>3. CASE /\ UNCHANGED <<rows, origin>>
           /\ \A f \in Flushers : ReadScores(f)'
  BY <1>2, <1>3 DEF BackedInv, RowsBacked
<1>4. CASE UNCHANGED <<rows, origin, entries, cur>>
  BY <1>1, <1>3, <1>4
<1>5. ASSUME NEW f \in Flushers, NEW k \in Keys, ReadKey(f, k) PROVE BackedInv'
  <2>1. PICK T \in Tops(k) :
          /\ UNCHANGED <<rows, origin, recorded>>
          /\ entries' = [entries EXCEPT ![f] = [q \in Popular(k, T) |-> zset[k][q]]]
          /\ cur' = [cur EXCEPT ![f] = IF Popular(k, T) = {} THEN NoKey ELSE k]
    BY <1>5 DEF ReadKey
  <2>2. ReadScores(f)'
    <3> SUFFICES ASSUME NEW q \in Popular(k, T)
                 PROVE  /\ q \in Queries
                        /\ cur'[f] = k /\ entries'[f][q] = zset[k][q] /\ zset[k][q] \in Nat
                        /\ Threshold <= zset[k][q] /\ zset[k][q] <= recorded[k][q]
      BY <2>1 DEF ReadScores, TypeOK
    <3>1. q \in Queries /\ zset[k][q] >= Threshold
      BY DEF Popular, Tops, Members
    <3>2. zset[k][q] \in Nat /\ zset[k][q] <= recorded[k][q]
      BY <3>1, ScoreRecorded
    <3>3. cur'[f] = k /\ entries'[f][q] = zset[k][q]
      BY <2>1 DEF TypeOK
    <3> QED
      BY <1>t, <3>1, <3>2, <3>3
  <2>3. \A g \in Flushers \ {f} : entries'[g] = entries[g] /\ cur'[g] = cur[g]
    BY <2>1 DEF TypeOK
  <2> QED
    BY <1>1, <1>3, <2>1, <2>2, <2>3
<1>6. ASSUME NEW f \in Flushers, Upsert(f) PROVE BackedInv'
  <2>1. PICK q \in DOMAIN entries[f] : UpsertOf(f, q)
    BY <1>6, UpsertsOne
  <2> DEFINE row == RowOf(f, q)
             left == DOMAIN entries[f] \ {q}
  <2>2. /\ row \in RowKeys /\ row[3] = q /\ q \in Queries
        /\ entries[f][q] \in Nat /\ cur[f] \in Keys
        /\ Threshold <= entries[f][q] /\ entries[f][q] <= recorded[cur[f]][q]
    BY RowWritten DEF BackedInv
  <2>3. /\ recorded' = recorded
        /\ rows' = [rows EXCEPT ![row] = entries[f][q]]
        /\ origin' = [origin EXCEPT ![row] = cur[f]]
        /\ entries' = [entries EXCEPT ![f] = [p \in left |-> @[p]]]
        /\ cur' = [cur EXCEPT ![f] = IF left = {} THEN NoKey ELSE @]
    BY <2>1 DEF UpsertOf
  <2> HIDE DEF row
  <2>4. ReadScores(f)'
    <3>1. /\ DOMAIN entries'[f] = left
          /\ \A p \in left : entries'[f][p] = entries[f][p] /\ cur'[f] = cur[f]
      BY <2>3 DEF TypeOK
    <3> QED
      BY <2>3, <3>1 DEF BackedInv, ReadScores
  <2>5. \A g \in Flushers \ {f} : entries'[g] = entries[g] /\ cur'[g] = cur[g]
    BY <2>3 DEF TypeOK
  <2>6. ASSUME NEW r \in RowKeys, rows'[r] > 0
        PROVE  /\ rows'[r] >= Threshold /\ rows'[r] <= recorded'[origin'[r]][r[3]]
               /\ origin'[r] \in Keys
    <3>1. CASE r = row
      <4>1. rows'[r] = entries[f][q] /\ origin'[r] = cur[f]
        BY <2>3, <3>1 DEF TypeOK
      <4> QED
        BY <1>t, <2>2, <2>3, <3>1, <4>1
    <3>2. CASE r # row
      <4>1. rows'[r] = rows[r] /\ origin'[r] = origin[r]
        BY <2>3, <3>2 DEF TypeOK
      <4> QED
        BY <1>2, <2>6, <4>1
    <3> QED
      BY <3>1, <3>2
  <2> QED
    BY <1>1, <2>4, <2>5, <2>6 DEF BackedInv, RowsBacked
<1>7. ASSUME NEW f \in Flushers, FlushError(f) PROVE BackedInv'
  <2>1. /\ UNCHANGED <<rows, origin>> /\ DOMAIN entries'[f] = {}
        /\ \A g \in Flushers \ {f} : entries'[g] = entries[g] /\ cur'[g] = cur[g]
    BY <1>7 DEF FlushError, NoEntries, TypeOK
  <2> QED
    BY <1>1, <1>3, <2>1
<1> QED
  BY <1>4, <1>5, <1>6, <1>7
     DEF Next, Search, Cycle, NextDay, Expire, RecordQuery, Increment, SetTtl, RecordError, Scan, vars

-----------------------------------------------------------------------------
(***************************************************************************)
(* The theorems.                                                           *)
(***************************************************************************)

LEMMA CountsAreKept == Spec => [](TypeOK /\ WindowInv /\ BackedInv)
<1>1. Init => WindowInv /\ BackedInv
  <2> SUFFICES ASSUME Init PROVE WindowInv /\ BackedInv
    OBVIOUS
  <2>1. WindowInv
    BY Constants DEF Init, WindowInv
  <2>2. BackedInv
    BY DEF Init, BackedInv, RowsBacked, ReadScores, NoEntries
  <2> QED
    BY <2>1, <2>2
<1>2. TypeOK /\ WindowInv /\ BackedInv /\ [Next]_vars => (TypeOK /\ WindowInv /\ BackedInv)'
  <2> SUFFICES ASSUME TypeOK, WindowInv, BackedInv, [Next]_vars
               PROVE  (TypeOK /\ WindowInv /\ BackedInv)'
    OBVIOUS
  <2>1. TypeOK'
    BY NextType DEF BackedInv
  <2> QED
    BY <2>1, NextWindow, NextBacked
<1> QED
  BY <1>1, <1>2, InitType, PTL DEF Spec

\* However often and by however many workers a key is flushed, whatever fails and
\* whichever day a weekly row is dated, a row shows no more searches than its
\* window saw and none below the threshold.
THEOREM RowsAreBacked == Spec => []RowsBacked
<1>1. BackedInv => RowsBacked
  BY DEF BackedInv
<1> QED
  BY <1>1, CountsAreKept, PTL

\* A key with a lifetime of at least its window outlives the window: no search
\* is counted in a key that has expired before, so no score starts over.
THEOREM WindowsAreKeptWhole == Spec => []WindowKeptWhole
<1>1. TypeOK /\ WindowInv => WindowKeptWhole
  <2> SUFFICES ASSUME TypeOK, WindowInv, NEW k \in Keys, NEW q \in Queries
               PROVE  /\ zset[k][q] \in {0, recorded[k][q]}
                      /\ k = <<"daily", day>> \/ k = <<"weekly", Week(day)>>
                           => zset[k][q] = recorded[k][q]
    BY DEF WindowKeptWhole
  <2>1. day \in Days /\ day <= day
    BY DEF TypeOK, Days
  <2>2. Counting(day)
    BY <2>1 DEF Counting
  <2> QED
    BY <2>1, <2>2 DEF WindowInv, InWindow
<1> QED
  BY <1>1, CountsAreKept, PTL

=============================================================================
