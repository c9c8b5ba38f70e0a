--------------------------- MODULE CoordinatorProofs ---------------------------
(***************************************************************************)
(* Proofs about Coordinator for every bound of its counters: types and the *)
(* limits of the backoff; nothing survives the entry, the latch is set by  *)
(* three failures in a row and by nothing else, and the entities show the  *)
(* API's state.                                                            *)
(***************************************************************************)
EXTENDS Coordinator, SequenceTheorems, TLAPS

----------------------------------------------------------------------------
(* The inductive invariant.                                                *)

\* The types the proofs need.
Types ==
  /\ entry \in {"unloaded", "loaded", "unloading"}
  /\ enable_polling \in BOOLEAN
  /\ task \in {"none", "ready", "sleeping", "querying", "closing", "done"}
  /\ cancelled \in BOOLEAN
  /\ outcome \in Outcomes \cup {"none"}
  /\ status_query_supported \in BOOLEAN
  /\ status_query_failures \in 0..3
  /\ known \in BOOLEAN /\ shown \in BOOLEAN
  /\ results \in Seq(Outcomes) /\ Len(results) <= 3

\* The task lives as long as its entry, and is cancelled once, at the unload.
Life ==
  /\ entry = "unloaded" <=> task = "none"
  /\ entry = "loaded" => ~cancelled
  /\ entry = "unloading" => cancelled

\* The last n results but k say that the query raised.
Raised(n, k) ==
  /\ n + k <= Len(results)
  /\ \A i \in 1..Len(results) :
       i + n + k > Len(results) /\ i + k <= Len(results) => results[i] = "raised"

\* The failures counted are the last results, in the loop and while the result
\* of a query waits for the connection to close; the startup poll counts none.
FailuresCounted ==
  /\ status_query_supported <=> status_query_failures # 3
  /\ ~enable_polling => status_query_failures = 0
  /\ ~cancelled /\ enable_polling =>
       /\ task \in {"ready", "sleeping", "querying"}
            => Raised(status_query_failures, 0)
       /\ task = "closing" =>
            /\ Raised(status_query_failures, 1)
            /\ results[Len(results)] = outcome
       /\ task \in {"querying", "closing"} => status_query_supported
  /\ ~status_query_supported => results = [i \in 1..3 |-> "raised"]

IndInv == Types /\ Life /\ FailuresCounted /\ StateIsShown

----------------------------------------------------------------------------
(* The types.                                                              *)

\* After a query the results have moved down by d to make place for the new one.
Moved(d) ==
  /\ Len(results') + d = Len(results) + 1
  /\ d = 1 => Len(results) = 3
  /\ \A i \in 1..Len(results') :
       i # Len(results') => results'[i] = results[i + d]

\* A query's result joins the others, of which at most three are kept.
LEMMA ResultJoins ==
  ASSUME Types, NEW o \in Outcomes, QueryEnds(o)
  PROVE  /\ results' \in Seq(Outcomes) /\ Len(results') <= 3
         /\ Len(results') \in Nat \ {0}
         /\ results'[Len(results')] = o
         /\ \E d \in {0, 1} : Moved(d)
<1> DEFINE all == Append(results, o)
<1>0. results \in Seq(Outcomes) /\ Len(results) \in Nat /\ Len(results) <= 3
  BY LenProperties DEF Types
<1>1. /\ all \in Seq(Outcomes) /\ all # <<>> /\ Len(all) = Len(results) + 1
      /\ \A i \in 1..Len(results) : all[i] = results[i]
      /\ all[Len(results) + 1] = o
  BY <1>0, AppendProperties
<1>2. results' = IF Len(all) > 3 THEN Tail(all) ELSE all
  BY DEF QueryEnds
<1> HIDE DEF all
<1>3. CASE Len(results) < 3
  <2>1. results' = all
    BY <1>0, <1>1, <1>2, <1>3
  <2>2. \A i \in 1..Len(all) : i # Len(all) => all[i] = results[i + 0]
    BY <1>0, <1>1
  <2>3. Moved(0)
    BY <1>0, <1>1, <1>3, <2>1, <2>2 DEF Moved
  <2>4. /\ results' \in Seq(Outcomes) /\ Len(results') <= 3
        /\ Len(results') \in Nat \ {0} /\ results'[Len(results')] = o
    BY <1>0, <1>1, <1>3, <2>1
  <2>5. QED
    BY <2>3, <2>4
<1>4. CASE Len(results) = 3
  <2> DEFINE t == Tail(all)
  <2>1. results' = t
    BY <1>1, <1>2, <1>4
  <2>2. /\ t \in Seq(Outcomes) /\ Len(t) = 3
        /\ \A i \in 1..3 : t[i] = all[i + 1]
    <3>1. /\ t \in Seq(Outcomes) /\ Len(t) = Len(all) - 1
          /\ \A i \in 1..Len(t) : t[i] = all[i + 1]
      BY <1>1, HeadTailProperties
    <3> HIDE DEF t
    <3>2. Len(t) = 3
      BY <1>1, <1>4, <3>1
    <3>3. QED
      BY <3>1, <3>2
  <2> HIDE DEF t
  <2>3. t[3] = o /\ t[1] = results[2] /\ t[2] = results[3]
    BY <1>1, <1>4, <2>2
  <2>4. \A i \in 1..3 : i # 3 => t[i] = results[i + 1]
    BY <2>3
  <2>5. Moved(1)
    BY <1>4, <2>1, <2>2, <2>4 DEF Moved
  <2>6. /\ results' \in Seq(Outcomes) /\ Len(results') <= 3
        /\ Len(results') \in Nat \ {0} /\ results'[Len(results')] = o
    BY <2>1, <2>2, <2>3
  <2>7. QED
    BY <2>5, <2>6
<1>5. Len(results) < 3 \/ Len(results) = 3
  <2> DEFINE l == Len(results)
  <2>1. l \in Nat /\ l <= 3
    BY <1>0
  <2> HIDE DEF l
  <2>2. l < 3 \/ l = 3
    BY <2>1
  <2>3. QED
    BY <2>2 DEF l
<1>6. QED
  BY <1>3, <1>4, <1>5, Zenon

\* A query is only asked, by the loop, while it is taken as supported.
LEMMA TypesStep == IndInv /\ [Next]_vars => Types'
<1> SUFFICES ASSUME IndInv, [Next]_vars PROVE Types'
  OBVIOUS
<1> USE DEF Types, vars, entryVars, apiVars, startupVars, backoffVars, queryVars,
            stateVars
<1>1. ASSUME NEW o \in Outcomes, QueryEnds(o) PROVE Types'
  <2>1. results' \in Seq(Outcomes) /\ Len(results') <= 3
    BY <1>1, ResultJoins DEF IndInv
  <2>2. QED
    BY <1>1, <2>1 DEF IndInv, QueryEnds
<1>2. CASE SetupEntry
  <2>1. results' = <<>> /\ <<>> \in Seq(Outcomes) /\ Len(<<>>) = 0
    BY <1>2, EmptySeq DEF SetupEntry
  <2>2. results' \in Seq(Outcomes) /\ Len(results') <= 3
    BY <2>1
  <2>3. /\ entry' = "loaded" /\ enable_polling' \in BOOLEAN /\ task' = "ready"
        /\ cancelled' = FALSE /\ outcome' = "none"
        /\ status_query_supported' = TRUE /\ status_query_failures' = 0
        /\ known' = FALSE /\ shown' = FALSE
    BY <1>2 DEF SetupEntry
  <2>4. status_query_failures' \in 0..3
    BY <2>3
  <2>5. QED
    BY <2>2, <2>3, <2>4, Zenon
<1>3. CASE PollRaises
  <2>1. status_query_failures \in 0..2
    BY <1>3 DEF PollRaises, IndInv, FailuresCounted
  <2>2. /\ status_query_failures' = status_query_failures + 1
        /\ status_query_supported' \in BOOLEAN
        /\ task' = "sleeping"
        /\ UNCHANGED <<entry, enable_polling, cancelled, outcome, known, shown,
                       results>>
    BY <1>3 DEF PollRaises
  <2>3. status_query_failures' \in 0..3
    BY <2>1, <2>2
  <2>4. QED
    BY <2>2, <2>3 DEF IndInv
<1>4. ASSUME NEW b \in BOOLEAN, Advert(b) PROVE Types'
  <2>1. known' \in BOOLEAN /\ shown' \in BOOLEAN
    BY <1>4, Zenon DEF Advert, IndInv
  <2>2. QED
    BY <1>4, <2>1 DEF Advert, IndInv
<1>5. CASE UnloadEntry \/ ShutdownReturns \/ AdapterChanges \/ UNCHANGED vars
  BY <1>5 DEF IndInv, UnloadEntry, ShutdownReturns, AdapterChanges
<1>6. CASE PollRound
  BY <1>6 DEF IndInv, PollRound, SkipUndiscovered, SkipUnreachable,
     SkipUnsupported, PollQueries
<1>7. CASE PollSucceeds
  BY <1>7 DEF IndInv, PollSucceeds
<1>8. CASE StartupWaits \/ StartupQueries
  BY <1>8 DEF IndInv, StartupWaits, StartupQueries
<1>9. CASE StartupReturns
  BY <1>9 DEF IndInv, StartupReturns
<1>10. CASE TaskCancelled
  BY <1>10 DEF IndInv, TaskCancelled
<1>11. QED
  BY <1>1, <1>2, <1>3, <1>4, <1>5, <1>6, <1>7, <1>8, <1>9, <1>10
  DEF Next, TaskStep, Query

----------------------------------------------------------------------------
(* The life of the task, and what the entities show.                       *)

\* Every step keeps the task within the life of its entry.
LEMMA LifeStep == IndInv /\ [Next]_vars => Life'
<1> SUFFICES ASSUME IndInv, [Next]_vars PROVE Life'
  OBVIOUS
<1> USE DEF IndInv, Life, vars, entryVars, apiVars, startupVars, backoffVars,
            queryVars, stateVars
<1>1. CASE SetupEntry
  BY <1>1 DEF SetupEntry
<1>2. CASE UnloadEntry
  BY <1>2 DEF UnloadEntry
<1>3. CASE ShutdownReturns
  BY <1>3 DEF ShutdownReturns
<1>4. CASE TaskStep
  <2>1. /\ UNCHANGED <<entry, cancelled>>
        /\ task # "none" /\ task' # "none"
    BY <1>4 DEF TaskStep, PollRound, SkipUndiscovered, SkipUnreachable,
       SkipUnsupported, PollQueries, Query, QueryEnds, PollSucceeds, PollRaises,
       StartupWaits, StartupQueries, StartupReturns, TaskCancelled, InRound, Wakes
  <2>2. QED
    BY <2>1
<1>5. CASE (\E b \in BOOLEAN : Advert(b)) \/ AdapterChanges \/ UNCHANGED vars
  BY <1>5 DEF Advert, AdapterChanges
<1>6. QED
  BY <1>1, <1>2, <1>3, <1>4, <1>5 DEF Next

\* Every step keeps the entities up to date, but for a query's own result.
LEMMA ShownStep == IndInv /\ [Next]_vars => StateIsShown'
<1> SUFFICES ASSUME IndInv, [Next]_vars PROVE StateIsShown'
  OBVIOUS
<1> USE DEF IndInv, StateIsShown, vars, entryVars, apiVars, startupVars,
            backoffVars, queryVars, stateVars
<1>1. CASE SetupEntry
  BY <1>1 DEF SetupEntry
<1>2. CASE UnloadEntry \/ ShutdownReturns
  BY <1>2 DEF UnloadEntry, ShutdownReturns
<1>3. ASSUME NEW b \in BOOLEAN, Advert(b) PROVE StateIsShown'
  BY <1>3 DEF Advert
<1>4. ASSUME NEW o \in Outcomes, QueryEnds(o) PROVE StateIsShown'
  <2>1. task = "querying" /\ task' = "closing" /\ outcome' = o
        /\ known' = (known \/ o = "state")
        /\ UNCHANGED <<entry, shown>>
    BY <1>4 DEF QueryEnds
  <2>2. QED
    BY <2>1
<1>5. CASE PollSucceeds \/ PollRaises
  <2>1. CASE PollSucceeds
    BY <2>1 DEF PollSucceeds
  <2>2. CASE PollRaises
    <3>1. /\ task = "closing" /\ outcome = "raised"
          /\ UNCHANGED <<entry, known, shown>>
      BY <2>2 DEF PollRaises
    <3>2. QED
      BY <3>1
  <2>3. QED
    BY <1>5, <2>1, <2>2
<1>6. CASE StartupReturns
  <2>1. CASE outcome \in {"state", "empty"}
    BY <1>6, <2>1 DEF StartupReturns
  <2>2. CASE outcome \notin {"state", "empty"}
    BY <1>6, <2>2 DEF StartupReturns
  <2>3. QED
    BY <2>1, <2>2
<1>7. CASE TaskCancelled
  BY <1>7 DEF TaskCancelled, Life
<1>8. CASE PollRound \/ StartupWaits \/ StartupQueries
  <2>1. task # "closing" /\ UNCHANGED <<entry, known, shown>>
    BY <1>8 DEF PollRound, SkipUndiscovered, SkipUnreachable, SkipUnsupported,
       PollQueries, StartupWaits, StartupQueries, InRound, Wakes
  <2>2. QED
    BY <2>1
<1>9. CASE AdapterChanges \/ UNCHANGED vars
  BY <1>9 DEF AdapterChanges
<1>10. QED
  BY <1>1, <1>2, <1>3, <1>4, <1>5, <1>6, <1>7, <1>8, <1>9
  DEF Next, TaskStep, Query

----------------------------------------------------------------------------
(* The latch.                                                              *)

\* The result of a query of the loop comes after the failures counted so far.
LEMMA QueryCounted ==
  ASSUME IndInv, NEW o \in Outcomes, QueryEnds(o)
  PROVE  FailuresCounted'
<1> USE DEF IndInv, entryVars, queryVars
<1>1. /\ task = "querying" /\ ~cancelled /\ task' = "closing" /\ outcome' = o
      /\ UNCHANGED <<enable_polling, cancelled, status_query_supported,
                     status_query_failures>>
  BY DEF QueryEnds
<1>2. Len(results) \in Nat /\ status_query_failures \in 0..3
  BY LenProperties DEF Types
<1>3. /\ Len(results') \in Nat \ {0}
      /\ results'[Len(results')] = o
  BY ResultJoins
<1>4. CASE enable_polling
  <2>1. /\ status_query_supported /\ status_query_failures \in 0..2
        /\ Raised(status_query_failures, 0)
    BY <1>1, <1>2, <1>4 DEF FailuresCounted
  <2>2. PICK d \in {0, 1} : Moved(d)
    BY ResultJoins
  <2> DEFINE n == status_query_failures
             l == Len(results)
             m == Len(results')
  <2>3. /\ n \in 0..2 /\ l \in Nat /\ m \in Nat /\ n <= l
        /\ m + d = l + 1 /\ (d = 1 => l = 3)
    BY <1>2, <1>3, <2>1, <2>2 DEF Raised, Moved
  <2>4. ASSUME NEW i \in 1..m, i + n + 1 > m, i + 1 <= m
        PROVE  results'[i] = "raised"
    <3>1. results'[i] = results[i + d]
      <4> HIDE DEF n
      <4>1. i # m
        BY <2>3, <2>4
      <4>2. QED
        BY <2>2, <4>1 DEF Moved
    <3>2. i + d \in 1..l /\ (i + d) + n + 0 > l /\ (i + d) + 0 <= l
      <4> HIDE DEF l, m, n
      <4>1. QED
        BY <2>3, <2>4
    <3>3. results[i + d] = "raised"
      BY <2>1, <3>2 DEF Raised
    <3>4. QED
      BY <3>1, <3>3
  <2>5. n + 1 <= m
    <3> HIDE DEF l, m, n
    <3>1. QED
      BY <2>3
  <2>6. Raised(status_query_failures, 1)'
    BY <1>1, <2>4, <2>5 DEF Raised
  <2>7. QED
    BY <1>1, <1>3, <2>1, <2>6 DEF FailuresCounted
<1>5. CASE ~enable_polling
  BY <1>1, <1>5 DEF FailuresCounted
<1>6. QED
  BY <1>4, <1>5

\* An exception is one more failure in a row, the third sets the latch.
LEMMA RaiseCounted ==
  ASSUME IndInv, PollRaises
  PROVE  FailuresCounted'
<1> USE DEF IndInv, entryVars
<1> DEFINE n == status_query_failures
           l == Len(results)
<1>1. /\ task = "closing" /\ ~cancelled /\ enable_polling /\ outcome = "raised"
      /\ status_query_failures' = n + 1
      /\ status_query_supported' = (status_query_failures' < 3)
      /\ task' = "sleeping"
      /\ UNCHANGED <<results, cancelled, enable_polling>>
  BY DEF PollRaises
<1>2. /\ status_query_supported /\ Raised(n, 1) /\ results[l] = "raised"
  BY <1>1 DEF FailuresCounted
<1>3. l \in Nat /\ l <= 3 /\ n \in 0..2 /\ n + 1 <= l
  BY <1>2, LenProperties DEF Types, FailuresCounted, Raised
<1>4. ASSUME NEW i \in 1..l, i + (n + 1) + 0 > l PROVE results[i] = "raised"
  <2>1. CASE i = l
    BY <1>2, <2>1
  <2>2. CASE i # l
    <3>1. i + n + 1 > l /\ i + 1 <= l
      <4> HIDE DEF n, l
      <4>1. QED
        BY <1>3, <1>4, <2>2
    <3>2. QED
      BY <1>2, <3>1 DEF Raised
  <2>3. QED
    BY <2>1, <2>2
<1>5. Raised(n + 1, 0)
  BY <1>3, <1>4 DEF Raised
<1>6. CASE n = 2
  <2>1. results = [i \in 1..3 |-> "raised"]
    <3>1. l = 3 /\ \A i \in 1..3 : results[i] = "raised"
      <4>1. l = 3
        <5> HIDE DEF n, l
        <5>1. QED
          BY <1>3, <1>6
      <4>2. ASSUME NEW i \in 1..3 PROVE i \in 1..l /\ i + (n + 1) + 0 > l
        <5> HIDE DEF n, l
        <5>1. QED
          BY <1>6, <4>1
      <4>3. QED
        BY <1>4, <4>1, <4>2
    <3>2. results = [i \in 1..Len(results) |-> results[i]]
      BY DEF Types
    <3>3. QED
      BY <3>1, <3>2
  <2>2. status_query_failures' = 3 /\ ~status_query_supported'
    <3>1. status_query_failures' = 3 /\ ~(3 < 3)
      BY <1>1, <1>6
    <3>2. status_query_supported' = (status_query_failures' < 3)
      BY <1>1
    <3>3. QED
      BY <3>1, <3>2, Zenon
  <2>3. Raised(status_query_failures, 0)'
    BY <1>1, <1>5 DEF Raised
  <2>4. QED
    BY <1>1, <2>1, <2>2, <2>3 DEF FailuresCounted
<1>7. CASE n \in 0..1
  <2>1. status_query_supported' /\ status_query_failures' \in 0..2
    <3>1. /\ status_query_failures' \in 0..2
          /\ status_query_failures' < 3 <=> TRUE
      BY <1>1, <1>7
    <3>2. status_query_supported' = (status_query_failures' < 3)
      BY <1>1
    <3>3. QED
      BY <3>1, <3>2, Zenon
  <2>2. Raised(status_query_failures, 0)'
    BY <1>1, <1>5 DEF Raised
  <2>3. QED
    BY <1>1, <2>1, <2>2 DEF FailuresCounted
<1>8. QED
  BY <1>3, <1>6, <1>7

\* Every step keeps the count.
LEMMA CountStep == IndInv /\ [Next]_vars => FailuresCounted'
<1> SUFFICES ASSUME IndInv, [Next]_vars PROVE FailuresCounted'
  OBVIOUS
<1> USE DEF IndInv, vars, entryVars, apiVars, startupVars, backoffVars, queryVars,
            stateVars
<1>0. Len(results) \in Nat /\ status_query_failures \in 0..3
  BY LenProperties DEF Types
<1>1. CASE SetupEntry
  <2>1. Len(<<>>) = 0 /\ 1..Len(<<>>) = {}
    OBVIOUS
  <2>2. QED
    BY <1>1, <2>1 DEF SetupEntry, FailuresCounted, Raised
<1>2. ASSUME NEW o \in Outcomes, QueryEnds(o) PROVE FailuresCounted'
  BY <1>2, QueryCounted
<1>3. CASE PollRaises
  BY <1>3, RaiseCounted
<1>4. CASE PollSucceeds
  <2>1. /\ task = "closing" /\ ~cancelled /\ enable_polling
        /\ status_query_failures' = 0 /\ task' = "sleeping"
        /\ UNCHANGED <<results, enable_polling, status_query_supported>>
    BY <1>4 DEF PollSucceeds
  <2>2. status_query_supported
    BY <2>1 DEF FailuresCounted
  <2>3. Raised(status_query_failures, 0)'
    BY <1>0, <2>1 DEF Raised
  <2>4. QED
    BY <2>1, <2>2, <2>3 DEF FailuresCounted
<1>5. CASE UnloadEntry \/ TaskCancelled
  <2>1. /\ cancelled'
        /\ UNCHANGED <<results, enable_polling, status_query_supported,
                       status_query_failures>>
    BY <1>5 DEF UnloadEntry, TaskCancelled
  <2>2. QED
    BY <2>1 DEF FailuresCounted
<1>6. CASE PollRound
  <2>1. /\ task \in {"ready", "sleeping"}
        /\ task' = "sleeping" \/ (task' = "querying" /\ status_query_supported)
        /\ UNCHANGED <<results, enable_polling, cancelled,
                       status_query_supported, status_query_failures>>
    BY <1>6 DEF PollRound, SkipUndiscovered, SkipUnreachable, SkipUnsupported,
       PollQueries, InRound, Wakes
  <2>2. QED
    BY <2>1 DEF FailuresCounted, Raised
<1>7. CASE StartupWaits \/ StartupQueries \/ StartupReturns
  <2>1. /\ ~enable_polling
        /\ UNCHANGED <<results, enable_polling, status_query_supported,
                       status_query_failures>>
    BY <1>7 DEF StartupWaits, StartupQueries, StartupReturns
  <2>2. QED
    BY <2>1 DEF FailuresCounted
<1>8. CASE \/ ShutdownReturns \/ (\E b \in BOOLEAN : Advert(b))
           \/ AdapterChanges \/ UNCHANGED vars
  <2>1. /\ task' = task \/ task' = "none"
        /\ UNCHANGED <<results, outcome, enable_polling, cancelled,
                       status_query_supported, status_query_failures>>
    BY <1>8 DEF ShutdownReturns, Advert, AdapterChanges
  <2>2. QED
    BY <2>1 DEF FailuresCounted, Raised
<1>9. QED
  BY <1>1, <1>2, <1>3, <1>4, <1>5, <1>6, <1>7, <1>8 DEF Next, TaskStep, Query

----------------------------------------------------------------------------
(* Theorems.                                                               *)

\* IndInv is inductive: it holds initially and every step preserves it.
THEOREM Invariance == Spec => []IndInv
<1>1. Init => IndInv
  <2> SUFFICES ASSUME Init PROVE IndInv
    OBVIOUS
  <2>1. Types
    <3>1. results = <<>> /\ <<>> \in Seq(Outcomes) /\ Len(<<>>) = 0
      BY EmptySeq DEF Init
    <3>2. results \in Seq(Outcomes) /\ Len(results) <= 3
      BY <3>1
    <3>3. /\ entry = "unloaded" /\ enable_polling = FALSE /\ task = "none"
          /\ cancelled = FALSE /\ outcome = "none"
          /\ status_query_supported = TRUE /\ status_query_failures = 0
          /\ known = FALSE /\ shown = FALSE
      BY DEF Init
    <3>4. status_query_failures \in 0..3
      BY <3>3
    <3>5. QED
      BY <3>2, <3>3, <3>4, Zenon DEF Types
  <2>2. Life /\ StateIsShown
    BY DEF Init, Life, StateIsShown
  <2>3. FailuresCounted
    BY DEF Init, FailuresCounted
  <2>4. QED
    BY <2>1, <2>2, <2>3 DEF IndInv
<1>2. IndInv /\ [Next]_vars => IndInv'
  BY TypesStep, LifeStep, CountStep, ShownStep DEF IndInv
<1>3. QED
  BY <1>1, <1>2, PTL DEF Spec

\* async_shutdown returns only when the coordinator's task is gone, wherever the
\* cancellation met it.
THEOREM NothingOutlivesEntry == Spec => []NothingSurvives
<1>1. IndInv => NothingSurvives
  BY DEF IndInv, Life, NothingSurvives
<1>2. QED
  BY <1>1, Invariance, PTL

\* The query is taken as unsupported after three exceptions in a row, and after
\* nothing else.
THEOREM LatchIsDeserved == Spec => []ThreeFailuresLatch
<1>1. IndInv => ThreeFailuresLatch
  BY DEF IndInv, Types, FailuresCounted, ThreeFailuresLatch
<1>2. QED
  BY <1>1, Invariance, PTL

\* Entities show the API's state, except while the query that brought it is
\* still disconnecting.
THEOREM StateReachesEntities == Spec => []StateIsShown
<1>1. IndInv => StateIsShown
  BY DEF IndInv
<1>2. QED
  BY <1>1, Invariance, PTL

----------------------------------------------------------------------------
(* The counters.                                                           *)

\* The part of TypeOK that no other property needs.
Counters ==
  /\ supportedModel \in BOOLEAN
  /\ api \in BOOLEAN
  /\ ble_device \in BOOLEAN
  /\ ticks \in 0..DISCOVERY_TICKS
  /\ attempt \in 0..POLL_ATTEMPTS
  /\ consecutive_failures \in 0..MaxFailures
  /\ current_backoff \in POLLING_INTERVAL..MAX_BACKOFF_INTERVAL
  /\ reachable \in BOOLEAN

\* However many failures are counted, the delay is between the two intervals.
LEMMA BackoffBounded ==
  ASSUME NEW n \in 0..MaxFailures
  PROVE  Backoff(n) \in POLLING_INTERVAL..MAX_BACKOFF_INTERVAL
<1> DEFINE p == BACKOFF_MULTIPLIER ^ n
<1>1. p \in Nat \ {0}
  BY PowersAssumption
<1>2. Backoff(n) = IF POLLING_INTERVAL * p < MAX_BACKOFF_INTERVAL
                   THEN POLLING_INTERVAL * p ELSE MAX_BACKOFF_INTERVAL
  BY Zenon DEF Backoff
<1> HIDE DEF p
<1>3. QED
  BY <1>1, <1>2 DEF POLLING_INTERVAL, MAX_BACKOFF_INTERVAL

LEMMA CountersStep ==
  ASSUME Counters, [Next]_vars
  PROVE  Counters'
<1> USE DEF Counters, vars, entryVars, apiVars, startupVars, backoffVars, queryVars,
            stateVars
<1>1. POLLING_INTERVAL \in POLLING_INTERVAL..MAX_BACKOFF_INTERVAL
  BY DEF POLLING_INTERVAL, MAX_BACKOFF_INTERVAL
<1> DEFINE Kept == UNCHANGED <<supportedModel, api, ble_device, ticks, attempt>>
           Reachable == reachable' \in BOOLEAN
           Failures == /\ consecutive_failures' \in 0..MaxFailures
                       /\ current_backoff' \in POLLING_INTERVAL..MAX_BACKOFF_INTERVAL
<1>2. ASSUME CountFailure PROVE Failures
  <2>1. consecutive_failures' \in 0..MaxFailures
    BY <1>2, FailuresAssumption DEF CountFailure
  <2>2. current_backoff' = Backoff(consecutive_failures')
    BY <1>2 DEF CountFailure
  <2>3. QED
    BY <2>1, <2>2, BackoffBounded, Zenon
<1>3. ASSUME ResetBackoff PROVE Failures
  BY <1>1, <1>3, FailuresAssumption DEF ResetBackoff
<1>4. UNCHANGED backoffVars => Failures
  OBVIOUS
<1>5. ASSUME Kept, Failures, UNCHANGED reachable PROVE Counters'
  BY <1>5
<1> HIDE DEF Failures
<1>6. CASE SetupEntry
  <2>1. Failures
    BY <1>1, <1>6, FailuresAssumption DEF SetupEntry, Failures
  <2>2. ticks' \in 0..DISCOVERY_TICKS /\ attempt' \in 0..POLL_ATTEMPTS
    BY <1>6, StartupAssumption DEF SetupEntry
  <2>3. QED
    BY <1>6, <2>1, <2>2 DEF SetupEntry, Failures
<1>7. ASSUME NEW b \in BOOLEAN, Advert(b) PROVE Counters'
  <2>1. api' \in BOOLEAN /\ ble_device' \in BOOLEAN
    BY <1>7, Zenon DEF Advert
  <2>2. QED
    BY <1>7, <2>1 DEF Advert
<1>8. CASE AdapterChanges
  BY <1>8 DEF AdapterChanges
<1>9. CASE UnloadEntry \/ ShutdownReturns \/ UNCHANGED vars
  BY <1>4, <1>5, <1>9 DEF UnloadEntry, ShutdownReturns
<1>10. CASE PollRound
  <2>1. Kept /\ UNCHANGED reachable /\ (CountFailure \/ ResetBackoff \/ UNCHANGED backoffVars)
    BY <1>10 DEF PollRound, SkipUndiscovered, SkipUnreachable, SkipUnsupported, PollQueries
  <2>2. QED
    BY <1>2, <1>3, <1>4, <1>5, <2>1, Zenon
<1>11. CASE Query \/ StartupReturns \/ TaskCancelled
  <2>1. Kept /\ UNCHANGED <<reachable, backoffVars>>
    BY <1>11 DEF Query, QueryEnds, StartupReturns, TaskCancelled
  <2>2. QED
    BY <1>4, <1>5, <2>1
<1>12. CASE PollSucceeds
  <2>1. Kept /\ UNCHANGED reachable /\ ResetBackoff
    BY <1>12 DEF PollSucceeds
  <2>2. QED
    BY <1>3, <1>5, <2>1
<1>13. CASE PollRaises
  <2>1. Kept /\ UNCHANGED reachable /\ (CountFailure \/ UNCHANGED backoffVars)
    BY <1>13 DEF PollRaises
  <2>2. QED
    BY <1>2, <1>4, <1>5, <2>1, Zenon
<1>14. CASE StartupWaits \/ StartupQueries
  <2>1. ticks' \in 0..DISCOVERY_TICKS /\ attempt' \in 0..POLL_ATTEMPTS
    BY <1>14, StartupAssumption DEF StartupWaits, StartupQueries
  <2>2. QED
    BY <1>14, <2>1 DEF StartupWaits, StartupQueries
<1>15. QED
  BY <1>6, <1>7, <1>8, <1>9, <1>10, <1>11, <1>12, <1>13, <1>14 DEF Next, TaskStep

\* Counters and delays stay within their bounds: the polling loop never waits less
\* than the polling interval nor more than the maximum (coordinator.py:183, 250).
THEOREM TypeCorrect == Spec => []TypeOK
<1>1. Init => Counters
  <2>1. 0 \in 0..DISCOVERY_TICKS /\ 0 \in 0..POLL_ATTEMPTS /\ 0 \in 0..MaxFailures
    BY StartupAssumption, FailuresAssumption
  <2>2. POLLING_INTERVAL \in POLLING_INTERVAL..MAX_BACKOFF_INTERVAL
    BY DEF POLLING_INTERVAL, MAX_BACKOFF_INTERVAL
  <2>3. QED
    BY <2>1, <2>2 DEF Init, Counters
<1>2. Counters /\ [Next]_vars => Counters'
  BY CountersStep
<1>3. IndInv /\ Counters => TypeOK
  BY DEF IndInv, Types, Counters, TypeOK
<1>4. QED
  BY <1>1, <1>2, <1>3, Invariance, PTL DEF Spec
===============================================================================
