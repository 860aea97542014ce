------------------------------ MODULE StatsProofs ------------------------------
(***************************************************************************)
(* What the months and the count of a total are, for any subscriptions, any       *)
(* period, any clock and any local time.                                       *)
(***************************************************************************)
EXTENDS Stats, FiniteSetTheorems, TLAPS

-----------------------------------------------------------------------------
(* Months. *)

(* The bounds of a period are months like any other. *)
LEMMA PeriodTyped ==
  ASSUME req \in StatsRequest
  PROVE  PeriodStart \in Int \cup {Nil} /\ PeriodEnd \in Int \cup {Nil}
BY DEF StatsRequest, PeriodStart, PeriodEnd, ParseMonth, MonthText

(* So are the bounds of an intersection. *)
LEMMA IntersectionTyped ==
  ASSUME req \in StatsRequest, NEW sub \in Sub, NEW now \in Int
  PROVE  /\ IntersectionStart(sub) \in Int
         /\ IntersectionEnd(sub, now) \in [month : Int, zone : {-1, 0, 1}]
<1>1. /\ PeriodStart \in Int \cup {Nil} /\ PeriodEnd \in Int \cup {Nil}
      /\ sub.start \in Int /\ sub.end \in Int \cup {Nil}
  BY PeriodTyped DEF Sub, Time, OptionalTime
<1>2. IntersectionStart(sub) \in Int
  BY <1>1 DEF IntersectionStart, Later
<1>3. IntersectionEnd(sub, now).month \in Int
  BY <1>1 DEF IntersectionEnd, Earlier
<1>4. IntersectionEnd(sub, now).zone \in {-1, 0, 1}
  BY StatsAssumption DEF IntersectionEnd
<1> QED BY <1>2, <1>3, <1>4 DEF IntersectionEnd

(* The months README.md bills are the interval the code computes, but for a         *)
(* subscription that ends after the current month when no period is given.           *)
LEMMA BilledInterval ==
  ASSUME req \in StatsRequest, NEW sub \in Sub, NEW now \in Int,
         \/ PeriodStart # Nil \/ PeriodEnd # Nil
         \/ sub.end = Nil \/ sub.end <= now
  PROVE  BilledMonths(sub, now) = IntersectionStart(sub) .. IntersectionEnd(sub, now).month
<1> DEFINE first == IntersectionStart(sub)
           last == IntersectionEnd(sub, now).month
           spans == UNION {sub.start .. l : l \in ({sub.end, PeriodEnd} \ {Nil}) \cup {now}}
<1>1. /\ PeriodStart \in Int \cup {Nil} /\ PeriodEnd \in Int \cup {Nil}
      /\ sub.start \in Int /\ sub.end \in Int \cup {Nil} /\ Nil \notin Int
  BY PeriodTyped, DataAssumption DEF Sub, Time, OptionalTime
<1>2. first \in Int /\ last \in Int
  BY IntersectionTyped
<1>3. first = IF PeriodStart = Nil THEN sub.start
              ELSE IF sub.start > PeriodStart THEN sub.start ELSE PeriodStart
  BY DEF IntersectionStart, Later
<1>4. last = IF sub.end = Nil THEN (IF PeriodEnd = Nil THEN now ELSE PeriodEnd)
             ELSE IF PeriodEnd = Nil THEN sub.end
             ELSE IF sub.end < PeriodEnd THEN sub.end ELSE PeriodEnd
  BY DEF IntersectionEnd, Earlier
<1>5. \A m : m \in spans <=>
               \E l \in ({sub.end, PeriodEnd} \ {Nil}) \cup {now} : m \in sub.start .. l
  OBVIOUS
<1>6. ASSUME NEW m \in BilledMonths(sub, now) PROVE m \in first .. last
  <2>1. m \in spans
    BY <1>6 DEF BilledMonths
  <2>2. m \in Int /\ sub.start <= m
    BY <2>1, <1>1, <1>5
  <2> QED BY <1>1, <1>2, <1>3, <1>4, <1>6, <2>2 DEF BilledMonths
<1>7. ASSUME NEW m \in first .. last PROVE m \in BilledMonths(sub, now)
  <2>1. m \in Int /\ first <= m /\ m <= last
    BY <1>2, <1>7
  <2>2. last \in ({sub.end, PeriodEnd} \ {Nil}) \cup {now}
    BY <1>1, <1>4
  <2>3. m \in sub.start .. last
    BY <1>1, <1>2, <1>3, <2>1
  <2>4. m \in spans
    BY <1>5, <2>2, <2>3
  <2>5. /\ sub.end # Nil => m <= sub.end
        /\ PeriodStart # Nil => m >= PeriodStart
        /\ PeriodEnd # Nil => m <= PeriodEnd
        /\ sub.end = Nil /\ PeriodEnd = Nil => m <= now
        /\ PeriodStart = Nil /\ PeriodEnd = Nil => m <= now
    BY <1>1, <1>3, <1>4, <2>1
  <2> QED BY <2>4, <2>5 DEF BilledMonths
<1> QED BY <1>6, <1>7

(* There are finitely many of them, whatever bounds are absent. *)
LEMMA BilledFinite ==
  ASSUME req \in StatsRequest, NEW sub \in Sub, NEW now \in Int
  PROVE  IsFiniteSet(BilledMonths(sub, now))
<1> DEFINE ended == IF sub.end = Nil THEN now ELSE sub.end
           asked == IF PeriodEnd = Nil THEN now ELSE PeriodEnd
           all == ((sub.start .. ended) \cup (sub.start .. asked)) \cup (sub.start .. now)
<1>1. sub.start \in Int /\ ended \in Int /\ asked \in Int
  BY PeriodTyped DEF Sub, Time, OptionalTime
<1>2. IsFiniteSet(all)
  BY <1>1, FS_Interval, FS_Union
<1>3. BilledMonths(sub, now) \subseteq all
  <2>1. ({sub.end, PeriodEnd} \ {Nil}) \cup {now} \subseteq {ended, asked, now}
    OBVIOUS
  <2>2. UNION {sub.start .. last : last \in ({sub.end, PeriodEnd} \ {Nil}) \cup {now}} \subseteq all
    BY <2>1
  <2> QED BY <2>2 DEF BilledMonths
<1> QED BY <1>2, <1>3, FS_Subset

(* As time goes on months are billed in addition, and none less. *)
LEMMA BilledGrow ==
  ASSUME req \in StatsRequest, NEW sub \in Sub,
         NEW now \in Int, NEW later \in Int, now <= later
  PROVE  BilledMonths(sub, now) \subseteq BilledMonths(sub, later)
<1> SUFFICES ASSUME NEW m \in BilledMonths(sub, now) PROVE m \in BilledMonths(sub, later)
  OBVIOUS
<1>1. PICK last \in ({sub.end, PeriodEnd} \ {Nil}) \cup {now} : m \in sub.start .. last
  BY DEF BilledMonths
<1>2. sub.start \in Int /\ last \in Int /\ m \in Int /\ sub.start <= m /\ m <= last
  BY <1>1, PeriodTyped DEF Sub, Time, OptionalTime
<1>3. \E l \in ({sub.end, PeriodEnd} \ {Nil}) \cup {later} : m \in sub.start .. l
  <2>1. CASE last = now
    BY <1>2, <2>1
  <2>2. CASE last # now
    BY <1>1, <2>2
  <2> QED BY <2>1, <2>2
<1>4. /\ sub.end # Nil => m <= sub.end
      /\ PeriodStart # Nil => m >= PeriodStart
      /\ PeriodEnd # Nil => m <= PeriodEnd
      /\ sub.end = Nil /\ PeriodEnd = Nil => m <= later
      /\ PeriodStart = Nil /\ PeriodEnd = Nil => m <= later
  BY <1>2 DEF BilledMonths
<1> QED BY <1>3, <1>4 DEF BilledMonths

-----------------------------------------------------------------------------
(* Rubles. *)

(* What one subscription costs. *)
LEMMA CostOfOne ==
  ASSUME TypeOK, NEW id \in ID, table[id] # Nil, NEW now \in Int
  PROVE  LET rubles == {id} \X (BilledMonths(table[id], now) \X (1..table[id].price))
         IN  /\ IsFiniteSet(rubles)
             /\ Cardinality(rubles) = table[id].price * Cardinality(BilledMonths(table[id], now))
<1> DEFINE ms == BilledMonths(table[id], now)
           rs == 1..table[id].price
<1>1. table[id] \in Sub /\ table[id].price \in Nat
  BY DEF TypeOK, Table, Sub
<1>2. IsFiniteSet(ms) /\ Cardinality(ms) \in Nat
  BY <1>1, BilledFinite, FS_CardinalityType DEF TypeOK
<1>3. IsFiniteSet(rs) /\ Cardinality(rs) = table[id].price
  <2> DEFINE p == table[id].price
  <2> HIDE DEF p
  <2>1. p \in Nat
    BY <1>1 DEF p
  <2>2. IsFiniteSet(1..p) /\ Cardinality(1..p) = IF 1 > p THEN 0 ELSE p - 1 + 1
    BY <2>1, FS_Interval
  <2>3. Cardinality(1..p) = p
    BY <2>1, <2>2
  <2> QED BY <2>2, <2>3 DEF p
<1> HIDE DEF ms, rs
<1>4. IsFiniteSet(ms \X rs) /\ Cardinality(ms \X rs) = Cardinality(ms) * table[id].price
  BY <1>2, <1>3, FS_Product
<1>5. /\ IsFiniteSet({id} \X (ms \X rs))
      /\ Cardinality({id} \X (ms \X rs)) = 1 * (Cardinality(ms) * table[id].price)
  <2>1. IsFiniteSet({id}) /\ Cardinality({id}) = 1
    BY FS_Singleton
  <2> QED BY <1>4, <2>1, FS_Product
<1>6. 1 * (Cardinality(ms) * table[id].price) = table[id].price * Cardinality(ms)
  BY <1>1, <1>2
<1> QED BY <1>5, <1>6 DEF ms, rs

(* Finitely many subscriptions cost finitely many rubles. *)
LEMMA CostFinite ==
  ASSUME TypeOK, NEW ids \in SUBSET ID, \A id \in ids : table[id] # Nil, NEW now \in Int
  PROVE  IsFiniteSet(BilledRubles(ids, now)) /\ Cardinality(BilledRubles(ids, now)) \in Nat
<1> DEFINE rubles(id) == {id} \X (BilledMonths(table[id], now) \X (1..table[id].price))
           all == {rubles(id) : id \in ids}
           of == [id \in ids |-> rubles(id)]
<1>1. \A id \in ids : IsFiniteSet(rubles(id))
  BY CostOfOne
<1>2. of \in Surjection(ids, all)
  BY DEF Surjection
<1>3. IsFiniteSet(ids)
  BY StatsAssumption, FS_Subset
<1> HIDE DEF of
<1>4. IsFiniteSet(all)
  <2> HIDE DEF all
  <2> QED BY <1>2, <1>3, FS_Surjection
<1>5. \A T \in all : IsFiniteSet(T)
  BY <1>1
<1>6. BilledRubles(ids, now) = UNION all
  BY DEF BilledRubles
<1> QED
  <2> HIDE DEF all
  <2>1. IsFiniteSet(UNION all)
    BY <1>4, <1>5, FS_UNION
  <2> QED BY <1>6, <2>1, FS_CardinalityType

(* Another subscription adds its price for every month. *)
LEMMA CostOfAnother ==
  ASSUME TypeOK, NEW ids \in SUBSET ID, \A i \in ids : table[i] # Nil,
         NEW id \in ID \ ids, table[id] # Nil, NEW now \in Int
  PROVE  Cardinality(BilledRubles(ids \cup {id}, now)) =
           Cardinality(BilledRubles(ids, now))
             + table[id].price * Cardinality(BilledMonths(table[id], now))
<1> DEFINE rubles(i) == {i} \X (BilledMonths(table[i], now) \X (1..table[i].price))
           old == BilledRubles(ids, now)
           new == rubles(id)
<1>1. IsFiniteSet(old) /\ Cardinality(old) \in Nat
  BY CostFinite
<1>2. /\ IsFiniteSet(new)
      /\ Cardinality(new) = table[id].price * Cardinality(BilledMonths(table[id], now))
  BY CostOfOne
<1>3. old = UNION {rubles(i) : i \in ids}
  BY DEF BilledRubles
<1>4. BilledRubles(ids \cup {id}, now) = UNION {rubles(i) : i \in ids \cup {id}}
  BY DEF BilledRubles
<1>5. BilledRubles(ids \cup {id}, now) = old \cup new
  <2> HIDE DEF rubles
  <2> QED BY <1>3, <1>4
<1>6. old \cap new = {}
  <2>1. ASSUME NEW u \in old PROVE u[1] \in ids
    <3>1. PICK i \in ids : u \in rubles(i)
      BY <1>3
    <3> QED BY <3>1
  <2>2. ASSUME NEW u \in new PROVE u[1] = id
    OBVIOUS
  <2> QED BY <2>1, <2>2
<1> HIDE DEF old, new
<1>7. Cardinality(old \cup new) = Cardinality(old) + Cardinality(new) - Cardinality({})
  BY <1>1, <1>2, <1>6, FS_Union
<1>8. Cardinality(new) \in Nat
  BY <1>2, FS_CardinalityType
<1>9. Cardinality(old \cup new) = Cardinality(old) + Cardinality(new)
  BY <1>1, <1>7, <1>8, FS_EmptySet
<1> QED BY <1>2, <1>5, <1>9 DEF old

(* What some subscriptions cost does not fall as time goes on. *)
LEMMA CostGrows ==
  ASSUME TypeOK, NEW ids \in SUBSET ID, \A id \in ids : table[id] # Nil,
         NEW now \in Int, NEW later \in Int, now <= later
  PROVE  Cardinality(BilledRubles(ids, now)) <= Cardinality(BilledRubles(ids, later))
<1>1. \A id \in ids : BilledMonths(table[id], now) \subseteq BilledMonths(table[id], later)
  BY BilledGrow DEF TypeOK, Table
<1>2. BilledRubles(ids, now) \subseteq BilledRubles(ids, later)
  <2> SUFFICES ASSUME NEW u \in BilledRubles(ids, now) PROVE u \in BilledRubles(ids, later)
    OBVIOUS
  <2>1. PICK id \in ids : u \in {id} \X (BilledMonths(table[id], now) \X (1..table[id].price))
    BY DEF BilledRubles
  <2>2. u \in {id} \X (BilledMonths(table[id], later) \X (1..table[id].price))
    BY <1>1, <2>1
  <2> QED BY <2>2 DEF BilledRubles
<1>3. IsFiniteSet(BilledRubles(ids, later))
  BY CostFinite
<1> QED BY <1>2, <1>3, FS_Subset

(* A subscription the WHERE clauses on the dates leave out has no month to bill. *)
LEMMA UnselectedCostNothing ==
  ASSUME TypeOK, NEW now \in Int
  PROVE  BilledRubles(Wanted, now) = BilledRubles(Selected, now)
<1>1. ASSUME NEW id \in Wanted, NEW m \in BilledMonths(table[id], now)
      PROVE  InPeriod(table[id])
  <2>1. /\ table[id].start \in Int /\ table[id].end \in Int \cup {Nil} /\ Nil \notin Int
        /\ PeriodStart \in Int \cup {Nil} /\ PeriodEnd \in Int \cup {Nil}
    BY PeriodTyped, DataAssumption DEF Wanted, TypeOK, Table, Sub, Time, OptionalTime
  <2>2. PICK last \in ({table[id].end, PeriodEnd} \ {Nil}) \cup {now} : m \in table[id].start .. last
    BY DEF BilledMonths
  <2>3. m \in Int /\ table[id].start <= m
    BY <2>1, <2>2
  <2>4. /\ table[id].end # Nil => m <= table[id].end
        /\ PeriodStart # Nil => m >= PeriodStart
        /\ PeriodEnd # Nil => m <= PeriodEnd
    BY DEF BilledMonths
  <2> QED BY <2>1, <2>3, <2>4 DEF InPeriod
<1>2. Selected = {id \in Wanted : InPeriod(table[id])}
  BY DEF Selected, Wanted
<1>3. ASSUME NEW u \in BilledRubles(Wanted, now) PROVE u \in BilledRubles(Selected, now)
  <2>1. PICK id \in Wanted : u \in {id} \X (BilledMonths(table[id], now) \X (1..table[id].price))
    BY <1>3 DEF BilledRubles
  <2>2. id \in Selected
    BY <1>1, <1>2, <2>1
  <2> QED BY <2>1, <2>2 DEF BilledRubles
<1>4. ASSUME NEW u \in BilledRubles(Selected, now) PROVE u \in BilledRubles(Wanted, now)
  BY <1>2, <1>4 DEF BilledRubles
<1> QED BY <1>3, <1>4

-----------------------------------------------------------------------------
(* The initial states. *)
LEMMA StatsInit == Init => StatsInv
<1> SUFFICES ASSUME Init PROVE StatsInv
  OBVIOUS
<1>1. PICK s \in Scenario : table = s.table /\ req = s.req
  BY DEF Init
<1>2. table \in Table /\ req \in StatsRequest
  BY <1>1, StatsAssumption
<1>3. TypeOK
  BY <1>2, StatsAssumption DEF Init, TypeOK, Stage, Time
<1>4. Given
  BY <1>1, StatsAssumption DEF Init, Given
<1>5. Summed
  BY StatsAssumption DEF Init, Summed
<1> QED BY <1>3, <1>4, <1>5 DEF Init, StatsInv, Counting, Counted

-----------------------------------------------------------------------------
(* The actions. *)

(* The rows of a SELECT are finitely many subscriptions. *)
LEMMA SelectedFinite ==
  IsFiniteSet(Selected) /\ Selected \subseteq ID /\ \A id \in Selected : table[id] # Nil
BY StatsAssumption, FS_Subset DEF Selected

(* What is computed from the table and the request alone does not change. *)
LEMMA Unmoved ==
  ASSUME UNCHANGED <<table, req>>
  PROVE  /\ Selected' = Selected
         /\ validateStatsParams(req)' = validateStatsParams(req)
         /\ \A sub : IntersectionStart(sub)' = IntersectionStart(sub)
         /\ \A sub, now : IntersectionEnd(sub, now)' = IntersectionEnd(sub, now)
         /\ \A ids, now : BilledRubles(ids, now)' = BilledRubles(ids, now)
         /\ NoneExcepted' = NoneExcepted
<1>1. PeriodStart' = PeriodStart /\ PeriodEnd' = PeriodEnd
  BY DEF PeriodStart, PeriodEnd
<1>2. Selected' = Selected /\ validateStatsParams(req)' = validateStatsParams(req)
  BY <1>1 DEF Selected, MatchesFilter, InPeriod, validateStatsParams
<1>3. /\ \A sub : IntersectionStart(sub)' = IntersectionStart(sub)
      /\ \A sub, now : IntersectionEnd(sub, now)' = IntersectionEnd(sub, now)
  BY <1>1 DEF IntersectionStart, IntersectionEnd
<1>4. \A sub, now : BilledMonths(sub, now)' = BilledMonths(sub, now)
  BY <1>1 DEF BilledMonths
<1>5. \A ids, now : BilledRubles(ids, now)' = BilledRubles(ids, now)
  BY <1>4 DEF BilledRubles
<1>6. NoneExcepted' = NoneExcepted
  BY <1>1 DEF NoneExcepted, Wanted, MatchesFilter, BilledAsDocumented
<1> QED BY <1>2, <1>3, <1>5, <1>6

(* A request is validated before anything is read. *)
LEMMA ValidateKeeps == ASSUME StatsInv, Validate PROVE StatsInv'
<1>1. TypeOK'
  BY DEF StatsInv, TypeOK, Validate, Give, Stage, loop
<1>2. Given' /\ Counting' /\ Counted'
  BY Unmoved DEF StatsInv, Given, Counting, Counted, Validate, Give
<1>3. Summed'
  BY Unmoved DEF StatsInv, Summed, Validate, Give, loop
<1> QED BY <1>1, <1>2, <1>3 DEF StatsInv

(* The SELECT has all its rows still to come. *)
LEMMA SelectKeeps == ASSUME StatsInv, Select PROVE StatsInv'
<1>1. TypeOK'
  BY SelectedFinite DEF StatsInv, TypeOK, Select, Stage, loop
<1>2. Given' /\ Counting'
  BY Unmoved DEF StatsInv, Given, Counting, Select
<1>3. Counted'
  BY Unmoved, FS_EmptySet DEF StatsInv, Counted, Select
<1>4. Summed'
  BY DEF StatsInv, Summed, Select, loop
<1> QED BY <1>1, <1>2, <1>3, <1>4 DEF StatsInv

(* A row that comes is counted once. *)
LEMMA ScanRowKeeps == ASSUME StatsInv, ScanRow PROVE StatsInv'
<1>1. PICK id \in rows : rows' = rows \ {id} /\ subs' = subs \cup {id}
  BY DEF ScanRow
<1>2. TypeOK'
  BY <1>1 DEF StatsInv, TypeOK, ScanRow, Stage, loop
<1>3. Given' /\ Counting'
  BY Unmoved DEF StatsInv, Given, Counting, ScanRow
<1>4. subs \cup rows = Selected /\ subs \cap rows = {} /\ count = Cardinality(subs)
  BY DEF StatsInv, Counted, ScanRow
<1>5. IsFiniteSet(subs)
  BY <1>4, SelectedFinite, FS_Subset
<1>6. Cardinality(subs \cup {id}) = Cardinality(subs) + 1
  BY <1>1, <1>4, <1>5, FS_AddElement
<1>7. Counted'
  <2>1. (subs \cup {id}) \cup (rows \ {id}) = subs \cup rows
    BY <1>1
  <2>2. (subs \cup {id}) \cap (rows \ {id}) = {}
    BY <1>1, <1>4
  <2> QED BY <1>1, <1>4, <1>6, <2>1, <2>2, Unmoved DEF StatsInv, Counted, ScanRow
<1>8. Summed'
  BY DEF StatsInv, Summed, ScanRow, loop
<1> QED BY <1>2, <1>3, <1>7, <1>8 DEF StatsInv

(* When the rows end all of them have been counted. *)
LEMMA ScanEndsKeeps == ASSUME StatsInv, ScanEnds PROVE StatsInv'
<1>1. TypeOK'
  BY DEF StatsInv, TypeOK, ScanEnds, Stage, loop
<1>2. Given' /\ Counting'
  BY Unmoved DEF StatsInv, Given, Counting, ScanEnds
<1>3. subs = Selected
  BY DEF StatsInv, Counted, ScanEnds
<1>4. Counted'
  BY <1>3, Unmoved DEF StatsInv, Counted, ScanEnds
<1>5. Summed'
  <2>1. Added' = {}
    BY <1>3, Unmoved DEF Added, ScanEnds
  <2>2. \A now : Cardinality(BilledRubles({}, now)) = 0
    BY FS_EmptySet DEF BilledRubles
  <2>3. IsCostOf(total, Added)'
    BY <2>1, <2>2, Unmoved DEF StatsInv, Summed, IsCostOf, ScanEnds
  <2> QED BY <1>3, <2>3, Unmoved DEF StatsInv, Summed, ScanEnds, loop
<1> QED BY <1>1, <1>2, <1>4, <1>5 DEF StatsInv

(* An error answers nothing that was counted. *)
LEMMA QueryFailsKeeps == ASSUME StatsInv, QueryFails PROVE StatsInv'
<1>1. TypeOK'
  BY DEF StatsInv, TypeOK, QueryFails, Give, Stage, loop
<1>2. Given' /\ Counting' /\ Counted'
  BY Unmoved DEF StatsInv, Given, Counting, Counted, QueryFails, Give
<1>3. Summed'
  BY Unmoved DEF StatsInv, Summed, QueryFails, Give, loop
<1> QED BY <1>1, <1>2, <1>3 DEF StatsInv

(* The loop starts at the first month of the intersection. *)
LEMMA NextSubscriptionKeeps == ASSUME StatsInv, NextSubscription PROVE StatsInv'
<1>1. PICK id \in subs :
        /\ subs' = subs \ {id} /\ current' = id
        /\ start' = IntersectionStart(table[id])
        /\ end' = IntersectionEnd(table[id], clock)
  BY DEF NextSubscription
<1>2. id \in ID /\ table[id] \in Sub /\ table[id] # Nil /\ req \in StatsRequest /\ clock \in Int
  BY <1>1 DEF StatsInv, TypeOK, Table
<1>3. /\ IntersectionStart(table[id]) \in Int
      /\ IntersectionEnd(table[id], clock) \in [month : Int, zone : {-1, 0, 1}]
  BY <1>2, IntersectionTyped
<1>4. TypeOK'
  BY <1>1, <1>2, <1>3 DEF StatsInv, TypeOK, NextSubscription, Stage, Time
<1>5. Given' /\ Counted'
  BY Unmoved DEF StatsInv, Given, Counted, NextSubscription
<1>6. Counting'
  BY <1>1, <1>2, <1>3, Unmoved DEF Counting, NextSubscription
<1>7. Summed'
  <2>1. id \in Selected /\ subs \subseteq Selected
    BY <1>1 DEF StatsInv, Summed, NextSubscription
  <2>2. Added' = Added
    BY <1>1, Unmoved DEF Added, NextSubscription
  <2>3. NoneExcepted => IsCostOf(total, Added)'
    BY <2>2, Unmoved DEF StatsInv, Summed, IsCostOf, NextSubscription
  <2>4. FirstMonth <= clock
    BY StatsAssumption DEF StatsInv, TypeOK, Summed
  <2> QED BY <1>1, <1>2, <2>1, <2>3, <2>4, Unmoved DEF StatsInv, Summed, NextSubscription
<1> QED BY <1>4, <1>5, <1>6, <1>7 DEF StatsInv

(* One month further. *)
LEMMA CountMonthKeeps == ASSUME StatsInv, CountMonth PROVE StatsInv'
<1>1. start \in Int /\ months \in Nat
  BY DEF StatsInv, TypeOK, Time
<1>2. TypeOK'
  BY <1>1 DEF StatsInv, TypeOK, CountMonth, Stage, Time
<1>3. Given' /\ Counted'
  BY Unmoved DEF StatsInv, Given, Counted, CountMonth
<1>4. /\ start' = start + 1 /\ months' = months + 1 /\ end' = end
      /\ current' = current /\ asOf' = asOf /\ table' = table /\ req' = req
      /\ start = IntersectionStart(table[current]) + months
      /\ end = IntersectionEnd(table[current], asOf)
      /\ Instant(start, 0) <= Instant(end.month, end.zone)
  BY DEF StatsInv, Counting, CountMonth, InLoop
<1>5. IntersectionStart(table[current]) \in Int
  <2>1. table[current] \in Sub /\ req \in StatsRequest /\ asOf \in Int
    BY DEF StatsInv, TypeOK, Table, CountMonth
  <2> QED BY <2>1, IntersectionTyped
<1>6. start' = IntersectionStart(table[current]) + months' /\ start' - 1 = start
  BY <1>1, <1>4, <1>5
<1>7. Counting'
  BY <1>4, <1>6, Unmoved DEF Counting, Instant
<1>8. Summed'
  <2>1. Added' = Added
    BY Unmoved DEF Added, CountMonth
  <2>2. NoneExcepted => IsCostOf(total, Added)'
    BY <2>1, Unmoved DEF StatsInv, Summed, IsCostOf, CountMonth
  <2> QED BY <2>2, Unmoved DEF StatsInv, Summed, CountMonth
<1> QED BY <1>2, <1>3, <1>7, <1>8 DEF StatsInv

(* When the loop ends months is the number of documented months. *)
LEMMA MonthsExact ==
  ASSUME StatsInv, stage = "count", ~InLoop, BilledAsDocumented(table[current], asOf)
  PROVE  months = Cardinality(BilledMonths(table[current], asOf))
<1> DEFINE first == IntersectionStart(table[current])
           last == IntersectionEnd(table[current], asOf)
<1>1. /\ table[current] \in Sub /\ req \in StatsRequest /\ asOf \in Int
      /\ months \in Nat /\ start \in Int
  BY DEF StatsInv, TypeOK, Table, Time
<1>2. first \in Int /\ last \in [month : Int, zone : {-1, 0, 1}]
  BY <1>1, IntersectionTyped
<1>3. last.zone \in {-1, 0}
  BY <1>2, StatsAssumption DEF IntersectionEnd, BilledAsDocumented
<1>4. /\ start = first + months /\ end = last
      /\ months > 0 => Instant(start - 1, 0) <= Instant(last.month, last.zone)
  BY DEF StatsInv, Counting
<1>5. ~(Instant(start, 0) <= Instant(last.month, last.zone))
  BY <1>4 DEF InLoop
<1>6. last.month \in Int
  BY <1>2
<1>7. start > last.month /\ (months > 0 => start - 1 <= last.month)
  BY <1>1, <1>3, <1>4, <1>5, <1>6 DEF Instant
<1>8. months = IF first > last.month THEN 0 ELSE last.month - first + 1
  BY <1>1, <1>2, <1>4, <1>6, <1>7
<1>9. BilledMonths(table[current], asOf) = first .. last.month
  BY <1>1, BilledInterval DEF BilledAsDocumented
<1> QED BY <1>2, <1>6, <1>8, <1>9, FS_Interval

(* A subscription's cost lies between what it was in the first month and what it is now. *)
LEMMA MonthsBetweenClocks ==
  ASSUME StatsInv, AddCost, NoneExcepted
  PROVE  LET cost(now) == table[current].price * Cardinality(BilledMonths(table[current], now))
         IN  /\ cost(FirstMonth) \in Nat /\ cost(clock) \in Nat
             /\ table[current].price * months \in Nat
             /\ cost(FirstMonth) <= table[current].price * months
             /\ table[current].price * months <= cost(clock)
<1> DEFINE cost(now) == table[current].price * Cardinality(BilledMonths(table[current], now))
           ids == {current}
<1>1. /\ current \in ID /\ current \in Selected /\ table[current] # Nil /\ TypeOK
      /\ table[current] \in Sub /\ asOf \in Int /\ clock \in Int /\ FirstMonth \in Int
      /\ FirstMonth <= asOf /\ asOf <= clock
  BY StatsAssumption DEF StatsInv, TypeOK, Summed, Table, AddCost
<1>2. BilledAsDocumented(table[current], asOf)
  <2>1. BilledAsDocumented(table[current], FirstMonth)
    BY <1>1 DEF NoneExcepted, Wanted, Selected
  <2>2. table[current].end \in Int \cup {Nil}
    BY <1>1 DEF Sub, OptionalTime, Time
  <2> QED BY <1>1, <2>1, <2>2 DEF BilledAsDocumented
<1>3. table[current].price * months = cost(asOf)
  BY <1>2, MonthsExact DEF AddCost
<1>4. ASSUME NEW now \in Int
      PROVE  cost(now) \in Nat /\ cost(now) = Cardinality(BilledRubles({current}, now))
  <2> DEFINE rubles == {current} \X (BilledMonths(table[current], now) \X (1..table[current].price))
  <2>1. IsFiniteSet(rubles) /\ Cardinality(rubles) = cost(now)
    BY <1>1, CostOfOne
  <2>2. BilledRubles({current}, now) = rubles
    BY DEF BilledRubles
  <2> HIDE DEF rubles, cost
  <2> QED BY <2>1, <2>2, FS_CardinalityType
<1>5. ASSUME NEW now \in Int, NEW later \in Int, now <= later
      PROVE  cost(now) <= cost(later)
  <2> HIDE DEF cost
  <2>1. Cardinality(BilledRubles({current}, now)) <= Cardinality(BilledRubles({current}, later))
    BY <1>1, <1>5, CostGrows
  <2> QED BY <1>4, <2>1
<1>6. /\ cost(FirstMonth) \in Nat /\ cost(clock) \in Nat /\ cost(asOf) \in Nat
      /\ cost(FirstMonth) <= cost(asOf) /\ cost(asOf) <= cost(clock)
  BY <1>1, <1>4, <1>5
<1> QED BY <1>3, <1>6

(* A price times a number of months is a cost. *)
LEMMA AddCostKeeps == ASSUME StatsInv, AddCost PROVE StatsInv'
<1>1. total' \in Nat
  <2>1. table[current].price \in Nat /\ months \in Nat /\ total \in Nat
    BY DEF StatsInv, TypeOK, Table, AddCost, Sub
  <2>2. table[current].price * months \in Nat
    BY <2>1
  <2> QED BY <2>1, <2>2 DEF AddCost
<1>2. TypeOK'
  BY <1>1 DEF StatsInv, TypeOK, AddCost, Stage, loop
<1>3. Given' /\ Counting' /\ Counted'
  BY Unmoved DEF StatsInv, Given, Counting, Counted, AddCost
<1>4. NoneExcepted => IsCostOf(total, Added)'
  <2> SUFFICES ASSUME NoneExcepted PROVE IsCostOf(total, Added)'
    OBVIOUS
  <2> DEFINE price == table[current].price
             cost(now) == price * Cardinality(BilledMonths(table[current], now))
             sum(ids, now) == Cardinality(BilledRubles(ids, now))
  <2>1. /\ current \in Selected \ subs /\ subs \subseteq Selected /\ current \in ID
        /\ table[current] # Nil /\ TypeOK /\ clock \in Int /\ FirstMonth \in Int /\ total \in Nat
    BY StatsAssumption DEF StatsInv, TypeOK, Summed, AddCost
  <2>2. Added = Selected \ (subs \cup {current}) /\ Added' = Selected \ subs
    BY Unmoved DEF Added, AddCost
  <2>3. Added' = Added \cup {current} /\ current \notin Added
    BY <2>1, <2>2
  <2>4. Added \subseteq ID /\ \A id \in Added : table[id] # Nil
    BY <2>2, SelectedFinite
  <2>5. ASSUME NEW now \in Int
        PROVE  sum(Added, now) \in Nat /\ sum(Added \cup {current}, now) = sum(Added, now) + cost(now)
    BY <2>1, <2>3, <2>4, CostFinite, CostOfAnother
  <2>6. sum(Added, FirstMonth) <= total /\ total <= sum(Added, clock)
    BY DEF StatsInv, Summed, IsCostOf, AddCost
  <2>7. /\ cost(FirstMonth) \in Nat /\ cost(clock) \in Nat /\ price * months \in Nat
        /\ cost(FirstMonth) <= price * months /\ price * months <= cost(clock)
    BY MonthsBetweenClocks
  <2>8. /\ sum(Added \cup {current}, FirstMonth) <= total + price * months
        /\ total + price * months <= sum(Added \cup {current}, clock)
    <3> HIDE DEF sum, cost
    <3>1. sum(Added, FirstMonth) \in Nat /\ sum(Added, clock) \in Nat
      BY <2>1, <2>5
    <3>2. sum(Added \cup {current}, FirstMonth) = sum(Added, FirstMonth) + cost(FirstMonth)
      BY <2>1, <2>5
    <3>3. sum(Added \cup {current}, clock) = sum(Added, clock) + cost(clock)
      BY <2>1, <2>5
    <3> DEFINE more == price * months
    <3>4. /\ more \in Nat /\ total + more = total + price * months
          /\ cost(FirstMonth) <= more /\ more <= cost(clock)
      BY <2>7
    <3> HIDE DEF more
    <3> QED BY <2>1, <2>6, <2>7, <3>1, <3>2, <3>3, <3>4
  <2>9. total' = total + price * months /\ clock' = clock /\ table' = table /\ req' = req
    BY DEF AddCost
  <2> QED BY <2>3, <2>8, <2>9, Unmoved DEF IsCostOf
<1>5. Summed'
  BY <1>4, Unmoved DEF StatsInv, Summed, AddCost, loop
<1> QED BY <1>2, <1>3, <1>5 DEF StatsInv

(* The answer carries the total and the count. *)
LEMMA AnswerKeeps == ASSUME StatsInv, Answer PROVE StatsInv'
<1>1. TypeOK'
  BY DEF StatsInv, TypeOK, Answer, Stage, loop
<1>2. Given' /\ Counting' /\ Counted'
  BY Unmoved DEF StatsInv, Given, Counting, Counted, Answer
<1>3. Summed'
  <2>1. Added = Selected
    BY DEF Added, Answer
  <2>2. NoneExcepted => IsCostOf(total, Selected)
    BY <2>1 DEF StatsInv, Summed, Answer
  <2>3. NoneExcepted => IsCostOf(answer.total, Selected)'
    BY <2>2, Unmoved DEF IsCostOf, Answer
  <2> QED BY <2>3, Unmoved DEF StatsInv, Summed, Answer, loop
<1> QED BY <1>1, <1>2, <1>3 DEF StatsInv

(* The clock is read once for a subscription; later ticks do not matter to it. *)
LEMMA TickKeeps == ASSUME StatsInv, Tick PROVE StatsInv'
<1>1. TypeOK'
  BY DEF StatsInv, TypeOK, Tick, loop
<1>2. Given' /\ Counting' /\ Counted'
  BY Unmoved DEF StatsInv, Given, Counting, Counted, Tick, loop
<1>3. clock \in Int /\ clock' \in Int /\ asOf \in Int /\ FirstMonth \in Int /\ clock <= clock'
  BY StatsAssumption DEF StatsInv, TypeOK, Tick
<1>4. NoneExcepted /\ stage \in {"sum", "count"} => IsCostOf(total, Added)'
  <2> SUFFICES ASSUME NoneExcepted, stage \in {"sum", "count"} PROVE IsCostOf(total, Added)'
    OBVIOUS
  <2>1. Added' = Added
    BY Unmoved DEF Added, Tick, loop
  <2>2. Added \subseteq ID /\ \A id \in Added : table[id] # Nil
    BY SelectedFinite DEF Added
  <2>3. /\ Cardinality(BilledRubles(Added, clock)) \in Nat
        /\ Cardinality(BilledRubles(Added, clock')) \in Nat
        /\ Cardinality(BilledRubles(Added, clock)) <= Cardinality(BilledRubles(Added, clock'))
    BY <1>3, <2>2, CostFinite, CostGrows DEF StatsInv
  <2>4. IsCostOf(total, Added) /\ total \in Nat
    BY DEF StatsInv, TypeOK, Summed
  <2> QED BY <2>1, <2>3, <2>4, Unmoved DEF IsCostOf, Tick
<1>5. Summed'
  BY <1>3, <1>4, Unmoved DEF StatsInv, Summed, Tick, loop
<1> QED BY <1>1, <1>2, <1>5 DEF StatsInv

-----------------------------------------------------------------------------
(* The invariant holds in every state. *)
THEOREM StatsInvHolds == Spec => []StatsInv
<1>1. StatsInv /\ [Next]_vars => StatsInv'
  <2> SUFFICES ASSUME StatsInv, [Next]_vars PROVE StatsInv'
    OBVIOUS
  <2>1. CASE UNCHANGED vars
    BY <2>1, Unmoved DEF StatsInv, TypeOK, Given, Counting, Counted, Summed, Added, IsCostOf, vars
  <2> QED BY <2>1, ValidateKeeps, SelectKeeps, ScanRowKeeps, ScanEndsKeeps, QueryFailsKeeps,
             NextSubscriptionKeeps, CountMonthKeeps, AddCostKeeps, AnswerKeeps, TickKeeps
          DEF Next, Handle, Done
<1> QED BY <1>1, StatsInit, PTL DEF Spec

(* Every variable keeps its type, whatever the subscriptions and the request are. *)
THEOREM StatsTypeCorrect == Spec => []TypeOK
<1>1. StatsInv => TypeOK
  BY DEF StatsInv
<1> QED BY <1>1, StatsInvHolds, PTL

(* The loop of monthsBetween counts the documented months, in all cases but the two   *)
(* that BilledAsDocumented excepts.                                               *)
THEOREM MonthsCounted == Spec => []MonthsAsDocumented
<1>1. StatsInv => MonthsAsDocumented
  BY MonthsExact DEF MonthsAsDocumented
<1> QED BY <1>1, StatsInvHolds, PTL

(* The total is the documented cost of everything the filter names, in some months of   *)
(* those that passed while the handler worked, but for the two excepted cases.         *)
THEOREM TotalIsBilled == Spec => []TotalAsBilled
<1>1. StatsInv => TotalAsBilled
  <2> SUFFICES ASSUME StatsInv, answer # Nil, answer.status = 200, NoneExcepted
               PROVE  IsCostOf(answer.total, Wanted)
    BY DEF TotalAsBilled
  <2>1. IsCostOf(answer.total, Selected)
    BY DEF StatsInv, Summed
  <2>2. \A now \in Int : BilledRubles(Wanted, now) = BilledRubles(Selected, now)
    BY UnselectedCostNothing DEF StatsInv
  <2>3. clock \in Int /\ FirstMonth \in Int
    BY StatsAssumption DEF StatsInv, TypeOK
  <2> QED BY <2>1, <2>2, <2>3 DEF IsCostOf
<1> QED BY <1>1, StatsInvHolds, PTL

(* With a whole period, the rows the WHERE clauses let through are exactly those with   *)
(* months to bill.                                                              *)
THEOREM CountIsOfBilled == Spec => []CountAsBilled
<1>1. StatsInv => CountAsBilled
  <2> SUFFICES ASSUME StatsInv, answer # Nil, answer.status = 200,
                      PeriodStart # Nil, PeriodEnd # Nil
               PROVE  answer.count =
                        Cardinality({id \in Wanted : BilledMonths(table[id], clock) # {}})
    BY DEF CountAsBilled
  <2>1. /\ PeriodStart \in Int /\ PeriodEnd \in Int /\ PeriodStart <= PeriodEnd
        /\ req \in StatsRequest /\ clock \in Int
    <3>1. req \in StatsRequest /\ clock \in Int /\ validateStatsParams(req)
      BY DEF StatsInv, TypeOK, Given
    <3>2. PeriodStart \in Int /\ PeriodEnd \in Int
      BY <3>1, PeriodTyped
    <3> QED BY <3>1, <3>2 DEF validateStatsParams, PeriodStart, PeriodEnd
  <2>2. ASSUME NEW id \in Wanted
        PROVE  BilledMonths(table[id], clock) # {} <=> InPeriod(table[id])
    <3> DEFINE sub == table[id]
               first == IntersectionStart(sub)
               last == IntersectionEnd(sub, clock).month
    <3>1. /\ sub \in Sub /\ sub.start \in Int /\ sub.end \in Int \cup {Nil}
          /\ sub.end # Nil => sub.end >= sub.start
      BY <2>2 DEF Wanted, StatsInv, TypeOK, Given, Table, Sub, Time, OptionalTime
    <3>2. BilledMonths(sub, clock) = first .. last
      BY <2>1, <3>1, BilledInterval
    <3>3. first = IF sub.start > PeriodStart THEN sub.start ELSE PeriodStart
      BY DEF IntersectionStart, Later
    <3>4. last = IF sub.end = Nil THEN PeriodEnd
                 ELSE IF sub.end < PeriodEnd THEN sub.end ELSE PeriodEnd
      BY DEF IntersectionEnd, Earlier
    <3>5. first \in Int /\ last \in Int
      BY <2>1, <3>1, <3>3, <3>4, DataAssumption
    <3>6. first <= last <=> InPeriod(sub)
      BY <2>1, <3>1, <3>3, <3>4, DataAssumption DEF InPeriod
    <3>7. first .. last # {} <=> first <= last
      <4>1. ASSUME first <= last PROVE first \in first .. last
        BY <3>5, <4>1
      <4> QED BY <3>5, <4>1
    <3> QED BY <3>2, <3>6, <3>7
  <2>3. {id \in Wanted : BilledMonths(table[id], clock) # {}} = Selected
    BY <2>2 DEF Wanted, Selected
  <2>4. answer.count = Cardinality(Selected)
    BY DEF StatsInv, Counted
  <2> QED BY <2>3, <2>4
<1> QED BY <1>1, StatsInvHolds, PTL

=============================================================================
