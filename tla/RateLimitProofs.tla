--------------------------- MODULE RateLimitProofs ---------------------------
(***************************************************************************)
(* Proofs about RateLimit for every set of quotas, number of requests and  *)
(* stretch of time.                                                        *)
(***************************************************************************)
EXTENDS RateLimit, FiniteSetTheorems, WellFoundedInduction, TLAPS

-----------------------------------------------------------------------------
(* The arithmetic of windows and estimates.                                *)
InView(q, t) == Window[q] - Elapsed(q, t)

(* A quota has a window and a ceiling, neither of them zero.               *)
LEMMA WindowIsNat ==
    ASSUME NEW q \in Enforced
    PROVE  Window[q] \in Nat /\ Window[q] > 0 /\ Ceiling[q] \in Nat /\ Ceiling[q] > 0
  BY QuotaAssumption DEF Enforced

(* Integer division.                                                       *)
LEMMA Division ==
    ASSUME NEW t \in Nat, NEW w \in Nat, w > 0
    PROVE  /\ t \div w \in Nat /\ t \div w <= t
           /\ t % w \in Nat /\ t % w < w
           /\ t = w * (t \div w) + (t % w)
  <1>1. t \div w \in Int /\ t \div w >= 0 OBVIOUS
  <1>2. t % w \in 0..(w - 1) OBVIOUS
  <1>3. t \div w <= t OBVIOUS
  <1>4. t = w * (t \div w) + (t % w) OBVIOUS
  <1> QED BY <1>1, <1>2, <1>3, <1>4

(* A moment lies in exactly one window of a quota.                         *)
LEMMA WindowOfTime ==
    ASSUME NEW q \in Enforced, NEW t \in Nat
    PROVE  /\ WindowAt(q, t) \in Nat /\ WindowAt(q, t) <= t
           /\ Elapsed(q, t) \in Nat /\ Elapsed(q, t) < Window[q]
           /\ t = Window[q] * WindowAt(q, t) + Elapsed(q, t)
           /\ InView(q, t) \in Nat /\ InView(q, t) > 0 /\ InView(q, t) <= Window[q]
  <1>1. Window[q] \in Nat /\ Window[q] > 0 BY WindowIsNat
  <1>2. /\ WindowAt(q, t) \in Nat /\ WindowAt(q, t) <= t
        /\ Elapsed(q, t) \in Nat /\ Elapsed(q, t) < Window[q]
        /\ t = Window[q] * WindowAt(q, t) + Elapsed(q, t)
    BY <1>1, Division DEF WindowAt, Elapsed
  <1> QED BY <1>1, <1>2 DEF InView

(* Multiplying by a window keeps an order.                                 *)
LEMMA TimesOrder ==
    ASSUME NEW w \in Nat, NEW a \in Int, NEW b \in Int, a <= b
    PROVE  w * a <= w * b /\ w * a \in Int /\ w * b \in Int
  BY Z3

(* Strictly, when the window is not zero.                                  *)
LEMMA TimesStrict ==
    ASSUME NEW w \in Nat, w > 0, NEW a \in Int, NEW b \in Int
    PROVE  a < b <=> w * a < w * b
  BY Z3

(* An integer quotient is below a bound as the exact one is.               *)
LEMMA QuotientBelow ==
    ASSUME NEW w \in Nat, w > 0, NEW a \in Nat, NEW k \in Int
    PROVE  a \div w \in Nat /\ (a \div w < k <=> a < w * k)
  <1> DEFINE d == a \div w
  <1> DEFINE m == a % w
  <1>2. d \in Nat /\ a = w * d + m /\ m \in 0..(w - 1) BY Division
  <1> HIDE DEF d, m
  <1>3. ASSUME d < k PROVE a < w * k
    <2>1. w * (d + 1) <= w * k BY <1>2, <1>3, TimesOrder
    <2>2. w * (d + 1) = w * d + w BY <1>2
    <2> QED BY <1>2, <2>1, <2>2
  <1>4. ASSUME k <= d PROVE w * k <= a
    <2>1. w * k <= w * d BY <1>2, <1>4, TimesOrder
    <2> QED BY <1>2, <2>1
  <1> QED BY <1>2, <1>3, <1>4 DEF d

(* A quota has room exactly when the weighted counters are below it.       *)
LEMMA EstimateBelow ==
    ASSUME NEW q \in Enforced, NEW previous \in Nat, NEW current \in Nat,
           NEW e \in Nat, e <= Window[q], NEW k \in Int
    PROVE  /\ Estimate(q, previous, current, e) \in Nat
           /\ current <= Estimate(q, previous, current, e)
           /\ Estimate(q, previous, current, e) < k
                <=> Window[q] * current + previous * (Window[q] - e) < Window[q] * k
  <1> DEFINE w == Window[q]
  <1> DEFINE a == previous * (w - e)
  <1>1. w \in Nat /\ w > 0 BY WindowIsNat
  <1>2. a \in Nat
    <2>1. w - e \in Nat BY <1>1
    <2> HIDE DEF w
    <2> QED BY <2>1
  <1>3. Estimate(q, previous, current, e) = current + (a \div w) BY DEF Estimate
  <1> HIDE DEF w, a
  <1>4. k - current \in Int OBVIOUS
  <1>5. a \div w \in Nat /\ (a \div w < k - current <=> a < w * (k - current))
    BY <1>1, <1>2, <1>4, QuotientBelow
  <1>6. w * (k - current) = w * k - w * current BY <1>1
  <1>7. w * k \in Int /\ w * current \in Int BY <1>1
  <1>8. current + (a \div w) < k <=> w * current + a < w * k
    BY <1>1, <1>2, <1>5, <1>6, <1>7
  <1> QED BY <1>3, <1>5, <1>8 DEF w, a
-----------------------------------------------------------------------------
(* What the store and the readings hold, and what a step does to them.     *)
Cell == [current : Nat \cup {Failed}, previous : Nat \cup {Failed}, done : BOOLEAN]

(* A counter reads a natural number.                                       *)
LEMMA ReadIsNat ==
    ASSUME TypeOK, NEW q \in Enforced, NEW i
    PROVE  Read(q, i) \in Nat
  <1>1. count \in [Enforced -> [Index -> Nat]] BY DEF TypeOK
  <1>2. i \in Index => count[q][i] \in Nat BY <1>1
  <1> QED BY <1>2 DEF Read

(* The window of a request's counter has an index.                         *)
WindowOf(r, q) == WindowAt(q, at[r])

(* Which is one of the bounded indices.                                    *)
LEMMA WindowHasIndex ==
    ASSUME TypeOK, NEW r \in Requests, NEW q \in Enforced
    PROVE  at[r] \in Nat /\ WindowOf(r, q) \in Index /\ WindowOf(r, q) \in Nat
  <1>1. at[r] \in 0..MaxTime /\ MaxTime \in Nat BY BoundAssumption DEF TypeOK
  <1>2. WindowOf(r, q) \in Nat /\ WindowOf(r, q) <= at[r] BY <1>1, WindowOfTime DEF WindowOf
  <1> QED BY <1>1, <1>2 DEF Index

(* One reading of one request is replaced.                                 *)
LEMMA OneCell ==
    ASSUME reading \in [Requests -> [Enforced -> Cell]],
           NEW r \in Requests, NEW q \in Enforced, NEW c \in Cell,
           reading' = [reading EXCEPT ![r] = [reading[r] EXCEPT ![q] = c]]
    PROVE  /\ reading' \in [Requests -> [Enforced -> Cell]]
           /\ reading'[r][q] = c
           /\ \A s \in Requests, p \in Enforced :
                s # r \/ p # q => reading'[s][p] = reading[s][p]
  <1> DEFINE row == [reading[r] EXCEPT ![q] = c]
  <1>1. reading[r] \in [Enforced -> Cell] OBVIOUS
  <1>2. row \in [Enforced -> Cell] /\ row[q] = c BY <1>1
  <1>3. \A p \in Enforced : p # q => row[p] = reading[r][p] BY <1>1
  <1>4. reading' = [reading EXCEPT ![r] = row] OBVIOUS
  <1> HIDE DEF row
  <1>5. reading' \in [Requests -> [Enforced -> Cell]] BY <1>2, <1>4
  <1>6. reading'[r] = row /\ \A s \in Requests : s # r => reading'[s] = reading[s]
    BY <1>4
  <1> QED BY <1>2, <1>3, <1>5, <1>6

(* The first reading: a counter as it is, or a failure.                    *)
LEMMA ReadsCurrent ==
    ASSUME TypeOK, NEW r \in Requests, ReadCurrent(r)
    PROVE  /\ quota[r] \in Enforced
           /\ reading' \in [Requests -> [Enforced -> Cell]]
           /\ \/ reading'[r][quota[r]].current = Failed
              \/ reading'[r][quota[r]].current = Read(quota[r], WindowOf(r, quota[r]))
           /\ reading'[r][quota[r]].done = reading[r][quota[r]].done
           /\ \A s \in Requests, p \in Enforced :
                s # r \/ p # quota[r] => reading'[s][p] = reading[s][p]
  <1> DEFINE q == quota[r]
  <1>1. q \in Enforced /\ reading \in [Requests -> [Enforced -> Cell]]
    BY DEF TypeOK, Cell
  <1>2. PICK v \in Answered(r, Read(q, WindowOf(r, q))) :
          reading' = [reading EXCEPT ![r][q].current = v]
    BY DEF ReadCurrent, WindowOf
  <1>3. (v = Read(q, WindowOf(r, q)) \/ v = Failed) /\ v \in Nat \cup {Failed}
    BY <1>1, <1>2, ReadIsNat DEF Answered
  <1> DEFINE c == [reading[r][q] EXCEPT !.current = v]
  <1>4. reading[r][q] \in Cell BY <1>1
  <1>5. c \in Cell /\ c.current = v /\ c.done = reading[r][q].done
    BY <1>3, <1>4 DEF Cell
  <1>6. reading' = [reading EXCEPT ![r] = [reading[r] EXCEPT ![q] = c]]
    BY <1>2, Zenon
  <1> HIDE DEF q, c
  <1>7. /\ reading' \in [Requests -> [Enforced -> Cell]]
        /\ reading'[r][q] = c
        /\ \A s \in Requests, p \in Enforced :
             s # r \/ p # q => reading'[s][p] = reading[s][p]
    BY <1>1, <1>5, <1>6, OneCell
  <1> QED BY <1>1, <1>3, <1>5, <1>7 DEF q

(* The second: the counter before it, and the quota is decided.            *)
LEMMA ReadsPrevious ==
    ASSUME TypeOK, NEW r \in Requests, ReadPrevious(r)
    PROVE  /\ quota[r] \in Enforced
           /\ reading' \in [Requests -> [Enforced -> Cell]]
           /\ \/ reading'[r][quota[r]].previous = Failed
              \/ reading'[r][quota[r]].previous = Read(quota[r], WindowOf(r, quota[r]) - 1)
           /\ reading'[r][quota[r]].current = reading[r][quota[r]].current
           /\ reading'[r][quota[r]].done
           /\ \A s \in Requests, p \in Enforced :
                s # r \/ p # quota[r] => reading'[s][p] = reading[s][p]
  <1> DEFINE q == quota[r]
  <1>1. q \in Enforced /\ reading \in [Requests -> [Enforced -> Cell]]
    BY DEF TypeOK, Cell
  <1>2. PICK v \in Answered(r, Read(q, WindowOf(r, q) - 1)) :
          reading' = [reading EXCEPT ![r][q] = [@ EXCEPT !.previous = v, !.done = TRUE]]
    BY DEF ReadPrevious, WindowOf
  <1>3. (v = Read(q, WindowOf(r, q) - 1) \/ v = Failed) /\ v \in Nat \cup {Failed}
    BY <1>1, <1>2, ReadIsNat DEF Answered
  <1> DEFINE c == [reading[r][q] EXCEPT !.previous = v, !.done = TRUE]
  <1>4. reading[r][q] \in Cell BY <1>1
  <1>5. c \in Cell /\ c.previous = v /\ c.current = reading[r][q].current /\ c.done
    BY <1>3, <1>4 DEF Cell
  <1>6. reading' = [reading EXCEPT ![r] = [reading[r] EXCEPT ![q] = c]]
    BY <1>2, Zenon
  <1> HIDE DEF q, c
  <1>7. /\ reading' \in [Requests -> [Enforced -> Cell]]
        /\ reading'[r][q] = c
        /\ \A s \in Requests, p \in Enforced :
             s # r \/ p # q => reading'[s][p] = reading[s][p]
    BY <1>1, <1>5, <1>6, OneCell
  <1> QED BY <1>1, <1>3, <1>5, <1>7 DEF q

(* An increment adds one to what its counter reads, and to no other; one   *)
(* of a counter that expired starts it anew.                               *)
LEMMA Increments ==
    ASSUME TypeOK, NEW q \in Enforced, NEW i \in Index, Increment(q, i), UNCHANGED now
    PROVE  /\ count' \in [Enforced -> [Index -> Nat]]
           /\ created' \in [Enforced -> [Index -> 0..MaxTime \cup {Never}]]
           /\ count'[q][i] # 0 /\ created'[q][i] \in {created[q][i], now}
           /\ created'[q][i] # Never
           /\ Read(q, i)' = Read(q, i) + 1
           /\ \A p \in Enforced, j \in Index :
                p # q \/ j # i => count'[p][j] = count[p][j] /\ created'[p][j] = created[p][j]
  <1> DEFINE live == created[q][i] # Never /\ now < created[q][i] + 2 * Window[q]
  <1> DEFINE n == IF live THEN count[q][i] + 1 ELSE 1
  <1> DEFINE d == IF live THEN created[q][i] ELSE now
  <1>1. /\ count \in [Enforced -> [Index -> Nat]]
        /\ created \in [Enforced -> [Index -> 0..MaxTime \cup {Never}]]
        /\ now \in 0..MaxTime
    BY BoundAssumption DEF TypeOK
  <1>2. count[q] \in [Index -> Nat] /\ created[q] \in [Index -> 0..MaxTime \cup {Never}]
    BY <1>1
  <1>3. n \in Nat /\ n # 0 /\ d \in 0..MaxTime /\ d # Never /\ d \in {created[q][i], now}
    BY <1>1, <1>2, BoundAssumption DEF Never
  <1> DEFINE counts == [count[q] EXCEPT ![i] = n]
  <1> DEFINE dates == [created[q] EXCEPT ![i] = d]
  <1>4. count' = [count EXCEPT ![q] = counts] BY Zenon DEF Increment
  <1>5. created' = [created EXCEPT ![q] = dates] BY Zenon DEF Increment
  <1>6. n = (IF live THEN count[q][i] + 1 ELSE 1) /\ (live => d = created[q][i])
        /\ (~live => d = now)
    OBVIOUS
  <1>7. counts \in [Index -> Nat] /\ counts[i] = n
        /\ \A j \in Index : j # i => counts[j] = count[q][j]
    <2> HIDE DEF n
    <2> QED BY <1>2, <1>3
  <1>8. dates \in [Index -> 0..MaxTime \cup {Never}] /\ dates[i] = d
        /\ \A j \in Index : j # i => dates[j] = created[q][j]
    <2> HIDE DEF d
    <2> QED BY <1>2, <1>3
  <1> HIDE DEF n, d, counts, dates
  <1>9. /\ count' \in [Enforced -> [Index -> Nat]] /\ count'[q] = counts
        /\ \A p \in Enforced : p # q => count'[p] = count[p]
    BY <1>1, <1>4, <1>7
  <1>10. /\ created' \in [Enforced -> [Index -> 0..MaxTime \cup {Never}]]
         /\ created'[q] = dates
         /\ \A p \in Enforced : p # q => created'[p] = created[p]
    BY <1>1, <1>5, <1>8
  <1>11. Read(q, i)' = n
    <2>1. Window[q] \in Nat /\ Window[q] > 0 BY WindowIsNat
    <2>2. now < d + 2 * Window[q]
      BY <1>1, <1>6, <2>1
    <2>3. count'[q][i] = n /\ created'[q][i] = d BY <1>7, <1>8, <1>9, <1>10
    <2> QED BY <1>3, <2>2, <2>3 DEF Read
  <1>12. Read(q, i) + 1 = n
    BY <1>2, <1>6 DEF Read
  <1> QED BY <1>3, <1>7, <1>8, <1>9, <1>10, <1>11, <1>12

(* A counter that neither changed nor expired reads what it read.          *)
LEMMA ReadStays ==
    ASSUME NEW q \in Enforced, NEW i, UNCHANGED now,
           i \in Index => count'[q][i] = count[q][i] /\ created'[q][i] = created[q][i]
    PROVE  Read(q, i)' = Read(q, i)
  BY DEF Read
-----------------------------------------------------------------------------
(* Types, and the order in which one request goes through its quotas.      *)
Gates ==
    \A r \in Requests, q \in Enforced :
       /\ pc[r] = "new" => quota[r] = 1
       /\ pc[r] \in {"new", "exempt"} => ~reading[r][q].done
       /\ pc[r] \in {"readCurrent", "readPrevious"} => (reading[r][q].done <=> q < quota[r])
       /\ pc[r] \in {"spend", "allowed", "denied"} => reading[r][q].done

(* A request that spent was refused by no quota, one that is denied was.   *)
Decisive ==
    \A r \in Requests :
       /\ spent[r] # {} => pc[r] \in {"spend", "allowed"} /\ ~Denied(r)
       /\ pc[r] = "denied" => Denied(r)

(* A counter is of its window or of a later moment, and of the past.       *)
Dated ==
    /\ \A r \in Requests : at[r] <= now
    /\ \A q \in Enforced, j \in Index :
         /\ created[q][j] = Never => count[q][j] = 0
         /\ created[q][j] # Never =>
              Window[q] * j <= created[q][j] /\ created[q][j] <= now

Room == Cardinality(Checking) <= InFlight

(* What a step of r leaves alone.                                          *)
Alone(r) ==
    \A s \in Requests : s # r =>
       /\ pc'[s] = pc[s] /\ at'[s] = at[s] /\ quota'[s] = quota[s]
       /\ spent'[s] = spent[s] /\ reading'[s] = reading[s]

(* A request is exempt, or takes its time and starts to read.              *)
LEMMA ChecksDo ==
    ASSUME TypeOK, NEW r \in Requests, Check(r)
    PROVE  /\ pc[r] = "new" /\ Alone(r)
           /\ \/ pc'[r] = "exempt" /\ at'[r] = at[r]
              \/ pc'[r] = "readCurrent" /\ at'[r] = now
           /\ pc' \in [Requests -> PC] /\ at' \in [Requests -> 0..MaxTime]
           /\ UNCHANGED <<now, count, created, quota, reading, spent>>
  <1>1. pc \in [Requests -> PC] /\ at \in [Requests -> 0..MaxTime] /\ now \in 0..MaxTime
    BY BoundAssumption DEF TypeOK
  <1> QED BY <1>1 DEF Check, PC, Alone

(* A first reading is followed by the second.                              *)
LEMMA ReadsDo ==
    ASSUME TypeOK, NEW r \in Requests, ReadCurrent(r)
    PROVE  /\ pc[r] = "readCurrent" /\ pc'[r] = "readPrevious" /\ Alone(r)
           /\ pc' \in [Requests -> PC]
           /\ UNCHANGED <<now, count, created, at, quota, spent>>
  <1>1. pc \in [Requests -> PC] BY DEF TypeOK
  <1>2. /\ pc[r] = "readCurrent" /\ pc' = [pc EXCEPT ![r] = "readPrevious"]
        /\ UNCHANGED <<now, count, created, at, quota, spent>>
    BY DEF ReadCurrent
  <1>3. \A s \in Requests : s # r => reading'[s] = reading[s]
    <2>1. PICK f : reading' = [reading EXCEPT ![r] = f] BY Zenon DEF ReadCurrent
    <2> QED BY <2>1 DEF TypeOK
  <1> QED BY <1>1, <1>2, <1>3 DEF PC, Alone

(* A second by the next quota, or by the second pass.                      *)
LEMMA DecidesDo ==
    ASSUME TypeOK, NEW r \in Requests, ReadPrevious(r)
    PROVE  /\ pc[r] = "readPrevious" /\ Alone(r)
           /\ \/ /\ quota[r] < Len(Window)
                 /\ pc'[r] = "readCurrent" /\ quota'[r] = quota[r] + 1
              \/ /\ quota[r] = Len(Window)
                 /\ pc'[r] = "spend" /\ quota'[r] = 1
           /\ pc' \in [Requests -> PC] /\ quota' \in [Requests -> Enforced]
           /\ UNCHANGED <<now, count, created, at, spent>>
  <1>1. pc \in [Requests -> PC] /\ quota \in [Requests -> Enforced] BY DEF TypeOK
  <1>2. Len(Window) \in Nat /\ Len(Window) > 0 BY QuotaAssumption
  <1>3. /\ pc[r] = "readPrevious" /\ UNCHANGED <<now, count, created, at, spent>>
        /\ IF quota[r] < Len(Window)
           THEN pc' = [pc EXCEPT ![r] = "readCurrent"] /\ quota' = [quota EXCEPT ![r] = quota[r] + 1]
           ELSE pc' = [pc EXCEPT ![r] = "spend"] /\ quota' = [quota EXCEPT ![r] = 1]
    BY Zenon DEF ReadPrevious
  <1>4. \A s \in Requests : s # r => reading'[s] = reading[s]
    <2>1. PICK f : reading' = [reading EXCEPT ![r] = f] BY Zenon DEF ReadPrevious
    <2> QED BY <2>1 DEF TypeOK
  <1> QED BY <1>1, <1>2, <1>3, <1>4 DEF PC, Alone, Enforced

(* The second pass spends or not, and ends after the last quota.           *)
LEMMA SpendsDo ==
    ASSUME TypeOK, NEW r \in Requests, Spend(r)
    PROVE  /\ pc[r] = "spend" /\ Alone(r)
           /\ \/ /\ quota[r] < Len(Window)
                 /\ pc'[r] = "spend" /\ quota'[r] = quota[r] + 1
              \/ /\ quota[r] = Len(Window) /\ quota'[r] = quota[r]
                 /\ pc'[r] = IF Denied(r) THEN "denied" ELSE "allowed"
           /\ \/ /\ Spends(r, quota[r])
                 /\ Increment(quota[r], WindowOf(r, quota[r]))
                 /\ spent'[r] = spent[r] \cup {quota[r]}
              \/ UNCHANGED <<count, created, spent>>
           /\ pc' \in [Requests -> PC] /\ quota' \in [Requests -> Enforced]
           /\ spent' \in [Requests -> SUBSET Enforced]
           /\ UNCHANGED <<now, at, reading>>
  <1>1. /\ pc \in [Requests -> PC] /\ quota \in [Requests -> Enforced]
        /\ spent \in [Requests -> SUBSET Enforced]
    BY DEF TypeOK
  <1>2. Len(Window) \in Nat /\ Len(Window) > 0 BY QuotaAssumption
  <1>3. /\ pc[r] = "spend" /\ UNCHANGED <<now, at, reading>> /\ Finish(r)
        /\ \/ /\ Spends(r, quota[r]) /\ Increment(quota[r], WindowOf(r, quota[r]))
              /\ spent' = [spent EXCEPT ![r] = spent[r] \cup {quota[r]}]
           \/ UNCHANGED <<count, created, spent>>
    BY Zenon DEF Spend, WindowOf
  <1>4. \/ /\ quota[r] < Len(Window) /\ pc' = pc
           /\ quota' = [quota EXCEPT ![r] = quota[r] + 1]
        \/ /\ ~(quota[r] < Len(Window)) /\ quota' = quota
           /\ pc' = [pc EXCEPT ![r] = IF Denied(r) THEN "denied" ELSE "allowed"]
    BY <1>3, Zenon DEF Finish
  <1>5. /\ pc' \in [Requests -> PC] /\ quota' \in [Requests -> Enforced]
        /\ \/ /\ quota[r] < Len(Window)
              /\ pc'[r] = "spend" /\ quota'[r] = quota[r] + 1
           \/ /\ quota[r] = Len(Window) /\ quota'[r] = quota[r]
              /\ pc'[r] = IF Denied(r) THEN "denied" ELSE "allowed"
        /\ \A s \in Requests : s # r => pc'[s] = pc[s] /\ quota'[s] = quota[s]
    BY <1>1, <1>2, <1>3, <1>4 DEF PC, Enforced
  <1>6. /\ spent' \in [Requests -> SUBSET Enforced]
        /\ \A s \in Requests : s # r => spent'[s] = spent[s]
    BY <1>1, <1>3
  <1>7. \/ /\ Spends(r, quota[r])
           /\ Increment(quota[r], WindowOf(r, quota[r]))
           /\ spent'[r] = spent[r] \cup {quota[r]}
        \/ UNCHANGED <<count, created, spent>>
    BY <1>1, <1>3
  <1> QED BY <1>3, <1>5, <1>6, <1>7 DEF Alone

(* The types at first.                                                     *)
LEMMA InitTypeOK == Init => TypeOK
  <1> SUFFICES ASSUME Init PROVE TypeOK OBVIOUS
  <1>1. 1 \in Enforced BY QuotaAssumption DEF Enforced
  <1>2. MaxTime \in Nat /\ StartTime \in 0..MaxTime BY BoundAssumption
  <1>3. NoReading \in Cell BY DEF NoReading, Cell, Failed
  <1>4. reading \in [Requests -> [Enforced -> Cell]] BY <1>3 DEF Init
  <1> QED BY <1>1, <1>2, <1>4 DEF Init, TypeOK, PC, Cell

(* The types after a step.                                                 *)
LEMMA NextTypeOK == TypeOK /\ [Next]_vars => TypeOK'
  <1> SUFFICES ASSUME TypeOK, [Next]_vars PROVE TypeOK' OBVIOUS
  <1> USE DEF Cell
  <1>1. ASSUME NEW r \in Requests, Check(r) PROVE TypeOK'
    BY <1>1, ChecksDo DEF TypeOK
  <1>2. ASSUME NEW r \in Requests, ReadCurrent(r) PROVE TypeOK'
    BY <1>2, ReadsDo, ReadsCurrent DEF TypeOK
  <1>3. ASSUME NEW r \in Requests, ReadPrevious(r) PROVE TypeOK'
    BY <1>3, DecidesDo, ReadsPrevious DEF TypeOK
  <1>4. ASSUME NEW r \in Requests, Spend(r) PROVE TypeOK'
    <2>1. quota[r] \in Enforced BY DEF TypeOK
    <2>2. WindowOf(r, quota[r]) \in Index BY <2>1, WindowHasIndex
    <2>3. now' = now BY <1>4, SpendsDo
    <2>4. /\ count' \in [Enforced -> [Index -> Nat]]
          /\ created' \in [Enforced -> [Index -> 0..MaxTime \cup {Never}]]
      BY <1>4, <2>1, <2>2, <2>3, SpendsDo, Increments DEF TypeOK
    <2> QED BY <1>4, <2>4, SpendsDo DEF TypeOK
  <1>5. CASE Tick
    BY <1>5, BoundAssumption DEF Tick, TypeOK
  <1>6. CASE UNCHANGED vars BY <1>6 DEF vars, TypeOK
  <1> QED BY <1>1, <1>2, <1>3, <1>4, <1>5, <1>6 DEF Next
-----------------------------------------------------------------------------
(* The control part of the invariant.                                      *)

(* The decisions on r depend on its readings and on the time it took.      *)
LEMMA DecisionsStay ==
    ASSUME NEW r, reading'[r] = reading[r], at'[r] = at[r]
    PROVE  /\ Denied(r)' <=> Denied(r)
           /\ \A q \in Enforced : Within(r, q)' <=> Within(r, q)
  BY DEF Denied, Denies, Refused, Within, Unread, Counted

(* Every step keeps a request in the order of its quotas.                  *)
LEMMA GatesStep == TypeOK /\ Gates /\ [Next]_vars => Gates'
  <1> SUFFICES ASSUME TypeOK, Gates, [Next]_vars,
                      NEW s \in Requests, NEW q \in Enforced
               PROVE  /\ pc'[s] = "new" => quota'[s] = 1
                      /\ pc'[s] \in {"new", "exempt"} => ~reading'[s][q].done
                      /\ pc'[s] \in {"readCurrent", "readPrevious"} =>
                           (reading'[s][q].done <=> q < quota'[s])
                      /\ pc'[s] \in {"spend", "allowed", "denied"} => reading'[s][q].done
    BY DEF Gates
  <1>1. /\ pc[s] = "new" => quota[s] = 1
        /\ pc[s] \in {"new", "exempt"} => ~reading[s][q].done
        /\ pc[s] \in {"readCurrent", "readPrevious"} => (reading[s][q].done <=> q < quota[s])
        /\ pc[s] \in {"spend", "allowed", "denied"} => reading[s][q].done
    BY DEF Gates
  <1>2. q \in Nat /\ q > 0 /\ q <= Len(Window) /\ Len(Window) \in Nat
    BY QuotaAssumption DEF Enforced
  <1>3. ASSUME NEW r \in Requests, r # s, Alone(r)
        PROVE  pc'[s] = pc[s] /\ quota'[s] = quota[s] /\ reading'[s] = reading[s]
    BY <1>3 DEF Alone
  <1>4. quota[s] \in Nat /\ quota[s] <= Len(Window) BY QuotaAssumption DEF TypeOK, Enforced
  <1> DEFINE Goal ==
         /\ pc'[s] = "new" => quota'[s] = 1
         /\ pc'[s] \in {"new", "exempt"} => ~reading'[s][q].done
         /\ pc'[s] \in {"readCurrent", "readPrevious"} =>
              (reading'[s][q].done <=> q < quota'[s])
         /\ pc'[s] \in {"spend", "allowed", "denied"} => reading'[s][q].done
  <1>5. ASSUME NEW r \in Requests, r # s, Alone(r) PROVE Goal
    BY <1>1, <1>3, <1>5
  <1>6. CASE Check(s)
    <2>1. /\ pc[s] = "new" /\ pc'[s] \in {"exempt", "readCurrent"}
          /\ quota' = quota /\ reading' = reading
      BY <1>6, ChecksDo
    <2> QED BY <1>1, <1>2, <2>1
  <1>7. CASE ReadCurrent(s)
    <2>1. pc[s] = "readCurrent" /\ pc'[s] = "readPrevious" /\ quota' = quota
      BY <1>7, ReadsDo
    <2>2. reading'[s][q].done = reading[s][q].done
      BY <1>7, ReadsCurrent
    <2> QED BY <1>1, <2>1, <2>2
  <1>8. CASE ReadPrevious(s)
    <2>1. /\ pc[s] = "readPrevious"
          /\ \/ quota[s] < Len(Window) /\ pc'[s] = "readCurrent" /\ quota'[s] = quota[s] + 1
             \/ quota[s] = Len(Window) /\ pc'[s] = "spend" /\ quota'[s] = 1
      BY <1>8, DecidesDo
    <2>2. /\ q = quota[s] => reading'[s][q].done
          /\ q # quota[s] => reading'[s][q] = reading[s][q]
      BY <1>8, ReadsPrevious
    <2>3. q < quota[s] + 1 <=> q < quota[s] \/ q = quota[s] BY <1>2, <1>4
    <2>4. CASE quota[s] < Len(Window) BY <1>1, <2>1, <2>2, <2>3, <2>4
    <2>5. CASE ~(quota[s] < Len(Window))
      <3>1. pc'[s] = "spend" /\ (q < quota[s] \/ q = quota[s]) BY <1>2, <1>4, <2>1, <2>5
      <3> QED BY <1>1, <2>1, <2>2, <3>1
    <2> QED BY <2>4, <2>5
  <1>9. CASE Spend(s)
    <2>1. /\ pc[s] = "spend" /\ pc'[s] \in {"spend", "allowed", "denied"}
          /\ reading' = reading
      BY <1>9, SpendsDo
    <2> QED BY <1>1, <2>1
  <1>10. CASE Tick \/ UNCHANGED vars
    BY <1>1, <1>10 DEF Tick, vars
  <1>11. ASSUME NEW r \in Requests, Check(r) \/ ReadCurrent(r) \/ ReadPrevious(r) \/ Spend(r)
         PROVE  Goal
    <2>1. Alone(r) BY <1>11, ChecksDo, ReadsDo, DecidesDo, SpendsDo
    <2> QED BY <1>5, <1>6, <1>7, <1>8, <1>9, <1>11, <2>1
  <1> QED BY <1>10, <1>11 DEF Next

(* Every step keeps spending for requests that nothing denied.             *)
LEMMA DecisiveStep == TypeOK /\ Decisive /\ [Next]_vars => Decisive'
  <1> SUFFICES ASSUME TypeOK, Decisive, [Next]_vars, NEW s \in Requests
               PROVE  /\ spent'[s] # {} => pc'[s] \in {"spend", "allowed"} /\ ~Denied(s)'
                      /\ pc'[s] = "denied" => Denied(s)'
    BY DEF Decisive
  <1>1. /\ spent[s] # {} => pc[s] \in {"spend", "allowed"} /\ ~Denied(s)
        /\ pc[s] = "denied" => Denied(s)
    BY DEF Decisive
  <1> DEFINE Goal ==
         /\ spent'[s] # {} => pc'[s] \in {"spend", "allowed"} /\ ~Denied(s)'
         /\ pc'[s] = "denied" => Denied(s)'
  <1>2. ASSUME UNCHANGED <<pc[s], at[s], spent[s], reading[s]>> PROVE Goal
    BY <1>1, <1>2, DecisionsStay
  <1>3. ASSUME pc[s] \notin {"spend", "allowed"}, pc'[s] # "denied", spent'[s] = spent[s]
        PROVE  Goal
    BY <1>1, <1>3
  <1>4. CASE Spend(s)
    <2>1. Denied(s)' <=> Denied(s)
      BY <1>4, SpendsDo, DecisionsStay
    <2>2. spent'[s] # {} => ~Denied(s)
      BY <1>1, <1>4, SpendsDo DEF Spends
    <2>3. pc'[s] \in {"spend", "allowed"} \/ (pc'[s] = "denied" /\ Denied(s))
      BY <1>4, SpendsDo
    <2> QED BY <2>1, <2>2, <2>3
  <1>5. CASE Check(s) \/ ReadCurrent(s) \/ ReadPrevious(s)
    <2>1. /\ pc[s] \in {"new", "readCurrent", "readPrevious"} /\ spent' = spent
          /\ pc'[s] # "denied"
      BY <1>5, ChecksDo, ReadsDo, DecidesDo
    <2> QED BY <1>3, <2>1
  <1>6. ASSUME NEW r \in Requests, Check(r) \/ ReadCurrent(r) \/ ReadPrevious(r) \/ Spend(r)
        PROVE  Goal
    <2>1. Alone(r) BY <1>6, ChecksDo, ReadsDo, DecidesDo, SpendsDo
    <2>2. CASE r # s BY <1>2, <2>1, <2>2 DEF Alone
    <2> QED BY <1>4, <1>5, <1>6, <2>2
  <1>7. CASE Tick \/ UNCHANGED vars BY <1>2, <1>7 DEF Tick, vars
  <1> QED BY <1>6, <1>7 DEF Next

(* Every step keeps the dates of counters true.                            *)
LEMMA DatedStep == TypeOK /\ Dated /\ [Next]_vars => Dated'
  <1> SUFFICES ASSUME TypeOK, Dated, [Next]_vars PROVE Dated' OBVIOUS
  <1>1. now \in Nat /\ MaxTime \in Nat BY BoundAssumption DEF TypeOK
  <1>2. ASSUME NEW r \in Requests, Check(r) PROVE Dated'
    BY <1>1, <1>2, ChecksDo DEF Dated, Alone
  <1>3. ASSUME NEW r \in Requests, ReadCurrent(r) \/ ReadPrevious(r) PROVE Dated'
    <2>1. UNCHANGED <<now, at, count, created>> BY <1>3, ReadsDo, DecidesDo
    <2> QED BY <2>1 DEF Dated
  <1>4. ASSUME NEW r \in Requests, Spend(r) PROVE Dated'
    <2> DEFINE q == quota[r]
    <2> DEFINE i == WindowOf(r, q)
    <2>1. q \in Enforced BY DEF TypeOK
    <2>2. i \in Index /\ i \in Nat /\ at[r] \in Nat BY <2>1, WindowHasIndex
    <2>3. UNCHANGED <<now, at>> BY <1>4, SpendsDo
    <2>4. CASE UNCHANGED <<count, created>> BY <2>3, <2>4 DEF Dated
    <2>5. CASE Increment(q, i)
      <3>1. Window[q] * i <= now
        <4>1. at[r] = Window[q] * i + Elapsed(q, at[r]) /\ Elapsed(q, at[r]) \in Nat
          BY <2>1, <2>2, WindowOfTime DEF WindowOf
        <4>2. at[r] <= now BY DEF Dated
        <4>3. Window[q] \in Nat BY <2>1, WindowIsNat
        <4>4. Window[q] * i \in Nat
          <5> HIDE DEF q, i
          <5> QED BY <2>2, <4>3
        <4> HIDE DEF i
        <4> QED BY <1>1, <2>2, <4>1, <4>2, <4>4
      <3>2. /\ count'[q][i] # 0 /\ created'[q][i] \in {created[q][i], now}
            /\ created'[q][i] # Never
            /\ \A p \in Enforced, j \in Index :
                 p # q \/ j # i => count'[p][j] = count[p][j] /\ created'[p][j] = created[p][j]
        BY <2>1, <2>2, <2>3, <2>5, Increments
      <3>3. /\ created'[q][i] # Never
            /\ Window[q] * i <= created'[q][i] /\ created'[q][i] <= now
        BY <1>1, <2>1, <2>2, <3>1, <3>2 DEF Dated
      <3> HIDE DEF q, i
      <3> QED BY <2>1, <2>2, <2>3, <3>2, <3>3 DEF Dated
    <2> QED BY <1>4, <2>4, <2>5, SpendsDo
  <1>5. CASE Tick
    <2>1. now' = now + 1 /\ UNCHANGED <<at, count, created>> BY <1>5 DEF Tick
    <2>2. \A n \in Int : n <= now => n <= now + 1 BY <1>1
    <2>3. \A r \in Requests : at[r] \in Int
      <3>1. at \in [Requests -> 0..MaxTime] BY DEF TypeOK
      <3> QED BY <1>1, <3>1
    <2>4. \A q \in Enforced, j \in Index : created[q][j] \in Int
      <3>1. created \in [Enforced -> [Index -> 0..MaxTime \cup {Never}]] BY DEF TypeOK
      <3> QED BY <1>1, <3>1 DEF Never
    <2> QED BY <2>1, <2>2, <2>3, <2>4 DEF Dated
  <1>6. CASE UNCHANGED vars BY <1>6 DEF vars, Dated
  <1> QED BY <1>2, <1>3, <1>4, <1>5, <1>6 DEF Next

(* Requests are finitely many.                                             *)
LEMMA CheckingIsFinite ==
    ASSUME NEW S, S \subseteq Requests
    PROVE  IsFiniteSet(S) /\ Cardinality(S) \in Nat
  BY BoundAssumption, FS_Subset, FS_CardinalityType

(* Every step keeps the number of those checked at once.                   *)
LEMMA RoomStep == TypeOK /\ Room /\ [Next]_vars => Room'
  <1> SUFFICES ASSUME TypeOK, Room, [Next]_vars PROVE Room' OBVIOUS
  <1>1. Checking \subseteq Requests /\ Checking' \subseteq Requests BY DEF Checking
  <1>2. InFlight \in Nat BY BoundAssumption
  <1>3. ASSUME Checking' \subseteq Checking PROVE Room'
    <2>1. Cardinality(Checking') <= Cardinality(Checking)
      BY <1>1, <1>3, CheckingIsFinite, FS_Subset
    <2> QED BY <1>1, <1>2, <2>1, CheckingIsFinite DEF Room
  <1>4. ASSUME NEW r \in Requests, Check(r) PROVE Room'
    <2>1. Checking' \subseteq Checking \cup {r} BY <1>4, ChecksDo DEF Checking, Alone
    <2>2. Cardinality(Checking) < InFlight BY <1>4 DEF Check
    <2>3. r \notin Checking BY <1>4, ChecksDo DEF Checking
    <2>4. /\ IsFiniteSet(Checking \cup {r})
          /\ Cardinality(Checking \cup {r}) = Cardinality(Checking) + 1
      BY <1>1, <2>3, CheckingIsFinite, FS_AddElement
    <2>5. Cardinality(Checking') <= Cardinality(Checking) + 1
      BY <2>1, <2>4, FS_Subset
    <2> QED BY <1>1, <1>2, <2>2, <2>5, CheckingIsFinite DEF Room
  <1>5. ASSUME NEW r \in Requests, ReadCurrent(r) \/ ReadPrevious(r) \/ Spend(r) PROVE Room'
    <2>1. Alone(r) /\ r \in Checking BY <1>5, ReadsDo, DecidesDo, SpendsDo DEF Checking
    <2>2. Checking' \subseteq Checking BY <2>1 DEF Checking, Alone
    <2> QED BY <1>3, <2>2
  <1>6. CASE Tick \/ UNCHANGED vars
    <2>1. Checking' = Checking BY <1>6 DEF Tick, vars, Checking
    <2> QED BY <1>3, <2>1
  <1> QED BY <1>4, <1>5, <1>6 DEF Next
-----------------------------------------------------------------------------
(* The requests that may still spend q, by what they have read of it.      *)
ToSpend(r, q) ==
    \/ pc[r] \in {"readCurrent", "readPrevious"}
    \/ pc[r] = "spend" /\ quota[r] <= q

Decided(r, q) == reading[r][q].done /\ Within(r, q) /\ ToSpend(r, q)
HalfRead(r, q) ==
    pc[r] = "readPrevious" /\ quota[r] = q /\ reading[r][q].current # Failed

(* Those its current counter alone does not refuse, in one window.         *)
Hopeful(r, q) ==
    \/ Decided(r, q)
    \/ HalfRead(r, q) /\ reading[r][q].current < Ceiling[q]
Hopefuls(q, i) == {r \in Requests : WindowOf(r, q) = i /\ Hopeful(r, q)}

(* Those the two counters together do not refuse, as they are now.         *)
Weighed(r, q) ==
    Window[q] * reading[r][q].current
      + Read(q, WindowOf(r, q) - 1) * InView(q, at[r]) < Window[q] * Ceiling[q]
Viable(r, q) == Decided(r, q) \/ (HalfRead(r, q) /\ Weighed(r, q))

(* Those of the window that is open, and all that remain of the one before.*)
Current(q, i) == {r \in Requests : WindowOf(r, q) = i /\ Viable(r, q)}
Late(q, i) == {r \in Requests : WindowOf(r, q) = i - 1 /\ ToSpend(r, q)}
Spenders(q, i) == Current(q, i) \cup Late(q, i)

(* What was counted in a window and what may still be stays below the      *)
(* ceiling and the requests checked at once.                               *)
Capped ==
    \A q \in Enforced, i \in Index :
       Read(q, i) + Cardinality(Hopefuls(q, i)) < Ceiling[q] + InFlight

(* The same of both windows in view, once anything is counted, or about to *)
(* be, in the one that is open.                                            *)
SeamAt(q, i) ==
    Read(q, i) > 0 \/ Current(q, i) # {} =>
      Window[q] * Read(q, i) + Read(q, i - 1) * InView(q, now)
        + Window[q] * Cardinality(Spenders(q, i))
          < Window[q] * (Ceiling[q] + InFlight)

Seam == \A q \in Enforced : SeamAt(q, WindowAt(q, now))

(* No reading is above what a counter may come to.                         *)
ReadingsBounded ==
    \A r \in Requests, q \in Enforced :
       reading[r][q].current < Ceiling[q] + InFlight

(* All of them are being checked.                                          *)
LEMMA SpendersAreChecking ==
    \A r, q : /\ ToSpend(r, q) => pc[r] \in {"readCurrent", "readPrevious", "spend"}
              /\ Hopeful(r, q) \/ Viable(r, q) => ToSpend(r, q)
  BY DEF ToSpend, Hopeful, Viable, Decided, HalfRead

(* No more requests may spend than are being checked.                      *)
LEMMA SpendersFit ==
    ASSUME Room, NEW S, S \subseteq {r \in Requests : \E q : ToSpend(r, q)}
    PROVE  Cardinality(S) \in Nat /\ Cardinality(S) <= InFlight
  <1>1. S \subseteq Checking BY DEF Checking, ToSpend
  <1>2. Checking \subseteq Requests BY DEF Checking
  <1>3. IsFiniteSet(Checking) /\ Cardinality(Checking) \in Nat /\ S \subseteq Requests
    BY <1>1, <1>2, CheckingIsFinite
  <1>4. Cardinality(S) \in Nat /\ Cardinality(S) <= Cardinality(Checking)
    BY <1>1, <1>3, CheckingIsFinite, FS_Subset
  <1> QED BY <1>3, <1>4, BoundAssumption DEF Room

(* In particular, those of either kind of either counter.                  *)
FewSpenders ==
    \A q, i : /\ Cardinality(Hopefuls(q, i)) \in Nat
              /\ Cardinality(Hopefuls(q, i)) <= InFlight
              /\ Cardinality(Spenders(q, i)) \in Nat
              /\ Cardinality(Spenders(q, i)) <= InFlight

(* Those, too, are no more than are being checked.                         *)
LEMMA SpendersAreFew == Room => FewSpenders
  <1> SUFFICES ASSUME Room, NEW q, NEW i
               PROVE  /\ Cardinality(Hopefuls(q, i)) \in Nat
                      /\ Cardinality(Hopefuls(q, i)) <= InFlight
                      /\ Cardinality(Spenders(q, i)) \in Nat
                      /\ Cardinality(Spenders(q, i)) <= InFlight
    BY DEF FewSpenders
  <1>1. Hopefuls(q, i) \subseteq {r \in Requests : \E p : ToSpend(r, p)}
    BY SpendersAreChecking DEF Hopefuls
  <1>2. Spenders(q, i) \subseteq {r \in Requests : \E p : ToSpend(r, p)}
    BY SpendersAreChecking DEF Spenders, Current, Late
  <1> QED BY <1>1, <1>2, SpendersFit

(* A set is no smaller than its part, and greater if it has one more.      *)
LEMMA Fewer ==
    ASSUME NEW T, T \subseteq Requests, NEW S, S \subseteq T
    PROVE  /\ Cardinality(S) \in Nat /\ Cardinality(T) \in Nat
           /\ Cardinality(S) <= Cardinality(T)
           /\ \A x \in T \ S : Cardinality(S) <= Cardinality(T) - 1
  <1>1. IsFiniteSet(T) /\ Cardinality(T) \in Nat BY CheckingIsFinite
  <1>2. IsFiniteSet(S) /\ Cardinality(S) \in Nat BY CheckingIsFinite
  <1>3. Cardinality(S) <= Cardinality(T) BY <1>1, FS_Subset
  <1>4. ASSUME NEW x \in T \ S PROVE Cardinality(S) <= Cardinality(T) - 1
    <2>1. IsFiniteSet(T \ {x}) /\ Cardinality(T \ {x}) = Cardinality(T) - 1
      BY <1>1, FS_RemoveElement
    <2>2. S \in SUBSET (T \ {x}) OBVIOUS
    <2> QED BY <2>1, <2>2, FS_Subset
  <1> QED BY <1>1, <1>2, <1>3, <1>4

(* What a quota read without a failure says.                               *)
Answers(r, q) ==
    /\ reading[r][q].current \in Nat /\ reading[r][q].previous \in Nat
    /\ Counted(r, q) \in Nat /\ reading[r][q].current <= Counted(r, q)
    /\ \A k \in Int : Counted(r, q) < k <=>
         Window[q] * reading[r][q].current
           + reading[r][q].previous * InView(q, at[r]) < Window[q] * k

AllAnswer == \A r \in Requests, q \in Enforced : ~Unread(r, q) => Answers(r, q)

(* Every such quota says so.                                               *)
LEMMA ReadSays == TypeOK => AllAnswer
  <1> SUFFICES ASSUME TypeOK, NEW r \in Requests, NEW q \in Enforced, ~Unread(r, q)
               PROVE  Answers(r, q)
    BY DEF AllAnswer
  <1>1. reading[r][q] \in Cell BY DEF TypeOK, Cell
  <1>2. reading[r][q].current \in Nat /\ reading[r][q].previous \in Nat
    BY <1>1 DEF Cell, Unread
  <1>3. at[r] \in Nat BY WindowHasIndex
  <1>4. Elapsed(q, at[r]) \in Nat /\ Elapsed(q, at[r]) <= Window[q]
    BY <1>3, WindowOfTime, WindowIsNat
  <1>5. Counted(r, q) =
          Estimate(q, reading[r][q].previous, reading[r][q].current, Elapsed(q, at[r]))
    BY DEF Counted
  <1> DEFINE current == reading[r][q].current
  <1> DEFINE previous == reading[r][q].previous
  <1> DEFINE e == Elapsed(q, at[r])
  <1>6. current \in Nat /\ previous \in Nat /\ e \in Nat /\ e <= Window[q]
    BY <1>2, <1>4
  <1> HIDE DEF current, previous, e
  <1>7. /\ Estimate(q, previous, current, e) \in Nat
        /\ current <= Estimate(q, previous, current, e)
        /\ \A k \in Int : Estimate(q, previous, current, e) < k
             <=> Window[q] * current + previous * (Window[q] - e) < Window[q] * k
    BY <1>6, EstimateBelow
  <1> QED BY <1>2, <1>5, <1>7 DEF Answers, InView, current, previous, e

(* A request that becomes able to spend q has just read its counter.       *)
LEMMA WhoGainsHope ==
    ASSUME TypeOK, Gates, [Next]_vars, NEW s \in Requests, NEW q \in Enforced,
           ~ReadCurrent(s)
    PROVE  /\ Hopeful(s, q)' => Hopeful(s, q) /\ WindowOf(s, q)' = WindowOf(s, q)
           /\ Decided(s, q)' =>
                Decided(s, q) \/
                  /\ HalfRead(s, q) /\ ReadPrevious(s)
                  /\ reading'[s][q].current = reading[s][q].current
                  /\ reading'[s][q].previous = Read(q, WindowOf(s, q) - 1)
           /\ HalfRead(s, q)' => HalfRead(s, q) /\ UNCHANGED <<reading[s], at[s]>>
  <1>1. ASSUME UNCHANGED <<pc[s], at[s], quota[s], reading[s]>>
        PROVE  /\ Hopeful(s, q)' <=> Hopeful(s, q)
               /\ Decided(s, q)' <=> Decided(s, q)
               /\ HalfRead(s, q)' <=> HalfRead(s, q)
               /\ WindowOf(s, q)' = WindowOf(s, q)
    <2>1. Within(s, q)' <=> Within(s, q) BY <1>1, DecisionsStay
    <2> QED BY <1>1, <2>1 DEF Hopeful, Decided, HalfRead, ToSpend, WindowOf
  <1> DEFINE Goal ==
         /\ Hopeful(s, q)' => Hopeful(s, q) /\ WindowOf(s, q)' = WindowOf(s, q)
         /\ Decided(s, q)' =>
              Decided(s, q) \/
                /\ HalfRead(s, q) /\ ReadPrevious(s)
                /\ reading'[s][q].current = reading[s][q].current
                /\ reading'[s][q].previous = Read(q, WindowOf(s, q) - 1)
         /\ HalfRead(s, q)' => HalfRead(s, q) /\ UNCHANGED <<reading[s], at[s]>>
  <1>2. CASE Check(s)
    <2>1. ~reading'[s][q].done /\ pc'[s] # "readPrevious"
      BY <1>2, ChecksDo DEF Gates
    <2> QED BY <2>1 DEF Hopeful, Decided, HalfRead
  <1>3. CASE ReadPrevious(s)
    <2>1. /\ pc[s] = "readPrevious" /\ pc'[s] \in {"readCurrent", "spend"}
          /\ pc'[s] = "spend" => quota'[s] = 1
          /\ UNCHANGED at
      BY <1>3, DecidesDo
    <2>2. ~HalfRead(s, q)' BY <2>1 DEF HalfRead
    <2>3. WindowOf(s, q)' = WindowOf(s, q) BY <2>1 DEF WindowOf
    <2>4. CASE q # quota[s]
      <3>1. reading'[s][q] = reading[s][q] BY <1>3, <2>4, ReadsPrevious
      <3>2. Within(s, q)' <=> Within(s, q)
        BY <2>1, <3>1 DEF Within, Unread, Counted
      <3>3. Decided(s, q)' => Decided(s, q) BY <2>1, <3>1, <3>2 DEF Decided, ToSpend
      <3> QED BY <2>2, <2>3, <3>3 DEF Hopeful
    <2>5. CASE q = quota[s]
      <3> SUFFICES ASSUME Decided(s, q)'
                   PROVE  /\ HalfRead(s, q) /\ reading[s][q].current < Ceiling[q]
                          /\ reading'[s][q].current = reading[s][q].current
                          /\ reading'[s][q].previous = Read(q, WindowOf(s, q) - 1)
        BY <1>3, <2>2, <2>3 DEF Hopeful
      <3>1. reading'[s][q].current # Failed /\ reading'[s][q].previous # Failed
            /\ Counted(s, q)' < Ceiling[q]
        BY DEF Decided, Within, Unread
      <3>2. /\ reading'[s][q].current = reading[s][q].current
            /\ reading'[s][q].previous = Read(q, WindowOf(s, q) - 1)
        BY <1>3, <2>5, <3>1, ReadsPrevious
      <3>3. TypeOK' BY NextTypeOK
      <3>4. /\ reading'[s][q].current \in Nat /\ Counted(s, q)' \in Nat
            /\ reading'[s][q].current <= Counted(s, q)'
        <4>1. (TypeOK => AllAnswer)' BY ReadSays, PTL
        <4>2. ~Unread(s, q)' BY DEF Decided, Within
        <4> QED BY <3>3, <4>1, <4>2 DEF AllAnswer, Answers
      <3>5. reading[s][q].current < Ceiling[q]
        BY <3>1, <3>2, <3>4, WindowIsNat
      <3> QED BY <2>1, <2>5, <3>1, <3>2, <3>5 DEF HalfRead
    <2> QED BY <2>4, <2>5
  <1>4. CASE Spend(s)
    <2>1. /\ pc[s] = "spend" /\ UNCHANGED <<at, reading>> /\ pc'[s] # "readPrevious"
          /\ pc'[s] \notin {"readCurrent", "readPrevious"}
          /\ pc'[s] = "spend" => quota'[s] = quota[s] + 1
      BY <1>4, SpendsDo
    <2>2. quota[s] \in Nat /\ q \in Nat BY DEF TypeOK, Enforced
    <2>3. Within(s, q)' <=> Within(s, q) BY <2>1, DecisionsStay
    <2>4. ToSpend(s, q)' => ToSpend(s, q) BY <2>1, <2>2 DEF ToSpend
    <2>5. (Decided(s, q)' => Decided(s, q)) /\ ~HalfRead(s, q)'
      BY <2>1, <2>3, <2>4 DEF Decided, HalfRead
    <2> QED BY <2>1, <2>5 DEF Hopeful, WindowOf
  <1>5. ASSUME NEW r \in Requests, r # s, Alone(r) PROVE Goal
    BY <1>1, <1>5 DEF Alone, Hopeful
  <1>6. ASSUME NEW r \in Requests, Check(r) \/ ReadCurrent(r) \/ ReadPrevious(r) \/ Spend(r)
        PROVE  Goal
    <2>1. Alone(r) BY <1>6, ChecksDo, ReadsDo, DecidesDo, SpendsDo
    <2> QED BY <1>2, <1>3, <1>4, <1>5, <1>6, <2>1
  <1>7. CASE Tick \/ UNCHANGED vars BY <1>1, <1>7 DEF Tick, vars
  <1> QED BY <1>6, <1>7 DEF Next

(* An increment is the only step that makes a counter read more.           *)
Counts(r, q, i) ==
    /\ Spend(r) /\ quota[r] = q /\ WindowOf(r, q) = i
    /\ Spends(r, q) /\ Increment(q, i)

(* A step counts for one request, or no counter reads more.                *)
LEMMA WhoCounts ==
    ASSUME TypeOK, [Next]_vars, NEW q \in Enforced, NEW i \in Index
    PROVE  \/ \E r \in Requests : Counts(r, q, i)
           \/ /\ Read(q, i)' <= Read(q, i)
              /\ now' = now => Read(q, i)' = Read(q, i)
  <1>1. Read(q, i) \in Nat BY ReadIsNat
  <1>2. ASSUME UNCHANGED <<now, count, created>> PROVE Read(q, i)' = Read(q, i)
    BY <1>2, ReadStays
  <1>3. ASSUME NEW r \in Requests, Check(r) \/ ReadCurrent(r) \/ ReadPrevious(r)
        PROVE  Read(q, i)' = Read(q, i)
    BY <1>2, <1>3, ChecksDo, ReadsDo, DecidesDo
  <1>4. ASSUME NEW r \in Requests, Spend(r), ~Counts(r, q, i)
        PROVE  Read(q, i)' = Read(q, i)
    <2>1. quota[r] \in Enforced BY DEF TypeOK
    <2>2. WindowOf(r, quota[r]) \in Index BY <2>1, WindowHasIndex
    <2>3. now' = now BY <1>4, SpendsDo
    <2>4. CASE UNCHANGED <<count, created>> BY <1>2, <2>3, <2>4
    <2>5. CASE Spends(r, quota[r]) /\ Increment(quota[r], WindowOf(r, quota[r]))
      <3>1. quota[r] # q \/ WindowOf(r, quota[r]) # i BY <1>4, <2>5 DEF Counts
      <3>2. count'[q][i] = count[q][i] /\ created'[q][i] = created[q][i]
        BY <2>1, <2>2, <2>3, <2>5, <3>1, Increments
      <3> QED BY <2>3, <3>2, ReadStays
    <2> QED BY <1>4, <2>4, <2>5, SpendsDo
  <1>5. CASE Tick
    <2>1. count' = count /\ created' = created /\ now' = now + 1 BY <1>5 DEF Tick
    <2>2. Read(q, i)' = 0 \/ Read(q, i)' = count[q][i] BY <2>1 DEF Read
    <2>3. created[q][i] # Never /\ now' < created[q][i] + 2 * Window[q] =>
            now < created[q][i] + 2 * Window[q]
      <3>1. created \in [Enforced -> [Index -> 0..MaxTime \cup {Never}]] /\ now \in Nat
        BY BoundAssumption DEF TypeOK
      <3>2. created[q][i] \in Int /\ Window[q] \in Nat
        BY <3>1, WindowIsNat, BoundAssumption DEF Never
      <3> QED BY <2>1, <3>1, <3>2
    <2>4. Read(q, i)' = 0 \/ Read(q, i)' = Read(q, i) BY <2>1, <2>3 DEF Read
    <2>5. now' # now
      <3>1. now \in Int BY BoundAssumption DEF TypeOK
      <3> QED BY <2>1, <3>1
    <2> QED BY <1>1, <2>4, <2>5
  <1>6. CASE UNCHANGED vars BY <1>1, <1>2, <1>6 DEF vars
  <1> QED BY <1>1, <1>3, <1>4, <1>5, <1>6 DEF Next

(* One that counts could, and cannot any longer.                           *)
LEMMA CountingSpends ==
    ASSUME TypeOK, Gates, NEW r \in Requests, NEW q \in Enforced, NEW i \in Index,
           Counts(r, q, i)
    PROVE  /\ Decided(r, q) /\ WindowOf(r, q) = i
           /\ ~ToSpend(r, q)'
           /\ Read(q, i)' = Read(q, i) + 1
           /\ UNCHANGED <<now, at>>
  <1>1. pc[r] = "spend" /\ quota[r] = q /\ WindowOf(r, q) = i /\ Within(r, q)
    BY SpendsDo DEF Counts, Spends
  <1>2. Decided(r, q)
    <2>1. q <= q BY DEF Enforced
    <2> QED BY <1>1, <2>1 DEF Decided, ToSpend, Gates
  <1>3. now' = now /\ at' = at BY SpendsDo DEF Counts
  <1>4. Read(q, i)' = Read(q, i) + 1 BY <1>3, Increments DEF Counts
  <1>5. ~ToSpend(r, q)'
    <2>1. quota'[r] = q + 1 \/ pc'[r] \in {"denied", "allowed"} BY <1>1, SpendsDo DEF Counts
    <2>2. ~(q + 1 <= q) BY DEF Enforced
    <2>3. pc'[r] \in {"spend", "denied", "allowed"} BY SpendsDo DEF Counts
    <2> QED BY <2>1, <2>2, <2>3 DEF ToSpend
  <1> QED BY <1>1, <1>2, <1>3, <1>4, <1>5

(* Every step keeps a window to its ceiling and those checked at once: a   *)
(* request that joins read less than the ceiling, and one that counts      *)
(* stops waiting to.                                                       *)
LEMMA CappedStep ==
    ASSUME TypeOK, Gates, Room, Room', Capped, [Next]_vars
    PROVE  Capped'
  <1> SUFFICES ASSUME NEW q \in Enforced, NEW i \in Index
               PROVE  (Read(q, i) + Cardinality(Hopefuls(q, i)) < Ceiling[q] + InFlight)'
    BY DEF Capped
  <1>1. Read(q, i) + Cardinality(Hopefuls(q, i)) < Ceiling[q] + InFlight BY DEF Capped
  <1>2. Hopefuls(q, i) \subseteq Requests /\ Hopefuls(q, i)' \subseteq Requests BY DEF Hopefuls
  <1>3. Read(q, i) \in Nat /\ Ceiling[q] \in Nat /\ InFlight \in Nat
    BY ReadIsNat, WindowIsNat, BoundAssumption
  <1>4. TypeOK' BY NextTypeOK
  <1>5. Read(q, i)' \in Nat
    <2>1. count' \in [Enforced -> [Index -> Nat]] BY <1>4 DEF TypeOK
    <2>2. count'[q][i] \in Nat BY <2>1
    <2> QED BY <2>2 DEF Read
  <1>6. CASE \E r \in Hopefuls(q, i)' : ReadCurrent(r) /\ r \notin Hopefuls(q, i)
    <2>1. PICK r \in Requests : /\ ReadCurrent(r) /\ r \in Hopefuls(q, i)'
                                /\ r \notin Hopefuls(q, i)
      BY <1>6, <1>2
    <2>2. /\ pc[r] = "readCurrent" /\ pc'[r] = "readPrevious"
          /\ UNCHANGED <<now, count, created, at, quota>>
      BY <2>1, ReadsDo
    <2>3. WindowOf(r, q) = i /\ Hopeful(r, q)' /\ ~Hopeful(r, q)
      BY <2>1, <2>2 DEF Hopefuls, WindowOf
    <2>4. q = quota[r]
      <3> SUFFICES ASSUME q # quota[r] PROVE FALSE OBVIOUS
      <3>1. reading'[r][q] = reading[r][q] BY <2>1, ReadsCurrent
      <3>2. Within(r, q)' <=> Within(r, q) BY <2>2, <3>1 DEF Within, Unread, Counted
      <3>3. Decided(r, q)' BY <2>2, <2>3 DEF Hopeful, HalfRead
      <3> QED BY <2>2, <2>3, <3>1, <3>2, <3>3 DEF Hopeful, Decided, ToSpend
    <2>5. ~reading'[r][q].done
      <3>1. ~(q < q) BY DEF Enforced
      <3> QED BY <2>1, <2>2, <2>4, <3>1, ReadsCurrent DEF Gates
    <2>6. Read(q, i)' = Read(q, i) /\ Read(q, i) < Ceiling[q]
      <3>1. reading'[r][q].current = Read(q, i) /\ reading'[r][q].current < Ceiling[q]
        BY <2>1, <2>3, <2>4, <2>5, ReadsCurrent DEF Hopeful, Decided, HalfRead
      <3> QED BY <2>2, <3>1, ReadStays
    <2>7. Cardinality(Hopefuls(q, i)') \in Nat /\ Cardinality(Hopefuls(q, i)') <= InFlight
      <3>1. (Room => FewSpenders)' BY SpendersAreFew, PTL
      <3> QED BY <3>1 DEF FewSpenders
    <2> QED BY <1>3, <2>6, <2>7
  <1>7. CASE ~\E r \in Hopefuls(q, i)' : ReadCurrent(r) /\ r \notin Hopefuls(q, i)
    <2>1. Hopefuls(q, i)' \subseteq Hopefuls(q, i)
      <3> SUFFICES ASSUME NEW s \in Hopefuls(q, i)' PROVE s \in Hopefuls(q, i) OBVIOUS
      <3>1. CASE ReadCurrent(s) BY <1>7, <3>1
      <3>2. CASE ~ReadCurrent(s)
        <4>1. s \in Requests /\ Hopeful(s, q)' /\ WindowOf(s, q)' = i BY DEF Hopefuls
        <4>2. Hopeful(s, q) /\ WindowOf(s, q)' = WindowOf(s, q) BY <3>2, <4>1, WhoGainsHope
        <4> QED BY <4>1, <4>2 DEF Hopefuls
      <3> QED BY <3>1, <3>2
    <2>2. /\ Cardinality(Hopefuls(q, i)) \in Nat /\ Cardinality(Hopefuls(q, i)') \in Nat
          /\ Cardinality(Hopefuls(q, i)') <= Cardinality(Hopefuls(q, i))
          /\ \A x \in Hopefuls(q, i) \ Hopefuls(q, i)' :
               Cardinality(Hopefuls(q, i)') <= Cardinality(Hopefuls(q, i)) - 1
      BY <1>2, <2>1, Fewer
    <2>3. CASE Read(q, i)' <= Read(q, i) BY <1>1, <1>3, <1>5, <2>2, <2>3
    <2>4. CASE \E r \in Requests : Counts(r, q, i)
      <3>1. PICK r \in Requests : Counts(r, q, i) BY <2>4
      <3>2. /\ Decided(r, q) /\ WindowOf(r, q) = i /\ ~ToSpend(r, q)'
            /\ Read(q, i)' = Read(q, i) + 1
        BY <3>1, CountingSpends
      <3>3. r \in Hopefuls(q, i) BY <3>2 DEF Hopefuls, Hopeful
      <3>4. (Hopeful(r, q) => ToSpend(r, q))' BY DEF ToSpend, Hopeful, Decided, HalfRead
      <3>5. r \notin Hopefuls(q, i)' BY <3>2, <3>4 DEF Hopefuls
      <3> QED BY <1>1, <1>3, <2>2, <3>2, <3>3, <3>5
    <2> QED BY <2>3, <2>4, WhoCounts
  <1> QED BY <1>6, <1>7

(* Every counter reads a natural number, before a step and after it.       *)
AllRead == \A q \in Enforced : \A i : Read(q, i) \in Nat

(* As a formula of the state, to be used of the next one.                  *)
LEMMA ReadsAreNat == TypeOK => AllRead
  BY ReadIsNat DEF AllRead

(* A reading is a failure or what the counter read, so it is bounded too.  *)
LEMMA ReadingsStep ==
    ASSUME TypeOK, Room, Capped, ReadingsBounded, [Next]_vars
    PROVE  ReadingsBounded'
  <1> SUFFICES ASSUME NEW s \in Requests, NEW q \in Enforced
               PROVE  reading'[s][q].current < Ceiling[q] + InFlight
    BY DEF ReadingsBounded
  <1>1. reading[s][q].current < Ceiling[q] + InFlight BY DEF ReadingsBounded
  <1>2. ASSUME NEW r \in Requests, ReadCurrent(r)
        PROVE  reading'[s][q].current < Ceiling[q] + InFlight
    <2>1. CASE s # r \/ q # quota[r]
      <3>1. reading'[s][q] = reading[s][q] BY <1>2, <2>1, ReadsCurrent
      <3> QED BY <1>1, <3>1
    <2>2. CASE s = r /\ q = quota[r]
      <3> DEFINE i == WindowOf(r, q)
      <3>1. i \in Index BY WindowHasIndex
      <3>2. Read(q, i) + Cardinality(Hopefuls(q, i)) < Ceiling[q] + InFlight
        BY <3>1 DEF Capped
      <3>3. Cardinality(Hopefuls(q, i)) \in Nat BY SpendersAreFew DEF FewSpenders
      <3>4. Read(q, i) \in Nat /\ Ceiling[q] \in Nat /\ InFlight \in Nat
        BY ReadIsNat, WindowIsNat, BoundAssumption
      <3>5. reading'[s][q].current \in {Failed, Read(q, i)}
        BY <1>2, <2>2, ReadsCurrent
      <3> HIDE DEF i
      <3>6. Read(q, i) < Ceiling[q] + InFlight BY <3>2, <3>3, <3>4
      <3> QED BY <3>4, <3>5, <3>6 DEF Failed
    <2> QED BY <2>1, <2>2
  <1>3. ASSUME NEW r \in Requests, ReadPrevious(r)
        PROVE  reading'[s][q].current < Ceiling[q] + InFlight
    <2>1. reading'[s][q].current = reading[s][q].current BY <1>3, ReadsPrevious
    <2> QED BY <1>1, <2>1
  <1>4. ASSUME NEW r \in Requests, Check(r) \/ Spend(r)
        PROVE  reading'[s][q].current < Ceiling[q] + InFlight
    <2>1. reading' = reading BY <1>4, ChecksDo, SpendsDo
    <2> QED BY <1>1, <2>1
  <1>5. CASE Tick \/ UNCHANGED vars BY <1>1, <1>5 DEF Tick, vars
  <1> QED BY <1>2, <1>3, <1>4, <1>5 DEF Next
-----------------------------------------------------------------------------
(* Two windows in view.                                                    *)

(* Two moments of one window, and less of the one before is in view at the *)
(* later.                                                                  *)
LEMMA SameWindow ==
    ASSUME NEW q \in Enforced, NEW t \in Nat, NEW u \in Nat, t <= u
    PROVE  /\ WindowAt(q, t) = WindowAt(q, u) => InView(q, u) <= InView(q, t)
           /\ Window[q] * WindowAt(q, u) <= t => WindowAt(q, t) = WindowAt(q, u)
  <1> DEFINE w == Window[q]
  <1> DEFINE d == WindowAt(q, t)
  <1> DEFINE j == WindowAt(q, u)
  <1> DEFINE e == Elapsed(q, t)
  <1> DEFINE f == Elapsed(q, u)
  <1>1. w \in Nat /\ w > 0 BY WindowIsNat
  <1>2. /\ d \in Nat /\ e \in Nat /\ e < w /\ t = w * d + e
        /\ j \in Nat /\ f \in Nat /\ f < w /\ u = w * j + f
    BY WindowOfTime
  <1> HIDE DEF w, d, j, e, f
  <1>3. d = j => w - f <= w - e BY <1>1, <1>2
  <1>4. ASSUME w * j <= t PROVE d = j
    <2>1. ~(d < j)
      <3> SUFFICES ASSUME d < j PROVE FALSE OBVIOUS
      <3>1. w * (d + 1) <= w * j BY <1>1, <1>2, TimesOrder
      <3>2. w * (d + 1) = w * d + w BY <1>1, <1>2
      <3> QED BY <1>1, <1>2, <1>4, <3>1, <3>2
    <2>2. ~(j < d)
      <3> SUFFICES ASSUME j < d PROVE FALSE OBVIOUS
      <3>1. w * (j + 1) <= w * d BY <1>1, <1>2, TimesOrder
      <3>2. w * (j + 1) = w * j + w BY <1>1, <1>2
      <3> QED BY <1>1, <1>2, <3>1, <3>2
    <2> QED BY <1>2, <2>1, <2>2
  <1> QED BY <1>3, <1>4 DEF w, d, j, e, f, InView

(* While a window is open, the counter of the one before has not expired.  *)
LEMMA StillThere ==
    ASSUME TypeOK, Dated, Tick, NEW q \in Enforced,
           WindowAt(q, now') = WindowAt(q, now)
    PROVE  Read(q, WindowAt(q, now) - 1)' = Read(q, WindowAt(q, now) - 1)
  <1> DEFINE i == WindowAt(q, now)
  <1> DEFINE w == Window[q]
  <1>1. now \in Nat /\ now' = now + 1 /\ UNCHANGED <<count, created>>
    BY BoundAssumption DEF TypeOK, Tick
  <1>2. w \in Nat /\ w > 0 BY WindowIsNat
  <1>3. i \in Nat BY <1>1, WindowOfTime
  <1>4. now + 1 < w * i + w
    <2>1. now + 1 \in Nat BY <1>1
    <2>2. /\ now + 1 = w * WindowAt(q, now + 1) + Elapsed(q, now + 1)
          /\ Elapsed(q, now + 1) \in Nat /\ Elapsed(q, now + 1) < w
      BY <2>1, WindowOfTime
    <2>3. now + 1 = w * i + Elapsed(q, now + 1) BY <1>1, <2>2
    <2> HIDE DEF i, w
    <2>4. w * i \in Nat BY <1>2, <1>3
    <2> QED BY <1>2, <2>2, <2>3, <2>4
  <1>5. w * (i - 1) = w * i - w /\ w * i \in Nat
    <2> HIDE DEF i, w
    <2> QED BY <1>2, <1>3
  <1>6. ASSUME i - 1 \in Index, created[q][i - 1] # Never
        PROVE  now < created[q][i - 1] + 2 * w /\ now + 1 < created[q][i - 1] + 2 * w
    <2>1. w * (i - 1) <= created[q][i - 1] BY <1>6 DEF Dated
    <2>2. created[q][i - 1] \in Nat
      <3>1. created \in [Enforced -> [Index -> 0..MaxTime \cup {Never}]] BY DEF TypeOK
      <3> QED BY <1>6, <3>1, BoundAssumption
    <2> HIDE DEF i, w
    <2> QED BY <1>1, <1>2, <1>4, <1>5, <2>1, <2>2
  <1> QED BY <1>1, <1>6 DEF Read

(* While a window is open, no request of the one before it appears.        *)
LEMMA LateOnlyLeave ==
    ASSUME TypeOK, [Next]_vars, NEW q \in Enforced, WindowAt(q, now') = WindowAt(q, now)
    PROVE  Late(q, WindowAt(q, now))' \subseteq Late(q, WindowAt(q, now))
  <1> DEFINE i == WindowAt(q, now)
  <1>1. now \in Nat /\ i \in Nat BY WindowOfTime, BoundAssumption DEF TypeOK
  <1> SUFFICES ASSUME NEW s \in Requests, WindowAt(q, at'[s]) = i - 1, ToSpend(s, q)'
               PROVE  WindowOf(s, q) = i - 1 /\ ToSpend(s, q)
    BY DEF Late, WindowOf
  <1>2. CASE UNCHANGED <<pc[s], at[s], quota[s]>> BY <1>2 DEF WindowOf, ToSpend
  <1>3. CASE Check(s)
    <2>1. at'[s] = now BY <1>3, ChecksDo DEF ToSpend
    <2> HIDE DEF i
    <2>2. i # i - 1 BY <1>1
    <2> QED BY <2>1, <2>2 DEF i
  <1>4. CASE ReadCurrent(s) \/ ReadPrevious(s)
    <2>1. pc[s] \in {"readCurrent", "readPrevious"} /\ at' = at
      BY <1>4, ReadsDo, DecidesDo
    <2> QED BY <2>1 DEF WindowOf, ToSpend
  <1>5. CASE Spend(s)
    <2>1. /\ pc[s] = "spend" /\ at' = at /\ pc'[s] \notin {"readCurrent", "readPrevious"}
          /\ pc'[s] = "spend" => quota'[s] = quota[s] + 1
      BY <1>5, SpendsDo
    <2>2. quota[s] \in Nat /\ q \in Nat BY DEF TypeOK, Enforced
    <2> QED BY <2>1, <2>2 DEF WindowOf, ToSpend
  <1>6. ASSUME NEW r \in Requests, Check(r) \/ ReadCurrent(r) \/ ReadPrevious(r) \/ Spend(r)
        PROVE  WindowOf(s, q) = i - 1 /\ ToSpend(s, q)
    <2>1. Alone(r) BY <1>6, ChecksDo, ReadsDo, DecidesDo, SpendsDo
    <2>2. CASE r # s BY <1>2, <2>1, <2>2 DEF Alone
    <2> QED BY <1>3, <1>4, <1>5, <1>6, <2>2
  <1>7. CASE Tick \/ UNCHANGED vars BY <1>2, <1>7 DEF Tick, vars
  <1> QED BY <1>6, <1>7 DEF Next

(* And one of the open window only by a first reading, unless the counter  *)
(* before it lost something.                                               *)
LEMMA CurrentByReading ==
    ASSUME TypeOK, Gates, [Next]_vars, NEW q \in Enforced, NEW i \in Index,
           Read(q, i - 1) <= Read(q, i - 1)',
           NEW s \in Current(q, i)', ~ReadCurrent(s)
    PROVE  s \in Current(q, i)
  <1>1. s \in Requests /\ WindowOf(s, q)' = i /\ Viable(s, q)' BY DEF Current
  <1>2. TypeOK' BY NextTypeOK
  <1>3. AllRead /\ AllRead'
    <2>1. (TypeOK => AllRead)' BY ReadsAreNat, PTL
    <2> QED BY <1>2, <2>1, ReadsAreNat
  <1>4. Read(q, i - 1) \in Nat /\ Read(q, i - 1)' \in Nat BY <1>3 DEF AllRead
  <1>5. at[s] \in Nat BY <1>1, WindowHasIndex
  <1>6. InView(q, at[s]) \in Nat BY <1>5, WindowOfTime
  <1>7. Window[q] \in Nat /\ Ceiling[q] \in Nat BY WindowIsNat
  <1>8. CASE Decided(s, q)'
    <2>1. WindowOf(s, q)' = WindowOf(s, q)
      BY <1>1, <1>8, WhoGainsHope DEF Hopeful
    <2>2. CASE Decided(s, q) BY <1>1, <2>1, <2>2 DEF Current, Viable
    <2>3. CASE ~Decided(s, q)
      <3>1. /\ HalfRead(s, q) /\ ReadPrevious(s)
            /\ reading'[s][q].current = reading[s][q].current
            /\ reading'[s][q].previous = Read(q, i - 1)
        BY <1>1, <1>8, <2>1, <2>3, WhoGainsHope
      <3>2. at' = at BY <1>1, <3>1, DecidesDo
      <3>3. Window[q] * reading'[s][q].current
              + reading'[s][q].previous * InView(q, at'[s]) < Window[q] * Ceiling[q]
        <4>1. (TypeOK => AllAnswer)' BY ReadSays, PTL
        <4>2. ~Unread(s, q)' /\ Counted(s, q)' < Ceiling[q] BY <1>8 DEF Decided, Within
        <4>3. Answers(s, q)' BY <1>1, <1>2, <4>1, <4>2 DEF AllAnswer
        <4> QED BY <1>7, <4>2, <4>3 DEF Answers
      <3>4. Weighed(s, q) BY <1>1, <2>1, <3>1, <3>2, <3>3 DEF Weighed
      <3> QED BY <1>1, <2>1, <3>1, <3>4 DEF Current, Viable
    <2> QED BY <2>2, <2>3
  <1>9. CASE ~Decided(s, q)'
    <2>1. HalfRead(s, q)' /\ Weighed(s, q)' BY <1>1, <1>9 DEF Viable
    <2>2. HalfRead(s, q) /\ UNCHANGED <<reading[s], at[s]>> BY <1>1, <2>1, WhoGainsHope
    <2>3. WindowOf(s, q) = i BY <1>1, <2>2 DEF WindowOf
    <2>4. Window[q] * reading[s][q].current
            + Read(q, i - 1)' * InView(q, at[s]) < Window[q] * Ceiling[q]
      BY <2>1, <2>2, <2>3 DEF Weighed, WindowOf
    <2>5. reading[s][q].current \in Nat
      <3>1. reading[s][q] \in Cell BY <1>1 DEF TypeOK, Cell
      <3> QED BY <2>2, <3>1 DEF Cell, HalfRead
    <2> DEFINE v == InView(q, at[s])
    <2> DEFINE b == Read(q, i - 1)
    <2> DEFINE d == Read(q, i - 1)'
    <2> DEFINE c == reading[s][q].current
    <2> DEFINE w == Window[q]
    <2>6. /\ v \in Nat /\ b \in Nat /\ d \in Nat /\ c \in Nat /\ w \in Nat /\ Ceiling[q] \in Nat
          /\ b <= d /\ w * c + d * v < w * Ceiling[q]
      BY <1>4, <1>6, <1>7, <2>4, <2>5
    <2>7. w * c + b * v < w * Ceiling[q]
      <3> HIDE DEF v, b, d, c, w
      <3>0. b \in Int /\ d \in Int BY <2>6
      <3>1. v * b <= v * d /\ v * b \in Int /\ v * d \in Int BY <2>6, <3>0, TimesOrder
      <3>2. v * b = b * v /\ v * d = d * v BY <2>6
      <3>3. w * c \in Int /\ w * Ceiling[q] \in Int BY <2>6
      <3> QED BY <2>6, <3>1, <3>2, <3>3
    <2> QED BY <1>1, <2>2, <2>3, <2>7 DEF Current, Viable, Weighed
  <1> QED BY <1>8, <1>9

(* The weight of both counters and of those that may still spend, when     *)
(* none grows, and when one request moves from waiting to counted.         *)
LEMMA WeightKept ==
    ASSUME NEW w \in Nat, NEW a \in Nat, NEW b \in Nat, NEW v \in Nat, NEW c \in Nat,
           NEW a1 \in Nat, NEW b1 \in Nat, NEW v1 \in Nat, NEW c1 \in Nat,
           v1 <= v, v <= w,
           \/ a1 <= a /\ b1 <= b /\ c1 <= c
           \/ a1 = a + 1 /\ b1 = b /\ c1 <= c - 1
           \/ a1 = a /\ b1 = b + 1 /\ c1 <= c - 1
    PROVE  /\ w * a1 + b1 * v1 + w * c1 <= w * a + b * v + w * c
           /\ w * a1 + b1 * v1 + w * c1 \in Int /\ w * a + b * v + w * c \in Int
  <1>1. /\ w * a \in Int /\ w * a1 \in Int /\ b * v \in Int /\ b1 * v1 \in Int /\ b1 * v \in Int
        /\ w * c \in Int /\ w * c1 \in Int
    BY Z3
  <1>2. b1 * v1 <= b1 * v BY TimesOrder
  <1>3. CASE a1 <= a /\ b1 <= b /\ c1 <= c
    <2>1. w * a1 <= w * a /\ w * c1 <= w * c BY <1>3, TimesOrder
    <2>2. v * b1 <= v * b BY <1>3, TimesOrder
    <2>3. v * b1 = b1 * v /\ v * b = b * v BY Z3
    <2> QED BY <1>1, <1>2, <2>1, <2>2, <2>3
  <1>4. CASE a1 = a + 1 /\ b1 = b /\ c1 <= c - 1
    <2>1. w * (a1 + c1) <= w * (a + c) BY <1>4, TimesOrder
    <2>2. w * (a1 + c1) = w * a1 + w * c1 /\ w * (a + c) = w * a + w * c BY Z3
    <2> QED BY <1>1, <1>2, <1>4, <2>1, <2>2
  <1>5. CASE a1 = a /\ b1 = b + 1 /\ c1 <= c - 1
    <2>1. w * (c1 + 1) <= w * c BY <1>5, TimesOrder
    <2>2. w * (c1 + 1) = w * c1 + w BY Z3
    <2>3. b1 * v = b * v + v BY <1>5
    <2> QED BY <1>1, <1>2, <1>5, <2>1, <2>2, <2>3
  <1> QED BY <1>1, <1>3, <1>4, <1>5

(* The window a clock is in has an index.                                  *)
NowHasIndex == \A q \in Enforced : now \in Nat /\ WindowAt(q, now) \in Index

(* As a formula of the state.                                              *)
LEMMA ClockHasIndex == TypeOK => NowHasIndex
  <1> SUFFICES ASSUME TypeOK, NEW q \in Enforced
               PROVE  now \in Nat /\ WindowAt(q, now) \in Index
    BY DEF NowHasIndex
  <1>1. now \in Nat /\ now <= MaxTime /\ MaxTime \in Nat BY BoundAssumption DEF TypeOK
  <1>2. WindowAt(q, now) \in Nat /\ WindowAt(q, now) <= now BY <1>1, WindowOfTime
  <1> QED BY <1>1, <1>2 DEF Index

(* A window that opens has nothing counted in it, and nobody about to.     *)
LEMMA WindowOpensEmpty ==
    ASSUME TypeOK, TypeOK', Dated, [Next]_vars, NEW q \in Enforced, NEW j \in Index,
           WindowAt(q, now') = j, WindowAt(q, now) # j
    PROVE  Read(q, j)' = 0 /\ Current(q, j)' = {}
  <1>1. Tick
    <2>1. now' # now OBVIOUS
    <2> QED BY <2>1, ChecksDo, ReadsDo, DecidesDo, SpendsDo DEF Next, vars
  <1>2. now \in Nat /\ now' = now + 1 /\ UNCHANGED <<count, created, at>>
    BY <1>1, BoundAssumption DEF Tick, TypeOK
  <1>3. ASSUME NEW t \in Nat, t <= now PROVE ~(Window[q] * j <= t) /\ WindowAt(q, t) # j
    <2>1. now' \in Nat /\ t <= now' /\ now <= now' BY <1>2, <1>3
    <2>2. Window[q] * j <= t => Window[q] * j <= now
      <3>1. Window[q] \in Nat /\ j \in Nat BY WindowIsNat, BoundAssumption DEF Index
      <3>2. Window[q] * j \in Nat BY <3>1
      <3> QED BY <1>2, <1>3, <3>2
    <2>3. ~(Window[q] * j <= now) BY <1>2, <2>1, SameWindow
    <2>4. WindowAt(q, t) = j => Window[q] * j <= t
      <3>1. t = Window[q] * WindowAt(q, t) + Elapsed(q, t) /\ Elapsed(q, t) \in Nat
        BY WindowOfTime
      <3>2. Window[q] \in Nat /\ j \in Nat BY WindowIsNat, BoundAssumption DEF Index
      <3>3. Window[q] * j \in Nat BY <3>2
      <3> QED BY <3>1, <3>3
    <2> QED BY <2>2, <2>3, <2>4
  <1>4. Read(q, j)' = 0
    <2> SUFFICES ASSUME created[q][j] # Never PROVE FALSE BY <1>2 DEF Read
    <2>1. Window[q] * j <= created[q][j] /\ created[q][j] <= now BY DEF Dated
    <2>2. created[q][j] \in Nat
      <3>1. created \in [Enforced -> [Index -> 0..MaxTime \cup {Never}]] BY DEF TypeOK
      <3> QED BY <3>1, BoundAssumption
    <2> QED BY <1>3, <2>1, <2>2
  <1>5. Current(q, j)' = {}
    <2> SUFFICES ASSUME NEW s \in Requests, WindowOf(s, q)' = j PROVE FALSE BY DEF Current
    <2>1. at[s] \in Nat /\ at[s] <= now BY WindowHasIndex DEF Dated
    <2>2. WindowAt(q, at[s]) = j BY <1>2 DEF WindowOf
    <2> QED BY <1>3, <2>1, <2>2
  <1> QED BY <1>4, <1>5

(* What an increment of either counter in view does to both.               *)
LEMMA OneCounterGrows ==
    ASSUME TypeOK, Gates, [Next]_vars, NEW q \in Enforced, NEW i \in Index,
           now' = now
    PROVE  \/ Read(q, i)' = Read(q, i) /\ Read(q, i - 1)' = Read(q, i - 1)
           \/ /\ Read(q, i)' = Read(q, i) + 1 /\ Read(q, i - 1)' = Read(q, i - 1)
              /\ \E r \in Requests : WindowOf(r, q) = i /\ Decided(r, q) /\ ~ToSpend(r, q)'
           \/ /\ Read(q, i)' = Read(q, i) /\ Read(q, i - 1)' = Read(q, i - 1) + 1
              /\ \E r \in Requests : WindowOf(r, q) = i - 1 /\ ToSpend(r, q) /\ ~ToSpend(r, q)'
  <1>1. i \in Nat /\ i # i - 1 BY BoundAssumption DEF Index
  <1>2. CASE \E r \in Requests : Counts(r, q, i)
    <2>1. PICK r \in Requests : Counts(r, q, i) BY <1>2
    <2>2. Decided(r, q) /\ WindowOf(r, q) = i /\ ~ToSpend(r, q)'
          /\ Read(q, i)' = Read(q, i) + 1
      BY <2>1, CountingSpends
    <2>3. Read(q, i - 1)' = Read(q, i - 1)
      <3>1. Increment(q, i) BY <2>1 DEF Counts
      <3>2. i - 1 \in Index => count'[q][i - 1] = count[q][i - 1]
              /\ created'[q][i - 1] = created[q][i - 1]
        BY <1>1, <3>1, Increments
      <3> QED BY <3>2, ReadStays
    <2> QED BY <2>2, <2>3
  <1>3. CASE i - 1 \in Index /\ \E r \in Requests : Counts(r, q, i - 1)
    <2>1. PICK r \in Requests : Counts(r, q, i - 1) BY <1>3
    <2>2. Decided(r, q) /\ WindowOf(r, q) = i - 1 /\ ~ToSpend(r, q)'
          /\ Read(q, i - 1)' = Read(q, i - 1) + 1
      BY <1>3, <2>1, CountingSpends
    <2>3. Read(q, i)' = Read(q, i)
      <3>1. Increment(q, i - 1) BY <2>1 DEF Counts
      <3>2. count'[q][i] = count[q][i] /\ created'[q][i] = created[q][i]
        BY <1>1, <1>3, <3>1, Increments
      <3> QED BY <3>2, ReadStays
    <2> QED BY <2>2, <2>3 DEF Decided
  <1>4. CASE /\ ~\E r \in Requests : Counts(r, q, i)
             /\ i - 1 \in Index => ~\E r \in Requests : Counts(r, q, i - 1)
    <2>1. Read(q, i)' = Read(q, i) BY <1>4, WhoCounts
    <2>2. i - 1 \in Index => Read(q, i - 1)' = Read(q, i - 1) BY <1>4, WhoCounts
    <2>3. i - 1 \notin Index => Read(q, i - 1)' = Read(q, i - 1) BY DEF Read
    <2> QED BY <2>1, <2>2, <2>3
  <1> QED BY <1>2, <1>3, <1>4

(* The seam, from one moment to the next.                                  *)
LEMMA SeamStep ==
    ASSUME TypeOK, Gates, Dated, Room, Room', Seam, [Next]_vars
    PROVE  Seam'
  <1>1. TypeOK' BY NextTypeOK
  <1>2. NowHasIndex /\ NowHasIndex' /\ AllRead /\ AllRead' /\ FewSpenders /\ FewSpenders'
    <2>1. (TypeOK => NowHasIndex)' BY ClockHasIndex, PTL
    <2>2. (TypeOK => AllRead)' BY ReadsAreNat, PTL
    <2>3. (Room => FewSpenders)' BY SpendersAreFew, PTL
    <2> QED BY <1>1, <2>1, <2>2, <2>3, ClockHasIndex, ReadsAreNat, SpendersAreFew
  <1> SUFFICES ASSUME NEW q \in Enforced, NEW i \in Index, i = WindowAt(q, now')
               PROVE  SeamAt(q, i)'
    BY <1>2 DEF Seam, NowHasIndex
  <1>3. now \in Nat /\ now' \in Nat /\ now <= now'
    <2>1. now \in Nat BY <1>2 DEF NowHasIndex
    <2>2. now' = now \/ now' = now + 1
      BY ChecksDo, ReadsDo, DecidesDo, SpendsDo DEF Next, vars, Tick
    <2> QED BY <2>1, <2>2
  <1>4. CASE WindowAt(q, now) # i
    <2>1. Read(q, i)' = 0 /\ Current(q, i)' = {} BY <1>1, <1>4, WindowOpensEmpty
    <2> QED BY <2>1 DEF SeamAt
  <1>5. CASE WindowAt(q, now) = i
    <2> DEFINE w == Window[q]
    <2> DEFINE v == InView(q, now)
    <2> DEFINE v1 == InView(q, now')
    <2> DEFINE a == Read(q, i)
    <2> DEFINE a1 == Read(q, i)'
    <2> DEFINE b == Read(q, i - 1)
    <2> DEFINE b1 == Read(q, i - 1)'
    <2> DEFINE c == Cardinality(Spenders(q, i))
    <2> DEFINE c1 == Cardinality(Spenders(q, i)')
    <2> DEFINE bound == Window[q] * (Ceiling[q] + InFlight)
    <2> SUFFICES ASSUME a1 > 0 \/ Current(q, i)' # {}
                 PROVE  w * a1 + b1 * v1 + w * c1 < bound
      BY DEF SeamAt
    <2>1. /\ w \in Nat /\ w > 0 /\ Ceiling[q] \in Nat /\ InFlight \in Nat
          /\ bound \in Int /\ bound = w * Ceiling[q] + w * InFlight
      <3>1. w \in Nat /\ w > 0 /\ Ceiling[q] \in Nat /\ InFlight \in Nat
        BY WindowIsNat, BoundAssumption
      <3> HIDE DEF w
      <3>2. w * (Ceiling[q] + InFlight) = w * Ceiling[q] + w * InFlight
            /\ w * (Ceiling[q] + InFlight) \in Int
        BY <3>1
      <3> QED BY <3>1, <3>2 DEF w
    <2>2. v \in Nat /\ v1 \in Nat /\ v1 <= v /\ v <= w
      BY <1>3, <1>5, WindowOfTime, SameWindow
    <2>3. a \in Nat /\ a1 \in Nat /\ b \in Nat /\ b1 \in Nat BY <1>2 DEF AllRead
    <2>4. c \in Nat /\ c1 \in Nat /\ c1 <= InFlight BY <1>2 DEF FewSpenders
    <2>5. a > 0 \/ Current(q, i) # {} => w * a + b * v + w * c < bound
      <3>1. SeamAt(q, i) BY <1>5 DEF Seam
      <3> QED BY <3>1, <1>5 DEF SeamAt
    <2>6. Spenders(q, i) \subseteq Requests /\ Spenders(q, i)' \subseteq Requests
      BY DEF Spenders, Current, Late
    <2>7. Late(q, i)' \subseteq Late(q, i)
      BY <1>5, LateOnlyLeave
    <2>8. /\ b <= b1
          /\ \/ a1 = a /\ b1 = b
             \/ /\ a1 = a + 1 /\ b1 = b
                /\ \E r \in Requests : WindowOf(r, q) = i /\ Decided(r, q) /\ ~ToSpend(r, q)'
             \/ /\ a1 = a /\ b1 = b + 1
                /\ \E r \in Requests : WindowOf(r, q) = i - 1 /\ ToSpend(r, q) /\ ~ToSpend(r, q)'
             \/ a1 <= a /\ b1 = b
      <3>1. CASE now' = now BY <2>3, <3>1, OneCounterGrows
      <3>2. CASE now' # now
        <4>1. Tick BY <3>2, ChecksDo, ReadsDo, DecidesDo, SpendsDo DEF Next, vars
        <4>2. b1 = b BY <1>5, <4>1, StillThere
        <4>3. a1 <= a
          <5>1. ~\E r \in Requests : Counts(r, q, i) BY <3>2, SpendsDo DEF Counts
          <5> QED BY <5>1, WhoCounts
        <4> QED BY <2>3, <4>2, <4>3
      <3> QED BY <3>1, <3>2
    <2>9. CASE \E s \in Current(q, i)' : ReadCurrent(s) /\ s \notin Current(q, i)
      <3>1. PICK s \in Current(q, i)' : ReadCurrent(s) /\ s \notin Current(q, i) BY <2>9
      <3>2. s \in Requests /\ WindowOf(s, q)' = i /\ Viable(s, q)' BY DEF Current
      <3>3. /\ pc[s] = "readCurrent" /\ pc'[s] = "readPrevious"
            /\ UNCHANGED <<now, count, created, at, quota>>
        BY <3>1, <3>2, ReadsDo
      <3>4. WindowOf(s, q) = i BY <3>2, <3>3 DEF WindowOf
      <3>5. ~Decided(s, q)'
        <4> SUFFICES ASSUME Decided(s, q)' PROVE FALSE OBVIOUS
        <4>1. q # quota[s]
          <5>1. ~(q < q) BY DEF Enforced
          <5>2. q = quota[s] => ~reading'[s][q].done
            BY <3>1, <3>2, <3>3, <5>1, ReadsCurrent DEF Gates
          <5> QED BY <5>2 DEF Decided
        <4>2. reading'[s][q] = reading[s][q] BY <3>1, <3>2, <4>1, ReadsCurrent
        <4>3. Within(s, q)' <=> Within(s, q) BY <3>3, <4>2 DEF Within, Unread, Counted
        <4>4. Decided(s, q) BY <3>3, <4>2, <4>3 DEF Decided, ToSpend
        <4> QED BY <3>1, <3>2, <3>4, <4>4 DEF Current, Viable
      <3>6. HalfRead(s, q)' /\ Weighed(s, q)' BY <3>2, <3>5 DEF Viable
      <3>7. quota[s] = q /\ reading'[s][q].current = a
        BY <3>1, <3>2, <3>3, <3>4, <3>6, ReadsCurrent DEF HalfRead
      <3>8. a1 = a /\ b1 = b /\ v1 = v BY <3>3, ReadStays
      <3> DEFINE u == InView(q, at[s])
      <3>9. w * a + b * u < w * Ceiling[q]
        BY <3>2, <3>3, <3>6, <3>7, <3>8 DEF Weighed, WindowOf
      <3>10. u \in Nat /\ v <= u
        <4>1. at[s] \in Nat /\ at[s] <= now BY <3>2, WindowHasIndex DEF Dated
        <4> QED BY <1>3, <1>5, <3>4, <4>1, WindowOfTime, SameWindow DEF WindowOf
      <3> HIDE DEF w, v, v1, a, a1, b, b1, c, c1, bound, u
      <3>11. b * v <= b * u /\ b * v \in Int /\ b * u \in Int
        BY <2>2, <2>3, <3>10, TimesOrder
      <3>12. w * c1 <= w * InFlight /\ w * c1 \in Int /\ w * InFlight \in Int
        BY <2>1, <2>4, TimesOrder
      <3>13. w * a \in Int /\ w * Ceiling[q] \in Int BY <2>1, <2>3
      <3> QED BY <2>1, <3>8, <3>9, <3>11, <3>12, <3>13
    <2>10. CASE ~\E s \in Current(q, i)' : ReadCurrent(s) /\ s \notin Current(q, i)
      <3>1. Current(q, i)' \subseteq Current(q, i)
        BY <2>8, <2>10, CurrentByReading
      <3>2. Spenders(q, i)' \subseteq Spenders(q, i) BY <2>7, <3>1 DEF Spenders
      <3>3. /\ c1 <= c
            /\ \A x \in Spenders(q, i) \ Spenders(q, i)' : c1 <= c - 1
        BY <2>6, <3>2, Fewer
      <3>4. \A r \in Requests : ~ToSpend(r, q)' => r \notin Spenders(q, i)'
        <4>1. (\A r : Viable(r, q) => ToSpend(r, q))' BY DEF Viable, Decided, HalfRead, ToSpend
        <4> QED BY <4>1 DEF Spenders, Current, Late
      <3>5. \/ a1 <= a /\ b1 <= b /\ c1 <= c
            \/ a1 = a + 1 /\ b1 = b /\ c1 <= c - 1
            \/ a1 = a /\ b1 = b + 1 /\ c1 <= c - 1
        <4>1. ASSUME NEW r \in Requests, WindowOf(r, q) = i, Decided(r, q), ~ToSpend(r, q)'
              PROVE  c1 <= c - 1
          <5>1. r \in Spenders(q, i) BY <4>1 DEF Spenders, Current, Viable
          <5> QED BY <3>3, <3>4, <4>1, <5>1
        <4>2. ASSUME NEW r \in Requests, WindowOf(r, q) = i - 1, ToSpend(r, q), ~ToSpend(r, q)'
              PROVE  c1 <= c - 1
          <5>1. r \in Spenders(q, i) BY <4>2 DEF Spenders, Late
          <5> QED BY <3>3, <3>4, <4>2, <5>1
        <4> HIDE DEF a, b, a1, b1, c, c1
        <4> QED BY <2>3, <2>8, <3>3, <4>1, <4>2
      <3>6. a > 0 \/ Current(q, i) # {}
        <4>1. CASE Current(q, i)' # {} BY <3>1, <4>1
        <4>2. CASE a1 > 0
          <5>1. CASE a1 <= a
            <6> HIDE DEF a, a1
            <6> QED BY <2>3, <4>2, <5>1
          <5>2. CASE \E r \in Requests : WindowOf(r, q) = i /\ Decided(r, q)
            BY <5>2 DEF Current, Viable
          <5>3. a1 <= a \/ \E r \in Requests : WindowOf(r, q) = i /\ Decided(r, q)
            <6> HIDE DEF a, b, a1, b1
            <6> QED BY <2>3, <2>8
          <5> QED BY <5>1, <5>2, <5>3
        <4> QED BY <4>1, <4>2
      <3>7. w * a + b * v + w * c < bound BY <2>5, <3>6
      <3> HIDE DEF w, v, v1, a, a1, b, b1, c, c1, bound
      <3>8. /\ w * a1 + b1 * v1 + w * c1 <= w * a + b * v + w * c
            /\ w * a1 + b1 * v1 + w * c1 \in Int /\ w * a + b * v + w * c \in Int
        BY <2>1, <2>2, <2>3, <2>4, <3>5, WeightKept
      <3> QED BY <2>1, <3>7, <3>8
    <2> QED BY <2>9, <2>10
  <1> QED BY <1>4, <1>5
-----------------------------------------------------------------------------
(* The invariant, and what it says.                                        *)
RInv ==
    TypeOK /\ Gates /\ Decisive /\ Dated /\ Room /\ Capped /\ Seam /\ ReadingsBounded

(* The invariant holds at first.                                           *)
LEMMA InitRInv == Init => RInv
  <1> SUFFICES ASSUME Init PROVE RInv OBVIOUS
  <1>1. TypeOK BY InitTypeOK
  <1>2. \A r \in Requests :
          /\ pc[r] = "new" /\ quota[r] = 1 /\ spent[r] = {} /\ at[r] = 0
          /\ \A q \in Enforced : reading[r][q] = NoReading
    BY DEF Init
  <1>3. \A q \in Enforced, j \in Index : count[q][j] = 0 /\ created[q][j] = Never
    BY DEF Init
  <1>4. \A q : \A r \in Requests : ~ToSpend(r, q) BY <1>2 DEF ToSpend
  <1>5. \A q : \A r \in Requests : ~Hopeful(r, q) /\ ~Viable(r, q)
    BY <1>4, SpendersAreChecking
  <1>6. \A q, i : Hopefuls(q, i) = {} /\ Current(q, i) = {}
    BY <1>5 DEF Hopefuls, Current
  <1>7. Cardinality({}) = 0 BY FS_EmptySet
  <1>8. \A q \in Enforced : \A i : Read(q, i) = 0 BY <1>3 DEF Read
  <1>9. \A q \in Enforced : Ceiling[q] \in Nat /\ Ceiling[q] > 0 BY WindowIsNat
  <1>10. InFlight \in Nat /\ InFlight > 0 BY BoundAssumption
  <1>11. Gates BY <1>2 DEF Gates, NoReading
  <1>12. Decisive BY <1>2 DEF Decisive
  <1>13. Dated
    <2>1. now >= 0 BY <1>1, BoundAssumption DEF TypeOK
    <2>2. \A r \in Requests : at[r] <= now BY <1>2, <2>1
    <2>3. \A q \in Enforced, j \in Index :
            count[q][j] = 0 /\ ~(created[q][j] # Never)
      BY <1>3
    <2> QED BY <2>2, <2>3 DEF Dated
  <1>14. Room
    <2>1. Checking = {} BY <1>2 DEF Checking
    <2> QED BY <1>7, <1>10, <2>1 DEF Room
  <1>15. Capped
    <2> SUFFICES ASSUME NEW q \in Enforced, NEW i \in Index
                 PROVE  Read(q, i) + Cardinality(Hopefuls(q, i)) < Ceiling[q] + InFlight
      BY DEF Capped
    <2>1. Read(q, i) = 0 /\ Cardinality(Hopefuls(q, i)) = 0 BY <1>6, <1>7, <1>8
    <2> QED BY <1>9, <1>10, <2>1
  <1>16. Seam
    <2> SUFFICES ASSUME NEW q \in Enforced PROVE SeamAt(q, WindowAt(q, now)) BY DEF Seam
    <2> QED BY <1>6, <1>8 DEF SeamAt
  <1>17. ReadingsBounded
    <2> SUFFICES ASSUME NEW r \in Requests, NEW q \in Enforced
                 PROVE  reading[r][q].current < Ceiling[q] + InFlight
      BY DEF ReadingsBounded
    <2>1. reading[r][q].current = 0 BY <1>2 DEF NoReading
    <2> QED BY <1>9, <1>10, <2>1
  <1> QED BY <1>1, <1>11, <1>12, <1>13, <1>14, <1>15, <1>16, <1>17 DEF RInv

(* And after every step.                                                   *)
LEMMA NextRInv == RInv /\ [Next]_vars => RInv'
  <1> SUFFICES ASSUME RInv, [Next]_vars PROVE RInv' OBVIOUS
  <1>1. TypeOK /\ Gates /\ Decisive /\ Dated /\ Room /\ Capped /\ Seam /\ ReadingsBounded
    BY DEF RInv
  <1>2. TypeOK' BY <1>1, NextTypeOK
  <1>3. Gates' BY <1>1, GatesStep
  <1>4. Decisive' BY <1>1, DecisiveStep
  <1>5. Dated' BY <1>1, DatedStep
  <1>6. Room' BY <1>1, RoomStep
  <1>7. Capped' BY <1>1, <1>6, CappedStep
  <1>8. Seam' BY <1>1, <1>6, SeamStep
  <1>9. ReadingsBounded' BY <1>1, ReadingsStep
  <1> QED BY <1>2, <1>3, <1>4, <1>5, <1>6, <1>7, <1>8, <1>9 DEF RInv

(* The inductive invariant of the limiter: the order of the two passes,    *)
(* the age of the counters, and what is counted together with what may     *)
(* still be, in each window and across two.                                *)
THEOREM RInvHolds == Spec => []RInv
  BY InitRInv, NextRInv, PTL DEF Spec

(* Counters stay natural numbers, no request leaves the range of the       *)
(* quotas, and no window index passes the clock.                           *)
THEOREM RateLimitTypeCorrect == Spec => []TypeOK
  <1>1. RInv => TypeOK BY DEF RInv
  <1> QED BY <1>1, RInvHolds, PTL

(* A request that one quota denies increments no counter of another,       *)
(* whichever was read first and whatever failed.                           *)
THEOREM RefusalsSpendNothing == Spec => []RefusalSpendsNothing
  <1>1. RInv => RefusalSpendsNothing BY DEF RInv, Decisive, RefusalSpendsNothing
  <1> QED BY <1>1, RInvHolds, PTL

(* The counters of the two windows in view have not expired.               *)
LEMMA InViewIsCounted ==
    ASSUME TypeOK, Dated, NEW q \in Enforced, NEW j \in Index,
           j = WindowAt(q, now) \/ j = WindowAt(q, now) - 1
    PROVE  Read(q, j) = count[q][j]
  <1> DEFINE i == WindowAt(q, now)
  <1> DEFINE w == Window[q]
  <1> DEFINE e == Elapsed(q, now)
  <1>1. now \in Nat BY ClockHasIndex DEF NowHasIndex
  <1>2. w \in Nat /\ w > 0 BY WindowIsNat
  <1>3. i \in Nat /\ e \in Nat /\ e < w /\ now = w * i + e BY <1>1, WindowOfTime
  <1>4. ASSUME created[q][j] # Never PROVE now < created[q][j] + 2 * w
    <2>1. w * j <= created[q][j] BY <1>4 DEF Dated
    <2>2. created[q][j] \in Nat
      <3>1. created \in [Enforced -> [Index -> 0..MaxTime \cup {Never}]] BY DEF TypeOK
      <3> QED BY <1>4, <3>1, BoundAssumption
    <2>3. w * j = w * i \/ w * j = w * i - w
      <3> HIDE DEF w
      <3>1. w * (WindowAt(q, now) - 1) = w * WindowAt(q, now) - w BY <1>2, <1>3
      <3> QED BY <3>1
    <2>4. w * i \in Nat
      <3> HIDE DEF w, i
      <3> QED BY <1>2, <1>3
    <2> DEFINE wj == w * j
    <2> DEFINE wi == w * i
    <2>5. /\ wj <= created[q][j] /\ (wj = wi \/ wj = wi - w) /\ wi \in Nat
          /\ now = wi + e
      BY <1>3, <2>1, <2>3, <2>4
    <2> HIDE DEF w, i, e, wj, wi
    <2> QED BY <1>1, <1>2, <1>3, <2>2, <2>5
  <1>5. created[q][j] = Never => count[q][j] = 0 BY DEF Dated
  <1> QED BY <1>4, <1>5 DEF Read

(* The clock starts past the first window, so the one before has an index. *)
LEMMA WindowBefore ==
    ASSUME TypeOK, NEW q \in Enforced
    PROVE  WindowAt(q, now) - 1 \in Index
  <1>1. WindowAt(q, now) \in Index /\ now \in Nat BY ClockHasIndex DEF NowHasIndex
  <1>2. Window[q] <= now
    <2>1. q \in DOMAIN Window BY QuotaAssumption DEF Enforced
    <2>2. Window[q] <= StartTime /\ StartTime <= now /\ StartTime \in Nat
      BY <2>1, BoundAssumption DEF TypeOK
    <2> QED BY <1>1, <2>2, WindowIsNat
  <1>3. WindowAt(q, now) # 0
    <2>1. now = Window[q] * WindowAt(q, now) + Elapsed(q, now)
          /\ Elapsed(q, now) \in Nat /\ Elapsed(q, now) < Window[q]
      BY <1>1, WindowOfTime
    <2>2. Window[q] * 0 = 0 BY WindowIsNat
    <2> QED BY <1>1, <1>2, <2>1, <2>2, WindowIsNat
  <1> QED BY <1>1, <1>3, BoundAssumption DEF Index

(* Concurrent requests pass a quota by no more than were being checked at  *)
(* once, and not at the seam of two windows either.                        *)
THEOREM OvershootStaysBounded == Spec => []OvershootBounded
  <1>1. RInv => OvershootBounded
    <2> SUFFICES ASSUME RInv PROVE OvershootBounded OBVIOUS
    <2> USE DEF RInv
    <2> SUFFICES ASSUME NEW q \in Enforced, NEW i \in Index, i = WindowAt(q, now)
                 PROVE  Window[q] * count[q][i] + count[q][i - 1] * InView(q, now)
                          < Window[q] * (Ceiling[q] + InFlight)
      BY ClockHasIndex DEF OvershootBounded, InView, NowHasIndex
    <2> DEFINE w == Window[q]
    <2> DEFINE v == InView(q, now)
    <2> DEFINE a == Read(q, i)
    <2> DEFINE b == Read(q, i - 1)
    <2> DEFINE c == Cardinality(Spenders(q, i))
    <2> DEFINE k == Ceiling[q] + InFlight
    <2>1. a = count[q][i] /\ b = count[q][i - 1] /\ i - 1 \in Index
      BY WindowBefore, InViewIsCounted
    <2>2. w \in Nat /\ w > 0 /\ k \in Nat BY WindowIsNat, BoundAssumption
    <2>3. a \in Nat /\ b \in Nat BY ReadIsNat
    <2>4. c \in Nat BY SpendersAreFew DEF FewSpenders
    <2>5. v \in Nat /\ v <= w BY WindowOfTime, ClockHasIndex DEF NowHasIndex
    <2>6. b < k
      <3>1. Cardinality(Hopefuls(q, i - 1)) \in Nat BY SpendersAreFew DEF FewSpenders
      <3>2. b + Cardinality(Hopefuls(q, i - 1)) < k BY <2>1 DEF Capped
      <3> HIDE DEF b, k
      <3> QED BY <2>2, <2>3, <3>1, <3>2
    <2>7. a > 0 => w * a + b * v + w * c < w * k
      <3>1. SeamAt(q, i) BY DEF Seam
      <3> QED BY <3>1 DEF SeamAt
    <2> HIDE DEF w, v, a, b, c, k
    <2>8. w * c >= 0 /\ w * c \in Int /\ w * a \in Int /\ b * v \in Int /\ w * k \in Int
      BY <2>2, <2>3, <2>4, <2>5
    <2>9. w * a + b * v < w * k
      <3>1. CASE a > 0 BY <2>7, <2>8, <3>1
      <3>2. CASE ~(a > 0)
        <4>1. w * a = 0 BY <2>2, <2>3, <3>2
        <4>2. b * v <= b * w /\ b * w \in Int BY <2>2, <2>3, <2>5, TimesOrder
        <4>3. w * b < w * k BY <2>2, <2>3, <2>6, TimesStrict
        <4>4. b * w = w * b BY <2>2, <2>3
        <4> QED BY <2>8, <4>1, <4>2, <4>3, <4>4
      <3> QED BY <3>1, <3>2
    <2> QED BY <2>1, <2>9 DEF w, v, k
  <1> QED BY <1>1, RInvHolds, PTL
-----------------------------------------------------------------------------
(* How long a refused client waits.                                        *)

(* Once the rounded decay of k counted requests has passed, those of them  *)
(* in the older window weigh less than h + 1, when there are no more of    *)
(* them than the window has milliseconds: rounding loses up to one of them *)
(* per millisecond.                                                        *)
LEMMA DecayEnough ==
    ASSUME NEW w \in Nat, w > 0, NEW k \in Nat, NEW h \in Nat, h < k,
           NEW c \in Nat, c <= k, c <= w,
           NEW y \in Nat, y <= w - ((w * (k - h)) \div k)
    PROVE  c * y < w * (h + 1)
  <1> DEFINE d == (w * (k - h)) \div k
  <1>1. k - h \in Nat /\ k > 0 OBVIOUS
  <1>2. w * (k - h) \in Nat BY <1>1
  <1>3. d \in Nat BY <1>1, <1>2, QuotientBelow
  <1>4. w * (k - h) < k * (d + 1)
    <2>1. d + 1 \in Int /\ d < d + 1 BY <1>3
    <2>2. d < d + 1 <=> w * (k - h) < k * (d + 1) BY <1>1, <1>2, <2>1, QuotientBelow
    <2> QED BY <2>1, <2>2
  <1> HIDE DEF d
  <1>5. y <= w - d BY DEF d
  <1>6. w * (k - h) = w * k - w * h /\ k * (d + 1) = k * d + k BY <1>3
  <1>7. k * y <= k * (w - d) /\ k * (w - d) = k * w - k * d /\ k * w = w * k
    <2>1. w - d \in Int BY <1>3
    <2> QED BY <1>3, <1>5, <2>1, TimesOrder
  <1>8. w * h \in Nat /\ w * k \in Nat /\ k * d \in Nat /\ k * y \in Nat BY <1>3
  <1>9. k * y < w * h + k BY <1>4, <1>6, <1>7, <1>8
  <1> SUFFICES ASSUME ~(c * y < w * (h + 1)) PROVE FALSE OBVIOUS
  <1>10. c * y \in Nat /\ w * (h + 1) = w * h + w BY Z3
  <1>11. w * h + w <= c * y BY <1>8, <1>10
  <1>12. c * y <= k * y
    <2>1. y * c <= y * k BY TimesOrder
    <2>2. y * c = c * y /\ y * k = k * y BY Z3
    <2> QED BY <2>1, <2>2
  <1>13. k * (w * h + w) <= k * (c * y)
    <2>1. w * h + w \in Int /\ c * y \in Int BY <1>8, <1>10
    <2> QED BY <1>11, <2>1, TimesOrder
  <1>14. c * (k * y) <= c * (w * h + k - 1)
    <2>1. k * y <= w * h + k - 1 /\ k * y \in Int /\ w * h + k - 1 \in Int BY <1>8, <1>9
    <2> QED BY <2>1, TimesOrder
  <1> DEFINE x == w * h
  <1>15. x \in Nat BY <1>8
  <1>16. k * (c * y) = c * (k * y) BY Z3
  <1>17. k * x + k * w <= c * x + c * k - c
    <2>1. k * (x + w) = k * x + k * w /\ c * (x + k - 1) = c * x + c * k - c
      <3> HIDE DEF x
      <3> QED BY <1>15
    <2>2. c * (k * y) \in Int BY Z3
    <2>3. k * (x + w) <= c * (k * y) /\ c * (k * y) <= c * (x + k - 1)
      BY <1>13, <1>14, <1>16
    <2>4. k * (x + w) \in Int /\ c * (x + k - 1) \in Int
      <3> HIDE DEF x
      <3> QED BY <1>15
    <2> DEFINE left == k * (x + w)
    <2> DEFINE right == c * (x + k - 1)
    <2> DEFINE middle == c * (k * y)
    <2>5. left <= middle /\ middle <= right /\ left \in Int /\ middle \in Int /\ right \in Int
      BY <2>2, <2>3, <2>4
    <2>6. left = k * x + k * w /\ right = c * x + c * k - c BY <2>1
    <2> HIDE DEF left, middle, right
    <2>7. left <= right BY <2>5
    <2> QED BY <2>6, <2>7
  <1> HIDE DEF x
  <1>18. c * x <= k * x
    <2>1. x * c <= x * k BY <1>15, TimesOrder
    <2>2. x * c = c * x /\ x * k = k * x BY <1>15
    <2> QED BY <2>1, <2>2
  <1>19. k * w <= c * k - c
    <2>1. k * x \in Int /\ c * x \in Int /\ k * w \in Int /\ c * k \in Int BY <1>15
    <2> QED BY <1>17, <1>18, <2>1
  <1>20. c * k <= w * k
    <2>1. k * c <= k * w BY TimesOrder
    <2>2. k * c = c * k /\ k * w = w * k BY Z3
    <2> QED BY <2>1, <2>2
  <1>21. CASE c = 0
    <2>1. c * y = 0 BY <1>21
    <2>2. w * h + w > 0 BY <1>8
    <2> QED BY <1>11, <2>1, <2>2
  <1>22. CASE c > 0
    <2>1. c * k \in Int /\ w * k \in Int /\ k * w = w * k BY Z3
    <2> QED BY <1>19, <1>20, <1>22, <2>1
  <1> QED BY <1>21, <1>22

(* One millisecond more than the rounded decay is enough for any count.    *)
LEMMA DecayExceeded ==
    ASSUME NEW w \in Nat, w > 0, NEW k \in Nat, NEW h \in Nat, h < k,
           NEW c \in Nat, c <= k,
           NEW y \in Nat, y < w - ((w * (k - h)) \div k)
    PROVE  c * y < w * (h + 1)
  <1> DEFINE d == (w * (k - h)) \div k
  <1>1. k - h \in Nat /\ k > 0 OBVIOUS
  <1>2. w * (k - h) \in Nat BY <1>1
  <1>3. d \in Nat BY <1>1, <1>2, QuotientBelow
  <1>4. w * (k - h) < k * (d + 1)
    <2>1. d + 1 \in Int /\ d < d + 1 BY <1>3
    <2>2. d < d + 1 <=> w * (k - h) < k * (d + 1) BY <1>1, <1>2, <2>1, QuotientBelow
    <2> QED BY <2>1, <2>2
  <1> HIDE DEF d
  <1>5. y <= w - (d + 1) BY <1>3 DEF d
  <1>6. w * (k - h) = w * k - w * h BY Z3
  <1>7. k * y <= k * (w - (d + 1)) /\ k * (w - (d + 1)) = k * w - k * (d + 1) /\ k * w = w * k
    <2>1. w - (d + 1) \in Int BY <1>3
    <2> QED BY <1>3, <1>5, <2>1, TimesOrder
  <1>8. w * h \in Nat /\ w * k \in Nat /\ k * (d + 1) \in Nat /\ k * y \in Nat BY <1>3
  <1>9. k * y < w * h BY <1>4, <1>6, <1>7, <1>8
  <1>10. c * y <= k * y /\ c * y \in Int
    <2>1. y * c <= y * k BY TimesOrder
    <2>2. y * c = c * y /\ y * k = k * y /\ c * y \in Int BY Z3
    <2> QED BY <2>1, <2>2
  <1>11. w * (h + 1) = w * h + w BY Z3
  <1> QED BY <1>8, <1>9, <1>10, <1>11

(* A wait is a number, and a request that a quota denied has a longest.    *)
LEMMA WaitIsNat ==
    ASSUME TypeOK, NEW r \in Requests, NEW q \in Enforced
    PROVE  Wait(r, q) \in Nat
  <1>1. at[r] \in Nat BY WindowHasIndex
  <1>2. Window[q] - Elapsed(q, at[r]) \in Nat BY <1>1, WindowOfTime DEF InView
  <1>3. Window[q] \in Nat /\ Ceiling[q] - 1 \in Nat BY WindowIsNat
  <1>4. CASE Refused(r, q)
    <2> DEFINE k == Counted(r, q)
    <2> DEFINE h == Ceiling[q] - 1
    <2> DEFINE w == Window[q]
    <2> DEFINE v == Window[q] - Elapsed(q, at[r])
    <2>1. k \in Nat
      <3>1. Answers(r, q) BY <1>4, ReadSays DEF AllAnswer, Refused
      <3> QED BY <3>1 DEF Answers
    <2>2. Wait(r, q) = v + IF k <= h THEN 0 ELSE (w * (k - h)) \div k
      BY <1>4 DEF Wait, RecoversIn
    <2>3. v \in Nat /\ w \in Nat /\ h \in Nat BY <1>2, <1>3
    <2> HIDE DEF k, h, w, v
    <2>4. ASSUME ~(k <= h) PROVE (w * (k - h)) \div k \in Nat
      <3>1. k - h \in Nat /\ k > 0 BY <2>1, <2>3, <2>4
      <3>2. w * (k - h) \in Nat BY <2>3, <3>1
      <3> DEFINE n == w * (k - h)
      <3>3. n \in Nat BY <3>2
      <3> HIDE DEF n
      <3>4. n \div k \in Nat BY <2>1, <3>1, <3>3, QuotientBelow
      <3> QED BY <3>4 DEF n
    <2> QED BY <2>2, <2>3, <2>4
  <1>5. CASE ~Refused(r, q) BY <1>2, <1>5 DEF Wait
  <1> QED BY <1>4, <1>5

(* A set of naturals that is not empty has a least member.                 *)
LEMMA HasLeast ==
    ASSUME NEW T, T \subseteq Nat, T # {}
    PROVE  \E x \in T : \A y \in T : x <= y
<1> DEFINE R == {ss \in Nat \X Nat : ss[1] < ss[2]}
<1>1. IsWellFoundedOn(R, Nat)
  BY NatLessThanWellFounded, Zenon DEF OpToRel
<1>2. \A x, y \in Nat : <<y, x>> \notin R => x <= y
  OBVIOUS
<1>3. \E x \in T : \A y \in T : ~(<<y, x>> \in R)
  <2> HIDE DEF R
  <2> QED
    BY <1>1, WFMin, Zenon
<1> HIDE DEF R
<1>4. PICK x \in T : \A y \in T : <<y, x>> \notin R
  BY <1>3
<1>5. \A y \in T : x <= y
  BY <1>2, <1>4
<1> QED
  BY <1>5

(* One of finitely many indexed values is the greatest.                    *)
LEMMA HasGreatest ==
    ASSUME NEW n \in Nat, NEW D, D \subseteq 1..n, D # {}, NEW f \in [D -> Nat]
    PROVE  \E x \in D : \A y \in D : f[y] <= f[x]
<1> DEFINE Upto(k) == {x \in D : x <= k}
<1> DEFINE Bad == {k \in Nat : Upto(k) # {} /\ \A x \in Upto(k) : \E y \in Upto(k) : ~(f[y] <= f[x])}
<1>d. D \subseteq Nat /\ \A x \in D : x > 0 /\ x <= n
  OBVIOUS
<1>1. Bad = {}
  <2> SUFFICES ASSUME Bad # {} PROVE FALSE
    OBVIOUS
  <2>1. Bad \subseteq Nat
    OBVIOUS
  <2> HIDE DEF Bad
  <2>2. PICK k \in Bad : \A j \in Bad : k <= j
    BY <2>1, HasLeast
  <2>3. /\ k \in Nat /\ Upto(k) # {}
        /\ \A x \in Upto(k) : \E y \in Upto(k) : ~(f[y] <= f[x])
    BY <2>2 DEF Bad
  <2>4. k > 0 /\ k - 1 \in Nat
    <3>1. k # 0
      <4>1. PICK x \in D : x <= k
        BY <2>3
      <4> QED
        BY <1>d, <2>3, <4>1
    <3> QED
      BY <2>3, <3>1
  <2>5. k - 1 \notin Bad
    <3>1. ~(k <= k - 1)
      BY <2>3
    <3> QED
      BY <2>2, <3>1
  <2>6. Upto(k) = Upto(k - 1) \cup (D \cap {k})
    <3>1. \A x \in D : x <= k <=> x <= k - 1 \/ x = k
      BY <1>d, <2>3
    <3> QED
      BY <3>1
  <2>7. CASE Upto(k - 1) = {}
    <3>1. Upto(k) = {k} /\ k \in D
      BY <2>3, <2>6, <2>7
    <3>2. f[k] <= f[k]
      BY <3>1
    <3> QED
      BY <2>3, <3>1, <3>2
  <2>8. CASE Upto(k - 1) # {}
    <3>1. PICK x \in Upto(k - 1) : \A y \in Upto(k - 1) : f[y] <= f[x]
      BY <2>4, <2>5, <2>8 DEF Bad
    <3>2. CASE k \in D /\ f[x] <= f[k]
      <4>1. k \in Upto(k)
        BY <2>3, <3>2
      <4>2. \A y \in Upto(k) : f[y] <= f[k]
        BY <2>6, <3>1, <3>2
      <4> QED
        BY <2>3, <4>1, <4>2
    <3>3. CASE ~(k \in D /\ f[x] <= f[k])
      <4>1. x \in Upto(k)
        BY <2>6
      <4>2. \A y \in Upto(k) : f[y] <= f[x]
        BY <2>6, <3>1, <3>3
      <4> QED
        BY <2>3, <4>1, <4>2
    <3> QED
      BY <3>2, <3>3
  <2> QED
    BY <2>7, <2>8
<1>2. Upto(n) = D
  BY <1>d
<1>3. n \notin Bad
  BY <1>1
<1> QED
  BY <1>2, <1>3
(* Retry-After is the longest of the waits of those that denied.           *)
LEMMA LongestWait ==
    ASSUME TypeOK, NEW r \in Requests, Denied(r)
    PROVE  /\ RetryAfter(r) \in Nat
           /\ \A q \in Enforced : Denies(r, q) => Wait(r, q) <= RetryAfter(r)
  <1> DEFINE D == {p \in Enforced : Denies(r, p)}
  <1> DEFINE f == [p \in D |-> Wait(r, p)]
  <1> DEFINE Waits == {Wait(r, q) : q \in D}
  <1>1. D \subseteq 1..Len(Window) /\ D # {} /\ Len(Window) \in Nat
    BY QuotaAssumption DEF Denied, Enforced
  <1>2. f \in [D -> Nat] BY WaitIsNat
  <1>3. \E x \in D : \A y \in D : f[y] <= f[x]
    <2> HIDE DEF D, f
    <2> QED BY <1>1, <1>2, HasGreatest
  <1>4. \E w \in Waits : \A q \in Enforced : Denies(r, q) => Wait(r, q) <= w
    <2>1. PICK x \in D : \A y \in D : f[y] <= f[x] BY <1>3
    <2>2. \A y \in D : Wait(r, y) <= Wait(r, x) BY <2>1
    <2>3. Wait(r, x) \in Waits OBVIOUS
    <2> QED BY <2>2, <2>3
  <1>5. RetryAfter(r) =
          CHOOSE w \in Waits : \A q \in Enforced : Denies(r, q) => Wait(r, q) <= w
    BY DEF RetryAfter
  <1>6. Waits \subseteq Nat BY WaitIsNat
  <1> HIDE DEF Waits
  <1>7. /\ RetryAfter(r) \in Waits
        /\ \A q \in Enforced : Denies(r, q) => Wait(r, q) <= RetryAfter(r)
    BY <1>4, <1>5
  <1> QED BY <1>6, <1>7

(* After a wait of t, counters of one quota that were not refused, or that *)
(* were and have had their decay, estimate below its ceiling: with a       *)
(* millisecond to spare, or without one if they cannot count more than the *)
(* milliseconds of the window.                                             *)
LEMMA ProjectionBelow ==
    ASSUME TypeOK, ReadingsBounded, NEW r \in Requests, NEW q \in Enforced,
           ~Unread(r, q), NEW t \in Nat, Denies(r, q) => Wait(r, q) <= t,
           \/ Denies(r, q) => Wait(r, q) < t
           \/ Ceiling[q] + InFlight <= Window[q] + 1
    PROVE  Projected(r, q, t) < Ceiling[q]
  <1> DEFINE w == Window[q]
  <1> DEFINE k == Ceiling[q]
  <1> DEFINE c == reading[r][q].current
  <1> DEFINE p == reading[r][q].previous
  <1> DEFINE e == Elapsed(q, at[r])
  <1> DEFINE n == Counted(r, q)
  <1>1. w \in Nat /\ w > 0 /\ k \in Nat /\ k > 0 BY WindowIsNat
  <1>2. at[r] \in Nat BY WindowHasIndex
  <1>3. e \in Nat /\ e < w BY <1>2, WindowOfTime
  <1>4. Answers(r, q) BY ReadSays DEF AllAnswer
  <1>5. c \in Nat /\ p \in Nat /\ n \in Nat /\ c <= n BY <1>4 DEF Answers
  <1>6. n < k <=> w * c + p * (w - e) < w * k BY <1>1, <1>4 DEF Answers, InView
  <1>7. k + InFlight <= w + 1 => c <= w
    <2> SUFFICES ASSUME k + InFlight <= w + 1 PROVE c <= w OBVIOUS
    <2>1. c < k + InFlight /\ k + InFlight <= w + 1 BY DEF ReadingsBounded
    <2>2. InFlight \in Nat BY BoundAssumption
    <2> HIDE DEF c, k, w
    <2> QED BY <1>1, <1>5, <2>1, <2>2
  <1> DEFINE decay == (w * (n - (k - 1))) \div n
  <1>8. n < k \/ (w - e + decay <= t /\ (w - e + decay < t \/ c <= w))
    <2> SUFFICES ASSUME ~(n < k) PROVE w - e + decay <= t /\ (w - e + decay < t \/ c <= w)
      OBVIOUS
    <2>1. n >= k BY <1>1, <1>5
    <2>2. Refused(r, q) BY <2>1 DEF Refused
    <2>3. Wait(r, q) <= t /\ (Wait(r, q) < t \/ c <= w) BY <1>7, <2>2 DEF Denies
    <2>4. Wait(r, q) = RecoversIn(q, n, k - 1, e) BY <2>2 DEF Wait
    <2>5. ~(n <= k - 1)
      <3> HIDE DEF n, k
      <3> QED BY <1>1, <1>5, <2>1
    <2>6. RecoversIn(q, n, k - 1, e) = w - e + decay
      BY <2>5 DEF RecoversIn
    <2> QED BY <2>3, <2>4, <2>6
  <1> DEFINE u == e + t
  <1> DEFINE s == u \div w
  <1>9. Projected(r, q, t) = IF s = 0 THEN Estimate(q, p, c, u)
                             ELSE IF s = 1 THEN Estimate(q, c, 0, u - w) ELSE 0
    BY DEF Projected
  <1>10. u \in Nat /\ u % w \in Nat /\ u % w < w /\ s \in Nat /\ u = w * s + (u % w)
    <2>1. u \in Nat BY <1>3
    <2> HIDE DEF u, w
    <2> QED BY <1>1, <2>1, Division
  <1>11. ASSUME NEW a \in Nat, NEW b \in Nat, NEW x \in Nat, x <= w
         PROVE  Estimate(q, b, a, x) < k <=> w * a + b * (w - x) < w * k
    <2>1. k \in Int /\ x <= Window[q] BY <1>1, <1>11
    <2> HIDE DEF k
    <2> QED BY <2>1, EstimateBelow
  <1>12. n < k \/ (/\ decay \in Nat /\ w - e + decay <= t
                   /\ w - e + decay < t \/ c <= w)
    <2> SUFFICES ASSUME ~(n < k) PROVE decay \in Nat BY <1>8
    <2> DEFINE g == n - (k - 1)
    <2>1. g \in Nat /\ n > 0
      <3> HIDE DEF n, k
      <3> QED BY <1>1, <1>5
    <2> DEFINE m == w * g
    <2>2. m \in Nat
      <3> HIDE DEF w, g
      <3> QED BY <1>1, <2>1
    <2> HIDE DEF m, n
    <2>3. m \div n \in Nat BY <1>5, <2>1, <2>2, QuotientBelow
    <2> QED BY <2>3 DEF m
  <1>13. n >= k => (c * (w - (u - w)) < w * k \/ ~(s = 1))
    <2> SUFFICES ASSUME n >= k, s = 1 PROVE c * (w - (u - w)) < w * k OBVIOUS
    <2> DEFINE y == w - (u - w)
    <2>1. y \in Nat /\ u - w \in Nat
      <3>1. u = w + (u % w)
        <4>1. w * 1 = w BY <1>1
        <4> QED BY <1>10, <4>1
      <3> DEFINE z == u % w
      <3>2. u = w + z /\ z \in Nat /\ z < w BY <1>10, <3>1
      <3> HIDE DEF u, w, z
      <3> QED BY <1>1, <3>2
    <2>2. y <= w - decay /\ (y < w - decay \/ c <= w)
      <3>1. decay \in Nat /\ w - e + decay <= t /\ (w - e + decay < t \/ c <= w)
        <4>1. ~(n < k)
          <5> HIDE DEF n, k
          <5> QED BY <1>1, <1>5
        <4> QED BY <1>12, <4>1
      <3> DEFINE ee == e
      <3>2. /\ ee \in Nat /\ u = ee + t /\ w - ee + decay <= t
            /\ w - ee + decay < t \/ c <= w
        BY <1>3, <3>1
      <3>3. y <= w - decay /\ (w - ee + decay < t => y < w - decay)
        <4>1. decay \in Nat /\ y = w - (u - w) BY <3>1
        <4>2. ee \in Nat /\ u = ee + t /\ w - ee + decay <= t BY <3>2
        <4> HIDE DEF decay, u, ee, w, y
        <4>3. y = w - ((ee + t) - w) BY <4>1, <4>2
        <4> QED BY <1>1, <4>1, <4>2, <4>3
      <3> QED BY <3>2, <3>3, Zenon
    <2> DEFINE h == k - 1
    <2>3. h \in Nat /\ h < n /\ h + 1 = k
      <3> HIDE DEF n, k
      <3> QED BY <1>1, <1>5
    <2> DEFINE room == w - ((w * (n - h)) \div n)
    <2>4. y <= room /\ (y < room \/ c <= w) BY <2>2
    <2>5. CASE y < room
      <3>1. y < w - ((w * (n - h)) \div n) BY <2>5
      <3> HIDE DEF w, c, n, y, h, k, room
      <3>2. c * y < w * (h + 1) BY <1>1, <1>5, <2>1, <2>3, <3>1, DecayExceeded
      <3> QED BY <2>3, <3>2 DEF y
    <2>6. CASE c <= w
      <3>1. y <= w - ((w * (n - h)) \div n) BY <2>4
      <3> HIDE DEF w, c, n, y, h, k, room
      <3>2. c * y < w * (h + 1) BY <1>1, <1>5, <2>1, <2>3, <2>6, <3>1, DecayEnough
      <3> QED BY <2>3, <3>2 DEF y
    <2> QED BY <2>4, <2>5, <2>6
  <1>14. CASE s = 0
    <2>1. u < w /\ u <= w
      <3>1. u = u % w
        <4>1. w * 0 = 0 BY <1>1
        <4>2. u % w \in Nat BY <1>10
        <4> QED BY <1>10, <1>14, <4>1, <4>2
      <3> QED BY <1>10, <3>1, <1>1
    <2>2. n < k
      <3> SUFFICES ASSUME ~(n < k) PROVE FALSE OBVIOUS
      <3>1. decay \in Nat /\ w - e + decay <= t BY <1>12
      <3> DEFINE ee == e
      <3>2. ee \in Nat /\ u = ee + t /\ w - ee + decay <= t BY <1>3, <3>1
      <3>3. u < w BY <2>1
      <3> HIDE DEF decay, u, ee, w
      <3> QED BY <1>1, <3>1, <3>2, <3>3
    <2>3. w * c + p * (w - e) < w * k BY <1>6, <2>2
    <2>4. p * (w - u) <= p * (w - e) /\ p * (w - u) \in Int /\ p * (w - e) \in Int
      <3>1. w - u <= w - e /\ w - u \in Int /\ w - e \in Int
        <4> DEFINE ee == e
        <4>1. ee \in Nat /\ u = ee + t BY <1>3
        <4> HIDE DEF u, w, ee
        <4>2. w - u <= w - ee /\ w - u \in Int /\ w - ee \in Int BY <1>1, <1>10, <4>1
        <4> QED BY <4>2 DEF ee
      <3> DEFINE x1 == w - u
      <3> DEFINE x2 == w - e
      <3>2. x1 <= x2 /\ x1 \in Int /\ x2 \in Int BY <3>1
      <3> HIDE DEF x1, x2, p
      <3>3. p * x1 <= p * x2 /\ p * x1 \in Int /\ p * x2 \in Int BY <1>5, <3>2, TimesOrder
      <3> QED BY <3>3 DEF x1, x2
    <2>5. w * c \in Int /\ w * k \in Int
      <3> HIDE DEF w, c, k
      <3> QED BY <1>1, <1>5
    <2>6. w * c + p * (w - u) < w * k
      <3> DEFINE y1 == p * (w - u)
      <3> DEFINE y2 == p * (w - e)
      <3> DEFINE y3 == w * c
      <3> DEFINE y4 == w * k
      <3>1. y1 <= y2 /\ y3 + y2 < y4 /\ y1 \in Int /\ y2 \in Int /\ y3 \in Int /\ y4 \in Int
        BY <2>3, <2>4, <2>5
      <3> HIDE DEF y1, y2, y3, y4
      <3>2. y3 + y1 < y4 BY <3>1
      <3> QED BY <3>2 DEF y1, y3, y4
    <2>7. Estimate(q, p, c, u) < k
      <3> HIDE DEF w, p, c, u, k
      <3> QED BY <1>5, <1>10, <1>11, <2>1, <2>6
    <2> QED BY <1>9, <1>14, <2>7
  <1>15. CASE s = 1
    <2>1. u - w \in Nat /\ u - w <= w
      <3>1. w * 1 = w BY <1>1
      <3>2. u = w + (u % w) BY <1>10, <1>15, <3>1
      <3> DEFINE z == u % w
      <3>3. u = w + z /\ z \in Nat /\ z < w BY <1>10, <3>2
      <3> HIDE DEF u, w, z
      <3> QED BY <1>1, <3>3
    <2>2. c * (w - (u - w)) < w * k
      <3>1. CASE n >= k BY <1>13, <1>15, <3>1
      <3>2. CASE ~(n >= k)
        <4> DEFINE y == w - (u - w)
        <4>1. y \in Nat /\ y <= w
          <5> HIDE DEF u, w
          <5> QED BY <1>1, <1>10, <2>1
        <4>2. c < k
          <5> HIDE DEF c, n, k
          <5> QED BY <1>1, <1>5, <3>2
        <4> HIDE DEF y, w, c, k
        <4>3. c * y <= c * w /\ c * w \in Int /\ c * y \in Int BY <1>1, <1>5, <4>1, TimesOrder
        <4>4. w * c < w * k BY <1>1, <1>5, <4>2, TimesStrict
        <4>5. c * w = w * c /\ w * k \in Int BY <1>1, <1>5
        <4>6. c * y < w * k BY <4>3, <4>4, <4>5
        <4> QED BY <4>6 DEF y
      <3> QED BY <3>1, <3>2
    <2>3. Estimate(q, c, 0, u - w) < k
      <3> DEFINE x == u - w
      <3>1. x \in Nat /\ x <= w /\ c * (w - x) < w * k BY <2>1, <2>2
      <3> HIDE DEF x
      <3>2. w * 0 = 0 BY <1>1
      <3>3. c * (w - x) \in Int /\ 0 \in Nat
        <4> HIDE DEF w, c
        <4> QED BY <1>1, <1>5, <3>1
      <3>4. Estimate(q, c, 0, x) < k <=> w * 0 + c * (w - x) < w * k
        BY <1>5, <1>11, <3>1, <3>3
      <3> HIDE DEF w, c, k
      <3>5. Estimate(q, c, 0, x) < k BY <3>1, <3>2, <3>3, <3>4
      <3> QED BY <3>5 DEF x
    <2> QED BY <1>9, <1>15, <2>3
  <1>16. CASE ~(s = 0 \/ s = 1) BY <1>1, <1>9, <1>16
  <1> QED BY <1>14, <1>15, <1>16

(* Retry-After is enough, for quotas whose ceiling and the requests being  *)
(* checked at once come to no more than one past the milliseconds of the   *)
(* window: a client that waits that long and sends nothing more is         *)
(* admitted by every quota that refused it.                                *)
THEOREM WaitingIsEnough ==
    ASSUME \A q \in Enforced : Ceiling[q] + InFlight <= Window[q] + 1
    PROVE  Spec => []RetryAfterSuffices
  <1>1. RInv => RetryAfterSuffices
    <2> SUFFICES ASSUME RInv, NEW r \in Requests, pc[r] = "denied",
                        NEW q \in Enforced, ~Unread(r, q)
                 PROVE  Projected(r, q, RetryAfter(r)) < Ceiling[q]
      BY DEF RetryAfterSuffices, Admitted
    <2>1. TypeOK /\ ReadingsBounded /\ Denied(r) BY DEF RInv, Decisive
    <2>2. /\ RetryAfter(r) \in Nat
          /\ Denies(r, q) => Wait(r, q) <= RetryAfter(r)
      BY <2>1, LongestWait
    <2> QED BY <2>1, <2>2, ProjectionBelow
  <1> QED BY <1>1, RInvHolds, PTL

(* Without that, it ends at most a millisecond early: a client that waits  *)
(* one more is admitted by every quota that refused it, whatever the       *)
(* ceilings and the windows.                                               *)
THEOREM AMillisecondMoreIsEnough ==
    Spec => [](\A r \in Requests : pc[r] = "denied" => Admitted(r, RetryAfter(r) + 1))
  <1>1. RInv => \A r \in Requests : pc[r] = "denied" => Admitted(r, RetryAfter(r) + 1)
    <2> SUFFICES ASSUME RInv, NEW r \in Requests, pc[r] = "denied",
                        NEW q \in Enforced, ~Unread(r, q)
                 PROVE  Projected(r, q, RetryAfter(r) + 1) < Ceiling[q]
      BY DEF Admitted
    <2>1. TypeOK /\ ReadingsBounded /\ Denied(r) BY DEF RInv, Decisive
    <2> DEFINE t == RetryAfter(r) + 1
    <2>2. /\ RetryAfter(r) \in Nat
          /\ Denies(r, q) => Wait(r, q) <= RetryAfter(r)
      BY <2>1, LongestWait
    <2>3. Wait(r, q) \in Nat BY <2>1, WaitIsNat
    <2>4. t \in Nat /\ (Denies(r, q) => Wait(r, q) <= t /\ Wait(r, q) < t) BY <2>2, <2>3
    <2> HIDE DEF t
    <2>5. Projected(r, q, t) < Ceiling[q] BY <2>1, <2>4, ProjectionBelow
    <2> QED BY <2>5 DEF t
  <1> QED BY <1>1, RInvHolds, PTL
=============================================================================
