--------------------------- MODULE ExchangeProofs ---------------------------
(***************************************************************************)
(* Proofs about Concurrency and Exchange for any number of requests, any   *)
(* limit, and any mix of settings.                                         *)
(*                                                                         *)
(* Every step of an exchange is a step of its slot or leaves the slots     *)
(* alone, so what is proved of the slots in Concurrency holds of every     *)
(* exchange; what observers are told is then a function of where the       *)
(* exchange stands.                                                        *)
(***************************************************************************)
EXTENDS Exchange, FiniteSetTheorems, SequenceTheorems, TLAPS

(* Types; the bound on avail follows from the count of the slots.          *)
Typed ==
    /\ pc \in [Requests -> PC]
    /\ avail \in Nat
    /\ queue \in Seq(Requests)
    /\ granted \subseteq Waiting
    /\ late \subseteq Requests
    /\ inner \in [Requests -> Inner]
    /\ report \in [Requests -> {"none", "armed"} \cup Delivery]
    /\ delivery \in [Requests -> Delivery]

(* Who is in the queue waits, has no permit, and stands there once.        *)
Queued ==
    /\ \A i \in 1..Len(queue) : queue[i] \in Waiting \ granted
    /\ \A i, j \in 1..Len(queue) : queue[i] = queue[j] => i = j

(* Whose body the slot is with.                                            *)
Bodies ==
    \A r \in Requests :
       /\ pc[r] \in {"new", "waiting", "expired", "handler"} =>
            report[r] = "none" /\ inner[r] = "none"
       /\ pc[r] = "body" =>
            \/ report[r] = "armed" /\ inner[r] \in {"open", "failed", "ended"}
            \/ report[r] = "Complete" /\ inner[r] \in AtEnd
       /\ pc[r] = "reporting" =>
            \/ /\ report[r] = "armed"
               /\ \/ delivery[r] = "Complete" /\ inner[r] = "ended"
                  \/ delivery[r] = "Interrupted" /\ inner[r] = "released"
            \/ report[r] = "Complete" /\ inner[r] \in AtEnd
       /\ pc[r] = "over" =>
            \/ report[r] = "none" /\ inner[r] = "none"
            \/ report[r] = "Complete" /\ inner[r] \in AtEnd
            \/ report[r] = "Interrupted" /\ inner[r] = "released"

SlotInv == Typed /\ Queued /\ Bodies /\ SlotsConserved

-----------------------------------------------------------------------------
(* What an exchange adds.                                                  *)
Phase == {"new", "chain", "sending", "dropping", "over"}
Shapes ==
    /\ phase \in [Requests -> Phase]
    /\ DOMAIN config = Requests /\ DOMAIN result = Requests /\ DOMAIN has = Requests
    /\ DOMAIN plain = Requests /\ DOMAIN told = Requests
    /\ outer \in [Requests -> {"none", "armed"} \cup Delivery]

(* Where request r stands with its slot, by the phase of the exchange.     *)
PlacedAt(r) ==
    /\ phase[r] = "new" => pc[r] = "new"
    /\ phase[r] = "chain" /\ result[r] = "none" =>
         pc[r] \in {"waiting", "expired", "handler"}
    /\ phase[r] = "chain" /\ result[r] # "none" =>
         \/ pc[r] = "over"
         \/ pc[r] = "body" /\ report[r] = "armed"
         \/ pc[r] = "reporting" /\ config[r].head
    /\ phase[r] = "sending" =>
         IF plain[r] = "none" THEN pc[r] = "body" ELSE pc[r] = "over"
    /\ phase[r] = "dropping" => pc[r] \in {"reporting", "over"}
    /\ phase[r] = "over" => pc[r] = "over"
    /\ phase[r] \in {"new", "chain"} => outer[r] = "none"
    /\ phase[r] \in {"sending", "dropping"} => outer[r] \in {"armed", "Complete"}
    /\ phase[r] = "over" => outer[r] # "armed"
    /\ outer[r] = "none" => plain[r] = "none"
    /\ r \in panicked => phase[r] = "over" \/ (phase[r] # "new" /\ result[r] # "none")

(* The two watches of a body of the chain agree.                           *)
AgreeAt(r) ==
    /\ delivery[r] = "Complete" => inner[r] \in AtEnd
    /\ outer[r] # "none" /\ plain[r] = "none" =>
         /\ phase[r] \in {"sending", "over"} => outer[r] = report[r]
         /\ phase[r] = "dropping" =>
              \/ outer[r] = "Complete" /\ report[r] = "Complete"
              \/ /\ outer[r] = "armed"
                 /\ report[r] = IF pc[r] = "over" THEN delivery[r] ELSE "armed"

(* What the observers have been told is a function of the rest.            *)
Recovered(r) == r \in panicked /\ config[r].scopes # {}
Story(r) ==
    IF phase[r] = "new" THEN <<>>
    ELSE IF outer[r] = "none"
    THEN IF Recovered(r) THEN <<"request", "panic">> ELSE <<"request">>
    ELSE IF outer[r] = "Interrupted"
    THEN IF Recovered(r) THEN <<"request", "panic", "response", "disconnect">>
                         ELSE <<"request", "response", "disconnect">>
    ELSE IF Recovered(r) THEN <<"request", "panic", "response">>
                         ELSE <<"request", "response">>

At(r) == PlacedAt(r) /\ AgreeAt(r) /\ told[r] = Story(r)

(* A producer that has nothing has had nothing since its clock started,    *)
(* and a body that was cut off is not polled again.                        *)
QuietAt(r) ==
    /\ Open(r) /\ has[r] = "nothing" => r \in silent
    /\ r \in cut => ~Open(r) /\ phase[r] \notin {"new", "chain"}
    /\ r \in cut /\ config[r].clock = "idle" => r \in silent

Quiet == \A r \in Requests : QuietAt(r)

ExchangeInv == Shapes /\ \A r \in Requests : At(r)

-----------------------------------------------------------------------------
(* The queue.                                                              *)

InLine(w) == \E k \in 1..Len(queue) : w = queue[k]
Places == \A i, j \in 1..Len(queue) : queue[i] = queue[j] => i = j

(* What a release of one permit does, given who has one already.           *)
Handed(g) ==
    /\ avail' \in Nat /\ queue' \in Seq(Requests) /\ IsFiniteSet(granted')
    /\ avail' + Cardinality(granted') = avail + Cardinality(g) + 1
    /\ avail' > 0 => queue' = <<>>
    /\ \A w \in granted' : w \in g \/ InLine(w)
    /\ \A i \in 1..Len(queue') : InLine(queue'[i]) /\ queue'[i] \notin granted'
    /\ Places'

(* A released permit goes to the first in line, who is in line once.       *)
LEMMA ReleaseHands ==
    ASSUME avail \in Nat, queue \in Seq(Requests), Places, NEW g, IsFiniteSet(g),
           \A i \in 1..Len(queue) : queue[i] \notin g, avail > 0 => queue = <<>>,
           Release(queue, g)
    PROVE  Handed(g)
<1>1. Cardinality(g) \in Nat
  BY FS_CardinalityType
<1>2. CASE queue = <<>>
  <2>1. avail' = avail + 1 /\ queue' = queue /\ granted' = g
    BY <1>2 DEF Release
  <2>2. Len(queue) = 0
    BY <1>2, EmptySeq
  <2> QED
    BY <1>1, <1>2, <2>1, <2>2 DEF Handed, Places
<1>3. CASE queue # <<>>
  <2>1. avail' = avail /\ queue' = Tail(queue) /\ granted' = g \cup {Head(queue)}
    BY <1>3 DEF Release
  <2>2. /\ Tail(queue) \in Seq(Requests) /\ Len(Tail(queue)) = Len(queue) - 1
        /\ \A i \in 1..Len(Tail(queue)) : Tail(queue)[i] = queue[i + 1]
    BY <1>3, HeadTailProperties
  <2>3. Len(queue) \in Nat \ {0}
    BY <1>3, EmptySeq
  <2>4. Head(queue) = queue[1]
    BY <1>3
  <2>5. IsFiniteSet(granted') /\ Cardinality(granted') = Cardinality(g) + 1
    BY <2>1, <2>3, <2>4, FS_AddElement
  <2>6. \A i \in 1..Len(queue') : i + 1 \in 1..Len(queue) /\ queue'[i] = queue[i + 1]
    BY <2>1, <2>2, <2>3
  <2>7. \A i \in 1..Len(queue') : InLine(queue'[i]) /\ queue'[i] \notin granted'
    BY <2>1, <2>3, <2>4, <2>6 DEF InLine, Places
  <2>8. Places'
    <3> SUFFICES ASSUME NEW i \in 1..Len(queue'), NEW j \in 1..Len(queue'),
                        queue'[i] = queue'[j]
                 PROVE  i = j
      BY DEF Places
    <3>1. i + 1 = j + 1
      BY <2>6 DEF Places
    <3> QED
      BY <3>1
  <2>9. \A w \in granted' : w \in g \/ InLine(w)
    BY <2>1, <2>3, <2>4 DEF InLine
  <2>10. avail' = 0
    BY <1>3, <2>1
  <2> QED
    BY <1>1, <2>1, <2>2, <2>5, <2>7, <2>8, <2>9, <2>10 DEF Handed
<1> QED
  BY <1>2, <1>3

(* A waiter with no permit leaves its place; the others keep theirs.       *)
LEMMA LeavesLine ==
    ASSUME Typed, Queued, NEW r \in Requests, r \notin granted, DropAcquire(r)
    PROVE  /\ UNCHANGED <<avail, granted>> /\ queue' \in Seq(Requests) /\ Places'
           /\ queue # <<>>
           /\ \A i \in 1..Len(queue') : InLine(queue'[i]) /\ queue'[i] # r
<1> DEFINE n == Len(queue)
<1>1. /\ UNCHANGED <<avail, granted>>
      /\ \E i \in DOMAIN queue :
            /\ queue[i] = r
            /\ queue' = [j \in 1..(n - 1) |-> IF j < i THEN queue[j] ELSE queue[j + 1]]
  BY DEF DropAcquire
<1>2. n \in Nat /\ DOMAIN queue = 1..n /\ \A k \in 1..n : queue[k] \in Requests
  BY LenProperties, ElementOfSeq DEF Typed
<1>3. PICK i \in 1..n :
        /\ queue[i] = r
        /\ queue' = [j \in 1..(n - 1) |-> IF j < i THEN queue[j] ELSE queue[j + 1]]
  BY <1>1, <1>2
<1>4. queue # <<>>
  BY <1>2, <1>3, EmptySeq
<1> DEFINE at(j) == IF j < i THEN j ELSE j + 1
<1>5. \A j \in 1..(n - 1) : at(j) \in 1..n /\ at(j) # i /\ queue'[j] = queue[at(j)]
  BY <1>2, <1>3
<1>6. \A j, k \in 1..(n - 1) : at(j) = at(k) => j = k
  BY <1>2
<1>7. n - 1 \in Nat
  BY <1>2, <1>3
<1>8. DOMAIN queue' = 1..(n - 1)
  BY <1>3
<1> HIDE DEF n, at
<1>9. queue' \in Seq(Requests) /\ Len(queue') = n - 1
  <2>1. queue' = [j \in 1..(n - 1) |-> queue[at(j)]]
    BY <1>3, <1>2 DEF at
  <2>2. \A j \in 1..(n - 1) : queue[at(j)] \in Requests
    BY <1>2, <1>5
  <2>3. [j \in 1..(n - 1) |-> queue[at(j)]] \in Seq(Requests)
    BY <1>7, <2>2, IsASeq
  <2> QED
    BY <1>7, <1>8, <2>1, <2>3, LenProperties
<1>10. \A j \in 1..Len(queue') : InLine(queue'[j]) /\ queue'[j] # r
  BY <1>3, <1>5, <1>9 DEF InLine, Queued, n
<1>11. Places'
  BY <1>5, <1>6, <1>9 DEF Places, Queued, n
<1> QED
  BY <1>1, <1>4, <1>9, <1>10, <1>11

-----------------------------------------------------------------------------
(* The slots.                                                              *)

(* Sets of requests are finite, and their sizes natural numbers.           *)
LEMMA CountsAreNat ==
    ASSUME Typed
    PROVE  /\ IsFiniteSet(Holding) /\ Cardinality(Holding) \in Nat
           /\ IsFiniteSet(granted) /\ Cardinality(granted) \in Nat
<1>1. Holding \in SUBSET Requests /\ granted \in SUBSET Requests
  BY DEF Typed, Holding, Waiting
<1>2. IsFiniteSet(Holding) /\ IsFiniteSet(granted)
  BY <1>1, RequestsAssumption, FS_Subset
<1> QED
  BY <1>2, FS_CardinalityType

(* A request takes a slot, or gives its slot up.                           *)
LEMMA HolderComes ==
    ASSUME Typed, NEW r, r \notin Holding, Holding' = Holding \cup {r}
    PROVE  Cardinality(Holding') = Cardinality(Holding) + 1
  BY CountsAreNat, FS_AddElement

(* One slot less is held after it.                                         *)
LEMMA HolderGoes ==
    ASSUME Typed, NEW r \in Holding, Holding' = Holding \ {r}
    PROVE  Cardinality(Holding') = Cardinality(Holding) - 1
  BY CountsAreNat, FS_RemoveElement

(* Who is in line is a request that waits without a permit.                *)
LEMMA InLineWaits ==
    ASSUME Queued, NEW w, InLine(w)
    PROVE  w \in Waiting \ granted /\ w \in Requests
  BY DEF Queued, InLine, Waiting

(* The bodies of the others are untouched; that of r is as it should be.   *)
LEMMA BodiesStep == SlotInv /\ [Next]_vars => Bodies'
<1> SUFFICES ASSUME SlotInv, [Next]_vars PROVE Bodies'
  OBVIOUS
<1> USE DEF SlotInv, Typed, Bodies, PC, Inner, AtEnd, Delivery
<1>1. CASE UNCHANGED vars
  BY <1>1 DEF vars
<1>2. ASSUME NEW r \in Requests, Acquire(r) PROVE Bodies'
  BY <1>2 DEF Acquire, bodyVars
<1>3. ASSUME NEW r \in Requests, WaitElapses(r) \/ TakeSlot(r) \/ Expire(r)
      PROVE  Bodies'
  BY <1>3 DEF WaitElapses, TakeSlot, Expire, bodyVars
<1>4. ASSUME NEW r \in Requests, Shed(r) \/ Cut(r) PROVE Bodies'
  BY <1>4 DEF Shed, Cut, bodyVars
<1>5. ASSUME NEW r \in Requests, Answer(r) PROVE Bodies'
  BY <1>5 DEF Answer
<1>6. ASSUME NEW r \in Requests, FrameEnds(r) PROVE Bodies'
  BY <1>6 DEF FrameEnds, ReportOf
<1>7. ASSUME NEW r \in Requests, FrameFails(r) PROVE Bodies'
  BY <1>7 DEF FrameFails
<1>8. ASSUME NEW r \in Requests, DropBody(r) PROVE Bodies'
  BY <1>8 DEF DropBody
<1>9. ASSUME NEW r \in Requests, Report(r) PROVE Bodies'
  BY <1>9 DEF Report, ReportOf
<1> QED
  BY <1>1, <1>2, <1>3, <1>4, <1>5, <1>6, <1>7, <1>8, <1>9 DEF Next

(* A request that is not in line gives up a slot, held or granted.         *)
LEMMA GivesUp ==
    ASSUME SlotInv, NEW r \in Requests, NEW g, g \subseteq granted,
           Release(queue, g), ~InLine(r), r \notin g,
           pc' \in [Requests -> PC], \A x \in Requests \ {r} : pc'[x] = pc[x],
           Cardinality(Holding') \in Nat,
           Cardinality(Holding') + Cardinality(g) + 1
             = Cardinality(Holding) + Cardinality(granted)
    PROVE  /\ avail' \in Nat /\ queue' \in Seq(Requests) /\ granted' \subseteq Waiting'
           /\ Queued' /\ SlotsConserved'
<1>1. IsFiniteSet(g) /\ Cardinality(g) \in Nat
  BY CountsAreNat, FS_Subset, FS_CardinalityType DEF SlotInv
<1>2. Handed(g)
  BY <1>1, ReleaseHands DEF SlotInv, Typed, Queued, Places, SlotsConserved
<1>3. \A w : w \in g \/ InLine(w) => w \in Waiting'
  BY InLineWaits DEF SlotInv, Typed, Waiting
<1>4. Queued'
  BY <1>2, <1>3 DEF Queued, Handed, Places
<1>5. SlotsConserved'
  <2>1. /\ avail' \in Nat /\ Cardinality(granted') \in Nat
        /\ avail' + Cardinality(granted') = avail + Cardinality(g) + 1
    BY <1>2, FS_CardinalityType DEF Handed
  <2>2. /\ avail \in Nat /\ Limit \in Nat
        /\ Cardinality(Holding) \in Nat /\ Cardinality(granted) \in Nat
        /\ avail + Cardinality(Holding) + Cardinality(granted) = Limit
    BY CountsAreNat, LimitAssumption DEF SlotInv, Typed, SlotsConserved
  <2>3. avail' + Cardinality(Holding') + Cardinality(granted') = Limit
    BY <1>1, <2>1, <2>2
  <2> QED
    BY <1>2, <2>3 DEF SlotsConserved, Handed
<1> QED
  BY <1>2, <1>3, <1>4, <1>5 DEF Handed

(* The part of the types that the semaphore does not touch.                *)
Rest ==
    /\ pc \in [Requests -> PC] /\ late \subseteq Requests
    /\ inner \in [Requests -> Inner]
    /\ report \in [Requests -> {"none", "armed"} \cup Delivery]
    /\ delivery \in [Requests -> Delivery]

(* Every step keeps it, and moves one request only.                        *)
LEMMA RestStep ==
    ASSUME SlotInv, [Next]_vars
    PROVE  Rest'
<1> USE DEF SlotInv, Typed, Rest, PC, Inner, AtEnd, Delivery
<1>1. CASE UNCHANGED vars
  BY <1>1 DEF vars
<1>2. ASSUME NEW r \in Requests,
             Acquire(r) \/ WaitElapses(r) \/ TakeSlot(r) \/ Expire(r) \/ Shed(r) \/ Cut(r)
      PROVE  Rest'
  BY <1>2 DEF Acquire, WaitElapses, TakeSlot, Expire, Shed, Cut, bodyVars
<1>3. ASSUME NEW r \in Requests, Answer(r) \/ FrameEnds(r) \/ FrameFails(r)
      PROVE  Rest'
  BY <1>3 DEF Answer, FrameEnds, FrameFails, ReportOf
<1>4. ASSUME NEW r \in Requests, DropBody(r) \/ Report(r)
      PROVE  Rest'
  BY <1>4 DEF DropBody, Report, ReportOf
<1> QED
  BY <1>1, <1>2, <1>3, <1>4 DEF Next

(* The semaphore's own variables, and the count.                           *)
Slots == avail \in Nat /\ queue \in Seq(Requests) /\ granted \subseteq Waiting
           /\ Queued /\ SlotsConserved

(* A step that moves no permit and nobody in or out of the queue.          *)
LEMMA SlotsStay ==
    ASSUME SlotInv, UNCHANGED <<avail, queue, granted>>,
           Holding' = Holding, \A w \in Waiting : w \in granted \/ InLine(w) => w \in Waiting'
    PROVE  Slots'
<1>1. \A k \in 1..Len(queue) : InLine(queue[k])
  BY DEF InLine
<1>2. Queued' /\ granted' \subseteq Waiting'
  BY <1>1 DEF SlotInv, Typed, Queued
<1> QED
  BY <1>2 DEF Slots, SlotInv, Typed, SlotsConserved

(* try_acquire takes a free permit, or is refused, or gets in line.        *)
LEMMA AcquireSlots ==
    ASSUME SlotInv, NEW r \in Requests, Acquire(r)
    PROVE  Slots'
<1> USE DEF SlotInv
<1>1. pc[r] = "new" /\ r \notin Holding /\ r \notin Waiting /\ r \notin granted
  BY DEF Acquire, Holding, Waiting, Typed, Bodies
<1>2. UNCHANGED <<granted, report>>
  BY DEF Acquire, bodyVars
<1>3. /\ avail \in Nat /\ Limit \in Nat /\ queue \in Seq(Requests)
      /\ Cardinality(Holding) \in Nat /\ Cardinality(granted) \in Nat
      /\ avail + Cardinality(Holding) + Cardinality(granted) = Limit
  BY CountsAreNat, LimitAssumption DEF Typed, SlotsConserved
<1>4. CASE avail > 0
  <2>1. /\ avail' = avail - 1 /\ UNCHANGED queue
        /\ pc' = [pc EXCEPT ![r] = "handler"]
    BY <1>3, <1>4 DEF Acquire
  <2>2. Holding' = Holding \cup {r} /\ Waiting' = Waiting
    BY <1>1, <1>2, <2>1 DEF Holding, Waiting, Typed
  <2>3. Cardinality(Holding') = Cardinality(Holding) + 1
    BY <1>1, <2>2, HolderComes
  <2>4. avail' \in Nat /\ avail' + Cardinality(Holding') + Cardinality(granted') = Limit
    BY <1>2, <1>3, <1>4, <2>1, <2>3
  <2> QED
    BY <1>2, <1>4, <2>1, <2>2, <2>4 DEF Slots, SlotsConserved, Queued, Typed
<1>5. CASE avail = 0 /\ r \notin Queueing
  <2>1. UNCHANGED <<avail, queue>> /\ pc' = [pc EXCEPT ![r] = "over"]
    BY <1>5 DEF Acquire
  <2>2. Holding' = Holding /\ Waiting' = Waiting
    BY <1>1, <1>2, <2>1 DEF Holding, Waiting, Typed
  <2> QED
    BY <1>2, <2>1, <2>2, SlotsStay
<1>6. CASE avail = 0 /\ r \in Queueing
  <2>1. /\ UNCHANGED avail /\ pc' = [pc EXCEPT ![r] = "waiting"]
        /\ queue' = Append(queue, r)
    BY <1>6 DEF Acquire
  <2>2. Holding' = Holding /\ Waiting' = Waiting \cup {r}
    BY <1>1, <1>2, <2>1 DEF Holding, Waiting, Typed
  <2>3. /\ queue' \in Seq(Requests) /\ Len(queue') = Len(queue) + 1
        /\ \A k \in 1..Len(queue) : queue'[k] = queue[k]
        /\ queue'[Len(queue) + 1] = r
    BY <1>3, <2>1, AppendProperties
  <2>4. Len(queue) \in Nat
    BY <1>3, LenProperties
  <2>5. \A k \in 1..Len(queue) : queue[k] # r
    BY <1>1 DEF Queued
  <2>6. Queued'
    BY <1>1, <1>2, <2>2, <2>3, <2>4, <2>5 DEF Queued
  <2>7. SlotsConserved'
    BY <1>2, <1>6, <2>1, <2>2 DEF SlotsConserved
  <2> QED
    BY <1>2, <1>3, <2>1, <2>2, <2>3, <2>6, <2>7 DEF Slots, Typed
<1> QED
  BY <1>3, <1>4, <1>5, <1>6

(* A granted permit becomes a held one.                                    *)
LEMMA TakeSlots ==
    ASSUME SlotInv, NEW r \in Requests, TakeSlot(r)
    PROVE  Slots'
<1> USE DEF SlotInv
<1>1. /\ r \notin Holding /\ r \in granted /\ granted' = granted \ {r}
      /\ UNCHANGED <<avail, queue, report>> /\ pc' = [pc EXCEPT ![r] = "handler"]
  BY DEF TakeSlot, Holding, Typed, Bodies, bodyVars
<1>2. Holding' = Holding \cup {r} /\ Waiting' = Waiting \ {r}
  BY <1>1 DEF Holding, Waiting, Typed
<1>3. Cardinality(Holding') = Cardinality(Holding) + 1
  BY <1>1, <1>2, HolderComes
<1>4. Cardinality(granted') = Cardinality(granted) - 1
  BY <1>1, CountsAreNat, FS_RemoveElement
<1>5. SlotsConserved'
  <2>1. /\ avail \in Nat /\ Cardinality(Holding) \in Nat /\ Cardinality(granted) \in Nat
    BY CountsAreNat DEF Typed
  <2> QED
    BY <1>1, <1>3, <1>4, <2>1 DEF SlotsConserved
<1> QED
  BY <1>1, <1>2, <1>5 DEF Slots, Typed, Queued

(* A wait that is dropped leaves the line, or hands its permit on.         *)
LEMMA DropSlots ==
    ASSUME SlotInv, NEW r \in Requests, r \in Waiting, DropAcquire(r),
           pc' = [pc EXCEPT ![r] = "over"], UNCHANGED report
    PROVE  Slots'
<1> USE DEF SlotInv
<1>1. r \notin Holding /\ Holding' = Holding /\ Waiting' = Waiting \ {r}
  BY DEF Holding, Waiting, Typed, Bodies
<1>2. CASE r \in granted
  <2>1. Release(queue, granted \ {r})
    BY <1>2 DEF DropAcquire
  <2>2. Cardinality(granted \ {r}) = Cardinality(granted) - 1
    BY <1>2, CountsAreNat, FS_RemoveElement
  <2>3. ~InLine(r)
    BY <1>2, InLineWaits
  <2>4. Cardinality(Holding) \in Nat /\ Cardinality(granted) \in Nat
    BY CountsAreNat
  <2>5. pc' \in [Requests -> PC] /\ \A x \in Requests \ {r} : pc'[x] = pc[x]
    BY DEF Typed, PC
  <2>6. Cardinality(Holding') + Cardinality(granted \ {r}) + 1
          = Cardinality(Holding) + Cardinality(granted)
    BY <1>1, <2>2, <2>4
  <2> QED
    BY <1>1, <2>1, <2>3, <2>4, <2>5, <2>6, GivesUp DEF Slots
<1>3. CASE r \notin granted
  <2>1. /\ UNCHANGED <<avail, granted>> /\ queue' \in Seq(Requests) /\ Places'
        /\ queue # <<>>
        /\ \A k \in 1..Len(queue') : InLine(queue'[k]) /\ queue'[k] # r
    BY <1>3, LeavesLine
  <2>2. Queued'
    BY <1>1, <2>1, InLineWaits DEF Queued, Places
  <2> QED
    BY <1>1, <1>3, <2>1, <2>2 DEF Slots, SlotsConserved, Typed
<1> QED
  BY <1>2, <1>3

(* A slot that is held comes back.                                         *)
LEMMA ReturnSlots ==
    ASSUME SlotInv, NEW r \in Holding, Release(queue, granted), Holding' = Holding \ {r},
           pc' \in [Requests -> PC], \A x \in Requests \ {r} : pc'[x] = pc[x]
    PROVE  Slots'
<1> USE DEF SlotInv
<1>1. r \in Requests /\ r \notin Waiting
  BY DEF Holding, Waiting, Bodies
<1>2. Cardinality(Holding') = Cardinality(Holding) - 1
  BY HolderGoes
<1>3. Cardinality(Holding) \in Nat \ {0} /\ Cardinality(granted) \in Nat
  <2>1. Cardinality(Holding) # 0
    BY CountsAreNat, FS_EmptySet
  <2> QED
    BY <2>1, CountsAreNat
<1>4. ~InLine(r) /\ r \notin granted
  BY <1>1, InLineWaits DEF Typed
<1>5. Cardinality(Holding') \in Nat
        /\ Cardinality(Holding') + Cardinality(granted) + 1
             = Cardinality(Holding) + Cardinality(granted)
  BY <1>2, <1>3
<1> QED
  BY <1>1, <1>4, <1>5, GivesUp DEF Slots

(* Every step keeps the slots.                                             *)
LEMMA SlotsStep == SlotInv /\ [Next]_vars => Slots'
<1> SUFFICES ASSUME SlotInv, [Next]_vars PROVE Slots'
  OBVIOUS
<1> USE DEF SlotInv
<1>0. pc' \in [Requests -> PC] /\ pc \in [Requests -> PC]
        /\ report \in [Requests -> {"none", "armed"} \cup Delivery]
  BY RestStep DEF Rest, Typed
<1>1. CASE UNCHANGED vars
  BY <1>1, SlotsStay DEF vars, Holding, Waiting
<1>2. ASSUME NEW r \in Requests, WaitElapses(r) \/ Expire(r) PROVE Slots'
  <2>1. UNCHANGED <<avail, queue, granted>> /\ Holding' = Holding /\ Waiting' = Waiting
    BY <1>0, <1>2 DEF WaitElapses, Expire, bodyVars, Holding, Waiting
  <2> QED
    BY <2>1, SlotsStay
<1>3. ASSUME NEW r \in Requests, Shed(r) \/ (pc[r] = "waiting" /\ Cut(r)) PROVE Slots'
  BY <1>3, DropSlots DEF Shed, Cut, Waiting, bodyVars
<1>4. ASSUME NEW r \in Requests, pc[r] = "handler", Cut(r) PROVE Slots'
  <2>1. r \in Holding /\ Holding' = Holding \ {r}
    BY <1>0, <1>4 DEF Cut, Holding, Bodies, bodyVars
  <2>2. Release(queue, granted) /\ \A x \in Requests \ {r} : pc'[x] = pc[x]
    BY <1>0, <1>4 DEF Cut
  <2> QED
    BY <1>0, <2>1, <2>2, ReturnSlots
<1>5. ASSUME NEW r \in Requests, Answer(r) PROVE Slots'
  <2>1. UNCHANGED <<avail, queue, granted>> /\ Holding' = Holding /\ Waiting' = Waiting
    BY <1>0, <1>5 DEF Answer, Holding, Waiting
  <2> QED
    BY <2>1, SlotsStay
<1>6. ASSUME NEW r \in Requests, FrameFails(r) \/ DropBody(r) PROVE Slots'
  <2>1. UNCHANGED <<avail, queue, granted>> /\ Holding' = Holding /\ Waiting' = Waiting
    BY <1>0, <1>6 DEF FrameFails, DropBody, Holding, Waiting
  <2> QED
    BY <2>1, SlotsStay
<1>7. ASSUME NEW r \in Requests, NEW d \in Delivery, ReportOf(r, d),
             pc[r] \notin {"handler", "waiting", "expired"},
             pc'[r] \notin {"handler", "waiting", "expired"},
             \A x \in Requests \ {r} : pc'[x] = pc[x]
      PROVE  Slots'
  <2>1. CASE report[r] = "armed"
    <3>1. report' = [report EXCEPT ![r] = d] /\ Release(queue, granted)
      BY <1>7, <2>1 DEF ReportOf
    <3>2. r \in Holding /\ Holding' = Holding \ {r}
      BY <1>0, <1>7, <2>1, <3>1 DEF Holding, Delivery
    <3> QED
      BY <1>0, <1>7, <3>1, <3>2, ReturnSlots
  <2>2. CASE report[r] # "armed"
    <3>1. UNCHANGED <<report, avail, queue, granted>>
      BY <1>7, <2>2 DEF ReportOf
    <3>2. Holding' = Holding /\ Waiting' = Waiting
      BY <1>0, <1>7, <3>1 DEF Holding, Waiting
    <3> QED
      BY <3>1, <3>2, SlotsStay
  <2> QED
    BY <2>1, <2>2
<1>8. ASSUME NEW r \in Requests, FrameEnds(r) PROVE Slots'
  <2>1. "Complete" \in Delivery
    BY DEF Delivery
  <2> QED
    BY <1>7, <1>8, <2>1 DEF FrameEnds
<1>9. ASSUME NEW r \in Requests, Report(r) PROVE Slots'
  <2>1. delivery[r] \in Delivery
    BY DEF Typed
  <2> QED
    BY <1>0, <1>7, <1>9, <2>1 DEF Report
<1> QED
  BY <1>1, <1>2, <1>3, <1>4, <1>5, <1>6, <1>8, <1>9, AcquireSlots, TakeSlots
     DEF Next, Cut

(* Nobody has a slot at the start.                                         *)
LEMMA InitSlots == Init => SlotInv
<1> SUFFICES ASSUME Init PROVE SlotInv
  OBVIOUS
<1>1. queue \in Seq(Requests) /\ Len(queue) = 0
  BY EmptySeq DEF Init
<1>2. Holding = {} /\ granted = {}
  BY DEF Init, Holding
<1>3. Cardinality(Holding) = 0 /\ Cardinality(granted) = 0
  BY <1>2, FS_EmptySet
<1>4. Typed
  BY <1>1, LimitAssumption DEF Init, Typed, PC, Inner, Delivery
<1>5. Queued
  BY <1>1 DEF Queued
<1> QED
  BY <1>3, <1>4, <1>5, LimitAssumption DEF SlotInv, SlotsConserved, Bodies, Init

(* The slots' invariant is inductive.                                      *)
LEMMA SlotInvStep == SlotInv /\ [Next]_vars => SlotInv'
<1> SUFFICES ASSUME SlotInv, [Next]_vars PROVE SlotInv'
  OBVIOUS
<1> QED
  BY RestStep, BodiesStep, SlotsStep DEF SlotInv, Typed, Rest, Slots

(* Every step of an exchange is one of its slot, or leaves the slots be.   *)
LEMMA StepsAreSlotSteps == [ExchangeNext]_exchangeVars => [Next]_vars
<1> SUFFICES ASSUME [ExchangeNext]_exchangeVars PROVE [Next]_vars
  OBVIOUS
<1> USE DEF Next
<1>1. CASE UNCHANGED exchangeVars
  BY <1>1 DEF exchangeVars
<1>2. ASSUME NEW r \in Requests, Serve(r) \/ Runs(r) PROVE [Next]_vars
  BY <1>2 DEF Serve, Runs, Waits, Refuse, TimesOut, WithoutContent, Released, Respond,
     OuterReports
<1>3. ASSUME NEW r \in Requests,
             Handle(r) \/ EndpointRecovers(r) \/ RouterRecovers(r) \/ Abandon(r)
      PROVE  [Next]_vars
  BY <1>3 DEF Handle, EndpointRecovers, RouterRecovers, Abandon, Wrapped
<1>4. ASSUME NEW r \in Requests,
             LimitPasses(r) \/ Produce(r) \/ ClockPasses(r) \/ PlainPolled(r)
      PROVE  [Next]_vars
  BY <1>4 DEF LimitPasses, Produce, ClockPasses, PlainPolled
<1>5. ASSUME NEW r \in Requests, Polled(r) \/ DropSent(r) PROVE [Next]_vars
  BY <1>5 DEF Polled, DropSent
<1> QED
  BY <1>1, <1>2, <1>3, <1>4, <1>5 DEF ExchangeNext

(* What the exchanges do to the slots they share are behaviours of         *)
(* Concurrency.                                                            *)
THEOREM ExchangesShareSlots == ExchangeSpec => Spec
<1>1. ExchangeInit => Init
  BY DEF ExchangeInit
<1> QED
  BY <1>1, StepsAreSlotSteps, PTL DEF ExchangeSpec, Spec

(* The slots' invariant holds of the interceptor by itself...              *)
THEOREM SlotInvHolds == Spec => []SlotInv
  BY InitSlots, SlotInvStep, PTL DEF Spec

(* Whatever a request's path, a wait that expires as its permit comes, a   *)
(* cut handler and a body dropped while it reports included, every slot is *)
(* free, with one request or on its way to one waiter.                     *)
THEOREM NoSlotIsLost == ExchangeSpec => []SlotsConserved
<1>1. SlotInv => SlotsConserved
  BY DEF SlotInv
<1> QED
  BY <1>1, SlotInvHolds, ExchangesShareSlots, PTL

(* The slots stay in their types: the semaphore never holds more permits   *)
(* than it was made with, on any path a permit takes back to it.           *)
THEOREM SlotTypesCorrect == ExchangeSpec => []TypeOK
<1>1. SlotInv => TypeOK
  <2> SUFFICES ASSUME SlotInv PROVE TypeOK
    OBVIOUS
  <2>1. avail \in 0..Limit
    BY CountsAreNat, LimitAssumption DEF SlotInv, Typed, SlotsConserved
  <2> QED
    BY <2>1 DEF SlotInv, Typed, TypeOK
<1> QED
  BY <1>1, SlotInvHolds, ExchangesShareSlots, PTL

(* A response in the making holds a slot, so there are at most Limit.      *)
LEMMA ProducingHolds == SlotInv => InFlightBounded
<1> SUFFICES ASSUME SlotInv PROVE InFlightBounded
  OBVIOUS
<1> DEFINE Producing == {r \in Requests :
                           pc[r] = "handler" \/ inner[r] \in {"open", "failed"}}
<1>1. Producing \subseteq Holding
  BY DEF SlotInv, Bodies, Holding, Typed, PC, AtEnd
<1>2. Cardinality(Producing) \in Nat /\ Cardinality(Producing) <= Cardinality(Holding)
  BY <1>1, CountsAreNat, FS_Subset, FS_CardinalityType DEF SlotInv
<1>3. /\ avail \in Nat /\ Limit \in Nat
      /\ Cardinality(Holding) \in Nat /\ Cardinality(granted) \in Nat
      /\ avail + Cardinality(Holding) + Cardinality(granted) = Limit
  BY CountsAreNat, LimitAssumption DEF SlotInv, Typed, SlotsConserved
<1> HIDE DEF Producing
<1>4. Cardinality(Producing) <= Limit
  BY <1>2, <1>3
<1> QED
  BY <1>4 DEF InFlightBounded, Producing

(* No more than Limit responses are in the making, for any Limit and any   *)
(* number of requests: a body keeps its slot until what it holds is gone.  *)
THEOREM AtMostLimitInFlight == ExchangeSpec => []InFlightBounded
  BY ProducingHolds, SlotInvHolds, ExchangesShareSlots, PTL

-----------------------------------------------------------------------------
(* The exchange around the slot.                                           *)

(* A sequence that is s with d added is Append(s, d).                      *)
LEMMA AppendIs ==
    ASSUME NEW S, NEW s \in Seq(S), NEW t \in Seq(S), NEW d \in S,
           Len(t) = Len(s) + 1, \A i \in 1..Len(s) : t[i] = s[i], t[Len(s) + 1] = d
    PROVE  Append(s, d) = t
<1>1. /\ Append(s, d) \in Seq(S) /\ Len(Append(s, d)) = Len(s) + 1
      /\ \A i \in 1..Len(s) : Append(s, d)[i] = s[i]
      /\ Append(s, d)[Len(s) + 1] = d
  BY AppendProperties
<1>2. Len(s) \in Nat
  BY LenProperties
<1>3. \A i \in 1..Len(t) : Append(s, d)[i] = t[i]
  BY <1>1, <1>2
<1> QED
  BY <1>1, <1>3, SeqEqual

(* Stories of one to four words, as they grow.                             *)
LEMMA OneWord == ASSUME NEW a PROVE Append(<<>>, a) = <<a>>
  OBVIOUS

(* The second word.                                                        *)
LEMMA TwoWords == ASSUME NEW a, NEW b PROVE Append(<<a>>, b) = <<a, b>>
<1>1. <<a>> \in Seq({a, b}) /\ Len(<<a>>) = 1
  OBVIOUS
<1>2. <<a, b>> \in Seq({a, b}) /\ Len(<<a, b>>) = 2
  OBVIOUS
<1>3. /\ Append(<<a>>, b) \in Seq({a, b}) /\ Len(Append(<<a>>, b)) = 2
      /\ Append(<<a>>, b)[1] = a /\ Append(<<a>>, b)[2] = b
  BY <1>1, AppendProperties
<1>4. \A i \in 1..2 : Append(<<a>>, b)[i] = <<a, b>>[i]
  BY <1>3
<1> QED
  BY <1>2, <1>3, <1>4, SeqEqual

(* The third.                                                              *)
LEMMA ThreeWords == ASSUME NEW a, NEW b, NEW c PROVE Append(<<a, b>>, c) = <<a, b, c>>
<1> DEFINE S == {a, b, c}
           s == <<a, b>>
           t == <<a, b, c>>
<1>1. /\ s \in Seq(S) /\ t \in Seq(S) /\ c \in S /\ Len(t) = Len(s) + 1
      /\ \A i \in 1..Len(s) : t[i] = s[i]
      /\ t[Len(s) + 1] = c
  OBVIOUS
<1>2. Append(s, c) = t
  <2> HIDE DEF S, s, t
  <2> QED
    BY <1>1, AppendIs, Zenon
<1> QED
  BY <1>2

(* The fourth.                                                             *)
LEMMA FourWords ==
    ASSUME NEW a, NEW b, NEW c, NEW d
    PROVE  Append(<<a, b, c>>, d) = <<a, b, c, d>>
<1> DEFINE S == {a, b, c, d}
           s == <<a, b, c>>
           t == <<a, b, c, d>>
<1>1. /\ s \in Seq(S) /\ t \in Seq(S) /\ d \in S /\ Len(t) = Len(s) + 1
      /\ \A i \in 1..Len(s) : t[i] = s[i]
      /\ t[Len(s) + 1] = d
  OBVIOUS
<1>2. Append(s, d) = t
  <2> HIDE DEF S, s, t
  <2> QED
    BY <1>1, AppendIs, Zenon
<1> QED
  BY <1>2

(* Nothing that At speaks of has changed for request x.                    *)
Same(x) ==
    /\ pc'[x] = pc[x] /\ inner'[x] = inner[x] /\ report'[x] = report[x]
    /\ delivery'[x] = delivery[x] /\ config'[x] = config[x] /\ phase'[x] = phase[x]
    /\ result'[x] = result[x] /\ plain'[x] = plain[x] /\ outer'[x] = outer[x]
    /\ told'[x] = told[x] /\ (x \in panicked' <=> x \in panicked)

(* Then At goes on holding of it.                                          *)
LEMMA SameStays == ASSUME NEW x \in Requests, Same(x), At(x) PROVE At(x)'
<1> USE DEF Same
<1>1. PlacedAt(x)'
  BY DEF At, PlacedAt
<1>2. AgreeAt(x)'
  BY DEF At, AgreeAt
<1>3. Story(x)' = Story(x)
  <2>1. Recovered(x)' <=> Recovered(x)
    BY DEF Recovered
  <2> QED
    BY <2>1 DEF Story
<1> QED
  BY <1>1, <1>2, <1>3 DEF At

(* A step of Concurrency for r touches no other request's state.           *)
SlotAlone(r) ==
    \A x \in Requests \ {r} :
       /\ pc'[x] = pc[x] /\ inner'[x] = inner[x]
       /\ report'[x] = report[x] /\ delivery'[x] = delivery[x]
Slot(r) ==
    \/ Acquire(r) \/ WaitElapses(r) \/ TakeSlot(r) \/ Expire(r) \/ Shed(r)
    \/ Answer(r) \/ Cut(r)
    \/ FrameEnds(r) \/ FrameFails(r) \/ DropBody(r) \/ Report(r)

(* A step of Concurrency moves one request.                                *)
LEMMA SlotStepsAlone ==
    ASSUME Typed, NEW r \in Requests, Slot(r) \/ UNCHANGED vars
    PROVE  SlotAlone(r)
  BY DEF Typed, Slot, SlotAlone, Acquire, WaitElapses, TakeSlot, Expire, Shed, Answer, Cut,
     FrameEnds, FrameFails, DropBody, Report, ReportOf, bodyVars, vars

(* A request that moves alone: the others keep At, so its own is left.     *)
LEMMA MovesAlone ==
    ASSUME ExchangeInv, NEW r \in Requests, SlotAlone(r), UNCHANGED config,
           \A x \in Requests \ {r} :
              /\ phase'[x] = phase[x] /\ result'[x] = result[x] /\ plain'[x] = plain[x]
              /\ outer'[x] = outer[x] /\ told'[x] = told[x]
              /\ x \in panicked' <=> x \in panicked,
           Shapes', At(r)'
    PROVE  ExchangeInv'
<1>1. \A x \in Requests \ {r} : Same(x)
  BY DEF Same, SlotAlone
<1>2. \A x \in Requests \ {r} : At(x)'
  BY <1>1, SameStays DEF ExchangeInv
<1> QED
  BY <1>2 DEF ExchangeInv

(* serve starts a chain, refused at once or not.                           *)
LEMMA ServeKeeps ==
    ASSUME SlotInv, ExchangeInv, NEW r \in Requests, Serve(r)
    PROVE  ExchangeInv'
<1>1. SlotAlone(r)
  BY SlotStepsAlone DEF Serve, Slot, SlotInv
<1>2. Shapes'
  BY DEF ExchangeInv, Shapes, Phase, Serve, Tell, sendVars
<1>3. /\ phase[r] = "new" /\ At(r) /\ phase'[r] = "chain" /\ told'[r] = Append(told[r], "request")
      /\ result'[r] = IF pc'[r] = "over" THEN "refused" ELSE "none"
      /\ UNCHANGED <<config, outer, plain, panicked>>
      /\ \A x \in Requests \ {r} :
            phase'[x] = phase[x] /\ result'[x] = result[x] /\ told'[x] = told[x]
  BY DEF ExchangeInv, Shapes, Serve, Tell, sendVars
<1>4. /\ pc'[r] \in {"handler", "over", "waiting"} /\ UNCHANGED bodyVars
  BY DEF SlotInv, Typed, Serve, Acquire
<1>5. outer[r] = "none" /\ plain[r] = "none" /\ r \notin panicked
  BY <1>3 DEF At, PlacedAt
<1>6. PlacedAt(r)'
  BY <1>3, <1>4, <1>5 DEF PlacedAt
<1>7. AgreeAt(r)'
  BY <1>3, <1>4, <1>5 DEF At, AgreeAt, bodyVars
<1>8. told'[r] = Story(r)'
  BY <1>3, <1>5, OneWord DEF At, Story, Recovered
<1> QED
  BY <1>1, <1>2, <1>3, <1>6, <1>7, <1>8, MovesAlone DEF At

(* A wait in the line, and a limit that passes, leave the exchange where   *)
(* it was.                                                                 *)
LEMMA WaitsKeeps ==
    ASSUME SlotInv, ExchangeInv, NEW r \in Requests, Waits(r)
    PROVE  ExchangeInv'
<1>1. SlotAlone(r)
  BY SlotStepsAlone DEF Waits, Slot, SlotInv
<1>2. Shapes'
  BY DEF ExchangeInv, Shapes, Waits, chainVars, sendVars
<1>3. /\ phase[r] = "chain" /\ result[r] = "none" /\ At(r)
      /\ UNCHANGED <<config, phase, result, plain, outer, told, panicked>>
  BY DEF ExchangeInv, Waits, Running, chainVars, sendVars
<1>4. pc'[r] \in {"waiting", "expired", "handler"} /\ UNCHANGED bodyVars
  BY DEF SlotInv, Typed, Waits, WaitElapses, TakeSlot, Expire
<1>5. PlacedAt(r)'
  BY <1>3, <1>4 DEF At, PlacedAt
<1>6. AgreeAt(r)'
  BY <1>3, <1>4 DEF At, PlacedAt, AgreeAt, bodyVars
<1>7. told'[r] = Story(r)'
  BY <1>3 DEF At, Story, Recovered
<1> QED
  BY <1>1, <1>2, <1>3, <1>5, <1>6, <1>7, MovesAlone DEF At

(* Nothing that the invariant speaks of changes.                           *)
LEMMA NothingKeeps ==
    ASSUME ExchangeInv, Shapes', UNCHANGED <<pc, bodyVars, config, phase, result>>,
           UNCHANGED <<plain, outer, told, panicked>>
    PROVE  ExchangeInv'
<1>1. \A x \in Requests : Same(x)
  BY DEF Same, bodyVars
<1> QED
  BY <1>1, SameStays DEF ExchangeInv

(* Time that passes for one request tells observers nothing.               *)
LEMMA ClocksKeep ==
    ASSUME ExchangeInv, NEW r \in Requests, LimitPasses(r) \/ Produce(r) \/ ClockPasses(r)
    PROVE  ExchangeInv'
<1>1. Shapes'
  BY DEF ExchangeInv, Shapes, LimitPasses, Produce, ClockPasses, sendVars, chainVars
<1>2. /\ UNCHANGED <<pc, bodyVars, config, phase, result>>
      /\ UNCHANGED <<plain, outer, told, panicked>>
  BY DEF LimitPasses, Produce, ClockPasses, sendVars, chainVars, vars, bodyVars
<1> QED
  BY <1>1, <1>2, NothingKeeps

(* A chain that is shed or timed out returns a refusal.                    *)
LEMMA RefusalsKeep ==
    ASSUME SlotInv, ExchangeInv, NEW r \in Requests, Refuse(r) \/ TimesOut(r)
    PROVE  ExchangeInv'
<1>1. SlotAlone(r)
  BY SlotStepsAlone DEF Refuse, TimesOut, Slot, SlotInv
<1>2. Shapes'
  BY DEF ExchangeInv, Shapes, Refuse, TimesOut, Returns, sendVars
<1>3. /\ phase[r] = "chain" /\ result[r] = "none" /\ result'[r] = "refused" /\ At(r)
      /\ UNCHANGED <<config, phase, plain, outer, told, panicked>>
      /\ \A x \in Requests \ {r} : result'[x] = result[x]
  BY DEF ExchangeInv, Shapes, Refuse, TimesOut, Running, Returns, sendVars
<1>4. pc'[r] = "over" /\ UNCHANGED bodyVars
  BY DEF SlotInv, Typed, Refuse, TimesOut, Shed, Cut
<1>5. PlacedAt(r)'
  BY <1>3, <1>4 DEF At, PlacedAt
<1>6. AgreeAt(r)'
  BY <1>3, <1>4 DEF At, PlacedAt, AgreeAt, bodyVars
<1>7. told'[r] = Story(r)'
  BY <1>3 DEF At, Story, Recovered
<1> QED
  BY <1>1, <1>2, <1>3, <1>5, <1>6, <1>7, MovesAlone DEF At

(* A chain that is running has had no panic.                               *)
LEMMA RunningStory ==
    ASSUME ExchangeInv, NEW r \in Requests, Running(r)
    PROVE  r \notin panicked /\ outer[r] = "none" /\ plain[r] = "none"
             /\ told[r] = <<"request">> /\ phase[r] = "chain" /\ At(r)
<1>1. At(r) /\ phase[r] = "chain" /\ result[r] = "none"
  BY DEF ExchangeInv, Running
<1>2. r \notin panicked /\ outer[r] = "none" /\ plain[r] = "none"
  BY <1>1 DEF At, PlacedAt
<1>3. told[r] = <<"request">>
  BY <1>1, <1>2 DEF At, Story, Recovered
<1> QED
  BY <1>1, <1>2, <1>3

(* A handler answers, or its panic becomes an answer of its endpoint.      *)
LEMMA HandlerKeeps ==
    ASSUME SlotInv, ExchangeInv, NEW r \in Requests, Handle(r) \/ EndpointRecovers(r)
    PROVE  ExchangeInv'
<1>0. Wrapped(r) /\ Running(r) /\ Answer(r)
  BY DEF Handle, EndpointRecovers, Wrapped
<1>1. SlotAlone(r)
  BY <1>0, SlotStepsAlone DEF Slot, SlotInv
<1>2. Shapes'
  BY DEF ExchangeInv, Shapes, Handle, EndpointRecovers, Wrapped, Returns, Tell
<1>3. /\ result'[r] # "none" /\ UNCHANGED <<config, phase, plain, outer>>
      /\ \A x \in Requests \ {r} :
           result'[x] = result[x] /\ told'[x] = told[x] /\ (x \in panicked' <=> x \in panicked)
  BY DEF ExchangeInv, Shapes, Handle, EndpointRecovers, Wrapped, Returns, Tell
<1>4. /\ pc'[r] = "body" /\ report'[r] = "armed" /\ inner[r] = "none" /\ delivery' = delivery
  BY <1>0 DEF SlotInv, Typed, Bodies, Answer
<1>5. PlacedAt(r)'
  BY <1>0, <1>3, <1>4, RunningStory DEF PlacedAt
<1>6. AgreeAt(r)'
  BY <1>0, <1>3, <1>4, RunningStory DEF At, AgreeAt, AtEnd
<1>7. told'[r] = Story(r)'
  <2>1. CASE Handle(r)
    BY <1>0, <1>3, <2>1, RunningStory DEF Handle, Story, Recovered
  <2>2. CASE EndpointRecovers(r)
    <3>1. r \in panicked' /\ config'[r].scopes # {}
      BY <1>3, <2>2 DEF EndpointRecovers
    <3>2. told'[r] = <<"request", "panic">>
      BY <1>0, <2>2, RunningStory, TwoWords DEF EndpointRecovers, Tell, ExchangeInv, Shapes
    <3> QED
      BY <1>0, <1>3, <3>1, <3>2, RunningStory DEF Story, Recovered
  <2> QED
    BY <2>1, <2>2
<1> QED
  BY <1>1, <1>2, <1>3, <1>5, <1>6, <1>7, MovesAlone DEF At

(* A chain unwinds to the router's recovery.                               *)
LEMMA RouterKeeps ==
    ASSUME SlotInv, ExchangeInv, NEW r \in Requests, RouterRecovers(r)
    PROVE  ExchangeInv'
<1>0. Running(r) /\ Cut(r)
  BY DEF RouterRecovers
<1>1. SlotAlone(r)
  BY <1>0, SlotStepsAlone DEF Slot, SlotInv
<1>2. Shapes'
  BY DEF ExchangeInv, Shapes, RouterRecovers, Returns, Tell, sendVars
<1>3. /\ result'[r] # "none" /\ UNCHANGED <<config, phase, plain, outer>>
      /\ r \in panicked' /\ config'[r].scopes # {}
      /\ \A x \in Requests \ {r} :
           result'[x] = result[x] /\ told'[x] = told[x] /\ (x \in panicked' <=> x \in panicked)
  BY DEF ExchangeInv, Shapes, RouterRecovers, Returns, Tell, sendVars
<1>4. pc'[r] = "over" /\ UNCHANGED bodyVars
  BY <1>0 DEF SlotInv, Typed, Cut
<1>5. PlacedAt(r)'
  BY <1>0, <1>3, <1>4, RunningStory DEF PlacedAt
<1>6. AgreeAt(r)'
  BY <1>0, <1>3, <1>4, RunningStory DEF At, AgreeAt, bodyVars
<1>7. told'[r] = <<"request", "panic">>
  BY <1>0, RunningStory, TwoWords DEF RouterRecovers, Tell, ExchangeInv, Shapes
<1>8. told'[r] = Story(r)'
  BY <1>0, <1>3, <1>7, RunningStory DEF Story, Recovered
<1> QED
  BY <1>1, <1>2, <1>3, <1>5, <1>6, <1>8, MovesAlone DEF At

(* A task is dropped, or unwinds with nobody to recover it.                *)
LEMMA AbandonKeeps ==
    ASSUME SlotInv, ExchangeInv, NEW r \in Requests, Abandon(r)
    PROVE  ExchangeInv'
<1>0. Running(r) /\ Cut(r)
  BY DEF Abandon
<1>1. SlotAlone(r)
  BY <1>0, SlotStepsAlone DEF Slot, SlotInv
<1>2. Shapes'
  BY DEF ExchangeInv, Shapes, Phase, Abandon, sendVars
<1>3. /\ phase'[r] = "over" /\ UNCHANGED <<config, result, plain, outer, told>>
      /\ r \in panicked' => config'[r].scopes = {}
      /\ \A x \in Requests \ {r} :
           phase'[x] = phase[x] /\ (x \in panicked' <=> x \in panicked)
  BY <1>0, RunningStory DEF ExchangeInv, Shapes, Abandon, sendVars
<1>4. pc'[r] = "over" /\ UNCHANGED bodyVars
  BY <1>0 DEF SlotInv, Typed, Cut
<1>5. PlacedAt(r)'
  BY <1>0, <1>3, <1>4, RunningStory DEF PlacedAt
<1>6. AgreeAt(r)'
  BY <1>0, <1>3, <1>4, RunningStory DEF At, AgreeAt, bodyVars
<1>7. told'[r] = Story(r)'
  BY <1>0, <1>3, RunningStory DEF Story, Recovered
<1> QED
  BY <1>1, <1>2, <1>3, <1>5, <1>6, <1>7, MovesAlone DEF At

(* Content of a HEAD's response is dropped, and a dropped body reports.    *)
LEMMA DropsKeep ==
    ASSUME SlotInv, ExchangeInv, NEW r \in Requests, WithoutContent(r) \/ Released(r)
    PROVE  ExchangeInv'
<1>1. SlotAlone(r)
  BY SlotStepsAlone DEF WithoutContent, Released, Slot, SlotInv
<1>2. Shapes'
  BY DEF ExchangeInv, Shapes, WithoutContent, Released, chainVars, sendVars
<1>3. /\ At(r) /\ UNCHANGED <<config, phase, result, plain, outer, told, panicked>>
  BY DEF ExchangeInv, WithoutContent, Released, chainVars, sendVars
<1>4. PlacedAt(r)' /\ AgreeAt(r)'
  <2>1. CASE WithoutContent(r)
    <3>1. /\ pc[r] = "body" /\ pc'[r] = "reporting" /\ report' = report
          /\ phase[r] = "chain" /\ result[r] # "none" /\ config[r].head
          /\ delivery'[r] = "Complete" => inner'[r] \in AtEnd
      BY <2>1 DEF WithoutContent, DropBody, SlotInv, Typed, AtEnd
    <3> QED
      BY <1>3, <3>1 DEF At, PlacedAt, AgreeAt
  <2>2. CASE Released(r)
    <3>1. /\ phase[r] \in {"chain", "dropping"} /\ pc[r] = "reporting" /\ pc'[r] = "over"
          /\ UNCHANGED <<inner, delivery>>
          /\ report'[r] = IF report[r] = "armed" THEN delivery[r] ELSE report[r]
      BY <2>2 DEF Released, Report, ReportOf, SlotInv, Typed
    <3>2. phase[r] = "chain" => result[r] # "none"
      BY <1>3, <3>1 DEF At, PlacedAt
    <3>3. PlacedAt(r)'
      BY <1>3, <3>1, <3>2 DEF At, PlacedAt
    <3>4. AgreeAt(r)'
      BY <1>3, <3>1, <3>2 DEF At, PlacedAt, AgreeAt
    <3> QED
      BY <3>3, <3>4
  <2> QED
    BY <2>1, <2>2
<1>5. told'[r] = Story(r)'
  BY <1>3 DEF At, Story, Recovered
<1> QED
  BY <1>1, <1>2, <1>3, <1>4, <1>5, MovesAlone DEF At

(* A response is told of and its body watched.                             *)
LEMMA RespondKeeps ==
    ASSUME SlotInv, ExchangeInv, NEW r \in Requests, Respond(r)
    PROVE  ExchangeInv'
<1>1. SlotAlone(r)
  BY SlotStepsAlone DEF Respond, SlotInv
<1>2. Shapes'
  BY DEF ExchangeInv, Shapes, Phase, Respond, Tell
<1>3. /\ phase[r] = "chain" /\ result[r] # "none" /\ At(r)
      /\ config[r].head => pc[r] = "over"
      /\ phase'[r] = "sending" /\ outer'[r] = "armed" /\ told'[r] = Append(told[r], "response")
      /\ plain'[r] = IF config[r].head THEN "ended"
                     ELSE IF pc[r] = "over" THEN "open" ELSE "none"
      /\ UNCHANGED <<pc, inner, report, delivery, config, result, panicked>>
      /\ \A x \in Requests \ {r} :
            /\ phase'[x] = phase[x] /\ plain'[x] = plain[x]
            /\ outer'[x] = outer[x] /\ told'[x] = told[x]
  BY DEF ExchangeInv, Shapes, Respond, Tell, vars
<1>4. PlacedAt(r)'
  BY <1>3 DEF At, PlacedAt
<1>5. AgreeAt(r)'
  BY <1>3 DEF At, PlacedAt, AgreeAt
<1>6. outer[r] = "none"
  BY <1>3 DEF At, PlacedAt
<1>7. told'[r] = Story(r)'
  <2>1. CASE Recovered(r)
    <3>1. told[r] = <<"request", "panic">>
      BY <1>3, <1>6, <2>1 DEF At, Story
    <3>2. told'[r] = <<"request", "panic", "response">>
      BY <1>3, <3>1, ThreeWords
    <3> QED
      BY <1>3, <2>1, <3>2 DEF Story, Recovered
  <2>2. CASE ~Recovered(r)
    <3>1. told[r] = <<"request">>
      BY <1>3, <1>6, <2>2 DEF At, Story
    <3>2. told'[r] = <<"request", "response">>
      BY <1>3, <3>1, TwoWords
    <3> QED
      BY <1>3, <2>2, <3>2 DEF Story, Recovered
  <2> QED
    BY <2>1, <2>2
<1> QED
  BY <1>1, <1>2, <1>3, <1>4, <1>5, <1>7, MovesAlone DEF At

(* A body is polled: the two watches hear the same.                        *)
LEMMA PolledKeeps ==
    ASSUME SlotInv, ExchangeInv, NEW r \in Requests, Polled(r)
    PROVE  ExchangeInv'
<1>1. SlotAlone(r)
  BY SlotStepsAlone DEF Polled, Slot, SlotInv
<1>2. Shapes'
  BY DEF ExchangeInv, Shapes, Polled, Delivery, chainVars
<1>3. /\ phase[r] = "sending" /\ At(r) /\ pc[r] = "body" /\ inner[r] = "open"
      /\ UNCHANGED <<config, phase, result, plain, told, panicked>>
      /\ \A x \in Requests \ {r} : outer'[x] = outer[x]
  BY DEF ExchangeInv, Shapes, Polled, Open, chainVars
<1>4. plain[r] = "none" /\ outer[r] = report[r] /\ outer[r] \in {"armed", "Complete"}
  BY <1>3 DEF At, PlacedAt, AgreeAt
<1>5. /\ pc'[r] = "body" /\ delivery' = delivery /\ outer'[r] = report'[r]
      /\ outer'[r] \in {"armed", "Complete"}
  <2>1. CASE UNCHANGED outer /\ (FrameFails(r) \/ UNCHANGED vars)
    BY <1>3, <1>4, <2>1 DEF FrameFails, vars
  <2>2. CASE outer' = [outer EXCEPT ![r] = "Complete"] /\ FrameEnds(r)
    <3>1. outer'[r] = "Complete" /\ pc' = pc /\ delivery' = delivery
      BY <2>2 DEF FrameEnds, ExchangeInv, Shapes
    <3>2. report'[r] = "Complete"
      BY <1>4, <2>2 DEF FrameEnds, ReportOf, SlotInv, Typed
    <3> QED
      BY <1>3, <3>1, <3>2
  <2> QED
    BY <2>1, <2>2 DEF Polled
<1>6. PlacedAt(r)'
  BY <1>3, <1>4, <1>5 DEF At, PlacedAt
<1>7. AgreeAt(r)'
  BY <1>3, <1>5 DEF At, AgreeAt, AtEnd
<1>8. told'[r] = Story(r)'
  BY <1>3, <1>4, <1>5 DEF At, Story, Recovered
<1> QED
  BY <1>1, <1>2, <1>3, <1>6, <1>7, <1>8, MovesAlone DEF At

(* A refusal's document is read.                                           *)
LEMMA PlainKeeps ==
    ASSUME SlotInv, ExchangeInv, NEW r \in Requests, PlainPolled(r)
    PROVE  ExchangeInv'
<1>1. SlotAlone(r)
  BY SlotStepsAlone DEF PlainPolled, SlotInv
<1>2. Shapes'
  BY DEF ExchangeInv, Shapes, PlainPolled, Delivery, chainVars
<1>3. /\ phase[r] = "sending" /\ At(r) /\ plain[r] = "open"
      /\ plain'[r] = "ended" /\ outer'[r] = "Complete"
      /\ UNCHANGED <<pc, inner, report, delivery, config, phase, result, told, panicked>>
      /\ \A x \in Requests \ {r} : outer'[x] = outer[x] /\ plain'[x] = plain[x]
  BY DEF ExchangeInv, Shapes, PlainPolled, chainVars, vars
<1>4. PlacedAt(r)'
  BY <1>3 DEF At, PlacedAt
<1>5. AgreeAt(r)'
  BY <1>3 DEF At, AgreeAt
<1>6. outer[r] \in {"armed", "Complete"}
  BY <1>3 DEF At, PlacedAt
<1>7. told'[r] = Story(r)'
  BY <1>3, <1>6 DEF At, Story, Recovered
<1> QED
  BY <1>1, <1>2, <1>3, <1>4, <1>5, <1>7, MovesAlone DEF At

(* The codec drops a body.                                                 *)
LEMMA DropSentKeeps ==
    ASSUME SlotInv, ExchangeInv, NEW r \in Requests, DropSent(r)
    PROVE  ExchangeInv'
<1>1. SlotAlone(r)
  BY SlotStepsAlone DEF DropSent, Slot, SlotInv
<1>2. Shapes'
  BY DEF ExchangeInv, Shapes, Phase, DropSent
<1>3. /\ phase[r] = "sending" /\ At(r) /\ phase'[r] = "dropping"
      /\ UNCHANGED <<config, result, outer, told, panicked>>
      /\ \A x \in Requests \ {r} : phase'[x] = phase[x] /\ plain'[x] = plain[x]
  BY DEF ExchangeInv, Shapes, DropSent
<1>4. PlacedAt(r)' /\ AgreeAt(r)'
  <2>1. CASE pc[r] = "body"
    <3>1. plain[r] = "none" /\ outer[r] = report[r] /\ outer[r] \in {"armed", "Complete"}
      BY <1>3, <2>1 DEF At, PlacedAt, AgreeAt
    <3>2. /\ pc'[r] = "reporting" /\ report' = report /\ plain' = plain
          /\ delivery'[r] = "Complete" => inner'[r] \in AtEnd
      BY <2>1 DEF DropSent, DropBody, SlotInv, Typed, AtEnd
    <3>3. PlacedAt(r)'
      BY <1>3, <3>1, <3>2 DEF At, PlacedAt
    <3>4. AgreeAt(r)'
      BY <1>3, <3>1, <3>2 DEF AgreeAt
    <3> QED
      BY <3>3, <3>4
  <2>2. CASE pc[r] # "body"
    <3>1. plain[r] # "none" /\ pc[r] = "over" /\ outer[r] \in {"armed", "Complete"}
      BY <1>3, <2>2 DEF At, PlacedAt
    <3>2. plain'[r] # "none" /\ UNCHANGED <<pc, inner, report, delivery>>
      BY <2>2 DEF DropSent, ExchangeInv, Shapes, vars
    <3> QED
      BY <1>3, <3>1, <3>2 DEF At, PlacedAt, AgreeAt
  <2> QED
    BY <2>1, <2>2
<1>5. told'[r] = Story(r)'
  BY <1>3 DEF At, Story, Recovered
<1> QED
  BY <1>1, <1>2, <1>3, <1>4, <1>5, MovesAlone DEF At

(* The observers' watch reports, and tells them of a disconnect.           *)
LEMMA OuterKeeps ==
    ASSUME SlotInv, ExchangeInv, NEW r \in Requests, OuterReports(r)
    PROVE  ExchangeInv'
<1> DEFINE d == IF AtItsEnd(r) THEN "Complete" ELSE "Interrupted"
<1>1. SlotAlone(r)
  BY SlotStepsAlone DEF OuterReports, SlotInv
<1>2. Shapes'
  BY DEF ExchangeInv, Shapes, Phase, OuterReports, Delivery, Tell
<1>3. /\ phase[r] = "dropping" /\ pc[r] = "over" /\ At(r) /\ phase'[r] = "over"
      /\ UNCHANGED <<pc, inner, report, delivery, config, result, plain, panicked>>
      /\ outer'[r] = IF outer[r] = "armed" THEN d ELSE outer[r]
      /\ \A x \in Requests \ {r} :
            phase'[x] = phase[x] /\ outer'[x] = outer[x] /\ told'[x] = told[x]
  BY DEF ExchangeInv, Shapes, OuterReports, Tell, vars
<1>4. outer[r] \in {"armed", "Complete"} /\ outer'[r] \in Delivery
  BY <1>3 DEF At, PlacedAt, Delivery
<1>5. PlacedAt(r)'
  BY <1>3, <1>4 DEF At, PlacedAt, Delivery
<1>6. AgreeAt(r)'
  <2>1. delivery[r] \in Delivery
    BY DEF SlotInv, Typed
  <2>2. plain[r] = "none" => outer'[r] = report[r]
    BY <1>3, <1>4, <2>1 DEF At, AgreeAt, AtItsEnd, Delivery
  <2> QED
    BY <1>3, <2>2 DEF At, AgreeAt
<1>7. told'[r] = Story(r)'
  <2>1. CASE outer[r] = "armed" /\ d = "Interrupted"
    <3>1. outer'[r] = "Interrupted" /\ told'[r] = Append(told[r], "disconnect")
      BY <1>3, <2>1 DEF OuterReports, Tell, ExchangeInv, Shapes
    <3>2. CASE Recovered(r)
      <4>1. told[r] = <<"request", "panic", "response">>
        BY <1>3, <2>1, <3>2 DEF At, Story
      <4> QED
        BY <1>3, <3>1, <3>2, <4>1, FourWords DEF Story, Recovered
    <3>3. CASE ~Recovered(r)
      <4>1. told[r] = <<"request", "response">>
        BY <1>3, <2>1, <3>3 DEF At, Story
      <4> QED
        BY <1>3, <3>1, <3>3, <4>1, ThreeWords DEF Story, Recovered
    <3> QED
      BY <3>2, <3>3
  <2>2. CASE ~(outer[r] = "armed" /\ d = "Interrupted")
    <3>1. told' = told /\ outer'[r] = "Complete"
      BY <1>3, <1>4, <2>2 DEF OuterReports
    <3> QED
      BY <1>3, <1>4, <3>1 DEF At, Story, Recovered
  <2> QED
    BY <2>1, <2>2
<1> QED
  BY <1>1, <1>2, <1>3, <1>5, <1>6, <1>7, MovesAlone DEF At

(* Nothing is told at the start.                                           *)
LEMMA InitExchange == ExchangeInit => ExchangeInv
<1> SUFFICES ASSUME ExchangeInit PROVE ExchangeInv
  OBVIOUS
<1>1. Shapes
  BY DEF ExchangeInit, Shapes, Phase
<1>2. ASSUME NEW r \in Requests PROVE At(r)
  BY DEF ExchangeInit, Init, At, PlacedAt, AgreeAt, Story
<1> QED
  BY <1>1, <1>2 DEF ExchangeInv

(* Every step keeps what an exchange adds.                                 *)
LEMMA ExchangeInvStep ==
    SlotInv /\ ExchangeInv /\ [ExchangeNext]_exchangeVars => ExchangeInv'
<1> SUFFICES ASSUME SlotInv, ExchangeInv, [ExchangeNext]_exchangeVars PROVE ExchangeInv'
  OBVIOUS
<1>1. CASE UNCHANGED exchangeVars
  <2>1. Shapes'
    BY <1>1 DEF ExchangeInv, Shapes, exchangeVars, chainVars, sendVars
  <2> QED
    BY <1>1, <2>1, NothingKeeps DEF exchangeVars, chainVars, sendVars, vars, bodyVars
<1>2. ASSUME NEW r \in Requests, Serve(r) \/ Runs(r) PROVE ExchangeInv'
  BY <1>2, ServeKeeps, WaitsKeeps, RefusalsKeep, DropsKeep, RespondKeeps, OuterKeeps DEF Runs
<1> QED
  BY <1>1, <1>2, HandlerKeeps, RouterKeeps, AbandonKeeps, ClocksKeep, PolledKeeps, PlainKeeps,
     DropSentKeeps DEF ExchangeNext

(* The exchange's invariant, with that of its slot.                        *)
THEOREM ExchangeInvHolds == ExchangeSpec => [](SlotInv /\ ExchangeInv)
<1>1. ExchangeInit => SlotInv /\ ExchangeInv
  BY InitSlots, InitExchange DEF ExchangeInit
<1>2. (SlotInv /\ ExchangeInv) /\ [ExchangeNext]_exchangeVars => (SlotInv /\ ExchangeInv)'
  BY StepsAreSlotSteps, SlotInvStep, ExchangeInvStep
<1> QED
  BY <1>1, <1>2, PTL DEF ExchangeSpec

(* How often a word is in a story.                                         *)
Count(s, w) == Cardinality({i \in DOMAIN s : s[i] = w})

(* A word at one place is there once.                                      *)
LEMMA CountsOnce ==
    ASSUME NEW s, NEW w, NEW k \in DOMAIN s, s[k] = w, \A i \in DOMAIN s : s[i] = w => i = k
    PROVE  Count(s, w) = 1
<1>1. {i \in DOMAIN s : s[i] = w} = {k}
  OBVIOUS
<1> QED
  BY <1>1, FS_Singleton DEF Count

(* A word at no place is not there.                                        *)
LEMMA CountsNever ==
    ASSUME NEW s, NEW w, \A i \in DOMAIN s : s[i] # w
    PROVE  Count(s, w) = 0
<1>1. {i \in DOMAIN s : s[i] = w} = {}
  OBVIOUS
<1> QED
  BY <1>1, FS_EmptySet DEF Count

(* What a story says of a panic, a response and a disconnect.              *)
Says(s, p, a, d) ==
    Count(s, "panic") = p /\ Count(s, "response") = a /\ Count(s, "disconnect") = d

(* Nothing was told.                                                       *)
LEMMA EmptySays == Says(<<>>, 0, 0, 0)
<1>1. DOMAIN <<>> = {}
  OBVIOUS
<1> QED
  BY <1>1, CountsNever DEF Says

(* A request arrived.                                                      *)
LEMMA RequestSays == Says(<<"request">>, 0, 0, 0)
<1> DEFINE s == <<"request">>
<1>1. DOMAIN s = {1} /\ s[1] = "request"
  OBVIOUS
<1> HIDE DEF s
<1>2. Says(s, 0, 0, 0)
  BY <1>1, CountsNever DEF Says
<1> QED
  BY <1>2 DEF s

(* Its handler panicked.                                                   *)
LEMMA PanicSays == Says(<<"request", "panic">>, 1, 0, 0)
<1> DEFINE s == <<"request", "panic">>
<1>1. DOMAIN s = {1, 2} /\ s[1] = "request" /\ s[2] = "panic"
  OBVIOUS
<1> HIDE DEF s
<1>2. Count(s, "panic") = 1
  BY <1>1, CountsOnce
<1>3. Says(s, 1, 0, 0)
  BY <1>1, <1>2, CountsNever DEF Says
<1> QED
  BY <1>3 DEF s

(* It was answered.                                                        *)
LEMMA ResponseSays ==
    Says(<<"request", "response">>, 0, 1, 0)
      /\ <<"request", "response">>[Len(<<"request", "response">>)] = "response"
<1> DEFINE s == <<"request", "response">>
<1>1. DOMAIN s = {1, 2} /\ Len(s) = 2 /\ s[1] = "request" /\ s[2] = "response"
  OBVIOUS
<1> HIDE DEF s
<1>2. Count(s, "response") = 1
  BY <1>1, CountsOnce
<1>3. Says(s, 0, 1, 0) /\ s[Len(s)] = "response"
  BY <1>1, <1>2, CountsNever DEF Says
<1> QED
  BY <1>3 DEF s

(* It was answered after a panic.                                          *)
LEMMA PanicResponseSays ==
    Says(<<"request", "panic", "response">>, 1, 1, 0)
      /\ <<"request", "panic", "response">>[Len(<<"request", "panic", "response">>)] = "response"
<1> DEFINE s == <<"request", "panic", "response">>
<1>1. /\ DOMAIN s = {1, 2, 3} /\ Len(s) = 3
      /\ s[1] = "request" /\ s[2] = "panic" /\ s[3] = "response"
  OBVIOUS
<1> HIDE DEF s
<1>2. Count(s, "panic") = 1
  BY <1>1, CountsOnce
<1>3. Count(s, "response") = 1
  BY <1>1, CountsOnce
<1>4. Says(s, 1, 1, 0) /\ s[Len(s)] = "response"
  BY <1>1, <1>2, <1>3, CountsNever DEF Says
<1> QED
  BY <1>4 DEF s

(* Its client went away.                                                   *)
LEMMA DisconnectSays ==
    Says(<<"request", "response", "disconnect">>, 0, 1, 1)
      /\ <<"request", "response", "disconnect">>[Len(<<"request", "response", "disconnect">>)]
            = "disconnect"
<1> DEFINE s == <<"request", "response", "disconnect">>
<1>1. /\ DOMAIN s = {1, 2, 3} /\ Len(s) = 3
      /\ s[1] = "request" /\ s[2] = "response" /\ s[3] = "disconnect"
  OBVIOUS
<1> HIDE DEF s
<1>2. Count(s, "response") = 1
  BY <1>1, CountsOnce
<1>3. Count(s, "disconnect") = 1
  BY <1>1, CountsOnce
<1>4. Says(s, 0, 1, 1) /\ s[Len(s)] = "disconnect"
  BY <1>1, <1>2, <1>3, CountsNever DEF Says
<1> QED
  BY <1>4 DEF s

(* All that can be told of one request.                                    *)
LEMMA WholeSays ==
    Says(<<"request", "panic", "response", "disconnect">>, 1, 1, 1)
      /\ <<"request", "panic", "response", "disconnect">>[
            Len(<<"request", "panic", "response", "disconnect">>)] = "disconnect"
<1> DEFINE s == <<"request", "panic", "response", "disconnect">>
<1>1. /\ DOMAIN s = {1, 2, 3, 4} /\ Len(s) = 4
      /\ s[1] = "request" /\ s[2] = "panic" /\ s[3] = "response" /\ s[4] = "disconnect"
  OBVIOUS
<1> HIDE DEF s
<1>2. Count(s, "panic") = 1
  BY <1>1, CountsOnce
<1>3. Count(s, "response") = 1
  BY <1>1, CountsOnce
<1>4. Count(s, "disconnect") = 1
  BY <1>1, CountsOnce
<1>5. Says(s, 1, 1, 1) /\ s[Len(s)] = "disconnect"
  BY <1>1, <1>2, <1>3, <1>4 DEF Says
<1> QED
  BY <1>5 DEF s

(* What the observers of one request were told is true.                    *)
Told(r) ==
    /\ Times(r, "panic") = IF r \in panicked /\ config[r].scopes # {} THEN 1 ELSE 0
    /\ Times(r, "response") = IF outer[r] # "none" THEN 1 ELSE 0
    /\ Times(r, "disconnect") = IF outer[r] = "Interrupted" THEN 1 ELSE 0
    /\ outer[r] = "Interrupted" => Last(r) = "disconnect"
    /\ outer[r] \notin {"none", "Interrupted"} => Last(r) = "response"

(* The story of a request is what happened to it.                          *)
LEMMA StoriesAreTrue == ASSUME NEW r \in Requests, At(r) PROVE Told(r)
<1>1. told[r] = Story(r)
  BY DEF At
<1>2. \A w : Times(r, w) = Count(told[r], w)
  BY DEF Times, Count
<1>3. /\ Times(r, "panic") = Count(told[r], "panic")
      /\ Times(r, "response") = Count(told[r], "response")
      /\ Times(r, "disconnect") = Count(told[r], "disconnect")
      /\ Last(r) = told[r][Len(told[r])]
  BY <1>2 DEF Last
<1> USE DEF Says, Told
<1>4. CASE phase[r] = "new"
  <2>1. told[r] = <<>> /\ outer[r] = "none" /\ r \notin panicked
    BY <1>1, <1>4 DEF Story, At, PlacedAt
  <2> QED
    BY <1>3, <2>1, EmptySays
<1>5. CASE phase[r] # "new" /\ outer[r] = "none"
  <2>1. told[r] = IF Recovered(r) THEN <<"request", "panic">> ELSE <<"request">>
    BY <1>1, <1>5 DEF Story
  <2> QED
    BY <1>3, <1>5, <2>1, RequestSays, PanicSays DEF Recovered
<1>6. CASE phase[r] # "new" /\ outer[r] = "Interrupted"
  <2>1. CASE Recovered(r)
    <3>1. told[r] = <<"request", "panic", "response", "disconnect">>
      BY <1>1, <1>6, <2>1 DEF Story
    <3> QED
      BY <1>3, <1>6, <2>1, <3>1, WholeSays DEF Recovered
  <2>2. CASE ~Recovered(r)
    <3>1. told[r] = <<"request", "response", "disconnect">>
      BY <1>1, <1>6, <2>2 DEF Story
    <3> QED
      BY <1>3, <1>6, <2>2, <3>1, DisconnectSays DEF Recovered
  <2> QED
    BY <2>1, <2>2
<1>7. CASE phase[r] # "new" /\ outer[r] \notin {"none", "Interrupted"}
  <2>1. CASE Recovered(r)
    <3>1. told[r] = <<"request", "panic", "response">>
      BY <1>1, <1>7, <2>1 DEF Story
    <3> QED
      BY <1>3, <1>7, <2>1, <3>1, PanicResponseSays DEF Recovered
  <2>2. CASE ~Recovered(r)
    <3>1. told[r] = <<"request", "response">>
      BY <1>1, <1>7, <2>2 DEF Story
    <3> QED
      BY <1>3, <1>7, <2>2, <3>1, ResponseSays DEF Recovered
  <2> QED
    BY <2>1, <2>2
<1> QED
  BY <1>4, <1>5, <1>6, <1>7

(* The invariant says what observers may rely on.                          *)
LEMMA InvReports == SlotInv /\ ExchangeInv => ReportsAreTrue
<1> SUFFICES ASSUME SlotInv, ExchangeInv PROVE ReportsAreTrue
  OBVIOUS
<1>1. DeliveryIsTrue
  BY DEF SlotInv, Typed, Bodies, DeliveryIsTrue, PC, Delivery, AtEnd
<1>2. ASSUME NEW r \in Requests
      PROVE  /\ outer[r] = "Interrupted" => r \notin Holding
             /\ outer[r] = "Complete" /\ ~config[r].head /\ plain[r] = "none" =>
                  inner[r] \in AtEnd
             /\ phase[r] = "over" /\ outer[r] # "none" /\ plain[r] = "none" =>
                  outer[r] = report[r]
  <2>1. At(r) /\ phase[r] \in Phase
    BY DEF ExchangeInv, Shapes
  <2>2. outer[r] = "Interrupted" => phase[r] = "over" /\ pc[r] = "over"
    BY <2>1 DEF At, PlacedAt, Phase
  <2>3. pc[r] = "over" => r \notin Holding
    BY DEF SlotInv, Bodies, Holding
  <2>4. outer[r] = "Complete" /\ plain[r] = "none" => report[r] = "Complete"
    BY <2>1 DEF At, PlacedAt, AgreeAt, Phase
  <2>5. report[r] = "Complete" => inner[r] \in AtEnd
    BY <1>1 DEF DeliveryIsTrue
  <2> QED
    BY <2>1, <2>2, <2>3, <2>4, <2>5 DEF At, AgreeAt
<1>3. \A r \in Requests : Told(r)
  BY StoriesAreTrue DEF ExchangeInv
<1>4. ASSUME NEW r \in Requests
      PROVE  /\ Times(r, "disconnect") = 1 => outer[r] = "Interrupted"
             /\ Times(r, "response") = 1 /\ Times(r, "disconnect") = 0 =>
                  outer[r] \notin {"none", "Interrupted"}
  BY <1>3 DEF Told
<1> QED
  BY <1>1, <1>2, <1>3, <1>4 DEF ReportsAreTrue, Told

(* However a request ends, refused, recovered, dropped, cut off or read to *)
(* its end, observers hear of each thing that happened once and in order,  *)
(* and of a disconnect only when the slot is free again.                   *)
THEOREM ObserversHearTheTruth == ExchangeSpec => []ReportsAreTrue
  BY InvReports, ExchangeInvHolds, PTL

-----------------------------------------------------------------------------
(* The clock of a body.                                                    *)

(* Nothing that QuietAt speaks of has changed for request x.               *)
SameClock(x) ==
    /\ pc'[x] = pc[x] /\ inner'[x] = inner[x] /\ has'[x] = has[x] /\ config'[x] = config[x]
    /\ phase'[x] = phase[x]
    /\ (x \in silent' <=> x \in silent) /\ (x \in cut' <=> x \in cut)

(* Its clock says what it said.                                            *)
LEMMA ClockStays == ASSUME NEW x \in Requests, SameClock(x), QuietAt(x) PROVE QuietAt(x)'
  BY DEF SameClock, QuietAt, Open

(* A step of request r is its own.                                         *)
LEMMA ClocksMoveAlone ==
    ASSUME Quiet, NEW r \in Requests, SlotAlone(r), UNCHANGED config,
           \A x \in Requests \ {r} :
              /\ phase'[x] = phase[x] /\ has'[x] = has[x]
              /\ (x \in silent' <=> x \in silent) /\ (x \in cut' <=> x \in cut),
           QuietAt(r)'
    PROVE  Quiet'
<1>1. \A x \in Requests \ {r} : SameClock(x)
  BY DEF SameClock, SlotAlone
<1> QED
  BY <1>1, ClockStays DEF Quiet

(* Steps before a response is sent, after which its body has been polled   *)
(* by nobody.                                                              *)
LEMMA ChainQuiet ==
    ASSUME SlotInv, ExchangeInv, Quiet, NEW r \in Requests,
           \/ Serve(r) \/ Waits(r) \/ Refuse(r) \/ TimesOut(r) \/ RouterRecovers(r)
           \/ Abandon(r) \/ WithoutContent(r)
    PROVE  Quiet'
<1>1. SlotAlone(r)
  BY SlotStepsAlone DEF Serve, Waits, Refuse, TimesOut, RouterRecovers, Abandon, WithoutContent,
     Slot, SlotInv
<1>2. UNCHANGED <<config, has, silent, cut>> /\ phase[r] \in {"new", "chain"}
  BY DEF Serve, Waits, Refuse, TimesOut, RouterRecovers, Abandon, WithoutContent,
     Returns, Running, sendVars, chainVars
<1>3. \A x \in Requests \ {r} : phase'[x] = phase[x]
  BY DEF Serve, Waits, Refuse, TimesOut, RouterRecovers, Abandon, WithoutContent,
     Returns, chainVars, ExchangeInv, Shapes
<1>4. pc'[r] # "body"
  BY DEF Serve, Waits, Refuse, TimesOut, RouterRecovers, Abandon, WithoutContent, SlotInv, Typed,
     Acquire, WaitElapses, TakeSlot, Expire, Shed, Cut, DropBody
<1>5. QuietAt(r)'
  BY <1>2, <1>4 DEF Quiet, QuietAt, Open
<1> QED
  BY <1>1, <1>2, <1>3, <1>5, ClocksMoveAlone

(* A handler's answer arms a clock that has not run.                       *)
LEMMA AnswerQuiet ==
    ASSUME SlotInv, ExchangeInv, Quiet, NEW r \in Requests, Handle(r) \/ EndpointRecovers(r)
    PROVE  Quiet'
<1>0. Wrapped(r) /\ Running(r) /\ Answer(r)
  BY DEF Handle, EndpointRecovers, Wrapped
<1>1. SlotAlone(r)
  BY <1>0, SlotStepsAlone DEF Slot, SlotInv
<1>2. /\ UNCHANGED <<config, phase, has, cut>> /\ phase[r] = "chain"
      /\ silent' = silent \cup {r}
  BY DEF Handle, EndpointRecovers, Wrapped, Running, Returns
<1>3. QuietAt(r)'
  BY <1>2 DEF Quiet, QuietAt
<1> QED
  BY <1>1, <1>2, <1>3, ClocksMoveAlone

(* A body that is opened by nobody stays as quiet as it was.               *)
LEMMA RestQuiet ==
    ASSUME SlotInv, ExchangeInv, Quiet, NEW r \in Requests,
           \/ LimitPasses(r) \/ ClockPasses(r) \/ Released(r) \/ Respond(r)
           \/ PlainPolled(r) \/ OuterReports(r)
    PROVE  Quiet'
<1>1. SlotAlone(r)
  BY SlotStepsAlone DEF LimitPasses, ClockPasses, Released, Respond, PlainPolled, OuterReports,
     Slot, SlotInv
<1>2. UNCHANGED <<config, has, silent, cut>>
  BY DEF LimitPasses, ClockPasses, Released, Respond, PlainPolled, OuterReports,
     sendVars, chainVars
<1>3. /\ \A x \in Requests \ {r} : phase'[x] = phase[x]
      /\ phase'[r] = phase[r] \/ phase'[r] \in {"sending", "over"}
  BY DEF LimitPasses, ClockPasses, Released, Respond, PlainPolled, OuterReports,
     sendVars, chainVars, ExchangeInv, Shapes
<1>4. Open(r)' => Open(r)
  BY DEF LimitPasses, ClockPasses, Released, Respond, PlainPolled, OuterReports, Report,
     vars, Open, SlotInv, Typed
<1>5. QuietAt(r)'
  BY <1>2, <1>3, <1>4 DEF Quiet, QuietAt
<1> QED
  BY <1>1, <1>2, <1>3, <1>5, ClocksMoveAlone

(* A producer, a poll of the codec, and the end of the body.               *)
LEMMA ProduceQuiet ==
    ASSUME SlotInv, ExchangeInv, Quiet, NEW r \in Requests, Produce(r)
    PROVE  Quiet'
<1>1. SlotAlone(r)
  BY SlotStepsAlone DEF Produce, SlotInv
<1>2. /\ UNCHANGED <<config, phase, cut>> /\ silent' = silent \ {r} /\ r \notin cut
      /\ has'[r] # "nothing" /\ \A x \in Requests \ {r} : has'[x] = has[x]
  BY DEF Produce, chainVars, ExchangeInv, Shapes, Quiet, QuietAt
<1>3. QuietAt(r)'
  BY <1>2 DEF QuietAt
<1> QED
  BY <1>1, <1>2, <1>3, ClocksMoveAlone

(* A frame clears it, a pending poll leaves it.                            *)
LEMMA PolledQuiet ==
    ASSUME SlotInv, ExchangeInv, Quiet, NEW r \in Requests, Polled(r)
    PROVE  Quiet'
<1>1. SlotAlone(r)
  BY SlotStepsAlone DEF Polled, Slot, SlotInv
<1>2. /\ UNCHANGED <<config, phase>> /\ phase[r] = "sending" /\ Open(r) /\ r \notin cut
      /\ \A x \in Requests \ {r} :
           /\ has'[x] = has[x]
           /\ (x \in silent' <=> x \in silent) /\ (x \in cut' <=> x \in cut)
  BY DEF Polled, chainVars, ExchangeInv, Shapes, Quiet, QuietAt
<1>3. QuietAt(r)'
  <2>1. CASE Cuts(r) /\ FrameFails(r) /\ cut' = cut \cup {r} /\ UNCHANGED <<has, silent>>
    <3>1. ~Open(r)'
      BY <2>1 DEF FrameFails, Open, SlotInv, Typed
    <3>2. config[r].clock = "idle" => r \in silent
      BY <1>2, <2>1 DEF Cuts, Quiet, QuietAt
    <3> QED
      BY <1>2, <2>1, <3>1, <3>2 DEF QuietAt
  <2>2. CASE (FrameFails(r) \/ FrameEnds(r)) /\ UNCHANGED cut
    <3>1. ~Open(r)'
      BY <2>2 DEF FrameFails, FrameEnds, AtEnd, Open, SlotInv, Typed
    <3> QED
      BY <1>2, <2>2, <3>1 DEF QuietAt
  <2>3. CASE silent' = silent \cup {r} /\ UNCHANGED cut
    BY <1>2, <2>3 DEF QuietAt
  <2> QED
    BY <2>1, <2>2, <2>3 DEF Polled
<1> QED
  BY <1>1, <1>2, <1>3, ClocksMoveAlone

(* A body that is dropped has no clock.                                    *)
LEMMA DropSentQuiet ==
    ASSUME SlotInv, ExchangeInv, Quiet, NEW r \in Requests, DropSent(r)
    PROVE  Quiet'
<1>1. SlotAlone(r)
  BY SlotStepsAlone DEF DropSent, Slot, SlotInv
<1>2. /\ UNCHANGED <<config, silent, cut>> /\ phase'[r] = "dropping"
      /\ \A x \in Requests \ {r} : phase'[x] = phase[x] /\ has'[x] = has[x]
  BY DEF DropSent, ExchangeInv, Shapes
<1>3. ~Open(r)'
  BY DEF DropSent, DropBody, Open, SlotInv, Typed, vars
<1>4. QuietAt(r)'
  BY <1>2, <1>3 DEF Quiet, QuietAt
<1> QED
  BY <1>1, <1>2, <1>4, ClocksMoveAlone

(* Every step keeps what the clocks say.                                   *)
LEMMA QuietStep ==
    SlotInv /\ ExchangeInv /\ Quiet /\ [ExchangeNext]_exchangeVars => Quiet'
<1> SUFFICES ASSUME SlotInv, ExchangeInv, Quiet, [ExchangeNext]_exchangeVars PROVE Quiet'
  OBVIOUS
<1>1. CASE UNCHANGED exchangeVars
  <2>1. \A x \in Requests : SameClock(x)
    BY <1>1 DEF exchangeVars, chainVars, sendVars, vars, SameClock
  <2> QED
    BY <2>1, ClockStays DEF Quiet
<1>2. ASSUME NEW r \in Requests, Serve(r) \/ Runs(r) PROVE Quiet'
  BY <1>2, ChainQuiet, RestQuiet DEF Runs
<1> QED
  BY <1>1, <1>2, ChainQuiet, AnswerQuiet, RestQuiet, ProduceQuiet, PolledQuiet, DropSentQuiet
     DEF ExchangeNext

(* A body that an idle limit cut off had nothing to send since the last    *)
(* frame: a slow reader's poll that comes after the limit and finds a      *)
(* frame takes the frame.                                                  *)
THEOREM IdleLimitsCutSilence == ExchangeSpec => []IdleCutsSilenceOnly
<1>1. ExchangeInit => Quiet
  BY DEF ExchangeInit, Init, Quiet, QuietAt, Open
<1>2. Quiet => \A r \in cut \cap Requests : config[r].clock = "idle" => r \in silent
  BY DEF Quiet, QuietAt
<1>3. ExchangeInit => cut \subseteq Requests
  BY DEF ExchangeInit
<1>4. cut \subseteq Requests /\ [ExchangeNext]_exchangeVars => (cut \subseteq Requests)'
  <2> SUFFICES ASSUME cut \subseteq Requests, [ExchangeNext]_exchangeVars
               PROVE  cut' \subseteq Requests
    OBVIOUS
  <2>1. cut' = cut \/ \E r \in Requests : cut' = cut \cup {r}
    BY DEF ExchangeNext, exchangeVars, sendVars, chainVars, Serve, Runs, Waits, Refuse, TimesOut,
       WithoutContent, Released, Respond, OuterReports, Handle, EndpointRecovers, RouterRecovers,
       Abandon, LimitPasses, Produce, ClockPasses, Polled, PlainPolled, DropSent, Wrapped
  <2> QED
    BY <2>1
<1>5. Quiet /\ cut \subseteq Requests => IdleCutsSilenceOnly
  BY <1>2 DEF IdleCutsSilenceOnly
<1> QED
  BY <1>1, <1>3, <1>4, <1>5, QuietStep, ExchangeInvHolds, PTL DEF ExchangeSpec

=============================================================================
