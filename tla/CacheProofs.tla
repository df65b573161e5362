----------------------------- MODULE CacheProofs -----------------------------
(***************************************************************************)
(* Theorems about module Cache, for any number of requests and targets,    *)
(* any requests asked and responses answered.                              *)
(*                                                                         *)
(* Both results rest on what is true of every stored response from its put *)
(* on, since found and hit hold copies of stored responses: Filed says     *)
(* where it is and that the rules admitted it, Ordered that it was put     *)
(* after every invalidation of its key.                                    *)
(***************************************************************************)
EXTENDS Cache, TLAPS

(* The keys a write to t drops.                                            *)
Both(t) == {[method |-> "GET", target |-> t], [method |-> "HEAD", target |-> t]}

Shape ==
    /\ pc \in [Requests -> PC]
    /\ DOMAIN asked = Requests /\ DOMAIN guarded = Requests
    /\ DOMAIN found = Requests /\ DOMAIN answer = Requests
    /\ DOMAIN hit = Requests /\ DOMAIN dropped = Requests
    /\ before \in [Requests -> SUBSET Requests]

(* A request that has not arrived has no history.                          *)
Fresh == \A r \in Requests : pc[r] = "new" => hit[r] = NoHit /\ found[r] = {}

(* What is about to be stored is allowed to be.                            *)
Admits(r) ==
    StorableMethod(asked[r]) /\ Storable(asked[r], guarded[r], answer[r].said)
Admitted == \A r \in Requests : pc[r] \in {"buffer", "put"} => Admits(r)
Sameorigin == \A r \in Requests : pc[r] = "put" => ~RefusesCrossOrigin(answer[r].said)

(* What every stored response is.                                          *)
Proper(e) ==
    /\ e.key.method \in {"GET", "HEAD"}
    /\ ~e.personal
    /\ ~RefusesCrossOrigin(e.said)
Filed ==
    /\ \A e \in store : Proper(e)
    /\ \A r \in Requests : \A e \in found[r] :
          Proper(e) /\ e.key = PrimaryKey(asked[r])

(* A stored response was put after every invalidation of its key, and a    *)
(* write that a request came after has invalidated both keys.              *)
Ordered ==
    /\ \A e \in store : \A w \in Requests : e.key \in dropped[w] => w \in e.after
    /\ \A r \in Requests : \A e \in found[r] : before[r] \subseteq e.after
HalfDropped ==
    \A r \in Requests : pc[r] = "invalidateHead" =>
       [method |-> "GET", target |-> asked[r].target] \in dropped[r]
Dropped == \A w \in Requests : Written(w) => Both(asked[w].target) \subseteq dropped[w]
Preceded ==
    \A r \in Requests : \A w \in before[r] : Both(asked[r].target) \subseteq dropped[w]

IInv ==
    /\ Shape /\ Fresh /\ Admitted /\ Sameorigin /\ Filed
    /\ Ordered /\ HalfDropped /\ Dropped /\ Preceded
    /\ SurvivorsWerePutLater /\ RightRepresentation /\ NobodyElses
    /\ GuardCoversOldEntries

-----------------------------------------------------------------------------
(* What the storing rules admit is not one requester's own.                *)
LEMMA AdmittedIsNotPersonal ==
    ASSUME NEW r \in Requests, Admits(r)
    PROVE  ~Personal(r, answer[r].said)
  BY DEF Admits, Storable, Personal

(* GET and HEAD, the methods that are stored, are safe: they drop nothing. *)
LEMMA StorableIsSafe ==
    ASSUME NEW a, StorableMethod(a)
    PROVE  Safe(a)
  BY DEF StorableMethod, Safe

(* A stored response's key is one of the two a write to its target drops.  *)
LEMMA ProperKeyIsDropped ==
    ASSUME NEW e, NEW a, Proper(e), e.key = PrimaryKey(a)
    PROVE  e.key \in Both(a.target) /\ StorableMethod(a)
  BY DEF Proper, PrimaryKey, Both, StorableMethod

(* A stored response that is selected agrees in all it depends on.         *)
LEMMA HitRepresents ==
    ASSUME NEW e, NEW a, Proper(e), e.key = PrimaryKey(a), SelectedBy(e, a)
    PROVE  \A f \in DependsOn(e.said) : e.fields[f] = a.fields[f]
  BY DEF Proper, RefusesCrossOrigin, DependsOn, SelectedBy

(* A request that arrives has all that earlier writes dropped behind it.   *)
LEMMA ArrivePreserves ==
    ASSUME IInv, NEW r \in Requests, Arrive(r)
    PROVE  IInv'
<1> USE DEF Arrive, Goto, Shape
<1>1. Shape'
  BY DEF IInv, PC
<1>2. Fresh'
  BY DEF IInv, Fresh
<1>3. Admitted'
  BY DEF IInv, Admitted, Admits
<1>4. Sameorigin'
  BY DEF IInv, Sameorigin
<1>5. Filed'
  BY DEF IInv, Filed, Fresh
<1>6. Ordered'
  BY DEF IInv, Ordered, Fresh
<1>7. HalfDropped'
  BY DEF IInv, HalfDropped
<1>8. Dropped'
  BY DEF IInv, Dropped, Written
<1>9. Preceded'
  BY DEF IInv, Preceded, Dropped
<1>10. SurvivorsWerePutLater'
  BY DEF IInv, SurvivorsWerePutLater, Hits, Fresh
<1>11. RightRepresentation'
  BY DEF IInv, RightRepresentation, Hits, Fresh
<1>12. NobodyElses'
  BY DEF IInv, NobodyElses, Hits
<1>13. GuardCoversOldEntries'
  BY DEF IInv, GuardCoversOldEntries, Hits, Fresh
<1> QED
  BY <1>1, <1>2, <1>3, <1>4, <1>5, <1>6, <1>7,
     <1>8, <1>9, <1>10, <1>11, <1>12, <1>13 DEF IInv

(* What a lookup returns was put after the writes its request came after.  *)
LEMMA GetPreserves ==
    ASSUME IInv, NEW r \in Requests, Get(r)
    PROVE  IInv'
<1> USE DEF Get, Goto, Shape
<1>1. Shape'
  BY DEF IInv, PC
<1>2. Fresh'
  BY DEF IInv, Fresh
<1>3. Admitted'
  BY DEF IInv, Admitted, Admits
<1>4. Sameorigin'
  BY DEF IInv, Sameorigin
<1>5. Filed'
  BY DEF IInv, Filed
<1>6. Ordered'
  <2>1. \A e \in found'[r] : before[r] \subseteq e.after
    <3> SUFFICES ASSUME NEW e \in found'[r], NEW w \in before[r]
                 PROVE  w \in e.after
      OBVIOUS
    <3>1. e \in store /\ Proper(e) /\ e.key = PrimaryKey(asked[r])
      BY DEF IInv, Filed
    <3>2. e.key \in dropped[w] /\ w \in Requests
      BY <3>1, ProperKeyIsDropped DEF IInv, Preceded
    <3> QED
      BY <3>1, <3>2 DEF IInv, Ordered
  <2> QED
    BY <2>1 DEF IInv, Ordered
<1>7. HalfDropped'
  BY DEF IInv, HalfDropped
<1>8. Dropped'
  BY DEF IInv, Dropped, Written
<1>9. Preceded'
  BY DEF IInv, Preceded
<1>10. SurvivorsWerePutLater'
  BY DEF IInv, SurvivorsWerePutLater, Hits
<1>11. RightRepresentation'
  BY DEF IInv, RightRepresentation, Hits
<1>12. NobodyElses'
  BY DEF IInv, NobodyElses, Hits
<1>13. GuardCoversOldEntries'
  BY DEF IInv, GuardCoversOldEntries, Hits
<1> QED
  BY <1>1, <1>2, <1>3, <1>4, <1>5, <1>6, <1>7,
     <1>8, <1>9, <1>10, <1>11, <1>12, <1>13 DEF IInv

(* A hit is one of the responses found, chosen by Servable.                *)
LEMMA ChoosePreserves ==
    ASSUME IInv, NEW r \in Requests, Choose(r)
    PROVE  IInv'
<1> USE DEF Choose, Goto, Shape
<1>0. \A q \in Hits' :
        \/ q \in Hits /\ hit'[q] = hit[q]
        \/ q = r /\ hit'[q] \in found[r] /\ Servable(hit'[q], r)
  BY DEF IInv, Hits
<1>1. Shape'
  BY DEF IInv, PC
<1>2. Fresh'
  BY DEF IInv, Fresh
<1>3. Admitted'
  BY DEF IInv, Admitted, Admits
<1>4. Sameorigin'
  BY DEF IInv, Sameorigin
<1>5. Filed'
  BY DEF IInv, Filed
<1>6. Ordered'
  BY DEF IInv, Ordered
<1>7. HalfDropped'
  BY DEF IInv, HalfDropped
<1>8. Dropped'
  <2>1. found[r] # {} => Safe(asked[r])
    BY ProperKeyIsDropped, StorableIsSafe DEF IInv, Filed
  <2> QED
    BY <2>1 DEF IInv, Dropped, Written
<1>9. Preceded'
  BY DEF IInv, Preceded
<1>10. SurvivorsWerePutLater'
  BY <1>0 DEF IInv, SurvivorsWerePutLater, Ordered
<1>11. RightRepresentation'
  <2> SUFFICES ASSUME NEW q \in Hits'
               PROVE  /\ StorableMethod(asked[q])
                      /\ hit'[q].key = PrimaryKey(asked[q])
                      /\ \A f \in DependsOn(hit'[q].said) :
                            hit'[q].fields[f] = asked[q].fields[f]
    BY DEF RightRepresentation, PrimaryKey
  <2>1. CASE q \in Hits /\ hit'[q] = hit[q]
    BY <2>1 DEF IInv, RightRepresentation, PrimaryKey
  <2>2. CASE q = r /\ hit'[q] \in found[r] /\ Servable(hit'[q], r)
    <3>1. Proper(hit'[q]) /\ hit'[q].key = PrimaryKey(asked[q])
      BY <2>2 DEF IInv, Filed
    <3>2. SelectedBy(hit'[q], asked[q])
      BY <2>2 DEF Servable
    <3> QED
      BY <3>1, <3>2, HitRepresents, ProperKeyIsDropped
  <2> QED
    BY <1>0, <2>1, <2>2
<1>12. NobodyElses'
  BY <1>0 DEF IInv, NobodyElses, Filed, Proper
<1>13. GuardCoversOldEntries'
  BY <1>0 DEF IInv, GuardCoversOldEntries, Servable
<1> QED
  BY <1>1, <1>2, <1>3, <1>4, <1>5, <1>6, <1>7,
     <1>8, <1>9, <1>10, <1>11, <1>12, <1>13 DEF IInv

(* A handler's answer goes on to be stored only if the rules admit it.     *)
LEMMA HandlePreserves ==
    ASSUME IInv, NEW r \in Requests, Handle(r)
    PROVE  IInv'
<1> USE DEF Handle, Goto, Shape
<1>1. Shape'
  BY DEF IInv, PC
<1>2. Fresh'
  BY DEF IInv, Fresh
<1>3. Admitted'
  BY DEF IInv, Admitted, Admits, Storing
<1>4. Sameorigin'
  BY DEF IInv, Sameorigin
<1>5. Filed'
  BY DEF IInv, Filed
<1>6. Ordered'
  BY DEF IInv, Ordered
<1>7. HalfDropped'
  BY DEF IInv, HalfDropped
<1>8. Dropped'
  BY DEF IInv, Dropped, Written
<1>9. Preceded'
  BY DEF IInv, Preceded
<1>10. SurvivorsWerePutLater'
  BY DEF IInv, SurvivorsWerePutLater, Hits
<1>11. RightRepresentation'
  BY DEF IInv, RightRepresentation, Hits
<1>12. NobodyElses'
  BY DEF IInv, NobodyElses, Hits
<1>13. GuardCoversOldEntries'
  BY DEF IInv, GuardCoversOldEntries, Hits
<1> QED
  BY <1>1, <1>2, <1>3, <1>4, <1>5, <1>6, <1>7,
     <1>8, <1>9, <1>10, <1>11, <1>12, <1>13 DEF IInv

(* The first half of a write's invalidation.                               *)
LEMMA InvalidateGetPreserves ==
    ASSUME IInv, NEW r \in Requests, InvalidateGet(r)
    PROVE  IInv'
<1> USE DEF InvalidateGet, Goto, Invalidate, Shape
<1>1. Shape'
  BY DEF IInv, PC
<1>2. Fresh'
  BY DEF IInv, Fresh
<1>3. Admitted'
  BY DEF IInv, Admitted, Admits
<1>4. Sameorigin'
  BY DEF IInv, Sameorigin
<1>5. Filed'
  BY DEF IInv, Filed
<1>6. Ordered'
  BY DEF IInv, Ordered
<1>7. HalfDropped'
  BY DEF IInv, HalfDropped
<1>8. Dropped'
  BY DEF IInv, Dropped, Written
<1>9. Preceded'
  BY DEF IInv, Preceded
<1>10. SurvivorsWerePutLater'
  BY DEF IInv, SurvivorsWerePutLater, Hits
<1>11. RightRepresentation'
  BY DEF IInv, RightRepresentation, Hits
<1>12. NobodyElses'
  BY DEF IInv, NobodyElses, Hits
<1>13. GuardCoversOldEntries'
  BY DEF IInv, GuardCoversOldEntries, Hits
<1> QED
  BY <1>1, <1>2, <1>3, <1>4, <1>5, <1>6, <1>7,
     <1>8, <1>9, <1>10, <1>11, <1>12, <1>13 DEF IInv

(* The second half, after which the write is answered.                     *)
LEMMA InvalidateHeadPreserves ==
    ASSUME IInv, NEW r \in Requests, InvalidateHead(r)
    PROVE  IInv'
<1> USE DEF InvalidateHead, Goto, Invalidate, Shape
<1>1. Shape'
  BY DEF IInv, PC
<1>2. Fresh'
  BY DEF IInv, Fresh
<1>3. Admitted'
  BY DEF IInv, Admitted, Admits
<1>4. Sameorigin'
  BY DEF IInv, Sameorigin
<1>5. Filed'
  BY DEF IInv, Filed
<1>6. Ordered'
  BY DEF IInv, Ordered
<1>7. HalfDropped'
  BY DEF IInv, HalfDropped
<1>8. Dropped'
  BY DEF IInv, Dropped, Written, HalfDropped, Both
<1>9. Preceded'
  BY DEF IInv, Preceded
<1>10. SurvivorsWerePutLater'
  BY DEF IInv, SurvivorsWerePutLater, Hits
<1>11. RightRepresentation'
  BY DEF IInv, RightRepresentation, Hits
<1>12. NobodyElses'
  BY DEF IInv, NobodyElses, Hits
<1>13. GuardCoversOldEntries'
  BY DEF IInv, GuardCoversOldEntries, Hits
<1> QED
  BY <1>1, <1>2, <1>3, <1>4, <1>5, <1>6, <1>7,
     <1>8, <1>9, <1>10, <1>11, <1>12, <1>13 DEF IInv

(* A buffered response that goes on to the put does not refuse its origin. *)
LEMMA BufferPreserves ==
    ASSUME IInv, NEW r \in Requests, Buffer(r)
    PROVE  IInv'
<1> USE DEF Buffer, Goto, Shape
<1>1. Shape'
  BY DEF IInv, PC
<1>2. Fresh'
  BY DEF IInv, Fresh
<1>3. Admitted'
  BY DEF IInv, Admitted, Admits
<1>4. Sameorigin'
  BY DEF IInv, Sameorigin
<1>5. Filed'
  BY DEF IInv, Filed
<1>6. Ordered'
  BY DEF IInv, Ordered
<1>7. HalfDropped'
  BY DEF IInv, HalfDropped
<1>8. Dropped'
  <2>1. Safe(asked[r])
    BY StorableIsSafe DEF IInv, Admitted, Admits
  <2> QED
    BY <2>1 DEF IInv, Dropped, Written
<1>9. Preceded'
  BY DEF IInv, Preceded
<1>10. SurvivorsWerePutLater'
  BY DEF IInv, SurvivorsWerePutLater, Hits
<1>11. RightRepresentation'
  BY DEF IInv, RightRepresentation, Hits
<1>12. NobodyElses'
  BY DEF IInv, NobodyElses, Hits
<1>13. GuardCoversOldEntries'
  BY DEF IInv, GuardCoversOldEntries, Hits
<1> QED
  BY <1>1, <1>2, <1>3, <1>4, <1>5, <1>6, <1>7,
     <1>8, <1>9, <1>10, <1>11, <1>12, <1>13 DEF IInv

(* A put response knows every invalidation of its key so far.              *)
LEMMA PutPreserves ==
    ASSUME IInv, NEW r \in Requests, Put(r)
    PROVE  IInv'
<1> USE DEF Put, Goto, Shape
<1>1. Shape'
  BY DEF IInv, PC
<1>2. Fresh'
  BY DEF IInv, Fresh
<1>3. Admitted'
  BY DEF IInv, Admitted, Admits
<1>4. Sameorigin'
  BY DEF IInv, Sameorigin
<1>5. Filed'
  <2>1. Admits(r) /\ ~RefusesCrossOrigin(answer[r].said)
    BY DEF IInv, Admitted, Sameorigin
  <2>2. ~Personal(r, answer[r].said)
    BY <2>1, AdmittedIsNotPersonal
  <2>3. \A e \in store' : e \in store \/ Proper(e)
    BY <2>1, <2>2 DEF Proper, Admits, StorableMethod, PrimaryKey
  <2> QED
    BY <2>3 DEF IInv, Filed
<1>6. Ordered'
  BY DEF IInv, Ordered
<1>7. HalfDropped'
  BY DEF IInv, HalfDropped
<1>8. Dropped'
  <2>1. Safe(asked[r])
    BY StorableIsSafe DEF IInv, Admitted, Admits
  <2> QED
    BY <2>1 DEF IInv, Dropped, Written
<1>9. Preceded'
  BY DEF IInv, Preceded
<1>10. SurvivorsWerePutLater'
  BY DEF IInv, SurvivorsWerePutLater, Hits
<1>11. RightRepresentation'
  BY DEF IInv, RightRepresentation, Hits
<1>12. NobodyElses'
  BY DEF IInv, NobodyElses, Hits
<1>13. GuardCoversOldEntries'
  BY DEF IInv, GuardCoversOldEntries, Hits
<1> QED
  BY <1>1, <1>2, <1>3, <1>4, <1>5, <1>6, <1>7,
     <1>8, <1>9, <1>10, <1>11, <1>12, <1>13 DEF IInv

(* A dropped future changes nothing that is shared.                        *)
LEMMA CancelPreserves ==
    ASSUME IInv, NEW r \in Requests, Cancel(r)
    PROVE  IInv'
<1> USE DEF Cancel, Goto, Shape
<1>1. Shape'
  BY DEF IInv, PC
<1>2. Fresh'
  BY DEF IInv, Fresh
<1>3. Admitted'
  BY DEF IInv, Admitted, Admits
<1>4. Sameorigin'
  BY DEF IInv, Sameorigin
<1>5. Filed'
  BY DEF IInv, Filed
<1>6. Ordered'
  BY DEF IInv, Ordered
<1>7. HalfDropped'
  BY DEF IInv, HalfDropped
<1>8. Dropped'
  BY DEF IInv, Dropped, Written
<1>9. Preceded'
  BY DEF IInv, Preceded
<1>10. SurvivorsWerePutLater'
  BY DEF IInv, SurvivorsWerePutLater, Hits
<1>11. RightRepresentation'
  BY DEF IInv, RightRepresentation, Hits
<1>12. NobodyElses'
  BY DEF IInv, NobodyElses, Hits
<1>13. GuardCoversOldEntries'
  BY DEF IInv, GuardCoversOldEntries, Hits
<1> QED
  BY <1>1, <1>2, <1>3, <1>4, <1>5, <1>6, <1>7,
     <1>8, <1>9, <1>10, <1>11, <1>12, <1>13 DEF IInv

-----------------------------------------------------------------------------
(* An empty store and no request satisfy the invariant.                    *)
LEMMA InitEstablishes == Init => IInv
  BY DEF Init, IInv, Shape, PC, Fresh, Admitted, Sameorigin, Filed, Ordered,
         HalfDropped, Dropped, Written, Preceded, SurvivorsWerePutLater,
         RightRepresentation, NobodyElses, GuardCoversOldEntries, Hits

(* A redeploy and the clock leave all that IInv speaks of as it was.       *)
LEMMA OthersPreserve ==
    ASSUME IInv, Redeploy \/ ClockMoves \/ UNCHANGED vars
    PROVE  IInv'
<1>1. UNCHANGED <<pc, asked, guarded, found, answer, store, hit, dropped, before>>
  BY DEF Redeploy, ClockMoves, vars
<1> QED
  BY <1>1 DEF IInv, Shape, Fresh, Admitted, Admits, Sameorigin, Filed, Ordered,
         HalfDropped, Dropped, Written, Preceded, SurvivorsWerePutLater,
         RightRepresentation, NobodyElses, GuardCoversOldEntries, Hits

(* Every step preserves the invariant.                                     *)
LEMMA NextPreserves == IInv /\ [Next]_vars => IInv'
<1> SUFFICES ASSUME IInv, [Next]_vars
             PROVE  IInv'
  OBVIOUS
<1>1. ASSUME NEW r \in Requests, Step(r)
      PROVE  IInv'
  BY <1>1, ArrivePreserves, GetPreserves, ChoosePreserves, HandlePreserves,
     InvalidateGetPreserves, InvalidateHeadPreserves, BufferPreserves,
     PutPreserves, CancelPreserves DEF Step
<1> QED
  BY <1>1, OthersPreserve DEF Next

(* The invariant is inductive, so it always holds.                         *)
THEOREM IInvHolds == Spec => []IInv
  BY InitEstablishes, NextPreserves, PTL DEF Spec

(* Whatever requests, writes and dropped futures interleave with the       *)
(* awaits of intercept, a hit served after a write was answered was put    *)
(* after that write had invalidated its key.                               *)
THEOREM WritesDropWhatWasStored == Spec => []SurvivorsWerePutLater
<1>1. IInv => SurvivorsWerePutLater
  BY DEF IInv
<1> QED
  BY <1>1, IInvHolds, PTL

(* A hit is never personal to another requester, never crosses an origin   *)
(* it depends on, and is covered by the guard the operation has now.       *)
THEOREM HitsMayBeServed ==
    Spec => [](NobodyElses /\ RightRepresentation /\ GuardCoversOldEntries)
<1>1. IInv => NobodyElses /\ RightRepresentation /\ GuardCoversOldEntries
  BY DEF IInv
<1> QED
  BY <1>1, IInvHolds, PTL

(* A hit is what the handler would have answered this request: its         *)
(* method's, its target's, its negotiation's and its origin's.             *)
THEOREM HitsRepresentTheRequest == Spec => []RightRepresentation
  BY HitsMayBeServed, PTL

(* What was stored before an operation got its guard is covered by it.     *)
THEOREM GuardsCoverWhatWasStored == Spec => []GuardCoversOldEntries
  BY HitsMayBeServed, PTL

-----------------------------------------------------------------------------
(* Types, and lifetimes.  Answered types the answer of a request between   *)
(* its handler and its put, which TypeOK leaves open; Lasting is what      *)
(* serving a response at some moment leaves known of its lifetime.         *)

Answered ==
    /\ DOMAIN answer = Requests
    /\ \A r \in Requests : pc[r] \in {"buffer", "put"} =>
          answer[r].said \in Answers /\ answer[r].version \in Nat
    /\ \A r \in Requests : pc[r] = "put" => answer[r].recordedAt \in 0..MaxTime

Lasting(s) == Freshness(s) # 0
HitsLast == \A r \in Hits : Lasting(hit[r].said)

(* The fields an answer states are those of an AnswerRecord.               *)
LEMMA LifetimesStated ==
    ASSUME NEW s \in Answers
    PROVE  s.sMaxage \in Lifetime /\ s.maxAge \in Lifetime /\ s.expires \in Lifetime
  BY AnswerAssumption DEF AnswerRecord

(* The first lifetime stated decides, so one that lasts is a positive      *)
(* number: an unreadable one counts as zero, and zero never lasts.         *)
LEMMA LastingIsStatedPositive ==
    ASSUME NEW s \in Answers, Lasting(s)
    PROVE  LET stated == <<s.sMaxage, s.maxAge, s.expires>>
           IN  \A i \in 1..3 :
                  stated[i] # Unstated /\ (\A j \in 1..(i - 1) : stated[j] = Unstated)
                     => stated[i] \in Nat \ {0}
<1> DEFINE stated == <<s.sMaxage, s.maxAge, s.expires>>
<1> SUFFICES ASSUME NEW i \in 1..3, stated[i] # Unstated,
                    \A j \in 1..(i - 1) : stated[j] = Unstated
             PROVE  stated[i] \in Nat \ {0}
  OBVIOUS
<1>1. stated[i] \in Nat \cup {Unreadable}
  BY LifetimesStated DEF Lifetime
<1>2. Freshness(s) = Seconds(stated[i])
  <2>1. CASE i = 1
    BY <2>1 DEF Freshness
  <2>2. CASE i = 2
    <3>1. stated[1] = Unstated
      BY <2>2
    <3> QED
      BY <2>2, <3>1 DEF Freshness
  <2>3. CASE i = 3
    <3>1. stated[1] = Unstated /\ stated[2] = Unstated
      BY <2>3
    <3> QED
      BY <2>3, <3>1 DEF Freshness
  <2> QED
    BY <2>1, <2>2, <2>3
<1> QED
  BY <1>1, <1>2, LifetimeAssumption DEF Seconds, Lasting

(* What is servable has not run out, wherever the clock is.                *)
LEMMA ServableLasts ==
    ASSUME NEW e, NEW r, now \in Nat, e.recordedAt \in Nat, Servable(e, r)
    PROVE  Lasting(e.said)
  BY DEF Servable, IsFresh, Age, Lasting

TypesInv == TypeOK /\ Answered /\ HitsLast

(* Two stored responses for one key are of different variants.             *)
Distinct == \A e, d \in store : e.key = d.key /\ SameVariant(e, d) => e = d

(* What a put adds is a StoredResponse, and the only one of its variant.   *)
LEMMA PutTypes ==
    ASSUME IInv, TypesInv, NEW r \in Requests, Put(r)
    PROVE  TypesInv'
<1> DEFINE key == PrimaryKey(asked[r])
           new == [key |-> key, said |-> answer[r].said, fields |-> asked[r].fields,
                   recordedAt |-> answer[r].recordedAt, version |-> answer[r].version,
                   personal |-> Personal(r, answer[r].said),
                   after |-> {w \in Requests : key \in dropped[w]}]
<1>1. /\ asked[r] \in RequestRecord /\ StorableMethod(asked[r])
      /\ answer[r].said \in Answers /\ answer[r].version \in Nat
      /\ answer[r].recordedAt \in 0..MaxTime
  BY RequestAssumption DEF TypesInv, TypeOK, Answered, Put, IInv, Admitted, Admits
<1>2. Personal(r, answer[r].said) \in BOOLEAN
  BY Zenon DEF Personal
<1>3. key \in Key /\ key.method \in {"GET", "HEAD"}
  BY <1>1 DEF Key, PrimaryKey, RequestRecord, StorableMethod
<1>4. new \in StoredResponse
  BY <1>1, <1>2, <1>3 DEF StoredResponse, RequestRecord
<1>5. store' = {e \in store : ~(e.key = key /\ SameVariant(e, new))} \cup {new}
  BY Zenon DEF Put
<1>6. new.key = key
  OBVIOUS
<1> HIDE DEF new
<1>7. \A e \in store' :
        \/ e = new
        \/ e \in store /\ ~(e.key = new.key /\ SameVariant(e, new))
  BY <1>5, <1>6
<1>8. store' \subseteq StoredResponse
        /\ \A e \in store' : e.key.method \in {"GET", "HEAD"}
  BY <1>3, <1>4, <1>7, <1>6 DEF TypesInv, TypeOK
<1>9. Distinct'
  <2>1. \A e, d : SameVariant(e, d) => SameVariant(d, e)
    BY DEF SameVariant
  <2>2. Distinct
    BY DEF TypesInv, TypeOK, Distinct
  <2> QED
    BY <1>7, <2>1, <2>2 DEF Distinct, SameVariant
<1>10. TypeOK'
  BY <1>8, <1>9 DEF TypesInv, TypeOK, Put, Goto, PC, Distinct, SameVariant
<1> QED
  BY <1>10 DEF TypesInv, TypeOK, Put, Goto, Answered, HitsLast, Hits

(* A hit is a stored response that was fresh when it was chosen.           *)
LEMMA ChooseTypes ==
    ASSUME IInv, TypesInv, NEW r \in Requests, Choose(r)
    PROVE  TypesInv'
<1> USE DEF TypesInv, TypeOK, Choose, Goto
<1>1. \A q \in Requests :
        \/ hit'[q] = hit[q]
        \/ q = r /\ hit'[q] \in found[r] /\ Servable(hit'[q], r)
  BY DEF IInv, Shape
<1>2. ASSUME NEW q \in Requests, hit'[q] \in found[r], Servable(hit'[q], r)
      PROVE  hit'[q] \in StoredResponse /\ Lasting(hit'[q].said)
  <2>1. hit'[q] \in StoredResponse
    BY <1>2
  <2>2. hit'[q].recordedAt \in Nat /\ now \in Nat
    BY <2>1, BoundAssumption DEF StoredResponse
  <2> QED
    BY <1>2, <2>1, <2>2, ServableLasts
<1>3. TypeOK'
  BY <1>1, <1>2 DEF PC, SameVariant
<1> QED
  BY <1>1, <1>2, <1>3 DEF Answered, HitsLast, Hits

(* Every other step of a request keeps the types.                          *)
LEMMA StepTypes ==
    ASSUME IInv, TypesInv, NEW r \in Requests, Step(r)
    PROVE  TypesInv'
<1> USE DEF TypesInv, TypeOK, Goto
<1>1. CASE Arrive(r)
  <2>1. guarded' \in [Requests -> BOOLEAN]
    BY <1>1, Zenon DEF Arrive
  <2> QED
    BY <1>1, <2>1 DEF IInv, Shape, Arrive, PC, Answered, HitsLast, Hits, SameVariant
<1>2. CASE Get(r)
  BY <1>2 DEF Get, PC, Answered, HitsLast, Hits, SameVariant
<1>3. CASE Handle(r)
  <2>1. asked[r].target \in Targets
    BY <1>3, RequestAssumption DEF Handle, RequestRecord
  <2>2. PICK s \in Answers, v \in Nat :
          /\ answer' = [answer EXCEPT ![r] = [said |-> s, version |-> v]]
          /\ version' = [version EXCEPT ![asked[r].target] = v]
          /\ pc' \in {[pc EXCEPT ![r] = w] : w \in {"invalidateGet", "buffer", "answered"}}
    <3>1. PICK s \in Answers :
            LET v == version[asked[r].target] +
                       IF asked[r].method = "PUT" /\ NonError(s) THEN 1 ELSE 0
            IN  /\ version' = [version EXCEPT ![asked[r].target] = v]
                /\ answer' = [answer EXCEPT ![r] = [said |-> s, version |-> v]]
                /\ pc' \in {[pc EXCEPT ![r] = w] :
                             w \in {"invalidateGet", "buffer", "answered"}}
      BY <1>3 DEF Handle
    <3> DEFINE v == version[asked[r].target] +
                      IF asked[r].method = "PUT" /\ NonError(s) THEN 1 ELSE 0
    <3>2. v \in Nat
      BY <2>1
    <3> HIDE DEF v
    <3> QED
      BY <3>1, <3>2 DEF v
  <2> QED
    BY <1>3, <2>1, <2>2 DEF Handle, PC, Answered, HitsLast, Hits, SameVariant
<1>4. CASE InvalidateGet(r)
  <2>1. [method |-> "GET", target |-> asked[r].target] \in Key
    BY <1>4, RequestAssumption DEF InvalidateGet, RequestRecord, Key, Method
  <2> QED
    BY <1>4, <2>1 DEF InvalidateGet, Invalidate, PC, Answered, HitsLast, Hits,
                      SameVariant
<1>5. CASE InvalidateHead(r)
  <2>1. [method |-> "HEAD", target |-> asked[r].target] \in Key
    BY <1>5, RequestAssumption DEF InvalidateHead, RequestRecord, Key, Method
  <2> QED
    BY <1>5, <2>1 DEF InvalidateHead, Invalidate, PC, Answered, HitsLast, Hits,
                      SameVariant
<1>6. CASE Buffer(r)
  BY <1>6 DEF Buffer, PC, Answered, HitsLast, Hits, SameVariant
<1>7. CASE Cancel(r)
  BY <1>7 DEF Cancel, PC, Answered, HitsLast, Hits, SameVariant
<1> QED
  BY <1>1, <1>2, <1>3, <1>4, <1>5, <1>6, <1>7, PutTypes, ChooseTypes DEF Step

(* A redeploy and the clock keep them too.                                 *)
LEMMA OthersType ==
    ASSUME TypesInv, Redeploy \/ ClockMoves \/ UNCHANGED vars
    PROVE  TypesInv'
<1>1. secured' \in BOOLEAN
  BY Zenon DEF Redeploy, ClockMoves, vars, TypesInv, TypeOK
<1>2. now' \in 0..MaxTime
  BY DEF Redeploy, ClockMoves, vars, TypesInv, TypeOK
<1>3. UNCHANGED <<pc, asked, guarded, found, answer, store, version, hit, dropped, before>>
  BY DEF Redeploy, ClockMoves, vars
<1> QED
  BY <1>1, <1>2, <1>3 DEF TypesInv, TypeOK, Answered, HitsLast, Hits, SameVariant

(* The initial state is typed.                                             *)
LEMMA InitTypes == Init => TypesInv
  BY RequestAssumption, BoundAssumption
     DEF Init, TypesInv, TypeOK, PC, Answered, HitsLast, Hits

(* Types, and one stored response for each variant of a key.               *)
THEOREM CacheTypesInv == Spec => []TypesInv
<1>1. IInv /\ TypesInv /\ [Next]_vars => TypesInv'
  BY StepTypes, OthersType DEF Next
<1> QED
  BY <1>1, InitTypes, IInvHolds, PTL DEF Spec

(* Every variable of the cache keeps its type, and the store holds at most *)
(* one response for each variant of a key.                                 *)
THEOREM CacheTypeCorrect == Spec => []TypeOK
<1>1. TypesInv => TypeOK
  BY DEF TypesInv
<1> QED
  BY <1>1, CacheTypesInv, PTL

(* A response whose stated lifetime is zero, unreadable or repeated is     *)
(* never reused, with or without a default, wherever the clock is set.     *)
THEOREM NeverFreshIsNeverReused == Spec => []NeverFreshNeverReused
<1>1. TypesInv => NeverFreshNeverReused
  <2> SUFFICES ASSUME TypesInv, NEW r \in Hits
               PROVE  hit[r].said \in Answers /\ Lasting(hit[r].said)
    BY LastingIsStatedPositive DEF NeverFreshNeverReused
  <2> QED
    BY DEF TypesInv, TypeOK, HitsLast, Hits, StoredResponse
<1> QED
  BY <1>1, CacheTypesInv, PTL
=============================================================================
