--------------------------- MODULE RequestsProofs ---------------------------
(****************************************************************************)
(* What requests get through, on the platform and on the device.            *)
(*                                                                          *)
(* First AnswerRequests, for any requests, leases, limits and times.  A     *)
(* lease that is there belongs to the user it was granted to and to one     *)
(* handler at most (HeldOnce, OwnedByHolder), so the calls to the model are *)
(* counted by the leases, and the leases by the script (LeasesAreLimited).  *)
(* The lazily refilled bucket has at every moment what a bucket refilled at *)
(* each tick holds: it is forgotten only when both are full.                *)
(*                                                                          *)
(* Then LocalGate, for paths of any names and any length.  No path matches  *)
(* two routes (OneRoute), so the operation that the gate compares with the  *)
(* session is that of the handler that runs, and the one the page names for *)
(* the same path (PageAsksForItsRoute).  Last LocalAnswers, for any request *)
(* and any health of the two providers.                                     *)
(****************************************************************************)
EXTENDS AnswerRequests, LocalGate, LocalAnswers, FiniteSetTheorems, SequenceTheorems,
        TLAPS

(* No two handlers know of the same lease.                                  *)
HeldOnce ==
  \A r, q \in Requests : held[r] # None /\ held[r] = held[q] => r = q

(* A lease that has not run out is counted for its holder's user.           *)
OwnedByHolder ==
  \A r \in Requests :
    held[r] # None => left[held[r]] = 0 \/ owner[held[r]] = UserOf[r]

(* acquire_generation counts the leases before it adds one.                 *)
LeasesAreLimited ==
  /\ Cardinality(Live) <= GlobalLimit
  /\ \A u \in Users : Cardinality(LiveOf(u)) <= UserLimit

IInv ==
  /\ TypeOK
  /\ HeldOnce
  /\ OwnedByHolder
  /\ LeasesAreLimited
  /\ RateIsExact

------------------------------------------------------------------------------
(* The constants are natural numbers, and a full bucket has a token.         *)
LEMMA Numbers ==
  /\ Full \in Nat /\ Full >= 1 /\ Cost \in Nat /\ Cost >= 1 /\ Cost <= Full
  /\ Ttl \in Nat /\ Ttl >= 1 /\ UserLimit \in Nat /\ GlobalLimit \in Nat
  /\ None \notin Leases /\ IsFiniteSet(Leases) /\ IsFiniteSet(Requests)
<1>1. /\ Cost \in Nat /\ Cost >= 1 /\ Burst \in Nat /\ Burst >= 1
      /\ Ttl \in Nat /\ Ttl >= 1 /\ UserLimit \in Nat /\ GlobalLimit \in Nat
      /\ None \notin Leases /\ IsFiniteSet(Leases) /\ IsFiniteSet(Requests)
  BY AnswerAssumption DEF None
<1>2. ASSUME NEW a \in Nat, NEW c \in Nat, a >= 1, c >= 1
      PROVE  a * c \in Nat /\ c <= a * c
  <2>1. (a - 1) * c >= 0 /\ a * c = (a - 1) * c + c
    BY <1>2
  <2> QED BY <1>2, <2>1
<1> QED BY <1>1, <1>2 DEF Full

(* There is a user, and requests are of users.                              *)
LEMMA UsersExist == Users # {} /\ \A r \in Requests : UserOf[r] \in Users
  BY AnswerAssumption DEF Users

(* The fields of a bucket.                                                  *)
Buckets == [tokens : 0..Full, since : 0..(2 * Full - 1)]

(* A bucket is charged when a token is there, and then keeps its type.      *)
LEMMA Charged ==
  ASSUME NEW b \in Buckets, Level(b) >= Cost
  PROVE  Charge(b) \in Buckets /\ Level(Charge(b)) = Level(b) - Cost
  BY Numbers DEF Buckets, Level, Less, Charge

(* A tick adds a part of a token to what a bucket holds, also when the      *)
(* bucket is forgotten.                                                     *)
LEMMA AgedLevel ==
  ASSUME NEW b \in Buckets
  PROVE  Aged(b) \in Buckets /\ Level(Aged(b)) = Less(Full, Level(b) + 1)
<1>1. CASE b = NoBucket
  BY <1>1, Numbers DEF Aged, NoBucket, Buckets, Level, Less
<1>2. CASE b # NoBucket /\ b.since + 1 = 2 * Full
  BY <1>2, Numbers DEF Aged, NoBucket, Buckets, Level, Less
<1>3. CASE b # NoBucket /\ b.since + 1 # 2 * Full
  <2>1. Aged(b) = [b EXCEPT !.since = @ + 1]
    BY <1>3 DEF Aged
  <2> QED BY <1>3, <2>1, Numbers DEF Buckets, Level, Less
<1> QED BY <1>1, <1>2, <1>3

-----------------------------------------------------------------------------
(* Every variable has its type; a handler knows of a lease unless it is     *)
(* idle, and calls the model only while it generates or closes.             *)
LEMMA TypingStep == TypeOK /\ [Next]_vars => TypeOK'
<1> SUFFICES ASSUME TypeOK, [Next]_vars PROVE TypeOK'
  OBVIOUS
<1> USE Numbers, UsersExist
<1> USE DEF TypeOK, Goto
<1>1. ASSUME NEW r \in Requests, Admit(r) PROVE TypeOK'
  <2>1. PICK l \in Leases : Grant(r, l) /\ held' = [held EXCEPT ![r] = l]
    BY <1>1 DEF Admit
  <2>2. /\ left' \in [Leases -> 0..Ttl] /\ owner' \in [Leases -> Users]
        /\ ideal' \in [Users -> Int]
    BY <2>1 DEF Grant
  <2>3. bucket' \in [Users -> [tokens : 0..Full, since : 0..(2 * Full - 1)]]
    BY <2>1, Charged DEF Grant, Admissible, Buckets
  <2> QED BY <1>1, <2>1, <2>2, <2>3 DEF Admit
<1>2. ASSUME NEW r \in Requests, AdmitUnheard(r) PROVE TypeOK'
  <2>1. PICK l \in Leases : Grant(r, l)
    BY <1>2 DEF AdmitUnheard
  <2>2. /\ left' \in [Leases -> 0..Ttl] /\ owner' \in [Leases -> Users]
        /\ ideal' \in [Users -> Int]
    BY <2>1 DEF Grant
  <2>3. bucket' \in [Users -> [tokens : 0..Full, since : 0..(2 * Full - 1)]]
    BY <2>1, Charged DEF Grant, Admissible, Buckets
  <2> QED BY <1>2, <2>1, <2>2, <2>3 DEF AdmitUnheard
<1>3. ASSUME NEW r \in Requests, Prepare(r) PROVE TypeOK'
  BY <1>3 DEF Prepare
<1>4. ASSUME NEW r \in Requests, PrepareFails(r) PROVE TypeOK'
  BY <1>4 DEF PrepareFails
<1>5. ASSUME NEW r \in Requests, BodyStarts(r) PROVE TypeOK'
  BY <1>5 DEF BodyStarts
<1>6. ASSUME NEW r \in Requests, BodyGoesOn(r) PROVE TypeOK'
  BY <1>6 DEF BodyGoesOn
<1>7. ASSUME NEW r \in Requests, EndGeneration(r) PROVE TypeOK'
  BY <1>7 DEF EndGeneration
<1>8. ASSUME NEW r \in Requests, Close(r) PROVE TypeOK'
  BY <1>8 DEF Close
<1>9. ASSUME NEW r \in Requests, Release(r) PROVE TypeOK'
  BY <1>9 DEF Release
<1>10. ASSUME NEW r \in Requests, ReleaseFails(r) PROVE TypeOK'
  BY <1>10 DEF ReleaseFails, LeftBehind, Live
<1>11. ASSUME NEW r \in Requests, BodyNeverGoesOn(r) PROVE TypeOK'
  BY <1>11 DEF BodyNeverGoesOn, LeftBehind, Live
<1>12. ASSUME NEW r \in Requests, StreamEndsBadly(r) PROVE TypeOK'
  BY <1>12 DEF StreamEndsBadly, LeftBehind, Live
<1>13. CASE Crash
  BY <1>13 DEF Crash, LeftBehind, Live
<1>14. CASE Tick
  <2>1. left' \in [Leases -> 0..Ttl]
    <3>1. ASSUME NEW l \in Leases PROVE left[l] \in 0..Ttl
      OBVIOUS
    <3>2. ASSUME NEW l \in Leases PROVE Passing(l) \in 0..Ttl
      <4>1. CASE left[l] = 0
        BY <4>1 DEF Passing
      <4>2. CASE left[l] # 0
        <5>1. Passing(l) = left[l] - 1
          BY <4>2 DEF Passing
        <5> HIDE DEF TypeOK
        <5> QED BY <3>1, <4>2, <5>1
      <4> QED BY <4>1, <4>2
    <3> QED BY <1>14, <3>2 DEF Tick
  <2>2. bucket' \in [Users -> [tokens : 0..Full, since : 0..(2 * Full - 1)]]
    BY <1>14, AgedLevel DEF Tick, Buckets
  <2>3. ideal' \in [Users -> Int]
    BY <1>14 DEF Tick, Less
  <2> QED BY <1>14, <2>1, <2>2, <2>3 DEF Tick
<1>15. CASE UNCHANGED vars
  BY <1>15 DEF vars
<1> QED
  BY <1>1, <1>2, <1>3, <1>4, <1>5, <1>6, <1>7, <1>8, <1>9, <1>10, <1>11, <1>12,
     <1>13, <1>14, <1>15
  DEF Next

(* The lazily refilled bucket stays exact.                                  *)
LEMMA RateStep == TypeOK /\ RateIsExact /\ [Next]_vars => RateIsExact'
<1> SUFFICES ASSUME TypeOK, RateIsExact, [Next]_vars PROVE RateIsExact'
  OBVIOUS
<1>a. \A u \in Users : bucket[u] \in Buckets
  BY DEF TypeOK, Buckets
<1>b. bucket = [u \in Users |-> bucket[u]] /\ ideal = [u \in Users |-> ideal[u]]
  BY DEF TypeOK
<1>c. ASSUME UNCHANGED <<bucket, ideal>> PROVE RateIsExact'
  BY <1>c DEF RateIsExact
<1>d. ASSUME NEW r \in Requests, NEW l \in Leases, Grant(r, l) PROVE RateIsExact'
  <2> DEFINE u == UserOf[r]
  <2>1. /\ u \in Users /\ Level(bucket[u]) >= Cost
        /\ bucket' = [bucket EXCEPT ![u] = Charge(bucket[u])]
        /\ ideal' = [ideal EXCEPT ![u] = ideal[u] - Cost]
    BY <1>d, UsersExist DEF Grant, Admissible
  <2>2. Level(Charge(bucket[u])) = Level(bucket[u]) - Cost
    BY <1>a, <2>1, Charged
  <2> QED BY <1>b, <2>1, <2>2, Numbers DEF RateIsExact, TypeOK
<1>1. ASSUME NEW r \in Requests, Admit(r) PROVE RateIsExact'
  BY <1>1, <1>d DEF Admit
<1>2. ASSUME NEW r \in Requests, AdmitUnheard(r) PROVE RateIsExact'
  BY <1>2, <1>d DEF AdmitUnheard
<1>3. ASSUME NEW r \in Requests, Prepare(r) PROVE RateIsExact'
  BY <1>3, <1>c DEF Prepare
<1>4. ASSUME NEW r \in Requests, PrepareFails(r) PROVE RateIsExact'
  BY <1>4, <1>c DEF PrepareFails
<1>5. ASSUME NEW r \in Requests, BodyStarts(r) PROVE RateIsExact'
  BY <1>5, <1>c DEF BodyStarts
<1>6. ASSUME NEW r \in Requests, BodyGoesOn(r) PROVE RateIsExact'
  BY <1>6, <1>c DEF BodyGoesOn
<1>7. ASSUME NEW r \in Requests, EndGeneration(r) PROVE RateIsExact'
  BY <1>7, <1>c DEF EndGeneration
<1>8. ASSUME NEW r \in Requests, Close(r) PROVE RateIsExact'
  BY <1>8, <1>c DEF Close
<1>9. ASSUME NEW r \in Requests, Release(r) PROVE RateIsExact'
  BY <1>9, <1>c DEF Release
<1>10. ASSUME NEW r \in Requests, ReleaseFails(r) PROVE RateIsExact'
  BY <1>10, <1>c DEF ReleaseFails, LeftBehind
<1>11. ASSUME NEW r \in Requests, BodyNeverGoesOn(r) PROVE RateIsExact'
  BY <1>11, <1>c DEF BodyNeverGoesOn, LeftBehind
<1>12. ASSUME NEW r \in Requests, StreamEndsBadly(r) PROVE RateIsExact'
  BY <1>12, <1>c DEF StreamEndsBadly, LeftBehind
<1>13. CASE Crash
  BY <1>13, <1>c DEF Crash, LeftBehind
<1>14. CASE Tick
  <2>1. ASSUME NEW u \in Users
        PROVE  Level(bucket'[u]) = ideal'[u] /\ ideal'[u] >= 0
    <3>1. bucket'[u] = Aged(bucket[u]) /\ ideal'[u] = Less(Full, ideal[u] + 1)
      BY <1>14 DEF Tick
    <3> QED BY <1>a, <3>1, AgedLevel, Numbers DEF RateIsExact, Less, TypeOK
  <2> QED BY <2>1 DEF RateIsExact
<1>15. CASE UNCHANGED vars
  BY <1>15, <1>c DEF vars
<1> QED
  BY <1>1, <1>2, <1>3, <1>4, <1>5, <1>6, <1>7, <1>8, <1>9, <1>10, <1>11, <1>12,
     <1>13, <1>14, <1>15
  DEF Next

-----------------------------------------------------------------------------
LeaseInv == HeldOnce /\ OwnedByHolder /\ LeasesAreLimited

(* The leases that are there are finitely many.                             *)
LEMMA LiveIsFinite ==
  /\ IsFiniteSet(Live) /\ Cardinality(Live) \in Nat
  /\ \A u \in Users : /\ IsFiniteSet(LiveOf(u)) /\ Cardinality(LiveOf(u)) \in Nat
<1>1. Live \in SUBSET Leases /\ \A u \in Users : LiveOf(u) \in SUBSET Leases
  BY DEF Live, LiveOf
<1> QED BY <1>1, Numbers, FS_Subset, FS_CardinalityType

(* Fewer leases keep the limits.                                            *)
LEMMA FewerLeases ==
  LeasesAreLimited /\ Live' \subseteq Live /\ UNCHANGED owner => LeasesAreLimited'
<1> SUFFICES ASSUME LeasesAreLimited, Live' \subseteq Live, UNCHANGED owner
             PROVE  LeasesAreLimited'
  OBVIOUS
<1>1. Cardinality(Live') <= Cardinality(Live) /\ Cardinality(Live') \in Nat
  BY LiveIsFinite, FS_Subset, FS_CardinalityType
<1>2. ASSUME NEW u \in Users
      PROVE  /\ Cardinality(LiveOf(u)') <= Cardinality(LiveOf(u))
             /\ Cardinality(LiveOf(u)') \in Nat
  <2>1. LiveOf(u)' \in SUBSET LiveOf(u)
    BY DEF LiveOf
  <2> QED BY <2>1, LiveIsFinite, FS_Subset, FS_CardinalityType
<1> QED BY <1>1, <1>2, LiveIsFinite, Numbers DEF LeasesAreLimited

(* A grant adds one lease below the limits.                                 *)
LEMMA GrantedLeases ==
  ASSUME NEW r \in Requests, NEW l \in Leases, TypeOK, LeasesAreLimited
  PROVE  Grant(r, l) => LeasesAreLimited' /\ Live' = Live \cup {l}
<1> SUFFICES ASSUME Grant(r, l) PROVE LeasesAreLimited' /\ Live' = Live \cup {l}
  OBVIOUS
<1> DEFINE v == UserOf[r]
<1>1. /\ v \in Users /\ l \notin Live
      /\ Cardinality(LiveOf(v)) < UserLimit /\ Cardinality(Live) < GlobalLimit
      /\ left' = [left EXCEPT ![l] = Ttl] /\ owner' = [owner EXCEPT ![l] = v]
  BY UsersExist DEF Grant, Admissible
<1>2. Live' = Live \cup {l}
  BY <1>1, Numbers DEF Live, TypeOK
<1>3. LiveOf(v)' = LiveOf(v) \cup {l} /\ l \notin LiveOf(v)
  BY <1>1, <1>2 DEF LiveOf, Live, TypeOK
<1>4. \A u \in Users : u # v => LiveOf(u)' = LiveOf(u)
  BY <1>1, <1>2 DEF LiveOf, Live, TypeOK
<1>5. Cardinality(Live') = Cardinality(Live) + 1
  BY <1>1, <1>2, LiveIsFinite, FS_AddElement
<1>6. Cardinality(LiveOf(v)') = Cardinality(LiveOf(v)) + 1
  BY <1>1, <1>3, LiveIsFinite, FS_AddElement
<1> QED
  BY <1>1, <1>2, <1>4, <1>5, <1>6, LiveIsFinite, Numbers DEF LeasesAreLimited

(* Leases are granted within the limits, to one handler each.               *)
LEMMA LeaseStep == TypeOK /\ LeaseInv /\ [Next]_vars => LeaseInv'
<1> SUFFICES ASSUME TypeOK, LeaseInv, [Next]_vars PROVE LeaseInv'
  OBVIOUS
<1>c. ASSUME UNCHANGED <<held, left, owner>> PROVE LeaseInv'
  BY <1>c DEF LeaseInv, HeldOnce, OwnedByHolder, LeasesAreLimited, Live, LiveOf
<1>d. ASSUME NEW R \in SUBSET Requests, LeftBehind(R) PROVE LeaseInv'
  <2>1. /\ \A r \in Requests : held'[r] = IF r \in R THEN None ELSE held[r]
        /\ UNCHANGED <<left, owner>> /\ Live' = Live
    BY <1>d DEF LeftBehind, Live
  <2>2. HeldOnce' /\ OwnedByHolder'
    BY <2>1 DEF LeaseInv, HeldOnce, OwnedByHolder
  <2>3. LeasesAreLimited'
    BY <2>1, FewerLeases DEF LeaseInv
  <2> QED BY <2>2, <2>3 DEF LeaseInv
<1> USE Numbers
<1>1. ASSUME NEW r \in Requests, Admit(r) PROVE LeaseInv'
  <2>1. PICK l \in Leases : Grant(r, l) /\ held' = [held EXCEPT ![r] = l]
    BY <1>1 DEF Admit
  <2>2. LeasesAreLimited' /\ Live' = Live \cup {l}
    BY <2>1, GrantedLeases DEF LeaseInv
  <2>3. /\ \A q \in Requests : held[q] # l
        /\ held'[r] = l /\ \A q \in Requests : q # r => held'[q] = held[q]
        /\ owner' = [owner EXCEPT ![l] = UserOf[r]] /\ left' = [left EXCEPT ![l] = Ttl]
        /\ held[r] = None
    BY <1>1, <2>1 DEF Admit, Grant, TypeOK
  <2>4. HeldOnce'
    BY <2>3 DEF LeaseInv, HeldOnce
  <2>5. OwnedByHolder'
    BY <2>3 DEF LeaseInv, OwnedByHolder, TypeOK
  <2> QED BY <2>2, <2>4, <2>5 DEF LeaseInv
<1>2. ASSUME NEW r \in Requests, AdmitUnheard(r) PROVE LeaseInv'
  <2>1. PICK l \in Leases : Grant(r, l)
    BY <1>2 DEF AdmitUnheard
  <2>2. LeasesAreLimited' /\ Live' = Live \cup {l}
    BY <2>1, GrantedLeases DEF LeaseInv
  <2>3. /\ \A q \in Requests : held[q] # l
        /\ owner' = [owner EXCEPT ![l] = UserOf[r]] /\ left' = [left EXCEPT ![l] = Ttl]
        /\ UNCHANGED held
    BY <1>2, <2>1 DEF AdmitUnheard, Grant
  <2>4. HeldOnce' /\ OwnedByHolder'
    BY <2>3 DEF LeaseInv, HeldOnce, OwnedByHolder, TypeOK
  <2> QED BY <2>2, <2>4 DEF LeaseInv
<1>3. ASSUME NEW r \in Requests, Prepare(r) PROVE LeaseInv'
  BY <1>3, <1>c DEF Prepare
<1>4. ASSUME NEW r \in Requests, PrepareFails(r) PROVE LeaseInv'
  BY <1>4, <1>c DEF PrepareFails
<1>5. ASSUME NEW r \in Requests, BodyStarts(r) PROVE LeaseInv'
  BY <1>5, <1>c DEF BodyStarts
<1>6. ASSUME NEW r \in Requests, BodyGoesOn(r) PROVE LeaseInv'
  BY <1>6, <1>c DEF BodyGoesOn
<1>7. ASSUME NEW r \in Requests, EndGeneration(r) PROVE LeaseInv'
  BY <1>7, <1>c DEF EndGeneration
<1>8. ASSUME NEW r \in Requests, Close(r) PROVE LeaseInv'
  BY <1>8, <1>c DEF Close
<1>9. ASSUME NEW r \in Requests, Release(r) PROVE LeaseInv'
  <2>1. /\ held[r] \in Leases
        /\ held'[r] = None /\ \A q \in Requests : q # r => held'[q] = held[q]
        /\ left'[held[r]] = 0 /\ \A l \in Leases : l # held[r] => left'[l] = left[l]
        /\ UNCHANGED owner
    BY <1>9 DEF Release, Goto, TypeOK
  <2>2. Live' = Live \ {held[r]}
    BY <2>1 DEF Live
  <2>3. LeasesAreLimited'
    BY <2>1, <2>2, FewerLeases DEF LeaseInv
  <2>4. HeldOnce' /\ OwnedByHolder'
    BY <2>1 DEF LeaseInv, HeldOnce, OwnedByHolder, TypeOK
  <2> QED BY <2>3, <2>4 DEF LeaseInv
<1>10. ASSUME NEW r \in Requests, ReleaseFails(r) PROVE LeaseInv'
  BY <1>10, <1>d DEF ReleaseFails
<1>11. ASSUME NEW r \in Requests, BodyNeverGoesOn(r) PROVE LeaseInv'
  BY <1>11, <1>d DEF BodyNeverGoesOn
<1>12. ASSUME NEW r \in Requests, StreamEndsBadly(r) PROVE LeaseInv'
  BY <1>12, <1>d DEF StreamEndsBadly
<1>13. CASE Crash
  BY <1>13, <1>d DEF Crash
<1>14. CASE Tick
  <2>1. /\ \A l \in Leases : left'[l] = Passing(l) /\ (Passing(l) > 0 => left[l] > 0)
        /\ \A l \in Leases : left[l] = 0 => Passing(l) = 0
        /\ UNCHANGED <<held, owner>>
    BY <1>14 DEF Tick, Passing, TypeOK
  <2>2. Live' \subseteq Live
    BY <2>1 DEF Live
  <2>3. LeasesAreLimited'
    BY <2>1, <2>2, FewerLeases DEF LeaseInv
  <2>4. HeldOnce' /\ OwnedByHolder'
    BY <2>1 DEF LeaseInv, HeldOnce, OwnedByHolder, TypeOK
  <2> QED BY <2>3, <2>4 DEF LeaseInv
<1>15. CASE UNCHANGED vars
  BY <1>15, <1>c DEF vars
<1> QED
  BY <1>1, <1>2, <1>3, <1>4, <1>5, <1>6, <1>7, <1>8, <1>9, <1>10, <1>11, <1>12,
     <1>13, <1>14, <1>15
  DEF Next

-----------------------------------------------------------------------------
(* At the start nothing is granted and every bucket is full.                *)
LEMMA InitHolds == Init => IInv
<1> SUFFICES ASSUME Init PROVE IInv
  OBVIOUS
<1> USE Numbers, UsersExist
<1>1. NoBucket \in Buckets /\ Level(NoBucket) = Full
  BY DEF NoBucket, Buckets, Level, Less
<1>2. owner \in [Leases -> Users]
  <2>1. (CHOOSE u \in Users : TRUE) \in Users
    OBVIOUS
  <2> QED BY <2>1 DEF Init
<1>3. TypeOK
  BY <1>1, <1>2 DEF Init, TypeOK, Buckets
<1>4. Live = {} /\ \A u \in Users : LiveOf(u) = {}
  BY DEF Init, Live, LiveOf
<1>5. LeasesAreLimited
  BY <1>4, FS_EmptySet DEF LeasesAreLimited
<1>6. HeldOnce /\ OwnedByHolder /\ RateIsExact
  BY <1>1 DEF Init, HeldOnce, OwnedByHolder, RateIsExact
<1> QED BY <1>3, <1>5, <1>6 DEF IInv

(* The invariant holds in every reachable state.                            *)
THEOREM InvariantHolds == Spec => []IInv
<1>1. IInv /\ [Next]_vars => IInv'
  BY TypingStep, RateStep, LeaseStep DEF IInv, LeaseInv
<1> QED
  BY InitHolds, <1>1, PTL DEF Spec

(* Every variable has its type, in particular no bucket goes below zero.    *)
THEOREM TypesHold == Spec => []TypeOK
<1>1. IInv => TypeOK
  BY DEF IInv
<1> QED
  BY InvariantHolds, <1>1, PTL

(* A lease that has time left ends only when its holder releases it, with   *)
(* its call to the model over.                                              *)
THEOREM LeasesEndWithHolders == Spec => LeaseIsItsHolders
<1>1. IInv /\ [Next]_vars =>
      [\A l \in Leases :
         left[l] > 1 /\ left'[l] = 0
         => \E r \in Requests : /\ held[r] = l /\ held'[r] = None
                                /\ pc[r] = "release" /\ r \notin open]_vars
  <2> SUFFICES ASSUME TypeOK, [Next]_vars, NEW l \in Leases, left[l] > 1, left'[l] = 0
               PROVE  \E r \in Requests : /\ held[r] = l /\ held'[r] = None
                                          /\ pc[r] = "release" /\ r \notin open
    BY DEF IInv
  <2>1. \A r \in Requests, k \in Leases : ~Grant(r, k)
    BY Numbers DEF Grant, TypeOK
  <2>2. left'[l] # left[l] /\ ~UNCHANGED left
    OBVIOUS
  <2>3. ~Tick
    BY DEF Tick, Passing, TypeOK
  <2>4. PICK r \in Requests : Release(r)
    BY <2>1, <2>2, <2>3
    DEF Next, vars, Admit, AdmitUnheard, Prepare, PrepareFails, BodyStarts, BodyGoesOn,
        EndGeneration, Close, ReleaseFails, BodyNeverGoesOn, StreamEndsBadly, Crash,
        LeftBehind
  <2>5. held[r] = l
    BY <2>2, <2>4 DEF Release, Goto, TypeOK
  <2> QED BY <2>4, <2>5 DEF Release, Goto, TypeOK
<1> QED
  BY InvariantHolds, <1>1, PTL DEF Spec, LeaseIsItsHolders

(* A set of handlers with leases that are there is no larger than the set   *)
(* of these leases: a handler's lease is its own.                           *)
LEMMA CallsAreCounted ==
  ASSUME NEW R \in SUBSET Requests, NEW L \in SUBSET Leases, HeldOnce,
         \A r \in R : held[r] \in L, None \notin Leases
  PROVE  Cardinality(R) <= Cardinality(L)
<1>1. IsFiniteSet(L)
  BY Numbers, FS_Subset
<1> DEFINE f == [r \in R |-> held[r]]
<1>2. f \in Injection(R, L)
  BY DEF Injection, IsInjective, HeldOnce
<1> QED BY <1>1, <1>2, FS_Injection

(* Requests per time and generations at a time stay within their limits:    *)
(* the rate is that of the ideal bucket, and the calls to the model are no  *)
(* more than the leases that the script admits.                             *)
THEOREM AdmissionLimits == Spec => []LimitsHold
<1>1. IInv => ModelIsShared
  <2> SUFFICES ASSUME IInv PROVE ModelIsShared
    OBVIOUS
  <2> USE DEF IInv
  <2> DEFINE Late(r) == held[r] # None /\ left[held[r]] = 0
             Calls(u) == {r \in open : UserOf[r] = u /\ ~ Late(r)}
             All == {r \in open : ~ Late(r)}
  <2>1. ASSUME NEW r \in open
        PROVE  /\ r \in Requests /\ held[r] \in Leases /\ held[r] # None
               /\ ~Late(r) => left[held[r]] > 0 /\ owner[held[r]] = UserOf[r]
    BY Numbers DEF TypeOK, OwnedByHolder
  <2>2. Cardinality(All) <= Cardinality(Live)
    <3>1. /\ All \in SUBSET Requests /\ Live \in SUBSET Leases
          /\ \A r \in All : held[r] \in Live
      BY <2>1 DEF Live
    <3> QED BY <3>1, CallsAreCounted, Numbers
  <2>3. ASSUME NEW u \in Users PROVE Cardinality(Calls(u)) <= Cardinality(LiveOf(u))
    <3>1. /\ Calls(u) \in SUBSET Requests /\ LiveOf(u) \in SUBSET Leases
          /\ \A r \in Calls(u) : held[r] \in LiveOf(u)
      BY <2>1 DEF Live, LiveOf
    <3> QED BY <3>1, CallsAreCounted, Numbers
  <2>4. Cardinality(All) <= GlobalLimit
    <3>1. Cardinality(All) \in Nat
      <4>1. All \in SUBSET Requests
        BY <2>1
      <4> QED BY <4>1, Numbers, FS_Subset, FS_CardinalityType
    <3> QED BY <2>2, <3>1, LiveIsFinite, Numbers DEF LeasesAreLimited
  <2>5. ASSUME NEW u \in Users PROVE Cardinality(Calls(u)) <= UserLimit
    <3>1. Cardinality(Calls(u)) \in Nat
      <4>1. Calls(u) \in SUBSET Requests
        BY <2>1
      <4> QED BY <4>1, Numbers, FS_Subset, FS_CardinalityType
    <3> QED BY <2>3, <3>1, LiveIsFinite, Numbers DEF LeasesAreLimited
  <2> QED BY <2>1, <2>4, <2>5 DEF ModelIsShared
<1>2. IInv => LimitsHold
  BY <1>1 DEF IInv, LimitsHold
<1> QED
  BY InvariantHolds, <1>2, PTL

------------------------------------------------------------------------------
(* The gate in front of the device.                                        *)

\* Requests with any methods, names and length of the path.
Asked(methods, names) ==
  [method : methods, path : Seq([name : names, cancel : BOOLEAN]), slash : BOOLEAN,
   origin : {"page", "foreign", "none"},
   preflight : [asked : methods \cup {"none"}, private : BOOLEAN],
   session : [given : BOOLEAN, version : BOOLEAN, valid : BOOLEAN, bound : BOOLEAN,
              allows : SUBSET Operations],
   grant : BOOLEAN, size : 1..4, crash : BOOLEAN]

\* The sequence with one element more, written out.
LEMMA Append3 ==
  ASSUME NEW x, NEW y, NEW z
  PROVE  Append(<<x, y>>, z) = <<x, y, z>>
<1> DEFINE s == Append(<<x, y>>, z)
           t == <<x, y, z>>
<1>1. s \in Seq({x, y, z}) /\ t \in Seq({x, y, z}) /\ Len(s) = 3 /\ Len(t) = 3
  OBVIOUS
<1>2. s[1] = x /\ s[2] = y /\ s[3] = z
  OBVIOUS
<1>3. \A i \in 1..3 : s[i] = t[i]
  BY <1>2
<1> HIDE DEF s, t
<1>4. Len(s) = Len(t) /\ \A i \in 1..Len(s) : s[i] = t[i]
  BY <1>1, <1>3
<1>5. s = t
  BY <1>1, <1>4, SeqEqual
<1> QED
  BY <1>5 DEF s, t

\* The same for a sequence of three.
LEMMA Append4 ==
  ASSUME NEW w, NEW x, NEW y, NEW z
  PROVE  Append(<<w, x, y>>, z) = <<w, x, y, z>>
<1> DEFINE s == Append(<<w, x, y>>, z)
           t == <<w, x, y, z>>
<1>1. s \in Seq({w, x, y, z}) /\ t \in Seq({w, x, y, z}) /\ Len(s) = 4 /\ Len(t) = 4
  OBVIOUS
<1>2. s[1] = w /\ s[2] = x /\ s[3] = y /\ s[4] = z
  OBVIOUS
<1>3. \A i \in 1..4 : s[i] = t[i]
  BY <1>2
<1> HIDE DEF s, t
<1>4. Len(s) = Len(t) /\ \A i \in 1..Len(s) : s[i] = t[i]
  BY <1>1, <1>3
<1>5. s = t
  BY <1>1, <1>4, SeqEqual
<1> QED
  BY <1>5 DEF s, t

\* The prefix of every route before two parts, written out.
LEMMA Join ==
  ASSUME NEW x, NEW y, NEW z
  PROVE  <<x>> \o <<y, z>> = <<x, y, z>>
<1> DEFINE s == <<x>> \o <<y, z>>
           t == <<x, y, z>>
<1>1. s \in Seq({x, y, z}) /\ t \in Seq({x, y, z}) /\ Len(s) = 3 /\ Len(t) = 3
  OBVIOUS
<1>2. s[1] = x /\ s[2] = y /\ s[3] = z
  OBVIOUS
<1>3. \A i \in 1..3 : s[i] = t[i]
  BY <1>2
<1> HIDE DEF s, t
<1>4. Len(s) = Len(t) /\ \A i \in 1..Len(s) : s[i] = t[i]
  BY <1>1, <1>3
<1>5. s = t
  BY <1>1, <1>4, SeqEqual
<1> QED
  BY <1>5 DEF s, t

\* The same before one part.
LEMMA Join2 ==
  ASSUME NEW x, NEW y
  PROVE  <<x>> \o <<y>> = <<x, y>>
<1> DEFINE s == <<x>> \o <<y>>
           t == <<x, y>>
<1>1. s \in Seq({x, y}) /\ t \in Seq({x, y}) /\ Len(s) = 2 /\ Len(t) = 2
  OBVIOUS
<1>2. s[1] = x /\ s[2] = y
  OBVIOUS
<1>3. \A i \in 1..2 : s[i] = t[i]
  BY <1>2
<1> HIDE DEF s, t
<1>4. Len(s) = Len(t) /\ \A i \in 1..Len(s) : s[i] = t[i]
  BY <1>1, <1>3
<1>5. s = t
  BY <1>1, <1>4, SeqEqual
<1> QED
  BY <1>5 DEF s, t

\* The routes that ask for a session, written out.
LEMMA GuardedRoutes ==
  Guarded =
    {Endpoint("GET", <<Plain("v1"), Plain("runtime")>>),
     Endpoint("GET", <<Plain("v1"), Plain("capabilities")>>),
     Endpoint("POST", <<Plain("v1"), Plain("probe"), Plain("binary")>>),
     Endpoint("PUT", <<Plain("v1"), Plain("documents"), Param, Plain("source")>>),
     Endpoint("DELETE", <<Plain("v1"), Plain("documents"), Param>>),
     Endpoint("POST", <<Plain("v1"), Plain("documents"), Param, Plain("prepare")>>),
     Endpoint("GET", <<Plain("v1"), Plain("documents")>>),
     Endpoint("GET", <<Plain("v1"), Plain("documents"), Param>>),
     Endpoint("GET", <<Plain("v1"), Plain("jobs"), Param>>),
     Endpoint("POST", <<Plain("v1"), Plain("jobs"), CancelParam>>),
     Endpoint("POST", <<Plain("v1"), Plain("documents"), Param, Plain("index")>>),
     Endpoint("POST", <<Plain("v1"), Plain("queries")>>),
     Endpoint("POST", <<Plain("v1"), Plain("answers")>>),
     Endpoint("POST", <<Plain("v1"), Plain("transport-probe")>>)}
<1>1. \A x : V1(<<x>>) = <<Plain("v1"), x>>
  BY Join2 DEF V1
<1>2. \A x, y : V1(<<x, y>>) = <<Plain("v1"), x, y>>
  <2> SUFFICES ASSUME NEW x, NEW y
               PROVE  V1(<<x, y>>) = <<Plain("v1"), x, y>>
    OBVIOUS
  <2>1. <<Plain("v1")>> \o <<x, y>> = <<Plain("v1"), x, y>>
    BY Join
  <2> QED
    BY <2>1 DEF V1
<1>3. Documents1 = <<Plain("v1"), Plain("documents")>>
  BY <1>1 DEF Documents1
<1>4. Document1 = <<Plain("v1"), Plain("documents"), Param>>
  BY <1>3, Append3 DEF Document1
<1>5. \A x : Append(Document1, x) = <<Plain("v1"), Plain("documents"), Param, x>>
  BY <1>4, Append4
<1>6. Source =
        Endpoint("PUT", <<Plain("v1"), Plain("documents"), Param, Plain("source")>>)
  BY <1>5 DEF Source
<1>7. Probe = Endpoint("POST", <<Plain("v1"), Plain("transport-probe")>>)
  BY <1>1 DEF Probe
<1> HIDE DEF Source, Probe
<1> QED
  BY <1>1, <1>2, <1>3, <1>4, <1>5, <1>6, <1>7 DEF Guarded

\* The parts of a template: what tells the routes apart are their constants.
LEMMA GuardedParts ==
  ASSUME NEW r \in Guarded
  PROVE  /\ Len(r.template) \in 2..4 /\ r.method \in {"GET", "POST", "PUT", "DELETE"}
         /\ r.template[1] = Plain("v1")
         /\ r.template[2].name # "id" /\ r.template[2].name # "sessions"
         /\ Len(r.template) = 4 => r.template[4].name # "id"
<1>0. \A m, t : Endpoint(m, t).method = m /\ Endpoint(m, t).template = t
  BY DEF Endpoint
<1>1. r.method \in {"GET", "POST", "PUT", "DELETE"}
  BY <1>0, GuardedRoutes
<1>2. Len(r.template) \in 2..4
  BY <1>0, GuardedRoutes
<1>3. r.template[1] = Plain("v1")
  BY <1>0, GuardedRoutes
<1>4. \E x \in {"runtime", "capabilities", "probe", "documents", "jobs", "queries",
               "answers", "transport-probe"} : r.template[2] = Plain(x)
  BY <1>0, GuardedRoutes
<1>5. Len(r.template) = 4 =>
          \E x \in {"source", "prepare", "index"} : r.template[4] = Plain(x)
  BY <1>0, GuardedRoutes
<1>6. \A x : Plain(x).name = x
  BY DEF Plain
<1> QED
  BY <1>1, <1>2, <1>3, <1>4, <1>5, <1>6

\* A template is known by its length, its method and its constants.
TemplateOf(m, n, second, fourth) ==
  IF n = 2 THEN <<Plain("v1"), second>>
  ELSE IF n = 4 THEN <<Plain("v1"), second, Param, fourth>>
  ELSE IF second = Plain("probe") THEN <<Plain("v1"), second, Plain("binary")>>
  ELSE IF m = "POST" THEN <<Plain("v1"), second, CancelParam>>
  ELSE <<Plain("v1"), second, Param>>

\* A route is the template of its method, length and constants.
LEMMA GuardedForm ==
  ASSUME NEW r \in Guarded
  PROVE  r = Endpoint(r.method, TemplateOf(r.method, Len(r.template), r.template[2],
                                           r.template[4]))
<1>1. \A m, t : Endpoint(m, t).method = m /\ Endpoint(m, t).template = t
  BY DEF Endpoint
<1>2. Plain("jobs") # Plain("probe") /\ Plain("documents") # Plain("probe")
  BY DEF Plain
<1> QED
  BY <1>1, <1>2, GuardedRoutes DEF TemplateOf

\* Two routes differ in method, length or a constant.
LEMMA GuardedApart ==
  ASSUME NEW r \in Guarded, NEW s \in Guarded,
         r.method = s.method, Len(r.template) = Len(s.template),
         r.template[2] = s.template[2],
         Len(r.template) = 4 => r.template[4] = s.template[4]
  PROVE  r = s
<1>1. TemplateOf(r.method, Len(r.template), r.template[2], r.template[4])
        = TemplateOf(s.method, Len(s.template), s.template[2], s.template[4])
  BY DEF TemplateOf
<1> QED
  BY <1>1, GuardedForm

\* A path that matches has the route's length and constants.
LEMMA MatchedParts ==
  ASSUME NEW r \in Guarded, NEW S, NEW p \in Seq(S), NEW m, Matches(r, m, p)
  PROVE  /\ r.method = m /\ Len(r.template) = Len(p) /\ Len(p) \in 2..4
         /\ p[1] = r.template[1] /\ p[2] = r.template[2]
         /\ Len(p) = 4 => p[4] = r.template[4]
<1>1. r.method = m /\ Len(r.template) = Len(p) /\ Len(p) \in 2..4
  BY GuardedParts DEF Matches
<1>2. \A i \in 1..Len(p) : r.template[i].name # "id" => r.template[i] = p[i]
  <2> SUFFICES ASSUME NEW i \in 1..Len(p), r.template[i].name # "id"
               PROVE  r.template[i] = p[i]
    OBVIOUS
  <2>1. i \in DOMAIN p
    OBVIOUS
  <2>2. PartMatches(r.template[i], p[i])
    BY <2>1 DEF Matches
  <2> QED
    BY <2>2 DEF PartMatches
<1>3. r.template[1].name # "id" /\ r.template[2].name # "id"
  <2>1. r.template[1] = Plain("v1") /\ r.template[2].name # "id"
    BY GuardedParts
  <2> QED
    BY <2>1 DEF Plain
<1>4. Len(p) = 4 => r.template[4].name # "id"
  BY <1>1, GuardedParts
<1> QED
  BY <1>1, <1>2, <1>3, <1>4

\* No path is that of two routes.
LEMMA OneRoute ==
  ASSUME NEW r \in Guarded, NEW S, NEW p \in Seq(S), NEW m, Matches(r, m, p)
  PROVE  /\ \A s \in Routes : Matches(s, m, p) => s = r
         /\ OperationFor(m, p) = {OperationOf(r)}
<1>1. \A s \in Guarded : Matches(s, m, p) => s = r
  <2> SUFFICES ASSUME NEW s \in Guarded, Matches(s, m, p)
               PROVE  s = r
    OBVIOUS
  <2>1. /\ r.method = m /\ Len(r.template) = Len(p) /\ p[2] = r.template[2]
        /\ Len(p) = 4 => p[4] = r.template[4]
    BY MatchedParts
  <2>2. /\ s.method = m /\ Len(s.template) = Len(p) /\ p[2] = s.template[2]
        /\ Len(p) = 4 => p[4] = s.template[4]
    BY MatchedParts
  <2> QED
    BY <2>1, <2>2, GuardedApart
<1>2. ~Matches(HealthCheck, m, p)
  BY MatchedParts DEF Matches, HealthCheck, Endpoint
<1>3. ~Matches(Sessions, m, p)
  <2>1. Sessions.template = <<Plain("v1"), Plain("sessions")>>
    BY Join2 DEF Sessions, V1, Endpoint
  <2>2. p[2].name # "sessions" /\ Len(p) \in 2..4
    BY MatchedParts, GuardedParts
  <2>3. Matches(Sessions, m, p) => p[2] = Plain("sessions")
    <3> SUFFICES ASSUME Matches(Sessions, m, p)
                 PROVE  p[2] = Plain("sessions")
      OBVIOUS
    <3>1. 2 \in DOMAIN p
      BY <2>2
    <3>2. PartMatches(Sessions.template[2], p[2])
      BY <3>1 DEF Matches
    <3>3. Sessions.template[2] = Plain("sessions") /\ Plain("sessions").name # "id"
      BY <2>1 DEF Plain
    <3> QED
      BY <3>2, <3>3 DEF PartMatches
  <2> QED
    BY <2>2, <2>3 DEF Plain
<1>4. \A s \in Routes : Matches(s, m, p) => s = r
  BY <1>1, <1>2, <1>3 DEF Routes
<1> QED
  BY <1>1, <1>4 DEF OperationFor

\* The routes open to all are not among those that ask for a session.
LEMMA OthersAreNotGuarded ==
  NoHandler \notin Guarded /\ HealthCheck \notin Guarded /\ Sessions \notin Guarded
<1>1. NoHandler \notin Guarded
  BY GuardedParts DEF NoHandler, Endpoint
<1>2. HealthCheck \notin Guarded
  <2>1. Len(HealthCheck.template) = 1
    BY DEF HealthCheck, Endpoint
  <2> QED
    BY <2>1, GuardedParts
<1>3. Sessions.template = <<Plain("v1"), Plain("sessions")>>
  BY Join2 DEF Sessions, V1, Endpoint
<1>4. Sessions.template[2].name = "sessions"
  BY <1>3 DEF Plain
<1>5. Sessions \notin Guarded
  BY <1>4, GuardedParts
<1> QED
  BY <1>1, <1>2, <1>5

\* A request whose runtime cannot bind sessions is a request.
LEMMA BoundIsAsked ==
  ASSUME NEW methods, NEW names, NEW q \in Asked(methods, names), NEW state
  PROVE  LET b == [q EXCEPT !.session.bound = @ /\ state = "READY"]
         IN /\ b.method = q.method /\ b.path = q.path /\ b.origin = q.origin
            /\ b.size = q.size /\ b.session.given = q.session.given
            /\ b.session.version = q.session.version
            /\ b.session.valid = q.session.valid
            /\ b.session.allows = q.session.allows
            /\ b.session.bound <=> q.session.bound /\ state = "READY"
  BY DEF Asked

\* What the router and the handlers let through.
LEMMA HandlersAreAllowed ==
  ASSUME NEW methods, NEW names, NEW q \in Asked(methods, names), NEW state,
         q.origin # "foreign"
  PROVE  /\ OnlyAllowed(q, state, Handle(q, state))
         /\ Handle(q, state).cors = NoCors
<1> DEFINE a == Handle(q, state)
           route == CHOOSE r \in Dispatch(q) : TRUE
           b == [q EXCEPT !.session.bound = @ /\ state = "READY"]
           error == CASE route = HealthCheck -> "NONE"
                      [] route = Sessions -> CreateSession(q, state)
                      [] OTHER -> Authenticate(route, b)
<1>1. CASE Dispatch(q) = {}
  BY <1>1, OthersAreNotGuarded DEF Handle, Refusal, Response, OnlyAllowed
<1>2. CASE Dispatch(q) # {}
  <2>1. route \in Dispatch(q)
    BY <1>2
  <2>2. a = IF error # "NONE"
            THEN [Refusal(error) EXCEPT
                    !.halts = route \in Guarded /\ error = "UPDATE_REQUIRED"]
            ELSE Response("OK", route, NoCors)
    BY <1>2 DEF Handle
  <2> HIDE DEF route
  <2>3. route \in Routes /\ Matches(route, q.method, q.path)
    BY <2>1 DEF Dispatch
  <2>4. CASE route \in Guarded
    <3>1. error = Authenticate(route, b)
      BY <2>4, OthersAreNotGuarded
    <3>2. OperationFor(q.method, q.path) = {OperationOf(route)}
      BY <2>3, <2>4, OneRoute DEF Asked
    <3> DEFINE s == b.session
    <3>3. /\ b.origin \in {"page", "none"} /\ b.origin = q.origin
          /\ OperationFor(b.method, b.path) = {OperationOf(route)}
          /\ s.given = q.session.given /\ s.version = q.session.version
          /\ s.valid = q.session.valid /\ s.allows = q.session.allows
          /\ s.bound => state = "READY"
      BY <3>2, BoundIsAsked DEF Asked
    <3> HIDE DEF b
    <3>4. error = "NONE" => /\ b.origin # "none" /\ s.given /\ s.version /\ s.valid
                            /\ s.bound /\ OperationOf(route) \in s.allows
      BY <3>1, <3>3 DEF Authenticate
    <3>5. error = "UPDATE_REQUIRED" => b.origin # "none" /\ s.given
      BY <3>1 DEF Authenticate
    <3> HIDE DEF error, s
    <3>6. CASE error = "NONE"
      <4>1. a.handler = route /\ a.halts = FALSE /\ a.cors = NoCors
        BY <2>2, <3>6 DEF Response
      <4> HIDE DEF a
      <4> QED
        BY <2>4, <3>3, <3>4, <3>6, <4>1 DEF OnlyAllowed, a
    <3>7. CASE error # "NONE"
      <4>1. /\ a.handler = NoHandler /\ a.cors = NoCors
            /\ a.halts => error = "UPDATE_REQUIRED"
        BY <2>2, <3>7 DEF Response, Refusal
      <4> HIDE DEF a
      <4> QED
        BY <3>3, <3>5, <4>1, OthersAreNotGuarded DEF OnlyAllowed, a
    <3> QED
      BY <3>6, <3>7
  <2>5. CASE route \notin Guarded
    <3> HIDE DEF error
    <3>1. /\ a.handler \in {route, NoHandler} /\ a.cors = NoCors /\ ~a.halts
      <4>1. CASE error = "NONE"
        BY <2>2, <4>1 DEF Response
      <4>2. CASE error # "NONE"
        BY <2>2, <2>5, <4>2 DEF Response, Refusal
      <4> QED
        BY <4>1, <4>2
    <3> HIDE DEF a
    <3> QED
      BY <2>5, <3>1, OthersAreNotGuarded DEF OnlyAllowed, a
  <2> QED
    BY <2>4, <2>5
<1> QED
  BY <1>1, <1>2

\* For every request of any path and length: no handler runs for a page of
\* another origin, none but the health check and the bootstrap without a session
\* that allows the operation of its route, and only a page with a session can end
\* them all (LocalOriginPolicyMiddleware.dispatch, authenticate).
THEOREM OnlyAllowedAreServed ==
  ASSUME NEW methods, NEW names, NEW q \in Asked(methods, names), NEW state
  PROVE  OnlyAllowed(q, state, Serve(q, state))
<1> DEFINE h == Handle(q, state)
<1>1. CASE q.origin = "foreign"
  BY <1>1, OthersAreNotGuarded DEF Serve, OnlyAllowed, Refusal, Response
<1>2. CASE q.origin # "foreign" /\ q.method = "OPTIONS"
  BY <1>2, OthersAreNotGuarded DEF Serve, OnlyAllowed, Refusal, Response
<1>3. CASE q.origin # "foreign" /\ q.method # "OPTIONS"
  <2>1. OnlyAllowed(q, state, h)
    BY <1>3, HandlersAreAllowed
  <2>2. /\ Serve(q, state).handler = h.handler
        /\ Serve(q, state).halts => h.halts
    <3>1. /\ DOMAIN h = {"code", "handler", "cors", "halts"}
          /\ [h EXCEPT !.cors = CorsHeaders(FALSE)].handler = h.handler
          /\ [h EXCEPT !.cors = CorsHeaders(FALSE)].halts = h.halts
      BY DEF Handle, Response, Refusal
    <3> HIDE DEF h
    <3> QED
      BY <1>3, <3>1 DEF Serve, Response, h
  <2> HIDE DEF h
  <2> QED
    BY <1>3, <2>1, <2>2 DEF OnlyAllowed
<1> QED
  BY <1>1, <1>2, <1>3

\* The second part of a template by its length; the probes by their second part.
LEMMA GuardedSeconds ==
  ASSUME NEW r \in Guarded
  PROVE  /\ Len(r.template) = 2 =>
              \E x \in {"runtime", "capabilities", "documents", "queries", "answers",
                        "transport-probe"} : r.template[2] = Plain(x)
         /\ Len(r.template) = 3 =>
              \E x \in {"documents", "jobs", "probe"} : r.template[2] = Plain(x)
         /\ Len(r.template) = 4 => r.template[2] = Plain("documents")
         /\ r.template[2] = Plain("probe") =>
              r = Endpoint("POST", <<Plain("v1"), Plain("probe"), Plain("binary")>>)
         /\ r.template[2] = Plain("transport-probe") =>
              r = Endpoint("POST", <<Plain("v1"), Plain("transport-probe")>>)
<1>0. \A m, t : Endpoint(m, t).method = m /\ Endpoint(m, t).template = t
  BY DEF Endpoint
<1>1. Len(r.template) = 2 =>
        \E x \in {"runtime", "capabilities", "documents", "queries", "answers",
                  "transport-probe"} : r.template[2] = Plain(x)
  BY <1>0, GuardedRoutes
<1>2. Len(r.template) = 3 =>
        \E x \in {"documents", "jobs", "probe"} : r.template[2] = Plain(x)
  BY <1>0, GuardedRoutes
<1>3. Len(r.template) = 4 => r.template[2] = Plain("documents")
  BY <1>0, GuardedRoutes
<1>4. r.template[2] = Plain("probe") =>
        r = Endpoint("POST", <<Plain("v1"), Plain("probe"), Plain("binary")>>)
  BY <1>0, GuardedRoutes DEF Plain
<1>5. r.template[2] = Plain("transport-probe") =>
        r = Endpoint("POST", <<Plain("v1"), Plain("transport-probe")>>)
  BY <1>0, GuardedRoutes DEF Plain
<1> QED
  BY <1>1, <1>2, <1>3, <1>4, <1>5

\* The operation that a page asks its session for is the one its route needs.
LEMMA PageAsksForItsRoute ==
  ASSUME NEW r \in PageCalls, NEW names, NEW p \in Seq([name : names, cancel : BOOLEAN]),
         NEW m, Matches(r, m, p)
  PROVE  PageOperation(p) = OperationOf(r)
<1> DEFINE second == r.template[2]
<1>1. r \in Guarded
  BY DEF PageCalls
<1>2. Len(p) \in 2..4 /\ Len(p) = Len(r.template) /\ p[1] = Plain("v1") /\ p[2] = second
  BY <1>1, MatchedParts, GuardedParts
<1>3. Len(p) = 2 => p = <<Plain("v1"), second>>
  BY <1>2
<1>4. \A x : V1(<<x>>) = <<Plain("v1"), x>>
  BY Join2 DEF V1
<1>5. \A x, y : <<Plain("v1"), x>> = <<Plain("v1"), y>> => x = y
  OBVIOUS
<1>6. \A x, y : Plain(x) = Plain(y) => x = y
  BY DEF Plain
<1>7. \/ Len(p) = 2 /\ \E x \in {"runtime", "capabilities", "documents", "queries",
                                 "answers"} : second = Plain(x)
      \/ Len(p) \in 3..4 /\ second = Plain("documents")
      \/ Len(p) = 3 /\ second = Plain("jobs")
  <2>1. second # Plain("transport-probe")
    <3>1. Probe = Endpoint("POST", <<Plain("v1"), Plain("transport-probe")>>)
      BY <1>4 DEF Probe
    <3> QED
      BY <1>1, <3>1, GuardedSeconds DEF PageCalls
  <2>2. second # Plain("probe")
    <3>1. V1(<<Plain("probe"), Plain("binary")>>)
            = <<Plain("v1"), Plain("probe"), Plain("binary")>>
      BY Join DEF V1
    <3> QED
      BY <1>1, <3>1, GuardedSeconds DEF PageCalls
  <2> DEFINE n == Len(r.template)
  <2>3. /\ n = 2 => \E x \in {"runtime", "capabilities", "documents", "queries",
                              "answers", "transport-probe"} : second = Plain(x)
        /\ n = 3 => \E x \in {"documents", "jobs", "probe"} : second = Plain(x)
        /\ n = 4 => second = Plain("documents")
    BY <1>1, GuardedSeconds
  <2>4. n = Len(p)
    BY <1>2
  <2> HIDE DEF n, second
  <2> QED
    BY <1>2, <2>1, <2>2, <2>3, <2>4
<1>8. \A x, y : Len(p) # 2 => p # <<x, y>>
  OBVIOUS
<1>9. \A x : Plain(x).name = x
  BY DEF Plain
<1> HIDE DEF second
<1>10. CASE Len(p) = 2
  <2>1. PICK x \in {"runtime", "capabilities", "documents", "queries", "answers"} :
            second = Plain(x)
    BY <1>7, <1>10
  <2>2. p = V1(<<Plain(x)>>)
    BY <1>3, <1>4, <1>10, <2>1
  <2>3. \A y : p = V1(<<Plain(y)>>) => x = y
    BY <1>4, <1>5, <1>6, <2>2
  <2> QED
    BY <1>9, <1>10, <2>1, <2>2, <2>3 DEF PageOperation, OperationOf, second
<1>11. CASE Len(p) # 2
  <2>1. \A y : p # V1(<<Plain(y)>>)
    BY <1>4, <1>8, <1>11
  <2> QED
    BY <1>2, <1>6, <1>7, <1>9, <1>11, <2>1 DEF PageOperation, OperationOf, second
<1> QED
  BY <1>10, <1>11


\* What a page calls with the session it needs reaches its one handler.
LEMMA OneHandler ==
  ASSUME NEW methods, NEW names, NEW q \in Asked(methods, names), NEW state,
         NEW r \in Guarded, Matches(r, q.method, q.path), ~q.slash,
         q.origin # "none", q.session.given, q.session.version, q.session.valid,
         q.session.bound, state = "READY", OperationOf(r) \in q.session.allows,
         q.size <= Limit(r)
  PROVE  Handle(q, state) = Response("OK", r, NoCors)
<1> DEFINE route == CHOOSE x \in Dispatch(q) : TRUE
           b == [q EXCEPT !.session.bound = @ /\ state = "READY"]
           error == CASE route = HealthCheck -> "NONE"
                      [] route = Sessions -> CreateSession(q, state)
                      [] OTHER -> Authenticate(route, b)
<1>1. /\ \A s \in Routes : Matches(s, q.method, q.path) => s = r
      /\ OperationFor(q.method, q.path) = {OperationOf(r)}
  BY OneRoute DEF Asked
<1>2. Dispatch(q) = {r}
  BY <1>1 DEF Dispatch, Routes
<1>3. route = r
  BY <1>2
<1>4. error = Authenticate(r, b)
  BY <1>3, OthersAreNotGuarded
<1> DEFINE s == b.session
<1>5. /\ b.origin = q.origin /\ b.size = q.size
      /\ OperationFor(b.method, b.path) = {OperationOf(r)}
      /\ s.given = q.session.given /\ s.version = q.session.version
      /\ s.valid = q.session.valid /\ s.allows = q.session.allows
      /\ s.bound <=> q.session.bound /\ state = "READY"
  BY <1>1, BoundIsAsked DEF Asked
<1>6. q.size \in Int /\ Limit(r) \in Int
  BY DEF Asked, Limit
<1> HIDE DEF b
<1>7. /\ OperationFor(b.method, b.path) # {}
      /\ OperationFor(b.method, b.path) \cap s.allows # {}
  BY <1>5
<1>8. /\ b.origin # "none" /\ s.given /\ s.version /\ s.valid /\ s.bound
      /\ ~(b.size > Limit(r))
  BY <1>5, <1>6
<1>9. Authenticate(r, b) = "NONE"
  BY <1>7, <1>8 DEF Authenticate
<1>10. Handle(q, state) = IF error # "NONE"
         THEN [Refusal(error) EXCEPT
                 !.halts = route \in Guarded /\ error = "UPDATE_REQUIRED"]
         ELSE Response("OK", route, NoCors)
  BY <1>2 DEF Handle, b
<1> HIDE DEF error, route
<1> QED
  BY <1>3, <1>4, <1>9, <1>10

\* For every request of any path and length: a page reads every answer, also a
\* refusal, and what it calls is admitted by the preflight and reaches its handler
\* with the session it has asked for (_cors_headers, operationFromPath).
THEOREM PagesAreServed ==
  ASSUME NEW methods, NEW names, NEW q \in Asked(methods, names), NEW state
  PROVE  PageServed(q, state, Serve(q, state))
<1> SUFFICES ASSUME q.origin = "page"
             PROVE  PageServed(q, state, Serve(q, state))
  BY DEF PageServed
<1> DEFINE a == Serve(q, state)
           h == Handle(q, state)
<1>1. /\ DOMAIN h = {"code", "handler", "cors", "halts"}
      /\ [h EXCEPT !.cors = CorsHeaders(FALSE)].cors = CorsHeaders(FALSE)
      /\ [h EXCEPT !.cors = CorsHeaders(FALSE)].handler = h.handler
  BY DEF Handle, Response, Refusal
<1>2. CorsHeaders(FALSE) # NoCors
  <2>1. CorsHeaders(FALSE).methods # NoCors.methods
    BY DEF CorsHeaders, NoCors, AllowedMethods
  <2> QED
    BY <2>1
<1>3. q.method # "OPTIONS" =>
        /\ a.handler = h.handler
        /\ a.code # "CRASH" => a.cors # NoCors
  <2> HIDE DEF h
  <2>1. \/ a = Response("CRASH", h.handler, NoCors)
        \/ a = [h EXCEPT !.cors = CorsHeaders(FALSE)]
        \/ q.method = "OPTIONS"
    BY DEF Serve, h
  <2> HIDE DEF a
  <2>2. /\ Response("CRASH", h.handler, NoCors).handler = h.handler
        /\ Response("CRASH", h.handler, NoCors).code = "CRASH"
    BY DEF Response
  <2> QED
    BY <1>1, <1>2, <2>1, <2>2
<1>4. ASSUME NEW r \in PageCalls, Matches(r, q.method, q.path), ~q.slash
      PROVE  GetsThrough(r, q, state, a)
  <2>1. r \in Guarded /\ q.path \in Seq([name : names, cancel : BOOLEAN])
    BY <1>4 DEF PageCalls, Asked
  <2>2. /\ q.method \in {"GET", "POST", "PUT", "DELETE"}
        /\ q.method # "none" /\ q.method # "OPTIONS"
    BY <1>4, <2>1, MatchedParts, GuardedParts
  <2> DEFINE ask == [q EXCEPT !.method = "OPTIONS",
                              !.preflight = [asked |-> q.method, private |-> TRUE]]
  <2>3. /\ ask.method = "OPTIONS" /\ ask.origin = "page"
        /\ ask.preflight.asked = q.method /\ ask.preflight.private = TRUE
    BY DEF Asked
  <2> HIDE DEF ask
  <2>4. Serve(ask, state) = Response("OK", NoHandler, CorsHeaders(TRUE))
    BY <2>2, <2>3 DEF Serve
  <2>5. /\ Serve(ask, state).code = "OK"
        /\ Serve(ask, state).cors.methods = AllowedMethods
        /\ Serve(ask, state).cors.headers = AllowedHeaders
        /\ Serve(ask, state).cors.private = TRUE
    BY <2>4 DEF Response, CorsHeaders
  <2>6. q.method \in AllowedMethods /\ PageHeaders \subseteq AllowedHeaders
    BY <2>2 DEF AllowedMethods, PageHeaders, AllowedHeaders
  <2>7. ASSUME q.session.given, q.session.version, q.session.valid,
               q.session.bound, state = "READY",
               PageOperation(q.path) \in q.session.allows, q.size <= Limit(r)
        PROVE  a.handler = r
    <3>1. OperationOf(r) \in q.session.allows
      BY <1>4, <2>1, <2>7, PageAsksForItsRoute
    <3>2. h = Response("OK", r, NoCors)
      BY <1>4, <2>1, <2>7, <3>1, OneHandler
    <3>3. h.handler = r
      BY <3>2 DEF Response
    <3> HIDE DEF a, h
    <3> QED
      BY <1>3, <2>2, <3>3
  <2> HIDE DEF a
  <2> QED
    BY <2>5, <2>6, <2>7 DEF GetsThrough, ask
<1> HIDE DEF a
<1> QED
  BY <1>3, <1>4 DEF PageServed, a

------------------------------------------------------------------------------
(* Who answers on the device.                                               *)

\* For every request, attempt and health: evidence leaves the device only as the
\* request's policy and permissions have it (GenerationRouter.resolve,
\* answer_document_set).
THEOREM EvidenceIsSentAsAsked ==
  ASSUME NEW body, NEW r, NEW a, r.policy \in Policies
  PROVE  SentAsAsked(body, r, a, AnswerRequest(body, r, a))
<1> DEFINE o == AnswerRequest(body, r, a)
           route == Resolve(r, a.first)
<1>1. \A error, sent : Refused(error, sent).sent = sent
  BY DEF Refused, Outcome
<1>2. \A p, fallback, sent, status, error :
        Outcome(p, fallback, sent, status, error).sent = sent
  BY DEF Outcome
<1>3. /\ Other("LOCAL") = "USER_CLOUD" /\ Other("USER_CLOUD") = "LOCAL"
  BY DEF Other, Providers
<1>4. route.provider = "USER_CLOUD" =>
        \/ r.policy \in {"USER_CLOUD_ONLY", "PREFER_USER_CLOUD"}
        \/ r.policy = "PREFER_LOCAL" /\ r.toCloud
  BY <1>3 DEF Resolve, Preferred, FallbackAllowed, NoRoute, Route, Policies
<1> HIDE DEF route
<1>5. "USER_CLOUD" \in o.sent =>
        /\ body = "valid" /\ a.evidence /\ route.provider = "USER_CLOUD"
        /\ Usable(r, a.second, "USER_CLOUD")
  <2>1. body # "valid" => o.sent = {}
    BY <1>1 DEF AnswerRequest
  <2>2. CASE body = "valid"
    <3> DEFINE p == route.provider
               structured == a.structured /\ p = "LOCAL"
               status == IF structured /\ ~a.claims THEN "COMPLETED_WITH_WARNINGS"
                         ELSE "COMPLETED"
    <3>1. o = IF ~a.evidence
              THEN Outcome("LOCAL", FALSE, {}, "INSUFFICIENT_EVIDENCE", "NONE")
              ELSE IF route.error # "NONE" THEN Refused(route.error, {})
              ELSE IF ~a.fits THEN Refused("INVALID_REQUEST", {})
              ELSE IF ~Usable(r, a.second, p) THEN Refused(CallFails(p, a.second[p]), {})
              ELSE IF a.call # "ok" THEN Refused(CallFails(p, a.call), {p})
              ELSE Outcome(p, route.fallback, {p}, status, "NONE")
      BY <2>2 DEF AnswerRequest, Answer, route
    <3> HIDE DEF o, p, status
    <3>2. \/ o.sent = {}
          \/ /\ a.evidence /\ Usable(r, a.second, p)
             /\ \/ o = Refused(CallFails(p, a.call), {p})
                \/ o = Outcome(p, route.fallback, {p}, status, "NONE")
      <4>1. /\ Outcome("LOCAL", FALSE, {}, "INSUFFICIENT_EVIDENCE", "NONE").sent = {}
            /\ Refused(route.error, {}).sent = {}
            /\ Refused("INVALID_REQUEST", {}).sent = {}
            /\ Refused(CallFails(p, a.second[p]), {}).sent = {}
        BY <1>1, <1>2
      <4> QED
        BY <3>1, <4>1
    <3>3. /\ Refused(CallFails(p, a.call), {p}).sent = {p}
          /\ Outcome(p, route.fallback, {p}, status, "NONE").sent = {p}
      BY <1>1, <1>2
    <3> QED
      BY <2>2, <3>2, <3>3 DEF p
  <2> QED
    BY <2>1, <2>2
<1> HIDE DEF o
<1> QED
  BY <1>4, <1>5 DEF SentAsAsked, Usable, o
==============================================================================
