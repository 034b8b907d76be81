--------------------------- MODULE ArefRing_proofs --------------------------
(***************************************************************************)
(* Proofs about ArefRing, for every set of producers and consumers, every  *)
(* depth, every assignment of async kinds and loads, every trip count.     *)
(***************************************************************************)
EXTENDS ArefRing, FiniteSetTheorems, WellFoundedInduction, TLAPS

-----------------------------------------------------------------------------
(* Counting arrivals *)

LEMMA KindsFinite == IsFiniteSet(ProducerKinds \cup ConsumerKinds)
<1>1. IsFiniteSet({"NONE"}) /\ IsFiniteSet({"TC5MMA"}) BY FS_Singleton
<1>2. IsFiniteSet({"TMALoad"}) /\ IsFiniteSet({"WGMMA"}) BY FS_Singleton
<1>3. IsFiniteSet({"NONE"} \cup {"TC5MMA"}) BY <1>1, FS_Union
<1>4. IsFiniteSet({"TMALoad"} \cup {"WGMMA"}) BY <1>2, FS_Union
<1>5. IsFiniteSet(({"NONE"} \cup {"TC5MMA"}) \cup ({"TMALoad"} \cup {"WGMMA"}))
  BY <1>3, <1>4, FS_Union
<1>6. ProducerKinds \cup ConsumerKinds
        = ({"NONE"} \cup {"TC5MMA"}) \cup ({"TMALoad"} \cup {"WGMMA"})
  BY DEF ProducerKinds, ConsumerKinds
<1> QED BY <1>5, <1>6

\* The arrivals of a nonempty set of partitions can be counted, there is at
\* least one, and ArrivalCount is their number.
LEMMA TokensFinite ==
  ASSUME NEW A, A = Producers \/ A = Consumers
  PROVE  /\ IsFiniteSet(Tokens(A))
         /\ ArrivalCount(A) = Cardinality(Tokens(A))
         /\ ArrivalCount(A) \in Nat \ {0}
<1>1. IsFiniteSet(A \X (ProducerKinds \cup ConsumerKinds))
  <2>1. IsFiniteSet(A) BY ActorAssumption
  <2> QED BY <2>1, KindsFinite, FS_Product
<1>2. IsFiniteSet(Tokens(A))
  <2>1. Tokens(A) \in SUBSET (A \X (ProducerKinds \cup ConsumerKinds)) BY DEF Tokens
  <2> QED BY <1>1, <2>1, FS_Subset
<1>3. Tokens(A) # {}
  <2>1. PICK a \in A : TRUE BY ActorAssumption
  <2>2. PICK k \in Kinds[a] : k \in ProducerKinds \cup ConsumerKinds
    BY <2>1, KindsAssumption
  <2>3. <<a, k>> \in Tokens(A) BY <2>1, <2>2 DEF Tokens
  <2> QED BY <2>3
<1>4. Cardinality(Tokens(A)) \in Nat /\ Cardinality(Tokens(A)) # 0
  BY <1>2, <1>3, FS_CardinalityType, FS_EmptySet
<1> QED BY <1>2, <1>3, <1>4 DEF ArrivalCount

LEMMA LackingFinite ==
  ASSUME NEW A, A = Producers \/ A = Consumers, NEW s, NEW n
  PROVE  /\ IsFiniteSet(Lacking(A, s, n))
         /\ Cardinality(Lacking(A, s, n)) \in Nat
<1>1. Lacking(A, s, n) \in SUBSET Tokens(A) BY DEF Lacking
<1> QED BY <1>1, TokensFinite, FS_Subset, FS_CardinalityType

-----------------------------------------------------------------------------
(* Initial states *)

LEMMA InitInv == Init => IInv
<1> SUFFICES ASSUME Init PROVE IInv OBVIOUS
<1> USE DEF Init
<1>1. TypeOK
  BY TokensFinite, ShapeAssumption DEF TypeOK, InitBarrier, InitPhase, Stage
<1>2. ASSUME NEW a \in Actor PROVE RegisterInv(a)
  BY ShapeAssumption DEF RegisterInv, InitPhase, Stage
<1>3. ASSUME NEW s \in Stage PROVE SlotInv(s)
  <2>1. \A a \in Actor : \A k : ~Unarrived(a, k, s) /\ Arrivals(a, k, s) = 0
    BY DEF Unarrived, Arrivals
  <2>2. Lacking(Producers, s, 0) = Tokens(Producers) /\ Lacking(Consumers, s, 0) = Tokens(Consumers)
    BY <2>1 DEF Lacking, Tokens, Actor
  <2>3. LapInv(s) BY <2>1 DEF LapInv, InitBarrier, Actor
  <2>4. CountInv(s)
    BY <2>2, TokensFinite, FS_EmptySet DEF CountInv, InitBarrier
  <2>5. EngineInv(s) BY DEF EngineInv
  <2> QED BY <2>3, <2>4, <2>5 DEF SlotInv
<1> QED BY <1>1, <1>2, <1>3 DEF IInv

-----------------------------------------------------------------------------
(* What one step does to one stage *)

\* Nothing of stage s changes.
SameSlot(s) ==
  /\ \A a \in Actor :
       /\ owed'[a][s] = owed[a][s] /\ lap'[a][s] = lap[a][s]
       /\ <<a, s>> \in commits' <=> <<a, s>> \in commits
  /\ inflight'[s] = inflight[s] /\ full'[s] = full[s] /\ empty'[s] = empty[s]

LEMMA SlotFrame ==
  ASSUME NEW s \in Stage, TypeOK, SlotInv(s), SameSlot(s)
  PROVE  SlotInv(s)'
<1>1. \A a \in Actor : \A k : Arrivals(a, k, s)' = Arrivals(a, k, s)
  BY DEF SameSlot, Arrivals, Unarrived
<1>2. \A n : Lacking(Producers, s, n)' = Lacking(Producers, s, n)
  BY <1>1 DEF Lacking, Tokens, Actor
<1>3. \A n : Lacking(Consumers, s, n)' = Lacking(Consumers, s, n)
  BY <1>1 DEF Lacking, Tokens, Actor
<1>4. full'[s] = full[s] /\ empty'[s] = empty[s] /\ inflight'[s] = inflight[s]
  BY DEF SameSlot
<1>5. LapInv(s)'
  <2>1. LapInv(s) BY DEF SlotInv
  <2>2. \A a \in Actor : lap'[a][s] = lap[a][s] BY DEF SameSlot
  <2> QED BY <1>1, <1>4, <2>1, <2>2 DEF LapInv, Actor
<1>6. CountInv(s)'
  <2>1. CountInv(s) BY DEF SlotInv
  <2> QED BY <1>2, <1>3, <1>4, <2>1 DEF CountInv
<1>7. EngineInv(s)'
  <2>1. EngineInv(s) BY DEF SlotInv
  <2>2. \A t \in inflight[s] : t[1] \in Actor
    BY DEF TypeOK, Actor
  <2>3. \A a \in Actor : owed'[a][s] = owed[a][s] /\ (<<a, s>> \in commits' <=> <<a, s>> \in commits)
    BY DEF SameSlot
  <2>4. ASSUME NEW t \in inflight'[s]
        PROVE  /\ "TMALoad" \in Kinds[t[1]] \ owed'[t[1]][s]
               /\ Arrivals(t[1], "TMALoad", s)' = full'[s].phase + 1
    <3>1. t \in inflight[s] /\ t[1] \in Actor BY <1>4, <2>2
    <3>2. "TMALoad" \in Kinds[t[1]] \ owed[t[1]][s] /\ Arrivals(t[1], "TMALoad", s) = full[s].phase + 1
      BY <2>1, <3>1 DEF EngineInv
    <3>3. Arrivals(t[1], "TMALoad", s)' = Arrivals(t[1], "TMALoad", s)
      BY <1>1, <3>1
    <3> QED BY <1>4, <2>3, <3>1, <3>2, <3>3
  <2>5. \A a \in Actor : <<a, s>> \in commits' => "TC5MMA" \in Kinds[a] \ owed'[a][s]
    BY <2>1, <2>3 DEF EngineInv
  <2> QED BY <2>4, <2>5 DEF EngineInv
<1> QED BY <1>5, <1>6, <1>7 DEF SlotInv

\* The arrivals at stage s stay as they are, except that token <<a, k>> arrives.
OneArrival(a, k, s) ==
  /\ Unarrived(a, k, s) /\ ~Unarrived(a, k, s)'
  /\ \A b \in Actor : lap'[b][s] = lap[b][s]
  /\ \A b \in Actor, j \in ProducerKinds \cup ConsumerKinds :
       <<b, j>> # <<a, k>> => (Unarrived(b, j, s)' <=> Unarrived(b, j, s))

LEMMA ArrivalCounts ==
  ASSUME NEW a \in Actor, NEW k \in Kinds[a], NEW s \in Stage, TypeOK,
         OneArrival(a, k, s)
  PROVE  /\ Arrivals(a, k, s) = lap[a][s] - 1
         /\ Arrivals(a, k, s)' = lap[a][s]
         /\ \A b \in Actor : \A j \in Kinds[b] :
              <<b, j>> # <<a, k>> => Arrivals(b, j, s)' = Arrivals(b, j, s)
<1>1. \A b \in Actor : \A j \in Kinds[b] : j \in ProducerKinds \cup ConsumerKinds
  BY KindsAssumption DEF Actor
<1> QED BY <1>1 DEF OneArrival, Arrivals

\* When the phase numbered n lacks <<a, k>> and that token arrives, it lacks
\* everything else it lacked before.
LEMMA LackingOneLess ==
  ASSUME NEW A, A = Producers \/ A = Consumers,
         NEW a \in A, NEW k \in Kinds[a], NEW s \in Stage, TypeOK,
         OneArrival(a, k, s)
  PROVE  \A t \in Tokens(A) :
           Arrivals(t[1], t[2], s)' = Arrivals(a, k, s)
             <=> t \in Lacking(A, s, Arrivals(a, k, s)) \ {<<a, k>>}
<1>0. a \in Actor BY DEF Actor
<1>1. Arrivals(a, k, s)' # Arrivals(a, k, s)
  <2>1. lap[a][s] \in Nat BY <1>0 DEF TypeOK
  <2> QED BY <1>0, <2>1, ArrivalCounts
<1>2. ASSUME NEW t \in Tokens(A), t # <<a, k>>
      PROVE  Arrivals(t[1], t[2], s)' = Arrivals(t[1], t[2], s)
  <2>1. t[1] \in Actor /\ t[2] \in Kinds[t[1]] /\ t = <<t[1], t[2]>>
    BY DEF Tokens, Actor
  <2> QED BY <1>0, <1>2, <2>1, ArrivalCounts
<1> QED BY <1>1, <1>2 DEF Lacking

\* A producer's arrive of any kind, with n transactions announced by it.
LEMMA ProducerArrives ==
  ASSUME NEW p \in Producers, NEW k \in Kinds[p], NEW s \in Stage, NEW n \in Nat,
         TypeOK, SlotInv(s), OneArrival(p, k, s),
         empty'[s] = empty[s],
         full'[s] = BarrierExpect(full[s], n),
         IsFiniteSet(inflight'[s]), inflight[s] \subseteq inflight'[s],
         Cardinality(inflight'[s]) = Cardinality(inflight[s]) + n,
         \A t \in inflight'[s] \ inflight[s] : t[1] = p /\ k = "TMALoad",
         \A t \in inflight'[s] : t[1] \in Producers,
         \A t \in inflight'[s] : "TMALoad" \in Kinds[t[1]] \ owed'[t[1]][s],
         \A a \in Actor : <<a, s>> \in commits' => "TC5MMA" \in Kinds[a] \ owed'[a][s]
  PROVE  /\ SlotInv(s)'
         /\ full'[s] \in [count : {ArrivalCount(Producers)}, phase : Nat, pending : Nat, tx : Nat]
<1> DEFINE fr == full[s].phase
           er == empty[s].phase
           left == Lacking(Producers, s, fr) \ {<<p, k>>}
<1>1. /\ full[s] \in [count : {ArrivalCount(Producers)}, phase : Nat, pending : Nat, tx : Nat]
      /\ empty[s] \in [count : {ArrivalCount(Consumers)}, phase : Nat, pending : Nat, tx : {0}]
      /\ \A a \in Actor : lap[a][s] \in Nat /\ lap'[a][s] = lap[a][s]
  BY DEF TypeOK, OneArrival
<1>2. fr \in Nat /\ er \in Nat BY <1>1
<1>3. p \in Actor /\ k \in ProducerKinds \cup ConsumerKinds
  BY KindsAssumption DEF Actor
<1>4. Arrivals(p, k, s) = fr /\ er = fr
  <2>1. Arrivals(p, k, s) = lap[p][s] - 1 BY <1>3, ArrivalCounts
  <2> QED BY <2>1, <1>1, <1>2, <1>3 DEF SlotInv, LapInv
<1>5. Arrivals(p, k, s)' = fr + 1
  BY <1>1, <1>2, <1>3, <1>4, ArrivalCounts
<1>6. /\ \A t \in Tokens(Producers) : Arrivals(t[1], t[2], s)' = fr <=> t \in left
      /\ full[s].pending - 1 = Cardinality(left)
      /\ IsFiniteSet(left)
  <2>1. full[s].pending = Cardinality(Lacking(Producers, s, fr))
    BY DEF SlotInv, CountInv
  <2>2. <<p, k>> \in Lacking(Producers, s, fr)
    BY <1>3, <1>4 DEF Lacking, Tokens
  <2>3. IsFiniteSet(Lacking(Producers, s, fr)) BY LackingFinite
  <2>4. IsFiniteSet(left) /\ Cardinality(left) = Cardinality(Lacking(Producers, s, fr)) - 1
    BY <2>2, <2>3, FS_RemoveElement
  <2>5. \A t \in Tokens(Producers) : Arrivals(t[1], t[2], s)' = fr <=> t \in left
    BY <1>4, LackingOneLess
  <2> QED BY <2>1, <2>4, <2>5
<1>7. \A a \in Actor : \A j \in Kinds[a] :
        <<a, j>> # <<p, k>> => Arrivals(a, j, s)' = Arrivals(a, j, s)
  BY <1>3, ArrivalCounts
<1>8. \A c \in Consumers : \A j \in Kinds[c] : Arrivals(c, j, s)' = Arrivals(c, j, s)
  BY <1>7, ActorAssumption DEF Actor
<1>9. empty'[s].pending = Cardinality(Lacking(Consumers, s, er)) /\ empty'[s].pending # 0
  BY DEF SlotInv, CountInv
<1>10. Lacking(Consumers, s, empty[s].phase)' = Lacking(Consumers, s, er)
  BY <1>8 DEF Lacking, Tokens
<1>11. full[s].tx = Cardinality(inflight[s]) /\ IsFiniteSet(inflight[s])
       /\ Cardinality(inflight[s]) \in Nat /\ Cardinality(inflight'[s]) \in Nat
  BY FS_CardinalityType DEF SlotInv, CountInv
<1>12. \A q \in Producers : lap'[q][s] \in {er, er + 1}
  BY <1>1 DEF SlotInv, LapInv, Actor
<1>13. \A q \in Producers : \A j \in Kinds[q] : Arrivals(q, j, s)' \in {fr, fr + 1}
  <2> SUFFICES ASSUME NEW q \in Producers, NEW j \in Kinds[q]
               PROVE  Arrivals(q, j, s)' \in {fr, fr + 1}
    OBVIOUS
  <2>1. CASE <<q, j>> = <<p, k>> BY <2>1, <1>5
  <2>2. CASE <<q, j>> # <<p, k>>
    BY <2>2, <1>7 DEF SlotInv, LapInv, Actor
  <2> QED BY <2>1, <2>2
<1>14. \A c \in Consumers :
         /\ lap'[c][s] <= fr
         /\ \A j \in Kinds[c] : Arrivals(c, j, s)' \in {er, er + 1}
  BY <1>1, <1>8 DEF SlotInv, LapInv, Actor
<1>15. \A t \in inflight'[s] : "TMALoad" \in Kinds[t[1]] /\ Arrivals(t[1], "TMALoad", s)' = fr + 1
  <2> SUFFICES ASSUME NEW t \in inflight'[s] PROVE Arrivals(t[1], "TMALoad", s)' = fr + 1
    OBVIOUS
  <2>1. CASE t \in inflight[s]
    <3>1. Arrivals(t[1], "TMALoad", s) = fr + 1 BY <2>1 DEF SlotInv, EngineInv
    <3>2. t[1] \in Actor /\ "TMALoad" \in Kinds[t[1]] BY DEF Actor
    <3>3. CASE <<t[1], "TMALoad">> = <<p, k>> BY <3>3, <1>5
    <3>4. CASE <<t[1], "TMALoad">> # <<p, k>> BY <3>1, <3>2, <3>4, <1>7
    <3> QED BY <3>3, <3>4
  <2>2. CASE t \notin inflight[s] BY <2>2, <1>5
  <2> QED BY <2>1, <2>2
<1>type. full'[s] \in [count : {ArrivalCount(Producers)}, phase : Nat, pending : Nat, tx : Nat]
  <2>1. full[s].pending - 1 \in Nat BY <1>6, FS_CardinalityType
  <2>2. ArrivalCount(Producers) \in Nat BY TokensFinite
  <2> QED BY <2>1, <2>2, <1>1 DEF BarrierExpect, Settle
<1>16. CASE full[s].pending - 1 = 0 /\ full[s].tx + n = 0
  <2>1. /\ full'[s].phase = fr + 1 /\ full'[s].tx = 0
        /\ full'[s].pending = ArrivalCount(Producers)
    BY <1>16, <1>1 DEF BarrierExpect, Settle
  <2>2. left = {} BY <1>16, <1>6, FS_EmptySet
  <2>3. \A q \in Producers : \A j \in Kinds[q] : Arrivals(q, j, s)' = fr + 1
    <3> SUFFICES ASSUME NEW q \in Producers, NEW j \in Kinds[q], Arrivals(q, j, s)' = fr
                 PROVE  FALSE
      BY <1>13
    <3>1. <<q, j>> \in Tokens(Producers) BY KindsAssumption DEF Tokens
    <3> QED BY <3>1, <2>2, <1>6
  <2>4. Lacking(Producers, s, full[s].phase)' = Tokens(Producers)
    BY <2>1, <2>3 DEF Lacking, Tokens
  <2>5. inflight'[s] = {}
    <3>1. n = 0 /\ Cardinality(inflight[s]) = 0 BY <1>16, <1>1, <1>11
    <3> QED BY <3>1, FS_EmptySet
  <2>6. LapInv(s)'
    <3>1. \A q \in Producers : \A j \in Kinds[q] :
            Arrivals(q, j, s)' \in {full'[s].phase, full'[s].phase + 1}
      BY <2>1, <2>3
    <3>2. \A c \in Consumers : lap'[c][s] <= full'[s].phase
      BY <1>1, <1>2, <1>14, <2>1 DEF Actor
    <3> QED BY <1>2, <1>4, <1>12, <1>14, <2>1, <3>1, <3>2 DEF LapInv
  <2>7. CountInv(s)'
    <3>1. full'[s].pending = Cardinality(Tokens(Producers)) /\ full'[s].pending # 0
      BY <2>1, TokensFinite
    <3>2. Cardinality(inflight'[s]) = 0 BY <2>5, FS_EmptySet
    <3> QED BY <2>1, <2>4, <3>1, <3>2, <1>9, <1>10 DEF CountInv
  <2>8. EngineInv(s)' BY <2>5 DEF EngineInv
  <2> QED BY <2>6, <2>7, <2>8, <1>type DEF SlotInv
<1>17. CASE ~(full[s].pending - 1 = 0 /\ full[s].tx + n = 0)
  <2>1. /\ full'[s].phase = fr /\ full'[s].tx = full[s].tx + n
        /\ full'[s].pending = full[s].pending - 1
    BY <1>17, <1>1 DEF BarrierExpect, Settle
  <2>2. Lacking(Producers, s, full[s].phase)' = left
    <3>1. Lacking(Producers, s, full[s].phase)'
            = {t \in Tokens(Producers) : Arrivals(t[1], t[2], s)' = fr}
      BY <2>1 DEF Lacking, Tokens
    <3>2. left \subseteq Tokens(Producers) BY DEF Lacking
    <3> QED BY <3>1, <3>2, <1>6
  <2>3. LapInv(s)'
    BY <1>2, <1>4, <1>12, <1>13, <1>14, <2>1 DEF LapInv
  <2>4. CountInv(s)'
    <3>1. full'[s].tx = Cardinality(inflight'[s]) BY <2>1, <1>11
    <3>2. full'[s].pending # 0 \/ full'[s].tx # 0 BY <2>1, <1>1, <1>17
    <3> QED BY <2>1, <2>2, <3>1, <3>2, <1>6, <1>9, <1>10 DEF CountInv
  <2>5. EngineInv(s)'
    BY <2>1, <1>15 DEF EngineInv
  <2> QED BY <2>3, <2>4, <2>5, <1>type DEF SlotInv
<1> QED BY <1>16, <1>17

\* A consumer's arrive of any kind.
LEMMA ConsumerArrives ==
  ASSUME NEW c \in Consumers, NEW k \in Kinds[c], NEW s \in Stage,
         TypeOK, SlotInv(s), OneArrival(c, k, s),
         full'[s] = full[s], inflight'[s] = inflight[s],
         empty'[s] = BarrierExpect(empty[s], 0),
         \A p \in Producers : owed'[p][s] = owed[p][s],
         \A a \in Actor : <<a, s>> \in commits' => "TC5MMA" \in Kinds[a] \ owed'[a][s]
  PROVE  /\ SlotInv(s)'
         /\ empty'[s] \in [count : {ArrivalCount(Consumers)}, phase : Nat, pending : Nat, tx : {0}]
<1> DEFINE fr == full[s].phase
           er == empty[s].phase
           left == Lacking(Consumers, s, er) \ {<<c, k>>}
<1>1. /\ full[s] \in [count : {ArrivalCount(Producers)}, phase : Nat, pending : Nat, tx : Nat]
      /\ empty[s] \in [count : {ArrivalCount(Consumers)}, phase : Nat, pending : Nat, tx : {0}]
      /\ \A a \in Actor : lap[a][s] \in Nat /\ lap'[a][s] = lap[a][s]
      /\ \A t \in inflight[s] : t[1] \in Producers
  BY DEF TypeOK, OneArrival
<1>2. fr \in Nat /\ er \in Nat BY <1>1
<1>3. c \in Actor /\ k \in ProducerKinds \cup ConsumerKinds
  BY KindsAssumption DEF Actor
<1>4. Arrivals(c, k, s) = er /\ fr = er + 1
  <2>1. Arrivals(c, k, s) = lap[c][s] - 1 BY <1>3, ArrivalCounts
  <2> QED BY <2>1, <1>1, <1>2, <1>3 DEF SlotInv, LapInv
<1>5. Arrivals(c, k, s)' = er + 1
  BY <1>1, <1>2, <1>3, <1>4, ArrivalCounts
<1>6. /\ \A t \in Tokens(Consumers) : Arrivals(t[1], t[2], s)' = er <=> t \in left
      /\ empty[s].pending - 1 = Cardinality(left)
      /\ IsFiniteSet(left)
  <2>1. empty[s].pending = Cardinality(Lacking(Consumers, s, er))
    BY DEF SlotInv, CountInv
  <2>2. <<c, k>> \in Lacking(Consumers, s, er)
    BY <1>3, <1>4 DEF Lacking, Tokens
  <2>3. IsFiniteSet(Lacking(Consumers, s, er)) BY LackingFinite
  <2>4. IsFiniteSet(left) /\ Cardinality(left) = Cardinality(Lacking(Consumers, s, er)) - 1
    BY <2>2, <2>3, FS_RemoveElement
  <2>5. \A t \in Tokens(Consumers) : Arrivals(t[1], t[2], s)' = er <=> t \in left
    BY <1>4, LackingOneLess
  <2> QED BY <2>1, <2>4, <2>5
<1>7. \A a \in Actor : \A j \in Kinds[a] :
        <<a, j>> # <<c, k>> => Arrivals(a, j, s)' = Arrivals(a, j, s)
  BY <1>3, ArrivalCounts
<1>8. \A p \in Producers : \A j \in Kinds[p] : Arrivals(p, j, s)' = Arrivals(p, j, s)
  BY <1>7, ActorAssumption DEF Actor
<1>9. /\ full'[s].pending = Cardinality(Lacking(Producers, s, fr))
      /\ full'[s].pending # 0 \/ full'[s].tx # 0
      /\ IsFiniteSet(inflight'[s]) /\ full'[s].tx = Cardinality(inflight'[s])
  BY DEF SlotInv, CountInv
<1>10. Lacking(Producers, s, full[s].phase)' = Lacking(Producers, s, fr)
  BY <1>8 DEF Lacking, Tokens
<1>11. \A p \in Producers :
         /\ lap'[p][s] = fr
         /\ \A j \in Kinds[p] : Arrivals(p, j, s)' \in {fr, fr + 1}
  <2> SUFFICES ASSUME NEW p \in Producers
               PROVE  /\ lap[p][s] = fr
                      /\ \A j \in Kinds[p] : Arrivals(p, j, s) \in {fr, fr + 1}
    BY <1>1, <1>8 DEF Actor
  <2>1. /\ lap[p][s] \in {er, er + 1}
        /\ \A j \in Kinds[p] : Arrivals(p, j, s) \in {fr, fr + 1}
    BY DEF SlotInv, LapInv
  <2>2. PICK j \in Kinds[p] : TRUE BY KindsAssumption
  <2>3. Arrivals(p, j, s) <= lap[p][s] BY <1>1 DEF Arrivals, Actor
  <2> QED BY <1>2, <1>4, <2>1, <2>2, <2>3
<1>12. \A d \in Consumers : lap'[d][s] <= fr
  BY <1>1 DEF SlotInv, LapInv, Actor
<1>13. \A d \in Consumers : \A j \in Kinds[d] : Arrivals(d, j, s)' \in {er, er + 1}
  <2> SUFFICES ASSUME NEW d \in Consumers, NEW j \in Kinds[d]
               PROVE  Arrivals(d, j, s)' \in {er, er + 1}
    OBVIOUS
  <2>1. CASE <<d, j>> = <<c, k>> BY <2>1, <1>5
  <2>2. CASE <<d, j>> # <<c, k>>
    BY <2>2, <1>7 DEF SlotInv, LapInv, Actor
  <2> QED BY <2>1, <2>2
<1>14. EngineInv(s)'
  <2>1. \A t \in inflight[s] : "TMALoad" \in Kinds[t[1]] \ owed'[t[1]][s]
                               /\ Arrivals(t[1], "TMALoad", s)' = full'[s].phase + 1
    BY <1>1, <1>8 DEF SlotInv, EngineInv
  <2> QED BY <2>1 DEF EngineInv
<1>type. empty'[s] \in [count : {ArrivalCount(Consumers)}, phase : Nat, pending : Nat, tx : {0}]
  <2>1. empty[s].pending - 1 \in Nat BY <1>6, FS_CardinalityType
  <2>2. ArrivalCount(Consumers) \in Nat BY TokensFinite
  <2> QED BY <2>1, <2>2, <1>1 DEF BarrierExpect, Settle
<1>15. CASE empty[s].pending - 1 = 0
  <2>1. /\ empty'[s].phase = er + 1 /\ empty'[s].pending = ArrivalCount(Consumers)
    BY <1>15, <1>1 DEF BarrierExpect, Settle
  <2>2. left = {} BY <1>15, <1>6, FS_EmptySet
  <2>3. \A d \in Consumers : \A j \in Kinds[d] : Arrivals(d, j, s)' = er + 1
    <3> SUFFICES ASSUME NEW d \in Consumers, NEW j \in Kinds[d], Arrivals(d, j, s)' = er
                 PROVE  FALSE
      BY <1>13
    <3>1. <<d, j>> \in Tokens(Consumers) BY KindsAssumption DEF Tokens
    <3> QED BY <3>1, <2>2, <1>6
  <2>4. Lacking(Consumers, s, empty[s].phase)' = Tokens(Consumers)
    BY <2>1, <2>3 DEF Lacking, Tokens
  <2>5. LapInv(s)'
    BY <1>2, <1>4, <1>11, <1>12, <2>1, <2>3 DEF LapInv
  <2>6. CountInv(s)'
    <3>1. empty'[s].pending = Cardinality(Tokens(Consumers)) /\ empty'[s].pending # 0
      BY <2>1, TokensFinite
    <3> QED BY <2>4, <3>1, <1>9, <1>10 DEF CountInv
  <2> QED BY <2>5, <2>6, <1>14, <1>type DEF SlotInv
<1>16. CASE empty[s].pending - 1 # 0
  <2>1. empty'[s].phase = er /\ empty'[s].pending = empty[s].pending - 1
    BY <1>16, <1>1 DEF BarrierExpect, Settle
  <2>2. Lacking(Consumers, s, empty[s].phase)' = left
    <3>1. Lacking(Consumers, s, empty[s].phase)'
            = {t \in Tokens(Consumers) : Arrivals(t[1], t[2], s)' = er}
      BY <2>1 DEF Lacking, Tokens
    <3>2. left \subseteq Tokens(Consumers) BY DEF Lacking
    <3> QED BY <3>1, <3>2, <1>6
  <2>3. LapInv(s)'
    BY <1>2, <1>4, <1>11, <1>12, <1>13, <2>1 DEF LapInv
  <2>4. CountInv(s)'
    BY <2>1, <2>2, <1>6, <1>9, <1>10, <1>16 DEF CountInv
  <2> QED BY <2>3, <2>4, <1>14, <1>type DEF SlotInv
<1> QED BY <1>15, <1>16

\* A TMA load completes.
LEMMA LoadLands ==
  ASSUME NEW s \in Stage, NEW t \in inflight[s], TypeOK, SlotInv(s),
         \A a \in Actor :
           /\ owed'[a][s] = owed[a][s] /\ lap'[a][s] = lap[a][s]
           /\ <<a, s>> \in commits' <=> <<a, s>> \in commits,
         empty'[s] = empty[s],
         inflight'[s] = inflight[s] \ {t},
         full'[s] = CompleteTx(full[s])
  PROVE  /\ SlotInv(s)'
         /\ full'[s] \in [count : {ArrivalCount(Producers)}, phase : Nat, pending : Nat, tx : Nat]
<1> DEFINE fr == full[s].phase
           er == empty[s].phase
<1>1. /\ full[s] \in [count : {ArrivalCount(Producers)}, phase : Nat, pending : Nat, tx : Nat]
      /\ empty[s] \in [count : {ArrivalCount(Consumers)}, phase : Nat, pending : Nat, tx : {0}]
      /\ \A a \in Actor : lap[a][s] \in Nat /\ lap'[a][s] = lap[a][s]
      /\ \A u \in inflight[s] : u[1] \in Producers
  <2>1. \A a \in Actor : lap[a][s] \in Nat BY DEF TypeOK
  <2>2. \A u \in inflight[s] : u[1] \in Producers BY DEF TypeOK
  <2> QED BY <2>1, <2>2 DEF TypeOK
<1>2. \A a \in Actor, k \in ProducerKinds \cup ConsumerKinds :
        Arrivals(a, k, s)' = Arrivals(a, k, s)
  BY DEF Arrivals, Unarrived
<1>3. \A a \in Actor : \A k \in Kinds[a] : Arrivals(a, k, s)' = Arrivals(a, k, s)
  BY <1>2, KindsAssumption DEF Actor
<1>4. IsFiniteSet(inflight'[s]) /\ full[s].tx - 1 = Cardinality(inflight'[s])
      /\ Cardinality(inflight'[s]) \in Nat
  BY FS_RemoveElement, FS_CardinalityType DEF SlotInv, CountInv
<1>5. t[1] \in Producers /\ "TMALoad" \in Kinds[t[1]] /\ Arrivals(t[1], "TMALoad", s) = fr + 1
  BY <1>1 DEF SlotInv, EngineInv
<1>6. er = fr
  <2>1. Arrivals(t[1], "TMALoad", s) <= lap[t[1]][s] BY <1>1, <1>5 DEF Arrivals, Actor
  <2> QED BY <2>1, <1>1, <1>5 DEF SlotInv, LapInv
<1>7. /\ empty'[s].pending = Cardinality(Lacking(Consumers, s, er))
      /\ empty'[s].pending # 0
      /\ full[s].pending = Cardinality(Lacking(Producers, s, fr))
  BY DEF SlotInv, CountInv
<1>8. Lacking(Consumers, s, empty[s].phase)' = Lacking(Consumers, s, er)
  BY <1>3 DEF Lacking, Tokens, Actor
<1>9. \A p \in Producers :
        /\ lap'[p][s] \in {er, er + 1}
        /\ \A j \in Kinds[p] : Arrivals(p, j, s)' \in {fr, fr + 1}
  BY <1>1, <1>3 DEF SlotInv, LapInv, Actor
<1>10. \A c \in Consumers :
         /\ lap'[c][s] <= fr
         /\ \A j \in Kinds[c] : Arrivals(c, j, s)' \in {er, er + 1}
  BY <1>1, <1>3 DEF SlotInv, LapInv, Actor
<1>11. \A a \in Actor : <<a, s>> \in commits' => "TC5MMA" \in Kinds[a] \ owed'[a][s]
  BY DEF SlotInv, EngineInv
<1>12. full'[s] \in [count : {ArrivalCount(Producers)}, phase : Nat, pending : Nat, tx : Nat]
  <2>1. full[s].tx - 1 \in Nat BY <1>4
  <2>2. [full[s] EXCEPT !.tx = @ - 1]
          \in [count : {ArrivalCount(Producers)}, phase : Nat, pending : Nat, tx : Nat]
    BY <2>1, <1>1
  <2> QED BY <2>2, TokensFinite DEF CompleteTx, Settle
<1>13. CASE full[s].pending = 0 /\ full[s].tx - 1 = 0
  <2>1. /\ full'[s].phase = fr + 1 /\ full'[s].tx = 0
        /\ full'[s].pending = ArrivalCount(Producers)
    BY <1>13, <1>1 DEF CompleteTx, Settle
  <2>2. Lacking(Producers, s, fr) = {} BY <1>13, <1>7, LackingFinite, FS_EmptySet
  <2>3. \A q \in Producers : \A j \in Kinds[q] : Arrivals(q, j, s)' = fr + 1
    <3> SUFFICES ASSUME NEW q \in Producers, NEW j \in Kinds[q], Arrivals(q, j, s) = fr
                 PROVE  FALSE
      BY <1>3, <1>9 DEF Actor
    <3>1. <<q, j>> \in Lacking(Producers, s, fr) BY KindsAssumption DEF Tokens, Lacking
    <3> QED BY <3>1, <2>2
  <2>4. Lacking(Producers, s, full[s].phase)' = Tokens(Producers)
    BY <2>1, <2>3 DEF Lacking, Tokens
  <2>5. inflight'[s] = {} BY <1>4, <1>13, FS_EmptySet
  <2>6. LapInv(s)'
    <3>1. \A q \in Producers : \A j \in Kinds[q] :
            Arrivals(q, j, s)' \in {full'[s].phase, full'[s].phase + 1}
      BY <2>1, <2>3
    <3>2. \A c \in Consumers : lap'[c][s] <= full'[s].phase
      BY <1>1, <1>10, <2>1 DEF Actor
    <3> QED BY <1>1, <1>6, <1>9, <1>10, <2>1, <3>1, <3>2 DEF LapInv
  <2>7. CountInv(s)'
    <3>1. full'[s].pending = Cardinality(Tokens(Producers)) /\ full'[s].pending # 0
      BY <2>1, TokensFinite
    <3>2. Cardinality(inflight'[s]) = 0 BY <2>5, FS_EmptySet
    <3> QED BY <2>1, <2>4, <3>1, <3>2, <1>4, <1>7, <1>8 DEF CountInv
  <2>8. EngineInv(s)' BY <2>5, <1>11 DEF EngineInv
  <2> QED BY <2>6, <2>7, <2>8, <1>12 DEF SlotInv
<1>14. CASE ~(full[s].pending = 0 /\ full[s].tx - 1 = 0)
  <2>1. /\ full'[s].phase = fr /\ full'[s].tx = full[s].tx - 1
        /\ full'[s].pending = full[s].pending
    BY <1>14, <1>1 DEF CompleteTx, Settle
  <2>2. Lacking(Producers, s, full[s].phase)' = Lacking(Producers, s, fr)
    BY <1>3, <2>1 DEF Lacking, Tokens, Actor
  <2>3. LapInv(s)' BY <1>1, <1>6, <1>9, <1>10, <2>1 DEF LapInv
  <2>4. CountInv(s)' BY <2>1, <2>2, <1>4, <1>7, <1>8, <1>14 DEF CountInv
  <2>5. EngineInv(s)'
    <3>1. ASSUME NEW u \in inflight[s]
          PROVE  /\ "TMALoad" \in Kinds[u[1]] \ owed'[u[1]][s]
                 /\ Arrivals(u[1], "TMALoad", s)' = full'[s].phase + 1
      <4>1. /\ u[1] \in Actor /\ owed'[u[1]][s] = owed[u[1]][s]
            /\ "TMALoad" \in Kinds[u[1]] \ owed[u[1]][s]
            /\ Arrivals(u[1], "TMALoad", s) = fr + 1
        BY <1>1 DEF SlotInv, EngineInv, Actor
      <4> QED BY <4>1, <1>3, <2>1
    <3> QED BY <3>1, <1>11 DEF EngineInv
  <2> QED BY <2>3, <2>4, <2>5, <1>12 DEF SlotInv
<1> QED BY <1>13, <1>14

\* No arrival at stage s, though regions may open or commits be issued there.
LEMMA ArrivalsKept ==
  ASSUME NEW s \in Stage, TypeOK, SlotInv(s),
         \A a \in Actor : \A k \in Kinds[a] : Arrivals(a, k, s)' = Arrivals(a, k, s),
         \A p \in Producers : lap'[p][s] \in {empty[s].phase, empty[s].phase + 1},
         \A c \in Consumers : lap'[c][s] <= full[s].phase,
         full'[s] = full[s], empty'[s] = empty[s], inflight'[s] = inflight[s],
         \A t \in inflight[s] : "TMALoad" \notin owed'[t[1]][s],
         \A a \in Actor : <<a, s>> \in commits' => "TC5MMA" \in Kinds[a] \ owed'[a][s]
  PROVE  SlotInv(s)'
<1>1. LapInv(s)' BY DEF SlotInv, LapInv, Actor
<1>2. CountInv(s)'
  <2>1. Lacking(Producers, s, full[s].phase)' = Lacking(Producers, s, full[s].phase)
    BY DEF Lacking, Tokens, Actor
  <2>2. Lacking(Consumers, s, empty[s].phase)' = Lacking(Consumers, s, empty[s].phase)
    BY DEF Lacking, Tokens, Actor
  <2> QED BY <2>1, <2>2 DEF SlotInv, CountInv
<1>3. EngineInv(s)'
  <2>1. ASSUME NEW t \in inflight[s]
        PROVE  /\ "TMALoad" \in Kinds[t[1]] \ owed'[t[1]][s]
               /\ Arrivals(t[1], "TMALoad", s)' = full[s].phase + 1
    <3>1. t[1] \in Producers BY DEF TypeOK
    <3>2. "TMALoad" \in Kinds[t[1]] /\ Arrivals(t[1], "TMALoad", s) = full[s].phase + 1
      BY DEF SlotInv, EngineInv
    <3> QED BY <3>1, <3>2 DEF Actor
  <2> QED BY <2>1 DEF EngineInv
<1> QED BY <1>1, <1>2, <1>3 DEF SlotInv

-----------------------------------------------------------------------------
(* The waits *)

LEMMA ParityFlips ==
  ASSUME NEW n \in Nat
  PROVE  (n + 1) % 2 = 1 - (n % 2)
OBVIOUS

\* put.enter passes only when the empty barrier has reached the producer's lap:
\* both sides have finished with the stage.
LEMMA PutGate ==
  ASSUME NEW p \in Producers, NEW s \in Stage, IInv, Enter(p, s, empty)
  PROVE  /\ lap[p][s] = empty[s].phase /\ full[s].phase = empty[s].phase
         /\ \A k \in Kinds[p] : ~Unarrived(p, k, s)
<1>1. /\ p \in Actor /\ stage[p] \in Stage /\ lap \in [Actor -> [Stage -> Nat]]
      /\ lap[p][s] \in Nat /\ lap[p][stage[p]] \in Nat /\ phase[p] \in {0, 1}
      /\ empty[s].phase \in Nat /\ full[s].phase \in Nat
  BY DEF IInv, TypeOK, Actor
<1>2. NextPhase(stage[p], phase[p]) = (lap[p][s] + 1) % 2
  <2>1. /\ lap[p][s] = IF s > stage[p] THEN lap[p][stage[p]] - 1 ELSE lap[p][stage[p]]
        /\ phase[p] = lap[p][stage[p]] % 2
    BY <1>1 DEF IInv, RegisterInv, InitPhase
  <2>2. s = NextStage(stage[p]) BY DEF Enter
  <2>3. CASE stage[p] + 1 = Depth
    <3>1. s = 0 /\ ~(s > stage[p])
      BY <2>2, <2>3, <1>1, ShapeAssumption DEF NextStage, Stage
    <3>2. lap[p][s] = lap[p][stage[p]] BY <2>1, <3>1
    <3> QED BY <3>2, <2>1, <2>3, <1>1, ParityFlips DEF NextPhase
  <2>4. CASE stage[p] + 1 # Depth
    <3>1. lap[p][s] = lap[p][stage[p]] - 1 BY <2>1, <2>2, <2>4, <1>1, ShapeAssumption DEF NextStage, Stage
    <3> QED BY <3>1, <2>1, <2>4, <1>1 DEF NextPhase
  <2> QED BY <2>3, <2>4
<1>3. empty[s].phase % 2 # (lap[p][s] + 1) % 2 BY <1>2 DEF Enter, WaitPasses
<1>4. LapInv(s) BY DEF IInv, SlotInv
<1>5. lap[p][s] = empty[s].phase BY <1>1, <1>3, <1>4 DEF LapInv
<1>6. \A k \in Kinds[p] : Arrivals(p, k, s) <= lap[p][s] /\ Arrivals(p, k, s) >= full[s].phase
  BY <1>1, <1>4 DEF LapInv, Arrivals
<1>7. PICK k \in Kinds[p] : TRUE BY KindsAssumption
<1>8. full[s].phase = empty[s].phase BY <1>1, <1>4, <1>5, <1>6, <1>7 DEF LapInv
<1>9. \A j \in Kinds[p] : ~Unarrived(p, j, s)
  BY <1>1, <1>5, <1>6, <1>8 DEF Arrivals
<1> QED BY <1>5, <1>8, <1>9

\* get.enter passes only when the full barrier is one ahead of the consumer.
LEMMA GetGate ==
  ASSUME NEW c \in Consumers, NEW s \in Stage, IInv, Enter(c, s, full)
  PROVE  /\ lap[c][s] + 1 = full[s].phase /\ full[s].phase = empty[s].phase + 1
         /\ \A k \in Kinds[c] : ~Unarrived(c, k, s)
<1>1. /\ c \in Actor /\ c \notin Producers /\ stage[c] \in Stage
      /\ lap[c][s] \in Nat /\ lap[c][stage[c]] \in Nat /\ phase[c] \in {0, 1}
      /\ empty[s].phase \in Nat /\ full[s].phase \in Nat
  BY ActorAssumption DEF IInv, TypeOK, Actor
<1>2. NextPhase(stage[c], phase[c]) = lap[c][s] % 2
  <2>1. /\ lap[c][s] = IF s > stage[c] THEN lap[c][stage[c]] - 1 ELSE lap[c][stage[c]]
        /\ phase[c] = (lap[c][stage[c]] + 1) % 2
    BY <1>1 DEF IInv, RegisterInv, InitPhase
  <2>2. s = NextStage(stage[c]) BY DEF Enter
  <2>3. CASE stage[c] + 1 = Depth
    <3>1. lap[c][s] = lap[c][stage[c]] BY <2>1, <2>2, <2>3, <1>1, ShapeAssumption DEF NextStage, Stage
    <3> QED BY <3>1, <2>1, <2>3, <1>1 DEF NextPhase
  <2>4. CASE stage[c] + 1 # Depth
    <3>1. lap[c][s] = lap[c][stage[c]] - 1 BY <2>1, <2>2, <2>4, <1>1, ShapeAssumption DEF NextStage, Stage
    <3> QED BY <3>1, <2>1, <2>4, <1>1 DEF NextPhase
  <2> QED BY <2>3, <2>4
<1>3. full[s].phase % 2 # lap[c][s] % 2 BY <1>2 DEF Enter, WaitPasses
<1>4. LapInv(s) BY DEF IInv, SlotInv
<1>5. \A k \in Kinds[c] : Arrivals(c, k, s) <= lap[c][s] /\ Arrivals(c, k, s) >= empty[s].phase
  BY <1>1, <1>4 DEF LapInv, Arrivals
<1>6. PICK k \in Kinds[c] : TRUE BY KindsAssumption
<1>7. lap[c][s] >= empty[s].phase BY <1>1, <1>4, <1>5, <1>6 DEF LapInv
<1>8. lap[c][s] + 1 = full[s].phase BY <1>1, <1>3, <1>4, <1>7 DEF LapInv
<1>9. full[s].phase = empty[s].phase + 1 BY <1>1, <1>4, <1>7, <1>8 DEF LapInv
<1>10. \A j \in Kinds[c] : ~Unarrived(c, j, s)
  BY <1>1, <1>5, <1>8, <1>9 DEF Arrivals
<1> QED BY <1>8, <1>9, <1>10

-----------------------------------------------------------------------------
(* The steps.  In each, stage s is the one the step works on and the other     *)
(* stages keep their invariant by SlotFrame.                                   *)

\* Entering a region disturbs no arrival: the partition had none left to make.
LEMMA EnterSlot ==
  ASSUME NEW a \in Actor, NEW s \in Stage, NEW bars, IInv, Enter(a, s, bars),
         \A k \in Kinds[a] : ~Unarrived(a, k, s),
         a \in Producers => lap[a][s] = empty[s].phase,
         a \in Consumers => lap[a][s] + 1 = full[s].phase,
         a \in Producers => full[s].phase = empty[s].phase
  PROVE  \A r \in Stage : SlotInv(r)'
<1>1. /\ owed \in [Actor -> [Stage -> SUBSET (ProducerKinds \cup ConsumerKinds)]]
      /\ lap \in [Actor -> [Stage -> Nat]]
      /\ \A r \in Stage : SlotInv(r)
      /\ \A r \in Stage : empty[r].phase \in Nat /\ full[r].phase \in Nat
  BY DEF IInv, TypeOK
<1>2. /\ owed' = [owed EXCEPT ![a][s] = Kinds[a]] /\ lap' = [lap EXCEPT ![a][s] = @ + 1]
      /\ commits' = commits /\ inflight' = inflight /\ full' = full /\ empty' = empty
  BY DEF Enter
<1>3. ASSUME NEW r \in Stage, r # s PROVE SlotInv(r)'
  <2>1. SameSlot(r) BY <1>1, <1>2, <1>3 DEF SameSlot
  <2> QED BY <2>1, <1>1, SlotFrame DEF IInv
<1>4. SlotInv(s)'
  <2>1. /\ owed'[a][s] = Kinds[a] /\ lap'[a][s] = lap[a][s] + 1
        /\ \A b \in Actor \ {a} : owed'[b][s] = owed[b][s] /\ lap'[b][s] = lap[b][s]
    BY <1>1, <1>2
  <2>2. \A k \in Kinds[a] : Arrivals(a, k, s)' = Arrivals(a, k, s)
    <3> SUFFICES ASSUME NEW k \in Kinds[a]
                 PROVE  Arrivals(a, k, s)' = Arrivals(a, k, s)
      OBVIOUS
    <3>1. Arrivals(a, k, s) = lap[a][s] /\ lap[a][s] \in Nat BY <1>1 DEF Arrivals
    <3>2. Unarrived(a, k, s)' BY <2>1 DEF Unarrived
    <3> QED BY <2>1, <3>1, <3>2 DEF Arrivals
  <2>3. \A b \in Actor \ {a} : \A k \in Kinds[b] : Arrivals(b, k, s)' = Arrivals(b, k, s)
    BY <2>1, <1>2 DEF Arrivals, Unarrived
  <2>4. \A p \in Producers : lap'[p][s] \in {empty[s].phase, empty[s].phase + 1}
    BY <1>1, <2>1 DEF SlotInv, LapInv, Actor
  <2>5. \A c \in Consumers : lap'[c][s] <= full[s].phase
    BY <1>1, <2>1 DEF SlotInv, LapInv, Actor
  <2>6. \A t \in inflight[s] : "TMALoad" \notin owed'[t[1]][s]
    <3> SUFFICES ASSUME NEW t \in inflight[s] PROVE "TMALoad" \notin owed'[t[1]][s]
      OBVIOUS
    <3>1. /\ t[1] \in Producers
          /\ "TMALoad" \in Kinds[t[1]] \ owed[t[1]][s]
          /\ Arrivals(t[1], "TMALoad", s) = full[s].phase + 1
      <4>1. t[1] \in Producers BY DEF IInv, TypeOK
      <4> QED BY <4>1, <1>1 DEF SlotInv, EngineInv
    <3>2. t[1] # a
      <4>1. Arrivals(t[1], "TMALoad", s) <= lap[t[1]][s] BY <1>1, <3>1 DEF Arrivals, Actor
      <4> QED BY <4>1, <3>1, <1>1
    <3> QED BY <2>1, <3>1, <3>2 DEF Actor
  <2>7. \A b \in Actor : <<b, s>> \in commits' => "TC5MMA" \in Kinds[b] \ owed'[b][s]
    <3> SUFFICES ASSUME NEW b \in Actor, <<b, s>> \in commits
                 PROVE  "TC5MMA" \in Kinds[b] \ owed'[b][s]
      BY <1>2
    <3>1. "TC5MMA" \in Kinds[b] \ owed[b][s] BY <1>1 DEF SlotInv, EngineInv
    <3>2. b # a BY <3>1 DEF Unarrived
    <3> QED BY <2>1, <3>1, <3>2
  <2>8. \A b \in Actor : \A k \in Kinds[b] : Arrivals(b, k, s)' = Arrivals(b, k, s)
    BY <2>2, <2>3
  <2> QED BY <1>1, <1>2, <2>4, <2>5, <2>6, <2>7, <2>8, ArrivalsKept DEF IInv
<1> QED BY <1>3, <1>4

LEMMA EnterRegisters ==
  ASSUME NEW a \in Actor, NEW s \in Stage, NEW bars, IInv, Enter(a, s, bars)
  PROVE  /\ TypeOK'
         /\ \A b \in Actor : RegisterInv(b)'
<1>1. /\ TypeOK /\ \A b \in Actor : RegisterInv(b) BY DEF IInv
<1>2. /\ iter[a] < Trips /\ s = NextStage(stage[a])
      /\ iter' = [iter EXCEPT ![a] = @ + 1]
      /\ stage' = [stage EXCEPT ![a] = s]
      /\ phase' = [phase EXCEPT ![a] = NextPhase(stage[a], phase[a])]
      /\ owed' = [owed EXCEPT ![a][s] = Kinds[a]]
      /\ lap' = [lap EXCEPT ![a][s] = @ + 1]
      /\ commits' = commits /\ inflight' = inflight /\ full' = full /\ empty' = empty
  BY DEF Enter
<1>3. TypeOK'
  <2>1. iter' \in [Actor -> 0 .. Trips] BY <1>1, <1>2, ShapeAssumption DEF TypeOK
  <2>2. stage' \in [Actor -> Stage] BY <1>1, <1>2 DEF TypeOK
  <2>3. phase' \in [Actor -> {0, 1}] BY <1>1, <1>2 DEF TypeOK, NextPhase
  <2>4. Kinds[a] \subseteq ProducerKinds \cup ConsumerKinds BY KindsAssumption DEF Actor
  <2>5. owed' \in [Actor -> [Stage -> SUBSET (ProducerKinds \cup ConsumerKinds)]]
    BY <1>1, <1>2, <2>4 DEF TypeOK
  <2>6. \A b \in Actor, r \in Stage : owed'[b][r] \subseteq Kinds[b]
    BY <1>1, <1>2 DEF TypeOK
  <2>7. lap' \in [Actor -> [Stage -> Nat]] BY <1>1, <1>2 DEF TypeOK
  <2> QED BY <1>1, <1>2, <2>1, <2>2, <2>3, <2>5, <2>6, <2>7 DEF TypeOK
<1>4. ASSUME NEW b \in Actor, b # a PROVE RegisterInv(b)'
  <2>1. stage'[b] = stage[b] /\ phase'[b] = phase[b] /\ lap'[b] = lap[b]
    BY <1>1, <1>2, <1>4 DEF TypeOK
  <2> QED BY <1>1, <2>1 DEF RegisterInv
<1>5. RegisterInv(a)'
  <2> DEFINE L == lap[a][stage[a]]
  <2>1. /\ stage[a] \in Stage /\ L \in Nat /\ phase[a] \in {0, 1} /\ InitPhase(a) \in {0, 1}
        /\ \A r \in Stage : lap[a][r] \in Nat
        /\ Depth \in Nat \ {0}
    BY <1>1, ShapeAssumption DEF TypeOK, InitPhase
  <2>2. /\ \A r \in Stage : lap[a][r] = IF r > stage[a] THEN L - 1 ELSE L
        /\ phase[a] = (L + InitPhase(a)) % 2
    BY <1>1 DEF RegisterInv
  <2>3. /\ stage'[a] = s /\ phase'[a] = NextPhase(stage[a], phase[a])
        /\ lap'[a][s] = lap[a][s] + 1
        /\ \A r \in Stage \ {s} : lap'[a][r] = lap[a][r]
    BY <1>1, <1>2 DEF TypeOK
  <2>4. CASE stage[a] + 1 = Depth
    <3>1. s = 0 /\ \A r \in Stage : r <= stage[a] BY <1>2, <2>1, <2>4 DEF NextStage, Stage
    <3>2. \A r \in Stage : lap[a][r] = L BY <2>1, <2>2, <3>1 DEF Stage
    <3>3. \A r \in Stage : lap'[a][r] = IF r > s THEN lap'[a][s] - 1 ELSE lap'[a][s]
      <4>1. lap'[a][s] = L + 1 /\ lap'[a][s] - 1 = L BY <2>1, <2>3, <3>2
      <4>2. \A r \in Stage : r # s => r > s /\ lap'[a][r] = L BY <2>3, <3>1, <3>2 DEF Stage
      <4>3. ~(s > s) BY <3>1
      <4> TAKE r \in Stage
      <4>4. CASE r = s BY <4>3, <4>4
      <4>5. CASE r # s
        <5>1. r > s /\ lap'[a][r] = L BY <4>2, <4>5
        <5> HIDE DEF L
        <5> QED BY ONLY <4>1, <5>1
      <4> QED BY <4>4, <4>5
    <3>4. phase'[a] = 1 - phase[a] /\ lap'[a][s] = L + 1
      BY <2>3, <2>4, <3>2 DEF NextPhase
    <3>5. (L + 1 + InitPhase(a)) % 2 = 1 - ((L + InitPhase(a)) % 2)
      <4>1. L + InitPhase(a) \in Nat BY <2>1
      <4>2. L + 1 + InitPhase(a) = (L + InitPhase(a)) + 1 BY <2>1
      <4> HIDE DEF L
      <4> QED BY <4>1, <4>2, ParityFlips
    <3>6. phase'[a] = (lap'[a][stage'[a]] + InitPhase(a)) % 2
      <4>1. lap'[a][stage'[a]] = L + 1 BY <2>3, <3>4
      <4>2. phase'[a] = 1 - ((L + InitPhase(a)) % 2) BY <2>2, <3>4
      <4> HIDE DEF L
      <4> QED BY <4>1, <4>2, <3>5
    <3> QED BY <2>3, <3>3, <3>6 DEF RegisterInv, InitPhase
  <2>5. CASE stage[a] + 1 # Depth
    <3>1. s = stage[a] + 1 BY <1>2, <2>5 DEF NextStage
    <3>2. lap[a][s] = L - 1 BY <2>1, <2>2, <3>1 DEF Stage
    <3>3. lap'[a][s] = L BY <2>1, <2>3, <3>2
    <3>4. \A r \in Stage : lap'[a][r] = IF r > s THEN lap'[a][s] - 1 ELSE lap'[a][s]
      <4> TAKE r \in Stage
      <4>1. r \in Nat /\ s \in Nat /\ stage[a] \in Nat BY <2>1 DEF Stage
      <4>2. CASE r = s BY <3>3, <4>1, <4>2
      <4>3. CASE r # s
        <5>1. r > s <=> r > stage[a] BY <3>1, <4>1, <4>3
        <5>2. lap'[a][r] = lap[a][r] /\ lap[a][r] = IF r > stage[a] THEN L - 1 ELSE L
          BY <2>2, <2>3, <4>3
        <5> QED BY <3>3, <5>1, <5>2
      <4> QED BY <4>2, <4>3
    <3>5. phase'[a] = phase[a] BY <2>3, <2>5 DEF NextPhase
    <3>6. phase'[a] = (lap'[a][stage'[a]] + InitPhase(a)) % 2
      BY <2>2, <2>3, <3>3, <3>5
    <3> QED BY <2>3, <3>4, <3>6 DEF RegisterInv, InitPhase
  <2> QED BY <2>4, <2>5
<1> QED BY <1>3, <1>4, <1>5

\* A step that leaves the registers and laps alone keeps what they encode.
LEMMA RegistersKept ==
  ASSUME IInv, stage' = stage, phase' = phase, lap' = lap
  PROVE  \A a \in Actor : RegisterInv(a)'
BY DEF IInv, RegisterInv

LEMMA IssueLoadsInv ==
  ASSUME NEW p \in Producers, IInv, IssueLoads(p)
  PROVE  IInv'
<1> DEFINE K == "TMALoad"
           batch == {p} \X Loads[p]
<1>0. PICK s \in Stage : s = stage[p] BY DEF IInv, TypeOK, Actor
<1>1. /\ TypeOK /\ p \in Actor /\ s \in Stage /\ SlotInv(s)
      /\ owed \in [Actor -> [Stage -> SUBSET (ProducerKinds \cup ConsumerKinds)]]
      /\ full \in [Stage -> [count : {ArrivalCount(Producers)}, phase : Nat, pending : Nat, tx : Nat]]
      /\ inflight \in [Stage -> SUBSET (Producers \X UNION {Loads[q] : q \in Producers})]
  BY DEF IInv, TypeOK, Actor
<1>2. /\ K \in owed[p][s]
      /\ owed' = [owed EXCEPT ![p][s] = @ \ {K}]
      /\ full' = [full EXCEPT ![s] = BarrierExpect(@, Cardinality(Loads[p]))]
      /\ inflight' = [inflight EXCEPT ![s] = @ \cup batch]
      /\ iter' = iter /\ stage' = stage /\ phase' = phase /\ commits' = commits
      /\ empty' = empty /\ lap' = lap
  BY <1>0 DEF IssueLoads, InPutEnter
<1>3. /\ owed'[p][s] = owed[p][s] \ {K}
      /\ full'[s] = BarrierExpect(full[s], Cardinality(Loads[p]))
      /\ inflight'[s] = inflight[s] \cup batch
      /\ \A b \in Actor \ {p} : owed'[b][s] = owed[b][s]
  BY <1>1, <1>2
<1>4. K \in Kinds[p] BY <1>1, <1>2 DEF TypeOK
<1>5. OneArrival(p, K, s)
  <2>1. Unarrived(p, K, s) /\ ~Unarrived(p, K, s)' BY <1>2, <1>3 DEF Unarrived
  <2>2. ASSUME NEW b \in Actor, NEW j, <<b, j>> # <<p, K>>
        PROVE  Unarrived(b, j, s)' <=> Unarrived(b, j, s)
    BY <1>2, <1>3, <2>2 DEF Unarrived
  <2> QED BY <1>2, <2>1, <2>2 DEF OneArrival
<1>6. IsFiniteSet(Loads[p]) /\ Cardinality(Loads[p]) \in Nat
  BY LoadsAssumption, FS_CardinalityType
<1>7. IsFiniteSet(batch) /\ Cardinality(batch) = Cardinality(Loads[p])
  <2>1. IsFiniteSet({p}) /\ Cardinality({p}) = 1 BY FS_Singleton
  <2>2. IsFiniteSet(batch) /\ Cardinality(batch) = Cardinality({p}) * Cardinality(Loads[p])
    BY <2>1, <1>6, FS_Product
  <2> QED BY <2>1, <2>2, <1>6
<1>8. inflight[s] \cap batch = {}
  <2> SUFFICES ASSUME NEW t \in inflight[s], t \in batch PROVE FALSE OBVIOUS
  <2>1. K \notin owed[t[1]][s] BY <1>1 DEF SlotInv, EngineInv
  <2> QED BY <2>1, <1>2
<1>9. /\ IsFiniteSet(inflight'[s])
      /\ Cardinality(inflight'[s]) = Cardinality(inflight[s]) + Cardinality(Loads[p])
  <2>1. IsFiniteSet(inflight[s]) BY <1>1 DEF SlotInv, CountInv
  <2>2. Cardinality(inflight[s]) \in Nat BY <2>1, FS_CardinalityType
  <2>3. Cardinality(inflight[s] \cap batch) = 0 BY <1>8, FS_EmptySet
  <2>4. /\ IsFiniteSet(inflight[s] \cup batch)
        /\ Cardinality(inflight[s] \cup batch)
             = Cardinality(inflight[s]) + Cardinality(batch) - Cardinality(inflight[s] \cap batch)
    BY <2>1, <1>7, FS_Union
  <2> QED BY <1>3, <1>6, <1>7, <2>2, <2>3, <2>4
<1>10. \A t \in inflight'[s] : t[1] \in Producers
  <2>1. \A t \in inflight[s] : t[1] \in Producers BY <1>1
  <2> QED BY <1>3, <2>1
<1>11. \A t \in inflight'[s] : K \in Kinds[t[1]] \ owed'[t[1]][s]
  <2> SUFFICES ASSUME NEW t \in inflight'[s] PROVE K \in Kinds[t[1]] \ owed'[t[1]][s]
    OBVIOUS
  <2>1. CASE t \in batch BY <2>1, <1>3, <1>4
  <2>2. CASE t \in inflight[s]
    <3>1. K \in Kinds[t[1]] \ owed[t[1]][s] BY <1>1, <2>2 DEF SlotInv, EngineInv
    <3>2. t[1] \in Actor BY <1>10 DEF Actor
    <3> QED BY <3>1, <3>2, <1>3
  <2> QED BY <2>1, <2>2, <1>3
<1>12. \A a \in Actor : <<a, s>> \in commits' => "TC5MMA" \in Kinds[a] \ owed'[a][s]
  <2>1. \A a \in Actor : <<a, s>> \in commits => "TC5MMA" \in Kinds[a] \ owed[a][s]
    BY <1>1 DEF SlotInv, EngineInv
  <2> QED BY <2>1, <1>2, <1>3
<1>13. /\ SlotInv(s)'
       /\ full'[s] \in [count : {ArrivalCount(Producers)}, phase : Nat, pending : Nat, tx : Nat]
  <2>1. empty'[s] = empty[s] /\ inflight[s] \subseteq inflight'[s] BY <1>2, <1>3
  <2>2. \A t \in inflight'[s] \ inflight[s] : t[1] = p /\ K = "TMALoad" BY <1>3
  <2> HIDE DEF batch
  <2> QED BY <1>1, <1>3, <1>4, <1>5, <1>6, <1>9, <1>10, <1>11, <1>12, <2>1, <2>2, ProducerArrives
<1>14. ASSUME NEW r \in Stage, r # s PROVE SlotInv(r)'
  <2>1. SameSlot(r) BY <1>1, <1>2, <1>14 DEF SameSlot
  <2> QED BY <2>1, SlotFrame DEF IInv
<1>15. TypeOK'
  <2>1. owed' \in [Actor -> [Stage -> SUBSET (ProducerKinds \cup ConsumerKinds)]]
    BY <1>1, <1>2
  <2>2. \A a \in Actor, r \in Stage : owed'[a][r] \subseteq Kinds[a]
    BY <1>1, <1>2 DEF TypeOK
  <2>3. batch \subseteq Producers \X UNION {Loads[q] : q \in Producers} OBVIOUS
  <2>4. inflight' \in [Stage -> SUBSET (Producers \X UNION {Loads[q] : q \in Producers})]
    BY <1>1, <1>2, <2>3
  <2>5. full' \in [Stage -> [count : {ArrivalCount(Producers)}, phase : Nat, pending : Nat, tx : Nat]]
    BY <1>1, <1>2, <1>13
  <2> QED BY <1>1, <1>2, <2>1, <2>2, <2>4, <2>5 DEF TypeOK
<1>16. \A a \in Actor : RegisterInv(a)' BY <1>2, RegistersKept
<1> QED BY <1>13, <1>14, <1>15, <1>16 DEF IInv

LEMMA LoadDoneInv ==
  ASSUME NEW p \in Actor, NEW s \in Stage, NEW l, IInv, LoadDone(p, s, l)
  PROVE  IInv'
<1>1. /\ TypeOK /\ SlotInv(s)
      /\ full \in [Stage -> [count : {ArrivalCount(Producers)}, phase : Nat, pending : Nat, tx : Nat]]
      /\ inflight \in [Stage -> SUBSET (Producers \X UNION {Loads[q] : q \in Producers})]
  BY DEF IInv, TypeOK
<1>2. /\ <<p, l>> \in inflight[s]
      /\ inflight' = [inflight EXCEPT ![s] = @ \ {<<p, l>>}]
      /\ full' = [full EXCEPT ![s] = CompleteTx(@)]
      /\ iter' = iter /\ stage' = stage /\ phase' = phase /\ owed' = owed
      /\ commits' = commits /\ empty' = empty /\ lap' = lap
  BY DEF LoadDone
<1>3. inflight'[s] = inflight[s] \ {<<p, l>>} /\ full'[s] = CompleteTx(full[s])
  BY <1>1, <1>2
<1>4. /\ SlotInv(s)'
      /\ full'[s] \in [count : {ArrivalCount(Producers)}, phase : Nat, pending : Nat, tx : Nat]
  BY <1>1, <1>2, <1>3, LoadLands
<1>5. ASSUME NEW r \in Stage, r # s PROVE SlotInv(r)'
  <2>1. SameSlot(r) BY <1>1, <1>2, <1>5 DEF SameSlot
  <2> QED BY <2>1, SlotFrame DEF IInv
<1>6. TypeOK'
  <2>1. inflight' \in [Stage -> SUBSET (Producers \X UNION {Loads[q] : q \in Producers})]
    BY <1>1, <1>2
  <2>2. full' \in [Stage -> [count : {ArrivalCount(Producers)}, phase : Nat, pending : Nat, tx : Nat]]
    BY <1>1, <1>2, <1>4
  <2> QED BY <1>1, <1>2, <2>1, <2>2 DEF TypeOK
<1>7. \A a \in Actor : RegisterInv(a)' BY <1>2, RegistersKept
<1> QED BY <1>4, <1>5, <1>6, <1>7 DEF IInv

\* A step that makes one arrival and nothing else: the arrive of a put.exit or
\* get.exit, or the one a tcgen05.commit makes when it completes.
LEMMA SignalInv ==
  ASSUME NEW a \in Actor, NEW k \in Kinds[a], NEW s \in Stage, IInv,
         OneArrival(a, k, s), Signal(a, s),
         iter' = iter, stage' = stage, phase' = phase, lap' = lap, inflight' = inflight,
         \A b \in Actor, r \in Stage : owed'[b][r] \subseteq owed[b][r],
         \A b \in Actor, r \in Stage \ {s} :
           owed'[b][r] = owed[b][r] /\ (<<b, r>> \in commits' <=> <<b, r>> \in commits),
         \A b \in Actor : <<b, s>> \in commits' => "TC5MMA" \in Kinds[b] \ owed'[b][s],
         commits' \subseteq commits,
         owed' \in [Actor -> [Stage -> SUBSET (ProducerKinds \cup ConsumerKinds)]]
  PROVE  IInv'
<1>1. /\ TypeOK /\ SlotInv(s)
      /\ full \in [Stage -> [count : {ArrivalCount(Producers)}, phase : Nat, pending : Nat, tx : Nat]]
      /\ empty \in [Stage -> [count : {ArrivalCount(Consumers)}, phase : Nat, pending : Nat, tx : {0}]]
  BY DEF IInv, TypeOK
<1>2. \A b \in Actor, r \in Stage : owed'[b][r] \subseteq Kinds[b] BY <1>1 DEF TypeOK
<1>3. \A b \in Actor : RegisterInv(b)' BY RegistersKept
<1>4. ASSUME NEW r \in Stage, r # s PROVE SlotInv(r)'
  <2>1. full'[r] = full[r] /\ empty'[r] = empty[r] BY <1>1, <1>4 DEF Signal
  <2>2. SameSlot(r) BY <1>4, <2>1 DEF SameSlot
  <2> QED BY <2>2, SlotFrame DEF IInv
<1>5. CASE a \in Producers
  <2>1. full' = [full EXCEPT ![s] = BarrierExpect(@, 0)] /\ empty' = empty
    BY <1>5 DEF Signal, ArriveBarrier
  <2>2. full'[s] = BarrierExpect(full[s], 0) /\ empty'[s] = empty[s] BY <1>1, <2>1
  <2>3. IsFiniteSet(inflight[s]) /\ Cardinality(inflight[s]) \in Nat
    BY <1>1, FS_CardinalityType DEF SlotInv, CountInv
  <2>4. \A t \in inflight'[s] : t[1] \in Producers BY <1>1 DEF TypeOK
  <2>5. \A t \in inflight'[s] : "TMALoad" \in Kinds[t[1]] \ owed'[t[1]][s]
    <3> SUFFICES ASSUME NEW t \in inflight[s] PROVE "TMALoad" \in Kinds[t[1]] \ owed'[t[1]][s]
      OBVIOUS
    <3>1. "TMALoad" \in Kinds[t[1]] \ owed[t[1]][s] BY <1>1 DEF SlotInv, EngineInv
    <3>2. t[1] \in Actor BY <2>4 DEF Actor
    <3> QED BY <3>1, <3>2
  <2>6. Cardinality(inflight'[s]) = Cardinality(inflight[s]) + 0 BY <2>3
  <2>7. /\ SlotInv(s)'
        /\ full'[s] \in [count : {ArrivalCount(Producers)}, phase : Nat, pending : Nat, tx : Nat]
    BY <1>1, <1>5, <2>2, <2>3, <2>4, <2>5, <2>6, ProducerArrives
  <2>8. full' \in [Stage -> [count : {ArrivalCount(Producers)}, phase : Nat, pending : Nat, tx : Nat]]
    BY <1>1, <2>1, <2>7
  <2>9. TypeOK' BY <1>1, <1>2, <2>1, <2>8 DEF TypeOK
  <2> QED BY <1>3, <1>4, <2>7, <2>9 DEF IInv
<1>6. CASE a \notin Producers
  <2>1. empty' = [empty EXCEPT ![s] = BarrierExpect(@, 0)] /\ full' = full /\ a \in Consumers
    BY <1>6 DEF Signal, ArriveBarrier, Actor
  <2>2. empty'[s] = BarrierExpect(empty[s], 0) /\ full'[s] = full[s] BY <1>1, <2>1
  <2>3. \A p \in Producers : owed'[p][s] = owed[p][s]
    <3> SUFFICES ASSUME NEW p \in Producers PROVE owed'[p][s] = owed[p][s]
      OBVIOUS
    <3>0. owed'[p][s] \subseteq owed[p][s] BY DEF Actor
    <3> SUFFICES ASSUME NEW j \in owed[p][s] PROVE j \in owed'[p][s]
      BY <3>0
    <3>1. p \in Actor /\ j \in Kinds[p] /\ j \in ProducerKinds \cup ConsumerKinds
      BY <1>1 DEF TypeOK, Actor
    <3>2. Unarrived(p, j, s)' BY <1>6, <3>1 DEF OneArrival, Unarrived
    <3>3. j = "TC5MMA" => <<p, s>> \notin commits
      BY <1>1, <3>1 DEF SlotInv, EngineInv
    <3> QED BY <3>2, <3>3 DEF Unarrived
  <2>4. /\ SlotInv(s)'
        /\ empty'[s] \in [count : {ArrivalCount(Consumers)}, phase : Nat, pending : Nat, tx : {0}]
    BY <1>1, <2>1, <2>2, <2>3, ConsumerArrives
  <2>5. empty' \in [Stage -> [count : {ArrivalCount(Consumers)}, phase : Nat, pending : Nat, tx : {0}]]
    BY <1>1, <2>1, <2>4
  <2>6. TypeOK' BY <1>1, <1>2, <2>1, <2>5 DEF TypeOK
  <2> QED BY <1>3, <1>4, <2>4, <2>6 DEF IInv
<1> QED BY <1>5, <1>6

LEMMA ExitArriveInv ==
  ASSUME NEW a \in Actor, NEW s \in Stage, NEW k, IInv, ExitArrive(a, s, k)
  PROVE  IInv'
<1>1. /\ TypeOK /\ SlotInv(s)
      /\ owed \in [Actor -> [Stage -> SUBSET (ProducerKinds \cup ConsumerKinds)]]
  BY DEF IInv, TypeOK
<1>2. /\ k \in owed[a][s] /\ k # "TC5MMA" /\ k # "TMALoad"
      /\ owed' = [owed EXCEPT ![a][s] = @ \ {k}] /\ Signal(a, s)
      /\ iter' = iter /\ stage' = stage /\ phase' = phase /\ commits' = commits
      /\ inflight' = inflight /\ lap' = lap
  BY DEF ExitArrive
<1>3. /\ owed'[a][s] = owed[a][s] \ {k}
      /\ \A b \in Actor \ {a}, r \in Stage : owed'[b][r] = owed[b][r]
      /\ \A b \in Actor, r \in Stage \ {s} : owed'[b][r] = owed[b][r]
      /\ owed' \in [Actor -> [Stage -> SUBSET (ProducerKinds \cup ConsumerKinds)]]
  BY <1>1, <1>2
<1>4. k \in Kinds[a] BY <1>1, <1>2 DEF TypeOK
<1>5. OneArrival(a, k, s)
  <2>1. Unarrived(a, k, s) /\ ~Unarrived(a, k, s)' BY <1>2, <1>3 DEF Unarrived
  <2>2. ASSUME NEW b \in Actor, NEW j, <<b, j>> # <<a, k>>
        PROVE  Unarrived(b, j, s)' <=> Unarrived(b, j, s)
    BY <1>2, <1>3, <2>2 DEF Unarrived
  <2> QED BY <1>2, <2>1, <2>2 DEF OneArrival
<1>6. \A b \in Actor, r \in Stage : owed'[b][r] \subseteq owed[b][r] BY <1>3
<1>7. \A b \in Actor : <<b, s>> \in commits' => "TC5MMA" \in Kinds[b] \ owed'[b][s]
  BY <1>1, <1>2, <1>6 DEF SlotInv, EngineInv
<1> QED BY <1>2, <1>3, <1>4, <1>5, <1>6, <1>7, SignalInv

LEMMA CommitDoneInv ==
  ASSUME NEW a \in Actor, NEW s \in Stage, IInv, CommitDone(a, s)
  PROVE  IInv'
<1>1. /\ TypeOK /\ SlotInv(s)
      /\ owed \in [Actor -> [Stage -> SUBSET (ProducerKinds \cup ConsumerKinds)]]
  BY DEF IInv, TypeOK
<1>2. /\ <<a, s>> \in commits /\ commits' = commits \ {<<a, s>>} /\ Signal(a, s)
      /\ iter' = iter /\ stage' = stage /\ phase' = phase /\ owed' = owed
      /\ inflight' = inflight /\ lap' = lap
  BY DEF CommitDone
<1>3. "TC5MMA" \in Kinds[a] \ owed[a][s] BY <1>1, <1>2 DEF SlotInv, EngineInv
<1>4. OneArrival(a, "TC5MMA", s)
  <2>1. Unarrived(a, "TC5MMA", s) /\ ~Unarrived(a, "TC5MMA", s)' BY <1>2, <1>3 DEF Unarrived
  <2>2. ASSUME NEW b \in Actor, NEW j, <<b, j>> # <<a, "TC5MMA">>
        PROVE  Unarrived(b, j, s)' <=> Unarrived(b, j, s)
    BY <1>2, <2>2 DEF Unarrived
  <2> QED BY <1>2, <2>1, <2>2 DEF OneArrival
<1>5. \A b \in Actor : <<b, s>> \in commits' => "TC5MMA" \in Kinds[b] \ owed'[b][s]
  BY <1>1, <1>2 DEF SlotInv, EngineInv
<1>6. \A b \in Actor, r \in Stage \ {s} : <<b, r>> \in commits' <=> <<b, r>> \in commits
  BY <1>2
<1> QED BY <1>1, <1>2, <1>3, <1>4, <1>5, <1>6, SignalInv

LEMMA ExitCommitInv ==
  ASSUME NEW a \in Actor, NEW s \in Stage, IInv, ExitCommit(a, s)
  PROVE  IInv'
<1>1. /\ TypeOK /\ SlotInv(s)
      /\ owed \in [Actor -> [Stage -> SUBSET (ProducerKinds \cup ConsumerKinds)]]
  BY DEF IInv, TypeOK
<1>2. /\ "TC5MMA" \in owed[a][s]
      /\ owed' = [owed EXCEPT ![a][s] = @ \ {"TC5MMA"}]
      /\ commits' = commits \cup {<<a, s>>}
      /\ iter' = iter /\ stage' = stage /\ phase' = phase /\ inflight' = inflight
      /\ full' = full /\ empty' = empty /\ lap' = lap
  BY DEF ExitCommit
<1>3. /\ owed'[a][s] = owed[a][s] \ {"TC5MMA"}
      /\ \A b \in Actor \ {a}, r \in Stage : owed'[b][r] = owed[b][r]
      /\ \A b \in Actor, r \in Stage \ {s} : owed'[b][r] = owed[b][r]
      /\ owed' \in [Actor -> [Stage -> SUBSET (ProducerKinds \cup ConsumerKinds)]]
  BY <1>1, <1>2
<1>4. "TC5MMA" \in Kinds[a] BY <1>1, <1>2 DEF TypeOK
<1>5. ASSUME NEW b \in Actor, NEW k PROVE Unarrived(b, k, s)' <=> Unarrived(b, k, s)
  BY <1>2, <1>3 DEF Unarrived
<1>6. \A b \in Actor : \A k \in Kinds[b] : Arrivals(b, k, s)' = Arrivals(b, k, s)
  BY <1>2, <1>5 DEF Arrivals
<1>7. \A b \in Actor, r \in Stage : owed'[b][r] \subseteq owed[b][r] BY <1>3
<1>8. \A b \in Actor : <<b, s>> \in commits' => "TC5MMA" \in Kinds[b] \ owed'[b][s]
  <2>1. \A b \in Actor : <<b, s>> \in commits => "TC5MMA" \in Kinds[b] \ owed[b][s]
    BY <1>1 DEF SlotInv, EngineInv
  <2> QED BY <1>2, <1>3, <1>4, <1>7, <2>1
<1>9. \A t \in inflight[s] : "TMALoad" \notin owed'[t[1]][s]
  <2> SUFFICES ASSUME NEW t \in inflight[s] PROVE "TMALoad" \notin owed'[t[1]][s]
    OBVIOUS
  <2>1. t[1] \in Actor BY <1>1 DEF TypeOK, Actor
  <2>2. "TMALoad" \notin owed[t[1]][s] BY <1>1 DEF SlotInv, EngineInv
  <2> QED BY <1>7, <2>1, <2>2
<1>10. \A p \in Producers : lap'[p][s] \in {empty[s].phase, empty[s].phase + 1}
  BY <1>1, <1>2 DEF SlotInv, LapInv
<1>11. \A c \in Consumers : lap'[c][s] <= full[s].phase
  BY <1>1, <1>2 DEF SlotInv, LapInv
<1>12. SlotInv(s)'
  BY <1>1, <1>2, <1>6, <1>8, <1>9, <1>10, <1>11, ArrivalsKept
<1>13. ASSUME NEW r \in Stage, r # s PROVE SlotInv(r)'
  <2>1. SameSlot(r) BY <1>2, <1>3, <1>13 DEF SameSlot
  <2> QED BY <2>1, SlotFrame DEF IInv
<1>14. TypeOK'
  <2>1. \A b \in Actor, r \in Stage : owed'[b][r] \subseteq Kinds[b] BY <1>1, <1>7 DEF TypeOK
  <2> QED BY <1>1, <1>2, <1>3, <2>1 DEF TypeOK
<1>15. \A b \in Actor : RegisterInv(b)' BY <1>2, RegistersKept
<1> QED BY <1>12, <1>13, <1>14, <1>15 DEF IInv

LEMMA EnterInv ==
  ASSUME NEW a \in Actor, IInv, (a \in Producers /\ PutEnter(a)) \/ (a \in Consumers /\ GetEnter(a))
  PROVE  IInv'
<1>1. CASE a \in Producers /\ PutEnter(a)
  <2>1. PICK s \in Stage : Enter(a, s, empty) BY <1>1 DEF PutEnter
  <2>2. a \notin Consumers BY <1>1, ActorAssumption
  <2>3. \A r \in Stage : SlotInv(r)' BY <1>1, <2>1, <2>2, PutGate, EnterSlot
  <2>4. TypeOK' /\ \A b \in Actor : RegisterInv(b)' BY <2>1, EnterRegisters
  <2> QED BY <2>3, <2>4 DEF IInv
<1>2. CASE a \in Consumers /\ GetEnter(a)
  <2>1. PICK s \in Stage : Enter(a, s, full) BY <1>2 DEF GetEnter
  <2>2. a \notin Producers BY <1>2, ActorAssumption
  <2>3. \A r \in Stage : SlotInv(r)' BY <1>2, <2>1, <2>2, GetGate, EnterSlot
  <2>4. TypeOK' /\ \A b \in Actor : RegisterInv(b)' BY <2>1, EnterRegisters
  <2> QED BY <2>3, <2>4 DEF IInv
<1> QED BY <1>1, <1>2

-----------------------------------------------------------------------------
(* Theorems *)

LEMMA StepInv == IInv /\ [Next]_vars => IInv'
<1> SUFFICES ASSUME IInv, [Next]_vars PROVE IInv' OBVIOUS
<1>1. CASE UNCHANGED vars
  <2>1. TypeOK' BY <1>1 DEF vars, IInv, TypeOK
  <2>2. \A a \in Actor : RegisterInv(a)' BY <1>1, RegistersKept DEF vars
  <2>3. \A s \in Stage : SameSlot(s) BY <1>1 DEF vars, SameSlot
  <2>4. \A s \in Stage : SlotInv(s)' BY <2>3, SlotFrame DEF IInv
  <2> QED BY <2>1, <2>2, <2>4 DEF IInv
<1>2. ASSUME NEW a \in Actor, Program(a) PROVE IInv'
  BY <1>2, EnterInv, IssueLoadsInv DEF Program
<1>3. ASSUME NEW a \in Actor, Exit(a) PROVE IInv'
  BY <1>3, ExitCommitInv, ExitArriveInv DEF Exit
<1>4. ASSUME NEW a \in Actor, Engines(a) PROVE IInv'
  BY <1>4, CommitDoneInv, LoadDoneInv DEF Engines
<1> QED BY <1>1, <1>2, <1>3, <1>4 DEF Next, Terminated

\* The inductive invariant holds of every aref, whatever its partitions, depth,
\* async kinds and loads (LowerAref.cpp, AssignStagePhase.cpp).
THEOREM InvariantHolds == Spec => []IInv
BY InitInv, StepInv, PTL DEF Spec

\* Type correctness: no barrier is over-arrived and no transaction is credited
\* that was not announced.
THEOREM TypeCorrect == Spec => []TypeOK
<1>1. IInv => TypeOK BY DEF IInv
<1> QED BY <1>1, InvariantHolds, PTL

\* A partition that may still touch a stage has not made all its arrivals.
LEMMA BusyLacks ==
  ASSUME IInv, NEW a \in Actor, NEW s \in Stage, Busy(a, s)
  PROVE  \/ \E k \in Kinds[a] : Unarrived(a, k, s)
         \/ a \in Producers /\ \E t \in inflight[s] : t[1] = a
<1>1. CASE owed[a][s] # {}
  BY <1>1 DEF IInv, TypeOK, Unarrived
<1>2. CASE <<a, s>> \in commits
  BY <1>2 DEF IInv, SlotInv, EngineInv, Unarrived
<1>3. CASE \E t \in inflight[s] : t[1] = a
  BY <1>3 DEF IInv, TypeOK
<1> QED BY <1>1, <1>2, <1>3 DEF Busy

\* Producers write only in the phase the full barrier has open.
LEMMA WriterPhase ==
  ASSUME IInv, NEW p \in Producers, NEW s \in Stage, Busy(p, s)
  PROVE  lap[p][s] = full[s].phase + 1 /\ empty[s].phase = full[s].phase
<1>1. /\ p \in Actor /\ lap[p][s] \in Nat /\ LapInv(s) /\ EngineInv(s)
      /\ full[s].phase \in Nat /\ empty[s].phase \in Nat
  BY DEF IInv, TypeOK, SlotInv, Actor
<1>2. CASE \E k \in Kinds[p] : Unarrived(p, k, s)
  <2>1. PICK k \in Kinds[p] : Arrivals(p, k, s) = lap[p][s] - 1 BY <1>2 DEF Arrivals
  <2> QED BY <1>1, <2>1 DEF LapInv
<1>3. CASE \E t \in inflight[s] : t[1] = p
  <2>1. "TMALoad" \in Kinds[p] /\ Arrivals(p, "TMALoad", s) = full[s].phase + 1
    BY <1>1, <1>3 DEF EngineInv
  <2>2. Arrivals(p, "TMALoad", s) <= lap[p][s] BY <1>1 DEF Arrivals
  <2> QED BY <1>1, <2>1, <2>2 DEF LapInv
<1> QED BY <1>1, <1>2, <1>3, BusyLacks

\* Consumers read only in the phase the empty barrier has open.
LEMMA ReaderPhase ==
  ASSUME IInv, NEW c \in Consumers, NEW s \in Stage, Busy(c, s)
  PROVE  lap[c][s] = full[s].phase /\ full[s].phase = empty[s].phase + 1
<1>1. /\ c \in Actor /\ c \notin Producers /\ lap[c][s] \in Nat /\ LapInv(s)
      /\ full[s].phase \in Nat /\ empty[s].phase \in Nat
  BY ActorAssumption DEF IInv, TypeOK, SlotInv, Actor
<1>2. PICK k \in Kinds[c] : Unarrived(c, k, s) BY <1>1, BusyLacks
<1>3. Arrivals(c, k, s) = lap[c][s] - 1 BY <1>2 DEF Arrivals
<1> QED BY <1>1, <1>3 DEF LapInv

\* What a consumer reads is what was put for this iteration, for any ring.
THEOREM ReadersAreSafe == Spec => []ReaderSeesItsLap
<1>1. IInv => ReaderSeesItsLap
  <2> SUFFICES ASSUME IInv, NEW c \in Consumers, NEW p \in Producers, NEW s \in Stage, Busy(c, s)
               PROVE  ~Busy(p, s) /\ lap[p][s] = lap[c][s]
    BY DEF ReaderSeesItsLap
  <2>1. lap[c][s] = full[s].phase /\ full[s].phase = empty[s].phase + 1 BY ReaderPhase
  <2>2. /\ p \in Actor /\ lap[p][s] \in Nat /\ LapInv(s)
        /\ full[s].phase \in Nat /\ empty[s].phase \in Nat
    BY DEF IInv, TypeOK, SlotInv, Actor
  <2>3. ~Busy(p, s) BY <2>1, <2>2, WriterPhase
  <2>4. PICK k \in Kinds[p] : TRUE BY KindsAssumption
  <2>5. Arrivals(p, k, s) <= lap[p][s] BY <2>2 DEF Arrivals
  <2>6. lap[p][s] = full[s].phase BY <2>1, <2>2, <2>4, <2>5 DEF LapInv
  <2> QED BY <2>1, <2>3, <2>6
<1> QED BY <1>1, InvariantHolds, PTL

\* A producer and its engines overwrite only what every consumer has drained.
THEOREM WritersAreSafe == Spec => []WriterKeepsUnread
<1>1. IInv => WriterKeepsUnread
  <2> SUFFICES ASSUME IInv, NEW c \in Consumers, NEW p \in Producers, NEW s \in Stage, Busy(p, s)
               PROVE  ~Busy(c, s) /\ lap[c][s] = lap[p][s] - 1
    BY DEF WriterKeepsUnread
  <2>1. lap[p][s] = full[s].phase + 1 /\ empty[s].phase = full[s].phase BY WriterPhase
  <2>2. /\ c \in Actor /\ lap[c][s] \in Nat /\ LapInv(s)
        /\ full[s].phase \in Nat /\ empty[s].phase \in Nat
    BY DEF IInv, TypeOK, SlotInv, Actor
  <2>3. ~Busy(c, s) BY <2>1, <2>2, ReaderPhase
  <2>4. PICK k \in Kinds[c] : TRUE BY KindsAssumption
  <2>5. Arrivals(c, k, s) <= lap[c][s] BY <2>2 DEF Arrivals
  <2>6. lap[c][s] = full[s].phase BY <2>1, <2>2, <2>4, <2>5 DEF LapInv
  <2> QED BY <2>1, <2>2, <2>3, <2>6
<1> QED BY <1>1, InvariantHolds, PTL

\* One parity bit tells a waiting partition the phase it needs from any other
\* the barrier can be in.
THEOREM ParityIsEnough == Spec => []ParityUnambiguous
<1>1. IInv => ParityUnambiguous
  <2> SUFFICES ASSUME IInv, NEW s \in Stage
               PROVE  /\ \A p \in Producers : empty[s].phase - lap[p][s] \in {-1, 0}
                      /\ \A c \in Consumers : full[s].phase - lap[c][s] \in {0, 1}
    BY DEF ParityUnambiguous
  <2>1. LapInv(s) /\ full[s].phase \in Nat /\ empty[s].phase \in Nat
    BY DEF IInv, TypeOK, SlotInv
  <2>2. ASSUME NEW p \in Producers PROVE empty[s].phase - lap[p][s] \in {-1, 0}
    BY <2>1, <2>2 DEF LapInv
  <2>3. ASSUME NEW c \in Consumers PROVE full[s].phase - lap[c][s] \in {0, 1}
    <3>1. c \in Actor /\ lap[c][s] \in Nat BY DEF IInv, TypeOK, Actor
    <3>2. PICK k \in Kinds[c] : TRUE BY KindsAssumption
    <3>3. Arrivals(c, k, s) <= lap[c][s] BY <3>1 DEF Arrivals
    <3> QED BY <2>1, <3>1, <3>2, <3>3 DEF LapInv
  <2> QED BY <2>2, <2>3
<1> QED BY <1>1, InvariantHolds, PTL

\* Only an arrival moves a full barrier, by one phase, and it leaves the empty
\* barriers alone.
LEMMA FullMoves ==
  ASSUME IInv, [Next]_vars, NEW s \in Stage, full'[s].phase # full[s].phase
  PROVE  full'[s].phase > full[s].phase /\ empty'[s] = empty[s]
<1>1. /\ full \in [Stage -> [count : {ArrivalCount(Producers)}, phase : Nat, pending : Nat, tx : Nat]]
      /\ full[s].phase \in Nat
  BY DEF IInv, TypeOK
<1>2. full' # full BY DEF IInv
<1>3. ASSUME NEW a \in Actor, NEW r \in Stage, Signal(a, r)
      PROVE  full'[s].phase > full[s].phase /\ empty'[s] = empty[s]
  <2>1. full' = [full EXCEPT ![r] = BarrierExpect(@, 0)] /\ empty' = empty
    BY <1>2, <1>3 DEF Signal, ArriveBarrier
  <2> QED BY <1>1, <2>1 DEF BarrierExpect, Settle
<1>4. ASSUME NEW p \in Actor, IssueLoads(p)
      PROVE  full'[s].phase > full[s].phase /\ empty'[s] = empty[s]
  <2>0. PICK r \in Stage : r = stage[p] BY <1>4 DEF IInv, TypeOK
  <2>1. full' = [full EXCEPT ![r] = BarrierExpect(@, Cardinality(Loads[p]))]
    BY <1>4, <2>0 DEF IssueLoads
  <2>2. empty' = empty BY <1>4 DEF IssueLoads
  <2> QED BY <1>1, <2>1, <2>2 DEF BarrierExpect, Settle
<1>5. ASSUME NEW p \in Actor, NEW r \in Stage, NEW l, LoadDone(p, r, l)
      PROVE  full'[s].phase > full[s].phase /\ empty'[s] = empty[s]
  <2>1. full' = [full EXCEPT ![r] = CompleteTx(@)] /\ empty' = empty BY <1>5 DEF LoadDone
  <2> QED BY <1>1, <2>1 DEF CompleteTx, Settle
<1>6. PICK a \in Actor : Program(a) \/ Exit(a) \/ Engines(a)
  BY <1>2 DEF Next, Terminated, vars
<1>7. CASE Program(a)
  BY <1>2, <1>4, <1>7 DEF Program, PutEnter, GetEnter, Enter
<1>8. CASE Exit(a)
  BY <1>2, <1>3, <1>8 DEF Exit, ExitCommit, ExitArrive
<1>9. CASE Engines(a)
  BY <1>3, <1>5, <1>9 DEF Engines, CommitDone
<1> QED BY <1>6, <1>7, <1>8, <1>9

\* A full barrier completes a phase only when every write of it has landed.
THEOREM FullIsFilled == Spec => FullMeansFilled
<1> DEFINE Writing == \A p \in Producers, s \in Stage : Busy(p, s) => empty[s].phase = full[s].phase
<1>0. IInv' => Writing'
  <2>1. IInv => Writing BY WriterPhase
  <2> QED BY <2>1, PTL
<1>1. ASSUME IInv, IInv', [Next]_vars, NEW s \in Stage, full[s].phase # full'[s].phase
      PROVE  inflight'[s] = {} /\ \A p \in Producers : ~Busy(p, s)'
  <2>1. full'[s].phase > full[s].phase /\ empty'[s] = empty[s] BY <1>1, FullMoves
  <2>2. LapInv(s) BY <1>1 DEF IInv, SlotInv
  <2>3. /\ full[s].phase \in Nat /\ empty[s].phase \in Nat /\ full'[s].phase \in Nat
        /\ \A t \in inflight'[s] : t[1] \in Producers
    BY <1>1 DEF IInv, TypeOK
  <2>4. empty'[s].phase # full'[s].phase BY <2>1, <2>2, <2>3 DEF LapInv
  <2>5. Writing' BY <1>0, <1>1
  <2>6. \A p \in Producers : ~Busy(p, s)' BY <2>4, <2>5
  <2>7. inflight'[s] = {} BY <2>3, <2>6 DEF Busy, Actor
  <2> QED BY <2>6, <2>7
<1>2. IInv /\ IInv' /\ [Next]_vars
        => [\A s \in Stage : full[s].phase # full'[s].phase =>
              /\ inflight'[s] = {}
              /\ \A p \in Producers : ~Busy(p, s)']_vars
  BY <1>1
<1> QED BY <1>2, InvariantHolds, PTL DEF Spec, FullMeansFilled

-----------------------------------------------------------------------------
(* The ring implements the abstract channel. *)

busyMap == [a \in Actor |-> [s \in Stage |-> Busy(a, s)]]

LEMMA MatrixUpdate ==
  ASSUME NEW A, NEW S, NEW a \in A, NEW s \in S, NEW v \in BOOLEAN,
         NEW F \in [A -> [S -> BOOLEAN]], NEW G \in [A -> [S -> BOOLEAN]],
         G[a][s] = v,
         \A b \in A, r \in S : <<b, r>> # <<a, s>> => G[b][r] = F[b][r]
  PROVE  G = [F EXCEPT ![a][s] = v]
<1>1. \A b \in A \ {a} : G[b] = F[b] OBVIOUS
<1>2. G[a] = [F[a] EXCEPT ![s] = v] OBVIOUS
<1> QED BY <1>1, <1>2

\* The refinement mapping is a function into BOOLEAN, and what a step does to it
\* is what it does to Busy.
LEMMA BusyMap ==
  /\ busyMap \in [Actor -> [Stage -> BOOLEAN]]
  /\ busyMap' \in [Actor -> [Stage -> BOOLEAN]]
  /\ \A a \in Actor, s \in Stage : busyMap[a][s] = Busy(a, s)
  /\ \A a \in Actor, s \in Stage : busyMap'[a][s] = Busy(a, s)'
<1>1. \A a \in Actor, s \in Stage : Busy(a, s) \in BOOLEAN BY DEF Busy
<1>2. \A a \in Actor, s \in Stage : Busy(a, s)' \in BOOLEAN BY DEF Busy
<1> QED BY <1>1, <1>2 DEF busyMap

LEMMA BusyUpdate ==
  ASSUME NEW a \in Actor, NEW s \in Stage,
         \A b \in Actor, r \in Stage : <<b, r>> # <<a, s>> => (Busy(b, r)' <=> Busy(b, r))
  PROVE  busyMap' = [busyMap EXCEPT ![a][s] = Busy(a, s)']
<1>1. \A b \in Actor, r \in Stage : Busy(b, r) \in BOOLEAN /\ Busy(b, r)' \in BOOLEAN
  BY DEF Busy
<1>2. \A b \in Actor, r \in Stage : <<b, r>> # <<a, s>> => Busy(b, r)' = Busy(b, r)
  BY <1>1
<1>3. \A b \in Actor, r \in Stage : <<b, r>> # <<a, s>> => busyMap'[b][r] = busyMap[b][r]
  BY <1>2, BusyMap
<1>4. busyMap'[a][s] = Busy(a, s)' /\ Busy(a, s)' \in BOOLEAN BY <1>1, BusyMap
<1> QED BY <1>3, <1>4, BusyMap, MatrixUpdate

LEMMA ChannelActors == Channel!Actor = Actor /\ Channel!Slot = Stage
BY DEF Channel!Actor, Channel!Slot, Actor, Stage

\* A step that can change only whether a is busy on s, and only from busy to
\* idle, closes that region or is invisible.
LEMMA CloseOrStutter ==
  ASSUME NEW a \in Actor, NEW s \in Stage, stage' = stage, lap' = lap, Busy(a, s),
         \A b \in Actor, r \in Stage : <<b, r>> # <<a, s>> => (Busy(b, r)' <=> Busy(b, r))
  PROVE  [Channel!Next]_(Channel!chanVars)
<1>1. CASE Busy(a, s)'
  <2>1. busyMap' = [busyMap EXCEPT ![a][s] = TRUE] BY <1>1, BusyUpdate
  <2>2. busyMap' = busyMap BY <2>1, BusyMap
  <2> QED BY <2>2 DEF Channel!chanVars, busyMap
<1>2. CASE ~Busy(a, s)'
  <2>1. busyMap' = [busyMap EXCEPT ![a][s] = FALSE] BY <1>2, BusyUpdate
  <2>2. busyMap[a][s] BY DEF busyMap
  <2>3. Channel!Close(a, s) BY <2>1, <2>2 DEF Channel!Close, busyMap
  <2> QED BY <2>3, ChannelActors DEF Channel!Next
<1> QED BY <1>1, <1>2

LEMMA EnterOpens ==
  ASSUME IInv, NEW a \in Actor, NEW s \in Stage, NEW bars, Enter(a, s, bars), ~Busy(a, s)
  PROVE  Channel!Open(a, s)
<1>1. /\ s = NextStage(stage[a])
      /\ stage' = [stage EXCEPT ![a] = s]
      /\ owed' = [owed EXCEPT ![a][s] = Kinds[a]]
      /\ lap' = [lap EXCEPT ![a][s] = @ + 1]
      /\ commits' = commits /\ inflight' = inflight
  BY DEF Enter
<1>2. owed \in [Actor -> [Stage -> SUBSET (ProducerKinds \cup ConsumerKinds)]]
  BY DEF IInv, TypeOK
<1>3. Kinds[a] # {} BY KindsAssumption DEF Actor
<1>4. Busy(a, s)' BY <1>1, <1>2, <1>3 DEF Busy
<1>5. \A b \in Actor, r \in Stage : <<b, r>> # <<a, s>> => (Busy(b, r)' <=> Busy(b, r))
  BY <1>1, <1>2 DEF Busy
<1>6. busyMap' = [busyMap EXCEPT ![a][s] = TRUE] BY <1>4, <1>5, BusyUpdate
<1>7. ~busyMap[a][s] BY DEF busyMap
<1> QED BY <1>1, <1>6, <1>7 DEF Channel!Open, Channel!Succ, NextStage, busyMap

LEMMA PutStep ==
  ASSUME IInv, NEW p \in Producers, PutEnter(p)
  PROVE  Channel!Put(p)
<1>1. PICK s \in Stage : Enter(p, s, empty) BY DEF PutEnter
<1>2. p \in Actor /\ lap[p][s] = empty[s].phase /\ full[s].phase = empty[s].phase
  BY <1>1, PutGate DEF Actor
<1>3. LapInv(s) /\ full[s].phase \in Nat BY DEF IInv, TypeOK, SlotInv
<1>4. ~Busy(p, s) BY <1>2, <1>3, WriterPhase
<1>5. ASSUME NEW c \in Consumers PROVE ~busyMap[c][s] /\ lap[c][s] = lap[p][s]
  <2>1. ~Busy(c, s) BY <1>2, <1>3, ReaderPhase
  <2>2. c \in Actor /\ lap[c][s] \in Nat BY DEF IInv, TypeOK, Actor
  <2>3. PICK k \in Kinds[c] : TRUE BY KindsAssumption
  <2>4. Arrivals(c, k, s) <= lap[c][s] BY <2>2 DEF Arrivals
  <2>5. lap[c][s] = lap[p][s] BY <1>2, <1>3, <2>2, <2>3, <2>4 DEF LapInv
  <2> QED BY <2>1, <2>2, <2>5 DEF busyMap
<1>6. Channel!Open(p, s) BY <1>1, <1>2, <1>4, EnterOpens
<1> QED BY <1>5, <1>6, ChannelActors DEF Channel!Put, busyMap

LEMMA GetStep ==
  ASSUME IInv, NEW c \in Consumers, GetEnter(c)
  PROVE  Channel!Get(c)
<1>1. PICK s \in Stage : Enter(c, s, full) BY DEF GetEnter
<1>2. c \in Actor /\ lap[c][s] + 1 = full[s].phase /\ full[s].phase = empty[s].phase + 1
  BY <1>1, GetGate DEF Actor
<1>3. LapInv(s) /\ full[s].phase \in Nat /\ empty[s].phase \in Nat /\ lap[c][s] \in Nat
  BY <1>2 DEF IInv, TypeOK, SlotInv
<1>4. ~Busy(c, s) BY <1>2, <1>3, ReaderPhase
<1>5. ASSUME NEW p \in Producers PROVE ~busyMap[p][s] /\ lap[p][s] = lap[c][s] + 1
  <2>1. ~Busy(p, s) BY <1>2, <1>3, WriterPhase
  <2>2. p \in Actor /\ lap[p][s] \in Nat BY DEF IInv, TypeOK, Actor
  <2>3. PICK k \in Kinds[p] : TRUE BY KindsAssumption
  <2>4. Arrivals(p, k, s) <= lap[p][s] BY <2>2 DEF Arrivals
  <2>5. lap[p][s] = lap[c][s] + 1 BY <1>2, <1>3, <2>2, <2>3, <2>4 DEF LapInv
  <2> QED BY <2>1, <2>2, <2>5 DEF busyMap
<1>6. Channel!Open(c, s) BY <1>1, <1>2, <1>4, EnterOpens
<1> QED BY <1>5, <1>6, ChannelActors DEF Channel!Get, busyMap

\* Every step that does not enter a region closes one, or is invisible.
LEMMA QuietStep ==
  ASSUME IInv, NEW a \in Actor,
         IssueLoads(a) \/ Exit(a) \/ Engines(a)
  PROVE  [Channel!Next]_(Channel!chanVars)
<1>1. /\ owed \in [Actor -> [Stage -> SUBSET (ProducerKinds \cup ConsumerKinds)]]
      /\ inflight \in [Stage -> SUBSET (Producers \X UNION {Loads[q] : q \in Producers})]
      /\ stage[a] \in Stage
  BY DEF IInv, TypeOK
<1>2. CASE IssueLoads(a)
  <2>1. PICK s \in Stage : s = stage[a] BY <1>1
  <2>2. /\ owed' = [owed EXCEPT ![a][s] = @ \ {"TMALoad"}]
        /\ inflight' = [inflight EXCEPT ![s] = @ \cup ({a} \X Loads[a])]
        /\ stage' = stage /\ lap' = lap /\ commits' = commits /\ "TMALoad" \in owed[a][s]
    BY <1>2, <2>1 DEF IssueLoads, InPutEnter
  <2>3. \A b \in Actor, r \in Stage : <<b, r>> # <<a, s>> => (Busy(b, r)' <=> Busy(b, r))
    BY <1>1, <2>2 DEF Busy
  <2>4. Busy(a, s) BY <2>2 DEF Busy
  <2> QED BY <2>2, <2>3, <2>4, CloseOrStutter
<1>3. ASSUME NEW s \in Stage, NEW k, ExitArrive(a, s, k)
      PROVE  [Channel!Next]_(Channel!chanVars)
  <2>1. /\ owed' = [owed EXCEPT ![a][s] = @ \ {k}] /\ k \in owed[a][s]
        /\ stage' = stage /\ lap' = lap /\ commits' = commits /\ inflight' = inflight
    BY <1>3 DEF ExitArrive
  <2>2. \A b \in Actor, r \in Stage : <<b, r>> # <<a, s>> => (Busy(b, r)' <=> Busy(b, r))
    BY <1>1, <2>1 DEF Busy
  <2>3. Busy(a, s) BY <2>1 DEF Busy
  <2> QED BY <2>1, <2>2, <2>3, CloseOrStutter
<1>4. ASSUME NEW s \in Stage, ExitCommit(a, s)
      PROVE  [Channel!Next]_(Channel!chanVars)
  <2>1. /\ owed' = [owed EXCEPT ![a][s] = @ \ {"TC5MMA"}] /\ "TC5MMA" \in owed[a][s]
        /\ commits' = commits \cup {<<a, s>>}
        /\ stage' = stage /\ lap' = lap /\ inflight' = inflight
    BY <1>4 DEF ExitCommit
  <2>2. \A b \in Actor, r \in Stage : <<b, r>> # <<a, s>> => (Busy(b, r)' <=> Busy(b, r))
    BY <1>1, <2>1 DEF Busy
  <2>3. Busy(a, s) BY <2>1 DEF Busy
  <2> QED BY <2>1, <2>2, <2>3, CloseOrStutter
<1>5. ASSUME NEW s \in Stage, CommitDone(a, s)
      PROVE  [Channel!Next]_(Channel!chanVars)
  <2>1. /\ <<a, s>> \in commits /\ commits' = commits \ {<<a, s>>}
        /\ stage' = stage /\ lap' = lap /\ owed' = owed /\ inflight' = inflight
    BY <1>5 DEF CommitDone
  <2>2. \A b \in Actor, r \in Stage : <<b, r>> # <<a, s>> => (Busy(b, r)' <=> Busy(b, r))
    BY <2>1 DEF Busy
  <2>3. Busy(a, s) BY <2>1 DEF Busy
  <2> QED BY <2>1, <2>2, <2>3, CloseOrStutter
<1>6. ASSUME NEW s \in Stage, NEW l, LoadDone(a, s, l)
      PROVE  [Channel!Next]_(Channel!chanVars)
  <2>1. /\ <<a, l>> \in inflight[s]
        /\ inflight' = [inflight EXCEPT ![s] = @ \ {<<a, l>>}]
        /\ stage' = stage /\ lap' = lap /\ owed' = owed /\ commits' = commits
    BY <1>6 DEF LoadDone
  <2>2. \A b \in Actor, r \in Stage : <<b, r>> # <<a, s>> => (Busy(b, r)' <=> Busy(b, r))
    BY <1>1, <2>1 DEF Busy
  <2>3. Busy(a, s) BY <2>1 DEF Busy
  <2> QED BY <2>1, <2>2, <2>3, CloseOrStutter
<1> QED BY <1>2, <1>3, <1>4, <1>5, <1>6 DEF Exit, Engines

\* The lowered protocol implements the ring of free-access regions that the
\* dialect documents.
THEOREM RingImplementsChannel == Spec => ImplementsChannel
<1>1. Init => Channel!Init
  <2> SUFFICES ASSUME Init PROVE Channel!Init OBVIOUS
  <2>1. \A a \in Actor, s \in Stage : Busy(a, s) = FALSE BY DEF Init, Busy
  <2>2. busyMap = [a \in Actor |-> [s \in Stage |-> FALSE]] BY <2>1 DEF busyMap
  <2>3. stage = [a \in Actor |-> Depth - 1] /\ lap = [a \in Actor |-> [s \in Stage |-> 0]]
    BY DEF Init
  <2> QED BY <2>2, <2>3, ChannelActors DEF Channel!Init, busyMap
<1>2. IInv /\ [Next]_vars => [Channel!Next]_(Channel!chanVars)
  <2> SUFFICES ASSUME IInv, [Next]_vars PROVE [Channel!Next]_(Channel!chanVars)
    OBVIOUS
  <2>1. CASE UNCHANGED vars
    <3>1. \A a \in Actor, s \in Stage : Busy(a, s)' = Busy(a, s) BY <2>1 DEF vars, Busy
    <3>2. busyMap' = busyMap BY <3>1 DEF busyMap
    <3> QED BY <2>1, <3>2 DEF vars, Channel!chanVars, busyMap
  <2>2. ASSUME NEW a \in Actor, Program(a) PROVE [Channel!Next]_(Channel!chanVars)
    <3>1. CASE a \in Producers /\ PutEnter(a) BY <3>1, PutStep DEF Channel!Next
    <3>2. CASE a \in Consumers /\ GetEnter(a) BY <3>2, GetStep DEF Channel!Next
    <3>3. CASE IssueLoads(a) BY <3>3, QuietStep
    <3> QED BY <2>2, <3>1, <3>2, <3>3 DEF Program
  <2>3. ASSUME NEW a \in Actor, Exit(a) \/ Engines(a) PROVE [Channel!Next]_(Channel!chanVars)
    BY <2>3, QuietStep
  <2> QED BY <2>1, <2>2, <2>3 DEF Next, Terminated
<1> QED BY <1>1, <1>2, InvariantHolds, PTL DEF Spec, ImplementsChannel, Channel!Spec

-----------------------------------------------------------------------------
(* The waits never close into a circle. *)

LEMMA Product ==
  ASSUME NEW d \in Nat, NEW x \in Int
  PROVE  d * x \in Int /\ d * (x + 1) = d * x + d /\ d * (x - 1) = d * x - d
OBVIOUS

LEMMA ProductGrows ==
  ASSUME NEW d \in Nat, NEW x \in Int, NEW y \in Int, x < y
  PROVE  d * x + d <= d * y
<1>1. y - x - 1 \in Nat OBVIOUS
<1>2. d * (y - x - 1) \in Nat BY <1>1
<1>3. d * (y - x - 1) = d * y - d * x - d OBVIOUS
<1>4. d * x \in Int /\ d * y \in Int OBVIOUS
<1> QED BY <1>2, <1>3, <1>4

\* The registers and the loads after one region more.
LEMMA EnterTurn ==
  ASSUME IInv, TurnInv, NEW a \in Actor, NEW s \in Stage, NEW bars, Enter(a, s, bars)
  PROVE  TurnInv'
<1>1. /\ s = NextStage(stage[a]) /\ ~InPutEnter(a)
      /\ iter' = [iter EXCEPT ![a] = @ + 1]
      /\ stage' = [stage EXCEPT ![a] = s]
      /\ owed' = [owed EXCEPT ![a][s] = Kinds[a]]
      /\ lap' = [lap EXCEPT ![a][s] = @ + 1]
  BY DEF Enter
<1>2. /\ iter \in [Actor -> Nat] /\ stage \in [Actor -> Stage]
      /\ owed \in [Actor -> [Stage -> SUBSET (ProducerKinds \cup ConsumerKinds)]]
      /\ lap \in [Actor -> [Stage -> Nat]]
  BY DEF IInv, TypeOK
<1>3. ASSUME NEW b \in Actor, b # a
      PROVE  /\ iter'[b] = iter[b] /\ stage'[b] = stage[b]
             /\ owed'[b] = owed[b] /\ lap'[b] = lap[b]
  BY <1>1, <1>2, <1>3
<1>4. /\ iter'[a] = iter[a] + 1 /\ stage'[a] = s
      /\ lap'[a][s] = lap[a][s] + 1
      /\ \A r \in Stage : r # s => owed'[a][r] = owed[a][r]
  BY <1>1, <1>2
<1>5. ASSUME NEW r \in Stage, "TMALoad" \in owed'[a][r] PROVE r = s
  <2>1. "TMALoad" \notin owed[a][r] BY <1>1 DEF InPutEnter, TurnInv
  <2> QED BY <2>1, <1>4, <1>5
<1>6. iter'[a] = Depth * (lap'[a][s] - 1) + s + 1
  <2> DEFINE L == lap[a][stage[a]]
  <2>1. /\ iter[a] = Depth * (L - 1) + stage[a] + 1
        /\ lap[a][s] = IF s > stage[a] THEN L - 1 ELSE L
    BY DEF TurnInv, IInv, RegisterInv
  <2>2. L \in Nat /\ stage[a] \in 0 .. Depth - 1 /\ Depth \in Nat /\ lap[a][s] \in Nat
    BY <1>2, ShapeAssumption DEF Stage
  <2>3. Depth * (L - 1) = Depth * L - Depth /\ Depth * L \in Int /\ Depth * (L - 1) \in Int
    BY <2>2, Product
  <2> HIDE DEF L
  <2>4. CASE stage[a] + 1 = Depth
    <3>1. s = 0 /\ lap[a][s] = L BY <1>1, <2>1, <2>2, <2>4 DEF NextStage
    <3>2. lap'[a][s] - 1 = L BY <1>4, <2>2, <3>1
    <3> QED BY <1>4, <2>1, <2>2, <2>3, <2>4, <3>1, <3>2
  <2>5. CASE stage[a] + 1 # Depth
    <3>1. s = stage[a] + 1 /\ lap[a][s] = L - 1 BY <1>1, <2>1, <2>2, <2>5 DEF NextStage
    <3>2. lap'[a][s] - 1 = L - 1 BY <1>4, <2>2, <3>1
    <3> QED BY <1>4, <2>1, <2>2, <2>3, <3>1, <3>2
  <2> QED BY <2>4, <2>5
<1> QED BY <1>3, <1>4, <1>5, <1>6 DEF TurnInv

\* Every other step leaves the registers alone and owes less, if anything.
LEMMA TurnKept ==
  ASSUME TurnInv, iter' = iter, stage' = stage, lap' = lap,
         \A a \in Actor, s \in Stage : owed'[a][s] \subseteq owed[a][s]
  PROVE  TurnInv'
BY DEF TurnInv

\* The registers encode how many regions a partition has entered, and its last
\* put.enter is the only one that can be short of its loads (AssignStagePhase.cpp).
THEOREM TurnsCounted == Spec => []TurnInv
<1>1. Init => TurnInv
  <2> SUFFICES ASSUME Init, NEW a \in Actor
               PROVE  /\ iter[a] = Depth * (lap[a][stage[a]] - 1) + stage[a] + 1
                      /\ \A s \in Stage : "TMALoad" \in owed[a][s] => s = stage[a]
    BY DEF TurnInv
  <2>1. /\ iter[a] = 0 /\ stage[a] = Depth - 1 /\ stage[a] \in Stage
        /\ \A s \in Stage : lap[a][s] = 0 /\ owed[a][s] = {}
    BY ShapeAssumption DEF Init, Stage
  <2>2. Depth * (0 - 1) = 0 - Depth /\ Depth \in Nat BY ShapeAssumption
  <2> QED BY <2>1, <2>2
<1>2. IInv /\ TurnInv /\ [Next]_vars => TurnInv'
  <2> SUFFICES ASSUME IInv, TurnInv, [Next]_vars PROVE TurnInv' OBVIOUS
  <2>0. owed \in [Actor -> [Stage -> SUBSET (ProducerKinds \cup ConsumerKinds)]]
        /\ stage \in [Actor -> Stage]
    BY DEF IInv, TypeOK
  <2>1. CASE UNCHANGED vars BY <2>1, TurnKept DEF vars
  <2>2. ASSUME NEW a \in Actor, PutEnter(a) \/ GetEnter(a) PROVE TurnInv'
    BY <2>2, EnterTurn DEF PutEnter, GetEnter
  <2>3. ASSUME NEW a \in Actor, IssueLoads(a) PROVE TurnInv'
    <3>1. PICK s \in Stage : s = stage[a] BY <2>0
    <3>2. owed' = [owed EXCEPT ![a][s] = @ \ {"TMALoad"}] /\ UNCHANGED <<iter, stage, lap>>
      BY <2>3, <3>1 DEF IssueLoads
    <3> QED BY <2>0, <3>2, TurnKept
  <2>4. ASSUME NEW a \in Actor, NEW s \in Stage, NEW k, ExitArrive(a, s, k) PROVE TurnInv'
    <3>1. owed' = [owed EXCEPT ![a][s] = @ \ {k}] /\ UNCHANGED <<iter, stage, lap>>
      BY <2>4 DEF ExitArrive
    <3> QED BY <2>0, <3>1, TurnKept
  <2>5. ASSUME NEW a \in Actor, NEW s \in Stage, ExitCommit(a, s) PROVE TurnInv'
    <3>1. owed' = [owed EXCEPT ![a][s] = @ \ {"TC5MMA"}] /\ UNCHANGED <<iter, stage, lap>>
      BY <2>5 DEF ExitCommit
    <3> QED BY <2>0, <3>1, TurnKept
  <2>6. ASSUME NEW a \in Actor, Engines(a) PROVE TurnInv'
    BY <2>6, TurnKept DEF Engines, CommitDone, LoadDone
  <2>7. ASSUME NEW a \in Actor, Exit(a) PROVE TurnInv'
    BY <2>4, <2>5, <2>7 DEF Exit
  <2> QED BY <2>1, <2>2, <2>3, <2>6, <2>7 DEF Next, Terminated, Program
<1> QED BY <1>1, <1>2, InvariantHolds, PTL DEF Spec

\* A partition that is behind another in its loop is not ahead of it on the
\* stage it turns to next.
LEMMA BehindOnStage ==
  ASSUME IInv, TurnInv, NEW a \in Actor, NEW b \in Actor, iter[a] <= iter[b],
         NEW s \in Stage, s = NextStage(stage[a])
  PROVE  /\ lap[a][s] <= lap[b][s]
         /\ iter[a] < iter[b] => lap[a][s] + 1 <= lap[b][s]
<1> DEFINE L == lap[a][stage[a]]
           M == lap[b][stage[b]]
<1>1. /\ L \in Nat /\ M \in Nat /\ Depth \in Nat /\ lap[a][s] \in Nat /\ lap[b][s] \in Nat
      /\ stage[a] \in 0 .. Depth - 1 /\ stage[b] \in 0 .. Depth - 1 /\ s \in 0 .. Depth - 1
  <2>1. /\ L \in Nat /\ M \in Nat /\ lap[a][s] \in Nat /\ lap[b][s] \in Nat
        /\ stage[a] \in Stage /\ stage[b] \in Stage
    BY DEF IInv, TypeOK
  <2> HIDE DEF L, M
  <2> QED BY <2>1, ShapeAssumption DEF Stage
<1>2. /\ iter[a] = Depth * (L - 1) + stage[a] + 1
      /\ iter[b] = Depth * (M - 1) + stage[b] + 1
  BY DEF TurnInv
<1>3. /\ lap[a][s] = IF s > stage[a] THEN L - 1 ELSE L
      /\ lap[b][s] = IF s > stage[b] THEN M - 1 ELSE M
  BY DEF IInv, RegisterInv
<1> HIDE DEF L, M
<1>4. Depth * (L - 1) \in Int /\ Depth * (M - 1) \in Int BY <1>1, Product
<1>5. L <= M
  <2> SUFFICES ASSUME M < L PROVE FALSE BY <1>1
  <2>1. M - 1 < L - 1 /\ L - 1 \in Int /\ M - 1 \in Int BY <1>1
  <2>2. Depth * (M - 1) + Depth <= Depth * (L - 1) BY <1>1, <2>1, ProductGrows
  <2> QED BY <1>1, <1>2, <1>4, <2>2
<1>6. L = M => stage[a] <= stage[b] /\ (iter[a] < iter[b] => stage[a] < stage[b])
  BY <1>1, <1>2, <1>4
<1>7. CASE stage[a] + 1 = Depth
  <2>1. s = 0 /\ lap[a][s] = L /\ lap[b][s] = M BY <1>1, <1>3, <1>7 DEF NextStage
  <2> QED BY <1>1, <1>5, <1>6, <1>7, <2>1
<1>8. CASE stage[a] + 1 # Depth
  <2>1. s = stage[a] + 1 /\ lap[a][s] = L - 1 BY <1>1, <1>3, <1>8 DEF NextStage
  <2> QED BY <1>1, <1>3, <1>5, <1>6, <2>1
<1> QED BY <1>7, <1>8

\* The parity a partition waits for is that of the lap it wants to enter.
LEMMA WaitedPhase ==
  ASSUME IInv, NEW a \in Actor, NEW s \in Stage, s = NextStage(stage[a])
  PROVE  NextPhase(stage[a], phase[a]) = (lap[a][s] + 1 + InitPhase(a)) % 2
<1> DEFINE L == lap[a][stage[a]]
<1>1. /\ stage[a] \in 0 .. Depth - 1 /\ s \in 0 .. Depth - 1 /\ Depth \in Nat
      /\ L \in Nat /\ lap[a][s] \in Nat /\ InitPhase(a) \in {0, 1}
  <2>1. L \in Nat /\ lap[a][s] \in Nat /\ stage[a] \in Stage
    BY DEF IInv, TypeOK
  <2>2. InitPhase(a) \in {0, 1}
    BY DEF InitPhase
  <2> HIDE DEF L
  <2> QED BY <2>1, <2>2, ShapeAssumption DEF Stage
<1>2. /\ lap[a][s] = IF s > stage[a] THEN L - 1 ELSE L
      /\ phase[a] = (L + InitPhase(a)) % 2
  BY DEF IInv, RegisterInv
<1> HIDE DEF L
<1>3. CASE stage[a] + 1 = Depth
  <2>1. lap[a][s] = L BY <1>1, <1>2, <1>3 DEF NextStage
  <2>2. NextPhase(stage[a], phase[a]) = 1 - ((L + InitPhase(a)) % 2) BY <1>2, <1>3 DEF NextPhase
  <2>3. L + InitPhase(a) \in Nat /\ lap[a][s] + 1 + InitPhase(a) = (L + InitPhase(a)) + 1
    BY <1>1, <2>1
  <2> QED BY <2>2, <2>3, ParityFlips
<1>4. CASE stage[a] + 1 # Depth
  <2>1. lap[a][s] = L - 1 BY <1>1, <1>2, <1>4 DEF NextStage
  <2>2. lap[a][s] + 1 + InitPhase(a) = L + InitPhase(a) BY <1>1, <2>1
  <2> QED BY <1>2, <1>4, <2>2 DEF NextPhase
<1> QED BY <1>3, <1>4

\* Of a nonempty set of numbers one is least.
LEMMA Least ==
  ASSUME NEW T \in SUBSET Nat, T # {}
  PROVE  \E x \in T : \A y \in T : x <= y
<1> DEFINE R == {r \in Nat \X Nat : r[1] < r[2]}
<1>1. OpToRel(<, Nat) = R
  BY Zenon DEF OpToRel
<1>2. IsWellFoundedOn(R, Nat)
  BY <1>1, NatLessThanWellFounded
<1> HIDE DEF R
<1>3. PICK x \in T : \A y \in T : ~(<<y, x>> \in R)
  BY <1>2, WFMin
<1>4. ASSUME NEW y \in T PROVE x <= y
  <2>1. x \in Nat /\ y \in Nat OBVIOUS
  <2>2. ~(<<y, x>> \in R) BY <1>3
  <2>3. ~(y < x) BY <2>1, <2>2 DEF R
  <2> QED BY <2>1, <2>3
<1> QED BY <1>4

\* When nothing is owed or in flight, the open phases wait for an entry: some
\* producer has not entered the full barrier's lap, and some consumer not the
\* empty barrier's.
LEMMA PhaseWaitsForEntry ==
  ASSUME IInv, NEW s \in Stage, \A a \in Actor : ~Busy(a, s)
  PROVE  /\ \E p \in Producers : lap[p][s] = full[s].phase
         /\ \E c \in Consumers : lap[c][s] = empty[s].phase
<1>1. \A a \in Actor : \A k : Arrivals(a, k, s) = lap[a][s]
  BY DEF Busy, Arrivals, Unarrived
<1>2. CountInv(s) BY DEF IInv, SlotInv
<1>3. inflight[s] = {}
  <2>1. inflight[s] \in SUBSET (Producers \X UNION {Loads[p] : p \in Producers})
    BY DEF IInv, TypeOK
  <2>2. ASSUME NEW t \in inflight[s] PROVE FALSE
    <3>1. t[1] \in Actor BY <2>1 DEF Actor
    <3> QED BY <3>1 DEF Busy
  <2> QED BY <2>2
<1>4. full[s].pending # 0 /\ empty[s].pending # 0
  BY <1>2, <1>3, FS_EmptySet DEF CountInv
<1>5. Lacking(Producers, s, full[s].phase) # {} /\ Lacking(Consumers, s, empty[s].phase) # {}
  BY <1>2, <1>4, FS_EmptySet DEF CountInv
<1>6. PICK t \in Tokens(Producers) : Arrivals(t[1], t[2], s) = full[s].phase
  BY <1>5 DEF Lacking
<1>7. PICK u \in Tokens(Consumers) : Arrivals(u[1], u[2], s) = empty[s].phase
  BY <1>5 DEF Lacking
<1>8. t[1] \in Producers /\ u[1] \in Consumers BY DEF Tokens
<1> QED BY <1>1, <1>6, <1>7, <1>8 DEF Actor

\* In an idle ring a partition whose wait does not pass is ahead, on the stage
\* it waits for, of somebody of the other side.
LEMMA WaitsForOther ==
  ASSUME IInv, NEW a \in Actor, NEW s \in Stage, s = NextStage(stage[a]),
         \A b \in Actor : ~Busy(b, s),
         ~WaitPasses(Awaited(a)[s], NextPhase(stage[a], phase[a]))
  PROVE  \/ a \in Producers /\ \E c \in Consumers : lap[a][s] = lap[c][s] + 1
         \/ a \in Consumers /\ \E p \in Producers : lap[a][s] = lap[p][s]
<1>1. /\ lap[a][s] \in Nat /\ full[s].phase \in Nat /\ empty[s].phase \in Nat
      /\ LapInv(s)
  BY DEF IInv, TypeOK, SlotInv
<1>2. Awaited(a)[s].phase % 2 = (lap[a][s] + 1 + InitPhase(a)) % 2
  BY WaitedPhase DEF WaitPasses
<1>3. CASE a \in Producers
  <2>1. empty[s].phase % 2 = (lap[a][s] + 1) % 2 BY <1>1, <1>2, <1>3 DEF Awaited, InitPhase
  <2>2. lap[a][s] \in {empty[s].phase, empty[s].phase + 1} BY <1>1, <1>3 DEF LapInv
  <2>3. lap[a][s] = empty[s].phase + 1 BY <1>1, <2>1, <2>2
  <2> QED BY <1>3, <2>3, PhaseWaitsForEntry
<1>4. CASE a \in Consumers
  <2>1. a \notin Producers BY <1>4, ActorAssumption
  <2>2. full[s].phase % 2 = (lap[a][s] + 2) % 2 BY <1>1, <1>2, <2>1 DEF Awaited, InitPhase
  <2>3. PICK k \in Kinds[a] : TRUE BY <1>4, KindsAssumption
  <2>4. Arrivals(a, k, s) = lap[a][s] BY DEF Busy, Arrivals, Unarrived
  <2>5. /\ lap[a][s] \in {empty[s].phase, empty[s].phase + 1} /\ lap[a][s] <= full[s].phase
        /\ full[s].phase <= empty[s].phase + 1
    BY <1>1, <1>4, <2>4 DEF LapInv
  <2>6. lap[a][s] = full[s].phase BY <1>1, <2>2, <2>5
  <2> QED BY <1>4, <2>6, PhaseWaitsForEntry
<1> QED BY <1>3, <1>4 DEF Actor

LEMMA BelowTrips ==
  ASSUME NEW n \in 0 .. Trips, n # Trips
  PROVE  n < Trips
BY ShapeAssumption

\* Of the partitions that have entered the fewest regions, one can always go on:
\* no depth and no number of partitions lets the waits of put.enter and get.enter
\* block one another (LowerAref.cpp: the initial phases and the arrival counts).
THEOREM RingNeverStuck == Spec => []NeverStuck
<1>1. IInv /\ TurnInv => NeverStuck
  <2> SUFFICES ASSUME IInv, TurnInv, \A a \in Actor : ~MayAct(a) PROVE Finished
    BY DEF NeverStuck
  <2>1. /\ iter \in [Actor -> 0 .. Trips] /\ stage \in [Actor -> Stage] /\ Trips \in Nat
        /\ lap \in [Actor -> [Stage -> Nat]]
        /\ owed \in [Actor -> [Stage -> SUBSET (ProducerKinds \cup ConsumerKinds)]]
    BY ShapeAssumption DEF IInv, TypeOK
  <2>2. ASSUME NEW a \in Actor, NEW s \in Stage PROVE ~Busy(a, s)
    <3>1. ~InPutEnter(a) /\ owed[a][s] \ {"TMALoad"} = {} BY DEF MayAct
    <3>2. "TMALoad" \notin owed[a][s] BY <3>1 DEF TurnInv, InPutEnter
    <3> QED BY <3>1, <3>2 DEF MayAct, Busy
  <2>3. ASSUME NEW a \in Actor, iter[a] # Trips,
               \A b \in Actor : iter[a] <= iter[b],
               a \in Producers \/ \A p \in Producers : iter[a] < iter[p]
        PROVE  FALSE
    <3>1. PICK s \in Stage : s = NextStage(stage[a])
      <4>1. stage[a] \in 0 .. Depth - 1 /\ Depth \in Nat BY <2>1, ShapeAssumption DEF Stage
      <4>2. NextStage(stage[a]) \in 0 .. Depth - 1 BY <4>1 DEF NextStage
      <4> QED BY <4>2 DEF Stage
    <3>2. iter[a] < Trips
      <4>1. iter[a] \in 0 .. Trips BY <2>1
      <4> QED BY <2>3, <4>1, BelowTrips
    <3>3. ~WaitPasses(Awaited(a)[s], NextPhase(stage[a], phase[a]))
      BY <3>1, <3>2 DEF MayAct, MayEnter
    <3>4. \A b \in Actor : /\ lap[a][s] <= lap[b][s] /\ lap[b][s] \in Nat
                           /\ iter[a] < iter[b] => lap[a][s] + 1 <= lap[b][s]
      BY <2>1, <2>3, <3>1, BehindOnStage
    <3>5. lap[a][s] \in Nat BY <2>1
    <3>6. \A c \in Consumers : lap[a][s] # lap[c][s] + 1 BY <3>4, <3>5 DEF Actor
    <3>7. a \notin Producers => \A p \in Producers : lap[a][s] # lap[p][s]
      BY <2>3, <3>4, <3>5 DEF Actor
    <3>8. a \in Consumers => a \notin Producers BY ActorAssumption
    <3> QED BY <2>2, <3>1, <3>3, <3>6, <3>7, <3>8, WaitsForOther
  <2>4. \A a \in Actor : iter[a] = Trips
    <3> SUFFICES ASSUME NEW b \in Actor, iter[b] # Trips PROVE FALSE OBVIOUS
    <3> DEFINE T == {iter[a] : a \in Actor}
    <3>1. T \in SUBSET Nat /\ T # {} BY <2>1
    <3>2. PICK m \in T : \A y \in T : m <= y BY <3>1, Least
    <3>3. m \in Nat /\ \A a \in Actor : m <= iter[a] /\ iter[a] \in Nat BY <3>1, <3>2
    <3>4. PICK a \in Actor : iter[a] = m BY <3>2
    <3> HIDE DEF T
    <3>5. m < Trips
      <4>1. iter[b] \in 0 .. Trips BY <2>1
      <4>2. m <= iter[b] BY <3>3
      <4>3. iter[b] < Trips BY <4>1, BelowTrips
      <4> QED BY <2>1, <3>3, <4>1, <4>2, <4>3
    <3>6. CASE \E p \in Producers : iter[p] = m
      <4>1. PICK p \in Producers : iter[p] = m BY <3>6
      <4>2. p \in Actor /\ iter[p] # Trips BY <2>1, <3>3, <3>5, <4>1 DEF Actor
      <4> QED BY <2>3, <3>3, <4>1, <4>2
    <3>7. CASE \A p \in Producers : iter[p] # m
      <4>1. \A p \in Producers : m < iter[p] BY <3>3, <3>7 DEF Actor
      <4>2. iter[a] # Trips BY <2>1, <3>3, <3>4, <3>5
      <4> QED BY <2>3, <3>3, <3>4, <4>1, <4>2
    <3> QED BY <3>6, <3>7
  <2> QED BY <2>2, <2>4 DEF Finished
<1> QED BY <1>1, InvariantHolds, TurnsCounted, PTL

=============================================================================
