------------------------ MODULE MessageQualityProofs ------------------------
(***************************************************************************)
(* The message quality module for any stations, flows, scores and batch    *)
(* sizes.                                                                  *)
(***************************************************************************)
EXTENDS MessageQuality, WellFoundedInduction, SequenceTheorems, TLAPS

-----------------------------------------------------------------------------
(* Induction on the natural numbers, stated of sets.                       *)

LessThan == {p \in Nat \X Nat : p[1] < p[2]}

LEMMA LessThanWellFounded == IsWellFoundedOn(LessThan, Nat)
BY NatLessThanWellFounded DEF OpToRel, LessThan

LEMMA LeastNumber ==
  ASSUME NEW T \in SUBSET Nat, T # {}
  PROVE  \E n \in T : \A m \in T : ~(m < n)
<1>1. PICK n \in T : \A m \in T : ~(<<m, n>> \in LessThan)
  BY LessThanWellFounded, WFMin
<1> QED BY <1>1 DEF LessThan

LEMMA SetInduction ==
  ASSUME NEW T, 0 \in T, \A n \in Nat : n \in T => n + 1 \in T
  PROVE  Nat \subseteq T
<1> SUFFICES ASSUME Nat \ T # {} PROVE FALSE
  OBVIOUS
<1>1. PICK n \in Nat \ T : \A m \in Nat \ T : ~(m < n)
  BY LeastNumber
<1>2. n # 0 /\ n - 1 \in Nat /\ n - 1 < n
  BY <1>1
<1>3. n - 1 \in T
  BY <1>1, <1>2
<1>4. (n - 1) + 1 = n
  BY <1>1
<1> QED BY <1>1, <1>2, <1>3, <1>4

-----------------------------------------------------------------------------
(* The sum of a sequence of scores.                                        *)

IsTotals(scores, k, t) ==
  t = [n \in 0..k |-> IF n = 0 THEN 0 ELSE t[n - 1] + scores[n]]

LEMMA IsTotalsFacts ==
  ASSUME NEW scores \in Seq(Scores), NEW k \in Nat, k <= Len(scores), NEW t,
         IsTotals(scores, k, t)
  PROVE  /\ DOMAIN t = 0..k /\ t[0] = 0
         /\ \A n \in 1..k : t[n] = t[n - 1] + scores[n]
<1>1. \A n \in 0..k : t[n] = IF n = 0 THEN 0 ELSE t[n - 1] + scores[n]
  BY DEF IsTotals
<1> QED BY <1>1 DEF IsTotals

LEMMA TotalsExist ==
  ASSUME NEW scores \in Seq(Scores)
  PROVE  \A k \in Nat : k <= Len(scores) => \E t : IsTotals(scores, k, t)
<1> DEFINE T == {k \in Nat : k <= Len(scores) => \E t : IsTotals(scores, k, t)}
<1>1. 0 \in T
  <2>1. IsTotals(scores, 0, [n \in 0..0 |-> 0])
    BY DEF IsTotals
  <2> QED BY <2>1
<1>2. ASSUME NEW k \in Nat, k \in T PROVE k + 1 \in T
  <2> SUFFICES ASSUME k + 1 <= Len(scores)
               PROVE  \E t : IsTotals(scores, k + 1, t)
    OBVIOUS
  <2>0. Len(scores) \in Nat /\ k <= Len(scores)
    BY LenProperties
  <2>1. PICK t : IsTotals(scores, k, t)
    BY <1>2, <2>0
  <2>2. PICK last1 : last1 = t[k] + scores[k + 1]
    OBVIOUS
  <2>3. PICK u : u = [n \in 0..(k + 1) |-> IF n = k + 1 THEN last1 ELSE t[n]]
    OBVIOUS
  <2>4. /\ \A n \in 0..k : t[n] = IF n = 0 THEN 0 ELSE t[n - 1] + scores[n]
    BY <2>1 DEF IsTotals
  <2>5. \A n \in 0..(k + 1) : u[n] = IF n = 0 THEN 0 ELSE u[n - 1] + scores[n]
    <3> SUFFICES ASSUME NEW n \in 0..(k + 1)
                 PROVE  u[n] = IF n = 0 THEN 0 ELSE u[n - 1] + scores[n]
      OBVIOUS
    <3>1. CASE n = k + 1
      <4>1. u[n] = last1 /\ u[n - 1] = t[k] /\ n # 0
        BY <2>3, <3>1
      <4> QED BY <2>2, <3>1, <4>1
    <3>2. CASE n \in 0..k
      <4>1. u[n] = t[n] /\ (n # 0 => u[n - 1] = t[n - 1])
        BY <2>3, <3>2
      <4> QED BY <2>4, <3>2, <4>1
    <3> QED BY <3>1, <3>2
  <2>6. u = [n \in 0..(k + 1) |-> u[n]]
    BY <2>3
  <2>7. IsTotals(scores, k + 1, u)
    BY <2>5, <2>6 DEF IsTotals
  <2> QED BY <2>7
<1>3. Nat \subseteq T
  <2> HIDE DEF T
  <2> QED BY <1>1, <1>2, SetInduction
<1> QED BY <1>3

LEMMA TotalsRecursion ==
  ASSUME NEW scores \in Seq(Scores)
  PROVE  IsTotals(scores, Len(scores), Totals(scores))
<1>1. \E t : IsTotals(scores, Len(scores), t)
  BY TotalsExist, LenProperties
<1>2. \E t : t = [n \in 0..Len(scores) |-> IF n = 0 THEN 0 ELSE t[n - 1] + scores[n]]
  BY <1>1 DEF IsTotals
<1> QED BY <1>2 DEF Totals, IsTotals

\* Sums depend on the scores they are of only.
LEMMA TotalsAgree ==
  ASSUME NEW r \in Seq(Scores), NEW s \in Seq(Scores), NEW k \in Nat,
         k <= Len(r), k <= Len(s), \A n \in 1..k : r[n] = s[n],
         NEW t, IsTotals(r, Len(r), t), NEW u, IsTotals(s, Len(s), u)
  PROVE  t[k] = u[k]
<1> DEFINE T == {n \in Nat : n <= k => t[n] = u[n]}
<1>0. /\ Len(r) \in Nat /\ Len(s) \in Nat
      /\ t[0] = 0 /\ \A n \in 1..Len(r) : t[n] = t[n - 1] + r[n]
      /\ u[0] = 0 /\ \A n \in 1..Len(s) : u[n] = u[n - 1] + s[n]
  BY IsTotalsFacts, LenProperties
<1>1. 0 \in T
  BY <1>0
<1>2. ASSUME NEW n \in Nat, n \in T PROVE n + 1 \in T
  <2> SUFFICES ASSUME n + 1 <= k PROVE t[n + 1] = u[n + 1]
    OBVIOUS
  <2>1. t[n] = u[n] /\ r[n + 1] = s[n + 1]
    BY <1>2
  <2>2. n + 1 \in 1..Len(r) /\ n + 1 \in 1..Len(s) /\ (n + 1) - 1 = n
    BY <1>0
  <2> QED BY <1>0, <2>1, <2>2
<1>3. Nat \subseteq T
  <2> HIDE DEF T
  <2> QED BY <1>1, <1>2, SetInduction
<1> QED BY <1>3

LEMMA TotalOfNone == TotalScore(<<>>) = 0
<1>1. PICK none \in Seq(Scores) : none = <<>> /\ Len(none) = 0
  <2>1. <<>> \in Seq(Scores) /\ Len(<<>>) = 0
    OBVIOUS
  <2> QED BY <2>1, Zenon
<1>2. PICK t : t = Totals(none)
  OBVIOUS
<1>3. IsTotals(none, Len(none), t)
  BY <1>2, TotalsRecursion
<1>4. 0 \in Nat /\ 0 <= Len(none)
  BY <1>1
<1>5. t[0] = 0
  BY <1>1, <1>3, <1>4, IsTotalsFacts
<1> QED BY <1>1, <1>2, <1>5 DEF TotalScore

LEMMA TotalOfAppended ==
  ASSUME NEW scores \in Seq(Scores), NEW score \in Scores
  PROVE  TotalScore(Append(scores, score)) = TotalScore(scores) + score
<1> DEFINE more == Append(scores, score)
<1>1. /\ more \in Seq(Scores) /\ Len(scores) \in Nat /\ Len(more) = Len(scores) + 1
      /\ more[Len(more)] = score /\ \A n \in 1..Len(scores) : scores[n] = more[n]
  BY AppendProperties, LenProperties
<1> HIDE DEF more
<1>2. PICK t, u : t = Totals(scores) /\ u = Totals(more)
  OBVIOUS
<1>3. IsTotals(scores, Len(scores), t) /\ IsTotals(more, Len(more), u)
  BY <1>1, <1>2, TotalsRecursion
<1>4. t[Len(scores)] = u[Len(scores)]
  BY <1>1, <1>3, TotalsAgree
<1>5. u[Len(more)] = u[Len(more) - 1] + more[Len(more)]
  <2>1. Len(more) \in 1..Len(more)
    BY <1>1
  <2> QED BY <1>1, <1>3, <2>1, IsTotalsFacts
<1>6. u[Len(more)] = t[Len(scores)] + score
  BY <1>1, <1>4, <1>5
<1> QED BY <1>2, <1>6 DEF TotalScore, more

-----------------------------------------------------------------------------
(* Batches.                                                                *)

\* Division, as far as the mean of a batch needs it.
LEMMA MeanBounds ==
  ASSUME NEW x \in Nat, NEW n \in Nat \ {0}, n <= x, x <= BestScore * n
  PROVE  x \div n \in 1..BestScore
BY DEF BestScore

\* An entry holds the sum and the number of its station's scores since the last
\* publication.
IsBatch(m, scores) ==
  /\ m.iteration = Len(scores) /\ m.metric = TotalScore(scores)
  /\ m.iteration < BatchSize
  /\ m.iteration <= m.metric /\ m.metric <= BestScore * m.iteration

LEMMA FreshBatch ==
  ASSUME NEW f \in Flows
  PROVE  /\ Fresh(f) \in Station /\ Fresh(f).flow = f /\ Fresh(f).iteration = 0
         /\ IsBatch(Fresh(f), <<>>)
<1>1. Fresh(f) \in Station /\ Fresh(f).flow = f /\ Fresh(f).iteration = 0 /\ Fresh(f).metric = 0
  BY DEF Fresh, Station
<1>2. Len(<<>>) = 0
  OBVIOUS
<1> QED BY <1>1, <1>2, TotalOfNone, QualityAssumption DEF IsBatch, BestScore

\* A score is added.
LEMMA UpdatedBatch ==
  ASSUME NEW m \in Station, NEW scores \in Seq(Scores), IsBatch(m, scores),
         NEW score \in Scores,
         NEW n, n = Positioned(Updated(m, score))
  PROVE  /\ n \in Station /\ n.flow = m.flow
         /\ n.iteration = m.iteration + 1 /\ n.iteration <= BatchSize
         /\ n.iteration = Len(Append(scores, score))
         /\ n.metric = TotalScore(Append(scores, score))
         /\ n.iteration <= n.metric /\ n.metric <= BestScore * n.iteration
<1>1. m.metric \in Nat /\ m.iteration \in Nat /\ score \in 1..BestScore
  BY QualityAssumption DEF Station
<1>2. PICK u : u = Updated(m, score)
  OBVIOUS
<1>3. PICK v : v = [m EXCEPT !.metric = @ + score]
  OBVIOUS
<1>4. /\ v \in Station /\ v.flow = m.flow
      /\ v.metric = m.metric + score /\ v.iteration = m.iteration
  BY <1>1, <1>3 DEF Station, BestScore
<1>5. u = [v EXCEPT !.iteration = @ + 1]
  BY <1>2, <1>3, <1>4 DEF Updated
<1>6. /\ u \in Station /\ u.flow = m.flow
      /\ u.metric = m.metric + score /\ u.iteration = m.iteration + 1
  BY <1>1, <1>4, <1>5 DEF Station
<1>7. n = [u EXCEPT !.predictable = TRUE]
  BY <1>2 DEF Positioned
<1>8. /\ n \in Station /\ n.flow = m.flow
      /\ n.metric = m.metric + score /\ n.iteration = m.iteration + 1
  BY <1>6, <1>7 DEF Station
<1>9. Len(Append(scores, score)) = Len(scores) + 1
  BY AppendProperties
<1>10. n.iteration <= BatchSize /\ n.iteration <= n.metric /\ n.metric <= BestScore * n.iteration
  BY <1>1, <1>8, QualityAssumption DEF IsBatch, BestScore
<1> QED BY <1>8, <1>9, <1>10, TotalOfAppended DEF IsBatch

\* A complete batch is published and begun again.
LEMMA CompletedBatch ==
  ASSUME NEW m \in Station, NEW scores, Complete(m), m.iteration <= BatchSize,
         m.iteration = Len(scores), m.metric = TotalScore(scores),
         m.iteration <= m.metric, m.metric <= BestScore * m.iteration
  PROVE  /\ Len(scores) = BatchSize /\ Mean(m) = TotalScore(scores) \div BatchSize
         /\ Mean(m) \in 1..BestScore
         /\ Reset(m) \in Station /\ Reset(m).flow = m.flow /\ Reset(m).iteration = 0
         /\ IsBatch(Reset(m), <<>>)
<1>1. m.metric \in Nat /\ m.iteration = BatchSize /\ BatchSize \in Nat \ {0}
  BY QualityAssumption DEF Station, Complete
<1>2. Mean(m) \in 1..BestScore
  BY <1>1, MeanBounds DEF Mean
<1>3. /\ Reset(m) \in Station /\ Reset(m).flow = m.flow
      /\ Reset(m).iteration = 0 /\ Reset(m).metric = 0
  BY DEF Reset, Station
<1>4. Len(<<>>) = 0
  OBVIOUS
<1>5. IsBatch(Reset(m), <<>>)
  BY <1>1, <1>3, <1>4, TotalOfNone DEF IsBatch, BestScore
<1> QED BY <1>1, <1>2, <1>3, <1>5 DEF Mean

-----------------------------------------------------------------------------
(* The handler.                                                            *)

StationOK(s) ==
  IF stations[s] = Null THEN batch[s] = <<>>
  ELSE /\ stations[s].flow \in FlowsOf[s]
       /\ IsBatch(stations[s], batch[s])

PublishedOK ==
  \A f \in Flows :
    \/ last[f] = <<>> /\ quality[f] = 0
    \/ /\ Len(last[f]) = BatchSize /\ quality[f] = TotalScore(last[f]) \div BatchSize
       /\ quality[f] \in 1..BestScore

IInv ==
  /\ running \in BOOLEAN
  /\ stations \in [Stations -> Station \cup {Null}]
  /\ quality \in [Flows -> 0..BestScore]
  /\ heard \in [Stations -> 0..(BatchSize + 1)]
  /\ batch \in [Stations -> Seq(Scores)]
  /\ last \in [Flows -> Seq(Scores)]
  /\ \A s \in Stations : StationOK(s)
  /\ PublishedOK

LEMMA HeardType ==
  ASSUME IInv, NEW s \in Stations, Heard(s)
  PROVE  /\ heard' \in [Stations -> 0..(BatchSize + 1)]
         /\ heard'[s] = OneMore(heard[s])
         /\ \A t \in Stations : t # s => heard'[t] = heard[t]
<1>1. PICK k : k = OneMore(heard[s])
  OBVIOUS
<1>2. heard' = [heard EXCEPT ![s] = k]
  BY <1>1 DEF Heard
<1>3. BatchSize \in Nat /\ heard[s] \in 0..(BatchSize + 1)
  BY QualityAssumption DEF IInv
<1>4. k \in 0..(BatchSize + 1)
  BY <1>1, <1>3 DEF OneMore
<1> QED BY <1>1, <1>2, <1>4 DEF IInv

\* A crash leaves what was published.
LEMMA CrashIInv ==
  ASSUME IInv, Crash, quality' \in [Flows -> 0..BestScore], last' \in [Flows -> Seq(Scores)],
         PublishedOK'
  PROVE  IInv'
<1>1. /\ running' = FALSE
      /\ stations' = [s \in Stations |-> Null]
      /\ heard' = [s \in Stations |-> 0]
      /\ batch' = [s \in Stations |-> <<>>]
  BY DEF Crash
<1>2. heard' \in [Stations -> 0..(BatchSize + 1)]
  <2>1. 0 \in 0..(BatchSize + 1)
    BY QualityAssumption
  <2> QED BY <1>1, <2>1
<1>3. batch' \in [Stations -> Seq(Scores)]
  <2>1. <<>> \in Seq(Scores)
    OBVIOUS
  <2> QED BY <1>1, <2>1
<1>4. \A s \in Stations : StationOK(s)'
  BY <1>1 DEF StationOK
<1> QED BY <1>1, <1>2, <1>3, <1>4 DEF IInv

\* Publishing a complete batch.
LEMMA PublishOK ==
  ASSUME IInv, NEW s \in Stations, NEW m \in Station, NEW scores \in Seq(Scores),
         Len(scores) = BatchSize, Mean(m) = TotalScore(scores) \div BatchSize,
         Mean(m) \in 1..BestScore, Publish(s, m, scores)
  PROVE  /\ quality' \in [Flows -> 0..BestScore] /\ last' \in [Flows -> Seq(Scores)]
         /\ PublishedOK'
         /\ quality'[m.flow] # 0 /\ \A f \in Flows : f # m.flow => quality'[f] = quality[f]
<1>1. PICK q, g : q = Mean(m) /\ g = m.flow
  OBVIOUS
<1>2. g \in Flows /\ q \in 1..BestScore /\ q = TotalScore(scores) \div BatchSize
  BY <1>1 DEF Station
<1>3. quality' = [quality EXCEPT ![g] = q] /\ last' = [last EXCEPT ![g] = scores]
  BY <1>1 DEF Publish
<1>4. quality'[g] = q /\ last'[g] = scores
  BY <1>2, <1>3 DEF IInv
<1>5. \A f \in Flows : f # g => quality'[f] = quality[f] /\ last'[f] = last[f]
  BY <1>3 DEF IInv
<1>6. quality' \in [Flows -> 0..BestScore]
  BY <1>2, <1>3 DEF IInv, BestScore
<1>7. last' \in [Flows -> Seq(Scores)]
  BY <1>3 DEF IInv
<1>8. PublishedOK'
  BY <1>2, <1>4, <1>5 DEF IInv, PublishedOK
<1> QED BY <1>1, <1>2, <1>4, <1>5, <1>6, <1>7, <1>8

LEMMA NewStationIInv ==
  ASSUME IInv, NEW s \in Stations, NEW f \in Flows, NewStation(s, f)
  PROVE  IInv'
<1>1. PICK m : m = Fresh(f)
  OBVIOUS
<1>2. m \in Station /\ m.flow = f /\ IsBatch(m, <<>>)
  BY <1>1, FreshBatch
<1>3. /\ stations[s] = Null /\ f \in FlowsOf[s] /\ stations' = [stations EXCEPT ![s] = m]
      /\ UNCHANGED <<running, quality, batch, last>>
  BY <1>1 DEF NewStation
<1>4. stations'[s] = m /\ m # Null /\ \A t \in Stations : t # s => stations'[t] = stations[t]
  BY <1>2, <1>3, QualityAssumption DEF IInv, Station
<1>5. batch[s] = <<>>
  BY <1>3 DEF IInv, StationOK
<1>6. \A t \in Stations : StationOK(t)'
  BY <1>2, <1>3, <1>4, <1>5 DEF IInv, StationOK
<1>7. stations' \in [Stations -> Station \cup {Null}]
  BY <1>2, <1>3 DEF IInv
<1>8. heard' \in [Stations -> 0..(BatchSize + 1)]
  BY HeardType DEF NewStation
<1>9. PublishedOK'
  BY <1>3 DEF IInv, PublishedOK
<1> QED BY <1>3, <1>6, <1>7, <1>8, <1>9 DEF IInv

\* What Message does, with the entry and the scores that it makes.
LEMMA MessageCases ==
  ASSUME IInv, NEW s \in Stations, NEW f \in Flows, NEW score \in Scores, Message(s, f, score)
  PROVE  \E m \in Station, scores \in Seq(Scores) :
           /\ stations[s] \in Station /\ m.flow = stations[s].flow
           /\ f \in FlowsOf[s] /\ m.flow \in FlowsOf[s]
           /\ m.iteration = stations[s].iteration + 1 /\ m.iteration <= BatchSize
           /\ m.iteration = Len(scores) /\ m.metric = TotalScore(scores)
           /\ m.iteration <= m.metric /\ m.metric <= BestScore * m.iteration
           /\ \/ /\ ~Complete(m)
                 /\ stations' = [stations EXCEPT ![s] = m]
                 /\ batch' = [batch EXCEPT ![s] = scores]
                 /\ Heard(s) /\ UNCHANGED <<running, quality, last>>
              \/ /\ Complete(m) /\ Publish(s, m, scores)
                 /\ stations' = [stations EXCEPT ![s] = Reset(m)]
                 /\ batch' = [batch EXCEPT ![s] = <<>>]
                 /\ Heard(s) /\ UNCHANGED running
              \/ /\ Complete(m) /\ Crash
                 /\ Publish(s, m, scores) \/ UNCHANGED <<quality, last>>
<1>1. stations[s] \in Station /\ f \in FlowsOf[s]
  BY DEF IInv, Message
<1>2. batch[s] \in Seq(Scores) /\ IsBatch(stations[s], batch[s]) /\ stations[s].flow \in FlowsOf[s]
  <2>1. stations[s] # Null
    BY DEF Message
  <2> QED BY <2>1 DEF IInv, StationOK
<1>3. PICK m : m = Positioned(Updated(stations[s], score))
  OBVIOUS
<1>4. PICK scores : scores = Append(batch[s], score)
  OBVIOUS
<1>5. /\ m \in Station /\ m.flow = stations[s].flow
      /\ m.iteration = stations[s].iteration + 1 /\ m.iteration <= BatchSize
      /\ m.iteration = Len(scores) /\ m.metric = TotalScore(scores)
      /\ m.iteration <= m.metric /\ m.metric <= BestScore * m.iteration
  BY <1>1, <1>2, <1>3, <1>4, UpdatedBatch
<1>6. scores \in Seq(Scores)
  BY <1>2, <1>4, AppendProperties
<1>7. \/ /\ ~Complete(m)
         /\ stations' = [stations EXCEPT ![s] = m]
         /\ batch' = [batch EXCEPT ![s] = scores]
         /\ Heard(s) /\ UNCHANGED <<running, quality, last>>
      \/ /\ Complete(m) /\ Publish(s, m, scores)
         /\ stations' = [stations EXCEPT ![s] = Reset(m)]
         /\ batch' = [batch EXCEPT ![s] = <<>>]
         /\ Heard(s) /\ UNCHANGED running
      \/ /\ Complete(m) /\ Crash
         /\ Publish(s, m, scores) \/ UNCHANGED <<quality, last>>
  BY <1>3, <1>4 DEF Message
<1> QED BY <1>1, <1>2, <1>5, <1>6, <1>7

LEMMA MessageIInv ==
  ASSUME IInv, NEW s \in Stations, NEW f \in Flows, NEW score \in Scores, Message(s, f, score)
  PROVE  IInv'
<1>1. PICK m \in Station, scores \in Seq(Scores) :
        /\ m.flow \in FlowsOf[s]
        /\ m.iteration <= BatchSize
        /\ m.iteration = Len(scores) /\ m.metric = TotalScore(scores)
        /\ m.iteration <= m.metric /\ m.metric <= BestScore * m.iteration
        /\ \/ /\ ~Complete(m)
              /\ stations' = [stations EXCEPT ![s] = m]
              /\ batch' = [batch EXCEPT ![s] = scores]
              /\ Heard(s) /\ UNCHANGED <<running, quality, last>>
           \/ /\ Complete(m) /\ Publish(s, m, scores)
              /\ stations' = [stations EXCEPT ![s] = Reset(m)]
              /\ batch' = [batch EXCEPT ![s] = <<>>]
              /\ Heard(s) /\ UNCHANGED running
           \/ /\ Complete(m) /\ Crash
              /\ Publish(s, m, scores) \/ UNCHANGED <<quality, last>>
  BY MessageCases
\* The station's entry and batch are replaced by ones that agree.
<1>2. ASSUME NEW n \in Station, NEW new \in Seq(Scores), IsBatch(n, new), n.flow = m.flow,
             stations' = [stations EXCEPT ![s] = n], batch' = [batch EXCEPT ![s] = new]
      PROVE  /\ stations' \in [Stations -> Station \cup {Null}]
             /\ batch' \in [Stations -> Seq(Scores)]
             /\ \A t \in Stations : StationOK(t)'
  <2>1. /\ stations'[s] = n /\ n # Null /\ batch'[s] = new
        /\ \A t \in Stations : t # s => stations'[t] = stations[t] /\ batch'[t] = batch[t]
    BY <1>2, QualityAssumption DEF IInv, Station
  <2>2. \A t \in Stations : StationOK(t)'
    BY <1>1, <1>2, <2>1 DEF IInv, StationOK
  <2> QED BY <1>2, <2>2 DEF IInv
<1>3. CASE /\ ~Complete(m)
           /\ stations' = [stations EXCEPT ![s] = m]
           /\ batch' = [batch EXCEPT ![s] = scores]
           /\ Heard(s) /\ UNCHANGED <<running, quality, last>>
  <2>1. m.iteration < BatchSize
    BY <1>3, QualityAssumption DEF Complete, Station
  <2>2. IsBatch(m, scores)
    BY <1>1, <2>1 DEF IsBatch
  <2>3. heard' \in [Stations -> 0..(BatchSize + 1)]
    BY <1>3, HeardType
  <2>4. PublishedOK'
    BY <1>3 DEF IInv, PublishedOK
  <2>5. /\ stations' \in [Stations -> Station \cup {Null}]
        /\ batch' \in [Stations -> Seq(Scores)]
        /\ \A t \in Stations : StationOK(t)'
    BY <1>2, <1>3, <2>2
  <2> QED BY <1>3, <2>3, <2>4, <2>5 DEF IInv
<1>4. CASE Complete(m)
  <2>1. /\ Len(scores) = BatchSize /\ Mean(m) = TotalScore(scores) \div BatchSize
        /\ Mean(m) \in 1..BestScore
        /\ Reset(m) \in Station /\ Reset(m).flow = m.flow
        /\ IsBatch(Reset(m), <<>>)
    BY <1>1, <1>4, CompletedBatch
  <2>2. Publish(s, m, scores) =>
          /\ quality' \in [Flows -> 0..BestScore] /\ last' \in [Flows -> Seq(Scores)]
          /\ PublishedOK'
    BY <2>1, PublishOK
  <2>3. CASE /\ Publish(s, m, scores)
             /\ stations' = [stations EXCEPT ![s] = Reset(m)]
             /\ batch' = [batch EXCEPT ![s] = <<>>]
             /\ Heard(s) /\ UNCHANGED running
    <3>1. PICK n \in Station, new \in Seq(Scores) : n = Reset(m) /\ new = <<>>
      <4>1. <<>> \in Seq(Scores)
        OBVIOUS
      <4> QED BY <2>1, <4>1, Zenon
    <3>2. /\ stations' \in [Stations -> Station \cup {Null}]
          /\ batch' \in [Stations -> Seq(Scores)]
          /\ \A t \in Stations : StationOK(t)'
      BY <1>2, <2>1, <2>3, <3>1
    <3>3. heard' \in [Stations -> 0..(BatchSize + 1)]
      BY <2>3, HeardType
    <3> QED BY <2>2, <2>3, <3>2, <3>3 DEF IInv
  <2>4. CASE Crash /\ (Publish(s, m, scores) \/ UNCHANGED <<quality, last>>)
    <3>1. UNCHANGED <<quality, last>> =>
            /\ quality' \in [Flows -> 0..BestScore] /\ last' \in [Flows -> Seq(Scores)]
            /\ PublishedOK'
      BY DEF IInv, PublishedOK
    <3> QED BY <2>2, <2>4, <3>1, CrashIInv
  <2> QED BY <1>1, <1>4, <2>3, <2>4
<1> QED BY <1>1, <1>3, <1>4

LEMMA IInvInit == Init => IInv
<1> SUFFICES ASSUME Init PROVE IInv
  OBVIOUS
<1>1. <<>> \in Seq(Scores) /\ 0 \in 0..(BatchSize + 1) /\ 0 \in 0..BestScore
  BY QualityAssumption DEF BestScore
<1>2. PublishedOK
  BY DEF Init, PublishedOK
<1>3. \A s \in Stations : StationOK(s)
  BY DEF Init, StationOK
<1> QED BY <1>1, <1>2, <1>3 DEF Init, IInv

LEMMA IInvNext == IInv /\ [Next]_vars => IInv'
<1>1. IInv /\ UNCHANGED vars => IInv'
  BY DEF vars, IInv, StationOK, PublishedOK
<1>2. IInv /\ Unreadable => IInv'
  <2>1. IInv /\ UNCHANGED <<quality, last>> =>
          /\ quality' \in [Flows -> 0..BestScore] /\ last' \in [Flows -> Seq(Scores)]
          /\ PublishedOK'
    BY DEF IInv, PublishedOK
  <2> QED BY <2>1, CrashIInv DEF Unreadable
<1>3. IInv /\ Start => IInv'
  BY DEF Start, IInv, StationOK, PublishedOK
<1> QED BY <1>1, <1>2, <1>3, NewStationIInv, MessageIInv DEF Next

LEMMA Invariance == Spec => []IInv
BY IInvInit, IInvNext, PTL DEF Spec

\* The maps and the column are well formed, and no station holds a complete batch
\* between messages, whatever ends the process and when.
THEOREM TypeCorrect == Spec => []TypeOK
<1>1. IInv => TypeOK
  <2> SUFFICES ASSUME IInv PROVE TypeOK
    OBVIOUS
  <2>1. \A s \in Stations : stations[s] # Null => ~Complete(stations[s])
    <3> SUFFICES ASSUME NEW s \in Stations, stations[s] # Null
                 PROVE  ~Complete(stations[s])
      OBVIOUS
    <3>1. stations[s] \in Station /\ stations[s].iteration < BatchSize
      BY DEF IInv, StationOK, IsBatch
    <3> QED BY <3>1, QualityAssumption DEF Complete, Station
  <2> QED BY <2>1 DEF IInv, TypeOK
<1> QED BY <1>1, Invariance, PTL

\* A quality is the mean of exactly one batch of scores of its own station, for
\* any number of stations, flows and scores, any batch size and any crashes.
THEOREM MeansOfBatches == Spec => []MeanOfBatch
<1>1. IInv => MeanOfBatch
  BY DEF IInv, PublishedOK, MeanOfBatch
<1> QED BY <1>1, Invariance, PTL

-----------------------------------------------------------------------------
(* Publications and numbers of messages.                                   *)

\* The entry of a station counts its messages since the last publication, all but
\* the first of all; before the first publication those are all that it sent.
HeardOK(s) ==
  IF stations[s] = Null THEN heard[s] = 0
  ELSE /\ heard[s] >= stations[s].iteration + 1
       /\ quality[stations[s].flow] = 0 => heard[s] <= stations[s].iteration + 1

AllHeardOK == \A s \in Stations : HeardOK(s)

\* A station's entry becomes n with one more message, and no quality is taken back.
LEMMA HeardStep ==
  ASSUME IInv, AllHeardOK,
         NEW s \in Stations, Heard(s),
         NEW n \in Station, stations' = [stations EXCEPT ![s] = n],
         \A g \in Flows : quality[g] # 0 => quality'[g] # 0,
         n.iteration <= BatchSize, n.iteration <= heard[s],
         quality'[n.flow] = 0 => heard[s] <= n.iteration
  PROVE  AllHeardOK'
<1>1. /\ stations'[s] = n /\ n # Null
      /\ \A t \in Stations : t # s => stations'[t] = stations[t]
  BY QualityAssumption DEF IInv, Station
<1>2. heard'[s] = OneMore(heard[s]) /\ \A t \in Stations : t # s => heard'[t] = heard[t]
  BY HeardType
<1>3. heard[s] \in Nat /\ BatchSize \in Nat /\ n.iteration \in Nat
  BY QualityAssumption DEF IInv, Station
<1>4. heard'[s] >= n.iteration + 1 /\ (quality'[n.flow] = 0 => heard'[s] <= n.iteration + 1)
  BY <1>2, <1>3 DEF OneMore
<1>5. HeardOK(s)'
  BY <1>1, <1>4 DEF AllHeardOK, HeardOK
<1>6. ASSUME NEW t \in Stations, t # s PROVE HeardOK(t)'
  <2>1. HeardOK(t) /\ stations'[t] = stations[t] /\ heard'[t] = heard[t]
    BY <1>1, <1>2, <1>6 DEF AllHeardOK
  <2>2. stations[t] # Null => stations[t].flow \in Flows
    BY DEF IInv, Station
  <2> QED BY <2>1, <2>2 DEF AllHeardOK, HeardOK
<1> QED BY <1>5, <1>6 DEF AllHeardOK

LEMMA HeardNewStation ==
  ASSUME IInv, AllHeardOK,
         NEW s \in Stations, NEW f \in Flows, NewStation(s, f)
  PROVE  AllHeardOK'
<1>1. PICK n : n = Fresh(f)
  OBVIOUS
<1>2. n \in Station /\ n.iteration = 0
  BY <1>1, FreshBatch
<1>3. /\ stations[s] = Null /\ stations' = [stations EXCEPT ![s] = n]
      /\ Heard(s) /\ UNCHANGED quality
  BY <1>1 DEF NewStation
<1>4. heard[s] = 0
  BY <1>3 DEF AllHeardOK, HeardOK
<1>5. 0 <= BatchSize /\ \A g \in Flows : quality[g] # 0 => quality'[g] # 0
  BY <1>3, QualityAssumption
<1>6. n.iteration <= BatchSize /\ n.iteration <= heard[s] /\ heard[s] <= n.iteration
  BY <1>2, <1>4, <1>5
<1> QED BY <1>2, <1>3, <1>5, <1>6, HeardStep

LEMMA HeardCrash == Crash => AllHeardOK'
BY DEF Crash, AllHeardOK, HeardOK

LEMMA HeardMessage ==
  ASSUME IInv, AllHeardOK,
         NEW s \in Stations, NEW f \in Flows, NEW score \in Scores, Message(s, f, score)
  PROVE  AllHeardOK'
<1>1. PICK m \in Station, scores \in Seq(Scores) :
        /\ stations[s] \in Station /\ m.flow = stations[s].flow
        /\ m.iteration = stations[s].iteration + 1 /\ m.iteration <= BatchSize
        /\ m.iteration = Len(scores) /\ m.metric = TotalScore(scores)
        /\ m.iteration <= m.metric /\ m.metric <= BestScore * m.iteration
        /\ \/ /\ ~Complete(m)
              /\ stations' = [stations EXCEPT ![s] = m]
              /\ Heard(s) /\ UNCHANGED quality
           \/ /\ Complete(m) /\ Publish(s, m, scores)
              /\ stations' = [stations EXCEPT ![s] = Reset(m)]
              /\ Heard(s)
           \/ Crash
  BY MessageCases
<1>2. heard[s] >= m.iteration /\ (quality[m.flow] = 0 => heard[s] <= m.iteration)
  <2>1. stations[s] # Null
    BY <1>1, QualityAssumption DEF Station
  <2> QED BY <1>1, <2>1 DEF AllHeardOK, HeardOK
<1>3. m.iteration \in Nat /\ m.flow \in Flows /\ heard[s] \in Nat /\ BatchSize \in Nat
  BY QualityAssumption DEF IInv, Station
<1>4. CASE stations' = [stations EXCEPT ![s] = m] /\ Heard(s) /\ UNCHANGED quality
  <2>1. \A g \in Flows : quality[g] # 0 => quality'[g] # 0
    BY <1>4
  <2>2. m.iteration <= heard[s] /\ (quality'[m.flow] = 0 => heard[s] <= m.iteration)
    BY <1>2, <1>3, <1>4
  <2> QED BY <1>1, <1>4, <2>1, <2>2, HeardStep
<1>5. CASE /\ Complete(m) /\ Publish(s, m, scores)
           /\ stations' = [stations EXCEPT ![s] = Reset(m)] /\ Heard(s)
  <2>1. /\ Len(scores) = BatchSize /\ Mean(m) = TotalScore(scores) \div BatchSize
        /\ Mean(m) \in 1..BestScore
        /\ Reset(m) \in Station /\ Reset(m).flow = m.flow /\ Reset(m).iteration = 0
    BY <1>1, <1>5, CompletedBatch
  <2>2. quality'[m.flow] # 0 /\ \A g \in Flows : g # m.flow => quality'[g] = quality[g]
    BY <1>5, <2>1, PublishOK
  <2>3. PICK n \in Station : n = Reset(m) /\ n.flow = m.flow /\ n.iteration = 0
    BY <2>1
  <2>4. stations' = [stations EXCEPT ![s] = n]
    BY <1>5, <2>3
  <2>5. \A g \in Flows : quality[g] # 0 => quality'[g] # 0
    BY <2>2
  <2>6. n.iteration <= BatchSize /\ n.iteration <= heard[s]
    BY <1>3, <2>3
  <2> QED BY <1>5, <2>2, <2>3, <2>4, <2>5, <2>6, HeardStep
<1> QED BY <1>1, <1>4, <1>5, HeardCrash

LEMMA HeardInit == Init => AllHeardOK
BY DEF Init, AllHeardOK, HeardOK

LEMMA HeardNext ==
  IInv /\ AllHeardOK /\ [Next]_vars => AllHeardOK'
<1>1. AllHeardOK /\ UNCHANGED vars => AllHeardOK'
  BY DEF vars, AllHeardOK, HeardOK
<1>2. Unreadable => AllHeardOK'
  BY HeardCrash DEF Unreadable
<1>3. AllHeardOK /\ Start => AllHeardOK'
  BY DEF Start, AllHeardOK, HeardOK
<1> QED BY <1>1, <1>2, <1>3, HeardNewStation, HeardMessage DEF Next

\* Whatever flows the messages of a station carry and whoever shares them, the flow
\* of its first message is evaluated once it has sent one message and a batch of
\* others, for any number of stations, any batch size and any crashes.
THEOREM EnoughAlwaysEvaluated == Spec => []EnoughIsEvaluated
<1>1. IInv /\ AllHeardOK => EnoughIsEvaluated
  <2> SUFFICES ASSUME IInv, NEW s \in Stations, HeardOK(s), heard[s] > BatchSize
               PROVE  quality[stations[s].flow] # 0
    BY DEF EnoughIsEvaluated, AllHeardOK
  <2>1. BatchSize \in Nat /\ heard[s] \in Nat
    BY QualityAssumption DEF IInv
  <2>2. stations[s] # Null
    BY <2>1 DEF AllHeardOK, HeardOK
  <2>3. stations[s].iteration \in Nat /\ stations[s].iteration < BatchSize
    BY <2>2 DEF IInv, StationOK, IsBatch, Station
  <2> QED BY <2>1, <2>2, <2>3 DEF AllHeardOK, HeardOK
<1> QED BY <1>1, HeardInit, HeardNext, Invariance, PTL DEF Spec

\* A flow gets its first quality from a batch of one station.
LEMMA EvaluatedStep ==
  ASSUME IInv, AllHeardOK,
         NEW s \in Stations, NEW f \in Flows, NEW score \in Scores,
         Message(s, f, score), NEW g \in Flows, quality[g] = 0, quality'[g] # 0
  PROVE  stations[s] # Null /\ stations[s].flow = g /\ heard[s] >= BatchSize
<1>1. PICK m \in Station, scores \in Seq(Scores) :
        /\ stations[s] \in Station /\ m.flow = stations[s].flow
        /\ m.iteration = stations[s].iteration + 1
        /\ \/ UNCHANGED quality
           \/ Complete(m) /\ Publish(s, m, scores)
  BY MessageCases
<1>2. Complete(m) /\ Publish(s, m, scores)
  BY <1>1
<1>3. g = m.flow
  <2>1. PICK q, h : q = Mean(m) /\ h = m.flow
    OBVIOUS
  <2>2. quality' = [quality EXCEPT ![h] = q]
    BY <1>2, <2>1 DEF Publish
  <2> QED BY <2>1, <2>2 DEF IInv
<1>4. stations[s] # Null
  BY <1>1, QualityAssumption DEF Station
<1>5. heard[s] >= stations[s].iteration + 1
  BY <1>4 DEF AllHeardOK, HeardOK
<1>6. stations[s].iteration + 1 >= BatchSize
  BY <1>1, <1>2 DEF Complete
<1>7. heard[s] \in Nat /\ stations[s].iteration \in Nat /\ BatchSize \in Nat
  BY <1>1, QualityAssumption DEF IInv, Station
<1> QED BY <1>1, <1>3, <1>4, <1>5, <1>6, <1>7

\* A flow's quality is no longer 0 only after one station that began with it has
\* sent as many messages as a batch takes: those of stations that share the flow do
\* not add up.
THEOREM OnlyEvaluatedWhenEnough == Spec => EvaluatedWhenEnough
<1> DEFINE Began(g) == \E s \in Stations :
             stations[s] # Null /\ stations[s].flow = g /\ heard[s] >= BatchSize
<1>1. IInv /\ AllHeardOK /\ [Next]_vars =>
        [\A f \in Flows : quality[f] = 0 /\ quality'[f] # 0 => Began(f)]_vars
  <2>1. ASSUME Unreadable \/ Start \/ \E s \in Stations, f \in Flows : NewStation(s, f)
        PROVE  UNCHANGED quality
    BY <2>1 DEF Unreadable, Start, NewStation
  <2> QED BY <2>1, EvaluatedStep DEF Next
<1> QED BY <1>1, HeardInit, HeardNext, Invariance, PTL DEF Spec, EvaluatedWhenEnough
=============================================================================
