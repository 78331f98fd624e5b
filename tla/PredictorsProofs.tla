-------------------------- MODULE PredictorsProofs --------------------------
(***************************************************************************)
(* The pose graph of the factor-graph predictor, and the intervals all the *)
(* predictors predict over, for every capacity of the ring, every number   *)
(* of iterations and every sequence of messages.                           *)
(***************************************************************************)
EXTENDS Predictors, SequenceTheorems, TLAPS

\* The graph of n keys: the prior and a factor from each key to the one before.
Chain(n) == <<Prior>> \o [i \in 1..(n - 1) |-> <<i, i - 1>>]

IsPredictor(q) ==
  q = [iterations |-> q.iterations, reference |-> q.reference, estimate |-> q.estimate,
       graph |-> q.graph, interval |-> q.interval]

\* The graph of q is a chain about one reference, along the messages up to n.
Along(q, n) ==
  /\ DOMAIN q.estimate = 0..(q.iterations - 1)
  /\ q.graph = Chain(q.iterations)
  /\ \A key \in DOMAIN q.estimate :
       /\ q.estimate[key].position.message = n - q.iterations + key
       /\ q.estimate[key].reference = q.reference

-----------------------------------------------------------------------------
(* The operations on the graph.                                            *)

LEMMA ChainShape ==
  ASSUME NEW n \in Nat \ {0}
  PROVE  /\ Chain(n) \in Seq({Prior} \cup (Nat \X Nat)) /\ Len(Chain(n)) = n
         /\ Chain(n)[1] = Prior
         /\ \A k \in 2..n : Chain(n)[k] = <<k - 1, k - 2>>
<1> DEFINE links == [i \in 1..(n - 1) |-> <<i, i - 1>>]
<1>1. links \in Seq({Prior} \cup (Nat \X Nat)) /\ Len(links) = n - 1
  <2>1. links \in [1..(n - 1) -> {Prior} \cup (Nat \X Nat)]
    OBVIOUS
  <2> QED BY <2>1
<1>2. <<Prior>> \in Seq({Prior} \cup (Nat \X Nat)) /\ Len(<<Prior>>) = 1
  OBVIOUS
<1>3. Chain(n) = <<Prior>> \o links
  BY DEF Chain
<1> HIDE DEF links
<1>4. Chain(n) \in Seq({Prior} \cup (Nat \X Nat)) /\ Len(Chain(n)) = n
  BY <1>1, <1>2, <1>3
<1>5. Chain(n)[1] = Prior
  BY <1>1, <1>2, <1>3
<1>6. \A k \in 2..n : Chain(n)[k] = links[k - 1]
  BY <1>1, <1>2, <1>3
<1> QED BY <1>4, <1>5, <1>6 DEF links

LEMMA ChainExtended ==
  ASSUME NEW n \in Nat \ {0}
  PROVE  Append(Chain(n), <<n, n - 1>>) = Chain(n + 1)
<1> DEFINE longer == Append(Chain(n), <<n, n - 1>>)
<1>1. /\ longer \in Seq({Prior} \cup (Nat \X Nat)) /\ Len(longer) = n + 1
      /\ longer[n + 1] = <<n, n - 1>> /\ \A k \in 1..n : longer[k] = Chain(n)[k]
  BY ChainShape
<1>2. /\ Chain(n + 1) \in Seq({Prior} \cup (Nat \X Nat)) /\ Len(Chain(n + 1)) = n + 1
      /\ Chain(n + 1)[1] = Prior
      /\ \A k \in 2..(n + 1) : Chain(n + 1)[k] = <<k - 1, k - 2>>
  BY ChainShape
<1>3. \A k \in 1..(n + 1) : longer[k] = Chain(n + 1)[k]
  <2>1. longer[1] = Chain(n + 1)[1]
    BY <1>1, <1>2, ChainShape
  <2>2. ASSUME NEW k \in 2..n
        PROVE  longer[k] = Chain(n + 1)[k]
    <3>1. k \in 1..n /\ k \in 2..(n + 1)
      OBVIOUS
    <3>2. longer[k] = Chain(n)[k]
      BY <1>1, <3>1
    <3>3. Chain(n)[k] = <<k - 1, k - 2>>
      BY ChainShape
    <3> QED BY <1>2, <3>1, <3>2, <3>3
  <2>3. Chain(n + 1)[n + 1] = <<n, n - 1>>
    <3>1. n + 1 \in 2..(n + 1) /\ (n + 1) - 1 = n /\ (n + 1) - 2 = n - 1
      OBVIOUS
    <3> QED BY <1>2, <3>1
  <2> HIDE DEF longer
  <2>4. longer[n + 1] = Chain(n + 1)[n + 1]
    BY <1>1, <2>3
  <2>5. \A k \in 1..(n + 1) : k = 1 \/ k \in 2..n \/ k = n + 1
    OBVIOUS
  <2> QED BY <2>1, <2>2, <2>4, <2>5
<1> HIDE DEF longer
<1>4. longer = Chain(n + 1)
  BY <1>1, <1>2, <1>3, SeqEqual
<1> QED BY <1>4 DEF longer

\* The factor of the projection does not outlive the prediction.
LEMMA ChainRestored ==
  ASSUME NEW n \in Nat \ {0}, NEW factor
  PROVE  Resized(Append(Chain(n), factor), n) = Chain(n)
<1> DEFINE shorter == Resized(Append(Chain(n), factor), n)
           T == {Prior, factor} \cup (Nat \X Nat)
<1>1. Chain(n) \in Seq(T) /\ Len(Chain(n)) = n /\ factor \in T
  BY ChainShape
<1>2. /\ \A k \in 1..n : k \in DOMAIN Append(Chain(n), factor)
      /\ \A k \in 1..n : Append(Chain(n), factor)[k] = Chain(n)[k]
  BY <1>1
<1>3. shorter = [k \in 1..n |-> Chain(n)[k]]
  BY <1>2 DEF Resized
<1>4. Chain(n) = [k \in 1..n |-> Chain(n)[k]]
  BY <1>1
<1> QED BY <1>3, <1>4

\* What is left of a graph that was built from nothing.
LEMMA BuiltAndProjected ==
  ASSUME NEW q, IsPredictor(q), q.estimate = EmptyValues, q.graph = <<Prior>>,
         NEW ps \in Seq(Position), Len(ps) >= 2,
         NEW left, left = ProjectedAndRemoved(BuildFullFactorGraph(q, ps), Len(ps))
  PROVE  /\ IsPredictor(left) /\ left.reference = q.reference
         /\ left.graph = Chain(Len(ps))
         /\ DOMAIN left.estimate = 0..(Len(ps) - 1)
         /\ \A key \in 0..(Len(ps) - 1) : left.estimate[key] = Pose(q, ps[key + 1])
<1> DEFINE n == Len(ps)
           b == BuildFullFactorGraph(q, ps)
           poses == [i \in 0..(n - 1) |-> Pose(q, ps[i + 1])]
<1>1. Inserted(EmptyValues, poses) = poses
  BY DEF Inserted, EmptyValues
<1>2. /\ IsPredictor(b) /\ b.reference = q.reference /\ b.interval = q.interval
      /\ b.estimate = poses /\ b.graph = Chain(n)
  <2>1. b = [q EXCEPT !.estimate = poses, !.graph = Chain(n)]
    BY <1>1 DEF BuildFullFactorGraph, Chain
  <2> HIDE DEF b, poses
  <2> QED BY <2>1 DEF IsPredictor
<1> DEFINE p == ProjectedAndRemoved(b, n)
           rest == [key \in DOMAIN b.estimate \ {n} |-> b.estimate[key]]
<1>3. rest = poses
  BY <1>2
<1>4. Resized(Append(b.graph, <<n, n - 1>>), n) = Chain(n)
  BY <1>2, ChainRestored
<1>5. p = [b EXCEPT !.graph = Chain(n), !.estimate = poses]
  BY <1>3, <1>4 DEF ProjectedAndRemoved
<1> HIDE DEF b, p, poses, rest
<1>6. /\ IsPredictor(p) /\ p.reference = q.reference /\ p.interval = q.interval
      /\ p.graph = Chain(n) /\ p.estimate = poses
  BY <1>2, <1>5 DEF IsPredictor
<1> QED BY <1>6 DEF b, p, poses

-----------------------------------------------------------------------------
(* Predictions.                                                            *)

\* Whichever way the graph is brought up to date, it is a chain along the
\* messages up to the one that is about to be pushed.
LEMMA FactorPredictAlong ==
  ASSUME NEW q, IsPredictor(q), NEW n \in Nat, NEW ps \in Seq(Position), Len(ps) >= 2,
         \A k \in DOMAIN ps : ps[k].message = n - Len(ps) + k,
         \/ /\ q.iterations = 0 /\ Len(ps) = 2
            /\ q.estimate = EmptyValues /\ q.graph = <<Prior>>
         \/ q.iterations \in Nat \ {0} /\ Along(q, n)
  PROVE  LET p == FactorPredict(q, ps) IN
           /\ IsPredictor(p) /\ p.iterations \in Nat \ {0} /\ Along(p, n + 1)
           /\ p.reference = ps[1] \/ (q.iterations # 0 /\ p.reference = q.reference)
<1> DEFINE p == FactorPredict(q, ps)
<1>1. ASSUME NEW r, IsPredictor(r), r.estimate = EmptyValues, r.graph = <<Prior>>,
             NEW i, i = Len(ps),
             p = [ProjectedAndRemoved(BuildFullFactorGraph(r, ps), Len(ps))
                    EXCEPT !.iterations = i]
      PROVE  /\ IsPredictor(p) /\ p.iterations \in Nat \ {0} /\ Along(p, n + 1)
             /\ p.reference = r.reference
  <2>0. PICK b : b = ProjectedAndRemoved(BuildFullFactorGraph(r, ps), Len(ps))
    OBVIOUS
  <2>1. /\ IsPredictor(b) /\ b.reference = r.reference /\ b.graph = Chain(Len(ps))
        /\ DOMAIN b.estimate = 0..(Len(ps) - 1)
        /\ \A key \in 0..(Len(ps) - 1) : b.estimate[key] = Pose(r, ps[key + 1])
    <3>1. IsPredictor(r) /\ r.estimate = EmptyValues /\ r.graph = <<Prior>>
      BY <1>1
    <3> QED BY <2>0, <3>1, BuiltAndProjected
  <2>2. p = [b EXCEPT !.iterations = i]
    BY <1>1, <2>0
  <2> HIDE DEF p
  <2>3. /\ IsPredictor(p) /\ p.iterations = Len(ps) /\ p.reference = r.reference
        /\ p.graph = b.graph /\ p.estimate = b.estimate
    BY <1>1, <2>1, <2>2 DEF IsPredictor
  <2>4. ASSUME NEW key \in 0..(Len(ps) - 1)
        PROVE  /\ p.estimate[key].position.message = (n + 1) - Len(ps) + key
               /\ p.estimate[key].reference = p.reference
    <3>1. p.estimate[key] = [position |-> ps[key + 1], reference |-> r.reference]
      BY <2>1, <2>3 DEF Pose
    <3>2. key + 1 \in DOMAIN ps /\ ps[key + 1].message = n - Len(ps) + (key + 1)
      OBVIOUS
    <3> QED BY <2>3, <3>1, <3>2
  <2>5. DOMAIN p.estimate = 0..(Len(ps) - 1)
    BY <2>1, <2>3
  <2>6. Along(p, n + 1)
    BY <2>1, <2>3, <2>4, <2>5 DEF Along
  <2> QED BY <2>3, <2>6
<1>2. CASE q.iterations = 0
  <2> DEFINE r == Referred(q, ps)
  <2>1. /\ IsPredictor(r) /\ r.reference = ps[1]
        /\ r.estimate = EmptyValues /\ r.graph = <<Prior>>
    BY <1>2 DEF Referred, IsPredictor
  <2>2. p = [ProjectedAndRemoved(BuildFullFactorGraph(r, ps), Len(ps)) EXCEPT !.iterations = 2]
    BY <1>2 DEF FactorPredict
  <2> HIDE DEF r, p
  <2>3. Len(ps) = 2
    BY <1>2
  <2> QED BY <1>1, <2>1, <2>2, <2>3 DEF p
<1>3. CASE q.iterations # 0 /\ q.iterations >= MaxIterations
  <2> DEFINE r == Referred(Reset(q), ps)
  <2>1. /\ IsPredictor(r) /\ r.reference = ps[1]
        /\ r.estimate = EmptyValues /\ r.graph = <<Prior>>
    <3>1. /\ IsPredictor(Reset(q))
          /\ Reset(q).estimate = EmptyValues /\ Reset(q).graph = <<Prior>>
      <4>1. PICK cleared : cleared = Reset(q)
        OBVIOUS
      <4>2. cleared = [q EXCEPT !.graph = <<Prior>>, !.estimate = EmptyValues]
        BY <4>1 DEF Reset
      <4>3. PICK graph, estimate : graph = <<Prior>> /\ estimate = EmptyValues
        OBVIOUS
      <4>4. cleared = [q EXCEPT !.graph = graph, !.estimate = estimate]
        BY <4>2, <4>3
      <4>5. IsPredictor(cleared) /\ cleared.graph = graph /\ cleared.estimate = estimate
        BY <4>4 DEF IsPredictor
      <4> QED BY <4>1, <4>3, <4>5
    <3> QED BY <3>1 DEF Referred, IsPredictor
  <2>2. p = [ProjectedAndRemoved(BuildFullFactorGraph(r, ps), Len(ps))
               EXCEPT !.iterations = Len(ps)]
    BY <1>3 DEF FactorPredict
  <2> HIDE DEF r, p
  <2> QED BY <1>1, <2>1, <2>2 DEF p
<1>4. CASE q.iterations # 0 /\ ~(q.iterations >= MaxIterations)
  <2> DEFINE i == q.iterations
             newest == ps[Len(ps)]
             u == UpdateFactorGraph(q, newest)
             b == ProjectedAndRemoved(u, i + 1)
             values == [key \in 0..i |-> IF key < i THEN q.estimate[key] ELSE Pose(q, newest)]
  <2>1. i \in Nat \ {0} /\ Along(q, n)
    BY <1>4
  <2>2. p = [b EXCEPT !.iterations = @ + 1]
    BY <1>4 DEF FactorPredict
  <2>3. Inserted(q.estimate, [key \in {i} |-> Pose(q, newest)]) = values
    BY <2>1 DEF Inserted, Along
  <2>4. Append(q.graph, <<i, i - 1>>) = Chain(i + 1)
    BY <2>1, ChainExtended DEF Along
  <2>5. u = [q EXCEPT !.estimate = values, !.graph = Chain(i + 1)]
    BY <2>3, <2>4 DEF UpdateFactorGraph
  <2>6. /\ IsPredictor(u) /\ u.iterations = i /\ u.reference = q.reference
        /\ u.estimate = values /\ u.graph = Chain(i + 1)
    <3> HIDE DEF u, values
    <3> QED BY <2>5 DEF IsPredictor
  <2>7. [key \in DOMAIN u.estimate \ {i + 1} |-> u.estimate[key]] = values
    <3> HIDE DEF u
    <3>1. DOMAIN values \ {i + 1} = 0..i
      BY <2>1
    <3> QED BY <2>6, <3>1
  <2>8. Resized(Append(u.graph, <<i + 1, (i + 1) - 1>>), i + 1) = Chain(i + 1)
    <3> HIDE DEF u
    <3> QED BY <2>1, <2>6, ChainRestored
  <2>9. b = [u EXCEPT !.graph = Chain(i + 1), !.estimate = values]
    <3> HIDE DEF u, values
    <3> QED BY <2>7, <2>8 DEF ProjectedAndRemoved
  <2>10. /\ IsPredictor(p) /\ p.iterations = i + 1 /\ p.reference = q.reference
         /\ p.estimate = values /\ p.graph = Chain(i + 1)
    <3> HIDE DEF p, b, u, values
    <3> QED BY <2>2, <2>6, <2>9 DEF IsPredictor
  <2>11. newest.message = n
    <3>1. Len(ps) \in DOMAIN ps
      OBVIOUS
    <3> QED BY <3>1
  <2>12. ASSUME NEW key \in 0..i
         PROVE  /\ values[key].position.message = (n + 1) - (i + 1) + key
                /\ values[key].reference = q.reference
    <3>1. CASE key < i
      BY <2>1, <3>1 DEF Along
    <3>2. CASE key = i
      BY <2>1, <2>11, <3>2 DEF Pose
    <3> QED BY <2>1, <3>1, <3>2
  <2>13. Along(p, n + 1)
    <3>1. DOMAIN values = 0..i /\ (i + 1) - 1 = i
      BY <2>1
    <3> HIDE DEF p, values
    <3> QED BY <2>10, <2>12, <3>1 DEF Along
  <2> HIDE DEF p
  <2> QED BY <2>1, <2>10, <2>13 DEF p
<1> QED BY <1>2, <1>3, <1>4

\* The interval is a number once there is a reference.
LEMMA IntervalType ==
  ASSUME NEW q, q.reference \in Position, NEW ps \in Seq(Position), Len(ps) >= 2
  PROVE  Interval(q, ps) \in Int
<1>1. \A p \in Position : Stamp(p) \in Int
  BY PredictorsAssumption DEF Stamp, Position
<1>2. Last(ps) \in Position /\ ps[Len(ps) - 1] \in Position
  BY DEF Last
<1>3. MeanDelta \in Int
  BY PredictorsAssumption
<1> QED BY <1>1, <1>2, <1>3 DEF Interval

\* What a prediction does to the predictor, of whatever kind it is.
LEMMA PredictedFields ==
  ASSUME kind \in {"FACTOR", "UKF", "SIMPLE"},
         NEW q, IsPredictor(q), q.iterations \in Nat,
         q.iterations # 0 => q.reference \in Position,
         NEW n \in Nat, NEW ps \in Seq(Position), Len(ps) >= 2,
         \A k \in DOMAIN ps : ps[k].message = n - Len(ps) + k,
         kind = "FACTOR" =>
           \/ /\ q.iterations = 0 /\ Len(ps) = 2
              /\ q.estimate = EmptyValues /\ q.graph = <<Prior>>
           \/ q.iterations \in Nat \ {0} /\ Along(q, n),
         NEW p, p = Predicted(q, ps)
  PROVE  /\ IsPredictor(p) /\ p.iterations \in Nat \ {0}
         /\ p.reference \in Position /\ p.interval \in Int
         /\ kind = "FACTOR" => Along(p, n + 1)
         /\ p.interval = Interval(p, ps)
         /\ q.iterations = 0 => p.reference = ps[1]
<1>0. ps[1] \in Position
  OBVIOUS
<1>1. ASSUME NEW r, IsPredictor(r), r.iterations \in Nat \ {0}, r.reference \in Position,
             kind = "FACTOR" => Along(r, n + 1),
             q.iterations = 0 => r.reference = ps[1],
             p = [r EXCEPT !.interval = Interval(r, ps)]
      PROVE  /\ IsPredictor(p) /\ p.iterations \in Nat \ {0}
             /\ p.reference \in Position /\ p.interval \in Int
             /\ kind = "FACTOR" => Along(p, n + 1)
             /\ p.interval = Interval(p, ps)
             /\ q.iterations = 0 => p.reference = ps[1]
  <2>1. Interval(r, ps) \in Int
    BY <1>1, IntervalType
  <2>3. /\ IsPredictor(p) /\ p.iterations = r.iterations /\ p.reference = r.reference
        /\ p.estimate = r.estimate /\ p.graph = r.graph /\ p.interval = Interval(r, ps)
    BY <1>1 DEF IsPredictor
  <2>4. kind = "FACTOR" => Along(p, n + 1)
    BY <1>1, <2>3 DEF Along
  <2>5. Interval(p, ps) = Interval(r, ps)
    BY <2>3 DEF Interval
  <2> QED BY <1>1, <2>1, <2>3, <2>4, <2>5
<1>2. CASE kind = "FACTOR"
  <2>1. PICK r : r = FactorPredict(q, ps)
    OBVIOUS
  <2>2. /\ IsPredictor(r) /\ r.iterations \in Nat \ {0} /\ Along(r, n + 1)
        /\ r.reference = ps[1] \/ (q.iterations # 0 /\ r.reference = q.reference)
    BY <1>2, <2>1, FactorPredictAlong
  <2>3. p = [r EXCEPT !.interval = Interval(r, ps)]
    BY <1>2, <2>1 DEF Predicted
  <2> QED BY <1>0, <1>1, <2>2, <2>3
<1>3. CASE kind = "UKF"
  <2>1. PICK r : r = UKFPredict(q, ps)
    OBVIOUS
  <2>2. PICK referred : referred = Referred(q, ps)
    OBVIOUS
  <2>3. /\ IsPredictor(referred) /\ referred.reference = ps[1]
        /\ referred.iterations = q.iterations
    BY <2>2 DEF Referred, IsPredictor
  <2>4. r = [referred EXCEPT !.iterations = @ + 1]
    BY <2>1, <2>2 DEF UKFPredict
  <2>5. IsPredictor(r) /\ r.iterations = q.iterations + 1 /\ r.reference = ps[1]
    BY <2>3, <2>4 DEF IsPredictor
  <2>6. p = [r EXCEPT !.interval = Interval(r, ps)]
    BY <1>3, <2>1 DEF Predicted
  <2>7. r.iterations \in Nat \ {0} /\ r.reference \in Position
    BY <1>0, <2>5
  <2>8. kind # "FACTOR"
    BY <1>3
  <2> QED BY <1>1, <2>5, <2>6, <2>7, <2>8
<1>4. CASE kind = "SIMPLE"
  <2>1. PICK r : r = SimplePredict(q, ps)
    OBVIOUS
  <2>2. PICK referred : referred = IF q.iterations = 0 THEN Referred(q, ps) ELSE q
    OBVIOUS
  <2>3. /\ IsPredictor(referred) /\ referred.reference \in Position
        /\ referred.iterations = q.iterations
        /\ q.iterations = 0 => referred.reference = ps[1]
    BY <1>0, <2>2 DEF Referred, IsPredictor
  <2>4. r = [referred EXCEPT !.iterations = @ + 1]
    BY <2>1, <2>2 DEF SimplePredict
  <2>5. /\ IsPredictor(r) /\ r.iterations = q.iterations + 1
        /\ r.reference = referred.reference
    BY <2>3, <2>4 DEF IsPredictor
  <2>6. p = [r EXCEPT !.interval = Interval(r, ps)]
    BY <1>4, <2>1 DEF Predicted
  <2>7. /\ r.iterations \in Nat \ {0} /\ r.reference \in Position
        /\ q.iterations = 0 => r.reference = ps[1]
    BY <2>3, <2>5
  <2>8. kind # "FACTOR"
    BY <1>4
  <2> QED BY <1>1, <2>5, <2>6, <2>7, <2>8
<1> QED BY <1>2, <1>3, <1>4

-----------------------------------------------------------------------------
(* The station's messages.                                                 *)

\* ps holds the last positions of n messages, as many as fit.
Ring(ps, n) ==
  /\ ps \in Seq(Position)
  /\ Len(ps) = IF n < Capacity THEN n ELSE Capacity
  /\ \A k \in DOMAIN ps : ps[k].message = n - Len(ps) + k

LEMMA PushedRing ==
  ASSUME NEW n \in Nat, NEW ps, Ring(ps, n), NEW p \in Position, p.message = n + 1
  PROVE  Ring(Pushed(ps, p), n + 1)
<1>0. ps \in Seq(Position) /\ Capacity \in Nat /\ Capacity >= 3
  BY PredictorsAssumption DEF Ring
<1>1. CASE Len(ps) < Capacity
  <2>1. n < Capacity /\ Len(ps) = n
    BY <1>0, <1>1 DEF Ring
  <2>2. /\ Pushed(ps, p) \in Seq(Position) /\ Len(Pushed(ps, p)) = n + 1
        /\ Pushed(ps, p)[n + 1] = p /\ \A k \in 1..n : Pushed(ps, p)[k] = ps[k]
    BY <1>0, <1>1, <2>1 DEF Pushed
  <2>3. ASSUME NEW k \in 1..(n + 1)
        PROVE  Pushed(ps, p)[k].message = (n + 1) - (n + 1) + k
    <3>1. CASE k = n + 1
      BY <2>2, <3>1
    <3>2. CASE k \in 1..n
      BY <1>0, <2>1, <2>2, <3>2 DEF Ring
    <3> QED BY <3>1, <3>2
  <2>4. DOMAIN Pushed(ps, p) = 1..(n + 1)
    BY <2>2
  <2>5. n + 1 = IF n + 1 < Capacity THEN n + 1 ELSE Capacity
    BY <1>0, <2>1
  <2>6. PICK pushed : pushed = Pushed(ps, p)
    OBVIOUS
  <2>7. /\ pushed \in Seq(Position) /\ Len(pushed) = n + 1
        /\ \A k \in DOMAIN pushed : pushed[k].message = (n + 1) - Len(pushed) + k
    BY <2>2, <2>3, <2>4, <2>6
  <2>8. Ring(pushed, n + 1)
    BY <2>5, <2>7 DEF Ring
  <2> QED BY <2>6, <2>8
<1>2. CASE ~(Len(ps) < Capacity)
  <2>1. ~(n < Capacity) /\ Len(ps) = Capacity
    BY <1>0, <1>2 DEF Ring
  <2>2. Tail(ps) \in Seq(Position) /\ Len(Tail(ps)) = Capacity - 1
        /\ \A k \in 1..(Capacity - 1) : Tail(ps)[k] = ps[k + 1]
    BY <1>0, <2>1
  <2>3. /\ Pushed(ps, p) \in Seq(Position) /\ Len(Pushed(ps, p)) = Capacity
        /\ Pushed(ps, p)[Capacity] = p
        /\ \A k \in 1..(Capacity - 1) : Pushed(ps, p)[k] = ps[k + 1]
    BY <1>0, <1>2, <2>2 DEF Pushed
  <2>4. ASSUME NEW k \in 1..Capacity
        PROVE  Pushed(ps, p)[k].message = (n + 1) - Capacity + k
    <3>1. CASE k = Capacity
      BY <1>0, <2>3, <3>1
    <3>2. CASE k \in 1..(Capacity - 1)
      <4>1. k + 1 \in DOMAIN ps
        BY <1>0, <2>1, <3>2
      <4>2. ps[k + 1].message = n - Capacity + (k + 1)
        BY <2>1, <4>1 DEF Ring
      <4> QED BY <1>0, <2>3, <3>2, <4>2
    <3> QED BY <1>0, <3>1, <3>2
  <2>5. DOMAIN Pushed(ps, p) = 1..Capacity
    BY <1>0, <2>3
  <2>6. ~(n + 1 < Capacity)
    BY <1>0, <2>1
  <2> QED BY <2>3, <2>4, <2>5, <2>6 DEF Ring
<1> QED BY <1>1, <1>2

\* The graph is untouched until the third message is about to come, and a chain
\* along the track from then on.
IInv ==
  /\ kind \in Kinds
  /\ sent \in 0..MaxMessages /\ time \in Nat
  /\ Ring(positions, sent)
  /\ IsPredictor(predictor)
  /\ predictor.iterations \in Nat
  /\ predictor.reference \in Position \cup {Null}
  /\ predictor.interval \in Int \cup {Null}
  /\ predictor.iterations # 0 => predictor.reference \in Position
  /\ kind = "FACTOR" =>
       \/ /\ predictor.iterations = 0 /\ sent <= 2
          /\ predictor.estimate = EmptyValues /\ predictor.graph = <<Prior>>
       \/ predictor.iterations # 0 /\ sent >= 3 /\ Along(predictor, sent)

LEMMA InitIInv == Init => IInv
<1> SUFFICES ASSUME Init PROVE IInv
  OBVIOUS
<1>1. IsPredictor(NewPredictor) /\ Ring(<<>>, 0)
  BY PredictorsAssumption DEF IsPredictor, NewPredictor, Ring
<1> QED BY <1>1, PredictorsAssumption DEF Init, IInv, NewPredictor

LEMMA FirstMessageIInv == IInv /\ FirstMessage => IInv'
<1> SUFFICES ASSUME IInv, FirstMessage PROVE IInv'
  OBVIOUS
<1>1. sent = 0 /\ positions = <<>>
  BY PredictorsAssumption DEF FirstMessage, IInv, Ring
<1>2. Arrival(0) \in Position /\ Arrival(0).message = 1
  BY <1>1 DEF Arrival, Position, IInv
<1>3. Ring(positions', 1)
  <2>1. <<Arrival(0)>> \in Seq(Position) /\ Len(<<Arrival(0)>>) = 1
        /\ DOMAIN <<Arrival(0)>> = {1} /\ <<Arrival(0)>>[1] = Arrival(0)
    BY <1>2
  <2> QED BY <1>2, <2>1, PredictorsAssumption DEF Ring, FirstMessage
<1>4. sent' = 1 /\ sent' \in 0..MaxMessages /\ UNCHANGED <<kind, time, predictor>>
  BY <1>1, PredictorsAssumption DEF FirstMessage
<1> QED BY <1>1, <1>3, <1>4 DEF IInv

LEMMA MessageFacts ==
  ASSUME IInv, NEW gap \in Gaps, NEW score \in Scores, Message(gap, score)
  PROVE  /\ sent \in Nat /\ sent < MaxMessages /\ gap \in Nat /\ time \in Nat
         /\ sent' = sent + 1 /\ time' = time + gap /\ kind' = kind
         /\ positions \in Seq(Position) /\ positions # <<>>
         /\ Capacity \in Nat /\ Capacity >= 3
BY PredictorsAssumption DEF Message, IInv, Ring

LEMMA ArrivalPushed ==
  ASSUME IInv, NEW gap \in Gaps, NEW score \in Scores, Message(gap, score)
  PROVE  \E p \in Position : p.message = sent + 1 /\ positions' = Pushed(positions, p)
<1>0. /\ sent \in Nat /\ gap \in Nat /\ time \in Nat
      /\ positions \in Seq(Position) /\ positions # <<>>
  BY MessageFacts
<1>1. Last(positions) \in Position
  BY <1>0 DEF Last
<1>2. PICK at \in Nat : positions' = Pushed(positions, [Arrival(gap) EXCEPT !.at = at])
  <2>1. CASE score >= Threshold
    <3>1. [Arrival(gap) EXCEPT !.at = IF score >= Threshold THEN @ ELSE Last(positions).at]
            = [Arrival(gap) EXCEPT !.at = time + gap]
      BY <2>1 DEF Arrival
    <3>2. positions' = Pushed(positions, [Arrival(gap) EXCEPT !.at = time + gap])
      BY <3>1 DEF Message, Update
    <3>3. time + gap \in Nat
      BY <1>0
    <3> QED BY <3>2, <3>3
  <2>2. CASE ~(score >= Threshold)
    <3>1. [Arrival(gap) EXCEPT !.at = IF score >= Threshold THEN @ ELSE Last(positions).at]
            = [Arrival(gap) EXCEPT !.at = Last(positions).at]
      BY <2>2
    <3>2. Last(positions).at \in Nat
      BY <1>1 DEF Position
    <3> QED BY <3>1, <3>2 DEF Message, Update
  <2> QED BY <2>1, <2>2
<1>3. PICK p : p = [Arrival(gap) EXCEPT !.at = at]
  OBVIOUS
<1>4. p \in Position /\ p.message = sent + 1
  BY <1>0, <1>2, <1>3 DEF Arrival, Position
<1> QED BY <1>2, <1>3, <1>4

\* A prediction in a state of the invariant.
LEMMA PredictionMade ==
  ASSUME IInv, Len(positions) >= 2, predictor' = Predicted(predictor, positions)
  PROVE  /\ IsPredictor(predictor') /\ predictor'.iterations \in Nat \ {0}
         /\ predictor'.reference \in Position /\ predictor'.interval \in Int
         /\ kind = "FACTOR" => Along(predictor', sent + 1)
         /\ predictor'.interval = Interval(predictor', positions)
         /\ predictor.iterations = 0 => predictor'.reference = positions[1]
<1>0. /\ sent \in Nat /\ positions \in Seq(Position)
      /\ Capacity \in Nat /\ Capacity >= 3
  BY PredictorsAssumption DEF IInv, Ring
<1>1. sent >= 2 /\ (sent = 2 => Len(positions) = 2)
  BY <1>0 DEF IInv, Ring
<1>2. kind \in {"FACTOR", "UKF", "SIMPLE"}
  BY PredictorsAssumption DEF IInv
<1>3. /\ IsPredictor(predictor) /\ predictor.iterations \in Nat
      /\ predictor.iterations # 0 => predictor.reference \in Position
      /\ \A k \in DOMAIN positions : positions[k].message = sent - Len(positions) + k
      /\ kind = "FACTOR" =>
           \/ /\ predictor.iterations = 0 /\ Len(positions) = 2
              /\ predictor.estimate = EmptyValues /\ predictor.graph = <<Prior>>
           \/ predictor.iterations \in Nat \ {0} /\ Along(predictor, sent)
  BY <1>0, <1>1 DEF IInv, Ring
<1> QED BY <1>0, <1>2, <1>3, PredictedFields

LEMMA MessageIInv ==
  ASSUME IInv, NEW gap \in Gaps, NEW score \in Scores, Message(gap, score)
  PROVE  IInv'
<1>0. /\ sent \in Nat /\ sent < MaxMessages /\ gap \in Nat /\ time \in Nat
      /\ sent' = sent + 1 /\ time' = time + gap /\ kind' = kind
      /\ positions \in Seq(Position) /\ positions # <<>>
      /\ Capacity \in Nat /\ Capacity >= 3
  BY MessageFacts
<1>1. Ring(positions', sent')
  BY <1>0, ArrivalPushed, PushedRing DEF IInv
<1>2. sent' \in 0..MaxMessages /\ time' \in Nat /\ kind' \in Kinds
  BY <1>0, PredictorsAssumption DEF IInv
<1>3. CASE Len(positions) < 2 /\ UNCHANGED predictor
  <2>1. sent < 2
    BY <1>0, <1>3 DEF IInv, Ring
  <2> QED BY <1>0, <1>1, <1>2, <1>3, <2>1 DEF IInv
<1>4. CASE Len(positions) >= 2 /\ predictor' = Predicted(predictor, positions)
  <2>1. sent >= 2
    BY <1>0, <1>4 DEF IInv, Ring
  <2>2. /\ IsPredictor(predictor') /\ predictor'.iterations \in Nat \ {0}
        /\ predictor'.reference \in Position /\ predictor'.interval \in Int
        /\ kind = "FACTOR" => Along(predictor', sent + 1)
    BY <1>4, PredictionMade
  <2> QED BY <1>0, <1>1, <1>2, <2>1, <2>2 DEF IInv
<1> QED BY <1>3, <1>4 DEF Message

THEOREM Invariance == Spec => []IInv
<1>1. IInv /\ UNCHANGED vars => IInv'
  BY DEF vars, IInv
<1>2. IInv /\ [Next]_vars => IInv'
  BY <1>1, FirstMessageIInv, MessageIInv DEF Next
<1> QED BY <1>2, InitIInv, PTL DEF Spec

\* The fields are well formed; the ring holds the last positions, in order and
\* no more than fit, whatever the messages are.
THEOREM TypeCorrect == Spec => []TypeOK
<1>1. IInv => TypeOK
  <2> SUFFICES ASSUME IInv PROVE TypeOK
    OBVIOUS
  <2>1. Len(positions) <= Capacity
    BY PredictorsAssumption DEF IInv, Ring
  <2> QED BY <2>1 DEF IInv, Ring, TypeOK
<1> QED BY <1>1, Invariance, PTL

\* The pose graph is a chain without gaps or loose factors across builds,
\* rebuilds and extensions, for every capacity and number of iterations.
THEOREM AlwaysChain == Spec => []GraphIsChain
<1>1. IInv => GraphIsChain
  <2> SUFFICES ASSUME IInv, Built PROVE GraphIsChain
    BY DEF GraphIsChain
  <2>1. Along(predictor, sent)
    BY DEF IInv, Built
  <2>2. /\ DOMAIN predictor.estimate = 0..(predictor.iterations - 1)
        /\ predictor.graph = Chain(predictor.iterations)
    BY <2>1 DEF Along
  <2> QED BY <2>2 DEF GraphIsChain, Chain
<1> QED BY <1>1, Invariance, PTL

\* The keys of the graph are the last messages, one by one.
THEOREM AlwaysOnTrack == Spec => []GraphFollowsTrack
<1>1. IInv => GraphFollowsTrack
  BY DEF IInv, GraphFollowsTrack, Built, Along
<1> QED BY <1>1, Invariance, PTL

\* No pose is left from before a change of the reference.
THEOREM AlwaysOneReference == Spec => []OneReference
<1>1. IInv => OneReference
  BY DEF IInv, OneReference, Built, Along
<1> QED BY <1>1, Invariance, PTL

-----------------------------------------------------------------------------
(* The interval of a prediction.                                           *)

LEMMA DivMod ==
  ASSUME NEW a \in Int
  PROVE  /\ a \div Wrap \in Int /\ a % Wrap \in Int
         /\ a = Wrap * (a \div Wrap) + (a % Wrap)
<1>1. Wrap \in Nat \ {0}
  BY PredictorsAssumption
<1>2. a \div Wrap \in Int /\ a % Wrap \in Int
  BY <1>1
<1>3. a = Wrap * (a \div Wrap) + (a % Wrap)
  BY <1>1
<1> QED BY <1>2, <1>3

LEMMA TurnsVanish ==
  ASSUME NEW k \in Int
  PROVE  (Wrap * k) % Wrap = 0
BY PredictorsAssumption

\* A difference of stamps is one of times, but for whole turns.
LEMMA StampDifference ==
  ASSUME NEW newer \in Position, NEW older \in Position,
         NEW T, T = Stamp(newer) - Stamp(older)
  PROVE  /\ T \in Int
         /\ (newer.at - older.at - T) % Wrap = 0
         /\ newer.at \div Wrap = older.at \div Wrap => T = newer.at - older.at
<1> PICK a \in Nat, b \in Nat : a = newer.at /\ b = older.at
  BY DEF Position
<1> PICK k \in Int, l \in Int : k = a \div Wrap /\ l = b \div Wrap
  BY DivMod
<1> PICK c \in Int, d \in Int : c = a % Wrap /\ d = b % Wrap
  BY DivMod
<1>0. Wrap \in Int
  BY PredictorsAssumption
<1>1. a = Wrap * k + c /\ b = Wrap * l + d
  BY DivMod
<1>2. T = c - d
  BY DEF Stamp
<1>3. a - b - T = Wrap * (k - l)
  BY <1>0, <1>1, <1>2
<1>4. (a - b - T) % Wrap = 0
  <2>1. k - l \in Int
    OBVIOUS
  <2> QED BY <1>3, <2>1, TurnsVanish
<1>5. k = l => T = a - b
  BY <1>0, <1>1, <1>2
<1> QED BY <1>2, <1>4, <1>5

\* Whichever way it is computed, the interval is a difference of stamps.
LEMMA IntervalIs ==
  ASSUME NEW q, q.reference \in Position, NEW ps \in Seq(Position), Len(ps) >= 2,
         Len(ps) = 2 => q.reference = ps[1],
         NEW T, T = Stamp(ps[Len(ps)]) - Stamp(ps[Len(ps) - 1])
  PROVE  Interval(q, ps) = IF T = 0 THEN MeanDelta ELSE T
<1>1. \A p \in Position : Stamp(p) \in Int
  BY DivMod DEF Stamp, Position
<1>2. ps[Len(ps)] \in Position /\ ps[Len(ps) - 1] \in Position
  OBVIOUS
<1>3. PICK l \in Int, m \in Int, r \in Int :
        /\ l = Stamp(ps[Len(ps)]) /\ m = Stamp(ps[Len(ps) - 1])
        /\ r = Stamp(q.reference)
  BY <1>1, <1>2
<1>4. CASE Len(ps) = 2
  <2>1. m = r /\ Last(ps) = ps[Len(ps)]
    BY <1>3, <1>4 DEF Last
  <2>2. Interval(q, ps) = IF (l - r) - 0 = 0 THEN MeanDelta ELSE (l - r) - 0
    BY <1>3, <1>4, <2>1 DEF Interval
  <2> QED BY <1>3, <2>1, <2>2
<1>5. CASE Len(ps) # 2
  <2>1. Last(ps) = ps[Len(ps)]
    BY DEF Last
  <2>2. Interval(q, ps) = IF (l - r) - (m - r) = 0 THEN MeanDelta ELSE (l - r) - (m - r)
    BY <1>3, <1>5, <2>1 DEF Interval
  <2>3. (l - r) - (m - r) = l - m
    OBVIOUS
  <2> QED BY <1>3, <2>2, <2>3
<1> QED BY <1>4, <1>5

\* The two positions a prediction was made from stand before the newest.
LEMMA PushedBehind ==
  ASSUME NEW ps \in Seq(Position), Len(ps) >= 2, Len(ps) <= Capacity, NEW p \in Position,
         NEW pushed, pushed = Pushed(ps, p)
  PROVE  /\ pushed[Len(pushed) - 1] = ps[Len(ps)]
         /\ pushed[Len(pushed) - 2] = ps[Len(ps) - 1]
<1>0. Capacity \in Nat /\ Capacity >= 3 /\ Len(ps) \in Nat
  BY PredictorsAssumption
<1>1. CASE Len(ps) < Capacity
  BY <1>0, <1>1 DEF Pushed
<1>2. CASE ~(Len(ps) < Capacity)
  <2>1. /\ Tail(ps) \in Seq(Position) /\ Len(Tail(ps)) = Len(ps) - 1
        /\ \A k \in 1..(Len(ps) - 1) : Tail(ps)[k] = ps[k + 1]
    BY <1>0
  <2>2. /\ Len(pushed) = Len(ps)
        /\ \A k \in 1..(Len(ps) - 1) : pushed[k] = ps[k + 1]
    BY <1>0, <1>2, <2>1 DEF Pushed
  <2> QED BY <1>0, <1>2, <2>2
<1> QED BY <1>1, <1>2

\* Before the third message nothing was predicted.
IntervalInv ==
  /\ sent <= 2 => predictor.iterations = 0 /\ predictor.interval = Null
  /\ IntervalIsElapsed

LEMMA MessageInterval ==
  ASSUME IInv, IntervalInv, NEW gap \in Gaps, NEW score \in Scores, Message(gap, score)
  PROVE  IntervalInv'
<1>0. /\ sent \in Nat /\ sent' = sent + 1 /\ kind' = kind
      /\ positions \in Seq(Position) /\ Len(positions) \in Nat
      /\ Capacity \in Nat /\ Capacity >= 3 /\ Len(positions) <= Capacity
  BY PredictorsAssumption DEF Message, IInv, Ring
<1>1. CASE Len(positions) < 2 /\ UNCHANGED predictor
  <2>1. sent < 2
    BY <1>0, <1>1 DEF IInv, Ring
  <2> QED BY <1>0, <1>1, <2>1 DEF IntervalInv, IntervalIsElapsed
<1>2. CASE Len(positions) >= 2 /\ predictor' = Predicted(predictor, positions)
  <2>1. sent >= 2 /\ (Len(positions) = 2 => predictor.iterations = 0)
    BY <1>0, <1>2 DEF IInv, Ring, IntervalInv
  <2>2. /\ predictor'.reference \in Position
        /\ predictor'.interval = Interval(predictor', positions)
        /\ Len(positions) = 2 => predictor'.reference = positions[1]
    BY <1>2, <2>1, PredictionMade
  <2>3. PICK p \in Position : positions' = Pushed(positions, p)
    BY ArrivalPushed
  <2>4. PICK newer \in Position, older \in Position :
          newer = positions[Len(positions)] /\ older = positions[Len(positions) - 1]
    BY <1>0, <1>2
  <2>5. newer = positions'[Len(positions') - 1] /\ older = positions'[Len(positions') - 2]
    BY <1>0, <1>2, <2>3, <2>4, PushedBehind
  <2>6. PICK T : T = Stamp(newer) - Stamp(older)
    OBVIOUS
  <2>7. predictor'.interval = IF T = 0 THEN MeanDelta ELSE T
    BY <1>0, <1>2, <2>2, <2>4, <2>6, IntervalIs
  <2>8. /\ T \in Int /\ (newer.at - older.at - T) % Wrap = 0
        /\ newer.at \div Wrap = older.at \div Wrap => T = newer.at - older.at
    BY <2>6, StampDifference
  <2>9. Stamp(newer) = Stamp(older) <=> T = 0
    <3>1. Stamp(newer) \in Int /\ Stamp(older) \in Int
      BY DivMod DEF Stamp, Position
    <3> QED BY <2>6, <3>1
  <2>10. IntervalIsElapsed'
    BY <2>5, <2>7, <2>8, <2>9 DEF IntervalIsElapsed, Stamp
  <2> QED BY <1>0, <2>1, <2>10 DEF IntervalInv
<1> QED BY <1>1, <1>2 DEF Message

\* Whichever predictor, and however far the ring has turned, a prediction is
\* made over the time between the two latest positions, but for whole turns of
\* the stamps between them and the mean interval in place of none.
THEOREM AlwaysElapsed == Spec => []IntervalIsElapsed
<1>1. Init => IntervalInv
  BY DEF Init, NewPredictor, IntervalInv, IntervalIsElapsed
<1>2. IInv /\ IntervalInv /\ FirstMessage => IntervalInv'
  <2> SUFFICES ASSUME IInv, IntervalInv, FirstMessage PROVE IntervalInv'
    OBVIOUS
  <2>1. sent = 0 /\ UNCHANGED predictor
    BY PredictorsAssumption DEF FirstMessage, IInv, Ring
  <2> QED BY <2>1 DEF FirstMessage, IntervalInv, IntervalIsElapsed
<1>3. IntervalInv /\ UNCHANGED vars => IntervalInv'
  BY DEF vars, IntervalInv, IntervalIsElapsed
<1>4. IInv /\ IntervalInv /\ [Next]_vars => IntervalInv'
  BY <1>2, <1>3, MessageInterval DEF Next
<1>5. IntervalInv => IntervalIsElapsed
  BY DEF IntervalInv
<1> QED BY <1>1, <1>4, <1>5, Invariance, PTL DEF Spec
=============================================================================
