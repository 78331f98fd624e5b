----------------------------- MODULE Predictors -----------------------------
(***************************************************************************)
(* The positions of one station and the predictor of the next one: its.cpp *)
(* and predictor.cpp, driven as on_CAMReceived drives them, a prediction   *)
(* from the positions so far and then an update with the new one.          *)
(*                                                                         *)
(* Coordinates are abstracted away: a position is the message it comes     *)
(* from and the time of that message, a pose in the factor graph is the    *)
(* position it is converted from and the reference of that conversion.     *)
(***************************************************************************)
EXTENDS Integers, Sequences, SequencesExt

CONSTANTS
  Kinds,          \* the values of PredictorType that are tried
  Capacity,       \* ITS::MAX_POSITIONS_
  MaxIterations,  \* MAX_ITERATIONS
  Wrap,           \* generationDeltaTime counts milliseconds modulo this
  MeanDelta,      \* MEAN_DELTA_TIME
  Gaps,           \* the time that may pass between two messages
  Scores,         \* the scores of a prediction
  Threshold,      \* DetectorsInfo::VALIDITY_THRESHOLD
  MaxMessages,    \* bound on the messages of the station
  Null            \* absent

BestScore == 7

ASSUME PredictorsAssumption ==
  /\ Kinds \subseteq {"FACTOR", "UKF", "SIMPLE"}
  /\ Capacity \in Nat /\ Capacity >= 3
  /\ MaxIterations \in Nat \ {0}
  /\ Wrap \in Nat \ {0} /\ MeanDelta \in Nat \ {0}
  /\ Gaps \subseteq 0..(Wrap - 1)
  /\ Scores \subseteq 1..BestScore /\ BestScore \in Scores /\ Threshold \in 0..BestScore
  /\ MaxMessages \in Nat

VARIABLES
  kind,       \* the type of the station's predictor_
  sent,       \* history: the number of messages so far
  time,       \* history: when the last of them was generated, never wrapping
  positions,  \* positions_, the oldest first
  predictor   \* the fields of *predictor_

vars == <<kind, sent, time, positions, predictor>>

\* The message a position is from, and when that was generated.
Position == [message : Nat, at : Nat]

\* delta_time_, what getTime reads.
Stamp(p) == p.at % Wrap

\* n_iterations_, reference_position_ with reference_time_, initial_estimate_
\* (a map from keys), graph_ (the prior, then factors between two keys), and,
\* for the properties, the interval the last prediction was made over.
EmptyValues == [key \in {} |-> Null]
Prior == <<0>>
NewPredictor ==
  [iterations |-> 0, reference |-> Null, estimate |-> EmptyValues, graph |-> <<Prior>>,
   interval |-> Null]

-----------------------------------------------------------------------------
(* FactorGraphPredictor: the pose graph.                                   *)

Referred(q, ps) == [q EXCEPT !.reference = ps[1]]

\* gtsam::Values::insert refuses a key it has; here the first value stays.
Inserted(values, more) ==
  [key \in DOMAIN values \cup DOMAIN more |->
     IF key \in DOMAIN values THEN values[key] ELSE more[key]]

Pose(q, p) == [position |-> p, reference |-> q.reference]

\* insertNewFactor of the i-th position for each i: key 0 has no predecessor.
BuildFullFactorGraph(q, ps) ==
  [q EXCEPT !.estimate = Inserted(@, [i \in 0..(Len(ps) - 1) |-> Pose(q, ps[i + 1])]),
            !.graph = @ \o [i \in 1..(Len(ps) - 1) |-> <<i, i - 1>>]]

\* Variant: the graph starts anew, the values do not.
ResetGraphOnly(q) == [q EXCEPT !.graph = <<Prior>>]

Reset(q) == [q EXCEPT !.graph = <<Prior>>, !.estimate = EmptyValues]

\* Variant: the reference moves with the vehicle.
UpdateMovingReference(q, p) ==
  LET i == q.iterations IN
    [q EXCEPT !.reference = p,
              !.estimate = Inserted(@, [key \in {i} |-> [position |-> p, reference |-> p]]),
              !.graph = Append(@, <<i, i - 1>>)]

UpdateFactorGraph(q, p) ==
  LET i == q.iterations IN
    [q EXCEPT !.estimate = Inserted(@, [key \in {i} |-> Pose(q, p)]),
              !.graph = Append(@, <<i, i - 1>>)]

\* The projection is inserted under key i, optimised, and removed again.
\* NonlinearFactorGraph::resize cuts, or pads with null pointers.
Resized(graph, i) == [k \in 1..i |-> IF k \in DOMAIN graph THEN graph[k] ELSE Null]

\* Variant: the factor of the projection stays in the graph.
ProjectedAndKept(q, i) ==
  [q EXCEPT !.graph = Resized(Append(@, <<i, i - 1>>), i + 1),
            !.estimate = [key \in DOMAIN @ \ {i} |-> @[key]]]

ProjectedAndRemoved(q, i) ==
  [q EXCEPT !.graph = Resized(Append(@, <<i, i - 1>>), i),
            !.estimate = [key \in DOMAIN @ \ {i} |-> @[key]]]

\* The three ways to bring the graph up to date: build it, build it anew, extend
\* it.  After a build the counter is two, or the number of positions.
FactorPredict(q, ps) ==
  IF q.iterations = 0
    THEN LET built == BuildFullFactorGraph(Referred(q, ps), ps) IN
         [ProjectedAndRemoved(built, Len(ps)) EXCEPT !.iterations = 2]
    ELSE IF q.iterations >= MaxIterations
    THEN LET built == BuildFullFactorGraph(Referred(Reset(q), ps), ps) IN
         [ProjectedAndRemoved(built, Len(ps)) EXCEPT !.iterations = Len(ps)]
    ELSE LET updated == UpdateFactorGraph(q, ps[Len(ps)]) IN
         [ProjectedAndRemoved(updated, q.iterations + 1) EXCEPT !.iterations = @ + 1]

-----------------------------------------------------------------------------
(* Predictor::predict of each type.                                        *)

\* Variant: with two positions too, the time is taken from the reference.
IntervalFromReference(q, ps) ==
  LET T == Stamp(Last(ps)) - Stamp(q.reference)
  IN  IF T = 0 THEN MeanDelta ELSE T

\* project: with exactly two positions the reference stands for the first.
Interval(q, ps) ==
  LET sinceReference(p) == Stamp(p) - Stamp(q.reference)
      T == sinceReference(Last(ps))
             - (IF Len(ps) # 2 THEN sinceReference(ps[Len(ps) - 1]) ELSE 0)
  IN  IF T = 0 THEN MeanDelta ELSE T

SimplePredict(q, ps) ==
  [(IF q.iterations = 0 THEN Referred(q, ps) ELSE q) EXCEPT !.iterations = @ + 1]

\* RESET_ITERATIONS is 0, so that the reference is set every time.
UKFPredict(q, ps) == [Referred(q, ps) EXCEPT !.iterations = @ + 1]

Predicted(q, ps) ==
  LET p == CASE kind = "FACTOR" -> FactorPredict(q, ps)
             [] kind = "UKF"    -> UKFPredict(q, ps)
             [] kind = "SIMPLE" -> SimplePredict(q, ps)
  IN  [p EXCEPT !.interval = Interval(p, ps)]

-----------------------------------------------------------------------------
(* The station's messages.                                                 *)

\* Variant: a list in place of a ring.
PushedAlways(ps, p) == Append(ps, p)

\* positions_.push_back on a full ring overwrites the oldest.
Pushed(ps, p) == IF Len(ps) < Capacity THEN Append(ps, p) ELSE Append(Tail(ps), p)

Arrival(gap) == [message |-> sent + 1, at |-> time + gap]

\* The first message makes the station and its predictor.
FirstMessage ==
  /\ positions = <<>> /\ sent < MaxMessages
  /\ positions' = <<Arrival(0)>>
  /\ sent' = sent + 1
  /\ UNCHANGED <<kind, time, predictor>>

\* ITS::update with the position received.  A prediction below the threshold
\* is the detector's reason to put the prediction in its place: step leaves it
\* the time of the position before, delta_time_ being an unsigned int to which
\* 0.2 is added.
Update(gap, score) ==
  positions' = Pushed(positions,
    [Arrival(gap) EXCEPT !.at = IF score >= Threshold THEN @ ELSE Last(positions).at])

\* Nothing is predicted from a single position.
Message(gap, score) ==
  /\ positions # <<>> /\ sent < MaxMessages
  /\ \/ Len(positions) < 2 /\ score = BestScore /\ UNCHANGED predictor
     \/ Len(positions) >= 2 /\ predictor' = Predicted(predictor, positions)
  /\ Update(gap, score)
  /\ sent' = sent + 1 /\ time' = time + gap
  /\ UNCHANGED kind

Init ==
  /\ kind \in Kinds
  /\ sent = 0 /\ time = 0
  /\ positions = <<>>
  /\ predictor = NewPredictor

Next == FirstMessage \/ \E gap \in Gaps, score \in Scores : Message(gap, score)

Spec == Init /\ [][Next]_vars

-----------------------------------------------------------------------------
(* Properties.                                                             *)

\* Type correctness; the ring holds no more than its capacity, its positions
\* from successive messages.
TypeOK ==
  /\ kind \in Kinds
  /\ sent \in 0..MaxMessages /\ time \in Nat
  /\ positions \in Seq(Position) /\ Len(positions) <= Capacity
  /\ \A k \in DOMAIN positions : positions[k].message = sent - Len(positions) + k
  /\ predictor.iterations \in Nat
  /\ predictor.reference \in Position \cup {Null}
  /\ predictor.interval \in Int \cup {Null}

Built == kind = "FACTOR" /\ predictor.iterations > 0

\* The pose graph is a chain whatever way it was brought up to date: the keys
\* are those below n_iterations_, each but 0 tied to the one before it once and
\* none tied to a key without a value (predict's insert, resize and erase).
GraphIsChain ==
  Built =>
    /\ DOMAIN predictor.estimate = 0..(predictor.iterations - 1)
    /\ predictor.graph =
         <<Prior>> \o [i \in 1..(predictor.iterations - 1) |-> <<i, i - 1>>]

\* The chain follows the vehicle across rebuilds and the overwriting of old
\* positions: its keys are successive positions, up to the last but the newest.
GraphFollowsTrack ==
  Built =>
    \A key \in DOMAIN predictor.estimate :
      predictor.estimate[key].position.message = sent - predictor.iterations + key

\* All poses of the graph are relative to one reference, the present one.
OneReference ==
  Built =>
    \A key \in DOMAIN predictor.estimate :
      predictor.estimate[key].reference = predictor.reference

\* The interval of the last prediction is the time between the two positions
\* before the newest, or the mean one if their stamps are the same, whichever
\* predictor and however full the ring (project).  Only a wrap of the stamps in
\* between takes whole turns off it, and so makes it negative.
IntervalIsElapsed ==
  predictor.interval # Null =>
    LET newer == positions[Len(positions) - 1]
        older == positions[Len(positions) - 2]
        elapsed == newer.at - older.at
    IN  IF Stamp(newer) = Stamp(older)
          THEN predictor.interval = MeanDelta
          ELSE /\ (elapsed - predictor.interval) % Wrap = 0
               /\ newer.at \div Wrap = older.at \div Wrap => predictor.interval = elapsed
=============================================================================
