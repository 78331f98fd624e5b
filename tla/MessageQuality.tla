--------------------------- MODULE MessageQuality ---------------------------
(***************************************************************************)
(* The C-ITS message quality module: on_CAMReceived in main.cpp and the    *)
(* detector in local_ms_detector.cpp.  One thread takes the messages from  *)
(* the broker and handles one after the other, so a message is one action. *)
(* Positions are abstracted to whether there are two of them yet, the      *)
(* distance between prediction and position to the score it is given.      *)
(*                                                                         *)
(* The process ends with any exception of a handler; when it is started    *)
(* again it knows no station.  The column quality outlives it.             *)
(***************************************************************************)
EXTENDS Integers, Sequences

CONSTANTS
  Stations,   \* values of header.stationID
  Flows,      \* values of the message property dataFlowId
  FlowsOf,    \* the flows the messages of a station may carry
  Scores,     \* the scores positionConsistencyMetric gives
  BatchSize,  \* DetectorsInfo::BATCH_SIZE
  Null        \* absent

BestScore == 7

ASSUME QualityAssumption ==
  /\ FlowsOf \in [Stations -> SUBSET Flows]
  /\ Scores \subseteq 1..BestScore /\ BestScore \in Scores
  /\ BatchSize \in Nat \ {0}
  /\ Null \notin [flow : Flows, predictable : BOOLEAN, metric : Nat, iteration : Nat]

VARIABLES
  running,   \* whether the process runs
  stations,  \* the detector's maps: the predictor's and the batch of each station
  quality,   \* column quality of the dataflows table, 0 when a flow is added
  heard,     \* history: messages of each station since the start, up to BatchSize + 1
  batch,     \* history: the scores of each station since its last publication
  last       \* history: the scores that each flow's quality stands for

vars == <<running, stations, quality, heard, batch, last>>

\* An entry of stations_ (whether it holds two positions) and one of metrics_.
Station == [flow : Flows, predictable : BOOLEAN, metric : Nat, iteration : Nat]

\* The sum of the first n scores, and of all.
Totals(scores) ==
  LET total[n \in 0..Len(scores)] == IF n = 0 THEN 0 ELSE total[n - 1] + scores[n]
  IN  total

TotalScore(scores) == Totals(scores)[Len(scores)]

-----------------------------------------------------------------------------
(* BatchMetrics.                                                           *)

Fresh(f) == [flow |-> f, predictable |-> FALSE, metric |-> 0, iteration |-> 0]

Updated(m, score) == [m EXCEPT !.metric = @ + score, !.iteration = @ + 1]

\* Variants: the batch is published one message late, or one early.
CompleteLate(m) == m.iteration > BatchSize
CompleteEarly(m) == m.iteration >= BatchSize - 1

Complete(m) == m.iteration >= BatchSize

Mean(m) == m.metric \div m.iteration

\* Variants: nothing is reset, or the count only.
ResetNothing(m) == m
ResetCountOnly(m) == [m EXCEPT !.iteration = 0]

Reset(m) == [m EXCEPT !.metric = 0, !.iteration = 0]

-----------------------------------------------------------------------------
(* The handling of messages.                                               *)

OneMore(n) == IF n > BatchSize THEN n ELSE n + 1

\* History: one more message of s.
Heard(s) == heard' = [heard EXCEPT ![s] = OneMore(@)]

\* An exception or a failed assertion in the handler ends the process.
Crash ==
  /\ running' = FALSE
  /\ stations' = [s \in Stations |-> Null]
  /\ heard' = [s \in Stations |-> 0]
  /\ batch' = [s \in Stations |-> <<>>]

\* A payload that is not a CAM, or a station's first message without dataFlowId.
Unreadable ==
  /\ running
  /\ Crash
  /\ UNCHANGED <<quality, last>>

\* addNewStation: the flow of the first message is kept for good.
NewStation(s, f) ==
  /\ running /\ stations[s] = Null /\ f \in FlowsOf[s]
  /\ stations' = [stations EXCEPT ![s] = Fresh(f)]
  /\ Heard(s)
  /\ UNCHANGED <<running, quality, batch, last>>

\* detectPositionConsistency: without two positions nothing can be predicted.
Detected(s) == IF stations[s].predictable THEN Scores ELSE {BestScore}

\* ITS::update: with this position and the one before there are two.
Positioned(m) == [m EXCEPT !.predictable = TRUE]

\* The update of the column, and the batch that it stands for.
Publish(s, m, scores) ==
  /\ quality' = [quality EXCEPT ![m.flow] = Mean(m)]
  /\ last' = [last EXCEPT ![m.flow] = scores]

\* detect, updateStation (no score is below the threshold) and
\* updateAndVisualizeBatchMetrics.  An error of the database ends the process,
\* before or after the update.
Message(s, f, score) ==
  LET m == Positioned(Updated(stations[s], score))
      scores == Append(batch[s], score)
  IN
    /\ running /\ stations[s] # Null /\ f \in FlowsOf[s] /\ score \in Detected(s)
    /\ \/ /\ ~Complete(m)
          /\ stations' = [stations EXCEPT ![s] = m]
          /\ batch' = [batch EXCEPT ![s] = scores]
          /\ Heard(s) /\ UNCHANGED <<running, quality, last>>
       \/ /\ Complete(m) /\ Publish(s, m, scores)
          /\ stations' = [stations EXCEPT ![s] = Reset(m)]
          /\ batch' = [batch EXCEPT ![s] = <<>>]
          /\ Heard(s) /\ UNCHANGED running
       \/ /\ Complete(m) /\ Crash
          /\ Publish(s, m, scores) \/ UNCHANGED <<quality, last>>

\* The pipeline's container is started again.
Start ==
  /\ ~running
  /\ running' = TRUE
  /\ UNCHANGED <<stations, quality, heard, batch, last>>

Init ==
  /\ running = TRUE
  /\ stations = [s \in Stations |-> Null]
  /\ quality = [f \in Flows |-> 0]
  /\ heard = [s \in Stations |-> 0]
  /\ batch = [s \in Stations |-> <<>>]
  /\ last = [f \in Flows |-> <<>>]

Next ==
  \/ \E s \in Stations, f \in Flows : NewStation(s, f)
  \/ \E s \in Stations, f \in Flows, score \in Scores : Message(s, f, score)
  \/ Unreadable \/ Start

Spec == Init /\ [][Next]_vars

-----------------------------------------------------------------------------
(* Properties.                                                             *)

\* Type correctness; between messages no station holds a complete batch.
TypeOK ==
  /\ running \in BOOLEAN
  /\ stations \in [Stations -> Station \cup {Null}]
  /\ \A s \in Stations : stations[s] # Null => ~Complete(stations[s])
  /\ quality \in [Flows -> 0..BestScore]
  /\ heard \in [Stations -> 0..(BatchSize + 1)]
  /\ batch \in [Stations -> Seq(Scores)]
  /\ last \in [Flows -> Seq(Scores)]

\* The quality of a flow is the mean of one batch of scores, rounded down:
\* nothing of an earlier batch or of another station's enters it, whatever the
\* crashes in between (BatchMetrics::publish and reset).
MeanOfBatch ==
  \A f \in Flows :
    \/ last[f] = <<>> /\ quality[f] = 0
    \/ Len(last[f]) = BatchSize /\ quality[f] = TotalScore(last[f]) \div BatchSize

\* A station that has sent a message for the detector to start from and a batch of
\* others since the process was started has had a batch published, to the flow of
\* that first message: whatever flows the others carry, with other stations in
\* between, and whatever crashes came before.
EnoughIsEvaluated ==
  \A s \in Stations : heard[s] > BatchSize => quality[stations[s].flow] # 0

\* A flow is evaluated for the first time only when a station that began with it
\* has sent that many; the messages that two stations sent do not add up.
EvaluatedWhenEnough ==
  [][\A f \in Flows :
       quality[f] = 0 /\ quality'[f] # 0 =>
         \E s \in Stations :
           stations[s] # Null /\ stations[s].flow = f /\ heard[s] >= BatchSize]_vars
=============================================================================
