------------------------- MODULE VideoStreamsProofs -------------------------
(***************************************************************************)
(* The five lists of the video stream manager stay parallel for any number *)
(* of streams and sources, whatever the order of the two threads' steps.   *)
(* At the end, the relay of frames that is composed with them.             *)
(***************************************************************************)
EXTENDS FrameRelay, SequenceTheorems, TLAPS

-----------------------------------------------------------------------------
(* Removing a position and dropping the last element of a sequence.        *)

LEMMA RemoveAtProperties ==
  ASSUME NEW S, NEW s \in Seq(S), NEW i \in 1..Len(s)
  PROVE  /\ RemoveAt(s, i) \in Seq(S)
         /\ Len(RemoveAt(s, i)) = Len(s) - 1
         /\ \A j \in 1..Len(s) - 1 :
              RemoveAt(s, i)[j] = IF j < i THEN s[j] ELSE s[j + 1]
<1> DEFINE before == SubSeq(s, 1, i - 1)
           after == SubSeq(s, i + 1, Len(s))
<1>1. before \in Seq(S) /\ Len(before) = i - 1 /\ \A j \in 1..i - 1 : before[j] = s[j]
  <2>1. \A j \in 1..i - 1 : s[j] \in S
    BY ElementOfSeq
  <2> QED
    BY <2>1, SubSeqProperties
<1>2. /\ after \in Seq(S) /\ Len(after) = Len(s) - i
      /\ \A j \in 1..Len(s) - i : after[j] = s[i + j]
  <2>1. \A j \in i + 1..Len(s) : s[j] \in S
    BY ElementOfSeq
  <2>2. /\ after \in Seq(S)
        /\ Len(after) = IF i + 1 <= Len(s) THEN Len(s) - (i + 1) + 1 ELSE 0
        /\ \A j \in 1..Len(s) - (i + 1) + 1 : after[j] = s[(i + 1) + j - 1]
    BY <2>1, SubSeqProperties
  <2> QED
    BY <2>2
<1>3. RemoveAt(s, i) = before \o after
  BY DEF RemoveAt
<1> HIDE DEF before, after
<1>4. /\ before \o after \in Seq(S)
      /\ Len(before \o after) = Len(before) + Len(after)
      /\ \A j \in 1..Len(before) + Len(after) :
           (before \o after)[j]
             = IF j <= Len(before) THEN before[j] ELSE after[j - Len(before)]
  BY <1>1, <1>2, ConcatProperties
<1> QED
  BY <1>1, <1>2, <1>3, <1>4

LEMMA FrontProperties ==
  ASSUME NEW S, NEW s \in Seq(S), s # <<>>
  PROVE  /\ Front(s) \in Seq(S)
         /\ Len(s) > 0
         /\ Len(Front(s)) = Len(s) - 1
         /\ \A j \in 1..Len(s) - 1 : Front(s)[j] = s[j]
         /\ Last(s) \in S
         /\ Append(Front(s), Last(s)) = s
<1>1. Len(s) > 0 /\ Len(s) \in Nat
  BY EmptySeq, LenProperties
<1>2. /\ Front(s) \in Seq(S) /\ Len(Front(s)) = Len(s) - 1
      /\ \A j \in 1..Len(s) - 1 : Front(s)[j] = s[j]
  <2>1. \A j \in 1..Len(s) - 1 : s[j] \in S
    BY <1>1, ElementOfSeq
  <2> DEFINE n == Len(s) - 1
             front == SubSeq(s, 1, n)
  <2>2. /\ front \in Seq(S)
        /\ Len(front) = IF 1 <= n THEN n - 1 + 1 ELSE 0
        /\ \A j \in 1..n - 1 + 1 : front[j] = s[1 + j - 1]
    <3>1. n \in Int
      BY <1>1
    <3> HIDE DEF n
    <3> QED
      BY <2>1, <3>1, SubSeqProperties DEF n
  <2>3. Front(s) = front
    BY DEF Front
  <2> HIDE DEF front
  <2> QED
    BY <1>1, <2>2, <2>3
<1>3. Last(s) \in S
  BY <1>1, ElementOfSeq DEF Last
<1>4. Append(Front(s), Last(s)) = s
  <2>1. /\ Append(Front(s), Last(s)) \in Seq(S)
        /\ Len(Append(Front(s), Last(s))) = Len(Front(s)) + 1
        /\ \A i \in 1..Len(Front(s)) : Append(Front(s), Last(s))[i] = Front(s)[i]
        /\ Append(Front(s), Last(s))[Len(Front(s)) + 1] = Last(s)
    BY <1>2, <1>3, AppendProperties
  <2>2. \A i \in 1..Len(s) : Append(Front(s), Last(s))[i] = s[i]
    BY <1>1, <1>2, <2>1 DEF Last
  <2> QED
    BY <1>1, <1>2, <2>1, <2>2, SeqEqual
<1> QED
  BY <1>1, <1>2, <1>3, <1>4

LEMMA FrontLastOfAppend ==
  ASSUME NEW S, NEW s \in Seq(S), NEW e \in S
  PROVE  /\ Append(s, e) \in Seq(S) /\ Append(s, e) # <<>>
         /\ Front(Append(s, e)) = s
         /\ Last(Append(s, e)) = e
<1>1. /\ Append(s, e) \in Seq(S) /\ Append(s, e) # <<>>
      /\ Len(Append(s, e)) = Len(s) + 1
      /\ \A i \in 1..Len(s) : Append(s, e)[i] = s[i]
      /\ Append(s, e)[Len(s) + 1] = e
  BY AppendProperties
<1>2. Len(s) \in Nat
  BY LenProperties
<1>3. /\ Front(Append(s, e)) \in Seq(S) /\ Len(Front(Append(s, e))) = Len(s)
      /\ \A i \in 1..Len(s) : Front(Append(s, e))[i] = s[i]
  <2> DEFINE t == Append(s, e)
  <2>1. t \in Seq(S) /\ t # <<>> /\ Len(t) = Len(s) + 1 /\ \A i \in 1..Len(s) : t[i] = s[i]
    BY <1>1
  <2> HIDE DEF t
  <2>2. /\ Front(t) \in Seq(S) /\ Len(Front(t)) = Len(t) - 1
        /\ \A i \in 1..Len(t) - 1 : Front(t)[i] = t[i]
    BY <2>1, FrontProperties
  <2>3. /\ Front(t) \in Seq(S) /\ Len(Front(t)) = Len(s)
        /\ \A i \in 1..Len(s) : Front(t)[i] = s[i]
    BY <1>2, <2>1, <2>2
  <2> QED
    BY <2>3 DEF t
<1>4. Front(Append(s, e)) = s
  BY <1>3, SeqEqual
<1> QED
  BY <1>1, <1>4 DEF Last

LEMMA RemoveAtOfAppend ==
  ASSUME NEW S, NEW s \in Seq(S), NEW e \in S, NEW i \in 1..Len(s)
  PROVE  RemoveAt(Append(s, e), i) = Append(RemoveAt(s, i), e)
<1> DEFINE longer == Append(s, e)
           left == RemoveAt(longer, i)
           right == Append(RemoveAt(s, i), e)
<1>1. Len(s) \in Nat
  BY LenProperties
<1>2. /\ longer \in Seq(S) /\ Len(longer) = Len(s) + 1
      /\ \A j \in 1..Len(s) : longer[j] = s[j]
      /\ longer[Len(s) + 1] = e
  BY AppendProperties
<1>3. /\ RemoveAt(s, i) \in Seq(S) /\ Len(RemoveAt(s, i)) = Len(s) - 1
      /\ \A j \in 1..Len(s) - 1 : RemoveAt(s, i)[j] = IF j < i THEN s[j] ELSE s[j + 1]
  BY RemoveAtProperties
<1> HIDE DEF longer
<1>4. /\ left \in Seq(S) /\ Len(left) = Len(s)
      /\ \A j \in 1..Len(s) : left[j] = IF j < i THEN longer[j] ELSE longer[j + 1]
  <2>1. i \in 1..Len(longer)
    BY <1>1, <1>2
  <2>2. /\ left \in Seq(S) /\ Len(left) = Len(longer) - 1
        /\ \A j \in 1..Len(longer) - 1 :
             left[j] = IF j < i THEN longer[j] ELSE longer[j + 1]
    BY <1>2, <2>1, RemoveAtProperties
  <2> QED
    BY <1>1, <1>2, <2>2
<1>5. /\ right \in Seq(S) /\ Len(right) = Len(s)
      /\ \A j \in 1..Len(s) - 1 : right[j] = RemoveAt(s, i)[j]
      /\ right[Len(s)] = e
  <2>1. /\ right \in Seq(S) /\ Len(right) = Len(RemoveAt(s, i)) + 1
        /\ \A j \in 1..Len(RemoveAt(s, i)) : right[j] = RemoveAt(s, i)[j]
        /\ right[Len(RemoveAt(s, i)) + 1] = e
    BY <1>3, AppendProperties
  <2> QED
    BY <1>1, <1>3, <2>1
<1> HIDE DEF left, right
<1>6. \A j \in 1..Len(s) : left[j] = right[j]
  <2> SUFFICES ASSUME NEW j \in 1..Len(s) PROVE left[j] = right[j]
    OBVIOUS
  <2>1. CASE j < i
    <3>1. j \in 1..Len(s) - 1 /\ j \in 1..Len(s)
      BY <1>1, <2>1
    <3>2. left[j] = longer[j] /\ longer[j] = s[j]
      BY <1>2, <1>4, <2>1, <3>1
    <3>3. right[j] = RemoveAt(s, i)[j] /\ RemoveAt(s, i)[j] = s[j]
      BY <1>3, <1>5, <2>1, <3>1
    <3> QED
      BY <3>2, <3>3
  <2>2. CASE j >= i /\ j < Len(s)
    BY <1>1, <1>2, <1>3, <1>4, <1>5, <2>2
  <2>3. CASE j = Len(s)
    BY <1>1, <1>2, <1>4, <1>5, <2>3
  <2> QED
    BY <1>1, <2>1, <2>2, <2>3
<1>7. left = right
  BY <1>4, <1>5, <1>6, SeqEqual
<1> QED
  BY <1>7 DEF left, right, longer

\* A removal before the last position leaves the last element last.
LEMMA RemoveAtBeforeLast ==
  ASSUME NEW S, NEW s \in Seq(S), s # <<>>, NEW i \in 1..Len(Front(s))
  PROVE  /\ RemoveAt(s, i) = Append(RemoveAt(Front(s), i), Last(s))
         /\ RemoveAt(s, i) # <<>>
         /\ Front(RemoveAt(s, i)) = RemoveAt(Front(s), i)
         /\ Last(RemoveAt(s, i)) = Last(s)
<1>1. Front(s) \in Seq(S) /\ Last(s) \in S /\ Append(Front(s), Last(s)) = s
  BY FrontProperties
<1>2. RemoveAt(s, i) = Append(RemoveAt(Front(s), i), Last(s))
  BY <1>1, RemoveAtOfAppend
<1>3. RemoveAt(Front(s), i) \in Seq(S)
  BY <1>1, RemoveAtProperties
<1> QED
  BY <1>1, <1>2, <1>3, FrontLastOfAppend

-----------------------------------------------------------------------------
(* The inductive invariant.                                                *)

\* The newest stream is in some of the lists only.
Appending == NewAt("append") \/ NewAt("dead")

Appended(x) == Appending => AppendRank[x] <= new.done

Deleted(x) == TermAt("delete") /\ DeleteRank[x] <= term.done

\* What a list holds before the deletion that is under way reaches it.
Base(x) == IF Appended(x) THEN registry ELSE Front(registry)

\* The stream being registered is the last one and in no late list yet.
AppendingLast ==
  Appending => registry # <<>> /\ Last(registry) = new.stream /\ new.done <= 4

Views ==
  ~TermAt("dead") =>
    \A x \in Lists :
      /\ Deleted(x) => term.index \in 1..Len(Base(x))
      /\ list[x] = IF Deleted(x) THEN RemoveAt(Base(x), term.index) ELSE Base(x)

\* The index found stays that of a stream of the source asked for.
VictimInPlace ==
  /\ TermAt("kill") => term.done = 0
  /\ TermAt("kill") \/ TermAt("delete")
       => /\ term.index \in 1..Len(registry)
          /\ SourceOf[registry[term.index]] = term.wanted
  /\ TermAt("delete") => term.victim = registry[term.index]

IInv == TypeOK /\ AppendingLast /\ Views /\ VictimInPlace

LEMMA InitIInv == Init => IInv
<1> SUFFICES ASSUME Init PROVE IInv
  OBVIOUS
<1>1. TypeOK
  BY EmptySeq, StreamsAssumption DEF Init, TypeOK, ParserStates
<1> QED
  BY <1>1 DEF Init, IInv, AppendingLast, Views, VictimInPlace, Appending, Appended,
              Deleted, Base, NewAt, TermAt

-----------------------------------------------------------------------------
(* Facts used under several actions.                                       *)

LEMMA NewFields ==
  ASSUME TypeOK, new # Null
  PROVE  /\ new \in NewRecord
         /\ new.pc \in {"append", "start", "dead"}
         /\ new.stream \in Streams /\ new.done \in 1..5
BY DEF TypeOK, NewRecord

LEMMA TermFields ==
  ASSUME TypeOK, term # Null
  PROVE  /\ term \in TermRecord
         /\ term.pc \in {"kill", "delete", "dead"}
         /\ term.wanted \in Sources /\ term.index \in Nat \ {0}
         /\ term.victim \in Streams \cup {Null} /\ term.done \in 0..4
BY DEF TypeOK, TermRecord

LEMMA RankFacts ==
  /\ \A x \in Lists : AppendRank[x] \in 1..5 /\ DeleteRank[x] \in 1..5
  /\ \A x \in Lists : AppendRank[x] <= AppendRank["framerates"]
  /\ \A x, y \in Lists : AppendRank[x] = AppendRank[y] => x = y
  /\ \A x, y \in Lists : DeleteRank[x] = DeleteRank[y] => x = y
  /\ \A x \in Lists : DeleteRank[x] = 5 => x = "framerates"
  /\ \A x \in Lists : AppendRank[x] = 5 <=> x = "framerates"
BY DEF Lists, AppendRank, DeleteRank

LEMMA BaseProperties ==
  ASSUME TypeOK, AppendingLast, NEW x \in Lists
  PROVE  /\ Base(x) \in Seq(Streams)
         /\ Len(Base(x)) <= Len(registry)
         /\ \A j \in 1..Len(Base(x)) : Base(x)[j] = registry[j]
<1>1. registry \in Seq(Streams) /\ Len(registry) \in Nat
  BY LenProperties DEF TypeOK
<1>2. CASE Appended(x)
  BY <1>1, <1>2 DEF Base
<1>3. CASE ~Appended(x)
  <2>1. registry # <<>>
    BY <1>3 DEF AppendingLast, Appended
  <2>2. /\ Front(registry) \in Seq(Streams)
        /\ Len(Front(registry)) = Len(registry) - 1
        /\ \A j \in 1..Len(registry) - 1 : Front(registry)[j] = registry[j]
    BY <1>1, <2>1, FrontProperties
  <2> QED
    BY <1>1, <1>3, <2>2 DEF Base
<1> QED
  BY <1>2, <1>3

-----------------------------------------------------------------------------
(* The newdataflow thread preserves the invariant.                         *)

LEMMA NewMessagePreserves ==
  ASSUME IInv, NEW k \in Streams, NewMessage(k)
  PROVE  IInv'
<1> USE DEF IInv
<1> DEFINE rec == [pc |-> "append", stream |-> k, done |-> 1]
<1>1. /\ registry \in Seq(Streams) /\ registry' = Append(registry, k)
      /\ new = Null /\ new' = rec /\ term' = term
      /\ list' = [list EXCEPT !["parsers"] = Append(@, k)]
      /\ list \in [Lists -> Seq(Streams)]
  BY DEF NewMessage, TypeOK
<1>2. rec \in NewRecord /\ rec # Null
  BY StreamsAssumption DEF NewRecord
<1>3. /\ registry' \in Seq(Streams) /\ registry' # <<>>
      /\ Front(registry') = registry /\ Last(registry') = k
  BY <1>1, FrontLastOfAppend
<1>4. /\ Len(registry) \in Nat /\ Len(registry') = Len(registry) + 1
      /\ \A i \in 1..Len(registry) : registry'[i] = registry[i]
  BY <1>1, AppendProperties, LenProperties
<1>5. TypeOK'
  <2>1. list' \in [Lists -> Seq(Streams)]
    BY <1>1, AppendProperties DEF Lists
  <2> QED
    BY <1>1, <1>2, <1>3, <2>1 DEF NewMessage, TypeOK, ParserStates
<1>6. Appending' /\ NewAt("append")' /\ new'.done = 1 /\ new'.stream = k
  BY <1>1, <1>2 DEF Appending, NewAt
<1>7. AppendingLast'
  BY <1>3, <1>6 DEF AppendingLast
<1>8. \A x \in Lists : Base(x) = registry
  BY <1>1 DEF Base, Appended, Appending, NewAt
<1>9. /\ Base("parsers")' = Append(registry, k)
      /\ \A x \in Lists : x # "parsers" => Base(x)' = registry
  <2>1. Appended("parsers")' /\ \A x \in Lists : x # "parsers" => ~Appended(x)'
    BY <1>6 DEF Appended, AppendRank, Lists
  <2> QED
    BY <1>1, <1>3, <2>1 DEF Base
<1>10. \A x \in Lists : Deleted(x)' <=> Deleted(x)
  BY <1>1 DEF Deleted, TermAt
<1>11. Views'
  <2> SUFFICES ASSUME ~TermAt("dead")', NEW x \in Lists
               PROVE  /\ Deleted(x)' => term'.index \in 1..Len(Base(x)')
                      /\ list'[x] = IF Deleted(x)' THEN RemoveAt(Base(x)', term'.index)
                                                   ELSE Base(x)'
    BY DEF Views
  <2>1. /\ Deleted(x) => term.index \in 1..Len(registry)
        /\ list[x] = IF Deleted(x) THEN RemoveAt(registry, term.index) ELSE registry
    BY <1>1, <1>8 DEF Views, TermAt
  <2>2. CASE x # "parsers"
    <3>1. list'[x] = list[x]
      BY <1>1, <2>2
    <3> QED
      BY <1>1, <1>9, <1>10, <2>1, <2>2, <3>1
  <2>3. CASE x = "parsers"
    <3>1. list'[x] = Append(list[x], k)
      BY <1>1, <2>3 DEF Lists
    <3>2. CASE Deleted(x)
      <4>1. RemoveAt(Append(registry, k), term.index)
              = Append(RemoveAt(registry, term.index), k)
        BY <1>1, <2>1, <3>2, RemoveAtOfAppend
      <4>2. term.index \in 1..Len(registry')
        BY <1>4, <2>1, <3>2
      <4> QED
        BY <1>1, <1>9, <1>10, <2>1, <2>3, <3>1, <3>2, <4>1, <4>2
    <3>3. CASE ~Deleted(x)
      BY <1>1, <1>9, <1>10, <2>1, <2>3, <3>1, <3>3
    <3> QED
      BY <3>2, <3>3
  <2> QED
    BY <2>2, <2>3
<1>12. VictimInPlace'
  BY <1>1, <1>4 DEF VictimInPlace, TermAt
<1> QED
  BY <1>5, <1>7, <1>11, <1>12

\* A list that the newest stream reaches holds what its base becomes.
LEMMA AppendToView ==
  ASSUME IInv, NewAt("append"), NEW x \in Lists, ~Appended(x), ~TermAt("dead")
  PROVE  /\ Deleted(x) => term.index \in 1..Len(registry)
         /\ Append(list[x], new.stream)
              = IF Deleted(x) THEN RemoveAt(registry, term.index) ELSE registry
<1> USE DEF IInv
<1>1. /\ registry \in Seq(Streams) /\ registry # <<>> /\ Last(registry) = new.stream
      /\ Base(x) = Front(registry)
  BY DEF TypeOK, AppendingLast, Appending, Base
<1>2. /\ Front(registry) \in Seq(Streams) /\ Append(Front(registry), Last(registry)) = registry
      /\ Len(registry) \in Nat /\ Len(Front(registry)) = Len(registry) - 1
  BY <1>1, FrontProperties, LenProperties
<1>3. /\ Deleted(x) => term.index \in 1..Len(Front(registry))
      /\ list[x] = IF Deleted(x) THEN RemoveAt(Front(registry), term.index)
                                ELSE Front(registry)
  BY <1>1 DEF Views
<1>4. CASE Deleted(x)
  <2>1. RemoveAt(registry, term.index)
          = Append(RemoveAt(Front(registry), term.index), Last(registry))
    BY <1>1, <1>3, <1>4, RemoveAtBeforeLast
  <2> QED
    BY <1>1, <1>2, <1>3, <1>4, <2>1
<1>5. CASE ~Deleted(x)
  BY <1>1, <1>2, <1>3, <1>5
<1> QED
  BY <1>4, <1>5

\* One append by the newdataflow thread, whichever action makes it.
LEMMA AppendStep ==
  ASSUME IInv, NewAt("append"), NEW x \in Lists,
         AppendRank[x] = new.done + 1,
         list' = [list EXCEPT ![x] = Append(@, new.stream)],
         new' \in NewRecord,
         new'.stream = new.stream, new'.done = new.done + 1,
         new'.pc = IF x = "framerates" THEN "start" ELSE "append",
         UNCHANGED <<term, registry>>
  PROVE  /\ list' \in [Lists -> Seq(Streams)]
         /\ AppendingLast' /\ Views' /\ VictimInPlace'
<1> USE DEF IInv
<1>1. /\ new.stream \in Streams /\ new.done \in 1..4 /\ new' # Null
      /\ list \in [Lists -> Seq(Streams)] /\ registry \in Seq(Streams)
  BY NewFields, StreamsAssumption DEF TypeOK, NewAt, AppendingLast, Appending
<1>2. list' \in [Lists -> Seq(Streams)]
  BY <1>1, AppendProperties
<1>3. Appending /\ registry # <<>> /\ Last(registry) = new.stream
  BY DEF AppendingLast, Appending
<1>4. AppendingLast'
  <2>1. Appending' => x # "framerates"
    BY DEF Appending, NewAt
  <2>2. x # "framerates" => new'.done <= 4
    BY <1>1, RankFacts
  <2> QED
    BY <1>3, <2>1, <2>2 DEF AppendingLast
<1>5. \A y \in Lists : Appended(y)' <=> Appended(y) \/ y = x
  <2> SUFFICES ASSUME NEW y \in Lists PROVE Appended(y)' <=> Appended(y) \/ y = x
    OBVIOUS
  <2>1. Appended(y) <=> AppendRank[y] <= new.done
    BY <1>3 DEF Appended
  <2>2. AppendRank[y] \in 1..5 /\ (AppendRank[y] = new.done + 1 => y = x)
    BY RankFacts
  <2>3. AppendRank[y] <= new.done + 1 <=> AppendRank[y] <= new.done \/ y = x
    BY <1>1, <2>2
  <2>4. CASE x = "framerates"
    <3>1. Appended(y)'
      BY <2>4 DEF Appended, Appending, NewAt
    <3>2. AppendRank[y] <= new.done + 1
      BY <2>4, RankFacts, <2>2
    <3> QED
      BY <2>1, <2>3, <3>1, <3>2
  <2>5. CASE x # "framerates"
    <3>1. Appending'
      BY <1>1, <2>5 DEF Appending, NewAt
    <3> QED
      BY <2>1, <2>3, <3>1 DEF Appended
  <2> QED
    BY <2>4, <2>5
<1>6. \A y \in Lists : Base(y)' = IF y = x THEN registry ELSE Base(y)
  BY <1>5 DEF Base
<1>7. \A y \in Lists : Deleted(y)' <=> Deleted(y)
  BY DEF Deleted, TermAt
<1>8. ~Appended(x)
  BY <1>1, <1>3 DEF Appended
<1>9. Views'
  <2> SUFFICES ASSUME ~TermAt("dead")', NEW y \in Lists
               PROVE  /\ Deleted(y)' => term'.index \in 1..Len(Base(y)')
                      /\ list'[y] = IF Deleted(y)' THEN RemoveAt(Base(y)', term'.index)
                                                   ELSE Base(y)'
    BY DEF Views
  <2>1. ~TermAt("dead")
    BY DEF TermAt
  <2>2. CASE y # x
    <3>1. list'[y] = list[y]
      BY <1>1, <2>2
    <3> QED
      BY <1>6, <1>7, <2>1, <2>2, <3>1 DEF Views
  <2>3. CASE y = x
    <3>1. list'[x] = Append(list[x], new.stream)
      BY <1>1
    <3>2. /\ Deleted(x) => term.index \in 1..Len(registry)
          /\ Append(list[x], new.stream)
               = IF Deleted(x) THEN RemoveAt(registry, term.index) ELSE registry
      BY <1>8, <2>1, AppendToView
    <3> QED
      BY <1>6, <1>7, <2>3, <3>1, <3>2
  <2> QED
    BY <2>2, <2>3
<1>10. VictimInPlace'
  BY DEF VictimInPlace, TermAt
<1> QED
  BY <1>2, <1>4, <1>9, <1>10

LEMMA LaunchReceiverPreserves ==
  ASSUME IInv, LaunchReceiver
  PROVE  IInv'
<1> USE DEF IInv
<1>1. /\ NewAt("append") /\ new # Null /\ new.pc = "append" /\ new.done = 1
      /\ UNCHANGED <<term, parser, killed, registry>>
  BY DEF LaunchReceiver, NewAt
<1>2. new \in NewRecord /\ new.stream \in Streams
  BY <1>1, NewFields
<1>3. CASE /\ receivers' = receivers \cup {new.stream}
           /\ list' = [list EXCEPT !["ids"] = Append(@, new.stream)]
           /\ new' = [new EXCEPT !.done = 2]
  <2>1. /\ new' \in NewRecord /\ new'.stream = new.stream
        /\ new'.done = new.done + 1 /\ new'.pc = "append"
    BY <1>1, <1>2, <1>3 DEF NewRecord
  <2>2. "ids" \in Lists /\ AppendRank["ids"] = new.done + 1
    BY <1>1 DEF Lists, AppendRank
  <2>3. /\ list' \in [Lists -> Seq(Streams)]
        /\ AppendingLast' /\ Views' /\ VictimInPlace'
    BY <1>1, <1>3, <2>1, <2>2, AppendStep
  <2>4. TypeOK'
    BY <1>1, <1>2, <1>3, <2>1, <2>3 DEF TypeOK
  <2> QED
    BY <2>3, <2>4
<1>4. CASE new' = [new EXCEPT !.pc = "dead"] /\ UNCHANGED <<list, receivers>>
  <2>1. /\ new' \in NewRecord /\ new' # Null /\ new'.stream = new.stream
        /\ new'.done = new.done /\ new'.pc = "dead"
    BY <1>1, <1>2, <1>4, StreamsAssumption DEF NewRecord
  <2>2. Appending /\ Appending' /\ ~NewAt("append")'
    BY <1>1, <2>1 DEF Appending, NewAt
  <2>3. TypeOK'
    BY <1>1, <1>4, <2>1 DEF TypeOK
  <2>4. AppendingLast'
    BY <1>1, <2>1, <2>2 DEF AppendingLast
  <2>5. \A y \in Lists : Base(y)' = Base(y) /\ (Deleted(y)' <=> Deleted(y))
    BY <1>1, <2>1, <2>2 DEF Base, Appended, Deleted, TermAt
  <2>6. Views'
    BY <1>1, <1>4, <2>5 DEF Views, TermAt
  <2>7. VictimInPlace'
    BY <1>1 DEF VictimInPlace, TermAt
  <2> QED
    BY <2>3, <2>4, <2>6, <2>7
<1> QED
  BY <1>3, <1>4 DEF LaunchReceiver

LEMMA AppendNextPreserves ==
  ASSUME IInv, NEW x \in Lists, AppendNext(x)
  PROVE  IInv'
<1> USE DEF IInv
<1>1. /\ NewAt("append") /\ new # Null /\ AppendRank[x] = new.done + 1
      /\ list' = [list EXCEPT ![x] = Append(@, new.stream)]
      /\ new' = [new EXCEPT !.done = @ + 1,
                             !.pc = IF x = "framerates" THEN "start" ELSE "append"]
      /\ UNCHANGED <<term, parser, killed, receivers, registry>>
  BY DEF AppendNext, NewAt
<1>2. new \in NewRecord /\ new.done \in 1..4
  BY <1>1, NewFields DEF AppendingLast, Appending
<1>3. /\ new' \in NewRecord /\ new'.stream = new.stream /\ new'.done = new.done + 1
      /\ new'.pc = IF x = "framerates" THEN "start" ELSE "append"
  <2> DEFINE pc == IF x = "framerates" THEN "start" ELSE "append"
             done == new.done + 1
  <2>1. pc \in {"append", "start", "dead"} /\ done \in 1..5
    BY <1>2
  <2>2. new' = [new EXCEPT !.done = done, !.pc = pc]
    BY <1>1
  <2>3. new'.done = done /\ new'.pc = pc /\ new'.stream = new.stream /\ new' \in NewRecord
    <3> HIDE DEF pc, done
    <3> QED
      BY <1>2, <2>1, <2>2 DEF NewRecord
  <2> QED
    BY <2>3
<1>4. /\ list' \in [Lists -> Seq(Streams)]
      /\ AppendingLast' /\ Views' /\ VictimInPlace'
  BY <1>1, <1>3, AppendStep
<1>5. TypeOK'
  BY <1>1, <1>3, <1>4 DEF TypeOK
<1> QED
  BY <1>4, <1>5

LEMMA StartParserPreserves ==
  ASSUME IInv, StartParser
  PROVE  IInv'
<1> USE DEF IInv
<1>1. /\ NewAt("start") /\ new # Null /\ new.pc = "start" /\ new' = Null
      /\ parser' = [parser EXCEPT ![new.stream] = "running"]
      /\ UNCHANGED <<list, term, killed, receivers, registry>>
  BY DEF StartParser, NewAt
<1>2. ~Appending /\ ~Appending' /\ ~NewAt("append")'
  BY <1>1 DEF Appending, NewAt
<1>3. TypeOK'
  BY <1>1 DEF TypeOK, ParserStates
<1>4. \A y \in Lists : Base(y)' = Base(y) /\ (Deleted(y)' <=> Deleted(y))
  BY <1>1, <1>2 DEF Base, Appended, Deleted, TermAt
<1> QED
  BY <1>1, <1>2, <1>3, <1>4 DEF AppendingLast, Views, VictimInPlace, TermAt

-----------------------------------------------------------------------------
(* The terminatedataflow thread preserves the invariant.                   *)

\* The newest stream's part of the invariant is untouched by these steps.
LEMMA NewUntouched ==
  ASSUME UNCHANGED <<new, registry>>, AppendingLast
  PROVE  AppendingLast' /\ \A x \in Lists : Base(x)' = Base(x)
BY DEF AppendingLast, Base, Appended, Appending, NewAt

LEMMA TerminateMessagePreserves ==
  ASSUME IInv, NEW s \in Sources, TerminateMessage(s)
  PROVE  IInv'
<1> USE DEF IInv
<1> DEFINE matches == {i \in DOMAIN list["ids"] : SourceOf[list["ids"][i]] = s}
<1>1. term = Null /\ UNCHANGED <<list, new, parser, killed, receivers, registry>>
  BY DEF TerminateMessage
<1>2. AppendingLast' /\ \A x \in Lists : Base(x)' = Base(x)
  BY <1>1, NewUntouched
<1>3. ASSUME NEW i \in matches,
             term' = [pc |-> "kill", wanted |-> s, index |-> i,
                      victim |-> Null, done |-> 0]
      PROVE  IInv'
  <2>1. list["ids"] = Base("ids") /\ "ids" \in Lists
    BY <1>1 DEF Views, Deleted, TermAt, Lists
  <2>2. /\ Base("ids") \in Seq(Streams) /\ Len(Base("ids")) <= Len(registry)
        /\ \A j \in 1..Len(Base("ids")) : Base("ids")[j] = registry[j]
    BY <2>1, BaseProperties
  <2>3. i \in 1..Len(Base("ids"))
    BY <2>1, <2>2, LenProperties
  <2>4. /\ i \in 1..Len(registry) /\ i \in Nat \ {0}
        /\ SourceOf[registry[i]] = s
    <3>1. Len(registry) \in Nat /\ Len(Base("ids")) \in Nat
      BY <2>2, LenProperties DEF TypeOK
    <3> QED
      BY <2>1, <2>2, <2>3, <3>1
  <2>5. /\ term' \in TermRecord /\ term' # Null /\ term'.pc = "kill" /\ term'.done = 0
        /\ term'.index = i /\ term'.wanted = s
    BY <1>3, <2>4, StreamsAssumption DEF TermRecord
  <2>6. TypeOK'
    BY <1>1, <2>5 DEF TypeOK
  <2>7. Views'
    BY <1>1, <1>2, <2>5 DEF Views, Deleted, TermAt
  <2>8. VictimInPlace'
    BY <1>1, <2>4, <2>5 DEF VictimInPlace, TermAt
  <2> QED
    BY <1>2, <2>6, <2>7, <2>8
<1>4. ASSUME term' = [pc |-> "dead", wanted |-> s, index |-> 1,
                      victim |-> Null, done |-> 0]
      PROVE  IInv'
  <2>1. term' \in TermRecord /\ term' # Null /\ term'.pc = "dead"
    BY <1>4, StreamsAssumption DEF TermRecord
  <2>2. TypeOK'
    BY <1>1, <2>1 DEF TypeOK
  <2> QED
    BY <1>2, <2>1, <2>2 DEF Views, VictimInPlace, TermAt
<1> QED
  BY <1>3, <1>4 DEF TerminateMessage

LEMMA KillParserPreserves ==
  ASSUME IInv, KillParser
  PROVE  IInv'
<1> USE DEF IInv
<1> DEFINE victim == list["parsers"][term.index]
<1>1. /\ TermAt("kill") /\ term # Null /\ term.pc = "kill"
      /\ killed' = killed \cup {victim}
      /\ term' = [term EXCEPT !.pc = "delete", !.victim = victim]
      /\ UNCHANGED <<list, new, parser, receivers, registry>>
  BY DEF KillParser, TermAt
<1>2. AppendingLast' /\ \A x \in Lists : Base(x)' = Base(x)
  BY <1>1, NewUntouched
<1>3. victim = registry[term.index] /\ victim \in Streams
  <2>1. "parsers" \in Lists /\ Appended("parsers")
    BY NewFields DEF Lists, Appended, AppendRank, Appending, NewAt
  <2>2. list["parsers"] = registry
    BY <1>1, <2>1 DEF Views, Deleted, TermAt, Base
  <2>3. term.index \in 1..Len(registry) /\ registry \in Seq(Streams)
    BY <1>1 DEF VictimInPlace, TypeOK
  <2> QED
    BY <2>2, <2>3, ElementOfSeq
<1> HIDE DEF victim
<1>4. /\ term \in TermRecord /\ term.done = 0
      /\ term.index \in 1..Len(registry) /\ SourceOf[registry[term.index]] = term.wanted
  BY <1>1, TermFields DEF VictimInPlace
<1>5. /\ term' \in TermRecord /\ term' # Null /\ term'.pc = "delete" /\ term'.done = 0
      /\ term'.index = term.index /\ term'.wanted = term.wanted /\ term'.victim = victim
  BY <1>1, <1>3, <1>4, StreamsAssumption DEF TermRecord
<1>6. TypeOK'
  BY <1>1, <1>3, <1>5 DEF TypeOK
<1>7. \A x \in Lists : ~Deleted(x) /\ ~Deleted(x)'
  BY <1>1, <1>5, RankFacts DEF Deleted, TermAt
<1>8. Views'
  BY <1>1, <1>2, <1>5, <1>7 DEF Views, TermAt
<1>9. VictimInPlace'
  BY <1>1, <1>3, <1>4, <1>5 DEF VictimInPlace, TermAt
<1> QED
  BY <1>2, <1>6, <1>8, <1>9

\* What a deletion that stays in range finds and removes.
LEMMA DeletionInView ==
  ASSUME IInv, NEW x \in Lists, TermAt("delete"), DeleteRank[x] = term.done + 1,
         term.index <= Len(list[x])
  PROVE  /\ term.done \in 0..4
         /\ list[x] = Base(x) /\ Base(x) \in Seq(Streams)
         /\ term.index \in 1..Len(Base(x))
         /\ list[x][term.index] = term.victim
         /\ RemoveAt(list[x], term.index) \in Seq(Streams)
         /\ Len(RemoveAt(list[x], term.index)) = Len(list[x]) - 1
<1> USE DEF IInv
<1>1. /\ term # Null /\ term.done \in 0..4 /\ term.index \in 1..Len(registry)
      /\ term.victim = registry[term.index]
  BY TermFields DEF TermAt, VictimInPlace
<1>2. list[x] = Base(x)
  BY <1>1 DEF Views, Deleted, TermAt
<1>3. /\ Base(x) \in Seq(Streams)
      /\ \A j \in 1..Len(Base(x)) : Base(x)[j] = registry[j]
  BY BaseProperties
<1>4. term.index \in 1..Len(Base(x))
  <2>1. Len(Base(x)) \in Nat /\ Len(registry) \in Nat
    BY <1>3, LenProperties DEF TypeOK
  <2> QED
    BY <1>1, <1>2, <2>1
<1> QED
  BY <1>1, <1>2, <1>3, <1>4, RemoveAtProperties

LEMMA DeleteNextPreserves ==
  ASSUME IInv, NEW x \in Lists, DeleteNext(x)
  PROVE  IInv'
<1> USE DEF IInv
<1>1. /\ TermAt("delete") /\ term # Null /\ term.pc = "delete"
      /\ DeleteRank[x] = term.done + 1
      /\ UNCHANGED <<new, parser, killed, receivers>>
  BY DEF DeleteNext, TermAt
<1>2. /\ term \in TermRecord /\ term.done \in 0..4
      /\ list \in [Lists -> Seq(Streams)] /\ registry \in Seq(Streams)
  BY <1>1, TermFields DEF TypeOK
<1>3. CASE /\ term.index > Len(list[x])
           /\ term' = [term EXCEPT !.pc = "dead"]
           /\ UNCHANGED <<list, registry>>
  <2>1. term' \in TermRecord /\ term' # Null /\ term'.pc = "dead"
    BY <1>2, <1>3, StreamsAssumption DEF TermRecord
  <2>2. TypeOK'
    BY <1>1, <1>3, <2>1 DEF TypeOK
  <2>3. AppendingLast'
    BY <1>1, <1>3, NewUntouched
  <2> QED
    BY <2>1, <2>2, <2>3 DEF Views, VictimInPlace, TermAt
<1>4. ASSUME term.index <= Len(list[x]),
             list' = [list EXCEPT ![x] = RemoveAt(@, term.index)]
      PROVE  /\ list' \in [Lists -> Seq(Streams)]
             /\ \A y \in Lists : y # x => list'[y] = list[y]
             /\ list'[x] = RemoveAt(Base(x), term.index)
             /\ term.index \in 1..Len(Base(x))
  BY <1>1, <1>2, <1>4, DeletionInView
<1>5. ASSUME term.index <= Len(list[x]), term.done # 4,
             list' = [list EXCEPT ![x] = RemoveAt(@, term.index)],
             term' = [term EXCEPT !.done = @ + 1], registry' = registry
      PROVE  IInv'
  <2>1. /\ term' \in TermRecord /\ term' # Null /\ term'.pc = "delete"
        /\ term'.done = term.done + 1 /\ term'.index = term.index
        /\ term'.wanted = term.wanted /\ term'.victim = term.victim
    <3> DEFINE done == term.done + 1
    <3>1. done \in 0..4 /\ term' = [term EXCEPT !.done = done]
      BY <1>2, <1>5
    <3>2. /\ term' \in TermRecord /\ term'.pc = "delete"
          /\ term'.done = done /\ term'.index = term.index
          /\ term'.wanted = term.wanted /\ term'.victim = term.victim
      <4> HIDE DEF done
      <4> QED
        BY <1>1, <1>2, <3>1 DEF TermRecord
    <3> QED
      BY <3>2, StreamsAssumption
  <2>2. TypeOK'
    BY <1>1, <1>4, <1>5, <2>1 DEF TypeOK
  <2>3. AppendingLast' /\ \A y \in Lists : Base(y)' = Base(y)
    BY <1>1, <1>5, NewUntouched
  <2>4. \A y \in Lists : Deleted(y)' <=> Deleted(y) \/ y = x
    <3> SUFFICES ASSUME NEW y \in Lists PROVE Deleted(y)' <=> Deleted(y) \/ y = x
      OBVIOUS
    <3>1. DeleteRank[y] \in 1..5 /\ (DeleteRank[y] = term.done + 1 => y = x)
      BY <1>1, RankFacts
    <3>2. DeleteRank[y] <= term.done + 1 <=> DeleteRank[y] <= term.done \/ y = x
      BY <1>1, <1>2, <3>1
    <3> QED
      BY <1>1, <2>1, <3>2 DEF Deleted, TermAt
  <2>5. Views'
    <3> SUFFICES ASSUME NEW y \in Lists
                 PROVE  /\ Deleted(y)' => term'.index \in 1..Len(Base(y)')
                        /\ list'[y] = IF Deleted(y)' THEN RemoveAt(Base(y)', term'.index)
                                                     ELSE Base(y)'
      BY DEF Views
    <3>1. CASE y = x
      BY <1>4, <1>5, <2>1, <2>3, <2>4, <3>1
    <3>2. CASE y # x
      <4>1. /\ Deleted(y) => term.index \in 1..Len(Base(y))
            /\ list[y] = IF Deleted(y) THEN RemoveAt(Base(y), term.index) ELSE Base(y)
        BY <1>1 DEF Views, TermAt
      <4> QED
        BY <1>4, <1>5, <2>1, <2>3, <2>4, <3>2, <4>1
    <3> QED
      BY <3>1, <3>2
  <2>6. VictimInPlace'
    BY <1>1, <1>5, <2>1 DEF VictimInPlace, TermAt
  <2> QED
    BY <2>2, <2>3, <2>5, <2>6
<1>6. ASSUME term.index <= Len(list[x]), term.done = 4,
             list' = [list EXCEPT ![x] = RemoveAt(@, term.index)],
             term' = Null, registry' = RemoveAt(registry, term.index)
      PROVE  IInv'
  <2>1. x = "framerates"
    BY <1>1, <1>6, RankFacts
  <2>2. \A y \in Lists : ~Appended(y) => ~Appended(x)
    <3> SUFFICES ASSUME NEW y \in Lists, ~Appended(y) PROVE ~Appended(x)
      OBVIOUS
    <3>1. Appending /\ new # Null /\ ~(AppendRank[y] <= new.done)
      BY DEF Appended, Appending, NewAt
    <3>2. new.done \in 1..5 /\ AppendRank[y] \in 1..5 /\ AppendRank[x] \in 1..5
          /\ AppendRank[y] <= AppendRank[x]
      BY <2>1, <3>1, NewFields, RankFacts
    <3> QED
      BY <3>1, <3>2 DEF Appended
  <2>3. term.index \in 1..Len(registry)
    BY <1>1 DEF VictimInPlace
  <2>4. registry' \in Seq(Streams)
    BY <1>2, <1>6, <2>3, RemoveAtProperties
  <2>5. TypeOK'
    BY <1>1, <1>4, <1>6, <2>4 DEF TypeOK
  <2>6. Appending' <=> Appending
    BY <1>1 DEF Appending, NewAt
  <2>7. ~Appended(x) => /\ registry # <<>> /\ term.index \in 1..Len(Front(registry))
    BY <1>4, <1>6 DEF Base, Appended, AppendingLast
  <2>8. ~Appended(x) => /\ registry' # <<>> /\ Last(registry') = Last(registry)
                        /\ Front(registry') = RemoveAt(Front(registry), term.index)
    BY <1>2, <1>6, <2>7, RemoveAtBeforeLast
  <2>9. Appending => ~Appended(x)
    <3> SUFFICES ASSUME Appending PROVE ~Appended(x)
      OBVIOUS
    <3>1. new # Null /\ new.done <= 4
      BY DEF Appending, NewAt, AppendingLast
    <3>2. new.done \in 1..5 /\ AppendRank[x] = 5
      BY <2>1, <3>1, NewFields, RankFacts
    <3> QED
      BY <3>1, <3>2 DEF Appended
  <2>10. AppendingLast'
    BY <1>1, <2>6, <2>8, <2>9 DEF AppendingLast, NewAt
  <2>11. \A y \in Lists : Base(y)' = RemoveAt(Base(y), term.index)
    BY <1>1, <1>6, <2>2, <2>6, <2>8 DEF Base, Appended
  <2>12. \A y \in Lists : list'[y] = RemoveAt(Base(y), term.index)
    <3> SUFFICES ASSUME NEW y \in Lists, y # x
                 PROVE  list'[y] = RemoveAt(Base(y), term.index)
      BY <1>4, <1>6
    <3>1. Deleted(y)
      <4>1. DeleteRank[y] \in 1..5 /\ DeleteRank[y] # 5
        BY <2>1, RankFacts
      <4> QED
        BY <1>1, <1>6, <4>1 DEF Deleted
    <3> QED
      BY <1>1, <1>4, <1>6, <3>1 DEF Views, TermAt
  <2>13. Views'
    BY <1>6, <2>11, <2>12 DEF Views, Deleted, TermAt
  <2>14. VictimInPlace'
    BY <1>6 DEF VictimInPlace, TermAt
  <2> QED
    BY <2>5, <2>10, <2>13, <2>14
<1>7. CASE /\ term.index <= Len(list[x])
           /\ list' = [list EXCEPT ![x] = RemoveAt(@, term.index)]
           /\ term' = IF term.done = 4 THEN Null ELSE [term EXCEPT !.done = @ + 1]
           /\ registry' = IF term.done = 4 THEN RemoveAt(registry, term.index) ELSE registry
  BY <1>5, <1>6, <1>7
<1> QED
  BY <1>3, <1>7 DEF DeleteNext

-----------------------------------------------------------------------------
(* The theorems.                                                           *)

LEMMA ParserPreserves ==
  ASSUME IInv, NEW k \in Streams, BusStateChanged(k) \/ BusEnds(k)
  PROVE  IInv'
<1>1. /\ UNCHANGED <<list, new, term, killed, receivers, registry>>
      /\ parser' \in [Streams -> ParserStates]
  BY DEF BusStateChanged, BusEnds, IInv, TypeOK, ParserStates
<1>2. TypeOK'
  BY <1>1 DEF IInv, TypeOK
<1>3. AppendingLast' /\ \A x \in Lists : Base(x)' = Base(x)
  BY <1>1, NewUntouched DEF IInv
<1> QED
  BY <1>1, <1>2, <1>3 DEF IInv, Views, Deleted, VictimInPlace, TermAt

LEMMA StutterPreserves == IInv /\ UNCHANGED vars => IInv'
BY DEF IInv, vars, TypeOK, AppendingLast, Views, VictimInPlace, Deleted, Base,
       Appended, Appending, NewAt, TermAt

\* The invariant holds in every reachable state of amqp_manager.py's two threads.
THEOREM Invariance == Spec => []IInv
<1>1. IInv /\ [Next]_vars => IInv'
  <2> SUFFICES ASSUME IInv, [Next]_vars PROVE IInv'
    OBVIOUS
  <2>1. CASE \E k \in Streams : NewMessage(k)
    BY <2>1, NewMessagePreserves
  <2>2. CASE NewThread
    BY <2>2, LaunchReceiverPreserves, AppendNextPreserves, StartParserPreserves
    DEF NewThread
  <2>3. CASE \E s \in Sources : TerminateMessage(s)
    BY <2>3, TerminateMessagePreserves
  <2>4. CASE TermThread
    BY <2>4, KillParserPreserves, DeleteNextPreserves DEF TermThread
  <2>5. CASE \E k \in Streams : BusStateChanged(k) \/ BusEnds(k)
    BY <2>5, ParserPreserves
  <2>6. CASE UNCHANGED vars
    BY <2>6, StutterPreserves
  <2> QED
    BY <2>1, <2>2, <2>3, <2>4, <2>5, <2>6 DEF Next
<1> QED
  BY <1>1, InitIInv, PTL DEF Spec

\* The lists hold streams and the threads' locals are what the code expects.
THEOREM TypeCorrect == Spec => []TypeOK
BY Invariance, PTL DEF IInv

\* Whenever both threads are idle, the five lists describe the same streams at
\* the same positions.
THEOREM ListsAligned == Spec => []AlignedWhenIdle
<1>1. IInv => AlignedWhenIdle
  BY DEF IInv, AlignedWhenIdle, Views, Deleted, Base, Appended, Appending, NewAt, TermAt
<1> QED
  BY <1>1, Invariance, PTL

\* The parser told to stop belongs to the source the message names.
THEOREM RightVictim == Spec => []VictimIsRequested
<1>1. IInv => VictimIsRequested
  BY DEF IInv, VictimIsRequested, VictimInPlace
<1> QED
  BY <1>1, Invariance, PTL

\* No step takes from any list an element of another stream than the one
\* whose parser was told to stop.
THEOREM OnlyVictimDeleted == Spec => DeletesOnlyVictim
<1> DEFINE A == \A x \in Lists :
                  Len(list'[x]) < Len(list[x]) =>
                    /\ TermAt("delete") /\ list[x][term.index] = term.victim
                    /\ list'[x] = RemoveAt(list[x], term.index)
<1>1. IInv /\ [Next]_vars => [A]_vars
  <2> SUFFICES ASSUME IInv, Next, NEW x \in Lists, Len(list'[x]) < Len(list[x])
               PROVE  /\ TermAt("delete") /\ list[x][term.index] = term.victim
                      /\ list'[x] = RemoveAt(list[x], term.index)
    OBVIOUS
  <2>1. list \in [Lists -> Seq(Streams)] /\ Len(list[x]) \in Nat
    BY LenProperties DEF IInv, TypeOK
  <2>2. list' # list
    BY <2>1
  <2>3. ASSUME NEW y \in Lists, NEW k \in Streams,
               list' = [list EXCEPT ![y] = Append(@, k)]
        PROVE  FALSE
    <3>1. list'[x] = list[x] \/ list'[x] = Append(list[x], k)
      BY <2>1, <2>3
    <3>2. Len(Append(list[x], k)) = Len(list[x]) + 1
      BY <2>1, <2>3, AppendProperties
    <3> QED
      BY <2>1, <3>1, <3>2
  <2>4. ASSUME NEW k \in Streams, NewMessage(k) PROVE FALSE
    BY <2>3, <2>4 DEF NewMessage, Lists
  <2>5. ASSUME NewThread PROVE FALSE
    <3>1. new # Null => new.stream \in Streams
      BY NewFields DEF IInv
    <3> QED
      BY <2>2, <2>3, <2>5, <3>1
      DEF NewThread, LaunchReceiver, AppendNext, StartParser, NewAt, Lists
  <2>6. ASSUME KillParser PROVE FALSE
    BY <2>2, <2>6 DEF KillParser
  <2>7. ASSUME NEW s \in Sources, TerminateMessage(s) PROVE FALSE
    BY <2>2, <2>7 DEF TerminateMessage
  <2>8. ASSUME NEW k \in Streams, BusStateChanged(k) \/ BusEnds(k) PROVE FALSE
    BY <2>2, <2>8 DEF BusStateChanged, BusEnds
  <2>9. PICK y \in Lists : DeleteNext(y)
    BY <2>4, <2>5, <2>6, <2>7, <2>8 DEF Next, TermThread
  <2>10. /\ TermAt("delete") /\ DeleteRank[y] = term.done + 1
         /\ term.index <= Len(list[y])
         /\ list' = [list EXCEPT ![y] = RemoveAt(@, term.index)]
    BY <2>2, <2>9 DEF DeleteNext
  <2>11. x = y
    BY <2>1, <2>10
  <2> QED
    BY <2>1, <2>10, <2>11, DeletionInView
<1> QED
  BY <1>1, Invariance, PTL DEF Spec, DeletesOnlyVictim

\* What a list lacks of the registry is the stream that is being registered.
LEMMA BeyondBase ==
  ASSUME TypeOK, AppendingLast, NEW x \in Lists,
         NEW i \in 1..Len(registry), ~(i <= Len(Base(x)))
  PROVE  new # Null /\ new.stream = registry[i]
<1>1. registry \in Seq(Streams) /\ Len(registry) \in Nat
  BY LenProperties DEF TypeOK
<1>2. ~Appended(x) /\ Base(x) = Front(registry)
  BY <1>1 DEF Base
<1>3. Appending /\ registry # <<>> /\ Last(registry) = new.stream
  BY <1>2 DEF Appended, AppendingLast
<1>4. Len(Front(registry)) = Len(registry) - 1
  BY <1>1, <1>3, FrontProperties
<1>5. i = Len(registry)
  BY <1>1, <1>2, <1>4
<1> QED
  BY <1>3, <1>5 DEF Appending, NewAt, Last

\* A message for a registered stream retires it, unless the registration is still
\* under way.
THEOREM RegisteredRetired == Spec => RetiresTheRegistered
<1> DEFINE A == term' # term /\ TermAt("dead")' =>
                  \/ /\ TermAt("delete")
                     /\ new # Null /\ new.stream = term.victim
                  \/ /\ term = Null
                     /\ \A i \in DOMAIN registry :
                          SourceOf[registry[i]] = term'.wanted =>
                            new # Null /\ new.stream = registry[i]
<1>1. IInv /\ [Next]_vars => [A]_vars
  <2> SUFFICES ASSUME IInv, Next, term' # term, TermAt("dead")'
               PROVE  A
    OBVIOUS
  <2>1. registry \in Seq(Streams) /\ DOMAIN registry = 1..Len(registry)
    BY LenProperties DEF IInv, TypeOK
  <2>2. term'.pc = "dead"
    BY DEF TermAt
  <2>3. ASSUME NEW x \in Lists, DeleteNext(x) PROVE A
    <3>1. TermAt("delete") /\ term # Null /\ term.pc = "delete"
          /\ DeleteRank[x] = term.done + 1
      BY <2>3 DEF DeleteNext, TermAt
    <3>2. term \in TermRecord /\ term.done \in 0..4
      BY <3>1, TermFields DEF IInv
    <3>3. ~(term.index <= Len(list[x]))
      <4>1. term' # Null
        BY DEF TermAt
      <4>2. term' # [term EXCEPT !.done = @ + 1]
        BY <2>2, <3>1, <3>2 DEF TermRecord
      <4>3. \/ term' = IF term.done = 4 THEN Null ELSE [term EXCEPT !.done = @ + 1]
            \/ term.index > Len(list[x])
        BY <2>3, Zenon DEF DeleteNext
      <4>4. term.index \in Nat /\ Len(list[x]) \in Nat
        BY <3>1, TermFields, LenProperties DEF IInv, TypeOK
      <4> QED
        BY <4>1, <4>2, <4>3, <4>4
    <3>4. list[x] = Base(x)
      BY <3>1, <3>2 DEF IInv, Views, Deleted, TermAt
    <3>5. term.index \in 1..Len(registry) /\ term.victim = registry[term.index]
      BY <3>1 DEF IInv, VictimInPlace
    <3>6. new # Null /\ new.stream = registry[term.index]
      BY <3>3, <3>4, <3>5, BeyondBase DEF IInv
    <3> QED
      BY <3>1, <3>5, <3>6
  <2>4. ASSUME NEW s \in Sources, TerminateMessage(s) PROVE A
    <3> DEFINE matches == {i \in DOMAIN list["ids"] : SourceOf[list["ids"][i]] = s}
    <3>1. term = Null /\ matches = {} /\ term'.wanted = s
      BY <2>2, <2>4 DEF TerminateMessage
    <3>2. list["ids"] = Base("ids") /\ "ids" \in Lists
      BY <3>1 DEF IInv, Views, Deleted, TermAt, Lists
    <3>3. /\ Base("ids") \in Seq(Streams)
          /\ \A j \in 1..Len(Base("ids")) : Base("ids")[j] = registry[j]
      BY <3>2, BaseProperties DEF IInv
    <3>4. ASSUME NEW i \in 1..Len(registry), SourceOf[registry[i]] = s
          PROVE  new # Null /\ new.stream = registry[i]
      <4>1. DOMAIN Base("ids") = 1..Len(Base("ids")) /\ Len(Base("ids")) \in Nat
        BY <3>3, LenProperties
      <4>2. ~(i <= Len(Base("ids")))
        BY <3>1, <3>2, <3>3, <3>4, <4>1
      <4> QED
        BY <3>2, <4>2, BeyondBase DEF IInv
    <3> QED
      BY <2>1, <3>1, <3>4
  <2>5. ASSUME KillParser PROVE FALSE
    BY <2>2, <2>5, TermFields DEF KillParser, TermAt, IInv, TermRecord
  <2>6. ASSUME NewThread PROVE FALSE
    BY <2>6 DEF NewThread, LaunchReceiver, AppendNext, StartParser
  <2>7. ASSUME NEW k \in Streams, NewMessage(k) \/ BusStateChanged(k) \/ BusEnds(k)
        PROVE  FALSE
    BY <2>7 DEF NewMessage, BusStateChanged, BusEnds
  <2> QED
    BY <2>3, <2>4, <2>5, <2>6, <2>7 DEF Next, TermThread
<1> QED
  BY <1>1, Invariance, PTL DEF Spec, RetiresTheRegistered

-----------------------------------------------------------------------------
(* The relay of frames for every number of streams; it leaves the theorems *)
(* above as they are, since it only watches the streams it relays.         *)

Whole(m) == m.body \in Relayed /\ m.sourceId = SourceOf[m.body]

\* A thread between making its message and taking it finds a whole message; its
\* own, unless it was overtaken.
RelayIInv ==
  /\ buffer \in [Relayed -> {"none", "made", "sending"}]
  /\ message = [k \in Relayed |-> message[k]]
  /\ \A k \in Relayed :
       /\ buffer[k] = "made" => Whole(content) /\ (content.body = k \/ k \in overtaken)
       /\ buffer[k] = "none" => message[k] = Null
  /\ MessageWhole
  /\ OwnFrameUnlessOvertaken

LEMMA RelayInitIInv == RelayInit => RelayIInv
BY DEF RelayInit, RelayIInv, MessageWhole, OwnFrameUnlessOvertaken

LEMMA OnBufferIInv ==
  ASSUME RelayIInv, NEW k \in Relayed, OnBuffer(k)
  PROVE  RelayIInv'
<1>1. /\ buffer[k] = "none" /\ content' = MessageOf(k)
      /\ buffer' = [buffer EXCEPT ![k] = "made"] /\ UNCHANGED message
      /\ overtaken' = (overtaken \cup {j \in Relayed : buffer[j] = "made"}) \ {k}
  BY DEF OnBuffer, Generate
<1>2. Whole(content') /\ content'.body = k
  BY <1>1, RelayedAssumption DEF MessageOf, Whole
<1>3. \A j \in Relayed : j # k /\ (buffer[j] = "made" \/ j \in overtaken) => j \in overtaken'
  BY <1>1
<1>4. MessageWhole'
  BY <1>1 DEF RelayIInv, MessageWhole
<1>5. OwnFrameUnlessOvertaken'
  BY <1>1, <1>3 DEF RelayIInv, OwnFrameUnlessOvertaken
<1>6. \A j \in Relayed :
        /\ buffer'[j] = "made" =>
             Whole(content') /\ (content'.body = j \/ j \in overtaken')
        /\ buffer'[j] = "none" => message'[j] = Null
  BY <1>1, <1>2, <1>3 DEF RelayIInv
<1>7. buffer' \in [Relayed -> {"none", "made", "sending"}]
  BY <1>1 DEF RelayIInv
<1> QED BY <1>1, <1>4, <1>5, <1>6, <1>7 DEF RelayIInv

LEMMA TakeMessageIInv ==
  ASSUME RelayIInv, NEW k \in Relayed, TakeMessage(k)
  PROVE  RelayIInv'
<1>1. /\ buffer[k] = "made" /\ message' = [message EXCEPT ![k] = content]
      /\ buffer' = [buffer EXCEPT ![k] = "sending"] /\ UNCHANGED <<content, overtaken>>
  BY DEF TakeMessage
<1>2. Whole(content) /\ (content.body = k \/ k \in overtaken)
  BY <1>1 DEF RelayIInv
<1>3. message'[k] = content /\ \A j \in Relayed : j # k => message'[j] = message[j]
  BY <1>1 DEF RelayIInv
<1>4. MessageWhole' /\ OwnFrameUnlessOvertaken'
  BY <1>1, <1>2, <1>3 DEF RelayIInv, MessageWhole, OwnFrameUnlessOvertaken, Whole
<1>5. message' = [j \in Relayed |-> message'[j]]
  BY <1>1 DEF RelayIInv
<1>6. buffer' \in [Relayed -> {"none", "made", "sending"}]
  BY <1>1 DEF RelayIInv
<1> QED BY <1>1, <1>3, <1>4, <1>5, <1>6 DEF RelayIInv

LEMMA SendEndsIInv ==
  ASSUME RelayIInv, NEW k \in Relayed, SendEnds(k)
  PROVE  RelayIInv'
<1>1. /\ message' = [message EXCEPT ![k] = Null]
      /\ buffer' = [buffer EXCEPT ![k] = "none"] /\ UNCHANGED <<content, overtaken>>
  BY DEF SendEnds
<1>2. message'[k] = Null /\ \A j \in Relayed : j # k => message'[j] = message[j]
  BY <1>1 DEF RelayIInv
<1>3. MessageWhole' /\ OwnFrameUnlessOvertaken'
  BY <1>1, <1>2 DEF RelayIInv, MessageWhole, OwnFrameUnlessOvertaken
<1>4. message' = [j \in Relayed |-> message'[j]]
  BY <1>1 DEF RelayIInv
<1>5. buffer' \in [Relayed -> {"none", "made", "sending"}]
  BY <1>1 DEF RelayIInv
<1> QED BY <1>1, <1>2, <1>3, <1>4, <1>5 DEF RelayIInv

LEMMA RelayNextIInv == RelayIInv /\ [RelayNext]_<<vars, relayVars>> => RelayIInv'
<1>1. RelayIInv /\ UNCHANGED relayVars => RelayIInv'
  BY DEF relayVars, RelayIInv, MessageWhole, OwnFrameUnlessOvertaken
<1> QED BY <1>1, OnBufferIInv, TakeMessageIInv, SendEndsIInv DEF RelayNext

THEOREM RelayInvariance == RelaySpec => []RelayIInv
BY RelayInitIInv, RelayNextIInv, PTL DEF RelaySpec

\* However many streams' threads share the global, the message a thread sends
\* has the properties of the stream whose frame it holds.
THEOREM MessagesWhole == RelaySpec => []MessageWhole
<1>1. RelayIInv => MessageWhole
  BY DEF RelayIInv
<1> QED BY <1>1, RelayInvariance, PTL

\* A thread sends another stream's frame only when that stream's thread made its
\* message after this one's and before it was taken.
THEOREM OwnFrames == RelaySpec => []OwnFrameUnlessOvertaken
<1>1. RelayIInv => OwnFrameUnlessOvertaken
  BY DEF RelayIInv
<1> QED BY <1>1, RelayInvariance, PTL

\* The streams live as they do without the relay: it only watches their parsers.
THEOREM RelayImplementsStreams == RelaySpec => Spec
<1>1. RelayInit => Init
  BY DEF RelayInit
<1>2. [RelayNext]_<<vars, relayVars>> => [Next]_vars
  BY DEF RelayNext
<1> QED BY <1>1, <1>2, PTL DEF RelaySpec, Spec
=============================================================================
