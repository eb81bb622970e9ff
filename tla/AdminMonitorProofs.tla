------------------------- MODULE AdminMonitorProofs -------------------------
(***************************************************************************)
(* Theorems about AdminMonitor, for any length of the history and any      *)
(* number of samples.                                                      *)
(***************************************************************************)
EXTENDS AdminMonitor, SequenceTheorems, TLAPS

USE MonitorAssumption

\* Once the page has stopped, a request that is still in flight is an old one.
StoppedInv ==
    /\ StoppedShowsNothing
    /\ stopped /\ poll # "none" => ~current

\* While the session has its rights the cache holds nothing it may not see, and
\* what was served to it, it was allowed to see.
RightsInv ==
    /\ authorized => granted = cached
    /\ poll = "served" => sample <= granted
    /\ NothingNewAfterRevocation

\* A served sample is not older than any reading.
OrderInv ==
    /\ ReadingsInOrder
    /\ poll = "served" => \A i \in 1..Len(rows) : rows[i] <= sample

IInv ==
    /\ TypeOK
    /\ PollingIsSequential
    /\ StoppedInv
    /\ RightsInv
    /\ OrderInv

\* Appending a sample that is not older keeps the history in order and bounded.
LEMMA ReadingAppended ==
    ASSUME TypeOK, OrderInv, poll = "served"
    PROVE  /\ WithReading(sample) \in Seq(Nat)
           /\ Len(WithReading(sample)) <= MaxRows
           /\ \A i \in 1..Len(WithReading(sample)) : WithReading(sample)[i] <= sample
           /\ \A i \in 1..Len(WithReading(sample)) - 1 :
                WithReading(sample)[i] < WithReading(sample)[i + 1]
  <1> DEFINE n == Len(rows)
             longer == Append(rows, sample)
             shorter == Tail(longer)
             table == WithReading(sample)
  <1>1. rows \in Seq(Nat) /\ n \in Nat /\ n <= MaxRows /\ sample \in Nat
        /\ \A i \in 1..n : rows[i] \in Nat
    BY DEF TypeOK
  <1>2. /\ \A i \in 1..n - 1 : rows[i] < rows[i + 1]
        /\ \A i \in 1..n : rows[i] <= sample
    BY DEF OrderInv, ReadingsInOrder
  <1>3. CASE rows # <<>> /\ rows[n] = sample
    <2>1. table = rows
      BY <1>3 DEF WithReading
    <2> QED
      BY <1>1, <1>2, <2>1
  <1>4. CASE ~(rows # <<>> /\ rows[n] = sample)
    <2>1. /\ longer \in Seq(Nat) /\ Len(longer) = n + 1
          /\ longer[n + 1] = sample /\ \A i \in 1..n : longer[i] = rows[i]
      BY <1>1
    <2>2. \A i \in 1..n + 1 : longer[i] <= sample
      BY <1>1, <1>2, <2>1
    <2>3. \A i \in 1..n : longer[i] < longer[i + 1]
      <3>1. ASSUME NEW i \in 1..n - 1 PROVE longer[i] < longer[i + 1]
        BY <1>1, <1>2, <2>1
      <3>2. n >= 1 => longer[n] < longer[n + 1]
        <4>1. n >= 1 => rows # <<>>
          OBVIOUS
        <4> QED
          BY <1>1, <1>2, <1>4, <2>1, <4>1
      <3> QED
        BY <1>1, <3>1, <3>2
    <2>4. longer # <<>>
      BY <1>1, <2>1
    <2> HIDE DEF longer
    <2>5. /\ shorter \in Seq(Nat) /\ Len(shorter) = n
          /\ \A i \in 1..n : shorter[i] = longer[i + 1]
      BY <1>1, <2>1, <2>4, HeadTailProperties
    <2> HIDE DEF shorter, n
    <2>6. table = IF Len(longer) > MaxRows THEN shorter ELSE longer
      BY <1>4 DEF WithReading, longer, shorter, n
    <2> HIDE DEF table
    <2>7. CASE Len(longer) > MaxRows
      <3>1. \A i \in 1..n : shorter[i] <= sample
        BY <1>1, <2>2, <2>5
      <3>2. ASSUME NEW i \in 1..n - 1 PROVE shorter[i] < shorter[i + 1]
        <4>1. i \in 1..n /\ i + 1 \in 1..n
          BY <1>1
        <4>2. longer[i + 1] < longer[(i + 1) + 1]
          BY <2>3, <4>1
        <4> QED
          BY <2>5, <4>1, <4>2
      <3> QED
        BY <1>1, <2>5, <2>6, <2>7, <3>1, <3>2 DEF table
    <2>8. CASE ~(Len(longer) > MaxRows)
      BY <1>1, <2>1, <2>2, <2>3, <2>6, <2>8 DEF table
    <2> QED
      BY <2>7, <2>8
  <1> QED
    BY <1>3, <1>4

LEMMA TypeStep ==
    ASSUME IInv, [Next]_vars
    PROVE  TypeOK'
  <1> USE DEF IInv, TypeOK
  <1>1. <<>> \in Seq(Nat) /\ Len(<<>>) = 0
    BY EmptySeq
  <1>2. CASE TimerFires \/ Toggle \/ VisibilityChanges
    BY <1>2 DEF TimerFires, Toggle, VisibilityChanges, SuspendThenPoll, BeginPoll, samplerVars
  <1>3. CASE Dispose
    <2>1. /\ stopped' = TRUE /\ rows' = <<>> /\ armed' = FALSE /\ current' = FALSE
          /\ UNCHANGED <<poll, sample, paused, hidden, authorized, granted, samplerVars>>
      BY <1>3 DEF Dispose, SuspendThenPoll, Watching
    <2>2. rows' \in Seq(Nat) /\ Len(rows') <= MaxRows
      BY <1>1, <2>1
    <2>3. stopped' \in BOOLEAN /\ armed' \in BOOLEAN /\ current' \in BOOLEAN
      BY <2>1
    <2> QED
      BY <2>1, <2>2, <2>3 DEF samplerVars
  <1>4. CASE SampleArrives \/ RefusalArrives \/ PollFails
    <2>1. rows' \in Seq(Nat) /\ Len(rows') <= MaxRows
      <3>1. \/ rows' \in {rows, <<>>}
            \/ poll = "served" /\ rows' = WithReading(sample)
        BY <1>4 DEF SampleArrives, RefusalArrives, PollFails
      <3>2. CASE rows' \in {rows, <<>>}
        <4>1. CASE rows' = rows
          BY <4>1
        <4>2. CASE rows' = <<>>
          BY <1>1, <4>2, 0 <= MaxRows
        <4> QED
          BY <3>2, <4>1, <4>2
      <3>3. CASE poll = "served" /\ rows' = WithReading(sample)
        <4>1. TypeOK /\ OrderInv
          OBVIOUS
        <4> HIDE DEF TypeOK
        <4> QED
          BY <3>3, <4>1, ReadingAppended
      <3> QED
        BY <3>1, <3>2, <3>3
    <2>2. sample' \in {sample, 0} /\ poll' = "none" /\ UNCHANGED <<granted, cached>>
      BY <1>4 DEF SampleArrives, RefusalArrives, PollFails, Finally, samplerVars
    <2>3. /\ armed' \in BOOLEAN /\ stopped' \in BOOLEAN
          /\ UNCHANGED <<current, paused, hidden, authorized, fresh, pending>>
      <3>1. UNCHANGED <<current, paused, hidden, authorized, fresh, pending>>
        BY <1>4 DEF SampleArrives, RefusalArrives, PollFails, Finally, samplerVars
      <3>2. armed' = (~paused /\ ~stopped' /\ ~hidden)
        BY <1>4 DEF SampleArrives, RefusalArrives, PollFails, Finally
      <3>3. stopped' = stopped \/ stopped' = (stopped \/ current)
        BY <1>4, Zenon DEF SampleArrives, RefusalArrives, PollFails
      <3>4. armed' \in BOOLEAN
        BY <3>2, Zenon
      <3>5. stopped' \in BOOLEAN
        BY <3>3, Zenon
      <3> QED
        BY <3>1, <3>4, <3>5
    <2> QED
      BY <2>1, <2>2, <2>3
  <1>6. CASE RequestReaches \/ OtherPageAsks
    BY <1>6 DEF RequestReaches, OtherPageAsks, Collect, samplerVars, pageVars
  <1>7. CASE CollectionEnds
    <2>1. cached' \in Nat /\ granted' \in Nat
      BY <1>7 DEF CollectionEnds
    <2>2. sample' \in Nat /\ poll' \in {"none", "asked", "collecting", "served", "refused"}
      BY <1>7, <2>1 DEF CollectionEnds, HandlerResumes
    <2> QED
      BY <1>7, <2>1, <2>2 DEF CollectionEnds
  <1>8. CASE FreshnessExpires \/ SessionEnds \/ UNCHANGED vars
    BY <1>8 DEF FreshnessExpires, SessionEnds, vars, samplerVars, pageVars
  <1> QED
    BY <1>2, <1>3, <1>4, <1>6, <1>7, <1>8 DEF Next

LEMMA PollingStep ==
    ASSUME IInv, [Next]_vars
    PROVE  PollingIsSequential'
  <1> USE DEF IInv, PollingIsSequential, Watching
  <1>1. CASE TimerFires \/ Toggle \/ VisibilityChanges \/ Dispose
    BY <1>1 DEF TimerFires, Toggle, VisibilityChanges, Dispose, SuspendThenPoll, BeginPoll
  <1>2. CASE SampleArrives \/ RefusalArrives \/ PollFails
    <2>1. poll' = "none" /\ UNCHANGED <<paused, hidden>>
          /\ armed' = (~paused /\ ~stopped' /\ ~hidden)
      BY <1>2 DEF SampleArrives, RefusalArrives, PollFails, Finally
    <2> QED
      BY <2>1, Zenon
  <1>3. CASE RequestReaches \/ OtherPageAsks \/ CollectionEnds
    <2>1. UNCHANGED <<armed, paused, hidden, stopped>> /\ (poll' = "none" <=> poll = "none")
      BY <1>3 DEF RequestReaches, OtherPageAsks, CollectionEnds, HandlerResumes, pageVars
    <2> QED
      BY <2>1
  <1>4. CASE FreshnessExpires \/ SessionEnds \/ UNCHANGED vars
    BY <1>4 DEF FreshnessExpires, SessionEnds, vars, pageVars
  <1> QED
    BY <1>1, <1>2, <1>3, <1>4 DEF Next

LEMMA StoppedStep ==
    ASSUME IInv, [Next]_vars
    PROVE  StoppedInv'
  <1> USE DEF IInv, StoppedInv, StoppedShowsNothing, Watching
  <1>1. CASE TimerFires \/ Toggle \/ VisibilityChanges \/ Dispose
    BY <1>1 DEF TimerFires, Toggle, VisibilityChanges, Dispose, SuspendThenPoll, BeginPoll
  <1>2. CASE SampleArrives \/ RefusalArrives \/ PollFails
    <2>1. poll # "none" /\ poll' = "none"
      BY <1>2 DEF SampleArrives, RefusalArrives, PollFails, Finally
    <2>2. CASE (SampleArrives \/ PollFails) /\ ~stopped
      BY <2>1, <2>2 DEF SampleArrives, PollFails
    <2>3. CASE (SampleArrives \/ PollFails) /\ stopped
      BY <2>1, <2>3 DEF SampleArrives, PollFails
    <2>4. CASE RefusalArrives /\ current
      BY <2>1, <2>4 DEF RefusalArrives
    <2>5. CASE RefusalArrives /\ ~current
      <3>1. UNCHANGED rows /\ stopped' = (stopped \/ current)
        BY <2>5 DEF RefusalArrives
      <3>2. stopped' => stopped
        BY <2>5, <3>1, Zenon
      <3> QED
        BY <2>1, <3>1, <3>2
    <2> QED
      BY <1>2, <2>2, <2>3, <2>4, <2>5
  <1>3. CASE RequestReaches \/ OtherPageAsks \/ CollectionEnds
    BY <1>3 DEF RequestReaches, OtherPageAsks, CollectionEnds, HandlerResumes, pageVars
  <1>4. CASE FreshnessExpires \/ SessionEnds \/ UNCHANGED vars
    BY <1>4 DEF FreshnessExpires, SessionEnds, vars, pageVars
  <1> QED
    BY <1>1, <1>2, <1>3, <1>4 DEF Next

\* The rights and the order of what is shown and served.
HistoryInv == RightsInv /\ OrderInv

LEMMA HistoryStep ==
    ASSUME IInv, [Next]_vars
    PROVE  HistoryInv'
  <1> USE DEF IInv, HistoryInv, RightsInv, OrderInv, NothingNewAfterRevocation, ReadingsInOrder
  <1>1. CASE UNCHANGED <<rows, authorized, granted, cached>> /\ UNCHANGED <<poll, sample>>
    BY <1>1
  <1>2. CASE UNCHANGED <<rows, authorized, granted, cached>> /\ poll' # "served"
    BY <1>2
  <1>3. CASE Dispose \/ RefusalArrives
    <2>1. \/ rows' = <<>>
          \/ UNCHANGED rows
      BY <1>3 DEF Dispose, RefusalArrives
    <2>2. UNCHANGED <<authorized, granted, cached>>
          /\ (poll' = "served" => poll = "served" /\ UNCHANGED sample)
      BY <1>3 DEF Dispose, RefusalArrives, Finally, SuspendThenPoll, BeginPoll, samplerVars
    <2>3. Len(<<>>) = 0
      OBVIOUS
    <2>4. CASE rows' = <<>>
      BY <2>2, <2>3, <2>4
    <2>5. CASE UNCHANGED rows
      BY <2>2, <2>5
    <2> QED
      BY <2>1, <2>4, <2>5
  <1>4. CASE SampleArrives
    <2>1. UNCHANGED <<authorized, granted, cached>> /\ poll' = "none" /\ poll = "served"
      BY <1>4 DEF SampleArrives, Finally, samplerVars
    <2>2. CASE UNCHANGED rows
      BY <2>1, <2>2
    <2>3. CASE rows' = WithReading(sample)
      <3>1. \A i \in 1..Len(rows') : rows'[i] <= sample /\ rows'[i] \in Nat
        BY <2>1, <2>3, ReadingAppended
      <3>2. \A i \in 1..Len(rows') : rows'[i] <= granted
        BY <2>1, <3>1 DEF TypeOK
      <3> QED
        BY <2>1, <2>3, <3>2, ReadingAppended
    <2> QED
      BY <1>4, <2>2, <2>3 DEF SampleArrives
  <1>5. CASE RequestReaches
    <2>1. UNCHANGED <<rows, authorized, granted, cached>>
      BY <1>5 DEF RequestReaches, Collect, samplerVars
    <2>2. CASE poll' = "served"
      <3>1. authorized /\ sample' = cached
        BY <1>5, <2>2 DEF RequestReaches
      <3> QED
        BY <2>1, <3>1 DEF TypeOK
    <2> QED
      BY <1>2, <2>1, <2>2
  <1>6. CASE CollectionEnds
    <2>1. UNCHANGED <<rows, authorized>> /\ cached' = cached + 1
          /\ granted' = IF authorized THEN cached + 1 ELSE granted
      BY <1>6 DEF CollectionEnds
    <2>2. granted <= granted'
      BY <2>1 DEF TypeOK
    <2>3. \A i \in 1..Len(rows) : rows[i] <= granted'
      BY <2>1, <2>2 DEF TypeOK
    <2>4. poll' = "served" =>
            \/ poll = "served" /\ UNCHANGED sample
            \/ authorized /\ sample' = cached + 1
      BY <1>6 DEF CollectionEnds, HandlerResumes
    <2>5. CASE poll' = "served" /\ poll = "served" /\ UNCHANGED sample
      BY <2>1, <2>2, <2>3, <2>5 DEF TypeOK
    <2>6. CASE poll' = "served" /\ authorized /\ sample' = cached + 1
      BY <2>1, <2>2, <2>3, <2>6 DEF TypeOK
    <2>7. CASE poll' # "served"
      BY <2>1, <2>3, <2>7
    <2> QED
      BY <2>4, <2>5, <2>6, <2>7
  <1>7. CASE SessionEnds
    BY <1>7 DEF SessionEnds, pageVars, samplerVars
  <1>8. CASE TimerFires \/ Toggle \/ VisibilityChanges
    BY <1>1, <1>2, <1>8 DEF TimerFires, Toggle, VisibilityChanges, SuspendThenPoll, BeginPoll,
        samplerVars
  <1>9. CASE PollFails \/ OtherPageAsks \/ FreshnessExpires \/ UNCHANGED vars
    BY <1>1, <1>2, <1>9 DEF PollFails, OtherPageAsks, FreshnessExpires, Finally, Collect, vars,
        pageVars, samplerVars
  <1> QED
    BY <1>3, <1>4, <1>5, <1>6, <1>7, <1>8, <1>9 DEF Next

-----------------------------------------------------------------------------
(* The theorems.                                                           *)

LEMMA InvariantHolds == Spec => []IInv
  <1>1. Init => IInv
    <2> SUFFICES ASSUME Init PROVE IInv
      OBVIOUS
    <2> USE DEF Init
    <2>1. rows \in Seq(Nat) /\ Len(rows) = 0
      BY EmptySeq
    <2>2. TypeOK
      <3>1. poll \in {"none", "asked", "collecting", "served", "refused"}
        OBVIOUS
      <3>2. /\ current \in BOOLEAN /\ armed \in BOOLEAN /\ authorized \in BOOLEAN
            /\ paused \in BOOLEAN /\ hidden \in BOOLEAN /\ stopped \in BOOLEAN
            /\ fresh \in BOOLEAN /\ pending \in BOOLEAN
        OBVIOUS
      <3> QED
        BY <2>1, <3>1, <3>2 DEF TypeOK
    <2>3. PollingIsSequential
      BY DEF PollingIsSequential, Watching
    <2>4. StoppedInv /\ RightsInv /\ OrderInv
      BY <2>1 DEF StoppedInv, StoppedShowsNothing, RightsInv, NothingNewAfterRevocation,
          OrderInv, ReadingsInOrder
    <2> QED
      BY <2>2, <2>3, <2>4 DEF IInv
  <1>2. IInv /\ [Next]_vars => IInv'
    BY TypeStep, PollingStep, StoppedStep, HistoryStep DEF IInv, HistoryInv
  <1> QED
    BY <1>1, <1>2, PTL DEF Spec

\* Every variable keeps its type, and the history its length.
THEOREM TypeCorrect == Spec => []TypeOK
  BY InvariantHolds, PTL DEF IInv

\* A watching page polls, one request after the other, and never stalls.
THEOREM Sequential == Spec => []PollingIsSequential
  BY InvariantHolds, PTL DEF IInv

\* Nothing completed after the session lost its rights is shown.
THEOREM RevocationHolds == Spec => []NothingNewAfterRevocation
  BY InvariantHolds, PTL DEF IInv, RightsInv

\* A page that has stopped shows nothing, whatever was in flight.
THEOREM StoppedIsEmpty == Spec => []StoppedShowsNothing
  BY InvariantHolds, PTL DEF IInv, StoppedInv

\* The history is of distinct samples, oldest first.
THEOREM HistoryIsOrdered == Spec => []ReadingsInOrder
  BY InvariantHolds, PTL DEF IInv, OrderInv
=============================================================================
