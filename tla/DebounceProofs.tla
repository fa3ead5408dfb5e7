--------------------------- MODULE DebounceProofs ---------------------------
(***************************************************************************)
(* The debouncer keeps its timers, its event and the clock consistent, for *)
(* all waits, channel capacities and numbers of events.                    *)
(***************************************************************************)
EXTENDS Debounce, SequenceTheorems, TLAPS

\* What is in the output has been sent.
OutputSent == \A i \in 1..Len(output) : output[i] \in 0..sent

\* The timers count what is left of the two waits.
TimersCount ==
  /\ minTimer # Unset => quiet + minTimer = wait.min
  /\ maxTimer # Unset => burst # Unset /\ burst + maxTimer = wait.max
  /\ maxTimer = Unset => burst = Unset

\* No timer runs outside of the select.
TimersInSelect == stage # "select" => minTimer = Unset /\ maxTimer = Unset

\* The event that is about to be passed on is the newest, and not passed on yet.
EventNew == stage = "send" => event = taken /\ taken > Forwarded

\* Strengthens NotOverdue and ArmedIffPending to an inductive invariant.
DebounceInv ==
  /\ DebounceTypeOK /\ OutputSent
  /\ TimersCount /\ TimersInSelect
  /\ EventNew /\ ArmedIffPending

\* The config's Wait is a pair of durations, the first of which is no longer.
LEMMA WaitOK ==
  ASSUME wait \in Waits
  PROVE  wait.min \in Nat /\ wait.max \in Nat /\ wait.min <= wait.max
  BY WaitAssumption

\* Receiving an element of the output leaves the rest as it was.
LEMMA TakeHead ==
  ASSUME NEW s \in Seq(Nat), s # <<>>
  PROVE  /\ Len(s) \in Nat \ {0}
         /\ Head(s) = s[1] /\ Head(s) \in Nat
         /\ Tail(s) \in Seq(Nat) /\ Len(Tail(s)) = Len(s) - 1
         /\ \A i \in 1..(Len(s) - 1) : Tail(s)[i] = s[i + 1]
         /\ Tail(s) = <<>> <=> Len(s) = 1
  <1>1. Len(s) \in Nat \ {0} /\ Head(s) = s[1] /\ Head(s) \in Nat
    BY EmptySeq, LenProperties
  <1>2. /\ Tail(s) \in Seq(Nat) /\ Len(Tail(s)) = Len(s) - 1
        /\ \A i \in 1..(Len(s) - 1) : Tail(s)[i] = s[i + 1]
    BY HeadTailProperties
  <1>3. Tail(s) = <<>> <=> Len(s) = 1
    BY <1>1, <1>2, EmptySeq
  <1> QED BY <1>1, <1>2, <1>3

\* The debouncer starts with nothing kept and no timer running.
LEMMA DebounceStarts == DebounceInit => DebounceInv
  <1> SUFFICES ASSUME DebounceInit PROVE DebounceInv
    OBVIOUS
  <1> USE DEF DebounceInit, Unset
  <1>1. DebounceTypeOK
    <2>1. output \in Seq(Nat)
      BY EmptySeq
    <2>2. stage \in {"off", "select", "send", "done"}
      OBVIOUS
    <2>3. sent \in Nat /\ taken \in 0..sent /\ passed \in 0..sent /\ quiet \in Nat
      OBVIOUS
    <2>4. closed \in BOOLEAN
      OBVIOUS
    <2>5. /\ event \in Nat \cup {Unset} /\ minTimer \in Nat \cup {Unset}
          /\ maxTimer \in Nat \cup {Unset} /\ burst \in Nat \cup {Unset}
      OBVIOUS
    <2>6. wait \in Waits
      OBVIOUS
    <2> HIDE DEF DebounceInit, Unset
    <2> QED BY <2>1, <2>2, <2>3, <2>4, <2>5, <2>6 DEF DebounceTypeOK, Durations
  <1>2. OutputSent /\ TimersCount /\ TimersInSelect
    BY DEF OutputSent, TimersCount, TimersInSelect
  <1>3. EventNew /\ ArmedIffPending
    BY DEF EventNew, ArmedIffPending, Forwarded
  <1> QED BY <1>1, <1>2, <1>3 DEF DebounceInv

\* Every step keeps the invariant.
LEMMA DebouncePreserves == DebounceInv /\ [DebounceNext]_debounceVars => DebounceInv'
  <1> SUFFICES ASSUME DebounceInv, [DebounceNext]_debounceVars PROVE DebounceInv'
    OBVIOUS
  <1> USE DEF DebounceInv, Unset
  <1>a. /\ wait.min \in Nat /\ wait.max \in Nat /\ wait.min <= wait.max
        /\ ChanCap \in Nat \ {0}
    BY WaitOK, WaitAssumption DEF DebounceTypeOK
  <1>1. CASE Send
    <2>1. DebounceTypeOK'
      BY <1>1 DEF DebounceTypeOK, Send
    <2>2. OutputSent'
      BY <1>1 DEF DebounceTypeOK, OutputSent, Send
    <2>3. (TimersCount /\ TimersInSelect /\ EventNew /\ ArmedIffPending)'
      BY <1>1 DEF TimersCount, TimersInSelect, EventNew, ArmedIffPending,
                  Forwarded, Send
    <2> QED BY <2>1, <2>2, <2>3
  <1>2. CASE Close
    BY <1>2 DEF DebounceTypeOK, OutputSent, TimersCount, TimersInSelect, EventNew,
                ArmedIffPending, Forwarded, Close
  <1>3. CASE Receive
    <2> USE <1>3 DEF Receive, Keep
    <2>1. DebounceTypeOK'
      BY <1>a DEF DebounceTypeOK, Durations
    <2>2. OutputSent' /\ TimersInSelect' /\ EventNew'
      BY DEF OutputSent, TimersInSelect, EventNew
    <2>3. TimersCount'
      BY <1>a DEF DebounceTypeOK, Durations, TimersCount
    <2>4. ArmedIffPending'
      BY <1>a DEF DebounceTypeOK, Durations, ArmedIffPending, Forwarded
    <2> QED BY <2>1, <2>2, <2>3, <2>4
  <1>4. CASE Fire
    <2> USE <1>4 DEF Fire, Due
    <2>1. DebounceTypeOK' /\ OutputSent'
      BY DEF DebounceTypeOK, Durations, OutputSent
    <2>2. TimersCount' /\ TimersInSelect' /\ ArmedIffPending'
      BY DEF TimersCount, TimersInSelect, ArmedIffPending
    <2>3. EventNew'
      BY DEF EventNew, ArmedIffPending, Forwarded
    <2> QED BY <2>1, <2>2, <2>3
  <1>5. CASE Forward
    <2> USE <1>5 DEF Forward
    <2>1. event = taken /\ taken \in 0..sent /\ sent \in Nat
      BY DEF EventNew, DebounceTypeOK
    <2>2. /\ output' \in Seq(Nat) /\ Len(output') = Len(output) + 1
          /\ Len(output) \in Nat
          /\ output'[Len(output) + 1] = event
          /\ \A i \in 1..Len(output) : output'[i] = output[i]
      BY <2>1, AppendProperties DEF DebounceTypeOK
    <2>3. Forwarded' = taken /\ taken' = taken
      <3>1. output' # <<>>
        BY <2>2, EmptySeq
      <3> QED BY <2>1, <2>2, <3>1 DEF Forwarded
    <2>4. DebounceTypeOK' /\ OutputSent'
      <3>1. DebounceTypeOK'
        BY <2>2 DEF DebounceTypeOK
      <3>2. OutputSent'
        BY <2>1, <2>2 DEF OutputSent
      <3> QED BY <3>1, <3>2
    <2>5. TimersCount' /\ TimersInSelect' /\ EventNew'
      BY DEF TimersCount, TimersInSelect, EventNew
    <2>6. ArmedIffPending'
      BY <2>3 DEF ArmedIffPending, TimersInSelect
    <2> QED BY <2>4, <2>5, <2>6
  <1>6. CASE Finish
    <2> USE <1>6 DEF Finish
    <2>1. DebounceTypeOK' /\ OutputSent'
      BY DEF DebounceTypeOK, Durations, OutputSent
    <2>2. (TimersCount /\ TimersInSelect /\ EventNew /\ ArmedIffPending)'
      BY DEF TimersCount, TimersInSelect, EventNew, ArmedIffPending
    <2> QED BY <2>1, <2>2
  <1>7. CASE Watch
    <2>1. CASE stage = "off"
      <3> USE <1>7, <2>1 DEF Watch
      <3>1. DebounceTypeOK' /\ OutputSent'
        BY DEF DebounceTypeOK, OutputSent
      <3>2. (TimersCount /\ TimersInSelect /\ EventNew /\ ArmedIffPending)'
        BY DEF TimersCount, TimersInSelect, EventNew, ArmedIffPending
      <3> QED BY <3>1, <3>2
    <2>2. CASE stage # "off"
      <3> USE <1>7, <2>2 DEF Watch
      <3>1. output \in Seq(Nat) /\ output # <<>>
        BY DEF DebounceTypeOK
      <3>2. /\ Len(output) \in Nat \ {0}
            /\ passed' = output[1] /\ passed' \in Nat
            /\ output' \in Seq(Nat) /\ Len(output') = Len(output) - 1
            /\ \A i \in 1..(Len(output) - 1) : output'[i] = output[i + 1]
            /\ output' = <<>> <=> Len(output) = 1
        BY <3>1, TakeHead
      <3>3. DebounceTypeOK'
        BY <3>2 DEF DebounceTypeOK, OutputSent
      <3>4. OutputSent'
        <4> SUFFICES ASSUME NEW i \in 1..Len(output') PROVE output'[i] \in 0..sent
          BY DEF OutputSent
        <4>1. i \in 1..(Len(output) - 1) /\ i + 1 \in 1..Len(output)
          BY <3>2
        <4>2. output'[i] = output[i + 1]
          BY <3>2, <4>1
        <4> QED BY <4>1, <4>2 DEF OutputSent
      <3>5. Forwarded' = Forwarded
        <4>1. CASE Len(output) = 1
          BY <3>1, <3>2, <4>1 DEF Forwarded
        <4>2. CASE Len(output) # 1
          <5>1. output'[Len(output')] = output[Len(output)]
            BY <3>2, <4>2
          <5> QED BY <3>1, <3>2, <4>2, <5>1 DEF Forwarded
        <4> QED BY <4>1, <4>2
      <3>6. (TimersCount /\ TimersInSelect /\ EventNew /\ ArmedIffPending)'
        BY <3>5 DEF TimersCount, TimersInSelect, EventNew, ArmedIffPending
      <3> QED BY <3>3, <3>4, <3>6
    <2> QED BY <2>1, <2>2
  <1>8. CASE Tick
    <2> USE <1>8 DEF Tick, Elapse
    <2>1. minTimer # 0 /\ maxTimer # 0
      BY DEF Busy, Due, TimersInSelect
    <2>2. DebounceTypeOK'
      BY <1>a, <2>1 DEF DebounceTypeOK, Durations
    <2>3. OutputSent' /\ TimersInSelect'
      BY DEF OutputSent, TimersInSelect
    <2>4. TimersCount'
      BY <1>a, <2>1 DEF DebounceTypeOK, Durations, TimersCount
    <2>5. EventNew' /\ ArmedIffPending'
      BY <2>1 DEF DebounceTypeOK, Durations, EventNew, ArmedIffPending, Forwarded
    <2> QED BY <2>2, <2>3, <2>4, <2>5
  <1>9. CASE UNCHANGED debounceVars
    BY <1>9 DEF debounceVars, DebounceTypeOK, OutputSent, TimersCount, TimersInSelect, EventNew,
                ArmedIffPending, Forwarded
  <1> QED
    BY <1>1, <1>2, <1>3, <1>4, <1>5, <1>6, <1>7, <1>8, <1>9
    DEF DebounceNext, Debouncer

\* Every variable of newDebounceChannel keeps its type, the watcher's newest
\* event among those that were sent.
THEOREM TypeCorrect == DebounceSpec => []DebounceTypeOK
  <1>1. DebounceInv => DebounceTypeOK
    BY DEF DebounceInv
  <1> QED BY <1>1, DebounceStarts, DebouncePreserves, PTL DEF DebounceSpec

\* Whenever newDebounceChannel waits, its timers run if and only if it keeps an
\* event that is yet to be passed on.
THEOREM TimersArmed == DebounceSpec => []ArmedIffPending
  <1>1. DebounceInv => ArmedIffPending
    BY DEF DebounceInv
  <1> QED BY <1>1, DebounceStarts, DebouncePreserves, PTL DEF DebounceSpec

\* No event waits longer than Wait.Max, whatever arrives after it.
THEOREM MaxCaps == DebounceSpec => []NotOverdue
  <1>1. DebounceInv => NotOverdue
    <2> SUFFICES ASSUME DebounceInv PROVE burst <= wait.max
      BY DEF NotOverdue
    <2>1. wait.min \in Nat /\ wait.max \in Nat
      BY WaitOK DEF DebounceInv, DebounceTypeOK
    <2> QED
      BY <2>1 DEF DebounceInv, DebounceTypeOK, Durations, TimersCount, Unset
  <1> QED BY <1>1, DebounceStarts, DebouncePreserves, PTL DEF DebounceSpec

\* An event is passed on only after Wait.Min without another or Wait.Max after
\* the first of its burst.
THEOREM PacedOnly == DebounceSpec => Paced
  <1> DEFINE Pace == stage = "select" /\ stage' = "send" =>
                       quiet >= wait.min \/ burst >= wait.max
  <1>1. DebounceInv /\ [DebounceNext]_debounceVars => [Pace]_debounceVars
    <2> SUFFICES ASSUME DebounceInv, DebounceNext, stage = "select", stage' = "send"
                 PROVE  quiet >= wait.min \/ burst >= wait.max
      OBVIOUS
    <2>1. Fire
      BY DEF DebounceNext, Send, Close, Debouncer, Receive, Keep, Forward, Finish,
             Watch, Tick
    <2>2. wait.min \in Nat /\ wait.max \in Nat
      BY WaitOK DEF DebounceInv, DebounceTypeOK
    <2> QED
      BY <2>1, <2>2
      DEF Fire, Due, DebounceInv, DebounceTypeOK, Durations, TimersCount, Unset
  <1> QED BY <1>1, DebounceStarts, DebouncePreserves, PTL DEF DebounceSpec, Paced

-------------------------------------------------------------------------------
(* Debounce implements Coalesce, step by step: the timers and the clock only   *)
(* say when.                                                                   *)

LEMMA DebounceCoalesces == DebounceInv /\ [DebounceNext]_debounceVars => [Without!Next]_(Without!vars)
  <1> SUFFICES ASSUME DebounceInv, [DebounceNext]_debounceVars PROVE [Without!Next]_(Without!vars)
    OBVIOUS
  <1>1. /\ sent \in Nat /\ taken \in 0..sent /\ passed \in 0..sent
        /\ closed \in BOOLEAN /\ stage \in {"off", "select", "send", "done"}
        /\ output \in Seq(Nat) /\ Len(output) \in Nat
        /\ minTimer \in Nat \cup {Unset} /\ maxTimer \in Nat \cup {Unset}
    BY LenProperties DEF DebounceInv, DebounceTypeOK, Durations
  <1>2. /\ stage # "select" => minTimer = Unset
        /\ stage = "select" => (minTimer = Unset <=> maxTimer = Unset)
    BY DEF DebounceInv, TimersInSelect, ArmedIffPending
  <1>3. wait.min \in Nat /\ wait.min # Unset /\ Unset \notin Nat
    BY WaitOK DEF DebounceInv, DebounceTypeOK, Unset
  <1>4. CASE Send
    <2>1. Without!HandOut
      BY <1>1, <1>4 DEF Send, Without!HandOut
    <2> QED BY <2>1 DEF Without!Next
  <1>5. CASE Close
    <2>1. Without!Close
      BY <1>5 DEF Close, Without!Close
    <2> QED BY <2>1 DEF Without!Next
  <1>6. CASE Receive
    <2>1. /\ stage = "select" /\ taken < sent /\ taken' = taken + 1 /\ minTimer' = wait.min
          /\ UNCHANGED <<sent, closed, stage, output, passed>>
      BY <1>6 DEF Receive, Keep
    <2>2. Without!Keep
      BY <1>1, <1>3, <2>1 DEF Without!Keep
    <2> QED BY <2>2 DEF Without!Next
  <1>7. CASE Fire
    <2>1. minTimer # Unset
      BY <1>2, <1>7 DEF Fire, Due, Unset
    <2>2. Without!Fire
      BY <1>7, <2>1 DEF Fire, Without!Fire
    <2> QED BY <2>2 DEF Without!Next
  <1>8. CASE Forward
    <2>1. Len(output') = Len(output) + 1
      BY <1>1, <1>8, AppendProperties DEF Forward, DebounceInv, EventNew
    <2>2. Without!Forward
      BY <1>1, <1>2, <1>8, <2>1 DEF Forward, Without!Forward
    <2> QED BY <2>2 DEF Without!Next
  <1>9. CASE Finish
    <2>1. Without!Return
      BY <1>1, <1>9 DEF Finish, Without!Return
    <2> QED BY <2>1 DEF Without!Next
  <1>10. CASE Watch
    <2>1. CASE stage = "off"
      <3>1. Without!Take
        BY <1>1, <1>10, <2>1 DEF Watch, Without!Take
      <3> QED BY <3>1 DEF Without!Next
    <2>2. CASE stage # "off"
      <3>1. Len(output) > 0 /\ Len(output') = Len(output) - 1
        BY <1>1, <1>10, <2>2, TakeHead DEF Watch
      <3>2. Without!Take
        BY <1>1, <1>10, <2>2, <3>1 DEF Watch, Without!Take
      <3> QED BY <3>2 DEF Without!Next
    <2> QED BY <2>1, <2>2
  <1>11. CASE Tick
    <2>1. minTimer' # Unset <=> minTimer # Unset
      BY <1>1, <1>2, <1>11 DEF Tick, Elapse, Busy, Due, Unset
    <2> QED BY <1>11, <2>1 DEF Tick, Without!vars
  <1>12. CASE UNCHANGED debounceVars
    BY <1>12 DEF debounceVars, Without!vars
  <1> QED
    BY <1>4, <1>5, <1>6, <1>7, <1>8, <1>9, <1>10, <1>11, <1>12
    DEF DebounceNext, Debouncer

\* Whatever the timers do, newDebounceChannel takes the steps of a debouncer
\* without timers, and no others: a timer fires only while an event is kept, each
\* event that is kept is passed on once, events are lost only by being merged,
\* and one that is kept is forgotten only after the input has been closed and
\* emptied.  That the steps are taken in time is MaxCaps and PacedOnly.
THEOREM CoalesceRefined == DebounceSpec => Without!Init /\ [][Without!Next]_(Without!vars)
  <1>1. DebounceInit => Without!Init
    BY DEF DebounceInit, Without!Init
  <1> QED BY <1>1, DebounceStarts, DebouncePreserves, DebounceCoalesces, PTL DEF DebounceSpec
=============================================================================
