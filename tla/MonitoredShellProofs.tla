------------------------ MODULE MonitoredShellProofs ------------------------
(***************************************************************************)
(* Theorems about MonitoredShell, for every MaxLines and Timeout, with and *)
(* without descendants and raising callbacks.                              *)
(***************************************************************************)
EXTENDS MonitoredShell, FiniteSetTheorems, TLAPS

(* A running child holds its own pipes, an ended one does not. *)
ChildHoldsPipes == exit = "running" <=> "child" \in holders

(* Readers never run ahead of their stream, and one that has ended has     *)
(* delivered all of a stream nobody can write to any more.                 *)
ReadersInStep ==
    \A s \in Streams :
        /\ fetched[s] <= written[s]
        /\ reader[s] = "ended" => fetched[s] = written[s] /\ ~PipeOpen

(* What is in the queue was put there by a reader, a marker last, and      *)
(* nothing of a stream is left once its marker was taken.                  *)
QueueFromReaders ==
    \A i \in 1..Len(queue) :
        /\ queue[i].stream \notin closed
        /\ IsMarker(queue[i]) => reader[queue[i].stream] = "ended"
        /\ ~IsMarker(queue[i]) => queue[i].no <= fetched[queue[i].stream]

ResultFromReaders ==
    \A i \in 1..Len(result) : result[i].no <= fetched[result[i].stream]

(* The collected lines and then the queue, in order per stream. *)
TrailInOrder ==
    /\ InOrder(queue)
    /\ InOrder(result)
    /\ \A i \in 1..Len(result), j \in 1..Len(queue) :
         result[i].stream = queue[j].stream => result[i].no < queue[j].no

MarkersCounted ==
    /\ \A s \in closed : reader[s] = "ended"
    /\ closeCount = Cardinality(closed)

(* What each program point of the caller knows. *)
CallerKnows ==
    /\ pc = "loop" => tcount < Timeout
    /\ pc = "kill" => haveTimeout
    /\ pc \in {"wait", "join", "returned"} /\ ~haveTimeout => closed = Streams
    /\ pc \in {"join", "returned"} => exit # "running"
    /\ pc = "returned" => \A s \in Streams : reader[s] = "ended"
    /\ pc # "returned" => answer = NoAnswer
    /\ pc = "returned" => /\ answer.done
                          /\ answer.text = result
                          /\ answer.success => ~haveTimeout /\ exit = "ok"

IInv ==
    /\ TypeOK
    /\ ChildHoldsPipes
    /\ ReadersInStep
    /\ QueueFromReaders
    /\ ResultFromReaders
    /\ TrailInOrder
    /\ MarkersCounted
    /\ CallerKnows
    /\ NothingLost

-----------------------------------------------------------------------------
(* There are two readers, so two markers are all markers. *)
LEMMA StreamsCardinality ==
    /\ IsFiniteSet(Streams)
    /\ Cardinality(Streams) = 2
    /\ \A C \in SUBSET Streams :
         /\ IsFiniteSet(C)
         /\ Cardinality(C) \in 0..2
         /\ Cardinality(C) = 2 => C = Streams
<1>1. IsFiniteSet({"stdout"}) /\ Cardinality({"stdout"}) = 1
  BY FS_Singleton
<1>2. Streams = {"stdout"} \cup {"stderr"} /\ "stderr" \notin {"stdout"}
  BY DEF Streams
<1>3. IsFiniteSet(Streams) /\ Cardinality(Streams) = 2
  BY <1>1, <1>2, FS_AddElement
<1>4. ASSUME NEW C \in SUBSET Streams
      PROVE  /\ IsFiniteSet(C)
             /\ Cardinality(C) \in 0..2
             /\ Cardinality(C) = 2 => C = Streams
  <2>1. IsFiniteSet(C) /\ Cardinality(C) <= 2
    BY <1>3, FS_Subset
  <2>2. Cardinality(C) \in Nat
    BY <2>1, FS_CardinalityType
  <2>3. Cardinality(Streams) = Cardinality(C) => Streams = C
    BY <1>3, FS_Subset
  <2>4. Cardinality(C) = 2 => C = Streams
    BY <1>3, <2>3
  <2> QED BY <2>1, <2>2, <2>4
<1> QED BY <1>3, <1>4

(* Initially nothing was written, fetched, queued or collected. *)
LEMMA InitIInv == Init => IInv
<1> SUFFICES ASSUME Init PROVE IInv
  OBVIOUS
<1>1. TypeOK
  <2>1. <<>> \in Seq(Lines) /\ <<>> \in Seq(Elements)
    OBVIOUS
  <2>2. NoAnswer \in [done : BOOLEAN, success : BOOLEAN, text : Seq(Lines)]
    BY <2>1 DEF NoAnswer
  <2>3. 0 \in 0..MaxLines /\ 0 \in 0..Timeout
    BY MaxLinesAssumption, TimeoutAssumption
  <2>4. /\ written \in [Streams -> 0..MaxLines]
        /\ fetched \in [Streams -> 0..MaxLines]
        /\ reader \in [Streams -> {"reading", "ended"}]
    BY <2>3 DEF Init
  <2>5. queue \in Seq(Elements) /\ result \in Seq(Lines)
    BY <2>1 DEF Init
  <2>6. answer \in [done : BOOLEAN, success : BOOLEAN, text : Seq(Lines)]
    BY <2>2 DEF Init
  <2>7. haveTimeout \in BOOLEAN /\ tcount \in 0..Timeout
    BY <2>3 DEF Init
  <2>8. /\ exit \in {"running", "ok", "failed", "killed"}
        /\ holders \in SUBSET {"child", "descendant"}
        /\ pc \in {"loop", "kill", "wait", "join", "returned", "raised"}
        /\ closeCount \in 0..2
        /\ closed \in SUBSET Streams
    BY DEF Init
  <2> QED BY <2>4, <2>5, <2>6, <2>7, <2>8 DEF TypeOK
<1>2. /\ ChildHoldsPipes
      /\ ReadersInStep
      /\ QueueFromReaders
      /\ ResultFromReaders
      /\ TrailInOrder
  BY DEF Init, ChildHoldsPipes, ReadersInStep, QueueFromReaders, ResultFromReaders,
         TrailInOrder, InOrder, Streams
<1>3. MarkersCounted
  BY FS_EmptySet DEF Init, MarkersCounted
<1>4. CallerKnows
  BY TimeoutAssumption DEF Init, CallerKnows
<1>5. NothingLost
  BY DEF Init, NothingLost, Streams
<1> QED BY <1>1, <1>2, <1>3, <1>4, <1>5 DEF IInv

(* The child writes, spawns and exits without touching what was fetched.   *)
LEMMA ChildStep == IInv /\ Child => IInv'
<1> SUFFICES ASSUME IInv, Child PROVE IInv'
  OBVIOUS
<1> USE DEF IInv
<1>1. /\ UNCHANGED <<fetched, reader, queue, pc, tcount, haveTimeout>>
      /\ UNCHANGED <<closeCount, closed, result, answer>>
  BY DEF Child, WriteLine, SpawnDescendant, DescendantExits, ChildExits,
         threadVars, callerVars
<1>2. /\ exit' \in {"running", "ok", "failed", "killed"}
      /\ holders' \in SUBSET {"child", "descendant"}
      /\ written' \in [Streams -> 0..MaxLines]
      /\ \A s \in Streams : written[s] <= written'[s]
      /\ exit # "running" => exit' = exit
      /\ ~PipeOpen => ~PipeOpen' /\ written' = written
  <2> USE DEF TypeOK, PipeOpen, ChildHoldsPipes
  <2>1. CASE \E s \in Streams : WriteLine(s)
    BY <2>1, MaxLinesAssumption DEF WriteLine
  <2>2. CASE SpawnDescendant
    BY <2>2, MaxLinesAssumption DEF SpawnDescendant
  <2>3. CASE DescendantExits
    BY <2>3, MaxLinesAssumption DEF DescendantExits
  <2>4. CASE \E rc \in {"ok", "failed"} : ChildExits(rc)
    BY <2>4, MaxLinesAssumption DEF ChildExits
  <2> QED BY <2>1, <2>2, <2>3, <2>4 DEF Child
<1>3. TypeOK'
  BY <1>1, <1>2 DEF TypeOK
<1>9. ChildHoldsPipes'
  BY DEF Child, WriteLine, SpawnDescendant, DescendantExits, ChildExits,
         ChildHoldsPipes
<1>4. ReadersInStep'
  BY <1>1, <1>2, MaxLinesAssumption DEF ReadersInStep, TypeOK
<1>5. QueueFromReaders' /\ ResultFromReaders' /\ TrailInOrder'
  BY <1>1 DEF QueueFromReaders, ResultFromReaders, TrailInOrder, InOrder,
              IsMarker
<1>6. MarkersCounted'
  BY <1>1 DEF MarkersCounted
<1>7. CallerKnows'
  BY <1>1, <1>2 DEF CallerKnows
<1>8. NothingLost'
  BY <1>1 DEF NothingLost, Occurs
<1> QED BY <1>3, <1>4, <1>5, <1>6, <1>7, <1>8, <1>9

(* What append, head and tail do to a sequence of elements. *)
LEMMA AppendFacts ==
    ASSUME NEW S, NEW q \in Seq(S), NEW e \in S
    PROVE  /\ Append(q, e) \in Seq(S)
           /\ Len(Append(q, e)) = Len(q) + 1
           /\ Len(q) \in Nat
           /\ \A i \in 1..Len(q) : Append(q, e)[i] = q[i] /\ q[i] \in S
           /\ Append(q, e)[Len(q) + 1] = e
  OBVIOUS

LEMMA HeadTailFacts ==
    ASSUME NEW S, NEW q \in Seq(S), q # <<>>
    PROVE  /\ Tail(q) \in Seq(S)
           /\ Len(q) \in Nat \ {0}
           /\ Len(Tail(q)) = Len(q) - 1
           /\ Head(q) = q[1]
           /\ Head(q) \in S
           /\ \A i \in 1..Len(q) : q[i] \in S
           /\ \A i \in 1..Len(Tail(q)) : Tail(q)[i] = q[i + 1]
  OBVIOUS

(* Every collected line and queued element has a stream and a number. *)
LEMMA ElementsTyped ==
    ASSUME TypeOK
    PROVE  /\ Len(queue) \in Nat /\ Len(result) \in Nat
           /\ \A i \in 1..Len(queue) :
                queue[i].stream \in Streams /\ queue[i].no \in 1..(MaxLines + 1)
           /\ \A i \in 1..Len(result) :
                result[i].stream \in Streams /\ result[i].no \in 1..MaxLines
<1>1. queue \in Seq(Elements) /\ result \in Seq(Lines)
  BY DEF TypeOK
<1>2. \A i \in 1..Len(queue) : queue[i] \in Elements
  BY <1>1
<1>3. \A i \in 1..Len(result) : result[i] \in Lines
  BY <1>1
<1> QED BY <1>1, <1>2, <1>3 DEF Elements, Lines

(* A reader that still reads has put neither its marker nor, so, has the   *)
(* caller taken it: every element of its stream is at most fetched[s].     *)
LEMMA ReadingBound ==
    ASSUME IInv, NEW s \in Streams, reader[s] = "reading"
    PROVE  /\ s \notin closed
           /\ \A i \in 1..Len(queue) :
                queue[i].stream = s => queue[i].no <= fetched[s]
  BY DEF IInv, QueueFromReaders, MarkersCounted

(* A reader puts the next line of its stream, or its marker. *)
LEMMA ReaderStep ==
    ASSUME IInv, NEW s \in Streams, Reader(s)
    PROVE  IInv'
<1> USE DEF IInv
<1>1. /\ UNCHANGED <<exit, holders, written, pc, tcount, haveTimeout>>
      /\ UNCHANGED <<closeCount, closed, result, answer>>
      /\ reader[s] = "reading"
  BY DEF Reader, ReadLine, ReadEnd, childVars, callerVars
<1>2. pc # "returned"
  BY <1>1 DEF CallerKnows
<1>3. CASE ReadLine(s)
  <2> DEFINE e == Line(s, fetched[s] + 1)
  <2>1. /\ fetched[s] \in 0..MaxLines
        /\ written[s] \in 0..MaxLines
        /\ fetched[s] < written[s]
        /\ fetched' = [fetched EXCEPT ![s] = fetched[s] + 1]
        /\ reader' = reader
        /\ queue' = Append(queue, e)
    BY <1>3 DEF ReadLine, TypeOK
  <2>2. /\ e \in Elements
        /\ e.stream = s
        /\ e.no = fetched[s] + 1
        /\ ~IsMarker(e)
    BY <2>1, MaxLinesAssumption DEF Line, Elements, IsMarker
  <2> HIDE DEF e
  <2>3. queue \in Seq(Elements)
    BY DEF TypeOK
  <2>4. /\ queue' \in Seq(Elements)
        /\ Len(queue') = Len(queue) + 1
        /\ Len(queue) \in Nat
        /\ \A i \in 1..Len(queue) : queue'[i] = queue[i] /\ queue[i] \in Elements
        /\ queue'[Len(queue) + 1] = e
    BY <2>1, <2>2, <2>3, AppendFacts
  <2>5. /\ fetched' \in [Streams -> 0..MaxLines]
        /\ fetched'[s] = fetched[s] + 1
        /\ \A t \in Streams : t # s => fetched'[t] = fetched[t]
        /\ \A t \in Streams : fetched[t] \in 0..MaxLines /\ fetched[t] <= fetched'[t]
    BY <2>1, MaxLinesAssumption DEF TypeOK
  <2>6. TypeOK'
    BY <1>1, <2>1, <2>4, <2>5 DEF TypeOK
  <2>7. ReadersInStep'
    BY <1>1, <2>1, <2>5 DEF ReadersInStep, PipeOpen, TypeOK
  <2>8. QueueFromReaders'
    <3> SUFFICES ASSUME NEW i \in 1..Len(queue')
                 PROVE  /\ queue'[i].stream \notin closed
                        /\ IsMarker(queue'[i]) => reader[queue'[i].stream] = "ended"
                        /\ ~IsMarker(queue'[i]) =>
                             queue'[i].no <= fetched'[queue'[i].stream]
      BY <1>1, <2>1 DEF QueueFromReaders, IsMarker
    <3>1. CASE i \in 1..Len(queue)
      <4>1. queue[i].stream \in Streams /\ queue[i].no \in 1..(MaxLines + 1)
        BY <3>1, ElementsTyped
      <4>2. ~IsMarker(queue[i]) => queue[i].no <= fetched[queue[i].stream]
        BY <3>1 DEF QueueFromReaders
      <4>3. ~IsMarker(queue[i]) => queue[i].no <= fetched'[queue[i].stream]
        BY <4>1, <4>2, <2>5, MaxLinesAssumption
      <4> QED BY <3>1, <4>3, <2>4 DEF QueueFromReaders
    <3>2. CASE i = Len(queue) + 1
      BY <3>2, <1>1, <2>2, <2>4, <2>5, ReadingBound
    <3> QED BY <3>1, <3>2, <2>4
  <2>9. ResultFromReaders'
    <3> SUFFICES ASSUME NEW i \in 1..Len(result)
                 PROVE  result[i].no <= fetched'[result[i].stream]
      BY <1>1 DEF ResultFromReaders
    <3>1. result[i].stream \in Streams /\ result[i].no \in 1..MaxLines
      BY ElementsTyped
    <3>2. result[i].no <= fetched[result[i].stream]
      BY DEF ResultFromReaders
    <3> QED BY <3>1, <3>2, <2>5, MaxLinesAssumption
  <2>10. TrailInOrder'
    <3>1. \A i \in 1..Len(queue) :
            queue[i].stream = s => queue[i].no < e.no
      BY <1>1, <2>1, <2>2, <2>4, ReadingBound, MaxLinesAssumption DEF Elements
    <3>2. \A i \in 1..Len(result) :
            result[i].stream = s => result[i].no < e.no
      BY <2>1, <2>2, ElementsTyped, MaxLinesAssumption DEF ResultFromReaders
    <3>3. InOrder(queue')
      BY <2>2, <2>4, <3>1 DEF TrailInOrder, InOrder
    <3>4. InOrder(result')
      BY <1>1 DEF TrailInOrder, InOrder
    <3>5. \A i \in 1..Len(result'), j \in 1..Len(queue') :
            result'[i].stream = queue'[j].stream => result'[i].no < queue'[j].no
      BY <1>1, <2>2, <2>4, <3>2 DEF TrailInOrder
    <3> QED BY <3>3, <3>4, <3>5 DEF TrailInOrder
  <2>11. MarkersCounted' /\ CallerKnows' /\ ChildHoldsPipes'
    BY <1>1, <2>1 DEF MarkersCounted, CallerKnows, ChildHoldsPipes
  <2>12. NothingLost'
    <3> SUFFICES ASSUME pc # "raised", NEW t \in Streams, NEW n \in 1..fetched'[t]
                 PROVE  Occurs(Line(t, n), queue') \/ Occurs(Line(t, n), result)
      BY <1>1 DEF NothingLost, Occurs
    <3>1. CASE n \in 1..fetched[t]
      BY <3>1, <2>4 DEF NothingLost, Occurs
    <3>2. CASE n \notin 1..fetched[t]
      <4>1. t = s /\ n = fetched[s] + 1
        BY <3>2, <2>1, <2>5
      <4> QED BY <4>1, <2>4 DEF Occurs, e
    <3> QED BY <3>1, <3>2
  <2> QED BY <2>6, <2>7, <2>8, <2>9, <2>10, <2>11, <2>12
<1>4. CASE ReadEnd(s)
  <2> DEFINE e == Marker(s)
  <2>1. /\ fetched[s] = written[s]
        /\ ~PipeOpen
        /\ fetched' = fetched
        /\ reader' = [reader EXCEPT ![s] = "ended"]
        /\ queue' = Append(queue, e)
    BY <1>4 DEF ReadEnd
  <2>2. /\ e \in Elements
        /\ e.stream = s
        /\ e.no = MaxLines + 1
        /\ IsMarker(e)
    BY MaxLinesAssumption DEF Marker, Line, Elements, IsMarker
  <2> HIDE DEF e
  <2>3. queue \in Seq(Elements)
    BY DEF TypeOK
  <2>4. /\ queue' \in Seq(Elements)
        /\ Len(queue') = Len(queue) + 1
        /\ Len(queue) \in Nat
        /\ \A i \in 1..Len(queue) : queue'[i] = queue[i] /\ queue[i] \in Elements
        /\ queue'[Len(queue) + 1] = e
    BY <2>1, <2>2, <2>3, AppendFacts
  <2>5. /\ reader' \in [Streams -> {"reading", "ended"}]
        /\ reader'[s] = "ended"
        /\ \A t \in Streams : reader[t] = "ended" => reader'[t] = "ended"
        /\ \A t \in Streams : t # s => reader'[t] = reader[t]
    BY <2>1 DEF TypeOK
  <2>6. TypeOK'
    BY <1>1, <2>1, <2>4, <2>5 DEF TypeOK
  <2>7. ReadersInStep'
    BY <1>1, <2>1, <2>5 DEF ReadersInStep, PipeOpen
  <2>8. QueueFromReaders'
    <3> SUFFICES ASSUME NEW i \in 1..Len(queue')
                 PROVE  /\ queue'[i].stream \notin closed
                        /\ IsMarker(queue'[i]) => reader'[queue'[i].stream] = "ended"
                        /\ ~IsMarker(queue'[i]) =>
                             queue'[i].no <= fetched[queue'[i].stream]
      BY <1>1, <2>1 DEF QueueFromReaders, IsMarker
    <3>1. CASE i \in 1..Len(queue)
      BY <3>1, <2>4, <2>5 DEF QueueFromReaders, Elements
    <3>2. CASE i = Len(queue) + 1
      BY <3>2, <1>1, <2>2, <2>4, <2>5, ReadingBound
    <3> QED BY <3>1, <3>2, <2>4
  <2>9. ResultFromReaders' /\ ChildHoldsPipes'
    BY <1>1, <2>1 DEF ResultFromReaders, ChildHoldsPipes
  <2>10. TrailInOrder'
    <3>1. \A i \in 1..Len(queue) :
            queue[i].stream = s => queue[i].no < e.no
      <4> SUFFICES ASSUME NEW i \in 1..Len(queue), queue[i].stream = s
                   PROVE  queue[i].no < e.no
        OBVIOUS
      <4>1. queue[i].no \in 1..(MaxLines + 1) /\ fetched[s] \in 0..MaxLines
        BY ElementsTyped DEF TypeOK
      <4>2. queue[i].no <= fetched[s]
        BY <1>1, ReadingBound
      <4>3. e.no = MaxLines + 1
        BY <2>2 DEF IsMarker
      <4> QED BY <4>1, <4>2, <4>3, MaxLinesAssumption
    <3>2. \A i \in 1..Len(result) :
            result[i].stream = s => result[i].no < e.no
      BY <2>2, ElementsTyped, MaxLinesAssumption
    <3>3. InOrder(queue')
      BY <2>2, <2>4, <3>1 DEF TrailInOrder, InOrder
    <3>4. InOrder(result')
      BY <1>1 DEF TrailInOrder, InOrder
    <3>5. \A i \in 1..Len(result'), j \in 1..Len(queue') :
            result'[i].stream = queue'[j].stream => result'[i].no < queue'[j].no
      BY <1>1, <2>2, <2>4, <3>2 DEF TrailInOrder
    <3> QED BY <3>3, <3>4, <3>5 DEF TrailInOrder
  <2>11. MarkersCounted'
    BY <1>1, <2>5 DEF MarkersCounted, TypeOK
  <2>12. CallerKnows'
    BY <1>1, <1>2 DEF CallerKnows
  <2>13. NothingLost'
    BY <1>1, <2>1, <2>4 DEF NothingLost, Occurs
  <2> QED BY <2>6, <2>7, <2>8, <2>9, <2>10, <2>11, <2>12, <2>13
<1> QED BY <1>3, <1>4 DEF Reader

-----------------------------------------------------------------------------
(* Taking the head of the queue leaves its tail, which is still in order   *)
(* and still comes from the readers.                                       *)
LEMMA TakeHead ==
    ASSUME IInv, queue # <<>>, queue' = Tail(queue),
           UNCHANGED <<fetched, reader>>,
           closed \subseteq closed',
           \A s \in closed' \ closed : IsMarker(Head(queue)) /\ s = Head(queue).stream
    PROVE  /\ queue' \in Seq(Elements)
           /\ InOrder(queue')
           /\ QueueFromReaders'
           /\ \A j \in 1..Len(queue') :
                Head(queue).stream = queue'[j].stream => Head(queue).no < queue'[j].no
           /\ \A i \in 1..Len(result), j \in 1..Len(queue') :
                result[i].stream = queue'[j].stream => result[i].no < queue'[j].no
           /\ Head(queue) = queue[1] /\ 1 \in 1..Len(queue)
           /\ Head(queue) \in Elements
           /\ \A x : Occurs(x, queue) => x = Head(queue) \/ Occurs(x, queue')
<1> USE DEF IInv
<1>1. queue \in Seq(Elements)
  BY DEF TypeOK
<1>2. /\ queue' \in Seq(Elements)
      /\ Len(queue) \in Nat \ {0}
      /\ Len(queue') = Len(queue) - 1
      /\ Head(queue) = queue[1]
      /\ Head(queue) \in Elements
      /\ \A i \in 1..Len(queue') : queue'[i] = queue[i + 1]
  BY <1>1, HeadTailFacts
<1>3. \A i \in 1..Len(queue') : i + 1 \in 1..Len(queue) /\ 1 < i + 1
  BY <1>2
<1>4. InOrder(queue')
  BY <1>2, <1>3 DEF TrailInOrder, InOrder
<1>5. \A j \in 1..Len(queue') :
        Head(queue).stream = queue'[j].stream => Head(queue).no < queue'[j].no
  BY <1>2, <1>3 DEF TrailInOrder, InOrder
<1>6. \A i \in 1..Len(result), j \in 1..Len(queue') :
        result[i].stream = queue'[j].stream => result[i].no < queue'[j].no
  BY <1>2, <1>3 DEF TrailInOrder
<1>7. \A j \in 1..Len(queue') : queue'[j].stream \notin closed'
  <2> SUFFICES ASSUME NEW j \in 1..Len(queue'), queue'[j].stream \in closed'
               PROVE  FALSE
    OBVIOUS
  <2>1. queue'[j].stream \notin closed
    BY <1>2, <1>3 DEF QueueFromReaders
  <2>2. IsMarker(Head(queue)) /\ queue'[j].stream = Head(queue).stream
    BY <2>1
  <2>3. MaxLines + 1 < queue'[j].no
    BY <2>2, <1>5 DEF IsMarker
  <2>4. queue'[j].no \in 1..(MaxLines + 1)
    BY <1>2, <1>3, ElementsTyped
  <2> QED BY <2>3, <2>4, MaxLinesAssumption
<1>8. QueueFromReaders'
  BY <1>2, <1>3, <1>7 DEF QueueFromReaders, IsMarker
<1>9. \A x : Occurs(x, queue) => x = Head(queue) \/ Occurs(x, queue')
  <2> SUFFICES ASSUME NEW x, NEW i \in 1..Len(queue), queue[i] = x, i # 1
               PROVE  Occurs(x, queue')
    BY <1>2 DEF Occurs
  <2>1. i - 1 \in 1..Len(queue') /\ (i - 1) + 1 = i
    BY <1>2
  <2>2. queue'[i - 1] = x
    BY <2>1, <1>2
  <2> QED BY <2>1, <2>2 DEF Occurs
<1>10. 1 \in 1..Len(queue)
  BY <1>2
<1> QED BY Zenon, <1>2, <1>4, <1>5, <1>6, <1>8, <1>9, <1>10

(* A line moves from the head of the queue to the end of the result. *)
LEMMA GetLineStep == IInv /\ GetLine => IInv'
<1> SUFFICES ASSUME IInv, GetLine PROVE IInv'
  OBVIOUS
<1> USE DEF IInv
<1> DEFINE e == Head(queue)
<1>1. /\ UNCHANGED <<exit, holders, written, fetched, reader, pc>>
      /\ UNCHANGED <<haveTimeout, closeCount, closed, answer>>
      /\ pc = "loop" /\ queue # <<>> /\ ~IsMarker(e)
      /\ queue' = Tail(queue) /\ tcount' = 0
      /\ result' = Append(result, e)
  BY DEF GetLine, childVars, threadVars
<1>2. /\ queue' \in Seq(Elements)
      /\ InOrder(queue')
      /\ QueueFromReaders'
      /\ \A j \in 1..Len(queue') :
           e.stream = queue'[j].stream => e.no < queue'[j].no
      /\ \A i \in 1..Len(result), j \in 1..Len(queue') :
           result[i].stream = queue'[j].stream => result[i].no < queue'[j].no
      /\ e = queue[1] /\ 1 \in 1..Len(queue)
      /\ e \in Elements
      /\ \A x : Occurs(x, queue) => x = e \/ Occurs(x, queue')
  BY <1>1, TakeHead
<1>3. e \in Lines
  BY <1>1, <1>2, MaxLinesAssumption DEF Elements, Lines, IsMarker
<1>4. e.no <= fetched[e.stream]
  BY <1>1, <1>2 DEF QueueFromReaders
<1> HIDE DEF e
<1>5. /\ result \in Seq(Lines)
      /\ result' \in Seq(Lines)
      /\ Len(result) \in Nat
      /\ Len(result') = Len(result) + 1
      /\ \A i \in 1..Len(result) : result'[i] = result[i]
      /\ result'[Len(result) + 1] = e
  BY <1>1, <1>3, AppendFacts DEF TypeOK
<1>6. TypeOK'
  BY <1>1, <1>2, <1>5, TimeoutAssumption DEF TypeOK
<1>7. ReadersInStep' /\ ChildHoldsPipes' /\ MarkersCounted'
  BY <1>1 DEF ReadersInStep, PipeOpen, ChildHoldsPipes, MarkersCounted
<1>8. ResultFromReaders'
  BY <1>1, <1>4, <1>5 DEF ResultFromReaders
<1>9. TrailInOrder'
  <2>1. \A i \in 1..Len(result) : result[i].stream = e.stream => result[i].no < e.no
    BY <1>2 DEF TrailInOrder
  <2>2. InOrder(result')
    BY <1>5, <2>1 DEF TrailInOrder, InOrder
  <2>3. \A i \in 1..Len(result'), j \in 1..Len(queue') :
          result'[i].stream = queue'[j].stream => result'[i].no < queue'[j].no
    BY <1>2, <1>5
  <2> QED BY <1>2, <2>2, <2>3 DEF TrailInOrder
<1>10. CallerKnows'
  BY <1>1, TimeoutAssumption DEF CallerKnows
<1>11. NothingLost'
  <2>1. \A x : Occurs(x, result) \/ x = e => Occurs(x, result')
    BY <1>5 DEF Occurs
  <2> QED BY <1>1, <1>2, <2>1 DEF NothingLost
<1> QED BY <1>2, <1>6, <1>7, <1>8, <1>9, <1>10, <1>11

(* The marker of a stream comes off the queue: nothing of it is left.      *)
LEMMA GetMarkerStep == IInv /\ GetMarker => IInv'
<1> SUFFICES ASSUME IInv, GetMarker PROVE IInv'
  OBVIOUS
<1> USE DEF IInv
<1> DEFINE e == Head(queue)
<1>1. /\ UNCHANGED <<exit, holders, written, fetched, reader>>
      /\ UNCHANGED <<haveTimeout, result, answer>>
      /\ pc = "loop" /\ queue # <<>> /\ IsMarker(e)
      /\ queue' = Tail(queue) /\ tcount' = 0
      /\ closeCount' = closeCount + 1
      /\ closed' = closed \cup {e.stream}
      /\ pc' = IF closeCount' = 2 THEN "wait" ELSE "loop"
  BY DEF GetMarker, childVars, threadVars
<1>2. /\ queue' \in Seq(Elements)
      /\ InOrder(queue')
      /\ QueueFromReaders'
      /\ \A i \in 1..Len(result), j \in 1..Len(queue') :
           result[i].stream = queue'[j].stream => result[i].no < queue'[j].no
      /\ e = queue[1] /\ 1 \in 1..Len(queue)
      /\ e \in Elements
      /\ \A x : Occurs(x, queue) => x = e \/ Occurs(x, queue')
  BY <1>1, TakeHead
<1>3. e.stream \in Streams /\ e.stream \notin closed /\ reader[e.stream] = "ended"
  BY <1>1, <1>2 DEF QueueFromReaders, Elements
<1>4. /\ closed \in SUBSET Streams /\ closed' \in SUBSET Streams
      /\ closeCount' = Cardinality(closed')
      /\ closeCount' \in 0..2
  <2>1. closed \in SUBSET Streams /\ closed' \in SUBSET Streams
    BY <1>1, <1>3 DEF TypeOK
  <2>2. IsFiniteSet(closed) /\ Cardinality(closed') \in 0..2
    BY <2>1, StreamsCardinality
  <2>3. Cardinality(closed') = Cardinality(closed) + 1
    BY <1>1, <1>3, <2>2, FS_AddElement
  <2> QED BY <1>1, <2>1, <2>2, <2>3 DEF MarkersCounted
<1> HIDE DEF e
<1>5. TypeOK'
  BY <1>1, <1>2, <1>4, TimeoutAssumption DEF TypeOK
<1>6. ReadersInStep' /\ ChildHoldsPipes' /\ ResultFromReaders'
  BY <1>1 DEF ReadersInStep, PipeOpen, ChildHoldsPipes, ResultFromReaders
<1>7. TrailInOrder'
  BY <1>1, <1>2 DEF TrailInOrder, InOrder
<1>8. MarkersCounted'
  BY <1>1, <1>3, <1>4 DEF MarkersCounted
<1>9. CallerKnows'
  <2>1. pc' = "wait" => closed' = Streams
    BY <1>1, <1>4, StreamsCardinality
  <2>2. pc' \in {"wait", "loop"}
    BY <1>1
  <2> QED BY <1>1, <2>1, <2>2, TimeoutAssumption DEF CallerKnows
<1>10. NothingLost'
  <2>1. \A s \in Streams : \A n \in 1..fetched[s] : Line(s, n) # e
    BY <1>1, MaxLinesAssumption DEF TypeOK, Line, IsMarker
  <2> QED BY <1>1, <1>2, <2>1 DEF NothingLost
<1> QED BY <1>2, <1>5, <1>6, <1>7, <1>8, <1>9, <1>10

(* A callback raises: the head is lost, and so is the claim about it. *)
LEMMA CallbackFailsStep == IInv /\ CallbackFails => IInv'
<1> SUFFICES ASSUME IInv, CallbackFails PROVE IInv'
  OBVIOUS
<1> USE DEF IInv
<1>1. /\ UNCHANGED <<exit, holders, written, fetched, reader, tcount>>
      /\ UNCHANGED <<haveTimeout, closeCount, closed, result, answer>>
      /\ pc = "loop" /\ pc' = "raised" /\ queue # <<>>
      /\ queue' = Tail(queue)
  BY DEF CallbackFails, childVars, threadVars
<1>2. /\ queue' \in Seq(Elements)
      /\ InOrder(queue')
      /\ QueueFromReaders'
      /\ \A i \in 1..Len(result), j \in 1..Len(queue') :
           result[i].stream = queue'[j].stream => result[i].no < queue'[j].no
  BY <1>1, TakeHead
<1>3. TypeOK'
  BY <1>1, <1>2 DEF TypeOK
<1>4. ReadersInStep' /\ ChildHoldsPipes' /\ ResultFromReaders' /\ MarkersCounted'
  BY <1>1 DEF ReadersInStep, PipeOpen, ChildHoldsPipes, ResultFromReaders,
              MarkersCounted
<1>5. TrailInOrder'
  BY <1>1, <1>2 DEF TrailInOrder, InOrder
<1>6. CallerKnows' /\ NothingLost'
  BY <1>1 DEF CallerKnows, NothingLost
<1> QED BY <1>2, <1>3, <1>4, <1>5, <1>6

(* The steps that leave the queue and the collected lines alone. *)
LEMMA QuietCallerStep ==
    IInv /\ (PollTimesOut \/ Kill \/ Wait \/ JoinAndReturn) => IInv'
<1> SUFFICES ASSUME IInv, PollTimesOut \/ Kill \/ Wait \/ JoinAndReturn
             PROVE  IInv'
  OBVIOUS
<1> USE DEF IInv
<1>1. UNCHANGED <<written, fetched, reader, queue, closeCount, closed, result>>
  BY DEF PollTimesOut, Kill, Wait, JoinAndReturn, childVars, threadVars
<1>2. /\ holders' \in SUBSET {"child", "descendant"}
      /\ exit' \in {"running", "ok", "failed", "killed"}
      /\ ChildHoldsPipes'
      /\ ~PipeOpen => ~PipeOpen'
  BY DEF PollTimesOut, Kill, Wait, JoinAndReturn, childVars, TypeOK,
         ChildHoldsPipes, PipeOpen
<1>3. ReadersInStep'
  BY <1>1, <1>2 DEF ReadersInStep
<1>4. /\ QueueFromReaders'
      /\ ResultFromReaders'
      /\ TrailInOrder'
      /\ MarkersCounted'
  BY <1>1 DEF QueueFromReaders, ResultFromReaders, TrailInOrder, InOrder,
              IsMarker, MarkersCounted
<1>5. NothingLost'
  <2>1. pc # "raised"
    BY DEF PollTimesOut, Kill, Wait, JoinAndReturn
  <2> QED BY <1>1, <2>1 DEF NothingLost, Occurs
<1>6. TypeOK' /\ CallerKnows'
  <2>1. CASE PollTimesOut
    <3>1. /\ pc = "loop" /\ tcount \in 0..Timeout /\ tcount < Timeout
          /\ tcount' = tcount + 1
          /\ haveTimeout' = (tcount' >= Timeout)
          /\ pc' = IF haveTimeout' THEN "kill" ELSE "loop"
          /\ UNCHANGED <<exit, answer>>
      BY <2>1 DEF PollTimesOut, childVars, TypeOK, CallerKnows
    <3>2. tcount' \in 0..Timeout
      BY <3>1, TimeoutAssumption
    <3>3. haveTimeout' \in BOOLEAN
      BY <3>1
    <3>4. pc' \in {"loop", "kill"}
      BY <3>1
    <3>5. pc' = "loop" => tcount' < Timeout
      <4>1. pc' = "loop" => ~haveTimeout'
        BY <3>1
      <4>2. ~haveTimeout' => ~(tcount' >= Timeout)
        BY <3>1
      <4>3. ~(tcount' >= Timeout) => tcount' < Timeout
        BY <3>2, TimeoutAssumption
      <4> QED BY <4>1, <4>2, <4>3
    <3>6. pc' = "kill" => haveTimeout'
      BY <3>1
    <3>7. TypeOK'
      BY <1>1, <1>2, <3>1, <3>2, <3>3, <3>4 DEF TypeOK
    <3> QED BY <3>1, <3>4, <3>5, <3>6, <3>7 DEF CallerKnows
  <2>2. CASE Kill
    BY <1>1, <1>2, <2>2 DEF Kill, TypeOK, CallerKnows
  <2>3. CASE Wait
    BY <1>1, <1>2, <2>3 DEF Wait, TypeOK, CallerKnows, childVars
  <2>4. CASE JoinAndReturn
    <3>1. /\ pc = "join" /\ pc' = "returned"
          /\ UNCHANGED <<exit, tcount, haveTimeout>>
          /\ \A s \in Streams : reader[s] = "ended"
          /\ answer' = [done |-> TRUE, success |-> ~haveTimeout /\ exit = "ok",
                        text |-> result]
      BY <2>4 DEF JoinAndReturn, childVars
    <3>2. /\ answer'.done
          /\ answer'.text = result
          /\ answer'.success => ~haveTimeout /\ exit = "ok"
      BY <3>1
    <3>3. (~haveTimeout /\ exit = "ok") \in BOOLEAN
      OBVIOUS
    <3>4. answer' \in [done : BOOLEAN, success : BOOLEAN, text : Seq(Lines)]
      BY <3>1, <3>3 DEF TypeOK
    <3>5. TypeOK'
      BY <1>1, <1>2, <3>1, <3>4 DEF TypeOK
    <3> QED BY <1>1, <3>1, <3>2, <3>5 DEF CallerKnows
  <2> QED BY <2>1, <2>2, <2>3, <2>4
<1> QED BY <1>2, <1>3, <1>4, <1>5, <1>6

LEMMA StutterStep == IInv /\ UNCHANGED vars => IInv'
<1> SUFFICES ASSUME IInv, UNCHANGED vars PROVE IInv'
  OBVIOUS
<1> USE DEF IInv, vars
<1>1. TypeOK'
  BY DEF TypeOK
<1>2. ChildHoldsPipes' /\ ReadersInStep' /\ MarkersCounted' /\ CallerKnows'
  BY DEF ChildHoldsPipes, ReadersInStep, PipeOpen, MarkersCounted, CallerKnows
<1>3. QueueFromReaders' /\ ResultFromReaders' /\ TrailInOrder' /\ NothingLost'
  BY DEF QueueFromReaders, IsMarker, ResultFromReaders, TrailInOrder, InOrder,
         NothingLost, Occurs
<1> QED BY <1>1, <1>2, <1>3

(* IInv is inductive. *)
LEMMA Inductive == IInv /\ [Next]_vars => IInv'
  BY ChildStep, ReaderStep, GetLineStep, GetMarkerStep, CallbackFailsStep,
     QuietCallerStep, StutterStep DEF Next, Caller, Finished

LEMMA SpecIInv == Spec => []IInv
  BY InitIInv, Inductive, PTL DEF Spec

-----------------------------------------------------------------------------
(* Every variable keeps its type; in particular the caller never counts    *)
(* more than two markers or more than Timeout empty polls.                 *)
THEOREM TypeCorrect == Spec => []TypeOK
<1>1. IInv => TypeOK
  BY DEF IInv
<1> QED BY <1>1, SpecIInv, PTL

(* Between a reader and the answer no line gets lost. *)
THEOREM NoLineLost == Spec => []NothingLost
<1>1. IInv => NothingLost
  BY DEF IInv
<1> QED BY <1>1, SpecIInv, PTL

(* What was collected when the queue is read that far has no gap. *)
LEMMA CollectedHasNoGap ==
    ASSUME IInv, pc # "raised",
           NEW s \in Streams, NEW n \in 1..MaxLines, NEW m \in 1..n,
           Occurs(Line(s, n), result)
    PROVE  Occurs(Line(s, m), result)
<1> USE DEF IInv
<1>1. PICK i \in 1..Len(result) : result[i] = Line(s, n)
  BY DEF Occurs
<1>2. n <= fetched[s] /\ fetched[s] \in 0..MaxLines
  BY <1>1 DEF ResultFromReaders, Line, TypeOK
<1>3. m \in 1..fetched[s]
  BY <1>2, MaxLinesAssumption
<1>4. CASE m = n
  BY <1>4
<1>5. CASE m # n
  <2>1. SUFFICES ASSUME Occurs(Line(s, m), queue) PROVE FALSE
    BY <1>3 DEF NothingLost
  <2>2. PICK j \in 1..Len(queue) : queue[j] = Line(s, m)
    BY <2>1 DEF Occurs
  <2>3. n < m
    BY <1>1, <2>2 DEF TrailInOrder, Line
  <2> QED BY <2>3, MaxLinesAssumption
<1> QED BY <1>4, <1>5

(* A successful answer contains all that was ever written: both markers    *)
(* were taken, so nothing of either stream is in the queue or in a pipe.   *)
THEOREM SuccessfulCallIsComplete == Spec => []SuccessIsComplete
<1>1. ASSUME IInv PROVE SuccessIsComplete
  <2> USE <1>1 DEF IInv
  <2> SUFFICES ASSUME answer.success, NEW s \in Streams, NEW n \in 1..written[s]
               PROVE  Occurs(Line(s, n), answer.text)
    BY DEF SuccessIsComplete
  <2>1. pc = "returned"
    BY DEF CallerKnows, NoAnswer
  <2>2. answer.text = result /\ ~haveTimeout
    BY <2>1 DEF CallerKnows
  <2>3. closed = Streams /\ fetched[s] = written[s]
    BY <2>1, <2>2 DEF CallerKnows, ReadersInStep
  <2>4. ~Occurs(Line(s, n), queue)
    BY <2>3 DEF QueueFromReaders, Occurs, Line
  <2> QED BY <2>1, <2>2, <2>3, <2>4 DEF NothingLost
<1> QED BY <1>1, SpecIInv, PTL

(* Any answer, also a failed or timed out one, is a gapless prefix of each *)
(* stream.                                                                 *)
THEOREM AnswerIsGapless == Spec => []AnswerIsPrefix
<1>1. ASSUME IInv PROVE AnswerIsPrefix
  <2> USE <1>1 DEF IInv
  <2>1. CASE pc # "returned"
    <3>1. answer.text = <<>>
      BY <2>1 DEF CallerKnows, NoAnswer
    <3> QED BY <3>1 DEF AnswerIsPrefix, InOrder, Occurs
  <2>2. CASE pc = "returned"
    <3>1. answer.text = result
      BY <2>2 DEF CallerKnows
    <3>2. InOrder(answer.text)
      BY <3>1 DEF TrailInOrder
    <3> QED BY <2>2, <3>1, <3>2, CollectedHasNoGap DEF AnswerIsPrefix
  <2> QED BY <2>1, <2>2
<1> QED BY <1>1, SpecIInv, PTL

(* run_script_monitored implements ScriptCall: the child's steps are the   *)
(* script's, the return is the answer, and all the rest stutters.          *)
THEOREM Implementation == Spec => ImplementsScriptCall
<1> USE DEF Promise!Streams, Promise!Line, Promise!Occurs, Streams, Line, Occurs
<1>1. Init => Promise!Init
  BY DEF Init, Promise!Init, NoAnswer, Promise!NoAnswer
<1>2. ASSUME IInv, Next PROVE [Promise!Next]_Promise!vars
  <2> USE <1>2 DEF IInv, Promise!Next, Promise!vars
  <2>1. ASSUME NEW s \in Streams, WriteLine(s) PROVE Promise!Next
    <3>1. ~answer.success
      BY <2>1 DEF WriteLine, CallerKnows, NoAnswer, ReadersInStep
    <3>2. Promise!Write(s)
      BY <2>1, <3>1 DEF WriteLine, Promise!Write, callerVars
    <3> QED BY <3>2
  <2>2. ASSUME NEW rc \in {"ok", "failed"}, ChildExits(rc) PROVE Promise!Next
    <3>1. Promise!End(rc)
      BY <2>2 DEF ChildExits, Promise!End, callerVars
    <3> QED BY <3>1
  <2>3. CASE Kill
    <3>1. ~answer.done
      BY <2>3 DEF Kill, CallerKnows, NoAnswer
    <3>2. CASE exit = "running"
      <4>1. Promise!End("killed")
        BY <2>3, <3>1, <3>2 DEF Kill, Promise!End
      <4> QED BY <4>1
    <3>3. CASE exit # "running"
      BY <2>3, <3>3 DEF Kill
    <3> QED BY <3>2, <3>3
  <2>4. CASE JoinAndReturn
    <3> DEFINE ok == ~haveTimeout /\ exit = "ok"
    <3>1. /\ pc = "join"
          /\ \A s \in Streams : reader[s] = "ended"
          /\ answer' = [done |-> TRUE, success |-> ok, text |-> result]
          /\ UNCHANGED <<exit, written>>
      BY <2>4 DEF JoinAndReturn, childVars
    <3>2. ~answer.done /\ exit # "running"
      BY <3>1 DEF CallerKnows, NoAnswer
    <3>3. Promise!PrefixOfOutput(result)
      <4>1. \A i \in 1..Len(result) : result[i].no <= written[result[i].stream]
        BY <3>1, ElementsTyped DEF ResultFromReaders, ReadersInStep
      <4> QED BY <3>1, <4>1, CollectedHasNoGap
              DEF Promise!PrefixOfOutput, TrailInOrder, InOrder
    <3>4. ok => exit = "ok" /\ Promise!WholeOutput(result)
      <4>1. SUFFICES ASSUME ok, NEW s \in Streams, NEW n \in 1..written[s]
                     PROVE  Occurs(Line(s, n), result)
        BY DEF Promise!WholeOutput
      <4>2. closed = Streams /\ fetched[s] = written[s]
        BY <3>1, <4>1 DEF CallerKnows, ReadersInStep
      <4>3. ~Occurs(Line(s, n), queue)
        BY <4>2 DEF QueueFromReaders
      <4> QED BY <3>1, <4>2, <4>3 DEF NothingLost
    <3>5. ok \in BOOLEAN
      OBVIOUS
    <3> HIDE DEF ok
    <3>6. answer'.text = result
      BY <3>1
    <3>7. Promise!Answer(ok, answer'.text)
      BY <3>1, <3>2, <3>3, <3>4, <3>6 DEF Promise!Answer
    <3> QED BY <3>5, <3>7
  <2>5. CASE \/ SpawnDescendant \/ DescendantExits
             \/ \E s \in Streams : Reader(s)
             \/ GetLine \/ CallbackFails \/ GetMarker \/ PollTimesOut \/ Wait
             \/ Finished
    BY <2>5 DEF SpawnDescendant, DescendantExits, Reader, ReadLine, ReadEnd,
                GetLine, CallbackFails, GetMarker, PollTimesOut, Wait, Finished,
                vars, childVars, callerVars
  <2> QED BY <1>2, <2>1, <2>2, <2>3, <2>4, <2>5 DEF Next, Child, Caller
<1>3. UNCHANGED vars => UNCHANGED Promise!vars
  BY DEF vars, Promise!vars
<1>4. Spec => Promise!Spec
  BY <1>1, <1>2, <1>3, SpecIInv, PTL DEF Spec, Promise!Spec
<1> QED BY <1>4 DEF ImplementsScriptCall

-----------------------------------------------------------------------------
(* What can keep the call: a reader with something to read, or the script's *)
(* descendant that holds the pipes the readers are joined on.               *)
ReaderGoesOn(s) ==
    reader[s] = "reading" /\ (fetched[s] < written[s] \/ ~PipeOpen)
HeldByDescendant == pc = "join" /\ "descendant" \in holders

(* process.wait() is called when the child has ended: it was killed, or     *)
(* both pipes have reached their end.                                       *)
WaitReturns == pc = "wait" => exit # "running"

LEMMA SpecWaitReturns == Spec => []WaitReturns
<1>1. Init => WaitReturns
  BY DEF Init, WaitReturns
<1>2. IInv /\ WaitReturns /\ [Next]_vars => WaitReturns'
  <2> SUFFICES ASSUME IInv, WaitReturns, [Next]_vars, pc' = "wait"
               PROVE  exit' # "running"
    BY DEF WaitReturns
  <2>1. CASE Child
    BY <2>1 DEF Child, WriteLine, SpawnDescendant, DescendantExits, ChildExits,
                callerVars, WaitReturns
  <2>2. CASE \E s \in Streams : Reader(s)
    BY <2>2 DEF Reader, ReadLine, ReadEnd, childVars, callerVars, WaitReturns
  <2>3. CASE GetMarker
    <3>1. pc = "loop" /\ closeCount' = 2 /\ IInv'
      BY <2>3, GetMarkerStep DEF GetMarker
    <3>2. closed' = Streams
      BY <3>1, StreamsCardinality DEF IInv, MarkersCounted, TypeOK
    <3>3. ~PipeOpen'
      BY <3>1, <3>2 DEF IInv, MarkersCounted, ReadersInStep, Streams
    <3> QED
      BY <3>1, <3>3 DEF IInv, ChildHoldsPipes, PipeOpen
  <2>4. CASE GetLine \/ CallbackFails \/ PollTimesOut \/ Kill \/ Wait \/ JoinAndReturn
    BY <2>4 DEF GetLine, CallbackFails, PollTimesOut, Kill, Wait, JoinAndReturn,
                WaitReturns
  <2>5. CASE Finished \/ UNCHANGED vars
    BY <2>5 DEF Finished, vars, WaitReturns
  <2> QED
    BY <2>1, <2>2, <2>3, <2>4, <2>5 DEF Next, Caller
<1> QED
  BY <1>1, <1>2, SpecIInv, PTL DEF Spec

(* Until the call is over the caller can go on, or a reader can, or a       *)
(* descendant of the script holds the pipes: this is all that process.wait()*)
(* and the two join() can be waiting for, after any timeout.                *)
CallerGoesOn ==
    CASE pc = "wait" -> exit # "running"
      [] pc = "join" -> \A s \in Streams : reader[s] = "ended"
      [] OTHER -> ~CallOver

THEOREM OnlyHeldBlocks ==
    Spec => [](CallOver \/ CallerGoesOn \/ (\E s \in Streams : ReaderGoesOn(s))
                 \/ HeldByDescendant)
<1>1. IInv /\ WaitReturns =>
        CallOver \/ CallerGoesOn \/ (\E s \in Streams : ReaderGoesOn(s))
          \/ HeldByDescendant
  <2> SUFFICES ASSUME IInv, WaitReturns, ~CallOver, ~HeldByDescendant,
                      \A s \in Streams : ~ReaderGoesOn(s)
               PROVE  CallerGoesOn
    OBVIOUS
  <2>1. CASE pc = "join"
    <3>1. holders = {}
      BY <2>1 DEF IInv, TypeOK, ChildHoldsPipes, CallerKnows, HeldByDescendant
    <3>2. \A s \in Streams : reader[s] = "ended"
      BY <3>1 DEF IInv, TypeOK, ReaderGoesOn, PipeOpen
    <3> QED
      BY <2>1, <3>2 DEF CallerGoesOn
  <2>2. CASE pc # "join"
    BY <2>2 DEF CallerGoesOn, WaitReturns
  <2> QED
    BY <2>1, <2>2
<1> QED
  BY <1>1, SpecIInv, SpecWaitReturns, PTL

(* The lines and end markers that are still to be read or collected, and    *)
(* how far the caller is from its end when none of them comes.              *)
StreamLeft(s) ==
    2 * (MaxLines - fetched[s]) + (IF reader[s] = "reading" THEN 2 ELSE 0)
LinesLeft == Len(queue) + StreamLeft("stdout") + StreamLeft("stderr")
PollsLeft ==
    CASE pc = "loop" -> Timeout - tcount + 4
      [] pc = "kill" -> 3
      [] pc = "wait" -> 2
      [] pc = "join" -> 1
      [] OTHER -> 0

LEMMA StreamTyped ==
    ASSUME IInv
    PROVE  \A s \in Streams : fetched[s] \in 0..MaxLines /\ StreamLeft(s) \in Nat
<1>1. \A s \in Streams : fetched[s] \in 0..MaxLines
  BY DEF IInv, TypeOK
<1> QED
  BY <1>1, MaxLinesAssumption DEF StreamLeft

LEMMA LeftTyped ==
    ASSUME IInv
    PROVE  /\ LinesLeft \in Nat /\ PollsLeft \in Nat
           /\ Len(queue) \in Nat
           /\ StreamLeft("stdout") \in Nat /\ StreamLeft("stderr") \in Nat
<1>1. Len(queue) \in Nat /\ tcount \in 0..Timeout
  BY DEF IInv, TypeOK
<1>2. StreamLeft("stdout") \in Nat /\ StreamLeft("stderr") \in Nat
  BY StreamTyped DEF Streams
<1> QED
  BY <1>1, <1>2, TimeoutAssumption DEF LinesLeft, PollsLeft

(* A reader turns two of what is left into one element of the queue. *)
LEMMA ReaderShrinks ==
    ASSUME IInv, NEW s \in Streams, Reader(s)
    PROVE  LinesLeft' < LinesLeft
<1>1. /\ fetched \in [Streams -> 0..MaxLines]
      /\ reader \in [Streams -> {"reading", "ended"}]
      /\ queue \in Seq(Elements)
  BY DEF IInv, TypeOK
<1>2. fetched[s] \in Nat
  BY <1>1
<1>3. Len(queue') = Len(queue) + 1
  <2>1. Marker(s) \in Elements
    BY MaxLinesAssumption DEF Marker, Line, Elements
  <2>2. ReadLine(s) => Line(s, fetched[s] + 1) \in Elements
    <3>1. ReadLine(s) => fetched[s] < written[s] /\ written[s] \in 0..MaxLines
      BY DEF ReadLine, IInv, TypeOK
    <3> QED
      BY <1>2, <3>1, MaxLinesAssumption DEF Line, Elements
  <2> QED
    BY <1>1, <2>1, <2>2 DEF Reader, ReadLine, ReadEnd
<1>4. StreamLeft(s)' = StreamLeft(s) - 2
  <2>1. CASE ReadLine(s)
    <3>1. fetched'[s] = fetched[s] + 1 /\ reader' = reader
      BY <1>1, <2>1 DEF ReadLine
    <3> QED
      BY <1>2, <3>1, MaxLinesAssumption DEF StreamLeft
  <2>2. CASE ReadEnd(s)
    <3>1. fetched' = fetched /\ reader[s] = "reading" /\ reader'[s] = "ended"
      BY <1>1, <2>2 DEF ReadEnd
    <3> QED
      BY <1>2, <3>1, MaxLinesAssumption DEF StreamLeft
  <2> QED
    BY <2>1, <2>2 DEF Reader
<1>5. \A r \in Streams : r # s => StreamLeft(r)' = StreamLeft(r)
  <2>1. \A r \in Streams : r # s => fetched'[r] = fetched[r] /\ reader'[r] = reader[r]
    BY <1>1 DEF Reader, ReadLine, ReadEnd
  <2> QED
    BY <2>1 DEF StreamLeft
<1>6. StreamLeft("stdout")' + StreamLeft("stderr")'
        = StreamLeft("stdout") + StreamLeft("stderr") - 2
  BY <1>4, <1>5, LeftTyped DEF Streams
<1>7. /\ StreamLeft("stdout")' \in Int /\ StreamLeft("stderr")' \in Int
  BY <1>4, <1>5, LeftTyped DEF Streams
<1> HIDE DEF StreamLeft
<1> QED
  BY <1>3, <1>6, <1>7, LeftTyped DEF LinesLeft

(* Each step of the caller or of a reader leaves less to read and collect,  *)
(* or as much of it and less to poll: they come to an end however the       *)
(* script's output is timed, and the script has no say in it.               *)
THEOREM CallShrinks ==
    Spec => /\ [](LinesLeft \in Nat /\ PollsLeft \in Nat)
            /\ [][\/ LinesLeft' < LinesLeft
                  \/ LinesLeft' = LinesLeft /\ PollsLeft' < PollsLeft
                  \/ Child /\ UNCHANGED <<LinesLeft, PollsLeft>>]_vars
<1>1. IInv => LinesLeft \in Nat /\ PollsLeft \in Nat
  BY LeftTyped
<1>2. IInv /\ [Next]_vars =>
        [\/ LinesLeft' < LinesLeft
         \/ LinesLeft' = LinesLeft /\ PollsLeft' < PollsLeft
         \/ Child /\ UNCHANGED <<LinesLeft, PollsLeft>>]_vars
  <2> SUFFICES ASSUME IInv, Next
               PROVE  \/ LinesLeft' < LinesLeft
                      \/ LinesLeft' = LinesLeft /\ PollsLeft' < PollsLeft
                      \/ Child /\ UNCHANGED <<LinesLeft, PollsLeft>>
                      \/ UNCHANGED vars
    OBVIOUS
  <2>0. LinesLeft \in Nat /\ PollsLeft \in Nat /\ Len(queue) \in Nat
    BY LeftTyped
  <2>1. CASE Child
    <3>1. UNCHANGED <<fetched, reader, queue, pc, tcount>>
      BY <2>1 DEF Child, WriteLine, SpawnDescendant, DescendantExits, ChildExits,
                  threadVars, callerVars
    <3> QED
      BY <2>1, <3>1 DEF LinesLeft, StreamLeft, PollsLeft
  <2>2. CASE \E s \in Streams : Reader(s)
    BY <2>2, ReaderShrinks
  <2>3. CASE GetLine \/ CallbackFails \/ GetMarker
    <3>1. queue \in Seq(Elements) /\ queue # <<>>
      BY <2>3 DEF GetLine, CallbackFails, GetMarker, IInv, TypeOK
    <3>2. Len(Tail(queue)) = Len(queue) - 1
      BY <3>1
    <3>3. Len(queue') = Len(queue) - 1
      BY <2>3, <3>2 DEF GetLine, CallbackFails, GetMarker
    <3>4. UNCHANGED <<fetched, reader>>
      BY <2>3 DEF GetLine, CallbackFails, GetMarker, threadVars
    <3>5. LinesLeft' = LinesLeft - 1
      <4>1. \A s \in Streams : StreamLeft(s)' = StreamLeft(s)
        BY <3>4 DEF StreamLeft
      <4> QED
        BY <3>3, <4>1, LeftTyped DEF LinesLeft, Streams
    <3> QED
      BY <2>0, <3>5
  <2>4. CASE PollTimesOut
    <3>1. /\ UNCHANGED <<fetched, reader, queue>>
          /\ pc = "loop" /\ pc' \in {"loop", "kill"} /\ tcount' = tcount + 1
      BY <2>4 DEF PollTimesOut, threadVars
    <3>2. tcount \in Nat /\ Timeout \in Nat /\ tcount < Timeout
      BY <3>1, TimeoutAssumption DEF IInv, TypeOK, CallerKnows
    <3>3. PollsLeft' < PollsLeft
      BY <3>1, <3>2 DEF PollsLeft
    <3> QED
      BY <3>1, <3>3 DEF LinesLeft, StreamLeft
  <2>5. CASE Kill \/ Wait \/ JoinAndReturn
    <3>1. UNCHANGED <<fetched, reader, queue>>
      BY <2>5 DEF Kill, Wait, JoinAndReturn, threadVars
    <3>2. PollsLeft' < PollsLeft
      BY <2>5 DEF Kill, Wait, JoinAndReturn, PollsLeft
    <3> QED
      BY <3>1, <3>2 DEF LinesLeft, StreamLeft
  <2> QED
    BY <2>1, <2>2, <2>3, <2>4, <2>5 DEF Next, Caller, Finished
<1> QED
  BY <1>1, <1>2, SpecIInv, PTL DEF Spec

=============================================================================
