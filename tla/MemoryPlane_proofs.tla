-------------------------- MODULE MemoryPlane_proofs --------------------------
(***************************************************************************)
(* The order of the durable writes and the fate of the newest one, for     *)
(* every capacity, every number of attempts and every number of writes;    *)
(* then the rows and the keys of the service that uses the queue, for any  *)
(* number of slots, reads and exits.                                       *)
(*                                                                         *)
(* Neither follows from the queue alone, because the write in flight may   *)
(* have been dropped from it: Line relates the queue to the write in       *)
(* flight and to what the database holds.                                  *)
(***************************************************************************)
EXTENDS MemoryPlane, TLAPS

\* A flush runs exactly while there are writes, on a write that was accepted.
Running ==
  /\ queue /= <<>> <=> flusher /= "idle"
  /\ flusher /= "idle" => op \in Writes

\* The queue holds consecutive arrivals up to the newest, none older than the
\* write taken last, which is not older than what the database holds; and the
\* write in flight is missing from the head only while the queue is full.
Line ==
  /\ \A i, j \in 1 .. Len(queue) : i < j => queue[i] < queue[j]
  /\ \A i \in 1 .. Len(queue) : op <= queue[i] /\ queue[i] <= accepted
  /\ op <= accepted
  /\ stored <= op
  /\ queue /= <<>> => queue[Len(queue)] = accepted
  /\ flusher = "writing" /\ queue[1] /= op => Len(queue) = MaxQueue

\* What holds across exits of the process too.
Ordered == TypeOK /\ Running /\ Line

\* When the queue runs empty, the newest write has been applied or logged: not
\* so after a crash.
Settled ==
  MaxQueue > 1 /\ accepted > 0 /\ queue = <<>> => accepted \in persisted \cup logged

IInv == Ordered /\ Settled

\* What taking the head leaves of a line.
LEMMA TailProperties ==
  ASSUME NEW S, NEW s \in Seq(S), s /= <<>>
  PROVE  /\ Tail(s) \in Seq(S)
         /\ Len(Tail(s)) = Len(s) - 1 /\ Len(s) \in Nat \ {0}
         /\ \A i \in 1 .. Len(s) - 1 : Tail(s)[i] = s[i + 1]
         /\ Tail(s) /= <<>> => Len(s) > 1
         /\ Head(s) = s[1]
<1>1. Len(s) \in Nat \ {0}
  OBVIOUS
<1>2. Tail(s) \in Seq(S) /\ Len(Tail(s)) = Len(s) - 1
  BY <1>1
<1>3. \A i \in 1 .. Len(s) - 1 : Tail(s)[i] = s[i + 1]
  BY <1>1
<1>4. Tail(s) /= <<>> => Len(s) > 1
  BY <1>1, <1>2
<1>5. Head(s) = s[1]
  BY <1>1
<1> QED
  BY <1>1, <1>2, <1>3, <1>4, <1>5

\* What joining a line does.
LEMMA AppendProperties ==
  ASSUME NEW S, NEW s \in Seq(S), NEW e \in S
  PROVE  /\ Append(s, e) \in Seq(S) /\ Append(s, e) /= <<>>
         /\ Len(Append(s, e)) = Len(s) + 1 /\ Len(s) \in Nat
         /\ \A i \in 1 .. Len(s) : Append(s, e)[i] = s[i]
         /\ Append(s, e)[Len(s) + 1] = e
  OBVIOUS

\* Writes are numbers.
LEMMA MemberIsNat ==
  ASSUME NEW s \in Seq(Writes), NEW i \in 1 .. Len(s)
  PROVE  s[i] \in Nat
<1>1. s[i] \in Writes
  OBVIOUS
<1> QED
  BY <1>1, QueueAssumption DEF Writes

\* A sorted line of writes, none older than low, that ends with the newest.
Sorted(line, low, newest) ==
  /\ line \in Seq(Writes) /\ Len(line) <= MaxQueue
  /\ \A i, j \in 1 .. Len(line) : i < j => line[i] < line[j]
  /\ \A i \in 1 .. Len(line) : low <= line[i] /\ line[i] <= newest
  /\ line /= <<>> => line[Len(line)] = newest

\* The tail of a sorted line is one.
LEMMA TailSorted ==
  ASSUME NEW line, line /= <<>>, NEW low \in Nat, NEW newest \in Nat,
         Sorted(line, low, newest)
  PROVE  Sorted(Tail(line), low, newest)
<1> DEFINE t == Tail(line)
<1>1. line \in Seq(Writes) /\ MaxQueue \in Nat
  BY QueueAssumption DEF Sorted
<1>2. /\ t \in Seq(Writes)
      /\ Len(t) = Len(line) - 1 /\ Len(line) \in Nat \ {0}
      /\ \A i \in 1 .. Len(line) - 1 : t[i] = line[i + 1]
      /\ t /= <<>> => Len(line) > 1
  BY <1>1, TailProperties
<1> HIDE DEF t
<1>3. \A i \in 1 .. Len(line) : line[i] \in Nat
  BY <1>1, MemberIsNat
<1>4. \A i, j \in 1 .. Len(t) : i < j => t[i] < t[j]
  BY <1>2, <1>3 DEF Sorted
<1>5. \A i \in 1 .. Len(t) : low <= t[i] /\ t[i] <= newest
  BY <1>2 DEF Sorted
<1>6. t /= <<>> => t[Len(t)] = newest
  BY <1>2 DEF Sorted
<1>7. Len(t) <= MaxQueue
  BY <1>1, <1>2 DEF Sorted
<1>8. Sorted(t, low, newest)
  BY <1>2, <1>4, <1>5, <1>6, <1>7 DEF Sorted
<1> QED
  BY <1>8 DEF t

\* A newer write joins a sorted line that has room.
LEMMA AppendSorted ==
  ASSUME NEW line, NEW low \in Nat, NEW newest \in Nat, newest + 1 \in Writes,
         Sorted(line, low, newest), low <= newest, Len(line) < MaxQueue
  PROVE  /\ Sorted(Append(line, newest + 1), low, newest + 1)
         /\ Append(line, newest + 1) /= <<>>
         /\ Len(Append(line, newest + 1)) = Len(line) + 1
         /\ line /= <<>> => Append(line, newest + 1)[1] = line[1]
<1> DEFINE a == Append(line, newest + 1)
<1>1. line \in Seq(Writes) /\ MaxQueue \in Nat
  BY QueueAssumption DEF Sorted
<1>2. /\ a \in Seq(Writes) /\ a /= <<>>
      /\ Len(a) = Len(line) + 1 /\ Len(line) \in Nat
      /\ \A i \in 1 .. Len(line) : a[i] = line[i]
      /\ a[Len(line) + 1] = newest + 1
  BY <1>1, AppendProperties
<1> HIDE DEF a
<1>3. \A i \in 1 .. Len(line) : line[i] \in Nat
  BY <1>1, MemberIsNat
<1>4. \A i, j \in 1 .. Len(a) : i < j => a[i] < a[j]
  <2> SUFFICES ASSUME NEW i \in 1 .. Len(a), NEW j \in 1 .. Len(a), i < j
               PROVE  a[i] < a[j]
    OBVIOUS
  <2>1. i \in 1 .. Len(line) /\ a[i] = line[i]
    BY <1>2
  <2>2. CASE j = Len(line) + 1
    BY <1>2, <1>3, <2>1, <2>2 DEF Sorted
  <2>3. CASE j /= Len(line) + 1
    BY <1>2, <2>1, <2>3 DEF Sorted
  <2> QED
    BY <2>2, <2>3
<1>5. \A i \in 1 .. Len(a) : low <= a[i] /\ a[i] <= newest + 1
  <2> SUFFICES ASSUME NEW i \in 1 .. Len(a)
               PROVE  low <= a[i] /\ a[i] <= newest + 1
    OBVIOUS
  <2>1. CASE i = Len(line) + 1
    BY <1>2, <2>1
  <2>2. CASE i /= Len(line) + 1
    <3>1. i \in 1 .. Len(line) /\ a[i] = line[i]
      BY <1>2, <2>2
    <3> QED
      BY <1>3, <3>1 DEF Sorted
  <2> QED
    BY <2>1, <2>2
<1>6. a[Len(a)] = newest + 1 /\ Len(a) <= MaxQueue
  BY <1>1, <1>2
<1>7. Sorted(a, low, newest + 1)
  BY <1>2, <1>4, <1>5, <1>6 DEF Sorted
<1>8. line /= <<>> => a[1] = line[1]
  BY <1>1, <1>2
<1> QED
  BY <1>2, <1>7, <1>8 DEF a

\* Continue takes the head of a sorted line that is not older than what was
\* taken before, or stops.
LEMMA ContinueTakes ==
  ASSUME TypeOK, NEW line, Sorted(line, op, accepted'), Continue(line),
         accepted' \in 0 .. MaxWrites, op <= accepted',
         stored' \in 0 .. MaxWrites, stored' <= op
  PROVE  /\ queue' = line
         /\ flusher' \in {"idle", "writing"} /\ op' \in 0 .. MaxWrites
         /\ Running' /\ Line'
<1>1. queue' = line /\ line \in Seq(Writes)
  BY DEF Continue, Sorted
<1>2. CASE line = <<>>
  <2>1. flusher' = "idle" /\ op' = op
    BY <1>2 DEF Continue
  <2>2. Running'
    BY <1>1, <1>2, <2>1 DEF Running
  <2>3. Line'
    BY <1>1, <1>2, <2>1 DEF Line
  <2> QED
    BY <1>1, <2>1, <2>2, <2>3 DEF TypeOK
<1>3. CASE line /= <<>>
  <2>1. Len(line) \in Nat \ {0} /\ line[1] \in Writes /\ Head(line) = line[1]
    BY <1>1, <1>3
  <2>2. flusher' = "writing" /\ op' = line[1]
    BY <1>3, <2>1 DEF Continue
  <2>3. Running'
    BY <1>1, <1>3, <2>1, <2>2 DEF Running
  <2>4. \A i \in 1 .. Len(line) : line[i] \in Nat
    BY <1>1, MemberIsNat
  <2>5. \A i \in 1 .. Len(line) : line[1] <= line[i]
    <3> SUFFICES ASSUME NEW i \in 1 .. Len(line), i /= 1
                 PROVE  line[1] <= line[i]
      BY <2>1, <2>4
    <3>1. 1 \in 1 .. Len(line) /\ 1 < i
      BY <2>1
    <3>2. line[1] < line[i]
      BY <3>1 DEF Sorted
    <3> QED
      BY <2>4, <3>1, <3>2
  <2>6. op <= line[1] /\ line[1] <= accepted'
    BY <2>1 DEF Sorted
  <2>7. stored' <= line[1]
    BY <2>1, <2>6 DEF TypeOK, Writes
  <2>8. \A i, j \in 1 .. Len(line) : i < j => line[i] < line[j]
    BY DEF Sorted
  <2>9. \A i \in 1 .. Len(line) : line[i] <= accepted'
    BY DEF Sorted
  <2>10. line[Len(line)] = accepted'
    BY <1>3 DEF Sorted
  <2>11. Line'
    BY <1>1, <2>2, <2>5, <2>6, <2>7, <2>8, <2>9, <2>10 DEF Line
  <2> QED
    BY <1>1, <2>1, <2>2, <2>3, <2>11 DEF Writes
<1> QED
  BY <1>2, <1>3

\* The queue of a state is a sorted line.
LEMMA QueueSorted ==
  ASSUME Ordered
  PROVE  /\ Sorted(queue, op, accepted)
         /\ op \in Nat /\ accepted \in Nat /\ op <= accepted /\ MaxQueue \in Nat \ {0}
<1>1. op \in Nat /\ accepted \in Nat /\ MaxQueue \in Nat \ {0}
  BY QueueAssumption DEF Ordered, TypeOK
<1> QED
  BY <1>1 DEF Ordered, TypeOK, Line, Sorted

\* A head other than the write in flight means the queue is full, so that a
\* queue of one write, if there is room for two, holds the write in flight.
LEMMA LastOneInFlight ==
  ASSUME Ordered, flusher = "writing", MaxQueue > 1, Tail(queue) = <<>>
  PROVE  op = accepted
<1>1. queue \in Seq(Writes) /\ queue /= <<>>
  BY DEF Ordered, TypeOK, Running
<1>2. Len(queue) = 1
  <2> DEFINE t == Tail(queue)
  <2>1. t = <<>> /\ Len(t) = Len(queue) - 1 /\ Len(queue) \in Nat \ {0}
    BY <1>1, TailProperties
  <2> HIDE DEF t
  <2>2. Len(t) = 0
    BY <2>1
  <2> QED
    BY <2>1, <2>2
<1>3. queue[1] = accepted
  BY <1>1, <1>2 DEF Ordered, Line
<1>4. MaxQueue /= 1
  OBVIOUS
<1> QED
  BY <1>2, <1>3, <1>4 DEF Ordered, Line

LEMMA InitOrdered == Init => Ordered
<1> SUFFICES ASSUME Init PROVE Ordered
  OBVIOUS
<1>1. queue = <<>> /\ Len(queue) = 0 /\ queue \in Seq(Writes)
  BY DEF Init
<1>2. TypeOK
  <2>1. Len(queue) <= MaxQueue /\ 0 \in 0 .. MaxWrites
    BY <1>1, QueueAssumption
  <2>2. attempts \in [Writes -> Nat]
    BY DEF Init
  <2> QED
    BY <1>1, <2>1, <2>2 DEF Init, TypeOK
<1>3. Running
  BY DEF Init, Running
<1>4. Line
  BY <1>1 DEF Init, Line
<1> QED
  BY <1>2, <1>3, <1>4 DEF Ordered

\* The parts of TypeOK that Continue does not determine.
Rest ==
  /\ accepted \in 0 .. MaxWrites
  /\ attempts \in [Writes -> Nat]
  /\ stored \in 0 .. MaxWrites
  /\ persisted \subseteq Writes
  /\ logged \subseteq Writes
  /\ drops \in Nat
  /\ disposed \in BOOLEAN

\* A step that ends in Continue keeps the invariant if the line it continues
\* with is sorted.
LEMMA ContinueKeeps ==
  ASSUME Ordered, NEW line, Continue(line), Sorted(line, op, accepted'), Rest',
         op <= accepted', stored' <= op
  PROVE  Ordered'
<1>1. /\ queue' = line
      /\ flusher' \in {"idle", "writing"} /\ op' \in 0 .. MaxWrites
      /\ Running' /\ Line'
  BY ContinueTakes DEF Ordered, Rest
<1>2. TypeOK'
  BY <1>1 DEF TypeOK, Rest, Sorted
<1> QED
  BY <1>1, <1>2 DEF Ordered

LEMMA EnqueueKeeps == Ordered /\ Enqueue => Ordered'
<1> SUFFICES ASSUME Ordered, Enqueue PROVE Ordered'
  OBVIOUS
<1> DEFINE room == IF Len(queue) >= MaxQueue THEN Tail(queue) ELSE queue
           line == Append(room, accepted + 1)
<1>1. /\ Sorted(queue, op, accepted)
      /\ op \in Nat /\ accepted \in Nat /\ op <= accepted /\ MaxQueue \in Nat \ {0}
  BY QueueSorted
<1>2. accepted' = accepted + 1 /\ accepted + 1 \in Writes /\ accepted' \in 0 .. MaxWrites
  BY <1>1, QueueAssumption DEF Enqueue, Writes
<1>3. queue \in Seq(Writes) /\ Len(queue) <= MaxQueue /\ Len(queue) \in Nat
  BY DEF Ordered, TypeOK
<1>4. Sorted(room, op, accepted) /\ Len(room) < MaxQueue
  <2>1. CASE Len(queue) >= MaxQueue
    <3>1. queue /= <<>>
      BY <1>1, <2>1
    <3>2. Sorted(Tail(queue), op, accepted)
      BY <1>1, <3>1, TailSorted
    <3>3. Len(Tail(queue)) = Len(queue) - 1
      BY <1>3, <3>1, TailProperties
    <3> QED
      BY <1>1, <1>3, <2>1, <3>2, <3>3
  <2>2. CASE ~ (Len(queue) >= MaxQueue)
    BY <1>1, <1>3, <2>2
  <2> QED
    BY <2>1, <2>2
<1> HIDE DEF room
<1>5. /\ Sorted(line, op, accepted') /\ line /= <<>>
      /\ Len(line) = Len(room) + 1
      /\ room /= <<>> => line[1] = room[1]
  BY <1>1, <1>2, <1>4, AppendSorted
<1>6. /\ IF flusher = "idle" THEN Continue(line)
                             ELSE queue' = line /\ UNCHANGED <<flusher, op>>
      /\ UNCHANGED <<attempts, stored, persisted, disposed>>
  BY DEF Enqueue, room
<1>7. logged' \subseteq Writes /\ drops' \in Nat
  <2>1. CASE Len(queue) >= MaxQueue
    <3>1. Head(queue) \in Writes
      BY <1>1, <1>3, <2>1
    <3> QED
      BY <2>1, <3>1 DEF Enqueue, Ordered, TypeOK
  <2>2. CASE ~ (Len(queue) >= MaxQueue)
    BY <2>2 DEF Enqueue, Ordered, TypeOK
  <2> QED
    BY <2>1, <2>2
<1>8. Rest'
  BY <1>2, <1>6, <1>7 DEF Rest, Ordered, TypeOK
<1>9. stored' <= op /\ op <= accepted'
  BY <1>1, <1>2, <1>6 DEF Ordered, Line
<1> HIDE DEF line
<1>10. queue' = line
  BY <1>6 DEF Continue
<1>12. CASE flusher = "idle"
  BY <1>5, <1>6, <1>8, <1>9, <1>12, ContinueKeeps
<1>13. CASE flusher /= "idle"
  <2>1. flusher' = flusher /\ op' = op
    BY <1>6, <1>13
  <2>2. TypeOK'
    BY <1>5, <1>8, <1>10, <2>1 DEF TypeOK, Rest, Ordered, Sorted
  <2>3. Running'
    BY <1>5, <1>10, <1>13, <2>1 DEF Running, Ordered
  <2>4. flusher' = "writing" /\ queue'[1] /= op' => Len(queue') = MaxQueue
    <3> SUFFICES ASSUME flusher = "writing", line[1] /= op
                 PROVE  Len(line) = MaxQueue
      BY <1>10, <2>1
    <3>1. CASE Len(queue) >= MaxQueue
      <4>1. queue /= <<>> /\ room = Tail(queue)
        BY <1>1, <3>1 DEF room
      <4>2. Len(room) = Len(queue) - 1
        BY <1>3, <4>1, TailProperties
      <4> QED
        BY <1>1, <1>3, <1>5, <3>1, <4>2
    <3>2. CASE ~ (Len(queue) >= MaxQueue)
      <4>1. room = queue /\ queue /= <<>>
        BY <3>2 DEF room, Ordered, Running
      <4>2. line[1] = queue[1]
        BY <1>5, <4>1
      <4>3. Len(queue) = MaxQueue
        BY <4>2 DEF Ordered, Line
      <4> QED
        BY <1>1, <3>2, <4>3
    <3> QED
      BY <3>1, <3>2
  <2>5. Line'
    BY <1>2, <1>5, <1>9, <1>10, <2>1, <2>4 DEF Line, Sorted
  <2> QED
    BY <2>2, <2>3, <2>5 DEF Ordered
<1> QED
  BY <1>12, <1>13

\* The write the flusher handles has been accepted, and its count goes up.
LEMMA AttemptsTyped ==
  ASSUME Ordered, op \in Writes, attempts' = [attempts EXCEPT ![op] = @ + 1]
  PROVE  attempts' \in [Writes -> Nat]
<1>1. attempts \in [Writes -> Nat]
  BY DEF Ordered, TypeOK
<1>2. attempts[op] + 1 \in Nat
  BY <1>1
<1> QED
  BY <1>1, <1>2

\* A flush that shifts the queue after the database, or the log, took the write.
LEMMA ShiftKeeps ==
  ASSUME Ordered, flusher = "writing", Continue(Tail(queue)),
         stored' \in {stored, op},
         persisted' \subseteq Writes, logged' \subseteq Writes,
         attempts' \in [Writes -> Nat], UNCHANGED <<accepted, drops, disposed>>
  PROVE  Ordered'
<1>1. /\ Sorted(queue, op, accepted)
      /\ op \in Nat /\ accepted \in Nat /\ op <= accepted /\ MaxQueue \in Nat \ {0}
  BY QueueSorted
<1>2. queue /= <<>>
  BY DEF Ordered, Running
<1>3. Sorted(Tail(queue), op, accepted')
  BY <1>1, <1>2, TailSorted
<1>4. stored' <= op /\ stored' \in 0 .. MaxWrites
  BY <1>1 DEF Ordered, Line, TypeOK
<1>5. Rest'
  BY <1>4 DEF Rest, Ordered, TypeOK
<1>7. op <= accepted'
  BY <1>1
<1> HIDE DEF Continue
<1> QED
  BY <1>3, <1>4, <1>5, <1>7, ContinueKeeps

LEMMA WriteSucceedsKeeps == Ordered /\ WriteSucceeds => Ordered'
<1> SUFFICES ASSUME Ordered, WriteSucceeds PROVE Ordered'
  OBVIOUS
<1>1. op \in Writes
  BY DEF Ordered, Running, WriteSucceeds
<1>2. persisted' \subseteq Writes /\ logged' \subseteq Writes /\ attempts' \in [Writes -> Nat]
  BY <1>1 DEF Ordered, TypeOK, WriteSucceeds
<1>3. /\ flusher = "writing" /\ Continue(Tail(queue)) /\ stored' \in {stored, op}
      /\ UNCHANGED <<accepted, drops, disposed>>
  BY DEF WriteSucceeds
<1> QED
  BY <1>2, <1>3, ShiftKeeps

LEMMA WriteFailsKeeps == Ordered /\ WriteFails => Ordered'
<1> SUFFICES ASSUME Ordered, WriteFails PROVE Ordered'
  OBVIOUS
<1>1. op \in Writes
  BY DEF Ordered, Running, WriteFails
<1>2. attempts' \in [Writes -> Nat]
  BY <1>1, AttemptsTyped DEF WriteFails
<1>3. persisted' \subseteq Writes /\ persisted \subseteq persisted' /\ stored' \in {stored, op}
  BY <1>1 DEF Ordered, TypeOK, WriteFails
<1>4. CASE attempts[op] + 1 >= MaxAttempts
  <2>1. Continue(Tail(queue)) /\ logged' = logged \cup {op}
    BY <1>4 DEF WriteFails
  <2>2. logged' \subseteq Writes
    BY <1>1, <2>1 DEF Ordered, TypeOK
  <2>3. flusher = "writing" /\ UNCHANGED <<accepted, drops, disposed>>
    BY DEF WriteFails
  <2> QED
    BY <1>2, <1>3, <2>1, <2>2, <2>3, ShiftKeeps
<1>5. CASE ~ (attempts[op] + 1 >= MaxAttempts)
  <2>1. /\ flusher = "writing" /\ flusher' = "backoff"
        /\ UNCHANGED <<queue, op, logged, accepted, drops, disposed>>
    BY <1>5 DEF WriteFails
  <2>2. stored' <= op' /\ stored' \in 0 .. MaxWrites
    BY <1>3, <2>1 DEF Ordered, TypeOK, Line
  <2>3. TypeOK'
    BY <1>2, <1>3, <2>1, <2>2 DEF Ordered, TypeOK
  <2>4. Running'
    BY <2>1 DEF Ordered, Running
  <2>5. Line'
    BY <2>1, <2>2 DEF Ordered, Line
  <2> QED
    BY <2>3, <2>4, <2>5 DEF Ordered
<1> QED
  BY <1>4, <1>5

LEMMA BackoffEndsKeeps == Ordered /\ BackoffEnds => Ordered'
<1> SUFFICES ASSUME Ordered, BackoffEnds PROVE Ordered'
  OBVIOUS
<1>1. Continue(queue) /\ UNCHANGED <<accepted, attempts, stored, persisted, logged, drops, disposed>>
  BY DEF BackoffEnds
<1>2. Rest'
  BY <1>1 DEF Ordered, TypeOK, Rest
<1>3. Sorted(queue, op, accepted') /\ op <= accepted'
  BY <1>1, QueueSorted
<1>4. stored' <= op
  BY <1>1 DEF Ordered, Line
<1> QED
  BY <1>1, <1>2, <1>3, <1>4, ContinueKeeps

LEMMA QueueKeeps == ASSUME Ordered, [Next]_vars PROVE Ordered'
<1>1. CASE Dispose
  BY <1>1 DEF Dispose, Ordered, TypeOK, Running, Line
<1>2. CASE UNCHANGED vars
  BY <1>2 DEF vars, Ordered, TypeOK, Running, Line
<1> QED
  BY <1>1, <1>2, EnqueueKeeps, WriteSucceedsKeeps, WriteFailsKeeps, BackoffEndsKeeps
     DEF Next, Flush

\* The queue runs empty behind a write that was applied or logged.
LEMMA SettledKeeps == ASSUME IInv, [Next]_vars PROVE Settled'
<1>1. CASE Enqueue
  <2> PICK line \in {Append(IF Len(queue) >= MaxQueue THEN Tail(queue) ELSE queue, accepted + 1)} :
        queue' = line
    BY <1>1 DEF Enqueue, Continue
  <2> DEFINE room == IF Len(queue) >= MaxQueue THEN Tail(queue) ELSE queue
  <2>1. room \in Seq(Writes) /\ accepted + 1 \in Writes
    <3>1. queue \in Seq(Writes) /\ (Len(queue) >= MaxQueue => queue /= <<>>)
      BY QueueAssumption DEF IInv, Ordered, TypeOK
    <3>2. queue /= <<>> => Tail(queue) \in Seq(Writes)
      BY <3>1, TailProperties
    <3>3. room \in Seq(Writes)
      BY <3>1, <3>2
    <3>4. accepted + 1 \in Writes
      BY <1>1, QueueAssumption DEF IInv, Ordered, TypeOK, Enqueue, Writes
    <3> QED
      BY <3>3, <3>4
  <2> HIDE DEF room
  <2>2. queue' = Append(room, accepted + 1)
    BY DEF room
  <2>3. queue' /= <<>>
    BY <2>1, <2>2, AppendProperties
  <2> QED
    BY <2>3 DEF Settled
<1>2. ASSUME flusher = "writing", queue' = Tail(queue), accepted' = accepted,
             op \in persisted' \cup logged'
      PROVE  Settled'
  <2>1. CASE Tail(queue) = <<>> /\ MaxQueue > 1
    BY <1>2, <2>1, LastOneInFlight DEF Settled, IInv
  <2>2. CASE ~ (Tail(queue) = <<>> /\ MaxQueue > 1)
    BY <1>2, <2>2 DEF Settled
  <2> QED
    BY <2>1, <2>2
<1>3. CASE WriteSucceeds
  BY <1>2, <1>3 DEF WriteSucceeds, Continue
<1>4. CASE WriteFails
  <2>1. CASE attempts[op] + 1 >= MaxAttempts
    BY <1>2, <1>4, <2>1 DEF WriteFails, Continue
  <2>2. CASE ~ (attempts[op] + 1 >= MaxAttempts)
    BY <1>4, <2>2 DEF WriteFails, Settled, IInv, Ordered, Running
  <2> QED
    BY <2>1, <2>2
<1>5. CASE BackoffEnds
  BY <1>5 DEF BackoffEnds, Continue, Settled, IInv
<1>6. CASE Dispose
  BY <1>6 DEF Dispose, Settled, IInv
<1>7. CASE UNCHANGED vars
  BY <1>7 DEF vars, Settled, IInv
<1> QED
  BY <1>1, <1>3, <1>4, <1>5, <1>6, <1>7 DEF Next, Flush

\* IInv is an inductive invariant.
THEOREM Inductive == Spec => []IInv
<1>1. Init => IInv
  BY InitOrdered DEF IInv, Init, Settled
<1>2. IInv /\ [Next]_vars => IInv'
  BY QueueKeeps, SettledKeeps DEF IInv
<1> QED
  BY <1>1, <1>2, PTL DEF Spec

\* FlusherActive of enqueue/flush: no write lies in the queue with nobody to
\* flush it.
THEOREM FlusherNeverMissed == Spec => []FlusherActive
<1>1. IInv => FlusherActive
  BY DEF IInv, Ordered, Running, FlusherActive
<1> QED
  BY <1>1, Inductive, PTL

\* NewestKept of enqueue/flush: with room for two, the newest write is queued, in
\* flight, applied or logged.
THEOREM NewestNeverLost == Spec => []NewestKept
<1>1. IInv => NewestKept
  <2> SUFFICES ASSUME IInv, MaxQueue > 1, accepted > 0, queue /= <<>>
               PROVE  accepted \in Queued
    BY DEF IInv, Settled, NewestKept
  <2>1. queue \in Seq(Writes) /\ Len(queue) \in 1 .. Len(queue)
    BY DEF IInv, Ordered, TypeOK
  <2>2. queue[Len(queue)] = accepted
    BY DEF IInv, Ordered, Line
  <2> QED
    BY <2>1, <2>2 DEF Queued
<1> QED
  BY <1>1, Inductive, PTL

\* NeverBackwards of flush: the database row is only ever replaced by the same or
\* a newer write.
THEOREM StoreMovesForward == Spec => NeverBackwards
<1>1. IInv /\ [Next]_vars => [stored' >= stored]_vars
  <2> SUFFICES ASSUME IInv, Next PROVE stored' >= stored
    BY DEF IInv
  <2>1. stored \in Nat /\ stored <= op /\ op \in Nat
    BY QueueAssumption DEF IInv, Ordered, TypeOK, Line
  <2>2. CASE Enqueue
    BY <2>1, <2>2 DEF Enqueue
  <2>3. CASE WriteSucceeds
    BY <2>1, <2>3 DEF WriteSucceeds
  <2>4. CASE WriteFails
    BY <2>1, <2>4 DEF WriteFails
  <2>5. CASE BackoffEnds
    BY <2>1, <2>5 DEF BackoffEnds
  <2>6. CASE Dispose
    BY <2>1, <2>6 DEF Dispose
  <2> QED
    BY <2>2, <2>3, <2>4, <2>5, <2>6 DEF Next, Flush
<1> QED
  BY <1>1, Inductive, PTL DEF Spec, NeverBackwards

(***************************************************************************)
(* The memory plane.                                                       *)
(***************************************************************************)

\* A row holds what the database has applied, no more.
RowsStored == \A k \in Keys : row[k] <= stored

PlaneInv == Ordered /\ MemoryTypeOK /\ RowsStored

\* A step of the service that is not an exit is one of the queue, or leaves it alone.
LEMMA QueueMoves ==
  ASSUME [MemoryNext]_<<vars, planeVars>>
  PROVE  Exit \/ [Next]_vars
  BY DEF MemoryNext, Requests, WriteCache, WriteCacheFails, DeleteCache, WriteAccepted, FlushStep,
         ReadStep, QueryRow, Fill, ReadGivesUp, ReadMiss, DeleteRow, RowExpires, CacheExpires,
         Shutdown, Next, Flush

\* An exit forgets the queue, and the write in flight may still be applied.
LEMMA ExitOrders == ASSUME Ordered, Exit PROVE Ordered'
<1>1. /\ queue' = <<>> /\ flusher' = "idle" /\ disposed' = FALSE
      /\ UNCHANGED <<accepted, op, attempts, logged, drops>>
      /\ \/ UNCHANGED <<stored, persisted>>
         \/ flusher = "writing" /\ stored' = op /\ persisted' = persisted \cup {op}
  BY DEF Exit
<1>2. flusher = "writing" => op \in Writes
  BY DEF Ordered, Running
<1>3. Len(<<>>) = 0 /\ <<>> \in Seq(Writes)
  OBVIOUS
<1>4. TypeOK'
  <2>1. stored' \in 0 .. MaxWrites /\ persisted' \subseteq Writes
    BY <1>1, <1>2 DEF Ordered, TypeOK
  <2>2. queue' \in Seq(Writes) /\ Len(queue') <= MaxQueue
    BY <1>1, <1>3, QueueAssumption
  <2> QED
    BY <1>1, <2>1, <2>2 DEF Ordered, TypeOK
<1>5. Running' /\ Line'
  BY <1>1, <1>3, QueueAssumption DEF Ordered, TypeOK, Running, Line
<1> QED
  BY <1>4, <1>5 DEF Ordered

\* What a step may do to the rows: nothing, or write the write in flight.
Upserts == flusher = "writing" /\ stored' = op /\ Upsert

LEMMA RowMoves ==
  ASSUME [MemoryNext]_<<vars, planeVars>>
  PROVE  Upserts \/ UNCHANGED row
<1>1. CASE FlushStep
  BY <1>1 DEF FlushStep, WriteSucceeds, WriteFails, BackoffEnds, Upserts
<1>2. CASE Exit
  BY <1>2 DEF Exit, Upserts
<1> QED
  BY <1>1, <1>2
  DEF MemoryNext, Requests, WriteCache, WriteCacheFails, DeleteCache, WriteAccepted,
      ReadStep, QueryRow, Fill, ReadGivesUp, ReadMiss, DeleteRow, RowExpires, CacheExpires,
      Shutdown, planeVars

\* The database moves forward, through exits too.
LEMMA StoredMoves ==
  ASSUME Ordered, [MemoryNext]_<<vars, planeVars>>
  PROVE  stored' \in {stored, op} /\ stored' >= stored /\ stored \in Nat /\ op \in Nat /\ stored <= op
<1>1. stored \in Nat /\ stored <= op /\ op \in Nat
  BY QueueAssumption DEF Ordered, TypeOK, Line
<1>2. stored' \in {stored, op}
  <2>1. CASE Exit
    BY <2>1 DEF Exit
  <2>2. CASE [Next]_vars
    BY <2>2 DEF Next, vars, Flush, Enqueue, WriteSucceeds, WriteFails, BackoffEnds, Dispose
  <2> QED
    BY <2>1, <2>2, QueueMoves
<1> QED
  BY <1>1, <1>2

LEMMA RowStep ==
  ASSUME Ordered, RowsStored, row \in [Keys -> 0 .. MaxWrites], [MemoryNext]_<<vars, planeVars>>
  PROVE  /\ \A k \in Keys : row'[k] >= row[k]
         /\ RowsStored' /\ row' \in [Keys -> 0 .. MaxWrites]
<1>1. stored' \in {stored, op} /\ stored' >= stored /\ stored \in Nat /\ op \in Nat /\ stored <= op
  BY StoredMoves
<1>2. op \in 0 .. MaxWrites /\ \A k \in Keys : row[k] \in Nat /\ row[k] <= stored
  BY QueueAssumption DEF Ordered, TypeOK, RowsStored
<1>3. CASE UNCHANGED row
  BY <1>1, <1>2, <1>3 DEF RowsStored
<1>4. CASE Upserts
  <2>1. row' = [row EXCEPT ![slotOf[op].key] = op] /\ stored' = op
    BY <1>4 DEF Upserts, Upsert
  <2>2. \A k \in Keys : row'[k] \in {row[k], op}
    BY <2>1
  <2>3. \A k \in Keys : row'[k] <= op /\ row'[k] >= row[k]
    BY <1>1, <1>2, <2>2
  <2>4. row' \in [Keys -> 0 .. MaxWrites]
    BY <1>2, <2>1
  <2> QED
    BY <2>1, <2>3, <2>4 DEF RowsStored
<1> QED
  BY <1>3, <1>4, RowMoves

PlaneTyped == Ordered /\ MemoryTypeOK

LEMMA IdleReads ==
  /\ Idle \in Reads /\ Idle.at = "idle"
  /\ \A s \in Slots : [at |-> "querying", slot |-> s, value |-> 0] \in Reads
  /\ \A read \in Reads : read.slot \in Slots /\ read.value \in 0 .. MaxWrites
  /\ \A read \in Reads, value \in 0 .. MaxWrites :
       LET fills == [read EXCEPT !.at = "filling", !.value = value]
       IN fills \in Reads /\ fills.at = "filling" /\ fills.slot = read.slot
<1>1. 0 \in 0 .. MaxWrites
  BY QueueAssumption
<1>2. (CHOOSE s \in Slots : TRUE) \in Slots
  BY PlaneAssumption
<1>3. Idle \in Reads /\ Idle.at = "idle"
  BY <1>1, <1>2 DEF Idle, Reads
<1>4. \A s \in Slots : [at |-> "querying", slot |-> s, value |-> 0] \in Reads
  BY <1>1 DEF Reads
<1>5. \A read \in Reads : read.slot \in Slots /\ read.value \in 0 .. MaxWrites
  BY DEF Reads
<1>6. ASSUME NEW read \in Reads, NEW value \in 0 .. MaxWrites
      PROVE  LET fills == [read EXCEPT !.at = "filling", !.value = value]
             IN fills \in Reads /\ fills.at = "filling" /\ fills.slot = read.slot
  BY DEF Reads
<1> QED
  BY <1>3, <1>4, <1>5, <1>6

\* The steps of a Read, of a Write and of a Delete keep the types of the service.
LEMMA RequestsTyped ==
  ASSUME PlaneTyped,
         \/ Requests \/ WriteAccepted
         \/ \E r \in Readers : ReadStep(r) \/ \E s \in Slots : ReadMiss(r, s)
  PROVE  MemoryTypeOK'
<1>0. MemoryTypeOK /\ accepted \in 0 .. MaxWrites /\ MaxWrites \in Nat
  BY QueueAssumption DEF PlaneTyped, Ordered, TypeOK
<1>1. ASSUME NEW s \in Slots, WriteCache(s) PROVE MemoryTypeOK'
  <2>1. accepted + Len(acked) + 1 \in 0 .. Failed
    BY <1>0, <1>1 DEF WriteCache, MemoryTypeOK, Failed
  <2>2. acked' \in Seq(Slots)
    BY <1>0, <1>1 DEF WriteCache, MemoryTypeOK
  <2> QED
    BY <1>0, <1>1, <2>1, <2>2 DEF WriteCache, MemoryTypeOK
<1>2. ASSUME NEW s \in Slots, WriteCacheFails(s) \/ DeleteCache(s) PROVE MemoryTypeOK'
  <2>1. 0 \in 0 .. Failed /\ Failed \in 0 .. Failed /\ s.key \in Keys
    BY <1>0 DEF Failed, Keys
  <2> QED
    <3>0. /\ cache' \in {[cache EXCEPT ![s] = 0], [cache EXCEPT ![s] = Failed]}
          /\ deleting' \in {deleting, deleting \cup {s.key}}
      BY <1>2 DEF WriteCacheFails, DeleteCache
    <3>1. cache' \in [Slots -> 0 .. Failed]
      BY <1>0, <2>1, <3>0 DEF MemoryTypeOK
    <3>2. deleting' \subseteq Keys
      BY <1>0, <2>1, <3>0 DEF MemoryTypeOK
    <3> QED
      BY <1>0, <1>2, <3>1, <3>2 DEF WriteCacheFails, DeleteCache, MemoryTypeOK
<1>3. CASE WriteAccepted
  <2>1. Head(acked) \in Slots /\ acked' \in Seq(Slots)
    BY <1>0, <1>3 DEF WriteAccepted, MemoryTypeOK
  <2> QED
    BY <1>0, <1>3, <2>1 DEF WriteAccepted, MemoryTypeOK
<1>4. ASSUME NEW r \in Readers, NEW s \in Slots, ReadMiss(r, s) PROVE MemoryTypeOK'
  <2>1. reads' \in [Readers -> Reads]
    BY <1>0, <1>4, IdleReads DEF ReadMiss, MemoryTypeOK
  <2> QED
    BY <1>0, <1>4, <2>1 DEF ReadMiss, MemoryTypeOK
<1>5. ASSUME NEW r \in Readers, QueryRow(r) PROVE MemoryTypeOK'
  <2> DEFINE read == reads[r]
             key  == read.slot.key
  <2>1. read \in Reads /\ key \in Keys
    BY <1>0, IdleReads DEF MemoryTypeOK, Keys
  <2>2. row[key] \in 0 .. MaxWrites
    BY <1>0, <2>1 DEF MemoryTypeOK
  <2>3. reads' \in {[reads EXCEPT ![r] = [read EXCEPT !.at = "filling", !.value = row[key]]],
                    [reads EXCEPT ![r] = Idle]}
    BY <1>5 DEF QueryRow
  <2> HIDE DEF key, read
  <2>4. reads' \in [Readers -> Reads]
    <3> PICK next \in Reads : reads' = [reads EXCEPT ![r] = next]
      BY <2>1, <2>2, <2>3, IdleReads
    <3> QED
      BY <1>0 DEF MemoryTypeOK
  <2> QED
    BY <1>0, <1>5, <2>4 DEF QueryRow, MemoryTypeOK
<1>6. ASSUME NEW r \in Readers, Fill(r) \/ ReadGivesUp(r) PROVE MemoryTypeOK'
  <2>1. reads[r].value \in 0 .. Failed
    <3>1. reads[r] \in Reads
      BY <1>0 DEF MemoryTypeOK
    <3>2. reads[r].value \in 0 .. MaxWrites
      BY <3>1, IdleReads
    <3> QED
      BY <1>0, <3>2 DEF Failed
  <2>2. cache' \in [Slots -> 0 .. Failed]
    BY <1>0, <1>6, <2>1 DEF Fill, ReadGivesUp, MemoryTypeOK
  <2>3. reads' \in [Readers -> Reads]
    BY <1>0, <1>6, IdleReads DEF Fill, ReadGivesUp, MemoryTypeOK
  <2> QED
    BY <1>0, <1>6, <2>2, <2>3 DEF Fill, ReadGivesUp, MemoryTypeOK
<1> QED
  BY <1>1, <1>2, <1>3, <1>4, <1>5, <1>6 DEF Requests, ReadStep

\* So do the steps of the flusher, of time and of the process.
LEMMA BackgroundTyped ==
  ASSUME PlaneTyped, row' \in [Keys -> 0 .. MaxWrites],
         \/ FlushStep \/ Shutdown \/ Exit
         \/ \E k \in Keys : DeleteRow(k) \/ RowExpires(k)
         \/ \E s \in Slots : CacheExpires(s)
  PROVE  MemoryTypeOK'
<1>0. MemoryTypeOK /\ accepted \in 0 .. MaxWrites /\ MaxWrites \in Nat
  BY QueueAssumption DEF PlaneTyped, Ordered, TypeOK
<1>1. ASSUME Upsert PROVE live' \in [Keys -> BOOLEAN]
  BY <1>0, <1>1 DEF Upsert, MemoryTypeOK
<1>2. CASE FlushStep
  <2>1. live' \in [Keys -> BOOLEAN]
    BY <1>0, <1>1, <1>2 DEF FlushStep, MemoryTypeOK
  <2> QED
    BY <1>0, <1>2, <2>1 DEF FlushStep, MemoryTypeOK
<1>3. CASE Shutdown
  BY <1>0, <1>3 DEF Shutdown, planeVars, MemoryTypeOK
<1>4. CASE Exit
  <2>1. live' \in [Keys -> BOOLEAN]
    BY <1>0, <1>1, <1>4 DEF Exit, MemoryTypeOK
  <2>2. cache' \in [Slots -> 0 .. Failed]
    BY <1>0, <1>4 DEF Exit, MemoryTypeOK, Failed
  <2>3. acked' \in Seq(Slots) /\ reads' \in [Readers -> Reads]
    <3>0. <<>> \in Seq(Slots)
      OBVIOUS
    <3>1. Idle \in Reads
      BY IdleReads
    <3>2. acked' = <<>> /\ reads' = [r \in Readers |-> Idle]
      BY <1>4 DEF Exit
    <3> QED
      BY <3>0, <3>1, <3>2
  <2>4. exits' \in 0 .. MaxExits
    BY <1>0, <1>4, PlaneAssumption DEF Exit, MemoryTypeOK
  <2> QED
    BY <1>0, <1>4, <2>1, <2>2, <2>3, <2>4 DEF Exit, MemoryTypeOK
<1>5. ASSUME NEW k \in Keys, DeleteRow(k) \/ RowExpires(k) PROVE MemoryTypeOK'
  BY <1>0, <1>5 DEF DeleteRow, RowExpires, MemoryTypeOK
<1>6. ASSUME NEW s \in Slots, CacheExpires(s) PROVE MemoryTypeOK'
  <2>1. 0 \in 0 .. Failed
    BY <1>0 DEF Failed
  <2> QED
    BY <1>0, <1>6, <2>1 DEF CacheExpires, MemoryTypeOK
<1> QED
  BY <1>2, <1>3, <1>4, <1>5, <1>6

\* PlaneInv is an inductive invariant.
THEOREM PlaneInductive == MemorySpec => []PlaneInv
<1>1. MemoryInit => PlaneInv
  <2> SUFFICES ASSUME MemoryInit PROVE PlaneInv
    OBVIOUS
  <2>1. Ordered
    BY InitOrdered DEF MemoryInit
  <2>2. MaxWrites \in Nat /\ stored = 0 /\ exits = 0 /\ Idle.slot \in Slots
    BY QueueAssumption, IdleReads DEF MemoryInit, Init
  <2>3. MemoryTypeOK
    <3>1. 0 \in 0 .. Failed /\ 0 \in 0 .. MaxWrites /\ 0 \in 0 .. MaxExits /\ <<>> \in Seq(Slots)
      BY <2>2, PlaneAssumption DEF Failed
    <3>2. Idle \in Reads
      BY IdleReads
    <3> QED
      BY <2>2, <3>1, <3>2 DEF MemoryInit, MemoryTypeOK
  <2>4. RowsStored
    BY <2>2 DEF MemoryInit, RowsStored
  <2> QED
    BY <2>1, <2>3, <2>4 DEF PlaneInv
<1>2. PlaneInv /\ [MemoryNext]_<<vars, planeVars>> => PlaneInv'
  <2> SUFFICES ASSUME PlaneInv, [MemoryNext]_<<vars, planeVars>> PROVE PlaneInv'
    OBVIOUS
  <2>1. Ordered'
    BY QueueMoves, QueueKeeps, ExitOrders DEF PlaneInv
  <2>2. RowsStored' /\ row' \in [Keys -> 0 .. MaxWrites]
    BY RowStep DEF PlaneInv, MemoryTypeOK
  <2>3. MemoryTypeOK'
    <3>1. CASE UNCHANGED <<vars, planeVars>>
      BY <3>1 DEF PlaneInv, planeVars, MemoryTypeOK
    <3>2. CASE MemoryNext
      BY <2>2, <3>2, RequestsTyped, BackgroundTyped DEF PlaneInv, PlaneTyped, MemoryNext
    <3> QED
      BY <3>1, <3>2
  <2> QED
    BY <2>1, <2>2, <2>3 DEF PlaneInv
<1> QED
  BY <1>1, <1>2, PTL DEF MemorySpec

\* RowsForward, for any number of slots, reads, writes and exits: retries, lost
\* answers and crashes never put an older write over a newer one.
THEOREM RowsMoveForward == MemorySpec => RowsForward
<1>1. PlaneInv /\ [MemoryNext]_<<vars, planeVars>> =>
        [\A k \in Keys : row'[k] >= row[k]]_<<vars, planeVars>>
  BY RowStep DEF PlaneInv, MemoryTypeOK
<1> QED
  BY <1>1, PlaneInductive, PTL DEF MemorySpec, RowsForward

(***************************************************************************)
(* What is gone.                                                           *)
(***************************************************************************)

\* Nothing comes into flight but what was queued.
LEMMA ContinueFlies ==
  ASSUME NEW line \in Seq(Writes), Continue(line)
  PROVE  /\ Queued' = {line[i] : i \in 1 .. Len(line)}
         /\ InFlight' \subseteq {line[i] : i \in 1 .. Len(line)}
<1>1. queue' = line
  BY DEF Continue
<1>2. CASE line = <<>>
  BY <1>1, <1>2 DEF Continue, Queued, InFlight
<1>3. CASE line /= <<>>
  <2>1. 1 \in 1 .. Len(line) /\ Head(line) = line[1]
    BY <1>3
  <2>2. op' \in {line[i] : i \in 1 .. Len(line)}
    BY <1>3, <2>1 DEF Continue
  <2> QED
    BY <1>1, <2>2 DEF Queued, InFlight
<1> QED
  BY <1>2, <1>3

LEMMA TailWithin ==
  ASSUME NEW line \in Seq(Writes), line /= <<>>
  PROVE  /\ Tail(line) \in Seq(Writes)
         /\ {Tail(line)[i] : i \in 1 .. Len(Tail(line))} \subseteq {line[i] : i \in 1 .. Len(line)}
<1> DEFINE t == Tail(line)
<1>1. /\ t \in Seq(Writes) /\ Len(t) = Len(line) - 1 /\ Len(line) \in Nat \ {0}
      /\ \A i \in 1 .. Len(line) - 1 : t[i] = line[i + 1]
  BY TailProperties
<1> HIDE DEF t
<1>2. {t[i] : i \in 1 .. Len(t)} \subseteq {line[i] : i \in 1 .. Len(line)}
  <2> SUFFICES ASSUME NEW i \in 1 .. Len(t)
               PROVE  \E j \in 1 .. Len(line) : t[i] = line[j]
    OBVIOUS
  <2>1. i + 1 \in 1 .. Len(line) /\ t[i] = line[i + 1]
    BY <1>1
  <2> QED
    BY <2>1
<1> QED
  BY <1>1, <1>2 DEF t

LEMMA FlushFlies ==
  ASSUME Ordered, Flush
  PROVE  Queued' \cup InFlight' \subseteq Queued \cup InFlight
<1>1. queue \in Seq(Writes) /\ queue /= <<>>
  BY DEF Ordered, TypeOK, Running, Flush, WriteSucceeds, WriteFails, BackoffEnds
<1>2. CASE Continue(Tail(queue))
  BY <1>1, <1>2, TailWithin, ContinueFlies DEF Queued
<1>3. CASE Continue(queue)
  BY <1>1, <1>3, ContinueFlies DEF Queued
<1>4. CASE flusher' = "backoff" /\ queue' = queue
  BY <1>4 DEF Queued, InFlight
<1> QED
  BY <1>2, <1>3, <1>4 DEF Flush, WriteSucceeds, WriteFails, BackoffEnds

LEMMA EnqueueFlies ==
  ASSUME Ordered, Enqueue
  PROVE  /\ Queued' \cup InFlight' \subseteq Queued \cup InFlight \cup {accepted'}
         /\ accepted' \in Writes
<1> DEFINE room == IF Len(queue) >= MaxQueue THEN Tail(queue) ELSE queue
           line == Append(room, accepted + 1)
<1>1. queue \in Seq(Writes) /\ (Len(queue) >= MaxQueue => queue /= <<>>)
  BY QueueAssumption DEF Ordered, TypeOK
<1>2. room \in Seq(Writes) /\ {room[i] : i \in 1 .. Len(room)} \subseteq Queued
  <2>1. CASE Len(queue) >= MaxQueue
    BY <1>1, <2>1, TailWithin DEF Queued
  <2>2. CASE ~ (Len(queue) >= MaxQueue)
    BY <1>1, <2>2 DEF Queued
  <2> QED
    BY <2>1, <2>2
<1> HIDE DEF room
<1>3. accepted' = accepted + 1 /\ accepted + 1 \in Writes
  BY QueueAssumption DEF Ordered, TypeOK, Enqueue, Writes
<1>4. /\ line \in Seq(Writes) /\ Len(line) = Len(room) + 1 /\ Len(room) \in Nat
      /\ \A i \in 1 .. Len(room) : line[i] = room[i]
      /\ line[Len(room) + 1] = accepted + 1
  BY <1>2, <1>3, AppendProperties
<1>5. IF flusher = "idle" THEN Continue(line) ELSE queue' = line /\ UNCHANGED <<flusher, op>>
  BY DEF Enqueue, room
<1> HIDE DEF line
<1>6. {line[i] : i \in 1 .. Len(line)} \subseteq Queued \cup {accepted'}
  <2> SUFFICES ASSUME NEW i \in 1 .. Len(line)
               PROVE  line[i] \in Queued \cup {accepted'}
    OBVIOUS
  <2>1. i \in 1 .. Len(room) \/ i = Len(room) + 1
    BY <1>4
  <2> QED
    BY <1>2, <1>3, <1>4, <2>1
<1>7. CASE Continue(line)
  BY <1>3, <1>4, <1>6, <1>7, ContinueFlies
<1>8. CASE queue' = line /\ UNCHANGED <<flusher, op>>
  BY <1>3, <1>6, <1>8 DEF Queued, InFlight
<1> QED
  BY <1>5, <1>7, <1>8

\* A step of the service flies nothing new but the write it accepts.
LEMMA PlaneFlies ==
  ASSUME PlaneInv, MemoryNext
  PROVE  \/ WriteAccepted
         \/ Queued' \cup InFlight' \subseteq Queued \cup InFlight /\ slotOf' = slotOf
<1>1. Ordered
  BY DEF PlaneInv
<1>2. CASE FlushStep
  BY <1>1, <1>2, FlushFlies DEF FlushStep, Flush
<1>3. CASE Exit
  <2>1. queue' = <<>> /\ flusher' = "idle" /\ slotOf' = slotOf
    BY <1>3 DEF Exit
  <2>2. Len(<<>>) = 0
    OBVIOUS
  <2> QED
    BY <2>1, <2>2 DEF Queued, InFlight
<1>4. CASE UNCHANGED <<queue, flusher, op, slotOf>>
  BY <1>4 DEF Queued, InFlight
<1> QED
  BY <1>2, <1>3, <1>4
  DEF MemoryNext, Requests, WriteCache, WriteCacheFails, DeleteCache,
      ReadStep, QueryRow, Fill, ReadGivesUp, ReadMiss, DeleteRow, RowExpires, CacheExpires,
      Shutdown, Dispose, vars, planeVars

\* The parts of Gone, one after the other: no step revives the row, ...
LEMMA RowStaysGone ==
  ASSUME PlaneInv, MemoryNext, NEW k \in Keys, Gone(k)
  PROVE  ~ live'[k]
<1>1. live \in [Keys -> BOOLEAN] /\ ~ live[k]
  BY DEF PlaneInv, MemoryTypeOK, Gone
<1>2. CASE Upserts
  <2>1. slotOf[op].key /= k
    BY <1>2 DEF Upserts, Gone, InFlight
  <2> QED
    BY <1>1, <1>2, <2>1 DEF Upserts, Upsert
<1>3. ASSUME NEW i \in Keys, live' = [live EXCEPT ![i] = FALSE]
      PROVE  ~ live'[k]
  BY <1>1, <1>3
<1>4. Upserts \/ UNCHANGED live \/ \E i \in Keys : live' = [live EXCEPT ![i] = FALSE]
  BY DEF MemoryNext, Requests, WriteCache, WriteCacheFails, DeleteCache, WriteAccepted, FlushStep,
      WriteSucceeds, WriteFails, BackoffEnds, Exit, Upserts,
      ReadStep, QueryRow, Fill, ReadGivesUp, ReadMiss, DeleteRow, RowExpires, CacheExpires,
      Shutdown, planeVars
<1> QED
  BY <1>1, <1>2, <1>3, <1>4

\* ... or fills a slot of it, ...
LEMMA SlotsStayGone ==
  ASSUME PlaneInv, MemoryNext, NEW k \in Keys, Gone(k), ~ WritesKey(k),
         NEW s \in Slots, s.key = k
  PROVE  cache'[s] = 0
<1>1. cache \in [Slots -> 0 .. Failed] /\ cache[s] = 0 /\ accepted \in Nat
  BY DEF PlaneInv, MemoryTypeOK, Gone, Ordered, TypeOK
<1>2. ASSUME NEW slot \in Slots, WriteCache(slot) \/ WriteCacheFails(slot)
      PROVE  cache'[s] = 0
  <2>1. slot /= s
    BY <1>2 DEF WritesKey
  <2> QED
    BY <1>1, <1>2, <2>1 DEF WriteCache, WriteCacheFails
<1>3. ASSUME NEW slot \in Slots, cache' = [cache EXCEPT ![slot] = 0]
      PROVE  cache'[s] = 0
  BY <1>1, <1>3
<1>4. ASSUME NEW r \in Readers, Fill(r)
      PROVE  cache'[s] = 0
  <2>1. reads[r].slot /= s
    BY <1>4 DEF Fill, Gone
  <2> QED
    BY <1>1, <1>4, <2>1 DEF Fill
<1>5. CASE Exit
  BY <1>1, <1>5 DEF Exit
<1>6. CASE UNCHANGED cache
  BY <1>1, <1>6
<1> QED
  BY <1>2, <1>3, <1>4, <1>5, <1>6
  DEF MemoryNext, Requests, DeleteCache, WriteAccepted, FlushStep,
      ReadStep, QueryRow, ReadGivesUp, ReadMiss, DeleteRow, RowExpires, CacheExpires,
      Shutdown, planeVars

\* ... or lets a write of it join the line, ...
LEMMA LineStaysGone ==
  ASSUME PlaneInv, MemoryNext, NEW k \in Keys, Gone(k),
         NEW n \in Queued' \cup InFlight'
  PROVE  slotOf'[n].key /= k
<1>1. \A m \in Queued \cup InFlight : slotOf[m].key /= k
  BY DEF Gone
<1>2. CASE WriteAccepted
  <2>1. /\ Queued' \cup InFlight' \subseteq Queued \cup InFlight \cup {accepted'}
        /\ accepted' \in Writes
    BY <1>2, EnqueueFlies DEF WriteAccepted, PlaneInv
  <2>2. /\ acked \in Seq(Slots) /\ acked /= <<>> /\ slotOf \in [Writes -> Slots]
        /\ slotOf' = [slotOf EXCEPT ![accepted'] = Head(acked)]
    BY <1>2 DEF WriteAccepted, PlaneInv, MemoryTypeOK
  <2>3. Head(acked).key /= k
    <3>1. Head(acked) = acked[1] /\ 1 \in 1 .. Len(acked)
      BY <2>2
    <3> QED
      BY <3>1 DEF Gone
  <2>4. CASE n = accepted'
    BY <2>1, <2>2, <2>3, <2>4
  <2>5. CASE n /= accepted'
    BY <1>1, <2>1, <2>2, <2>5
  <2> QED
    BY <2>4, <2>5
<1> QED
  BY <1>1, <1>2, PlaneFlies

\* ... or a write or a fill of it begin.
LEMMA RequestsStayGone ==
  ASSUME PlaneInv, MemoryNext, NEW k \in Keys, Gone(k), ~ WritesKey(k)
  PROVE  /\ \A i \in 1 .. Len(acked') : acked'[i].key /= k
         /\ \A r \in Readers : reads'[r].at = "filling" => reads'[r].slot.key /= k
<1>1. /\ acked \in Seq(Slots) /\ reads \in [Readers -> Reads] /\ ~ live[k]
      /\ \A i \in 1 .. Len(acked) : acked[i].key /= k
      /\ \A r \in Readers : reads[r].at = "filling" => reads[r].slot.key /= k
  BY DEF PlaneInv, MemoryTypeOK, Gone
<1>2. \A i \in 1 .. Len(acked') : acked'[i].key /= k
  <2>1. ASSUME NEW s \in Slots, WriteCache(s)
        PROVE  \A i \in 1 .. Len(acked') : acked'[i].key /= k
    <3>1. s.key /= k /\ acked' = Append(acked, s)
      BY <2>1 DEF WriteCache, WritesKey
    <3> QED
      BY <1>1, <3>1
  <2>2. CASE WriteAccepted
    <3>1. acked /= <<>> /\ acked' = Tail(acked)
      BY <2>2 DEF WriteAccepted
    <3>2. /\ Len(Tail(acked)) = Len(acked) - 1 /\ Len(acked) \in Nat \ {0}
          /\ \A i \in 1 .. Len(acked) - 1 : Tail(acked)[i] = acked[i + 1]
      BY <1>1, <3>1, TailProperties
    <3> QED
      BY <1>1, <3>1, <3>2
  <2>3. CASE Exit
    <3>1. acked' = <<>> /\ Len(<<>>) = 0
      BY <2>3 DEF Exit
    <3> QED
      BY <3>1
  <2>4. CASE UNCHANGED acked
    BY <1>1, <2>4
  <2> QED
    BY <2>1, <2>2, <2>3, <2>4
    DEF MemoryNext, Requests, WriteCacheFails, DeleteCache, FlushStep,
        ReadStep, QueryRow, Fill, ReadGivesUp, ReadMiss, DeleteRow, RowExpires, CacheExpires,
        Shutdown, planeVars
<1>3. \A r \in Readers : reads'[r].at = "filling" => reads'[r].slot.key /= k
  <2>1. ASSUME NEW r \in Readers, NEW read \in Reads, reads' = [reads EXCEPT ![r] = read],
               read.at = "filling" => read.slot.key /= k
        PROVE  \A i \in Readers : reads'[i].at = "filling" => reads'[i].slot.key /= k
    BY <1>1, <2>1
  <2>2. ASSUME NEW r \in Readers, NEW s \in Slots, ReadMiss(r, s)
        PROVE  \A i \in Readers : reads'[i].at = "filling" => reads'[i].slot.key /= k
    <3> DEFINE read == [at |-> "querying", slot |-> s, value |-> 0]
    <3>1. reads' = [reads EXCEPT ![r] = read] /\ read \in Reads /\ read.at = "querying"
      BY <2>2, IdleReads DEF ReadMiss
    <3> HIDE DEF read
    <3> QED
      BY <2>1, <3>1
  <2>3. ASSUME NEW r \in Readers, QueryRow(r)
        PROVE  \A i \in Readers : reads'[i].at = "filling" => reads'[i].slot.key /= k
    <3> DEFINE key   == reads[r].slot.key
               fills == [reads[r] EXCEPT !.at = "filling", !.value = row[key]]
    <3>1. reads[r] \in Reads /\ key \in Keys
      BY <1>1, IdleReads DEF Keys
    <3>2. row[key] \in 0 .. MaxWrites
      BY <3>1 DEF PlaneInv, MemoryTypeOK
    <3>3. \/ reads' = [reads EXCEPT ![r] = Idle]
          \/ live[key] /\ reads' = [reads EXCEPT ![r] = fills]
      BY <2>3 DEF QueryRow, Found
    <3>4. fills \in Reads /\ fills.slot = reads[r].slot
      BY <3>1, <3>2, IdleReads
    <3>5. live[key] => fills.slot.key /= k
      BY <1>1, <3>4
    <3> HIDE DEF fills, key
    <3> QED
      BY <2>1, <3>3, <3>4, <3>5, IdleReads
  <2>4. ASSUME NEW r \in Readers, Fill(r) \/ ReadGivesUp(r)
        PROVE  \A i \in Readers : reads'[i].at = "filling" => reads'[i].slot.key /= k
    BY <2>1, <2>4, IdleReads DEF Fill, ReadGivesUp
  <2>5. CASE Exit
    <3>1. reads' = [r \in Readers |-> Idle]
      BY <2>5 DEF Exit
    <3> QED
      BY <3>1, IdleReads
  <2>6. CASE UNCHANGED reads
    BY <1>1, <2>6
  <2> QED
    BY <2>2, <2>3, <2>4, <2>5, <2>6
    DEF MemoryNext, Requests, WriteCache, WriteCacheFails, DeleteCache, WriteAccepted, FlushStep,
        ReadStep, DeleteRow, RowExpires, CacheExpires, Shutdown, planeVars
<1> QED
  BY <1>2, <1>3

\* GoneStaysGone, for any number of slots, reads, writes and exits: what was
\* deleted stays away unless somebody writes it.
THEOREM DeletedStaysAway == MemorySpec => GoneStaysGone
<1>1. PlaneInv /\ [MemoryNext]_<<vars, planeVars>> =>
        [\A k \in Keys : Gone(k) /\ ~ WritesKey(k) => Gone(k)']_<<vars, planeVars>>
  <2> SUFFICES ASSUME PlaneInv, MemoryNext, NEW k \in Keys, Gone(k), ~ WritesKey(k)
               PROVE  Gone(k)'
    OBVIOUS
  <2> QED
    BY RowStaysGone, SlotsStayGone, LineStaysGone, RequestsStayGone DEF Gone
<1> QED
  BY <1>1, PlaneInductive, PTL DEF MemorySpec, GoneStaysGone
=============================================================================
