------------------------- MODULE EventBufferProofs --------------------------
(***************************************************************************)
(* Proofs about next_events_raw and its buffer in the inotify mode         *)
(* (Fanotify = FALSE), for every size of the buffer, of the events and of  *)
(* the kernel's queue: the type invariant, CursorsSound,                   *)
(* NullMeansTimeoutOrError, and that the library implements the FIFO       *)
(* channel of module EventChannel.                                         *)
(***************************************************************************)
EXTENDS EventBuffer, InductionFacts, SequenceTheorems

USE SizeAssumption

(***************************************************************************)
(* Sizes of sequences of events.                                           *)
(***************************************************************************)

\* An event takes up at least one unit.
LEMMA EventSizes == \A e \in Events : e.size \in Nat /\ e.size >= 1
BY DEF Events

\* TotalSize(s) is the last value of a function with the recurrence of a sum.
LEMMA TotalSizeIsSum ==
  ASSUME NEW s \in Seq(Events)
  PROVE  \E f \in [0..Len(s) -> Nat] :
           /\ f[0] = 0
           /\ \A k \in 1..Len(s) : f[k] = f[k - 1] + s[k].size
           /\ TotalSize(s) = f[Len(s)]
<1> DEFINE n == Len(s)
           w == [k \in 1..n |-> s[k].size]
           StepS(f) == [k \in 0..n |-> IF k = 0 THEN 0 ELSE f[k - 1] + s[k].size]
           StepW(f) == [k \in 0..n |-> IF k = 0 THEN 0 ELSE f[k - 1] + w[k]]
           sum == CHOOSE f : f = StepS(f)
<1>0. n \in Nat
  OBVIOUS
<1>1. w \in [1..n -> Nat]
  BY EventSizes
<1>a. \A k \in 1..n : w[k] = s[k].size
  OBVIOUS
<1>2. ASSUME NEW f PROVE StepS(f) = StepW(f)
  <2> HIDE DEF w
  <2>1. \A k \in 0..n : k # 0 => k \in 1..n
    OBVIOUS
  <2> QED
    BY <1>a, <2>1
<1>3. PICK f \in [0..n -> Nat] :
        /\ f[0] = 0 /\ \A k \in 1..n : f[k] = f[k - 1] + w[k]
        /\ f = StepW(f)
        /\ \A g : g = StepW(g) => g = f
  <2> HIDE DEF w, n
  <2> QED
    BY <1>0, <1>1, SumUnique
<1>4. sum = f
  <2>1. f = StepS(f)
    BY <1>2, <1>3, Zenon
  <2> HIDE DEF StepS, StepW
  <2>2. sum = StepS(sum)
    BY <2>1, Zenon
  <2> QED
    BY <1>2, <1>3, <2>2, Zenon
<1>5. TotalSize(s) = sum[n]
  BY Zenon DEF TotalSize
<1> HIDE DEF sum
<1>8. \A k \in 1..n : f[k] = f[k - 1] + s[k].size
  <2> HIDE DEF w
  <2> QED
    BY <1>3, <1>a
<1> QED
  BY <1>3, <1>4, <1>5, <1>8

\* f[k] is the size of the first k events of s.
IsSum(f, s, n) ==
  f[0] = 0 /\ \A k \in 1..n : f[k] = f[k - 1] + s[k].size

\* There is at most one such function.
LEMMA OneSum ==
  ASSUME NEW n \in Nat, NEW s, NEW f, NEW g, IsSum(f, s, n), IsSum(g, s, n)
  PROVE  f[n] = g[n]
<1> DEFINE S == {k \in Nat : k <= n => f[k] = g[k]}
<1>1. 0 \in S
  BY DEF IsSum
<1>2. ASSUME NEW k \in Nat, k \in S PROVE k + 1 \in S
  <2> SUFFICES ASSUME k + 1 <= n PROVE f[k + 1] = g[k + 1]
    OBVIOUS
  <2>1. k + 1 \in 1..n /\ (k + 1) - 1 = k /\ f[k] = g[k]
    BY <1>2
  <2> QED
    BY <2>1 DEF IsSum
<1> HIDE DEF S
<1>3. Nat \subseteq S
  BY <1>1, <1>2, NatSetInduction
<1> QED
  BY <1>3 DEF S

\* The sizes of the initial parts of a sequence of events: where the events
\* begin when they are written one behind the other.
LEMMA PrefixSums ==
  ASSUME NEW s \in Seq(Events)
  PROVE  \E f \in [0..Len(s) -> Nat] :
           /\ IsSum(f, s, Len(s))
           /\ \A k \in 0..Len(s) : TotalSize(SubSeq(s, 1, k)) = f[k]
           /\ TotalSize(s) = f[Len(s)]
<1>1. PICK f \in [0..Len(s) -> Nat] : IsSum(f, s, Len(s)) /\ TotalSize(s) = f[Len(s)]
  BY TotalSizeIsSum DEF IsSum
<1>2. ASSUME NEW m \in 0..Len(s)
      PROVE  TotalSize(SubSeq(s, 1, m)) = f[m]
  <2> DEFINE t == SubSeq(s, 1, m)
  <2>1. t \in Seq(Events) /\ Len(t) = m /\ \A k \in 1..m : t[k] = s[k]
    BY SubSeqProperties
  <2> HIDE DEF t
  <2>2. PICK g \in [0..m -> Nat] : IsSum(g, t, m) /\ TotalSize(t) = g[m]
    BY <2>1, TotalSizeIsSum DEF IsSum
  <2>3. IsSum(g, s, m)
    BY <2>1, <2>2 DEF IsSum
  <2>4. IsSum(f, s, m)
    BY <1>1 DEF IsSum
  <2>5. m \in Nat
    OBVIOUS
  <2>6. g[m] = f[m]
    BY <2>3, <2>4, <2>5, OneSum, Zenon
  <2> QED
    BY <2>2, <2>6 DEF t
<1> QED
  BY <1>1, <1>2

(***************************************************************************)
(* The buffer as a sequence of events.                                     *)
(***************************************************************************)

\* The buffers of TypeOK.
Buffers == [0..(Cap - 1) -> Events \cup {NoEvent}]

\* An event begins at o and ends at or before end.
EventAt(o, buf, end) ==
  o \in DOMAIN buf /\ buf[o] # NoEvent /\ ~(o + buf[o].size > end)

\* One step of the recursion that Buffered is defined by.
Unfold(h, o, buf, end) ==
  IF o = end THEN << >>
  ELSE IF EventAt(o, buf, end) THEN <<buf[o]>> \o h[o + buf[o].size]
                               ELSE <<NoEvent>>

\* Where the event at o ends lies in the buffer and behind o.
LEMMA EventAtNext ==
  ASSUME NEW buf \in Buffers, NEW end \in Nat, NEW o \in Nat, EventAt(o, buf, end)
  PROVE  o < Cap /\ o + buf[o].size \in Nat /\ o + buf[o].size > o
<1>1. o \in 0..(Cap - 1) /\ buf[o] \in Events
  BY DEF EventAt, Buffers
<1>2. buf[o].size \in Nat /\ buf[o].size >= 1
  BY <1>1, EventSizes
<1> QED
  BY <1>1, <1>2

\* Unfold reads h behind o only.
LEMMA UnfoldLocal ==
  ASSUME NEW buf \in Buffers, NEW end \in Nat, NEW o \in Nat, NEW g, NEW h,
         \A q \in Nat : q > o => g[q] = h[q]
  PROVE  Unfold(g, o, buf, end) = Unfold(h, o, buf, end)
<1>1. CASE EventAt(o, buf, end)
  <2>1. g[o + buf[o].size] = h[o + buf[o].size]
    BY <1>1, EventAtNext
  <2> QED
    BY <2>1 DEF Unfold
<1>2. CASE ~EventAt(o, buf, end)
  BY <1>2 DEF Unfold
<1> QED
  BY <1>1, <1>2

\* The recursion of Buffered has a solution: it climbs and stops at Cap.
LEMMA UnfoldSolution ==
  ASSUME NEW buf \in Buffers, NEW end \in Nat
  PROVE  \E h : h = [o \in Nat |-> Unfold(h, o, buf, end)]
<1> DEFINE Good(h, m) == \A o \in Nat : o >= Cap - m => h[o] = Unfold(h, o, buf, end)
           IsFcn(h) == h = [o \in Nat |-> h[o]]
           S == {m \in Nat : \E h : IsFcn(h) /\ Good(h, m)}
<1>1. 0 \in S
  <2> DEFINE h == [o \in Nat |-> IF o = end THEN << >> ELSE <<NoEvent>>]
  <2>1. IsFcn(h)
    OBVIOUS
  <2>2. Good(h, 0)
    <3> SUFFICES ASSUME NEW o \in Nat, o >= Cap PROVE h[o] = Unfold(h, o, buf, end)
      OBVIOUS
    <3>1. ~EventAt(o, buf, end)
      BY EventAtNext
    <3> QED
      BY <3>1 DEF Unfold
  <2> QED
    BY <2>1, <2>2, Zenon
<1>2. ASSUME NEW m \in Nat, m \in S
      PROVE  m + 1 \in S
  <2>1. PICK g : IsFcn(g) /\ Good(g, m)
    BY <1>2
  <2> DEFINE p == Cap - (m + 1)
             h == [o \in Nat |-> IF o = p THEN Unfold(g, p, buf, end) ELSE g[o]]
  <2>2. IsFcn(h)
    OBVIOUS
  <2>3. \A o \in Nat : o >= p => Unfold(h, o, buf, end) = Unfold(g, o, buf, end)
    <3> SUFFICES ASSUME NEW o \in Nat, o >= p
                 PROVE  Unfold(h, o, buf, end) = Unfold(g, o, buf, end)
      OBVIOUS
    <3>1. \A q \in Nat : q > o => h[q] = g[q]
      OBVIOUS
    <3> HIDE DEF h
    <3> QED
      BY <3>1, UnfoldLocal
  <2>4. Good(h, m + 1)
    <3> SUFFICES ASSUME NEW o \in Nat, o >= p PROVE h[o] = Unfold(h, o, buf, end)
      OBVIOUS
    <3>1. CASE o = p
      <4>1. h[o] = Unfold(g, p, buf, end)
        BY <3>1
      <4> QED
        BY <4>1, <3>1, <2>3
    <3>2. CASE o # p
      <4>1. h[o] = g[o] /\ o >= Cap - m
        BY <3>2
      <4>2. g[o] = Unfold(g, o, buf, end)
        BY <4>1, <2>1
      <4> QED
        BY <4>1, <4>2, <2>3
    <3> QED
      BY <3>1, <3>2
  <2>5. m + 1 \in Nat
    OBVIOUS
  <2> HIDE DEF h, Good, IsFcn
  <2> QED
    BY <2>2, <2>4, <2>5, Zenon
<1> HIDE DEF S
<1>3. Cap \in S
  BY <1>1, <1>2, NatSetInduction
<1>4. PICK h : IsFcn(h) /\ Good(h, Cap)
  BY <1>3, Zenon DEF S
<1>5. h = [o \in Nat |-> Unfold(h, o, buf, end)]
  <2>1. \A o \in Nat : h[o] = Unfold(h, o, buf, end)
    BY <1>4
  <2> QED
    BY <1>4, <2>1, Zenon
<1> QED
  BY <1>5, Zenon

\* The events of buf from offset fb on, as Buffered has them.
EventsOf(buf, fb, end) == (CHOOSE h : h = [o \in Nat |-> Unfold(h, o, buf, end)])[fb]

\* Buffered is EventsOf at the library's cursors ...
LEMMA BufferedIsEventsOf == Buffered = EventsOf(evbuf, first_byte, BufferEnd)
BY Zenon DEF Buffered, EventsOf, Unfold, EventAt

\* ... and so it is after a step.
LEMMA BufferedIsEventsOfPrime == Buffered' = EventsOf(evbuf', first_byte', BufferEnd')
BY Zenon DEF Buffered, EventsOf, Unfold, EventAt

\* The events s lie in buf one behind the other from fb to end, the k-th at
\* offset P[k].
Laid(s, P, buf, fb, end) ==
  /\ s \in Seq(Events)
  /\ P \in [1..(Len(s) + 1) -> Nat]
  /\ P[1] = fb /\ P[Len(s) + 1] = end
  /\ \A k \in 1..Len(s) : P[k + 1] = P[k] + s[k].size
  /\ \A k \in 1..Len(s) : P[k] \in DOMAIN buf /\ buf[P[k]] = s[k]

\* Every event of a layout begins before end and is complete.
LEMMA LaidBounds ==
  ASSUME NEW s, NEW P, NEW buf, NEW fb, NEW end, Laid(s, P, buf, fb, end)
  PROVE  /\ fb <= end /\ end \in Nat /\ fb \in Nat
         /\ \A k \in 1..Len(s) : P[k] < end /\ P[k + 1] <= end
         /\ Len(s) > 0 <=> fb < end
<1> DEFINE n == Len(s) + 1
<1>1. n \in Nat /\ P \in [1..n -> Nat] /\ P[1] = fb /\ P[n] = end
  BY DEF Laid
<1>2. \A k \in 1..(n - 1) : P[k] < P[k + 1]
  <2> SUFFICES ASSUME NEW k \in 1..(n - 1) PROVE P[k] < P[k + 1]
    OBVIOUS
  <2>1. k \in 1..Len(s) /\ k \in 1..n /\ s[k] \in Events
    BY DEF Laid
  <2>2. s[k].size \in Nat /\ s[k].size >= 1 /\ P[k] \in Nat
    BY <2>1, <1>1, EventSizes
  <2>3. P[k + 1] = P[k] + s[k].size
    BY <2>1 DEF Laid
  <2> QED
    BY <2>2, <2>3
<1>3. \A i, j \in 1..n : i < j => P[i] < P[j]
  <2> HIDE DEF n
  <2> QED
    BY <1>1, <1>2, StrictlyIncreasing
<1>4. Len(s) \in Nat
  BY DEF Laid
<1> QED
  BY <1>1, <1>3, <1>4

\* A layout decides what the code finds in the buffer.
LEMMA LaidEvents ==
  ASSUME NEW buf \in Buffers, NEW s, NEW P, NEW fb, NEW end, Laid(s, P, buf, fb, end)
  PROVE  EventsOf(buf, fb, end) = s
<1> DEFINE h == CHOOSE h : h = [o \in Nat |-> Unfold(h, o, buf, end)]
<1>0. /\ end \in Nat /\ fb \in Nat
      /\ \A k \in 1..Len(s) : P[k] < end /\ P[k + 1] <= end
  BY LaidBounds, Zenon
<1>1. end \in Nat /\ fb \in Nat /\ s \in Seq(Events) /\ Len(s) \in Nat
  BY <1>0 DEF Laid
<1>2. h = [o \in Nat |-> Unfold(h, o, buf, end)]
  <2>1. \E g : g = [o \in Nat |-> Unfold(g, o, buf, end)]
    BY <1>1, UnfoldSolution
  <2> QED
    BY <2>1, Zenon
<1>3. EventsOf(buf, fb, end) = h[fb]
  BY DEF EventsOf
<1> HIDE DEF h
<1>4. \A o \in Nat : h[o] = Unfold(h, o, buf, end)
  BY <1>2
<1> DEFINE n == Len(s)
           S == {m \in Nat : m <= n => h[P[n + 1 - m]] = SubSeq(s, n + 1 - m, n)}
<1>5. 0 \in S
  <2>1. P[n + 1 - 0] = end
    BY <1>1 DEF Laid
  <2>2. h[end] = << >>
    BY <1>1, <1>4 DEF Unfold
  <2>3. SubSeq(s, n + 1 - 0, n) = << >>
    BY <1>1
  <2> QED
    BY <2>1, <2>2, <2>3
<1>6. ASSUME NEW m \in Nat, m \in S
      PROVE  m + 1 \in S
  <2> SUFFICES ASSUME m + 1 <= n
               PROVE  h[P[n + 1 - (m + 1)]] = SubSeq(s, n + 1 - (m + 1), n)
    OBVIOUS
  <2> DEFINE k == n - m
  <2>1. k \in 1..n /\ n + 1 - (m + 1) = k /\ n + 1 - m = k + 1 /\ m <= n
    BY <1>1
  <2>2. P[k] \in Nat /\ P[k] < end /\ P[k + 1] <= end
    <3> HIDE DEF k
    <3>1. P \in [1..(n + 1) -> Nat] /\ k \in 1..(n + 1)
      BY <1>1, <2>1 DEF Laid
    <3> QED
      BY <1>0, <2>1, <3>1
  <2>3. s[k] \in Events /\ buf[P[k]] = s[k] /\ P[k] \in DOMAIN buf
    BY <1>1, <2>1, SMTT(30) DEF Laid
  <2>4. P[k + 1] = P[k] + buf[P[k]].size
    <3>1. P[k + 1] = P[k] + s[k].size
      BY <2>1 DEF Laid
    <3> QED
      BY <2>3, <3>1
  <2>5. EventAt(P[k], buf, end)
    <3>1. buf[P[k]] # NoEvent
      BY <2>3, NoEventAssumption
    <3>2. buf[P[k]].size \in Nat
      BY <2>3, EventSizes
    <3> QED
      BY <1>1, <3>1, <3>2, <2>2, <2>3, <2>4 DEF EventAt
  <2>6. h[P[k]] = <<s[k]>> \o h[P[k + 1]]
    <3>1. h[P[k]] = Unfold(h, P[k], buf, end)
      BY <1>4, <2>2
    <3>2. P[k] # end
      BY <2>2, <1>1
    <3> QED
      BY <3>1, <3>2, <2>3, <2>4, <2>5 DEF Unfold
  <2>7. h[P[k + 1]] = SubSeq(s, k + 1, n)
    BY <1>6, <2>1
  <2>8. <<s[k]>> \o SubSeq(s, k + 1, n) = SubSeq(s, k, n)
    <3> HIDE DEF k
    <3> QED
      BY <1>1, <2>1
  <2> QED
    BY <2>1, <2>6, <2>7, <2>8
<1> HIDE DEF S
<1>7. n \in S
  BY <1>1, <1>5, <1>6, NatSetInduction
<1>8. h[P[1]] = SubSeq(s, 1, n)
  BY <1>1, <1>7 DEF S
<1>9. SubSeq(s, 1, n) = s
  BY <1>1
<1> QED
  BY <1>3, <1>8, <1>9 DEF Laid

\* Nothing is laid out between an offset and itself.
LEMMA LaidNothing ==
  ASSUME NEW buf, NEW fb \in Nat
  PROVE  Laid(<< >>, [k \in 1..1 |-> fb], buf, fb, fb)
BY DEF Laid

\* Behind the first event of a layout the others are laid out.
LEMMA LaidTail ==
  ASSUME NEW s, NEW P, NEW buf, NEW fb, NEW end, Laid(s, P, buf, fb, end), fb < end
  PROVE  /\ s # << >> /\ Head(s) = s[1] /\ s[1] \in Events /\ Tail(s) \in Seq(Events)
         /\ fb \in DOMAIN buf /\ buf[fb] = s[1]
         /\ s[1].size \in Nat /\ s[1].size >= 1 /\ fb + s[1].size <= end
         /\ Laid(Tail(s), [k \in 1..Len(s) |-> P[k + 1]], buf, fb + s[1].size, end)
         /\ fb + s[1].size = end <=> Tail(s) = << >>
<1>1. Len(s) > 0 /\ end \in Nat /\ fb \in Nat /\ \A k \in 1..Len(s) : P[k + 1] <= end
  BY LaidBounds, Zenon
<1>2. s \in Seq(Events) /\ Len(s) \in Nat /\ 1 \in 1..Len(s) /\ s # << >>
  BY <1>1 DEF Laid
<1>3. s[1] \in Events /\ Head(s) = s[1] /\ s[1].size \in Nat /\ s[1].size >= 1
  BY <1>2, EventSizes
<1>4. fb \in DOMAIN buf /\ buf[fb] = s[1] /\ P[2] = fb + s[1].size /\ P[2] <= end
  BY <1>1, <1>2 DEF Laid
<1> DEFINE t == Tail(s)
           Q == [k \in 1..Len(s) |-> P[k + 1]]
<1>5. /\ t \in Seq(Events) /\ Len(t) = Len(s) - 1
      /\ \A k \in 1..Len(t) : t[k] = s[k + 1]
  BY <1>2
<1> HIDE DEF t
<1>6. Q \in [1..(Len(t) + 1) -> Nat]
  BY <1>2, <1>5 DEF Laid
<1>7. Q[1] = fb + s[1].size /\ Q[Len(t) + 1] = end
  BY <1>2, <1>4, <1>5 DEF Laid
<1>8. ASSUME NEW k \in 1..Len(t)
      PROVE  Q[k + 1] = Q[k] + t[k].size /\ Q[k] \in DOMAIN buf /\ buf[Q[k]] = t[k]
  <2>1. k \in 1..Len(s) /\ k + 1 \in 1..Len(s) /\ t[k] = s[k + 1]
    BY <1>2, <1>5
  <2>2. P[(k + 1) + 1] = P[k + 1] + s[k + 1].size
    BY <2>1 DEF Laid
  <2>3. P[k + 1] \in DOMAIN buf /\ buf[P[k + 1]] = s[k + 1]
    BY <2>1 DEF Laid
  <2>4. Q[k] = P[k + 1] /\ Q[k + 1] = P[(k + 1) + 1]
    BY <2>1
  <2> QED
    BY <2>1, <2>2, <2>3, <2>4
<1> HIDE DEF Q
<1>9. Laid(t, Q, buf, fb + s[1].size, end)
  BY <1>5, <1>6, <1>7, <1>8 DEF Laid
<1>10. fb + s[1].size = end <=> t = << >>
  <2>1. /\ fb + s[1].size <= end /\ end \in Nat /\ fb + s[1].size \in Nat
        /\ Len(t) > 0 <=> fb + s[1].size < end
    BY <1>9, LaidBounds, Zenon
  <2>2. t = << >> <=> ~(Len(t) > 0)
    BY <1>5
  <2> QED
    BY <2>1, <2>2
<1> QED
  BY <1>2, <1>3, <1>4, <1>5, <1>9, <1>10 DEF t, Q

\* What read() writes at the beginning of the buffer is laid out there.
LEMMA LaidWritten ==
  ASSUME evbuf \in Buffers, NEW s \in Seq(Events), TotalSize(s) <= Cap
  PROVE  /\ TotalSize(s) \in Nat
         /\ Written(s, 0) \in Buffers
         /\ \E P : Laid(s, P, Written(s, 0), 0, TotalSize(s))
<1>1. PICK f \in [0..Len(s) -> Nat] :
        /\ IsSum(f, s, Len(s))
        /\ \A k \in 0..Len(s) : TotalSize(SubSeq(s, 1, k)) = f[k]
        /\ TotalSize(s) = f[Len(s)]
  BY PrefixSums
<1> DEFINE n == Len(s)
           P == [k \in 1..(n + 1) |-> f[k - 1]]
           W == Written(s, 0)
<1>2. n \in Nat /\ P \in [1..(n + 1) -> Nat]
  OBVIOUS
<1>3. P[1] = 0 /\ P[n + 1] = TotalSize(s) /\ TotalSize(s) \in Nat
  BY <1>1 DEF IsSum
<1>4. ASSUME NEW k \in 1..n
      PROVE  /\ P[k] \in Nat /\ P[k + 1] = P[k] + s[k].size /\ P[k] < P[k + 1]
             /\ Offset(s, 0, k) = P[k]
  <2>1. k \in 1..(n + 1) /\ k + 1 \in 1..(n + 1) /\ k - 1 \in 0..n /\ (k + 1) - 1 = k
    OBVIOUS
  <2>2. P[k] = f[k - 1] /\ P[k + 1] = f[k] /\ f[k - 1] \in Nat
    BY <2>1
  <2>3. f[k] = f[k - 1] + s[k].size
    BY <1>1 DEF IsSum
  <2>4. s[k].size \in Nat /\ s[k].size >= 1
    BY EventSizes
  <2>5. TotalSize(SubSeq(s, 1, k - 1)) = f[k - 1]
    BY <1>1, <2>1
  <2> QED
    BY <2>2, <2>3, <2>4, <2>5 DEF Offset
<1> HIDE DEF P
<1>5. \A i, j \in 1..(n + 1) : i < j => P[i] < P[j]
  <2>1. \A k \in 1..((n + 1) - 1) : P[k] < P[k + 1]
    BY <1>4
  <2>2. n + 1 \in Nat
    BY <1>2
  <2> HIDE DEF n
  <2> QED
    BY <1>2, <2>1, <2>2, StrictlyIncreasing
<1>6. ASSUME NEW k \in 1..n
      PROVE  P[k] \in DOMAIN evbuf
  <2>1. P[k] < P[n + 1] /\ P[k] \in Nat
    BY <1>4, <1>5
  <2> QED
    BY <1>3, <2>1 DEF Buffers
<1>7. ASSUME NEW k \in 1..n
      PROVE  W[P[k]] = s[k]
  <2>1. \E i \in 1..n : Offset(s, 0, i) = P[k]
    BY <1>4
  <2>2. ASSUME NEW i \in 1..n, Offset(s, 0, i) = P[k]
        PROVE  i = k
    <3>1. P[i] = P[k] /\ P[i] \in Nat
      BY <1>4, <2>2
    <3>2. i \in 1..(n + 1) /\ k \in 1..(n + 1)
      OBVIOUS
    <3>3. ~(i < k) /\ ~(k < i)
      BY <1>5, <3>1, <3>2
    <3> QED
      BY <3>3
  <2>3. (CHOOSE i \in 1..n : Offset(s, 0, i) = P[k]) = k
    <3> HIDE DEF n
    <3> QED
      BY <2>1, <2>2
  <2>4. W[P[k]] = s[CHOOSE i \in 1..n : Offset(s, 0, i) = P[k]]
    BY <1>6, <2>1 DEF Written
  <2> QED
    BY <2>3, <2>4
<1>8. W \in Buffers
  <2> SUFFICES ASSUME NEW o \in 0..(Cap - 1)
               PROVE  W[o] \in Events \cup {NoEvent}
    BY DEF Buffers, Written
  <2>1. CASE \E k \in 1..n : Offset(s, 0, k) = o
    <3>1. PICK k \in 1..n : P[k] = o
      BY <2>1, <1>4
    <3> QED
      BY <3>1, <1>7
  <2>2. CASE ~(\E k \in 1..n : Offset(s, 0, k) = o)
    BY <2>2 DEF Written, Buffers
  <2> QED
    BY <2>1, <2>2
<1>9. DOMAIN W = DOMAIN evbuf
  BY DEF Written
<1> HIDE DEF W
<1>10. Laid(s, P, W, 0, TotalSize(s))
  BY <1>2, <1>3, <1>4, <1>6, <1>7, <1>9 DEF Laid
<1> QED
  BY <1>3, <1>8, <1>10 DEF W

\* read() returns as many whole events as fit.  An empty buffer has room for
\* at least one.
LEMMA FittingFits ==
  ASSUME kq \in Seq(Events)
  PROVE  /\ Fitting(Cap) \in 0..Len(kq)
         /\ TotalSize(SubSeq(kq, 1, Fitting(Cap))) <= Cap
         /\ kq # << >> => Fitting(Cap) > 0
<1> DEFINE Fits(k) == /\ TotalSize(SubSeq(kq, 1, k)) <= Cap
                      /\ k < Len(kq) => TotalSize(SubSeq(kq, 1, k + 1)) > Cap
<1>1. PICK f \in [0..Len(kq) -> Nat] :
        /\ IsSum(f, kq, Len(kq))
        /\ \A k \in 0..Len(kq) : TotalSize(SubSeq(kq, 1, k)) = f[k]
  BY PrefixSums
<1>2. \E k \in 0..Len(kq) : Fits(k)
  <2> DEFINE T == {k \in 0..Len(kq) : f[k] > Cap}
  <2>1. CASE T = {}
    <3>1. Len(kq) \in 0..Len(kq) /\ ~(f[Len(kq)] > Cap)
      BY <2>1
    <3>2. Fits(Len(kq))
      BY <1>1, <3>1
    <3> QED
      BY <3>1, <3>2
  <2>2. CASE T # {}
    <3>1. T \in SUBSET Nat
      OBVIOUS
    <3>2. PICK m \in T : \A y \in T : m <= y
      <4> HIDE DEF T
      <4> QED
        BY <2>2, <3>1, NatMin
    <3>3. m # 0
      BY <1>1, <3>2 DEF IsSum
    <3>4. m - 1 \in 0..Len(kq) /\ m \in 0..Len(kq) /\ (m - 1) + 1 = m
      BY <3>3
    <3>5. ~(f[m - 1] > Cap)
      BY <3>2, <3>4
    <3>6. Fits(m - 1)
      <4>1. f[m - 1] \in Nat /\ f[m - 1] <= Cap /\ f[m] > Cap
        BY <3>2, <3>4, <3>5
      <4> QED
        BY <1>1, <3>4, <4>1
    <3> QED
      BY <3>4, <3>6
  <2> QED
    BY <2>1, <2>2
<1>3. Fitting(Cap) \in 0..Len(kq) /\ Fits(Fitting(Cap))
  BY <1>2, Zenon DEF Fitting
<1>4. ASSUME kq # << >>, Fitting(Cap) = 0 PROVE FALSE
  <2>1. 1 \in 0..Len(kq) /\ 1 \in 1..Len(kq) /\ kq[1] \in Events /\ 0 < Len(kq)
    BY <1>4
  <2>2. TotalSize(SubSeq(kq, 1, 1)) > Cap
    BY <1>3, <1>4, <2>1
  <2>3. f[1] = kq[1].size
    <3>1. f[1] = f[1 - 1] + kq[1].size /\ f[0] = 0
      BY <1>1, <2>1 DEF IsSum
    <3> QED
      BY <3>1, <2>1, EventSizes
  <2>4. kq[1].size \in Nat /\ kq[1].size <= MaxSize
    BY <2>1 DEF Events
  <2> QED
    BY <1>1, <2>1, <2>2, <2>3, <2>4
<1> QED
  BY <1>3, <1>4

(***************************************************************************)
(* The inductive invariant of the inotify mode.                            *)
(***************************************************************************)

\* Where the cursors stand at each control point: a read is made into an
\* empty buffer only, and more_events is reached with an event at first_byte.
Control ==
  /\ pc # "out" => open
  /\ pc \in {"poll", "ioctl", "read"} => first_byte = 0 /\ bytes = 0
  /\ pc \in {"out", "top"} => first_byte = 0 \/ first_byte < bytes
  /\ pc = "advance" => \/ first_byte = 0 /\ bytes = 0 /\ this_bytes > 0
                       \/ 0 < first_byte /\ first_byte < bytes /\ this_bytes = 0
  /\ BufferEnd <= Cap

\* What has been read and not handed out is a sequence of whole events.
Layout == \E s, P : Laid(s, P, evbuf, first_byte, BufferEnd)

\* The inductive invariant.
Inv == TypeOK /\ Control /\ Layout /\ NullMeansTimeoutOrError

\* The invariant holds initially: the buffer is empty.
LEMMA InitInv == Init => Inv
<1> SUFFICES ASSUME Init PROVE Inv
  OBVIOUS
<1>1. TypeOK
  <2>1. kq \in Seq(Events) /\ delivered \in Seq(Events)
    BY DEF Init
  <2>2. evbuf \in [0..(Cap - 1) -> Events \cup {NoEvent}]
    BY DEF Init
  <2>3. /\ inits \in Nat /\ opened_at \in Nat /\ sent \in Nat /\ want \in Nat /\ error \in Nat
        /\ first_byte \in Nat /\ bytes \in Nat /\ this_bytes \in Nat
    BY DEF Init
  <2> QED
    BY <2>1, <2>2, <2>3, Zenon DEF Init, TypeOK
<1>2. BufferEnd = 0
  BY DEF Init, BufferEnd
<1>3. Control
  BY <1>2 DEF Init, Control
<1>4. Layout
  <2>1. Laid(<< >>, [k \in 1..1 |-> 0], evbuf, 0, 0)
    BY LaidNothing
  <2> QED
    BY <1>2, <2>1 DEF Init, Layout
<1>5. NullMeansTimeoutOrError
  BY DEF Init, NullMeansTimeoutOrError
<1> QED
  BY <1>1, <1>3, <1>4, <1>5 DEF Inv

\* A step that moves neither the first event nor the end of the buffer keeps
\* the events in it.
LEMMA QuietStep ==
  ASSUME Layout, evbuf' = evbuf, first_byte' = first_byte, BufferEnd' = BufferEnd
  PROVE  Layout' /\ Buffered' = Buffered
<1>1. Layout'
  BY DEF Layout
<1>2. Buffered' = Buffered
  BY BufferedIsEventsOf, BufferedIsEventsOfPrime
<1> QED
  BY <1>1, <1>2

\* The head of the loop never finds an incomplete event.
LEMMA TopComplete ==
  ASSUME Inv, pc = "top", HasEvent
  PROVE  ~Incomplete /\ BufferEnd = bytes /\ first_byte # 0 /\ first_byte < bytes
<1>1. BufferEnd = bytes /\ first_byte # 0 /\ first_byte < bytes
  BY DEF Inv, TypeOK, HasEvent, BufferEnd
<1>2. PICK s, P : Laid(s, P, evbuf, first_byte, BufferEnd)
  BY DEF Inv, Layout
<1>3. evbuf[first_byte] = s[1] /\ s[1].size \in Nat /\ first_byte + s[1].size <= BufferEnd
  <2>1. first_byte < BufferEnd
    BY <1>1
  <2>2. /\ evbuf[first_byte] = s[1]
        /\ s[1].size \in Nat /\ s[1].size >= 1 /\ first_byte + s[1].size <= BufferEnd
        /\ Laid(Tail(s), [k \in 1..Len(s) |-> P[k + 1]], evbuf, first_byte + s[1].size, BufferEnd)
    BY <1>2, <2>1, LaidTail
  <2> QED
    BY <2>2
<1>4. ~(first_byte + evbuf[first_byte].size > bytes)
  BY <1>1, <1>3 DEF Inv, TypeOK
<1> QED
  BY <1>1, <1>4 DEF Incomplete

\* read() is called on an empty buffer and returns at least one event.
LEMMA ReadEffect ==
  ASSUME Inv, Read
  PROVE  LET got == SubSeq(kq, 1, Fitting(Cap)) IN
         /\ Fitting(Cap) \in 1..Len(kq)
         /\ got \in Seq(Events) /\ TotalSize(got) \in Nat \ {0} /\ TotalSize(got) <= Cap
         /\ evbuf' = Written(got, 0) /\ this_bytes' = TotalSize(got)
         /\ kq' = SubSeq(kq, Fitting(Cap) + 1, Len(kq))
         /\ pc' = "advance" /\ UNCHANGED <<error, ret>>
         /\ Written(got, 0) \in Buffers
         /\ \E P : Laid(got, P, Written(got, 0), 0, TotalSize(got))
<1> DEFINE k == Fitting(Cap)
           got == SubSeq(kq, 1, k)
<1>1. bytes = 0 /\ kq \in Seq(Events) /\ kq # << >> /\ evbuf \in Buffers
  BY DEF Inv, Control, TypeOK, Read, Buffers
<1>2. k \in 1..Len(kq) /\ TotalSize(got) <= Cap
  BY <1>1, FittingFits
<1>3. Min2(Max2(bytes, 0), Cap) = 0 /\ Cap - 0 = Cap
  BY <1>1 DEF Min2, Max2
<1>4. k > 0
  BY <1>1, <1>2
<1>5. got \in Seq(Events) /\ Len(got) = k
  <2> HIDE DEF k
  <2> QED
    BY <1>1, <1>2, SubSeqProperties
<1>6. /\ evbuf' = Written(got, 0) /\ this_bytes' = TotalSize(got)
      /\ kq' = SubSeq(kq, k + 1, Len(kq))
      /\ pc' = "advance" /\ UNCHANGED <<error, ret>>
  BY <1>3, <1>4 DEF Read
<1> HIDE DEF got
<1>7. /\ TotalSize(got) \in Nat /\ Written(got, 0) \in Buffers
      /\ \E P : Laid(got, P, Written(got, 0), 0, TotalSize(got))
  BY <1>1, <1>2, <1>5, LaidWritten
<1>8. TotalSize(got) # 0
  <2>1. PICK P : Laid(got, P, Written(got, 0), 0, TotalSize(got))
    BY <1>7
  <2>2. Len(got) > 0 <=> 0 < TotalSize(got)
    BY <2>1, LaidBounds, Zenon
  <2> QED
    BY <1>4, <1>5, <1>7, <2>2
<1> QED
  BY <1>2, <1>5, <1>6, <1>7, <1>8 DEF got

\* more_events takes the first event of the buffer.
LEMMA AdvanceEffect ==
  ASSUME ~Fanotify, Inv, Advance
  PROVE  \E s, P : LET e == Head(s) IN
         /\ Laid(s, P, evbuf, first_byte, BufferEnd)
         /\ s # << >> /\ e \in Events
         /\ bytes' = bytes + this_bytes /\ bytes' = BufferEnd
         /\ first_byte' = NextFirstByte(first_byte, e, bytes')
         /\ first_byte' \in Nat
         /\ first_byte' = 0 \/ first_byte' < bytes'
         /\ pc' = IF e.skip THEN "top" ELSE "out"
         /\ ret' = IF e.skip THEN ret ELSE "event"
         /\ delivered' = IF e.skip THEN delivered ELSE Append(delivered, e)
         /\ \E Q : Laid(Tail(s), Q, evbuf, first_byte', IF first_byte' = 0 THEN 0 ELSE bytes')
<1>1. /\ BufferEnd = bytes + this_bytes /\ bytes + this_bytes \in Nat
      /\ first_byte \in Nat /\ first_byte < BufferEnd
  BY DEF Inv, TypeOK, Control, Advance, BufferEnd
<1>2. PICK s, P : Laid(s, P, evbuf, first_byte, BufferEnd)
  BY DEF Inv, Layout
<1> DEFINE e == Head(s)
           Q == [k \in 1..Len(s) |-> P[k + 1]]
<1>3. /\ s # << >> /\ e = s[1] /\ e \in Events
      /\ first_byte \in DOMAIN evbuf /\ evbuf[first_byte] = e
      /\ e.size \in Nat /\ e.size >= 1 /\ first_byte + e.size <= BufferEnd
      /\ Laid(Tail(s), Q, evbuf, first_byte + e.size, BufferEnd)
      /\ first_byte + e.size = BufferEnd <=> Tail(s) = << >>
  <2> HIDE DEF e
  <2>1. /\ s # << >> /\ Head(s) = s[1] /\ s[1] \in Events
        /\ first_byte \in DOMAIN evbuf /\ evbuf[first_byte] = s[1]
        /\ s[1].size \in Nat /\ s[1].size >= 1 /\ first_byte + s[1].size <= BufferEnd
        /\ Laid(Tail(s), Q, evbuf, first_byte + s[1].size, BufferEnd)
        /\ first_byte + s[1].size = BufferEnd <=> Tail(s) = << >>
    BY <1>1, <1>2, LaidTail
  <2> QED
    BY <2>1 DEF e
<1> HIDE DEF e
<1>4. Decoded(first_byte) = {e}
  BY <1>3, NoEventAssumption DEF Decoded
<1>5. /\ bytes' = bytes + this_bytes
      /\ first_byte' = NextFirstByte(first_byte, e, bytes')
      /\ pc' = IF e.skip THEN "top" ELSE "out"
      /\ ret' = IF e.skip THEN ret ELSE "event"
      /\ delivered' = IF e.skip THEN delivered ELSE Append(delivered, e)
  BY <1>4 DEF Advance, Skipped, Return
<1>6. /\ first_byte' = IF first_byte + e.size = BufferEnd THEN 0 ELSE first_byte + e.size
      /\ bytes' = BufferEnd
  BY <1>1, <1>5 DEF NextFirstByte
<1>7. first_byte' \in Nat /\ (first_byte' = 0 \/ first_byte' < bytes')
  BY <1>1, <1>3, <1>6
<1>8. \E R : Laid(Tail(s), R, evbuf, first_byte', IF first_byte' = 0 THEN 0 ELSE bytes')
  <2>1. CASE first_byte + e.size = BufferEnd
    <3>1. first_byte' = 0 /\ Tail(s) = << >>
      BY <2>1, <1>3, <1>6
    <3>2. Laid(<< >>, [k \in 1..1 |-> 0], evbuf, 0, 0)
      BY LaidNothing
    <3> QED
      BY <3>1, <3>2
  <2>2. CASE first_byte + e.size # BufferEnd
    <3>1. first_byte' = first_byte + e.size /\ first_byte' # 0
      BY <2>2, <1>1, <1>3, <1>6
    <3> QED
      BY <3>1, <1>3, <1>6
  <2> QED
    BY <2>1, <2>2
<1> QED
  BY <1>2, <1>3, <1>5, <1>6, <1>7, <1>8 DEF e

\* The steps that are neither a read nor an advance.
QuietActions ==
  \/ Occur \/ init \/ cleanup
  \/ \E t \in BOOLEAN, w \in Wants : next_events(t, w)
  \/ Top \/ PollReady \/ PollTimeout \/ SysCallFails \/ Ioctl

\* What they leave true and unchanged.
QuietResult ==
  /\ TypeOK' /\ Control' /\ NullMeansTimeoutOrError'
  /\ evbuf' = evbuf /\ first_byte' = first_byte /\ BufferEnd' = BufferEnd

\* They leave what is buffered as it is.
LEMMA QuietSteps ==
  ASSUME Inv, QuietActions
  PROVE  QuietResult
<1> USE DEF Inv, QuietResult, BufferEnd, Control, NullMeansTimeoutOrError, TypeOK,
            handlevars, kernelvars, bufvars, callvars
<1>1. CASE Occur
  <2>1. kq' \in Seq(Events)
    <3>1. ASSUME NEW size \in 1..MaxSize, NEW skip \in BOOLEAN, NEW overflow \in BOOLEAN
          PROVE  Append(kq, [n |-> sent + 1, size |-> size, skip |-> skip,
                             overflow |-> overflow]) \in Seq(Events)
      <4>1. sent + 1 \in 1..MaxEvents
        BY <1>1, BoundsAssumption DEF Occur
      <4>2. [n |-> sent + 1, size |-> size, skip |-> skip, overflow |-> overflow] \in Events
        BY <4>1, Zenon DEF Events
      <4> QED
        BY <4>2
    <3>2. 1 \in 1..MaxSize
      OBVIOUS
    <3> QED
      BY <1>1, <3>1, <3>2 DEF Occur
  <2> QED
    BY <1>1, <2>1 DEF Occur
<1>2. CASE init
  BY <1>2, EventErrnosAssumption DEF init
<1>3. CASE cleanup
  <2>1. kq' \in Seq(Events)
    <3>1. << >> \in Seq(Events)
      OBVIOUS
    <3> QED
      BY <1>3, <3>1, Zenon DEF cleanup
  <2> QED
    BY <1>3, <2>1 DEF cleanup
<1>4. CASE \E t \in BOOLEAN, w \in Wants : next_events(t, w)
  BY <1>4, WantsAssumption DEF next_events, Return
<1>5. CASE Top
  <2>1. CASE HasEvent
    BY <1>5, <2>1, TopComplete DEF Top
  <2>2. CASE ~HasEvent
    BY <1>5, <2>2 DEF Top, HasEvent
  <2> QED
    BY <2>1, <2>2
<1>6. CASE PollReady
  BY <1>6 DEF PollReady
<1>7. CASE PollTimeout
  BY <1>7 DEF PollTimeout, Return
<1>8. CASE SysCallFails
  BY <1>8, EventErrnosAssumption DEF SysCallFails, Return
<1>9. CASE Ioctl
  BY <1>9 DEF Ioctl
<1> QED
  BY <1>1, <1>2, <1>3, <1>4, <1>5, <1>6, <1>7, <1>8, <1>9 DEF QuietActions

\* A read keeps the invariant and takes the events from the kernel to the
\* buffer in order.
LEMMA ReadStep ==
  ASSUME Inv, Read
  PROVE  Inv' /\ Buffered' \o kq' = Buffered \o kq
<1> DEFINE k == Fitting(Cap)
           got == SubSeq(kq, 1, k)
<1>1. /\ k \in 1..Len(kq)
      /\ got \in Seq(Events) /\ TotalSize(got) \in Nat \ {0} /\ TotalSize(got) <= Cap
      /\ evbuf' = Written(got, 0) /\ this_bytes' = TotalSize(got)
      /\ kq' = SubSeq(kq, k + 1, Len(kq))
      /\ pc' = "advance" /\ UNCHANGED <<error, ret>>
      /\ Written(got, 0) \in Buffers
      /\ \E P : Laid(got, P, Written(got, 0), 0, TotalSize(got))
  BY ReadEffect
<1>2. first_byte = 0 /\ bytes = 0 /\ open /\ pc = "read"
  BY DEF Inv, Control, Read
<1>3. UNCHANGED <<handlevars, sent, first_byte, bytes, callvars, delivered>>
  BY DEF Read
<1>4. kq \in Seq(Events) /\ evbuf \in Buffers
  BY DEF Inv, TypeOK, Buffers
<1>5. kq' \in Seq(Events) /\ got \o kq' = kq
  <2> HIDE DEF k
  <2>1. SubSeq(kq, k + 1, Len(kq)) \in Seq(Events)
    BY <1>1, <1>4, SubSeqProperties
  <2>2. SubSeq(kq, 1, k) \o SubSeq(kq, k + 1, Len(kq)) = kq
    BY <1>1, <1>4
  <2> QED
    BY <1>1, <2>1, <2>2
<1> HIDE DEF got, k
<1>6. TypeOK'
  <2>1. evbuf' \in [0..(Cap - 1) -> Events \cup {NoEvent}]
    BY <1>1 DEF Buffers
  <2> QED
    BY <1>1, <1>3, <1>5, <2>1 DEF Inv, TypeOK, handlevars, callvars
<1>7. BufferEnd = 0 /\ BufferEnd' = TotalSize(got)
  BY <1>1, <1>2, <1>3 DEF BufferEnd
<1>8. Control'
  BY <1>1, <1>2, <1>3, <1>7 DEF Control, handlevars
<1>9. PICK P : Laid(got, P, evbuf', first_byte', BufferEnd')
  BY <1>1, <1>2, <1>3, <1>7
<1>10. Layout'
  BY <1>9 DEF Layout
<1>11. NullMeansTimeoutOrError'
  BY <1>1 DEF NullMeansTimeoutOrError
<1>12. Buffered' = got
  <2>1. evbuf' \in Buffers
    BY <1>1
  <2>2. EventsOf(evbuf', first_byte', BufferEnd') = got
    BY <1>9, <2>1, LaidEvents
  <2> QED
    BY <2>2, BufferedIsEventsOfPrime
<1>13. Buffered = << >>
  <2>1. Laid(<< >>, [i \in 1..1 |-> 0], evbuf, 0, 0)
    BY LaidNothing
  <2>2. EventsOf(evbuf, 0, 0) = << >>
    BY <1>4, <2>1, LaidEvents
  <2> QED
    BY <1>2, <1>7, <2>2, BufferedIsEventsOf
<1>14. Buffered \o kq = kq
  BY <1>4, <1>13
<1> QED
  BY <1>5, <1>6, <1>8, <1>10, <1>11, <1>12, <1>14 DEF Inv

\* more_events keeps the invariant; it takes the first event of the buffer
\* and returns it unless it is to be skipped.
LEMMA AdvanceStep ==
  ASSUME ~Fanotify, Inv, Advance
  PROVE  /\ Inv'
         /\ Buffered \in Seq(Events) /\ Buffered # << >> /\ Buffered' = Tail(Buffered)
         /\ delivered' = IF Head(Buffered).skip THEN delivered
                                                ELSE Append(delivered, Head(Buffered))
<1>1. PICK s, P : LET e == Head(s) IN
         /\ Laid(s, P, evbuf, first_byte, BufferEnd)
         /\ s # << >> /\ e \in Events
         /\ bytes' = bytes + this_bytes /\ bytes' = BufferEnd
         /\ first_byte' = NextFirstByte(first_byte, e, bytes')
         /\ first_byte' \in Nat
         /\ first_byte' = 0 \/ first_byte' < bytes'
         /\ pc' = IF e.skip THEN "top" ELSE "out"
         /\ ret' = IF e.skip THEN ret ELSE "event"
         /\ delivered' = IF e.skip THEN delivered ELSE Append(delivered, e)
         /\ \E Q : Laid(Tail(s), Q, evbuf, first_byte', IF first_byte' = 0 THEN 0 ELSE bytes')
  BY AdvanceEffect
<1>2. UNCHANGED <<handlevars, kernelvars, evbuf, this_bytes, callvars, error>> /\ open
  BY DEF Advance, Inv, Control
<1>3. evbuf \in Buffers /\ s \in Seq(Events)
  BY <1>1 DEF Inv, TypeOK, Buffers, Laid
<1>4. Buffered = s
  <2>1. EventsOf(evbuf, first_byte, BufferEnd) = s
    BY <1>1, <1>3, LaidEvents
  <2> QED
    BY <2>1, BufferedIsEventsOf
<1>5. BufferEnd' = (IF first_byte' = 0 THEN 0 ELSE bytes') /\ BufferEnd' <= Cap
  <2>1. BufferEnd' = (IF first_byte' = 0 THEN 0 ELSE bytes')
    BY <1>1 DEF BufferEnd
  <2>2. BufferEnd <= Cap
    BY DEF Inv, Control
  <2> QED
    BY <1>1, <2>1, <2>2
<1>6. PICK Q : Laid(Tail(s), Q, evbuf', first_byte', BufferEnd')
  BY <1>1, <1>2, <1>5
<1>7. Buffered' = Tail(s)
  <2>1. EventsOf(evbuf', first_byte', BufferEnd') = Tail(s)
    <3>1. evbuf' \in Buffers
      BY <1>2, <1>3
    <3> QED
      BY <3>1, <1>6, LaidEvents
  <2> QED
    BY <2>1, BufferedIsEventsOfPrime
<1>8. TypeOK'
  <2>1. delivered' \in Seq(Events)
    BY <1>1 DEF Inv, TypeOK
  <2>2. bytes' \in Nat /\ first_byte' \in Nat
    BY <1>1 DEF Inv, TypeOK
  <2> QED
    BY <1>1, <1>2, <2>1, <2>2 DEF Inv, TypeOK, handlevars, kernelvars, callvars
<1>9. Control'
  BY <1>1, <1>2, <1>5 DEF Control, handlevars
<1>10. Layout'
  BY <1>6 DEF Layout
<1>11. NullMeansTimeoutOrError'
  BY <1>1 DEF NullMeansTimeoutOrError
<1> QED
  BY <1>1, <1>3, <1>4, <1>7, <1>8, <1>9, <1>10, <1>11 DEF Inv

\* What is pending is a sequence of events.
LEMMA BufferedType ==
  ASSUME Inv
  PROVE  Buffered \in Seq(Events) /\ kq \in Seq(Events)
<1>1. PICK s, P : Laid(s, P, evbuf, first_byte, BufferEnd)
  BY DEF Inv, Layout
<1>2. evbuf \in Buffers /\ s \in Seq(Events) /\ kq \in Seq(Events)
  BY <1>1 DEF Inv, TypeOK, Buffers, Laid
<1>3. EventsOf(evbuf, first_byte, BufferEnd) = s
  BY <1>1, <1>2, LaidEvents
<1> QED
  BY <1>2, <1>3, BufferedIsEventsOf

\* A quiet step keeps the invariant and the events in the buffer.
LEMMA QuietStepInv ==
  ASSUME Inv, QuietActions
  PROVE  Inv' /\ Buffered' = Buffered
BY QuietSteps, QuietStep DEF QuietResult, Inv

\* Every step keeps the invariant.
LEMMA NextInv ==
  ASSUME ~Fanotify, Inv, [Next]_vars
  PROVE  Inv'
<1>1. CASE QuietActions
  BY <1>1, QuietStepInv
<1>2. CASE Read
  BY <1>2, ReadStep
<1>3. CASE Advance
  BY <1>3, AdvanceStep
<1>4. CASE UNCHANGED vars
  <2>1. TypeOK' /\ Control' /\ NullMeansTimeoutOrError' /\ Layout'
    <3>1. BufferEnd' = BufferEnd
      BY <1>4 DEF vars, BufferEnd
    <3> QED
      BY <1>4, <3>1, QuietStep DEF vars, Inv, TypeOK, Control, NullMeansTimeoutOrError
  <2> QED
    BY <2>1 DEF Inv
<1> QED
  BY <1>1, <1>2, <1>3, <1>4 DEF Next, QuietActions

\* The inductive invariant holds in every state that next_events_raw, init,
\* cleanup and the kernel reach.
THEOREM Invariance ==
  ASSUME ~Fanotify
  PROVE  Spec => []Inv
<1>1. Init => Inv
  BY InitInv
<1>2. Inv /\ [Next]_vars => Inv'
  BY NextInv
<1> QED
  BY <1>1, <1>2, PTL DEF Spec

\* Every field of the handle and the kernel's queue keep their types; in
\* particular, next_events_raw only ever returns events the kernel queued.
THEOREM TypeCorrect ==
  ASSUME ~Fanotify
  PROVE  Spec => []TypeOK
<1>1. Inv => TypeOK
  BY DEF Inv
<1> QED
  BY <1>1, Invariance, PTL

\* A call of next_events_raw that was to block returns None only with error
\* set: the read of an empty buffer always finds room for an event.
THEOREM NullIsTimeoutOrError ==
  ASSUME ~Fanotify
  PROVE  Spec => []NullMeansTimeoutOrError
<1>1. Inv => NullMeansTimeoutOrError
  BY DEF Inv
<1> QED
  BY <1>1, Invariance, PTL

\* first_byte and bytes stay inside the buffer and at the boundaries of
\* events: the assertion of the code holds and its branch for an incomplete
\* event is never taken.
THEOREM CursorsStaySound ==
  ASSUME ~Fanotify
  PROVE  Spec => []CursorsSound
<1>1. Inv => CursorsSound
  <2> SUFFICES ASSUME Inv PROVE CursorsSound
    OBVIOUS
  <2>1. PICK s, P : Laid(s, P, evbuf, first_byte, BufferEnd)
    BY DEF Inv, Layout
  <2>2. first_byte <= BufferEnd
    BY <2>1, LaidBounds, Zenon
  <2>3. BufferEnd <= Cap /\ (pc = "read" => bytes = 0)
    BY DEF Inv, Control
  <2>4. \A k \in 1..Len(Buffered) : Buffered[k] \in Events
    BY BufferedType
  <2> QED
    BY <2>2, <2>3, <2>4, NoEventAssumption DEF CursorsSound
<1> QED
  BY <1>1, Invariance, PTL

\* Every step of the library is a step of the channel or leaves it alone.
LEMMA ChannelStep ==
  ASSUME ~Fanotify, Inv, [Next]_vars
  PROVE  [Channel!Next]_(Channel!vars)
<1> DEFINE b == Buffered
<1>0. b \in Seq(Events) /\ kq \in Seq(Events)
  BY BufferedType
<1>1. CASE QuietActions /\ kq' = kq /\ open' = open /\ delivered' = delivered
  BY <1>1, QuietStepInv DEF Channel!vars
<1>2. CASE Occur
  <2>1. Buffered' = b /\ open /\ open' = open /\ delivered' = delivered
    BY <1>2, QuietStepInv DEF QuietActions, Occur, handlevars
  <2>2. CASE kq' = kq
    BY <2>1, <2>2 DEF Channel!vars
  <2>3. CASE \E e \in Events : kq' = Append(kq, e)
    <3>1. PICK e \in Events : kq' = Append(kq, e)
      BY <2>3
    <3> HIDE DEF b
    <3>2. b \o Append(kq, e) = Append(b \o kq, e)
      BY <1>0
    <3>3. Channel!Post(e)
      BY <2>1, <3>1, <3>2 DEF Channel!Post, b
    <3> QED
      BY <3>3 DEF Channel!Next
  <2>4. kq' = kq \/ \E e \in Events : kq' = Append(kq, e)
    <3>1. sent + 1 \in 1..MaxEvents /\ 1 \in 1..MaxSize
      BY <1>2, BoundsAssumption DEF Occur, Inv, TypeOK
    <3>2. ASSUME NEW size \in 1..MaxSize, NEW skip \in BOOLEAN, NEW overflow \in BOOLEAN
          PROVE  [n |-> sent + 1, size |-> size, skip |-> skip, overflow |-> overflow] \in Events
      BY <3>1, Zenon DEF Events
    <3> QED
      BY <1>2, <3>1, <3>2 DEF Occur
  <2> QED
    BY <2>2, <2>3, <2>4
<1>3. CASE init
  <2>1. Buffered' = b /\ kq' = kq /\ delivered' = delivered
    BY <1>3, QuietStepInv DEF QuietActions, init, kernelvars
  <2>2. open' = open \/ (~open /\ open' = TRUE)
    BY <1>3 DEF init, handlevars
  <2> QED
    BY <2>1, <2>2 DEF Channel!vars, Channel!Next, Channel!Open
<1>4. CASE cleanup
  <2>1. Buffered' = b /\ kq' = << >> /\ delivered' = delivered /\ open /\ open' = FALSE
    BY <1>4, QuietStepInv DEF QuietActions, cleanup
  <2> HIDE DEF b
  <2>2. b \o << >> = b /\ SubSeq(b \o kq, 1, Len(b)) = b /\ Len(b) \in 0..Len(b \o kq)
    BY <1>0
  <2>3. Channel!Close
    BY <2>1, <2>2 DEF Channel!Close, b
  <2> QED
    BY <2>3 DEF Channel!Next
<1>5. CASE Read
  BY <1>5, ReadStep DEF Read, handlevars, Channel!vars
<1>6. CASE Advance
  <2>1. /\ b # << >> /\ Buffered' = Tail(b)
        /\ delivered' = IF Head(b).skip THEN delivered ELSE Append(delivered, Head(b))
    BY <1>6, AdvanceStep
  <2>2. open /\ open' = open /\ kq' = kq
    BY <1>6 DEF Advance, handlevars, kernelvars, Inv, Control
  <2> HIDE DEF b
  <2>3. /\ b \o kq # << >> /\ Tail(b) \o kq = Tail(b \o kq)
        /\ Head(b \o kq) = Head(b)
    BY <1>0, <2>1
  <2>4. Channel!Take
    BY <2>1, <2>2, <2>3 DEF Channel!Take, b
  <2> QED
    BY <2>4 DEF Channel!Next
<1>7. CASE UNCHANGED vars
  <2>1. Buffered' = b
    BY <1>7, QuietStep DEF vars, BufferEnd, Inv
  <2> QED
    BY <1>7, <2>1 DEF vars, Channel!vars
<1>8. ASSUME QuietActions, ~Occur, ~init, ~cleanup
      PROVE  kq' = kq /\ open' = open /\ delivered' = delivered
  BY <1>8 DEF QuietActions, next_events, Top, PollReady, PollTimeout, SysCallFails, Ioctl,
              handlevars, kernelvars
<1> QED
  BY <1>1, <1>2, <1>3, <1>4, <1>5, <1>6, <1>7, <1>8 DEF Next, QuietActions

\* next_events_raw over the kernel's queue is a FIFO channel: with the events
\* in the buffer followed by those in the queue as what is pending, every
\* step is a step of EventChannel or leaves it as it is.
THEOREM EventBufferIsChannel ==
  ASSUME ~Fanotify
  PROVE  Spec => FifoDelivery
<1>1. Init => Channel!Init
  <2> SUFFICES ASSUME Init PROVE Channel!Init
    OBVIOUS
  <2>1. evbuf \in Buffers /\ first_byte = 0 /\ BufferEnd = 0
    BY DEF Init, Buffers, BufferEnd
  <2>2. Laid(<< >>, [k \in 1..1 |-> 0], evbuf, 0, 0)
    BY LaidNothing
  <2>3. Buffered = << >>
    BY <2>1, <2>2, LaidEvents, BufferedIsEventsOf
  <2>4. << >> \o << >> = << >>
    OBVIOUS
  <2> QED
    BY <2>3, <2>4 DEF Init, Channel!Init
<1>2. Inv /\ [Next]_vars => [Channel!Next]_(Channel!vars)
  BY ChannelStep
<1> QED
  BY <1>1, <1>2, Invariance, PTL DEF Spec, FifoDelivery, Channel!Spec
=============================================================================
