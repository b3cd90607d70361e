-------------------------- MODULE StatsToolProofs ---------------------------
(***************************************************************************)
(* Proofs about inotifywatch and its statistics, for any watches, command  *)
(* lines, width of the counters and number of events and signals: the type *)
(* invariant, NoStatisticsLost, CountersAddUp, SortedAsAsked and           *)
(* TableComplete.                                                          *)
(***************************************************************************)
EXTENDS StatsTool, CollectionFacts

USE ModulusAssumption

(***************************************************************************)
(* The counters of a watch and the sort key.                               *)
(***************************************************************************)

\* The sum over the kinds of events is the sum of three counters.
LEMMA KindsTotal ==
  ASSUME NEW f, \A k \in Kinds : f[k] \in Nat
  PROVE  Total(f, Kinds) = f["access"] + f["modify"] + f["unmount"]
<1> DEFINE Two == {"access", "modify"}
<1>1. IsFiniteSet({}) /\ IsFiniteSet({"access"}) /\ IsFiniteSet(Two) /\ IsFiniteSet(Kinds)
  <2>1. IsFiniteSet({"access"}) /\ IsFiniteSet({})
    BY FS_Singleton, FS_EmptySet
  <2>2. Two = {"access"} \cup {"modify"} /\ Kinds = Two \cup {"unmount"}
    BY DEF Kinds
  <2>3. IsFiniteSet(Two)
    BY <2>1, <2>2, FS_AddElement
  <2> QED
    BY <2>1, <2>2, <2>3, FS_AddElement
<1>2. Kinds \ {"unmount"} = Two /\ Two \ {"modify"} = {"access"} /\ {"access"} \ {"access"} = {}
  BY DEF Kinds
<1>3. f["access"] \in Nat /\ f["modify"] \in Nat /\ f["unmount"] \in Nat
  BY DEF Kinds
<1>4. Total(f, Kinds) = f["unmount"] + Total(f, Two)
  BY <1>1, <1>2, TotalRemove DEF Kinds
<1>5. Total(f, Two) = f["modify"] + Total(f, {"access"})
  BY <1>1, <1>2, <1>3, TotalRemove
<1>6. Total(f, {"access"}) = f["access"] + Total(f, {})
  BY <1>1, <1>2, <1>3, TotalRemove
<1>7. Total(f, {}) = 0
  BY <1>1, TotalUnfold
<1> QED
  BY <1>3, <1>4, <1>5, <1>6, <1>7

\* A watch's counters are numbers.
LEMMA CounterNat ==
  ASSUME NEW c \in Counters, NEW k \in Keys
  PROVE  c[k] \in Nat /\ c[k] < Modulus
BY DEF Counters

\* The number watches_sorted_by_event compares.
LEMMA SortCountIs ==
  ASSUME stats \in [Wds -> Counters], NEW w \in Wds, NEW code \in Int
  PROVE  /\ SortCount(code, w) \in Nat
         /\ code \in {0, -1} => SortCount(code, w) = stats[w]["total"]
         /\ code = 1 => SortCount(code, w) = stats[w]["access"]
         /\ code \in {2, -2} => SortCount(code, w) = stats[w]["modify"]
         /\ code \in {8192, -8192} => SortCount(code, w) = stats[w]["unmount"]
         /\ code \in {192, -192} => SortCount(code, w) = 0
<1> DEFINE f == [k \in Kinds |-> IF Bit(k) \in {code, -code} THEN stats[w][k] ELSE 0]
<1>1. \A k \in Keys : stats[w][k] \in Nat
  BY CounterNat
<1>2. Bit("access") = 1 /\ Bit("modify") = 2 /\ Bit("unmount") = 8192
  BY DEF Bit
<1>3. /\ f["access"] = IF 1 \in {code, -code} THEN stats[w]["access"] ELSE 0
      /\ f["modify"] = IF 2 \in {code, -code} THEN stats[w]["modify"] ELSE 0
      /\ f["unmount"] = IF 8192 \in {code, -code} THEN stats[w]["unmount"] ELSE 0
  BY <1>2 DEF Kinds
<1>4. DOMAIN f = Kinds /\ \A k \in Kinds : f[k] \in Nat
  BY <1>1 DEF Keys
<1> HIDE DEF f
<1>5. SumFunction(f) = f["access"] + f["modify"] + f["unmount"]
  BY <1>4, KindsTotal, SumIsTotal DEF SumFunction
<1>6. SortCount(code, w) = IF code \in {0, -1} THEN stats[w]["total"] ELSE SumFunction(f)
  BY DEF SortCount, f
<1>7. {"access", "modify", "unmount", "total"} \subseteq Keys
  BY DEF Keys, Kinds
<1> QED
  BY <1>1, <1>3, <1>5, <1>6, <1>7

(***************************************************************************)
(* The table.                                                              *)
(***************************************************************************)

\* watches_sorted_by_event lists the watches in the order of Precedes, each
\* one once.
LEMMA SortedWatches ==
  ASSUME stats \in [Wds -> Counters], NEW ws \in SUBSET Wds, NEW code \in Int
  PROVE  LET q == watches_sorted_by_event(code, ws) IN
         /\ Cardinality(ws) \in Nat
         /\ q \in Bijection(1..Cardinality(ws), ws)
         /\ \A i, j \in 1..Cardinality(ws) : i < j => Precedes(code, q[i], q[j])
<1> DEFINE n == Cardinality(ws)
           R == {p \in ws \X ws : Precedes(code, p[1], p[2])}
           OK(q) == \A i, j \in DOMAIN q : i < j => Precedes(code, q[i], q[j])
<1>1. IsFiniteSet(ws) /\ n \in Nat /\ \A w \in ws : w \in Nat
  BY WdsAssumption, FS_Subset, FS_CardinalityType
<1>2. \A x, y \in ws : <<x, y>> \in R <=> Precedes(code, x, y)
  OBVIOUS
<1> HIDE DEF R
<1>3. StrictOrder(R, ws)
  <2> DEFINE c == [w \in ws |-> SortCount(code, w)]
  <2>1. \A w \in ws : c[w] = SortCount(code, w) /\ c[w] \in Nat
    BY SortCountIs
  <2> HIDE DEF c
  <2>2. \A x, y \in ws : Precedes(code, x, y) <=>
          IF c[x] = c[y] THEN x < y ELSE IF code >= 0 THEN c[x] < c[y] ELSE c[y] < c[x]
    BY <2>1 DEF Precedes
  <2>3. \A x \in ws : ~Precedes(code, x, x)
    BY <1>1, <2>1, <2>2
  <2>4. \A x, y \in ws : x # y => Precedes(code, x, y) \/ Precedes(code, y, x)
    BY <1>1, <2>1, <2>2
  <2>5. \A x, y, z \in ws : Precedes(code, x, y) /\ Precedes(code, y, z) => Precedes(code, x, z)
    BY <1>1, <2>1, <2>2
  <2> QED
    BY <1>2, <2>3, <2>4, <2>5 DEF StrictOrder
<1>4. PICK q : Sorts(q, R, ws)
  BY <1>1, <1>3, SortedExists
<1>5. q \in [1..n -> ws] /\ \A i, j \in 1..n : i < j => <<q[i], q[j]>> \in R
  BY <1>4 DEF Sorts
<1>6. OK(q)
  BY <1>2, <1>5
<1>7. q \in SetToSeqs(ws)
  <2>1. ASSUME NEW i \in 1..n, NEW j \in 1..n, i # j PROVE q[i] # q[j]
    <3>1. i < j \/ j < i
      BY <1>1, <2>1
    <3>2. <<q[i], q[j]>> \in R \/ <<q[j], q[i]>> \in R
      BY <1>5, <3>1
    <3> QED
      BY <1>3, <1>5, <3>2 DEF StrictOrder
  <2> QED
    BY <1>5, <2>1 DEF SetToSeqs
<1> DEFINE r == watches_sorted_by_event(code, ws)
<1>8. r \in SetToSeqs(ws) /\ OK(r)
  <2> HIDE DEF OK
  <2>1. r = CHOOSE s \in SetToSeqs(ws) : OK(s)
    BY DEF watches_sorted_by_event, OK
  <2> QED
    BY <1>6, <1>7, <2>1, Zenon
<1> HIDE DEF r
<1>9. r \in [1..n -> ws] /\ \A i, j \in 1..n : i # j => r[i] # r[j]
  BY <1>8 DEF SetToSeqs
<1>10. r \in Bijection(1..n, ws)
  <2>1. r \in Injection(1..n, ws)
    BY <1>9 DEF Injection, IsInjective
  <2>2. IsFiniteSet(1..n) /\ Cardinality(1..n) = n
    BY <1>1, FS_Interval
  <2>3. r \in Surjection(1..n, ws)
    BY <1>1, <2>1, <2>2, FS_Injection
  <2> QED
    BY <2>1, <2>3 DEF Bijection
<1> QED
  BY <1>1, <1>8, <1>9, <1>10 DEF r

(***************************************************************************)
(* Type correctness.                                                       *)
(***************************************************************************)

\* The last of the options.
LEMMA LastIn ==
  ASSUME NEW S, NEW q \in Seq(S), q # << >>
  PROVE  Last(q) \in S
<1>1. Len(q) \in Nat /\ Len(q) # 0
  BY EmptySeq, LenProperties
<1>2. Len(q) \in 1..Len(q)
  BY <1>1
<1> QED
  BY <1>2, ElementOfSeq DEF Last

\* Counting keeps the counters numbers.
LEMMA CountOneType ==
  ASSUME NEW c \in [Keys -> Nat], NEW mask
  PROVE  CountOne(c, mask) \in [Keys -> Nat]
BY DEF CountOne

\* WatchStats::record keeps the width of the counters.
LEMMA RecordType ==
  ASSUME NEW c \in Counters, NEW mask
  PROVE  Record(c, mask) \in Counters
<1>1. \A k \in Keys : CountOne(c, mask)[k] \in Nat
  BY CounterNat DEF CountOne
<1>2. \A k \in Keys : CountOne(c, mask)[k] % Modulus \in 0..(Modulus - 1)
  BY <1>1
<1> QED
  BY <1>2 DEF Record, Counters

\* The tables printed.
Rows == Seq([wd : Wds, stats : Counters])

\* print_info prints rows of watches.
LEMMA PrintedType ==
  ASSUME stats \in [Wds -> Counters], by_wd \subseteq Wds, sort \in Int
  PROVE  Printed.columns \subseteq Kinds /\ Printed.rows \in Rows
<1>1. CASE totals["total"] = 0
  <2>1. << >> \in Rows
    BY DEF Rows
  <2> QED
    BY <1>1, <2>1 DEF Printed, NoTable
<1>2. CASE totals["total"] # 0
  <2> DEFINE ws == {w \in by_wd : ShowsRow(w)}
             q == watches_sorted_by_event(sort, ws)
             n == Cardinality(ws)
             rows == [i \in DOMAIN q |-> [wd |-> q[i], stats |-> stats[q[i]]]]
  <2>1. ws \in SUBSET Wds
    OBVIOUS
  <2>2. Printed = [columns |-> {k \in Kinds : ShowsColumn(k)}, rows |-> rows]
    BY <1>2 DEF Printed
  <2> HIDE DEF ws
  <2>3. n \in Nat /\ q \in Bijection(1..n, ws)
    BY <2>1, SortedWatches
  <2> HIDE DEF q, n
  <2>4. q \in [1..n -> ws]
    BY <2>3 DEF Bijection, Injection
  <2>5. \A i \in 1..n : [wd |-> q[i], stats |-> stats[q[i]]] \in [wd : Wds, stats : Counters]
    BY <2>1, <2>4
  <2>6. rows \in [1..n -> [wd : Wds, stats : Counters]]
    BY <2>4, <2>5
  <2>7. rows \in Rows
    <3> HIDE DEF rows
    <3> QED
      BY <2>3, <2>6, ListIsSeq DEF Rows
  <2> HIDE DEF rows
  <2> QED
    BY <2>2, <2>7
<1> QED
  BY <1>1, <1>2

\* A command line has the shape of its options.
LEMMA CommandType ==
  ASSUME cmd \in Commands
  PROVE  /\ cmd.sorts \in Seq([dir : {"a", "d"}, key : SortKeys])
         /\ cmd.zero \in BOOLEAN /\ cmd.events \subseteq Kinds
         /\ Events \subseteq Kinds
BY CommandsAssumption DEF Events, AllEvents

\* Sort codes are numbers.
LEMMA SortCodeType ==
  ASSUME NEW arg \in [dir : {"a", "d"}, key : SortKeys]
  PROVE  SortCode(arg) \in Int
BY DEF SortCode, Bit, SortKeys, Keys, Kinds

\* The types hold initially.
LEMMA TypeInit == Init => TypeOK
<1> SUFFICES ASSUME Init PROVE TypeOK
  OBVIOUS
<1>1. Zero \in Counters /\ Zero \in [Keys -> Nat]
  BY DEF Zero, Counters
<1>2. stats \in [Wds -> Counters]
  BY <1>1 DEF Init
<1>3. handler \in [Signals -> {"default", "impatient", "handle_signal", "print_info_now"}]
  BY DEF Init
<1>4. table.columns \subseteq Kinds /\ table.rows \in Seq([wd : Wds, stats : Counters])
  BY DEF Init, NoTable
<1>5. kq \in Seq(KernelEvents)
  BY DEF Init
<1>6. used \subseteq Wds /\ by_wd \subseteq used
  BY DEF Init
<1>7. TIMES_CALLED \in 0..1 /\ signals \in Nat /\ sent \in Nat /\ sort \in Int
  BY DEF Init
<1> QED
  BY <1>1, <1>2, <1>3, <1>4, <1>5, <1>6, <1>7, Zenon DEF Init, TypeOK

\* A handler changes the flags and the control point only.
LEMMA HandleType ==
  ASSUME TypeOK, NEW s \in Signals, Handle(s)
  PROVE  /\ DONE' \in BOOLEAN /\ PRINT_NOW' \in BOOLEAN /\ TIMES_CALLED' \in 0..1
         /\ pc' \in {pc, "print2", "exit"}
         /\ got' \in {"event", "eintr", "zero", "error"}
         /\ status' \in {"none", "0", "1", "2", "killed"}
<1>1. Interrupt => /\ pc' \in {pc, "print2"} /\ status' = status
                   /\ got' \in {got, "eintr"}
  BY DEF Interrupt
<1>2. CASE handler[s] = "default"
  BY <1>2 DEF TypeOK, Handle, Exit
<1>3. CASE handler[s] # "default"
  <2>1. DONE' \in BOOLEAN /\ PRINT_NOW' \in BOOLEAN
    BY <1>3, Zenon DEF TypeOK, Handle
  <2>2. TIMES_CALLED' \in 0..1
    BY <1>3 DEF TypeOK, Handle
  <2>3. Interrupt \/ (Exit("1") /\ UNCHANGED got)
    BY <1>3 DEF Handle
  <2>4. /\ pc' \in {pc, "print2", "exit"}
        /\ got' \in {"event", "eintr", "zero", "error"}
        /\ status' \in {"none", "0", "1", "2", "killed"}
    BY <1>1, <2>3 DEF TypeOK, Exit
  <2> QED
    BY <2>1, <2>2, <2>4
<1> QED
  BY <1>2, <1>3

\* Every step keeps the types.
LEMMA TypeStep ==
  ASSUME TypeOK, [Next]_vars
  PROVE  TypeOK'
<1> USE DEF sigvars, kernelvars, statvars, outvars
<1>0. by_wd \subseteq Wds /\ Zero \in Counters
  BY DEF TypeOK, Zero, Counters
<1>1. CASE parse_opts
  <2>1. sort' \in Int
    <3>1. CASE cmd.sorts = << >>
      BY <1>1, <3>1 DEF parse_opts, TypeOK
    <3>2. CASE cmd.sorts # << >>
      <4>1. Last(cmd.sorts) \in [dir : {"a", "d"}, key : SortKeys]
        <5>1. cmd.sorts \in Seq([dir : {"a", "d"}, key : SortKeys])
          BY CommandType DEF TypeOK
        <5> QED
          BY <3>2, <5>1, LastIn
      <4> QED
        BY <1>1, <3>2, <4>1, SortCodeType DEF parse_opts
    <3> QED
      BY <3>1, <3>2
  <2> QED
    BY <1>1, <2>1 DEF parse_opts, Exit, TypeOK
<1>2. CASE Establish
  BY <1>2 DEF Establish, Exit, TypeOK
<1>3. CASE Install
  <2>1. handler' \in [Signals -> {"default", "impatient", "handle_signal", "print_info_now"}]
    BY <1>3 DEF Install, TypeOK, NewHandler
  <2>2. pc' \in {"install", "stats"} /\ alarm' \in {"off", "armed", "fired"}
    BY <1>3 DEF Install, TypeOK
  <2> QED
    BY <1>3, <2>1, <2>2 DEF Install, TypeOK
<1>4. CASE initialize_stats
  BY <1>0, <1>4 DEF initialize_stats, TypeOK
<1>5. ASSUME NEW from, NEW to \in {"call", "dispatch"}, CheckPrintNow(from, to)
      PROVE  TypeOK'
  <2>1. table'.columns \subseteq Kinds /\ table'.rows \in Seq([wd : Wds, stats : Counters])
    BY <1>0, <1>5, PrintedType DEF CheckPrintNow, TypeOK, Rows
  <2> QED
    BY <1>5, <2>1 DEF CheckPrintNow, TypeOK
<1>6. CASE Sleep
  BY <1>6 DEF Sleep, TypeOK
<1>7. CASE Receive
  <2> DEFINE e == Head(kq)
  <2>1. e \in KernelEvents /\ kq' \in Seq(KernelEvents)
    BY <1>7 DEF Receive, TypeOK
  <2> HIDE DEF e
  <2>3. stats' \in [Wds -> Counters] /\ totals' \in Counters /\ counted' \in [Keys -> Nat]
    <3>1. CASE UNCHANGED <<stats, totals, counted>>
      BY <3>1 DEF TypeOK
    <3>2. CASE e.wd \in by_wd /\ record_stats(e)
      <4>1. stats[e.wd] \in Counters /\ Record(stats[e.wd], e.mask) \in Counters
        BY <1>0, <3>2, RecordType DEF TypeOK
      <4>2. stats' \in [Wds -> Counters]
        BY <3>2, <4>1 DEF record_stats, TypeOK
      <4>3. totals' \in Counters
        BY <3>2, RecordType DEF record_stats, TypeOK
      <4>4. counted' \in [Keys -> Nat]
        BY <3>2, CountOneType DEF record_stats, TypeOK
      <4> QED
        BY <4>2, <4>3, <4>4
    <3> QED
      BY <1>7, <3>1, <3>2 DEF Receive, record_stats, e
  <2>4. pc' \in {"call", "print2"} /\ got' \in {got, "event"}
    BY <1>7 DEF Receive
  <2> QED
    BY <1>7, <2>1, <2>3, <2>4 DEF Receive, TypeOK
<1>8. CASE Dispatch
  <2>1. gone' \in Counters
    <3>1. ASSUME NEW w \in by_wd
          PROVE  [k \in Keys |-> (gone[k] + stats[w][k]) % Modulus] \in Counters
      <4>1. \A k \in Keys : (gone[k] + stats[w][k]) % Modulus \in 0..(Modulus - 1)
        BY <1>0, CounterNat DEF TypeOK
      <4> QED
        BY <4>1 DEF Counters
    <3> QED
      BY <1>8, <3>1 DEF Dispatch, TypeOK
  <2>2. used' \subseteq Wds /\ by_wd' \subseteq used'
    BY <1>8 DEF Dispatch, TypeOK
  <2>3. pc' \in {"exit", "done"} /\ status' \in {status, "1", "2"}
    BY <1>8 DEF Dispatch, Exit
  <2> QED
    BY <1>8, <2>1, <2>2, <2>3 DEF Dispatch, TypeOK
<1>9. CASE TestDone
  <2>1. table'.columns \subseteq Kinds /\ table'.rows \in Seq([wd : Wds, stats : Counters])
    BY <1>0, <1>9, PrintedType DEF TestDone, TypeOK, Rows
  <2> QED
    BY <1>9, <2>1 DEF TestDone, Exit, TypeOK
<1>10. CASE Fail
  BY <1>10 DEF Fail, TypeOK
<1>11. CASE Occur
  <2>1. PICK event \in Arrivals : kq' = Append(kq, event)
    BY <1>11 DEF Occur
  <2>2. event.mask \subseteq Kinds
    <3>1. Events \subseteq Kinds /\ {"unmount"} \subseteq Kinds
      BY CommandType DEF TypeOK, Kinds
    <3>2. event.mask \in (SUBSET Events) \cup {{"unmount"}} \/ event.mask \in {{}}
      BY DEF Arrivals
    <3> QED
      BY <3>1, <3>2
  <2>3. /\ event.wd \in Wds \cup {NoWd} /\ event.skip \in BOOLEAN
        /\ event = [wd |-> event.wd, mask |-> event.mask, skip |-> event.skip]
    BY <1>0 DEF Arrivals
  <2>4. event \in KernelEvents
    BY <2>2, <2>3, Zenon DEF KernelEvents
  <2>5. kq' \in Seq(KernelEvents)
    BY <2>1, <2>4 DEF TypeOK
  <2> QED
    BY <1>11, <2>5 DEF Occur, TypeOK
<1>12. CASE AlarmFires
  BY <1>12, HandleType DEF AlarmFires, TypeOK, Signals
<1>13. ASSUME NEW s \in Signals \ {"ALRM"}, UserSignal(s)
       PROVE  TypeOK'
  BY <1>13, HandleType DEF UserSignal, TypeOK
<1>14. CASE UNCHANGED vars
  BY <1>14 DEF vars, TypeOK
<1> QED
  BY <1>1, <1>2, <1>3, <1>4, <1>5, <1>6, <1>7, <1>8, <1>9, <1>10, <1>11, <1>12, <1>13, <1>14
     DEF Next, Program

\* Every variable has its type in every reachable state.
THEOREM TypeCorrect == Spec => []TypeOK
BY TypeInit, TypeStep, PTL DEF Spec

(***************************************************************************)
(* Signals: from the statistics on, no signal has an action that ends the  *)
(* process, and the alarm is set only once SIGALRM has a handler.          *)
(***************************************************************************)
Before == {"parse", "establish", "install", "stats"}
Running == {"stats", "print1", "call", "ppoll", "print2", "dispatch", "done"}

\* What ends the process, the second time or at once.
Ending == {"default", "impatient"}

HandlersReplaced ==
  /\ pc \in Running => \A s \in Signals \ {"ALRM"} : handler[s] \notin Ending
  /\ alarm = "armed" => handler["ALRM"] \notin Ending

\* The process has a status once it has ended.
Ended == pc # "exit" => status = "none"

Control == TypeOK /\ HandlersReplaced /\ Ended

\* The handlers are the initial ones.
LEMMA ControlInit == Init => Control
<1> SUFFICES ASSUME Init PROVE Control
  OBVIOUS
<1>1. TypeOK
  BY TypeInit
<1>2. pc \notin Running /\ alarm # "armed" /\ status = "none"
  BY DEF Init, Running
<1> QED
  BY <1>1, <1>2 DEF Control, HandlersReplaced, Ended

\* A signal changes the control point, or ends the process.
LEMMA HandleEffect ==
  ASSUME TypeOK, NEW s \in Signals, Handle(s)
  PROVE  \/ pc' = "exit" /\ status' \in {"1", "killed"} /\ handler[s] \in Ending
         \/ status' = status /\ (pc' = pc \/ (pc = "ppoll" /\ pc' = "print2"))
<1>1. Interrupt => status' = status /\ (pc' = pc \/ (pc = "ppoll" /\ pc' = "print2"))
  BY DEF Interrupt
<1>2. \/ handler[s] \in Ending /\ (Exit("killed") \/ Exit("1"))
      \/ Interrupt
  BY DEF Handle, Ending
<1> QED
  BY <1>1, <1>2 DEF Exit

\* A handler once replaced is not put back, by any step.
LEMMA ControlStep ==
  ASSUME Control, [Next]_vars
  PROVE  Control'
<1> USE DEF sigvars, kernelvars, statvars, outvars, Running
<1>0. TypeOK /\ HandlersReplaced /\ Ended /\ TypeOK'
  BY TypeStep DEF Control
<1> SUFFICES HandlersReplaced' /\ Ended'
  BY <1>0 DEF Control
<1>1. CASE parse_opts
  BY <1>0, <1>1 DEF parse_opts, Exit, HandlersReplaced, Ended
<1>2. CASE Establish
  BY <1>0, <1>2 DEF Establish, Exit, HandlersReplaced, Ended
<1>3. CASE Install
  <2>1. Ended'
    BY <1>0, <1>3 DEF Install, Ended
  <2>2. CASE \A k \in 1..Len(Startup) : Finished(Startup[k])
    <3>1. \A s \in {"INT", "HUP", "TERM", "USR1"} : \E k \in 1..Len(Startup) : Startup[k] = s
      BY TimeoutAssumption DEF Startup
    <3>2. \A s \in Signals \ {"ALRM"} : handler[s] = NewHandler(s)
      BY <2>2, <3>1 DEF Finished, Signals
    <3>3. UNCHANGED <<handler, alarm>>
      BY <1>3, <2>2 DEF Install
    <3> QED
      BY <1>0, <2>1, <3>2, <3>3 DEF HandlersReplaced, NewHandler, Ending
  <2>3. ASSUME NEW k \in 1..Len(Startup), Startup[k] = "alarm",
               \A j \in 1..(k - 1) : Finished(Startup[j]), UNCHANGED <<handler, pc>>
        PROVE  HandlersReplaced'
    <3>1. \E j \in 1..(k - 1) : Startup[j] = "ALRM"
      BY <2>3, TimeoutAssumption DEF Startup
    <3>2. handler["ALRM"] = "handle_signal"
      BY <2>3, <3>1 DEF Finished, NewHandler
    <3> QED
      BY <1>0, <2>3, <3>2 DEF HandlersReplaced, Ending
  <2>4. ASSUME NEW k \in 1..Len(Startup), Startup[k] # "alarm", UNCHANGED <<alarm, pc>>,
               handler' = [handler EXCEPT ![Startup[k]] = NewHandler(Startup[k])]
        PROVE  HandlersReplaced'
    <3>1. \A s \in Signals : handler[s] \notin Ending => handler'[s] \notin Ending
      BY <1>0, <2>4 DEF NewHandler, TypeOK, Ending
    <3> QED
      BY <1>0, <2>4, <3>1 DEF HandlersReplaced, Signals
  <2> QED
    BY <1>3, <2>1, <2>2, <2>3, <2>4 DEF Install
<1>4. CASE initialize_stats
  BY <1>0, <1>4 DEF initialize_stats, HandlersReplaced, Ended
<1>5. CASE CheckPrintNow("print1", "call") \/ CheckPrintNow("print2", "dispatch")
  BY <1>0, <1>5 DEF CheckPrintNow, HandlersReplaced, Ended
<1>6. CASE Sleep
  BY <1>0, <1>6 DEF Sleep, HandlersReplaced, Ended
<1>7. CASE Receive
  BY <1>0, <1>7 DEF Receive, HandlersReplaced, Ended
<1>8. CASE Dispatch
  BY <1>0, <1>8 DEF Dispatch, Exit, HandlersReplaced, Ended
<1>9. CASE TestDone
  BY <1>0, <1>9 DEF TestDone, Exit, HandlersReplaced, Ended
<1>10. CASE Fail
  BY <1>0, <1>10 DEF Fail, HandlersReplaced, Ended
<1>11. CASE Occur
  BY <1>0, <1>11 DEF Occur, HandlersReplaced, Ended
<1>12. CASE AlarmFires
  BY <1>0, <1>12, HandleEffect DEF AlarmFires, HandlersReplaced, Ended, Signals
<1>13. ASSUME NEW s \in Signals \ {"ALRM"}, UserSignal(s)
       PROVE  HandlersReplaced' /\ Ended'
  BY <1>0, <1>13, HandleEffect DEF UserSignal, HandlersReplaced, Ended
<1>14. CASE UNCHANGED vars
  BY <1>0, <1>14 DEF vars, HandlersReplaced, Ended
<1> QED
  BY <1>1, <1>2, <1>3, <1>4, <1>5, <1>6, <1>7, <1>8, <1>9, <1>10, <1>11, <1>12, <1>13, <1>14
     DEF Next, Program

(***************************************************************************)
(* What a step does to the counters.                                       *)
(***************************************************************************)

\* Nothing, and the start is not over unless it was.
Keeps ==
  /\ UNCHANGED <<used, by_wd, stats, totals, counted, gone>>
  /\ pc' \in Before => pc \in Before

\* An event is counted for the watch it belongs to.
Counts ==
  /\ pc = "ppoll" /\ pc' = "print2"
  /\ kq # << >> /\ Head(kq).wd \in by_wd /\ record_stats(Head(kq))
  /\ UNCHANGED <<used, by_wd, gone>>

\* A watch is removed, or added.
Removes(w) ==
  /\ w \in by_wd /\ by_wd' = by_wd \ {w}
  /\ gone' = [k \in Keys |-> (gone[k] + stats[w][k]) % Modulus]
  /\ pc' = "done"
  /\ UNCHANGED <<used, stats, totals, counted>>
Adds(w) ==
  /\ w \in Wds \ used /\ used' = used \cup {w} /\ by_wd' = by_wd \cup {w}
  /\ pc' = "done"
  /\ UNCHANGED <<stats, totals, counted, gone>>

\* One of these is all a step does to them.
LEMMA CountingCases ==
  ASSUME TypeOK, [Next]_vars
  PROVE  \/ Keeps
         \/ Establish
         \/ initialize_stats
         \/ Counts
         \/ \E w \in Wds : Removes(w) \/ Adds(w)
<1> USE DEF sigvars, kernelvars, statvars, outvars, Before
<1>1. CASE parse_opts
  BY <1>1 DEF parse_opts, Exit, Keeps
<1>2. CASE Install
  BY <1>2 DEF Install, Keeps
<1>3. CASE CheckPrintNow("print1", "call") \/ CheckPrintNow("print2", "dispatch")
  BY <1>3 DEF CheckPrintNow, Keeps
<1>4. CASE Sleep \/ Fail
  BY <1>4 DEF Sleep, Fail, Keeps
<1>5. CASE Receive
  BY <1>5 DEF Receive, record_stats, Keeps, Counts
<1>6. CASE Dispatch
  <2>1. by_wd \subseteq Wds
    BY DEF TypeOK
  <2>2. /\ UNCHANGED <<stats, totals, counted>> /\ pc' \in {"exit", "done"}
        /\ \/ UNCHANGED <<used, by_wd, gone>>
           \/ \E w \in by_wd :
                /\ by_wd' = by_wd \ {w} /\ pc' = "done" /\ UNCHANGED used
                /\ gone' = [k \in Keys |-> (gone[k] + stats[w][k]) % Modulus]
           \/ \E w \in Wds \ used :
                used' = used \cup {w} /\ by_wd' = by_wd \cup {w} /\ pc' = "done" /\ UNCHANGED gone
    BY <1>6 DEF Dispatch, Exit
  <2> QED
    BY <2>1, <2>2 DEF Keeps, Removes, Adds
<1>7. CASE TestDone
  BY <1>7 DEF TestDone, Exit, Keeps
<1>8. CASE Occur
  BY <1>8 DEF Occur, Keeps
<1>9. CASE AlarmFires
  BY <1>9, HandleEffect DEF AlarmFires, Keeps, Signals
<1>10. ASSUME NEW s \in Signals \ {"ALRM"}, UserSignal(s)
       PROVE  Keeps
  BY <1>10, HandleEffect DEF UserSignal, Keeps
<1>11. CASE UNCHANGED vars
  BY <1>11 DEF vars, Keeps
<1> QED
  BY <1>1, <1>2, <1>3, <1>4, <1>5, <1>6, <1>7, <1>8, <1>9, <1>10, <1>11
     DEF Next, Program

\* Before the loop nothing is counted, and a watch that was never there has
\* no counts.
Unused ==
  /\ pc \in Before =>
       /\ counted = Zero /\ totals = Zero /\ gone = Zero
       /\ \A w \in Wds : stats[w] = Zero
  /\ \A w \in Wds \ used : stats[w] = Zero

\* The invariant of the first two theorems.
Counted == Control /\ Unused /\ NoStatisticsLost

\* Nothing is counted initially.
LEMMA CountedInit == Init => Counted
<1> SUFFICES ASSUME Init PROVE Counted
  OBVIOUS
<1>1. Control
  BY ControlInit
<1>2. \A w \in Wds : stats[w] = Zero
  BY DEF Init
<1>3. counted = Zero /\ totals = Zero /\ gone = Zero /\ status = "none"
  BY DEF Init
<1> QED
  BY <1>1, <1>2, <1>3 DEF Counted, Unused, NoStatisticsLost

\* Events are counted in the loop, where no signal ends the process.
LEMMA CountedStep ==
  ASSUME Counted, [Next]_vars
  PROVE  Counted'
<1> USE DEF sigvars, kernelvars, statvars, outvars
<1>0. Control /\ Control' /\ TypeOK /\ Unused /\ NoStatisticsLost
  BY ControlStep DEF Counted, Control
<1>1. Unused'
  <2>1. CASE Keeps
    BY <1>0, <2>1 DEF Unused, Keeps
  <2>2. CASE Establish
    <3>1. pc \in Before
      BY <2>2 DEF Establish, Before
    <3> QED
      BY <1>0, <2>2, <3>1 DEF Unused, Establish
  <2>3. CASE initialize_stats
    BY <1>0, <2>3 DEF Unused, initialize_stats, Before
  <2>4. CASE Counts
    <3>1. pc' \notin Before
      BY <2>4 DEF Counts, Before
    <3>2. \A w \in Wds \ used : stats'[w] = stats[w]
      BY <1>0, <2>4 DEF Counts, record_stats, TypeOK
    <3> QED
      BY <1>0, <2>4, <3>1, <3>2 DEF Unused, Counts
  <2>5. ASSUME NEW w \in Wds, Removes(w) \/ Adds(w) PROVE Unused'
    <3>1. pc' \notin Before /\ used \subseteq used' /\ UNCHANGED stats
      BY <2>5 DEF Removes, Adds, Before
    <3> QED
      BY <1>0, <3>1 DEF Unused
  <2> QED
    BY <1>0, <2>1, <2>2, <2>3, <2>4, <2>5, CountingCases
<1>2. NoStatisticsLost'
  <2>1. CASE pc \in Before
    <3>1. counted = Zero /\ ~Counts
      BY <1>0, <2>1 DEF Unused, Counts, Before
    <3>2. UNCHANGED counted
      BY <1>0, <3>1, CountingCases DEF Keeps, Establish, initialize_stats, Removes, Adds
    <3> QED
      BY <3>1, <3>2 DEF NoStatisticsLost, Zero
  <2>2. CASE pc = "exit"
    <3>1. UNCHANGED vars
      BY <2>2 DEF Next, Program, parse_opts, Establish, Install, initialize_stats, CheckPrintNow,
                  Sleep, Receive, Dispatch, TestDone, Fail, Occur, AlarmFires, UserSignal
    <3>2. UNCHANGED <<counted, status, got>>
      BY <3>1 DEF vars
    <3> QED
      BY <1>0, <3>2 DEF NoStatisticsLost, Zero
  <2>3. CASE pc \notin Before \cup {"exit"}
    <3>1. status = "none" /\ pc \in Running
      BY <1>0, <2>3 DEF Control, Ended, TypeOK, Running, Before
    <3>2. CASE AlarmFires
      <4>1. handler["ALRM"] \notin Ending
        BY <1>0, <3>2 DEF AlarmFires, Control, HandlersReplaced
      <4> QED
        BY <1>0, <3>1, <3>2, <4>1, HandleEffect DEF AlarmFires, NoStatisticsLost, Signals
    <3>3. ASSUME NEW s \in Signals \ {"ALRM"}, UserSignal(s) PROVE NoStatisticsLost'
      <4>1. handler[s] \notin Ending
        BY <1>0, <3>1, <3>3 DEF Control, HandlersReplaced
      <4> QED
        BY <1>0, <3>1, <3>3, <4>1, HandleEffect DEF UserSignal, NoStatisticsLost
    <3>4. CASE Dispatch
      BY <3>1, <3>4 DEF Dispatch, Exit, NoStatisticsLost
    <3>5. CASE TestDone
      BY <3>1, <3>5 DEF TestDone, Exit, NoStatisticsLost
    <3>6. CASE parse_opts \/ Establish
      BY <2>3, <3>6 DEF parse_opts, Establish, Before
    <3>7. CASE Install \/ initialize_stats \/ Sleep \/ Receive \/ Fail \/ Occur
      BY <3>1, <3>7
         DEF Install, initialize_stats, Sleep, Receive, Fail, Occur, NoStatisticsLost
    <3>8. CASE CheckPrintNow("print1", "call") \/ CheckPrintNow("print2", "dispatch")
      BY <3>1, <3>8 DEF CheckPrintNow, NoStatisticsLost
    <3>9. CASE UNCHANGED vars
      BY <3>1, <3>9 DEF vars, NoStatisticsLost
    <3> QED
      BY <3>2, <3>3, <3>4, <3>5, <3>6, <3>7, <3>8, <3>9 DEF Next, Program
  <2> QED
    BY <2>1, <2>2, <2>3
<1> QED
  BY <1>0, <1>1, <1>2 DEF Counted

\* Once an event has been counted, only the end of the loop and a call of
\* next_event that fails end the process: no signal does so without the
\* table, for any number of signals and at any moment.
THEOREM StatisticsNotLost == Spec => []NoStatisticsLost
<1>1. Spec => []Counted
  BY CountedInit, CountedStep, PTL DEF Spec
<1>2. Counted => NoStatisticsLost
  BY DEF Counted
<1> QED
  BY <1>1, <1>2, PTL

(***************************************************************************)
(* The sums over the watches.                                              *)
(***************************************************************************)

\* The counters of one kind, by watch.
Col(st, k) == [w \in Wds |-> st[w][k]]

\* Its elements are counters.
LEMMA ColIs ==
  ASSUME NEW st \in [Wds -> Counters], NEW k \in Keys
  PROVE  \A w \in Wds : Col(st, k)[w] = st[w][k] /\ st[w][k] \in Nat /\ st[w][k] < Modulus
BY DEF Col, Counters

\* There are finitely many watches.
LEMMA WatchesFinite ==
  ASSUME NEW D \in SUBSET Wds
  PROVE  IsFiniteSet(D)
BY WdsAssumption, FS_Subset

\* SumOver adds up one counter of each watch.
LEMMA SumOverIs ==
  ASSUME NEW st \in [Wds -> Counters], NEW D \in SUBSET Wds, NEW k \in Keys
  PROVE  /\ SumFunction([w \in D |-> st[w][k]]) = Total(Col(st, k), D)
         /\ Total(Col(st, k), D) \in Nat
<1> DEFINE f == [w \in D |-> st[w][k]]
<1>1. IsFiniteSet(D)
  BY WatchesFinite
<1>2. \A w \in D : Col(st, k)[w] = st[w][k] /\ Col(st, k)[w] \in Nat
  BY ColIs
<1>3. DOMAIN f = D /\ \A w \in D : f[w] = Col(st, k)[w]
  BY <1>2
<1> HIDE DEF f
<1>4. SumFunction(f) = Total(f, D)
  BY <1>3, SumIsTotal DEF SumFunction
<1>5. Total(f, D) = Total(Col(st, k), D)
  BY <1>1, <1>3, TotalSame
<1>6. Total(Col(st, k), D) \in Nat
  BY <1>1, <1>2, TotalNat
<1> QED
  BY <1>4, <1>5, <1>6 DEF f

\* A number below the modulus is its own remainder.
LEMMA ModSmall ==
  ASSUME NEW c \in Nat, c < Modulus
  PROVE  c % Modulus = c
<1>1. c \in 0..(Modulus - 1) /\ 0 \in Int /\ c = 0 * Modulus + c
  OBVIOUS
<1> QED
  BY <1>1, ModUnique

\* What WatchStats::record does to a counter.
LEMMA RecordIs ==
  ASSUME NEW c \in Counters, NEW mask, NEW k \in Keys
  PROVE  Record(c, mask)[k] = IF k \in mask \cup {"total"} THEN (c[k] + 1) % Modulus ELSE c[k]
<1>1. c[k] % Modulus = c[k]
  BY CounterNat, ModSmall
<1> QED
  BY <1>1 DEF Record, CountOne

\* Watches without counts do not count.
LEMMA SumSupport ==
  ASSUME NEW st \in [Wds -> Counters], NEW D \in SUBSET Wds, NEW U \in SUBSET D, NEW k \in Keys,
         \A w \in D \ U : st[w][k] = 0
  PROVE  Total(Col(st, k), D) = Total(Col(st, k), U)
<1>1. IsFiniteSet(D) /\ \A w \in D : Col(st, k)[w] \in Nat
  BY ColIs, WatchesFinite
<1>2. \A w \in D \ U : Col(st, k)[w] = 0
  BY ColIs
<1> QED
  BY <1>1, <1>2, TotalSupport

\* The sum over no watch.
LEMMA SumEmpty ==
  ASSUME NEW f
  PROVE  Total(f, {}) = 0
BY TotalUnfold, FS_EmptySet

\* How the sums change with a step.
SumsSame == \A k \in Keys : SumOver(k)' = SumOver(k)
SumsCount ==
  \A k \in Keys :
    LET e == Head(kq)
    IN  SumOver(k)' + stats[e.wd][k] = SumOver(k) + Record(stats[e.wd], e.mask)[k]
SumsLose(w) == \A k \in Keys : SumOver(k) = stats[w][k] + SumOver(k)'

\* The sums change with the counters they are of.
LEMMA SumsStep ==
  ASSUME Counted, TypeOK'
  PROVE  /\ Keeps \/ Establish \/ initialize_stats => SumsSame
         /\ Counts => SumsCount
         /\ \A w \in Wds : (Adds(w) => SumsSame) /\ (Removes(w) => SumsLose(w))
<1> USE DEF sigvars, kernelvars, statvars, outvars
<1>1. /\ TypeOK /\ Unused /\ stats \in [Wds -> Counters] /\ by_wd \in SUBSET Wds
      /\ stats' \in [Wds -> Counters] /\ by_wd' \in SUBSET Wds
  BY DEF Counted, Control, TypeOK
<1>2. ASSUME NEW k \in Keys
      PROVE  /\ SumOver(k) = Total(Col(stats, k), by_wd)
             /\ SumOver(k)' = Total(Col(stats', k), by_wd')
  BY <1>1, SumOverIs DEF SumOver
<1>3. Keeps \/ initialize_stats => SumsSame
  BY DEF Keeps, initialize_stats, SumsSame, SumOver
<1>4. ASSUME Establish PROVE SumsSame
  <2>1. UNCHANGED stats /\ \A w \in Wds, k \in Keys : stats[w][k] = 0
    BY <1>1, <1>4 DEF Establish, Unused, Before, Zero
  <2>2. ASSUME NEW k \in Keys
        PROVE  /\ Total(Col(stats, k), by_wd) = 0
               /\ Total(Col(stats, k), by_wd') = 0
    <3>1. \A D \in SUBSET Wds : Total(Col(stats, k), D) = Total(Col(stats, k), {})
      BY <1>1, <2>1, SumSupport
    <3> QED
      BY <1>1, <3>1, SumEmpty
  <2> QED
    BY <1>2, <2>1, <2>2 DEF SumsSame
<1>5. ASSUME Counts PROVE SumsCount
  <2> DEFINE e == Head(kq)
             w == e.wd
             r == Record(stats[w], e.mask)
  <2>2. w \in by_wd /\ w \in Wds /\ stats' = [stats EXCEPT ![w] = r] /\ UNCHANGED by_wd
    BY <1>1, <1>5 DEF Counts, record_stats
  <2>3. stats[w] \in Counters
    BY <1>1, <2>2
  <2> HIDE DEF r, w, e
  <2>4. stats'[w] = r /\ \A x \in Wds \ {w} : stats'[x] = stats[x]
    BY <1>1, <2>2
  <2>5. ASSUME NEW k \in Keys
        PROVE  SumOver(k)' + stats[w][k] = SumOver(k) + r[k]
    <3> DEFINE f == Col(stats, k)
               g == Col(stats', k)
    <3>1. /\ IsFiniteSet(by_wd)
          /\ \A x \in Wds : f[x] = stats[x][k] /\ f[x] \in Nat /\ g[x] = stats'[x][k] /\ g[x] \in Nat
      BY <1>1, ColIs, WatchesFinite
    <3>2. \A x \in by_wd \ {w} : f[x] = g[x]
      BY <1>1, <2>4, <3>1
    <3>3. \A x \in by_wd : f[x] \in Nat /\ g[x] \in Nat
      BY <1>1, <3>1
    <3>4. f[w] = stats[w][k] /\ g[w] = r[k]
      BY <2>2, <2>4, <3>1
    <3>5. SumOver(k) = Total(f, by_wd) /\ SumOver(k)' = Total(g, by_wd)
      BY <1>2, <2>2
    <3> HIDE DEF f, g
    <3>6. Total(g, by_wd) + f[w] = Total(f, by_wd) + g[w]
      BY <2>2, <3>1, <3>2, <3>3, TotalUpdate
    <3> QED
      BY <3>4, <3>5, <3>6
  <2> QED
    BY <2>5 DEF SumsCount, r, w, e
<1>6. ASSUME NEW w \in Wds, Adds(w) PROVE SumsSame
  <2>1. UNCHANGED stats /\ by_wd' = by_wd \cup {w} /\ \A k \in Keys : stats[w][k] = 0
    BY <1>1, <1>6 DEF Adds, Unused, Zero
  <2>2. ASSUME NEW k \in Keys
        PROVE  Total(Col(stats, k), by_wd') = Total(Col(stats, k), by_wd)
    <3>1. by_wd \in SUBSET by_wd' /\ \A x \in by_wd' \ by_wd : stats[x][k] = 0
      BY <2>1
    <3> QED
      BY <1>1, <3>1, SumSupport
  <2> QED
    BY <1>2, <2>1, <2>2 DEF SumsSame
<1>7. ASSUME NEW w \in Wds, Removes(w) PROVE SumsLose(w)
  <2>1. UNCHANGED stats /\ by_wd' = by_wd \ {w} /\ w \in by_wd
    BY <1>7 DEF Removes
  <2>2. ASSUME NEW k \in Keys
        PROVE  Total(Col(stats, k), by_wd) = stats[w][k] + Total(Col(stats, k), by_wd')
    <3>1. Total(Col(stats, k), by_wd) = stats[w][k] + Total(Col(stats, k), by_wd \ {w})
      <4>1. stats \in [Wds -> Counters] /\ by_wd \in SUBSET Wds /\ w \in by_wd
        BY <1>1, <2>1
      <4>2. \A x \in by_wd : Col(stats, k)[x] \in Nat
        BY <4>1, ColIs
      <4>3. Total(Col(stats, k), by_wd) = Col(stats, k)[w] + Total(Col(stats, k), by_wd \ {w})
        BY <4>1, <4>2, WatchesFinite, TotalRemove
      <4> QED
        BY <4>1, <4>3, ColIs
    <3> QED
      BY <2>1, <3>1
  <2> QED
    BY <1>2, <2>1, <2>2 DEF SumsLose
<1> QED
  BY <1>3, <1>4, <1>5, <1>6, <1>7

\* The sums are numbers, and a watch has its part in them.
LEMMA SumsNat ==
  ASSUME TypeOK, NEW k \in Keys
  PROVE  SumOver(k) \in Nat /\ \A w \in by_wd : stats[w][k] <= SumOver(k)
<1>1. stats \in [Wds -> Counters] /\ by_wd \in SUBSET Wds
  BY DEF TypeOK
<1>2. SumOver(k) = Total(Col(stats, k), by_wd) /\ SumOver(k) \in Nat
  BY <1>1, SumOverIs DEF SumOver
<1>3. \A w \in by_wd : Col(stats, k)[w] = stats[w][k] /\ Col(stats, k)[w] \in Nat
  BY <1>1, ColIs
<1>4. ASSUME NEW w \in by_wd PROVE stats[w][k] <= SumOver(k)
  <2>1. Total(Col(stats, k), by_wd) = Col(stats, k)[w] + Total(Col(stats, k), by_wd \ {w})
    BY <1>1, <1>3, WatchesFinite, TotalRemove
  <2>2. Total(Col(stats, k), by_wd \ {w}) \in Nat
    BY <1>1, SumOverIs
  <2> QED
    BY <1>2, <1>3, <2>1, <2>2
<1> QED
  BY <1>2, <1>4

\* A counter of the width of the code wraps around in the sum as it does
\* by itself.
LEMMA Carry ==
  ASSUME NEW x \in Nat, NEW y \in Nat, NEW g \in Nat, NEW c \in Nat, c < Modulus,
         y + c = x + ((c + 1) % Modulus)
  PROVE  (y + g) % Modulus = (x + g + 1) % Modulus
<1>1. CASE c + 1 < Modulus
  <2>1. (c + 1) % Modulus = c + 1
    <3>1. c + 1 \in 0..(Modulus - 1) /\ 0 \in Int /\ c + 1 = 0 * Modulus + (c + 1)
      BY <1>1
    <3> QED
      BY <3>1, ModUnique
  <2> QED
    BY <2>1
<1>2. CASE c + 1 = Modulus
  <2>1. (c + 1) % Modulus = 0
    <3>1. 0 \in 0..(Modulus - 1) /\ 1 \in Int /\ c + 1 = 1 * Modulus + 0
      BY <1>2
    <3> QED
      BY <3>1, ModUnique
  <2>2. x + g + 1 = (y + g) + Modulus /\ y + g \in Nat
    BY <1>2, <2>1
  <2> QED
    BY <2>2, ModShift
<1> QED
  BY <1>1, <1>2

\* Counting on from a remainder.
LEMMA ModSucc ==
  ASSUME NEW a \in Nat
  PROVE  ((a % Modulus) + 1) % Modulus = (a + 1) % Modulus
<1>1. \A b \in Nat : ((a % Modulus) + b) % Modulus = (a + b) % Modulus
  BY ModAdd
<1> QED
  BY <1>1

\* CountersAddUp, for the counter of a key.
AddsUp(k) ==
  /\ totals[k] = counted[k] % Modulus
  /\ (SumOver(k) + gone[k]) % Modulus = totals[k]

\* A step keeps the sums and the totals together, through wrap-around.
LEMMA AddsUpStep ==
  ASSUME Counted, Counted', [Next]_vars, NEW k \in Keys, AddsUp(k)
  PROVE  AddsUp(k)'
<1> USE DEF sigvars, kernelvars, statvars, outvars
<1>1. TypeOK /\ TypeOK' /\ Unused
  BY DEF Counted, Control
<1>2. /\ SumOver(k) \in Nat /\ SumOver(k)' \in Nat
      /\ gone[k] \in Nat /\ totals[k] \in Nat /\ counted[k] \in Nat
  <2>1. SumOver(k) \in Nat
    BY <1>1, SumsNat
  <2>2. SumOver(k)' \in Nat
    <3>1. stats' \in [Wds -> Counters] /\ by_wd' \in SUBSET Wds
      BY <1>1 DEF TypeOK
    <3> QED
      BY <3>1, SumOverIs DEF SumOver
  <2> QED
    BY <1>1, <2>1, <2>2 DEF TypeOK, Counters
<1>3. CASE Keeps \/ Establish \/ initialize_stats \/ \E w \in Wds : Adds(w)
  <2>1. SumOver(k)' = SumOver(k)
    BY <1>1, <1>3, SumsStep DEF SumsSame
  <2>2. UNCHANGED <<totals, counted, gone>>
    <3>1. CASE initialize_stats
      <4>1. totals = Zero
        BY <1>1, <3>1 DEF initialize_stats, Unused, Before
      <4> QED
        BY <3>1, <4>1 DEF initialize_stats
    <3> QED
      BY <1>3, <3>1 DEF Keeps, Establish, Adds
  <2> QED
    BY <2>1, <2>2 DEF AddsUp
<1>4. CASE Counts
  <2> DEFINE w == Head(kq).wd
             mask == Head(kq).mask
             c == stats[w][k]
  <2>1. w \in by_wd /\ stats[w] \in Counters /\ totals \in Counters
    BY <1>1, <1>4 DEF Counts, TypeOK
  <2>2. c \in Nat /\ c < Modulus
    BY <2>1, CounterNat
  <2>3. /\ totals' = Record(totals, mask) /\ UNCHANGED gone
        /\ counted' = CountOne(counted, mask)
    BY <1>4 DEF Counts, record_stats
  <2>4. SumOver(k)' + c = SumOver(k) + Record(stats[w], mask)[k]
    BY <1>1, <1>4, SumsStep DEF SumsCount
  <2> HIDE DEF w, mask
  <2>5. /\ Record(stats[w], mask)[k] = IF k \in mask \cup {"total"} THEN (c + 1) % Modulus ELSE c
        /\ Record(totals, mask)[k] = IF k \in mask \cup {"total"} THEN (totals[k] + 1) % Modulus ELSE totals[k]
    BY <2>1, RecordIs
  <2>6. counted'[k] = IF k \in mask \cup {"total"} THEN counted[k] + 1 ELSE counted[k]
    BY <2>3 DEF CountOne
  <2> HIDE DEF c
  <2>7. CASE k \in mask \cup {"total"}
    <3>1. (SumOver(k)' + gone[k]) % Modulus = (SumOver(k) + gone[k] + 1) % Modulus
      <4>1. SumOver(k)' + c = SumOver(k) + ((c + 1) % Modulus)
        BY <2>4, <2>5, <2>7
      <4>2. SumOver(k) \in Nat /\ SumOver(k)' \in Nat /\ gone[k] \in Nat /\ c \in Nat /\ c < Modulus
        BY <1>2, <2>2
      <4> QED
        BY <4>1, <4>2, Carry, ZenonT(30)
    <3>2. (((SumOver(k) + gone[k]) % Modulus) + 1) % Modulus = (SumOver(k) + gone[k] + 1) % Modulus
      <4>1. SumOver(k) + gone[k] \in Nat
        BY <1>2
      <4> QED
        BY <4>1, ModSucc
    <3>3. ((counted[k] % Modulus) + 1) % Modulus = (counted[k] + 1) % Modulus
      BY <1>2, ModSucc
    <3>4. totals'[k] = (totals[k] + 1) % Modulus /\ counted'[k] = counted[k] + 1 /\ gone' = gone
      BY <2>3, <2>5, <2>6, <2>7
    <3> QED
      BY <3>1, <3>2, <3>3, <3>4 DEF AddsUp
  <2>8. CASE k \notin mask \cup {"total"}
    BY <1>2, <2>2, <2>3, <2>4, <2>5, <2>6, <2>8 DEF AddsUp
  <2> QED
    BY <2>7, <2>8
<1>5. ASSUME NEW w \in Wds, Removes(w) PROVE AddsUp(k)'
  <2>1. SumOver(k) = stats[w][k] + SumOver(k)'
    BY <1>1, <1>5, SumsStep DEF SumsLose
  <2>2. stats[w][k] \in Nat
    BY <1>1, CounterNat DEF TypeOK
  <2>3. gone'[k] = (gone[k] + stats[w][k]) % Modulus /\ UNCHANGED <<totals, counted>>
    BY <1>5 DEF Removes
  <2> DEFINE a == gone[k] + stats[w][k]
             b == SumOver(k)'
  <2>4. ((a % Modulus) + b) % Modulus = (a + b) % Modulus
    <3>1. a \in Nat /\ b \in Nat
      BY <1>2, <2>2
    <3> HIDE DEF a, b
    <3> QED
      BY <3>1, ModAdd
  <2>5. a + b = SumOver(k) + gone[k] /\ (a % Modulus) + b = SumOver(k)' + gone'[k]
    <3>1. a % Modulus \in Int
      BY <1>2, <2>2
    <3> QED
      BY <1>2, <2>1, <2>2, <2>3, <3>1
  <2> HIDE DEF a, b
  <2> QED
    BY <2>3, <2>4, <2>5 DEF AddsUp
<1> QED
  BY <1>1, <1>3, <1>4, <1>5, CountingCases

\* The totals and the sums over the rows of the table agree with what was
\* counted, for counters of any width, through any number of events.
THEOREM TotalsAddUp == Spec => []CountersAddUp
<1> DEFINE I == Counted /\ \A k \in Keys : AddsUp(k)
<1>1. Init => I
  <2> SUFFICES ASSUME Init PROVE I
    OBVIOUS
  <2>1. Counted
    BY CountedInit
  <2>2. ASSUME NEW k \in Keys PROVE AddsUp(k)
    <3>1. by_wd = {} /\ totals[k] = 0 /\ counted[k] = 0 /\ gone[k] = 0
      BY DEF Init, Zero
    <3>2. SumOver(k) = 0
      <4>1. stats \in [Wds -> Counters] /\ by_wd \in SUBSET Wds
        BY <2>1 DEF Counted, Control, TypeOK
      <4> QED
        BY <3>1, <4>1, SumOverIs, SumEmpty DEF SumOver
    <3> QED
      BY <3>1, <3>2, ModSmall DEF AddsUp
  <2> QED
    BY <2>1, <2>2
<1>2. I /\ [Next]_vars => I'
  BY CountedStep, AddsUpStep
<1>3. I => CountersAddUp
  BY DEF AddsUp, CountersAddUp
<1> QED
  BY <1>1, <1>2, <1>3, PTL DEF Spec

(***************************************************************************)
(* Until a counter may have wrapped around, the sums are exact.            *)
(***************************************************************************)

\* An event counts once for each of its kinds and once in total.
Within(c) == \A k \in Kinds : c[k] <= c["total"]

Exact ==
  counted["total"] < Modulus =>
    /\ \A k \in Keys : SumOver(k) + gone[k] = counted[k]
    /\ \A w \in Wds : Within(stats[w])

Tally == Counted /\ Within(counted) /\ Exact

\* Initially all is zero.
LEMMA TallyInit == Init => Tally
<1> SUFFICES ASSUME Init PROVE Tally
  OBVIOUS
<1>1. Counted
  BY CountedInit
<1>2. Within(Zero) /\ counted = Zero /\ \A w \in Wds : stats[w] = Zero
  BY DEF Init, Within, Zero, Keys
<1>3. ASSUME NEW k \in Keys PROVE SumOver(k) + gone[k] = counted[k]
  <2>1. by_wd = {} /\ gone[k] = 0 /\ counted[k] = 0
    BY DEF Init, Zero
  <2>2. SumOver(k) = 0
    <3>1. stats \in [Wds -> Counters] /\ by_wd \in SUBSET Wds
      BY <1>1 DEF Counted, Control, TypeOK
    <3> QED
      BY <2>1, <3>1, SumOverIs, SumEmpty DEF SumOver
  <2> QED
    BY <2>1, <2>2
<1> QED
  BY <1>1, <1>2, <1>3 DEF Tally, Exact

\* No counter exceeds the number of events.
LEMMA CountedBounds ==
  ASSUME TypeOK, Within(counted), NEW k \in Keys
  PROVE  counted[k] \in Nat /\ counted[k] <= counted["total"]
BY DEF TypeOK, Within, Keys

\* Recording an event counts it, unless a counter wraps around.
LEMMA RecordWithin ==
  ASSUME NEW c \in Counters, NEW mask, Within(c), c["total"] + 1 < Modulus
  PROVE  /\ Within(Record(c, mask))
         /\ \A k \in Keys : Record(c, mask)[k] = IF k \in mask \cup {"total"} THEN c[k] + 1 ELSE c[k]
<1>1. \A k \in Keys : c[k] \in Nat /\ c[k] + 1 < Modulus
  BY CounterNat DEF Within, Keys
<1>2. ASSUME NEW k \in Keys
      PROVE  Record(c, mask)[k] = IF k \in mask \cup {"total"} THEN c[k] + 1 ELSE c[k]
  <2>1. (c[k] + 1) % Modulus = c[k] + 1
    BY <1>1, ModSmall
  <2> QED
    BY <2>1, RecordIs
<1> QED
  BY <1>1, <1>2 DEF Within, Keys

\* A step keeps the sums exact while the number of events fits.
LEMMA TallyStep ==
  ASSUME Tally, [Next]_vars
  PROVE  Tally'
<1> USE DEF sigvars, kernelvars, statvars, outvars
<1>1. Counted /\ Counted' /\ TypeOK /\ TypeOK' /\ Unused /\ Within(counted) /\ Exact
  BY CountedStep DEF Tally, Counted, Control
<1> SUFFICES Within(counted)' /\ Exact'
  BY <1>1 DEF Tally
<1>2. \A k \in Keys : SumOver(k) \in Nat /\ gone[k] \in Nat /\ counted[k] \in Nat
  BY <1>1, SumsNat, SMTT(30) DEF TypeOK, Counters
<1>3. CASE Keeps \/ Establish \/ initialize_stats \/ \E w \in Wds : Adds(w)
  <2>1. \A k \in Keys : SumOver(k)' = SumOver(k)
    BY <1>1, <1>3, SumsStep DEF SumsSame
  <2>2. UNCHANGED <<stats, counted, gone>>
    BY <1>3 DEF Keeps, Establish, Adds, initialize_stats
  <2> QED
    BY <1>1, <2>1, <2>2 DEF Exact, Within
<1>4. CASE Counts
  <2> DEFINE w == Head(kq).wd
             mask == Head(kq).mask
             r == Record(stats[w], mask)
  <2>1. w \in by_wd /\ w \in Wds /\ stats[w] \in Counters
    BY <1>1, <1>4 DEF Counts, TypeOK
  <2>2. /\ stats' = [stats EXCEPT ![w] = r] /\ UNCHANGED gone
        /\ counted' = CountOne(counted, mask)
    BY <1>4 DEF Counts, record_stats
  <2>3. \A k \in Keys : SumOver(k)' + stats[w][k] = SumOver(k) + r[k]
    BY <1>1, <1>4, SumsStep DEF SumsCount
  <2>4. \A k \in Keys : counted'[k] = IF k \in mask \cup {"total"} THEN counted[k] + 1 ELSE counted[k]
    BY <2>2 DEF CountOne
  <2>5. \A x \in Wds : stats'[x] = IF x = w THEN r ELSE stats[x]
    <3>1. stats \in [Wds -> Counters]
      BY <1>1 DEF TypeOK
    <3> HIDE DEF mask, w, r
    <3> QED
      BY <2>1, <2>2, <3>1
  <2> HIDE DEF w, mask
  <2>6. Within(counted)'
    BY <1>1, <1>2, <2>4 DEF Within, Keys
  <2>7. ASSUME counted'["total"] < Modulus
        PROVE  /\ \A k \in Keys : SumOver(k)' + gone'[k] = counted'[k]
               /\ \A x \in Wds : Within(stats'[x])
    <3>1. "total" \in Keys /\ counted["total"] + 1 < Modulus /\ counted["total"] < Modulus
      <4>1. "total" \in Keys
        BY DEF Keys
      <4> QED
        BY <1>2, <2>4, <2>7, <4>1
    <3>2. /\ \A k \in Keys : SumOver(k) + gone[k] = counted[k]
          /\ \A x \in Wds : Within(stats[x])
      BY <1>1, <3>1 DEF Exact
    <3>3. stats[w]["total"] \in Nat /\ stats[w]["total"] + 1 < Modulus
      <4>1. stats[w]["total"] <= SumOver("total") /\ stats[w]["total"] \in Nat
        BY <1>1, <2>1, <3>1, SumsNat, CounterNat
      <4> QED
        BY <1>2, <3>1, <3>2, <4>1
    <3>4. /\ Within(r)
          /\ \A k \in Keys : r[k] = IF k \in mask \cup {"total"} THEN stats[w][k] + 1 ELSE stats[w][k]
      BY <2>1, <3>2, <3>3, RecordWithin
    <3>5. ASSUME NEW k \in Keys PROVE SumOver(k)' + gone'[k] = counted'[k]
      <4>1. stats[w][k] \in Nat
        BY <2>1, CounterNat
      <4>2. SumOver(k)' \in Nat
        <5>1. stats' \in [Wds -> Counters] /\ by_wd' \in SUBSET Wds
          BY <1>1 DEF TypeOK
        <5> QED
          BY <5>1, SumOverIs DEF SumOver
      <4>3. SumOver(k)' + stats[w][k] = SumOver(k) + r[k] /\ SumOver(k) + gone[k] = counted[k]
        BY <2>3, <3>2
      <4>4. /\ r[k] = IF k \in mask \cup {"total"} THEN stats[w][k] + 1 ELSE stats[w][k]
            /\ counted'[k] = IF k \in mask \cup {"total"} THEN counted[k] + 1 ELSE counted[k]
            /\ gone' = gone
        BY <2>2, <2>4, <3>4
      <4> HIDE DEF r
      <4> QED
        BY <1>2, <4>1, <4>2, <4>3, <4>4
    <3>6. ASSUME NEW x \in Wds PROVE Within(stats'[x])
      <4> HIDE DEF r
      <4> QED
        BY <2>5, <3>2, <3>4
    <3> QED
      BY <3>5, <3>6
  <2> QED
    BY <2>6, <2>7 DEF Exact
<1>5. ASSUME NEW w \in Wds, Removes(w) PROVE Within(counted)' /\ Exact'
  <2>1. UNCHANGED <<stats, counted>> /\ w \in by_wd
    BY <1>5 DEF Removes
  <2>2. ASSUME counted["total"] < Modulus, NEW k \in Keys
        PROVE  SumOver(k)' + gone'[k] = counted[k]
    <3>1. SumOver(k) = stats[w][k] + SumOver(k)'
      BY <1>1, <1>5, SumsStep DEF SumsLose
    <3>2. SumOver(k) + gone[k] = counted[k] /\ counted[k] < Modulus
      <4>1. counted[k] \in Nat /\ counted[k] <= counted["total"] /\ counted["total"] \in Nat
        BY <1>1, <1>2, CountedBounds DEF Keys
      <4> QED
        BY <1>1, <2>2, <4>1 DEF Exact
    <3>3. stats[w][k] \in Nat /\ SumOver(k)' \in Nat
      <4>1. stats' \in [Wds -> Counters] /\ by_wd' \in SUBSET Wds
        BY <1>1 DEF TypeOK
      <4> QED
        BY <1>1, <4>1, SumOverIs, CounterNat, ZenonT(30) DEF SumOver, TypeOK
    <3> DEFINE a == gone[k] + stats[w][k]
    <3>4. a \in Nat /\ a < Modulus
      BY <1>2, <3>1, <3>2, <3>3
    <3>5. gone'[k] = a % Modulus
      BY <1>5 DEF Removes
    <3>6. gone'[k] = a
      <4> HIDE DEF a
      <4> QED
        BY <3>4, <3>5, ModSmall
    <3> QED
      BY <1>2, <3>1, <3>2, <3>3, <3>6
  <2> QED
    BY <1>1, <2>1, <2>2 DEF Exact, Within
<1> QED
  BY <1>1, <1>3, <1>4, <1>5, CountingCases

(***************************************************************************)
(* The options.                                                            *)
(***************************************************************************)
SortKnown ==
  /\ pc \notin {"parse", "exit"} => sort = SortCode(Asked)
  /\ pc = "parse" => sort = -1

\* What the last sort option asks for, or the default.  "-d access" has the
\* code of the sum.
LEMMA AskedType ==
  ASSUME cmd \in Commands
  PROVE  /\ Asked \in [dir : {"a", "d"}, key : SortKeys]
         /\ Asked # [dir |-> "d", key |-> "access"]
         /\ cmd.sorts = << >> => SortCode(Asked) = -1
         /\ cmd.sorts # << >> => SortCode(Asked) = SortCode(Last(cmd.sorts))
<1> DEFINE total == [dir |-> "d", key |-> "total"]
           access == [dir |-> "d", key |-> "access"]
<1>1. /\ total \in [dir : {"a", "d"}, key : SortKeys] /\ total # access
      /\ SortCode(total) = -1 /\ SortCode(access) = -1 /\ [access EXCEPT !.key = "total"] = total
  BY DEF SortCode, Bit, SortKeys, Keys
<1> HIDE DEF total, access
<1>2. CASE cmd.sorts = << >>
  <2>1. Asked = total
    BY <1>1, <1>2 DEF Asked, total, access
  <2> QED
    BY <1>1, <1>2, <2>1 DEF access
<1>3. CASE cmd.sorts # << >>
  <2>1. Last(cmd.sorts) \in [dir : {"a", "d"}, key : SortKeys]
    <3>1. cmd.sorts \in Seq([dir : {"a", "d"}, key : SortKeys])
      BY CommandType
    <3> QED
      BY <1>3, <3>1, LastIn
  <2>2. Asked = IF Last(cmd.sorts) = access THEN total ELSE Last(cmd.sorts)
    BY <1>1, <1>3 DEF Asked, access
  <2> QED
    BY <1>1, <1>3, <2>1, <2>2 DEF access
<1> QED
  BY <1>2, <1>3

\* The options stay as they were given, and only parse_opts sets the order.
LEMMA OptionsStep ==
  ASSUME TypeOK, [Next]_vars
  PROVE  /\ cmd' = cmd
         /\ \/ sort' = sort /\ (pc' = "parse" <=> pc = "parse") /\ (pc = "exit" => pc' = "exit")
            \/ parse_opts
            \/ pc' = "exit"
<1> USE DEF sigvars, kernelvars, statvars, outvars
<1>1. CASE parse_opts
  BY <1>1 DEF parse_opts
<1>2. CASE Establish
  BY <1>2 DEF Establish, Exit
<1>3. CASE Install
  BY <1>3 DEF Install
<1>4. CASE initialize_stats
  BY <1>4 DEF initialize_stats
<1>5. CASE CheckPrintNow("print1", "call") \/ CheckPrintNow("print2", "dispatch")
  BY <1>5 DEF CheckPrintNow
<1>6. CASE Sleep \/ Fail
  BY <1>6 DEF Sleep, Fail
<1>7. CASE Receive
  BY <1>7 DEF Receive
<1>8. CASE Dispatch
  BY <1>8 DEF Dispatch, Exit
<1>9. CASE TestDone
  BY <1>9 DEF TestDone, Exit
<1>10. CASE Occur
  BY <1>10 DEF Occur
<1>11. CASE AlarmFires
  BY <1>11, HandleEffect DEF AlarmFires, Signals
<1>12. ASSUME NEW s \in Signals \ {"ALRM"}, UserSignal(s)
       PROVE  /\ cmd' = cmd
              /\ \/ sort' = sort /\ (pc' = "parse" <=> pc = "parse") /\ (pc = "exit" => pc' = "exit")
                 \/ pc' = "exit"
  BY <1>12, HandleEffect DEF UserSignal
<1>13. CASE UNCHANGED vars
  BY <1>13 DEF vars
<1> QED
  BY <1>1, <1>2, <1>3, <1>4, <1>5, <1>6, <1>7, <1>8, <1>9, <1>10, <1>11, <1>12, <1>13
     DEF Next, Program

\* The order is the one asked for.
LEMMA SortKnownStep ==
  ASSUME TypeOK, SortKnown, [Next]_vars
  PROVE  SortKnown'
<1>1. Asked' = Asked
  BY OptionsStep DEF Asked
<1>2. CASE parse_opts
  <2>1. pc = "parse" /\ sort = -1 /\ pc' \in {"exit", "establish"}
    BY <1>2 DEF parse_opts, Exit, SortKnown
  <2>2. sort' = SortCode(Asked)
    BY <1>2, <2>1, AskedType DEF parse_opts, TypeOK
  <2> QED
    BY <1>1, <2>1, <2>2 DEF SortKnown
<1>3. CASE pc' = "exit"
  BY <1>3 DEF SortKnown
<1>4. CASE /\ sort' = sort /\ (pc' = "parse" <=> pc = "parse")
           /\ (pc = "exit" => pc' = "exit") /\ pc' # "exit"
  BY <1>1, <1>4 DEF SortKnown
<1> QED
  BY <1>2, <1>3, <1>4, OptionsStep

(***************************************************************************)
(* The table printed.                                                      *)
(***************************************************************************)

\* print_info lists the watches shown, each one once, in their order.
LEMMA PrintedRows ==
  ASSUME stats \in [Wds -> Counters], by_wd \subseteq Wds, sort \in Int, totals["total"] # 0
  PROVE  LET ws == {w \in by_wd : ShowsRow(w)}
             n == Cardinality(ws)
         IN  /\ n \in Nat
             /\ \E q \in Bijection(1..n, ws) :
                  /\ Printed.rows = [i \in 1..n |-> [wd |-> q[i], stats |-> stats[q[i]]]]
                  /\ \A i, j \in 1..n : i < j => Precedes(sort, q[i], q[j])
             /\ Printed.columns = {k \in Kinds : ShowsColumn(k)}
<1> DEFINE ws == {w \in by_wd : ShowsRow(w)}
           n == Cardinality(ws)
           q == watches_sorted_by_event(sort, ws)
<1>1. ws \in SUBSET Wds
  OBVIOUS
<1>2. Printed = [columns |-> {k \in Kinds : ShowsColumn(k)},
                 rows |-> [i \in DOMAIN q |-> [wd |-> q[i], stats |-> stats[q[i]]]]]
  BY DEF Printed
<1> HIDE DEF ws
<1>3. /\ n \in Nat /\ q \in Bijection(1..n, ws)
      /\ \A i, j \in 1..n : i < j => Precedes(sort, q[i], q[j])
  BY <1>1, SortedWatches
<1> HIDE DEF n, q
<1>4. DOMAIN q = 1..n
  BY <1>3 DEF Bijection, Injection
<1>5. /\ Printed.rows = [i \in 1..n |-> [wd |-> q[i], stats |-> stats[q[i]]]]
      /\ Printed.columns = {k \in Kinds : ShowsColumn(k)}
  BY <1>2, <1>4
<1>6. /\ n \in Nat
      /\ \E r \in Bijection(1..n, ws) :
           /\ Printed.rows = [i \in 1..n |-> [wd |-> r[i], stats |-> stats[r[i]]]]
           /\ \A i, j \in 1..n : i < j => Precedes(sort, r[i], r[j])
      /\ Printed.columns = {k \in Kinds : ShowsColumn(k)}
  BY <1>3, <1>5
<1> QED
  BY <1>6 DEF ws, n

\* SortedAsAsked, for any rows.
Ordered(rows) ==
  \A i, j \in DOMAIN rows :
    i < j =>
      LET x == IF Asked.key = "move" THEN 0 ELSE rows[i].stats[Asked.key]
          y == IF Asked.key = "move" THEN 0 ELSE rows[j].stats[Asked.key]
      IN  \/ Asked.dir = "a" /\ x < y
          \/ Asked.dir = "d" /\ x > y
          \/ x = y /\ rows[i].wd < rows[j].wd

\* Precedes compares what the option asks for.
LEMMA PrecedesAsAsked ==
  ASSUME stats \in [Wds -> Counters], NEW v \in Wds, NEW w \in Wds,
         Asked \in [dir : {"a", "d"}, key : SortKeys],
         Asked # [dir |-> "d", key |-> "access"],
         Precedes(SortCode(Asked), v, w)
  PROVE  LET x == IF Asked.key = "move" THEN 0 ELSE stats[v][Asked.key]
             y == IF Asked.key = "move" THEN 0 ELSE stats[w][Asked.key]
         IN  \/ Asked.dir = "a" /\ x < y
             \/ Asked.dir = "d" /\ x > y
             \/ x = y /\ v < w
<1> DEFINE key == Asked.key
           dir == Asked.dir
           code == SortCode(Asked)
           x == IF key = "move" THEN 0 ELSE stats[v][key]
           y == IF key = "move" THEN 0 ELSE stats[w][key]
<1>1. dir \in {"a", "d"} /\ key \in SortKeys /\ ~(dir = "d" /\ key = "access")
  OBVIOUS
<1>2. code \in Int
  BY SortCodeType
<1>3. /\ key = "total" => code = IF dir = "a" THEN 0 ELSE -1
      /\ key = "access" => code = 1 /\ dir = "a"
      /\ key = "modify" => code = IF dir = "a" THEN 2 ELSE -2
      /\ key = "unmount" => code = IF dir = "a" THEN 8192 ELSE -8192
      /\ key = "move" => code = IF dir = "a" THEN 192 ELSE -192
  BY <1>1 DEF SortCode, Bit
<1>4. key \in {"total", "access", "modify", "unmount", "move"}
  BY <1>1 DEF SortKeys, Keys, Kinds
<1> HIDE DEF code, key, dir
<1>5. /\ SortCount(code, v) \in Nat /\ SortCount(code, w) \in Nat
      /\ SortCount(code, v) = x /\ SortCount(code, w) = y
  <2>1. ASSUME NEW u \in Wds
        PROVE  /\ SortCount(code, u) \in Nat
               /\ SortCount(code, u) = IF key = "move" THEN 0 ELSE stats[u][key]
    BY <1>2, <1>3, <1>4, SortCountIs
  <2> QED
    BY <2>1
<1>6. code >= 0 <=> dir = "a"
  BY <1>1, <1>3, <1>4
<1>7. Precedes(code, v, w)
  BY DEF code
<1>8. IF x = y THEN v < w ELSE IF code >= 0 THEN x < y ELSE y < x
  BY <1>5, <1>7 DEF Precedes
<1>9. \/ dir = "a" /\ x < y
      \/ dir = "d" /\ x > y
      \/ x = y /\ v < w
  <2> HIDE DEF x, y
  <2> QED
    BY <1>1, <1>5, <1>6, <1>8
<1> QED
  BY <1>9 DEF key, dir

\* The table is printed in the order asked for.
LEMMA PrintedOrdered ==
  ASSUME TypeOK, sort = SortCode(Asked)
  PROVE  Ordered(Printed.rows)
<1>1. /\ stats \in [Wds -> Counters] /\ by_wd \subseteq Wds /\ sort \in Int
      /\ Asked \in [dir : {"a", "d"}, key : SortKeys]
      /\ Asked # [dir |-> "d", key |-> "access"]
  BY AskedType DEF TypeOK
<1>2. CASE totals["total"] = 0
  <2>1. Printed.rows = << >>
    BY <1>2 DEF Printed, NoTable
  <2> QED
    BY <2>1 DEF Ordered
<1>3. CASE totals["total"] # 0
  <2> DEFINE ws == {w \in by_wd : ShowsRow(w)}
             n == Cardinality(ws)
  <2>1. PICK q \in Bijection(1..n, ws) :
          /\ Printed.rows = [i \in 1..n |-> [wd |-> q[i], stats |-> stats[q[i]]]]
          /\ \A i, j \in 1..n : i < j => Precedes(sort, q[i], q[j])
    BY <1>1, <1>3, PrintedRows
  <2>2. \A i \in 1..n : q[i] \in Wds
    <3>1. q \in [1..n -> ws] /\ ws \subseteq Wds
      BY <1>1 DEF Bijection, Injection
    <3> HIDE DEF ws, n
    <3> QED
      BY <3>1
  <2> HIDE DEF ws, n
  <2> DEFINE rows == Printed.rows
  <2>3. /\ DOMAIN rows = 1..n
        /\ \A i \in 1..n : rows[i].wd = q[i] /\ rows[i].stats = stats[q[i]]
    BY <2>1
  <2> HIDE DEF rows
  <2> SUFFICES ASSUME NEW i \in 1..n, NEW j \in 1..n, i < j
               PROVE  LET x == IF Asked.key = "move" THEN 0 ELSE rows[i].stats[Asked.key]
                          y == IF Asked.key = "move" THEN 0 ELSE rows[j].stats[Asked.key]
                      IN  \/ Asked.dir = "a" /\ x < y
                          \/ Asked.dir = "d" /\ x > y
                          \/ x = y /\ rows[i].wd < rows[j].wd
    BY <2>3 DEF Ordered, rows
  <2>4. Precedes(SortCode(Asked), q[i], q[j]) /\ q[i] \in Wds /\ q[j] \in Wds
    BY <2>1, <2>2
  <2>5. LET x == IF Asked.key = "move" THEN 0 ELSE stats[q[i]][Asked.key]
            y == IF Asked.key = "move" THEN 0 ELSE stats[q[j]][Asked.key]
        IN  \/ Asked.dir = "a" /\ x < y
            \/ Asked.dir = "d" /\ x > y
            \/ x = y /\ q[i] < q[j]
    BY <1>1, <2>4, PrecedesAsAsked
  <2> QED
    BY <2>3, <2>5
<1> QED
  BY <1>2, <1>3

\* When the table changes, it is printed anew; the process ends well with a
\* new table.
LEMMA TableCases ==
  ASSUME TypeOK, Ended, [Next]_vars
  PROVE  \/ table' = table /\ (status' = "0" => status = "0")
         \/ /\ table' = Printed /\ pc \in {"print1", "print2", "done"}
            /\ UNCHANGED <<by_wd, stats, totals, counted, gone, cmd, sort>>
<1> USE DEF sigvars, kernelvars, statvars, outvars
<1>1. CASE parse_opts \/ Establish \/ Install \/ initialize_stats
  BY <1>1 DEF parse_opts, Establish, Install, initialize_stats, Exit
<1>2. ASSUME NEW from \in {"print1", "print2"}, NEW to, CheckPrintNow(from, to)
      PROVE  \/ table' = table /\ (status' = "0" => status = "0")
             \/ /\ table' = Printed /\ pc \in {"print1", "print2", "done"}
                /\ UNCHANGED <<by_wd, stats, totals, counted, gone, cmd, sort>>
  BY <1>2 DEF CheckPrintNow
<1>3. CASE Sleep \/ Receive \/ Dispatch \/ Fail \/ Occur
  BY <1>3 DEF Sleep, Receive, Dispatch, Fail, Occur, Exit
<1>4. CASE TestDone
  BY <1>4 DEF TestDone
<1>5. CASE AlarmFires
  BY <1>5, HandleEffect DEF AlarmFires, Signals
<1>6. ASSUME NEW s \in Signals \ {"ALRM"}, UserSignal(s)
      PROVE  table' = table /\ (status' = "0" => status = "0")
  BY <1>6, HandleEffect DEF UserSignal
<1>7. CASE UNCHANGED vars
  BY <1>7 DEF vars
<1> QED
  BY <1>1, <1>2, <1>3, <1>4, <1>5, <1>6, <1>7 DEF Next, Program

\* The rows are in the order the sort option asks for, ties by descriptor
\* ("-d access" has the order of the sum, as SortedAsAsked says).
THEOREM RowsSorted == Spec => []SortedAsAsked
<1> DEFINE I == Control /\ SortKnown /\ SortedAsAsked
<1>1. Init => I
  <2> SUFFICES ASSUME Init PROVE I
    OBVIOUS
  <2>1. Control /\ SortKnown
    BY ControlInit DEF Init, SortKnown
  <2>2. table.rows = << >>
    BY DEF Init, NoTable
  <2> QED
    BY <2>1, <2>2 DEF SortedAsAsked
<1>2. I /\ [Next]_vars => I'
  <2> SUFFICES ASSUME Control, SortKnown, SortedAsAsked, [Next]_vars PROVE SortedAsAsked'
    BY ControlStep, SortKnownStep DEF Control
  <2>1. Asked' = Asked /\ TypeOK /\ Ended
    BY OptionsStep DEF Asked, Control
  <2>2. CASE table' = table
    BY <2>1, <2>2 DEF SortedAsAsked
  <2>3. CASE table' = Printed /\ pc \in {"print1", "print2", "done"}
    <3>1. sort = SortCode(Asked)
      BY <2>3 DEF SortKnown
    <3>2. Ordered(Printed.rows)
      BY <2>1, <3>1, PrintedOrdered
    <3> QED
      BY <2>1, <2>3, <3>2 DEF SortedAsAsked, Ordered
  <2> QED
    BY <2>1, <2>2, <2>3, TableCases
<1>3. I => SortedAsAsked
  OBVIOUS
<1> QED
  BY <1>1, <1>2, <1>3, PTL DEF Spec

(***************************************************************************)
(* The table tells all.                                                    *)
(***************************************************************************)

\* The sum over the rows of a column, as TableComplete takes it.
Told(t, k) ==
  IF k \in t.columns \cup {"total"} THEN SumFunction([i \in DOMAIN t.rows |-> t.rows[i].stats[k]]) ELSE 0

\* The rows tell what the watches have counted.
LEMMA RowsTellAll ==
  ASSUME Tally, counted["total"] < Modulus, totals["total"] # 0, NEW k \in Keys
  PROVE  SumFunction([i \in DOMAIN Printed.rows |-> Printed.rows[i].stats[k]]) = SumOver(k)
<1> DEFINE ws == {w \in by_wd : ShowsRow(w)}
           n == Cardinality(ws)
           f == Col(stats, k)
<1>1. /\ stats \in [Wds -> Counters] /\ by_wd \subseteq Wds /\ sort \in Int
      /\ TypeOK /\ Exact
  BY DEF Tally, Counted, Control, TypeOK
<1>2. n \in Nat
  BY <1>1, PrintedRows
<1>3. PICK q \in Bijection(1..n, ws) :
        Printed.rows = [i \in 1..n |-> [wd |-> q[i], stats |-> stats[q[i]]]]
  BY <1>1, PrintedRows
<1>4. ws \in SUBSET by_wd
  OBVIOUS
<1>5. \A w \in by_wd \ ws : stats[w][k] = 0
  <2> SUFFICES ASSUME NEW w \in by_wd \ ws PROVE stats[w][k] = 0
    OBVIOUS
  <2>1. stats[w]["total"] = 0 /\ w \in Wds
    BY <1>1 DEF ShowsRow
  <2>2. stats[w] \in Counters /\ Within(stats[w])
    BY <1>1, <2>1 DEF Exact
  <2>3. stats[w][k] \in Nat /\ stats[w][k] <= stats[w]["total"]
    BY <2>1, <2>2, CounterNat DEF Within, Keys
  <2> QED
    BY <2>1, <2>3
<1> HIDE DEF ws, n
<1>6. q \in [1..n -> ws]
  BY <1>3 DEF Bijection, Injection
<1> DEFINE told == [i \in DOMAIN Printed.rows |-> Printed.rows[i].stats[k]]
           g == [i \in 1..n |-> f[q[i]]]
<1>7. DOMAIN told = 1..n /\ \A i \in 1..n : told[i] = stats[q[i]][k]
  BY <1>3
<1>8. \A w \in Wds : f[w] = stats[w][k] /\ f[w] \in Nat
  BY <1>1, ColIs
<1> HIDE DEF f, told
<1>9. \A i \in 1..n : told[i] = g[i]
  <2>1. \A i \in 1..n : q[i] \in Wds
    BY <1>1, <1>4, <1>6
  <2> QED
    BY <1>7, <1>8, <2>1
<1> HIDE DEF g
<1>10. SumFunction(told) = Total(told, 1..n)
  BY <1>7, SumIsTotal DEF SumFunction
<1>11. Total(told, 1..n) = Total(g, 1..n)
  <2>1. IsFiniteSet(1..n)
    BY <1>2, FS_Interval
  <2> QED
    BY <1>9, <2>1, TotalSame
<1>12. Total(g, 1..n) = Total(f, ws)
  <2>1. \A w \in ws : f[w] \in Nat
    BY <1>1, <1>4, <1>8
  <2> QED
    BY <1>2, <1>3, <2>1, TotalReindex DEF g
<1>13. Total(f, by_wd) = Total(f, ws)
  <2>1. by_wd \in SUBSET Wds
    BY <1>1
  <2> QED
    BY <1>1, <1>4, <1>5, <2>1, SumSupport DEF f
<1>14. SumOver(k) = Total(f, by_wd)
  <2>1. by_wd \in SUBSET Wds
    BY <1>1
  <2> QED
    BY <1>1, <2>1, SumOverIs DEF SumOver, f
<1> QED
  BY <1>10, <1>11, <1>12, <1>13, <1>14 DEF told

\* A table printed tells all that was counted of the events asked for, and
\* of all in the sums.
LEMMA PrintedComplete ==
  ASSUME Tally, counted["total"] < Modulus, NEW k \in Events \cup {"total"},
         \A j \in Keys : AddsUp(j)
  PROVE  Told(Printed, k) + gone[k] = counted[k]
<1>1. /\ TypeOK /\ Within(counted) /\ Exact /\ "total" \in Keys /\ k \in Keys
      /\ k # "total" => k \in Kinds
  BY CommandType DEF Tally, Counted, Control, TypeOK, Keys
<1>2. /\ SumOver(k) \in Nat /\ gone[k] \in Nat /\ counted[k] \in Nat /\ counted["total"] \in Nat
      /\ SumOver(k) + gone[k] = counted[k] /\ counted[k] <= counted["total"]
  BY <1>1, SumsNat, CountedBounds, SMTT(30) DEF Exact, TypeOK, Counters
<1>3. totals[k] = counted[k] /\ totals["total"] = counted["total"]
  <2>1. counted[k] < Modulus
    BY <1>2, ModulusAssumption
  <2> QED
    BY <1>1, <1>2, <2>1, ModSmall DEF AddsUp
<1>4. CASE totals["total"] = 0
  <2>1. Printed = NoTable
    BY <1>4 DEF Printed
  <2>2. Told(NoTable, k) = 0
    <3>1. SumFunction([i \in {} |-> NoTable.rows[i].stats[k]]) = 0
      BY SumIsTotal, SumEmpty DEF SumFunction
    <3>2. NoTable.columns = {} /\ DOMAIN NoTable.rows = {}
      BY DEF NoTable
    <3> QED
      BY <3>1, <3>2 DEF Told
  <2> QED
    BY <1>2, <1>3, <1>4, <2>1, <2>2
<1>5. CASE totals["total"] # 0
  <2>1. Printed.columns = {j \in Kinds : ShowsColumn(j)}
    BY <1>1, <1>5, PrintedRows DEF TypeOK
  <2>2. CASE k \in Printed.columns \cup {"total"}
    <3>1. Told(Printed, k) = SumOver(k)
      BY <1>1, <1>5, <2>2, RowsTellAll DEF Told
    <3> QED
      BY <1>2, <3>1
  <2>3. CASE k \notin Printed.columns \cup {"total"}
    <3>1. Told(Printed, k) = 0
      BY <2>3 DEF Told
    <3>2. totals[k] = 0
      BY <1>1, <2>1, <2>3 DEF ShowsColumn
    <3>3. counted[k] = 0
      BY <1>3, <3>2
    <3> QED
      BY <1>2, <3>1, <3>3
  <2> QED
    BY <2>2, <2>3
<1> QED
  BY <1>4, <1>5

\* The table printed at the end tells all that was counted of the events
\* asked for, and of all events in the sums, short of the watches that were
\* removed, unless a counter may have wrapped around.
THEOREM TableTellsAll == Spec => []TableComplete
<1> DEFINE I == /\ Tally /\ TableComplete
                /\ \A k \in Keys : AddsUp(k)
<1>1. Init => I
  <2> SUFFICES ASSUME Init PROVE I
    OBVIOUS
  <2>1. Tally /\ status # "0"
    BY TallyInit DEF Init
  <2>3. \A k \in Keys : AddsUp(k)
    <3>1. \A k \in Keys : totals[k] = 0 /\ counted[k] = 0 /\ gone[k] = 0
      BY DEF Init, Zero
    <3>2. counted["total"] < Modulus /\ "total" \in Keys
      BY <3>1, ModulusAssumption DEF Keys
    <3>3. \A k \in Keys : SumOver(k) + gone[k] = counted[k] /\ SumOver(k) \in Nat
      BY <2>1, <3>2, SumsNat DEF Tally, Exact, Counted, Control
    <3>4. 0 % Modulus = 0
      BY <3>1, <3>2, ModSmall
    <3> QED
      BY <3>1, <3>3, <3>4 DEF AddsUp
  <2> QED
    BY <2>1, <2>3 DEF TableComplete
<1>2. I /\ [Next]_vars => I'
  <2> SUFFICES ASSUME Tally, TableComplete, \A k \in Keys : AddsUp(k), [Next]_vars
               PROVE  I'
    OBVIOUS
  <2>1. Counted /\ TypeOK /\ Ended /\ Tally'
    BY TallyStep DEF Tally, Counted, Control
  <2>3. \A k \in Keys : AddsUp(k)'
    BY <2>1, AddsUpStep DEF Tally
  <2>4. TableComplete'
    <3> SUFFICES ASSUME status' = "0", counted'["total"] < Modulus, NEW k \in Events \cup {"total"}
                 PROVE  Told(table', k) + gone'[k] = counted'[k]
      BY <2>1, OptionsStep DEF TableComplete, Told, Events
    <3>1. CASE table' = table /\ status = "0"
      <4>1. pc = "exit"
        BY <2>1, <3>1 DEF Ended
      <4>2. UNCHANGED <<counted, gone>>
        <5>1. ~Establish /\ ~initialize_stats /\ ~Counts /\ ~Dispatch
          BY <4>1 DEF Establish, initialize_stats, Counts, Dispatch
        <5>2. UNCHANGED vars
          BY <4>1 DEF Next, Program, parse_opts, Establish, Install, initialize_stats,
                      CheckPrintNow, Sleep, Receive, Dispatch, TestDone, Fail, Occur,
                      AlarmFires, UserSignal
        <5> QED
          BY <5>2 DEF vars
      <4> QED
        BY <3>1, <4>2 DEF TableComplete, Told
    <3>2. CASE table' = Printed /\ UNCHANGED <<counted, gone>>
      BY <3>2, PrintedComplete
    <3> QED
      BY <2>1, <3>1, <3>2, TableCases
  <2> QED
    BY <2>1, <2>3, <2>4
<1>3. I => TableComplete
  OBVIOUS
<1> QED
  BY <1>1, <1>2, <1>3, PTL DEF Spec

=============================================================================
