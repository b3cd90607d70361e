----------------------------- MODULE StatsTool ------------------------------
(***************************************************************************)
(* inotifywatch: its main loop, the signal handlers that interrupt it at   *)
(* any moment, the statistics of the library (record_stats) and the table  *)
(* printed at the end (inotifywatch.rs, inotify.rs).                       *)
(*                                                                         *)
(* Control points of the main program:                                     *)
(*   parse      parse_opts                                                 *)
(*   establish  setting up the watches                                     *)
(*   install    replacing the signal handlers, one call after the other    *)
(*   stats      initialize_stats                                           *)
(*   print1     check_print_now before next_event                          *)
(*   call       in next_event, before ppoll                                *)
(*   ppoll      asleep in ppoll                                            *)
(*   print2     check_print_now after next_event                           *)
(*   dispatch   the match on the result of next_event                      *)
(*   done       the test of DONE                                           *)
(*   exit       the process has ended                                      *)
(***************************************************************************)
EXTENDS Integers, Sequences, FiniteSetsExt, SequencesExt

CONSTANTS
  Wds,           \* watch descriptors
  Timeout,       \* -t was given
  Commands,      \* command lines: the sort options, -z, the events of -e
  Modulus,       \* counters are u32: 2^32
  QueueLimit,    \* bound on the events waiting in the kernel
  MaxEvents,     \* bound on the number of events
  MaxSignals     \* bound on the number of signals the user sends

\* Three of the thirteen events with a counter, and the key of the sum.
\* IN_ALL_EVENTS lacks the unmounting of a filesystem.  The name "move"
\* stands for two events, and has no counter of its own.
Kinds == {"access", "modify", "unmount"}
AllEvents == Kinds \ {"unmount"}
Keys == Kinds \cup {"total"}
SortKeys == Keys \cup {"move"}
Bit(k) == CASE k = "access" -> 1 [] k = "modify" -> 2 [] k = "move" -> 64 + 128
            [] k = "unmount" -> 8192

NoWd == -1       \* an event that belongs to no watch (IN_Q_OVERFLOW)

ASSUME WdsAssumption == Wds \subseteq Nat /\ IsFiniteSet(Wds)
ASSUME ModulusAssumption == Modulus \in Nat \ {0}
ASSUME TimeoutAssumption == Timeout \in BOOLEAN
ASSUME CommandsAssumption ==
  \A c \in Commands :
    /\ c.sorts \in Seq([dir : {"a", "d"}, key : SortKeys])
    /\ c.zero \in BOOLEAN /\ c.events \subseteq Kinds

VARIABLES
  pc,
  handler,       \* signal -> what it does
  alarm,         \* "off", "armed" or "fired"
  DONE, PRINT_NOW, TIMES_CALLED,
  signals,       \* how many signals the user sent
  kq, sent,      \* kernel: queue of the descriptor; events so far
  used,          \* kernel: descriptors handed out
  got,           \* result of next_event: "event", "eintr", "zero" or "error"
  by_wd,         \* descriptors with a watch in the registry
  stats,         \* descriptor -> counters of its watch
  totals,        \* counters over all watches
  counted,       \* history: events recorded, without wrap-around
  gone,          \* history: counters of the watches removed
  cmd, sort,     \* the command line, and Opts::sort
  table,         \* the table printed last: its columns and rows
  status         \* how the process ended: "none", "0", "1", "2" or "killed"

sigvars == <<handler, alarm, DONE, PRINT_NOW, TIMES_CALLED, signals>>
kernelvars == <<kq, sent, used>>
statvars == <<by_wd, stats, totals, counted, gone>>
outvars == <<cmd, sort, table, status>>
vars == <<pc, handler, alarm, DONE, PRINT_NOW, TIMES_CALLED, signals, kq, sent, used,
          got, by_wd, stats, totals, counted, gone, cmd, sort, table, status>>

Signals == {"INT", "HUP", "TERM", "ALRM", "USR1"}

Zero == [k \in Keys |-> 0]
NoTable == [columns |-> {}, rows |-> << >>]

\* "If events is still 0, make it all events."
Events == IF cmd.events = {} THEN AllEvents ELSE cmd.events

Init ==
  /\ pc = "parse"
  /\ handler = [s \in Signals |-> IF s = "INT" THEN "impatient" ELSE "default"]
  /\ alarm = "off" /\ DONE = FALSE /\ PRINT_NOW = FALSE /\ TIMES_CALLED = 0
  /\ signals = 0
  /\ kq = << >> /\ sent = 0 /\ used = {}
  /\ got = "eintr"
  /\ by_wd = {} /\ stats = [w \in Wds |-> Zero] /\ totals = Zero
  /\ counted = Zero /\ gone = Zero
  /\ cmd \in Commands /\ sort = -1 /\ table = NoTable /\ status = "none"

(***************************************************************************)
(* The kernel (external): events and signals.  fanotify merges events of   *)
(* one object into one mask.  Unasked come IN_UNMOUNT and IN_IGNORED, which *)
(* has no counter: its mask is empty here.  Of an event that is not to be  *)
(* counted nothing else is told.                                           *)
(***************************************************************************)
Arrivals ==
  [wd : by_wd, mask : (SUBSET Events) \cup {{"unmount"}}, skip : {FALSE}]
    \cup [wd : {NoWd}, mask : {{}}, skip : BOOLEAN]

Occur ==
  /\ pc # "exit" /\ used # {} /\ sent < MaxEvents /\ Len(kq) < QueueLimit
  /\ \E event \in Arrivals : kq' = Append(kq, event)
  /\ sent' = sent + 1
  /\ UNCHANGED <<pc, sigvars, used, got, statvars, outvars>>

Exit(code) == pc' = "exit" /\ status' = code

\* A sleeping ppoll returns with EINTR when a handler has run, unless an
\* event woke it first.
Interrupt ==
  /\ UNCHANGED status
  /\ IF pc = "ppoll" /\ kq = << >> THEN pc' = "print2" /\ got' = "eintr"
                                   ELSE UNCHANGED <<pc, got>>

\* handle_impatient_user, handle_signal and print_info_now, or the default
\* action, which ends the process
Handle(s) ==
  \/ /\ handler[s] = "default" /\ Exit("killed")
     /\ UNCHANGED <<got, DONE, PRINT_NOW, TIMES_CALLED>>
  \/ /\ handler[s] = "impatient" /\ TIMES_CALLED # 0 /\ Exit("1")
     /\ UNCHANGED <<got, DONE, PRINT_NOW, TIMES_CALLED>>
  \/ /\ handler[s] = "impatient" /\ TIMES_CALLED = 0 /\ TIMES_CALLED' = 1
     /\ Interrupt
     /\ UNCHANGED <<DONE, PRINT_NOW>>
  \/ /\ handler[s] = "handle_signal" /\ DONE' = TRUE
     /\ Interrupt
     /\ UNCHANGED <<PRINT_NOW, TIMES_CALLED>>
  \/ /\ handler[s] = "print_info_now" /\ PRINT_NOW' = TRUE
     /\ Interrupt
     /\ UNCHANGED <<DONE, TIMES_CALLED>>

UserSignal(s) ==
  /\ pc # "exit" /\ signals < MaxSignals
  /\ signals' = signals + 1
  /\ Handle(s)
  /\ UNCHANGED <<handler, alarm, kernelvars, statvars, cmd, sort, table>>

AlarmFires ==
  /\ pc # "exit" /\ alarm = "armed"
  /\ alarm' = "fired"
  /\ Handle("ALRM")
  /\ UNCHANGED <<handler, signals, kernelvars, statvars, cmd, sort, table>>

(***************************************************************************)
(* Start.                                                                  *)
(***************************************************************************)

\* A sort option as parse_opts stores it: the event's bit, negative for
\* descending; 0 and -1 stand for the sum.
SortCode(arg) ==
  LET asc == arg.dir = "a"
  IN  IF arg.key = "total" THEN (IF asc THEN 0 ELSE -1)
                           ELSE (IF asc THEN Bit(arg.key) ELSE -Bit(arg.key))

\* Only -a marks the sort option as given, and only -a refuses "move".
SortRefused(sorts) ==
  \E k \in DOMAIN sorts :
    sorts[k].dir = "a" /\ (sorts[k].key = "move" \/ k < Len(sorts))

\* "Can't sort by an event which isn't being watched for!"
SortUnwatched(code) ==
  /\ code \notin {0, -1}
  /\ \/ \E k \in Kinds \ Events : Bit(k) \in {code, -code}
     \/ cmd.events # {} /\ Bit("move") \in {code, -code}

\* The last sort option counts, without one the table is sorted by the sum.
parse_opts ==
  /\ pc = "parse"
  /\ sort' = IF cmd.sorts = << >> THEN sort ELSE SortCode(Last(cmd.sorts))
  /\ IF SortRefused(cmd.sorts) \/ SortUnwatched(sort')
       THEN Exit("1")
       ELSE pc' = "establish" /\ UNCHANGED status
  /\ UNCHANGED <<sigvars, kernelvars, got, statvars, cmd, table>>

\* watch_list succeeds, with any watches, or fails.  What it does in detail
\* is WatchTable's and RecursiveWatch's subject.
Establish ==
  /\ pc = "establish"
  /\ \/ /\ \E ws \in SUBSET Wds \ {{}} : used' = ws /\ by_wd' = ws
        /\ pc' = "install" /\ UNCHANGED status
     \/ Exit("1") /\ UNCHANGED <<used, by_wd>>
  /\ UNCHANGED <<sigvars, kq, sent, got, stats, totals, counted, gone, cmd, sort, table>>

\* Faulty: SIGTERM keeps its default action.
BugStartupWithoutTerm ==
  <<"INT", "HUP">> \o (IF Timeout THEN <<"ALRM", "alarm">> ELSE << >>) \o <<"USR1">>

\* The set_signal calls and the call of alarm, in their order.  (Without -t
\* the alarm is set to u32::MAX seconds, which is never.)
Startup ==
  <<"INT", "HUP", "TERM">> \o (IF Timeout THEN <<"ALRM", "alarm">> ELSE << >>)
    \o <<"USR1">>

NewHandler(s) == IF s = "USR1" THEN "print_info_now" ELSE "handle_signal"

Finished(step) ==
  IF step = "alarm" THEN alarm # "off" ELSE handler[step] = NewHandler(step)

\* Signals may arrive between any two of these calls.
Install ==
  /\ pc = "install"
  /\ \/ \E k \in 1..Len(Startup) :
          /\ ~Finished(Startup[k]) /\ \A j \in 1..(k - 1) : Finished(Startup[j])
          /\ IF Startup[k] = "alarm"
               THEN alarm' = "armed" /\ UNCHANGED handler
               ELSE /\ handler' = [handler EXCEPT ![Startup[k]] = NewHandler(Startup[k])]
                    /\ UNCHANGED alarm
          /\ UNCHANGED pc
     \/ /\ \A k \in 1..Len(Startup) : Finished(Startup[k])
        /\ pc' = "stats"
        /\ UNCHANGED <<handler, alarm>>
  /\ UNCHANGED <<DONE, PRINT_NOW, TIMES_CALLED, signals, kernelvars, got, statvars, outvars>>

\* collect_stats was off: the counters of the watches are not touched.
initialize_stats ==
  /\ pc = "stats"
  /\ totals' = Zero
  /\ pc' = "print1"
  /\ UNCHANGED <<sigvars, kernelvars, got, by_wd, stats, counted, gone, outvars>>

(***************************************************************************)
(* The statistics.                                                         *)
(***************************************************************************)

\* One more event for each kind in the mask, and in the sum.
CountOne(c, mask) ==
  [k \in Keys |-> IF k \in mask \cup {"total"} THEN c[k] + 1 ELSE c[k]]

\* Faulty: the counter leaves its width.
BugRecordNoWrap(c, mask) == CountOne(c, mask)

\* WatchStats::record
Record(c, mask) == [k \in Keys |-> CountOne(c, mask)[k] % Modulus]

\* Faulty: an event without a watch is added to the totals.
BugRecordStatsUnfiled(e) ==
  /\ stats' = IF e.wd \in by_wd THEN [stats EXCEPT ![e.wd] = Record(@, e.mask)] ELSE stats
  /\ totals' = Record(totals, e.mask)
  /\ counted' = CountOne(counted, e.mask)

\* record_stats: an event whose descriptor is not filed counts nowhere.
record_stats(e) ==
  IF e.wd \in by_wd
    THEN /\ stats' = [stats EXCEPT ![e.wd] = Record(@, e.mask)]
         /\ totals' = Record(totals, e.mask)
         /\ counted' = CountOne(counted, e.mask)
    ELSE UNCHANGED <<stats, totals, counted>>

(***************************************************************************)
(* The table.                                                              *)
(***************************************************************************)

\* ... and as watches_sorted_by_event takes it apart.  A key that is not
\* that of a counter counts as 0.
SortCount(code, w) ==
  IF code \in {0, -1}
    THEN stats[w]["total"]
    ELSE SumFunction([k \in Kinds |-> IF Bit(k) \in {code, -code} THEN stats[w][k] ELSE 0])

\* Faulty: without regard to the direction
BugPrecedesAscending(code, w1, w2) ==
  LET i1 == SortCount(code, w1)
      i2 == SortCount(code, w2)
  IN  IF i1 = i2 THEN w1 < w2 ELSE i1 < i2

Precedes(code, w1, w2) ==
  LET i1 == SortCount(code, w1)
      i2 == SortCount(code, w2)
  IN  IF i1 = i2 THEN w1 < w2 ELSE IF code >= 0 THEN i1 < i2 ELSE i2 < i1

\* The watches ws, each one once, in that order.
watches_sorted_by_event(code, ws) ==
  CHOOSE q \in SetToSeqs(ws) :
    \A i, j \in DOMAIN q : i < j => Precedes(code, q[i], q[j])

\* Faulty: the watches without a count of the event sorted by are left out.
BugShowsRow(w) == cmd.zero \/ SortCount(sort, w) # 0

ShowsRow(w) == cmd.zero \/ stats[w]["total"] # 0
ShowsColumn(k) == k \in Events /\ (cmd.zero \/ totals[k] # 0)

\* print_info: nothing but a message when no event was counted, else a
\* column for each event and a row for each watch with a count, or for all
\* with -z.  (The code leaves watches out of the sorted list, which keeps
\* the order of the others.)
Printed ==
  IF totals["total"] = 0
    THEN NoTable
    ELSE LET shown == watches_sorted_by_event(sort, {w \in by_wd : ShowsRow(w)})
         IN  [columns |-> {k \in Kinds : ShowsColumn(k)},
              rows |-> [i \in DOMAIN shown |-> [wd |-> shown[i], stats |-> stats[shown[i]]]]]

(***************************************************************************)
(* The loop.                                                               *)
(***************************************************************************)

\* check_print_now: SIGUSR1 asked for the table.
CheckPrintNow(from, to) ==
  /\ pc = from
  /\ PRINT_NOW' = FALSE
  /\ table' = IF PRINT_NOW THEN Printed ELSE table
  /\ pc' = to
  /\ UNCHANGED <<handler, alarm, DONE, TIMES_CALLED, signals, kernelvars, got,
                 statvars, cmd, sort, status>>

\* next_event goes to sleep.  A signal that arrives before is not noticed.
Sleep ==
  /\ pc = "call"
  /\ pc' = "ppoll"
  /\ UNCHANGED <<sigvars, kernelvars, got, statvars, outvars>>

\* next_event takes the next event; a filtered one sends it back to sleep.
Receive ==
  /\ pc = "ppoll" /\ kq # << >>
  /\ kq' = Tail(kq)
  /\ \/ /\ Head(kq).skip
        /\ pc' = "call"
        /\ UNCHANGED <<got, stats, totals, counted>>
     \/ /\ ~Head(kq).skip
        /\ record_stats(Head(kq))
        /\ pc' = "print2" /\ got' = "event"
  /\ UNCHANGED <<sigvars, sent, used, by_wd, gone, outvars>>

\* next_event fails, with or without a value in error.
Fail ==
  /\ pc = "ppoll" /\ kq # << >>
  /\ got' \in {"zero", "error"}
  /\ pc' = "print2"
  /\ UNCHANGED <<sigvars, kernelvars, statvars, outvars>>

\* The match on the result.  MoveTracker::handle may remove a watch, with
\* its counters, or set up a new one.
Dispatch ==
  /\ pc = "dispatch"
  /\ \/ got = "zero" /\ Exit("2") /\ UNCHANGED <<used, by_wd, gone>>
     \/ got = "error" /\ Exit("1") /\ UNCHANGED <<used, by_wd, gone>>
     \/ /\ got \in {"eintr", "event"} /\ pc' = "done"
        /\ UNCHANGED <<used, by_wd, gone, status>>
     \/ /\ got = "event" /\ pc' = "done"
        /\ \E w \in by_wd :
             /\ by_wd' = by_wd \ {w}
             /\ gone' = [k \in Keys |-> (gone[k] + stats[w][k]) % Modulus]
        /\ UNCHANGED <<used, status>>
     \/ /\ got = "event" /\ pc' = "done"
        /\ \E w \in Wds \ used : used' = used \cup {w} /\ by_wd' = by_wd \cup {w}
        /\ UNCHANGED <<gone, status>>
  /\ UNCHANGED <<sigvars, kq, sent, got, stats, totals, counted, cmd, sort, table>>

\* Faulty: an interrupted wait goes back to sleep without looking at DONE.
BugTestDoneAfterEvent ==
  /\ pc = "done"
  /\ IF DONE /\ got = "event" THEN Exit("0") /\ table' = Printed
                              ELSE pc' = "print1" /\ UNCHANGED <<table, status>>
  /\ UNCHANGED <<sigvars, kernelvars, got, statvars, cmd, sort>>

TestDone ==
  /\ pc = "done"
  /\ IF DONE THEN Exit("0") /\ table' = Printed
             ELSE pc' = "print1" /\ UNCHANGED <<table, status>>
  /\ UNCHANGED <<sigvars, kernelvars, got, statvars, cmd, sort>>

Program ==
  \/ parse_opts
  \/ Establish
  \/ Install
  \/ initialize_stats
  \/ CheckPrintNow("print1", "call")
  \/ Sleep
  \/ Receive
  \/ CheckPrintNow("print2", "dispatch")
  \/ Dispatch
  \/ TestDone

Next ==
  \/ Program
  \/ Fail
  \/ Occur
  \/ AlarmFires
  \/ \E s \in Signals \ {"ALRM"} : UserSignal(s)

Spec == Init /\ [][Next]_vars

\* The process runs when it can, and an alarm that is set goes off.
FairSpec == Spec /\ WF_vars(Program) /\ WF_vars(AlarmFires)

(***************************************************************************)
(* Properties.                                                             *)
(***************************************************************************)
Counters == [Keys -> 0..(Modulus - 1)]
KernelEvents == [wd : Wds \cup {NoWd}, mask : SUBSET Kinds, skip : BOOLEAN]

\* Every variable has the shape of what it models; a u32 counter stays one.
TypeOK ==
  /\ pc \in {"parse", "establish", "install", "stats", "print1", "call", "ppoll", "print2",
             "dispatch", "done", "exit"}
  /\ handler \in [Signals -> {"default", "impatient", "handle_signal", "print_info_now"}]
  /\ alarm \in {"off", "armed", "fired"}
  /\ DONE \in BOOLEAN /\ PRINT_NOW \in BOOLEAN /\ TIMES_CALLED \in 0..1
  /\ signals \in Nat /\ sent \in Nat
  /\ kq \in Seq(KernelEvents)
  /\ used \subseteq Wds /\ by_wd \subseteq used
  /\ got \in {"event", "eintr", "zero", "error"}
  /\ stats \in [Wds -> Counters] /\ totals \in Counters
  /\ counted \in [Keys -> Nat] /\ gone \in Counters
  /\ cmd \in Commands /\ sort \in Int
  /\ table.columns \subseteq Kinds /\ table.rows \in Seq([wd : Wds, stats : Counters])
  /\ status \in {"none", "0", "1", "2", "killed"}

SumOver(k) == SumFunction([w \in by_wd |-> stats[w][k]])

\* The totals count every event recorded, and the rows of the table add up
\* to them, short only of watches that were removed, through wrap-around of
\* the counters and events without a watch.
CountersAddUp ==
  \A k \in Keys :
    /\ totals[k] = counted[k] % Modulus
    /\ (SumOver(k) + gone[k]) % Modulus = totals[k]

\* Once an event has been counted, no signal ends the process without the
\* table: the handlers that could are replaced before the loop starts.  What
\* still ends it so is a call of next_event that fails.
NoStatisticsLost ==
  counted # Zero =>
    \/ status \in {"none", "0"}
    \/ status = "2" /\ got = "zero"
    \/ status = "1" /\ got = "error"

\* The table printed last tells all that was counted of the events asked
\* for, and of all events in the column of the sums, short of watches that
\* were removed: the rows left out have nothing to tell, nor have the columns.
\* (A counter that wrapped around may hide the others.  Excepted by name: an
\* IN_UNMOUNT that was not asked for is told in the sums only, as print_info
\* has no column for it.)
TableComplete ==
  status = "0" /\ counted["total"] < Modulus =>
    \A k \in Events \cup {"total"} :
      LET told == [i \in DOMAIN table.rows |-> table.rows[i].stats[k]]
      IN  (IF k \in table.columns \cup {"total"} THEN SumFunction(told) ELSE 0) + gone[k]
            = counted[k]

\* The rows are in the order the sort option asks for, ties by descriptor.
\* (Excepted by name: parse_opts stores "-d access" as -1, the code of the
\* sum, so that table is in the order of the sum.)
Asked ==
  LET arg == IF cmd.sorts = << >> THEN [dir |-> "d", key |-> "total"] ELSE Last(cmd.sorts)
  IN  IF arg = [dir |-> "d", key |-> "access"] THEN [arg EXCEPT !.key = "total"] ELSE arg
SortedAsAsked ==
  \A i, j \in DOMAIN table.rows :
    i < j =>
      LET x == IF Asked.key = "move" THEN 0 ELSE table.rows[i].stats[Asked.key]
          y == IF Asked.key = "move" THEN 0 ELSE table.rows[j].stats[Asked.key]
      IN  \/ Asked.dir = "a" /\ x < y
          \/ Asked.dir = "d" /\ x > y
          \/ x = y /\ table.rows[i].wd < table.rows[j].wd

\* A signal that arrives while the tool sleeps or handles an event ends it,
\* and one that arrives elsewhere does so with the next event to report.
SignalEndsTool ==
  (/\ DONE
   /\ \/ pc \in {"print2", "dispatch", "done"}
      \/ \E k \in 1..Len(kq) : ~kq[k].skip)
    ~> (pc = "exit")

\* "Listen only for the specified amount of seconds" (inotifywatch.1, on
\* --timeout).
ListensOnlyForTimeout == (alarm = "fired") ~> (pc = "exit")
=============================================================================
