--------------------------- MODULE WaitToolProofs ---------------------------
(***************************************************************************)
(* Proofs about inotifywait, for any command lines, paths, events and size *)
(* of the output buffer.                                                   *)
(***************************************************************************)
EXTENDS WaitTool, CollectionFacts

(***************************************************************************)
(* The command line.                                                       *)
(***************************************************************************)
Fields == DOMAIN DefaultOpts(FALSE)

\* What one option does to the options that the theorems are about.
LEMMA OptionEffect ==
  ASSUME NEW opts, DOMAIN opts = Fields, opts.ok = TRUE, NEW t, ParseOption(opts, t).ok = TRUE
  PROVE  LET p == ParseOption(opts, t)
         IN  /\ DOMAIN p = Fields
             /\ p.fromfile = IF t.opt = "z" THEN TRUE ELSE opts.fromfile
             /\ p.recursive = IF t.opt = "r" THEN TRUE ELSE opts.recursive
             /\ p.daemon = IF t.opt = "d" THEN TRUE ELSE opts.daemon
             /\ p.monitor = IF t.opt \in {"m", "d"} THEN TRUE ELSE opts.monitor
             /\ p.exc = IF t.opt = "a" THEN t.regex ELSE opts.exc
             /\ p.exci = IF t.opt = "b" THEN t.regex ELSE opts.exci
             /\ p.inc = IF t.opt = "j" THEN t.regex ELSE opts.inc
             /\ p.inci = IF t.opt = "k" THEN t.regex ELSE opts.inci
             /\ p.events = IF t.opt = "e" THEN opts.events \cup str_to_event(t.names) ELSE opts.events
             /\ t.opt = "e" => EventsValid(t.names)
<1> DEFINE p == ParseOption(opts, t)
<1>1. Fields = {"ok", "monitor", "quiet", "recursive", "fanotify", "filesystem", "csv", "daemon",
                "no_newline", "timefmt", "format", "exc", "exci", "inc", "inci", "fromfile",
                "outfile", "timeout", "events"}
  BY DEF Fields, DefaultOpts
<1>2. Fail(opts).ok = FALSE
  BY <1>1 DEF Fail
<1>3. CASE t.opt \in {"m", "q", "r", "I", "F"}
  BY <1>1, <1>3 DEF ParseOption
<1>4. CASE t.opt \in {"S", "c", "d", "n", "s", "P"}
  BY <1>1, <1>4 DEF ParseOption
<1>5. CASE t.opt \in {"0", "i", "a", "b"}
  BY <1>1, <1>5 DEF ParseOption
<1>6. CASE t.opt \in {"j", "k"}
  BY <1>1, <1>6 DEF ParseOption
<1>7. CASE t.opt \in {"z", "o"}
  BY <1>1, <1>2, <1>7 DEF ParseOption
<1>8. CASE t.opt = "t"
  BY <1>1, <1>2, <1>8 DEF ParseOption
<1>9. CASE t.opt = "e"
  BY <1>1, <1>2, <1>9 DEF ParseOption
<1>10. CASE t.opt \notin {"m", "q", "r", "I", "F", "S", "c", "d", "n", "s", "P", "0", "i", "a", "b",
                         "j", "k", "z", "o", "t", "e"}
  <2>1. p = Fail(opts)
    BY <1>10 DEF ParseOption
  <2> QED
    BY <1>2, <2>1
<1> QED
  BY <1>3, <1>4, <1>5, <1>6, <1>7, <1>8, <1>9, <1>10

\* An option is taken or refused.
LEMMA OptionOk ==
  ASSUME NEW opts, DOMAIN opts = Fields, opts.ok = TRUE, NEW t
  PROVE  /\ ParseOption(opts, t).ok \in BOOLEAN
         /\ DOMAIN ParseOption(opts, t) = Fields
<1>1. Fields = {"ok", "monitor", "quiet", "recursive", "fanotify", "filesystem", "csv", "daemon",
                "no_newline", "timefmt", "format", "exc", "exci", "inc", "inci", "fromfile",
                "outfile", "timeout", "events"}
  BY DEF Fields, DefaultOpts
<1>2. Fail(opts).ok = FALSE /\ DOMAIN Fail(opts) = Fields
  BY <1>1 DEF Fail
<1>3. CASE t.opt \in {"m", "q", "r", "I", "F"}
  BY <1>1, <1>3 DEF ParseOption
<1>4. CASE t.opt \in {"S", "c", "d", "n", "s", "P"}
  BY <1>1, <1>4 DEF ParseOption
<1>5. CASE t.opt \in {"0", "i", "a", "b"}
  BY <1>1, <1>5 DEF ParseOption
<1>6. CASE t.opt \in {"j", "k"}
  BY <1>1, <1>6 DEF ParseOption
<1>7. CASE t.opt \in {"z", "o"}
  BY <1>1, <1>2, <1>7 DEF ParseOption
<1>8. CASE t.opt = "t"
  BY <1>1, <1>2, <1>8 DEF ParseOption
<1>9. CASE t.opt = "e"
  BY <1>1, <1>2, <1>9 DEF ParseOption
<1>10. CASE t.opt \notin {"m", "q", "r", "I", "F", "S", "c", "d", "n", "s", "P", "0", "i", "a", "b",
                         "j", "k", "z", "o", "t", "e"}
  <2>1. ParseOption(opts, t) = Fail(opts)
    BY <1>10 DEF ParseOption
  <2> QED
    BY <1>2, <2>1
<1> QED
  BY <1>3, <1>4, <1>5, <1>6, <1>7, <1>8, <1>9, <1>10

\* g is the loop of parse_opts.
Parses(g, c) ==
  g = [k \in 0..Len(c.argv) |->
         IF k = 0 THEN DefaultOpts(c.fsnotify)
         ELSE IF g[k - 1].ok THEN ParseOption(g[k - 1], c.argv[k]) ELSE g[k - 1]]

\* There is such a function.
LEMMA ParsesExists ==
  ASSUME NEW c \in Commands
  PROVE  \E g : Parses(g, c)
<1> DEFINE n == Len(c.argv)
           Start == DefaultOpts(c.fsnotify)
           Turn(x, k) == IF x.ok THEN ParseOption(x, c.argv[k]) ELSE x
           Good(g, m) == g[0] = Start /\ \A k \in 1..m : g[k] = Turn(g[k - 1], k)
           T == {m \in Nat : \E g : DOMAIN g = 0..m /\ Good(g, m)}
<1>1. n \in Nat
  BY CommandsAssumption
<1> HIDE DEF Start, Turn
<1>2. 0 \in T
  <2>1. DOMAIN [k \in 0..0 |-> Start] = 0..0 /\ Good([k \in 0..0 |-> Start], 0)
    OBVIOUS
  <2> QED
    BY <2>1
<1>3. ASSUME NEW m \in Nat, m \in T PROVE m + 1 \in T
  <2>1. PICK g : DOMAIN g = 0..m /\ Good(g, m)
    BY <1>3
  <2> DEFINE new == Turn(g[m], m + 1)
             h == [k \in 0..(m + 1) |-> IF k = m + 1 THEN new ELSE g[k]]
  <2>2. DOMAIN h = 0..(m + 1) /\ m + 1 \in Nat
    OBVIOUS
  <2>3. h[m + 1] = new /\ \A k \in 0..m : h[k] = g[k]
    <3>1. m + 1 \in 0..(m + 1) /\ \A k \in 0..m : k \in 0..(m + 1) /\ k # m + 1
      OBVIOUS
    <3> HIDE DEF new
    <3> QED
      BY <3>1
  <2> HIDE DEF h
  <2>4. Good(h, m + 1)
    <3>1. h[0] = Start
      BY <2>1, <2>3
    <3>2. ASSUME NEW k \in 1..(m + 1) PROVE h[k] = Turn(h[k - 1], k)
      <4>1. CASE k = m + 1
        <5>1. m \in 0..m /\ k - 1 = m
          BY <4>1
        <5> QED
          BY <2>3, <4>1, <5>1
      <4>2. CASE k # m + 1
        <5>1. k \in 1..m /\ k - 1 \in 0..m /\ k \in 0..m
          BY <4>2
        <5> QED
          BY <2>1, <2>3, <5>1
      <4> QED
        BY <4>1, <4>2
    <3> QED
      BY <3>1, <3>2
  <2> HIDE DEF Good
  <2> QED
    BY <2>2, <2>4, Zenon
<1> HIDE DEF T
<1>4. n \in T
  BY <1>1, <1>2, <1>3, NatSetInduction
<1>5. PICK g : DOMAIN g = 0..n /\ Good(g, n)
  BY <1>4 DEF T
<1> DEFINE h == [k \in 0..n |-> g[k]]
<1>6. ASSUME NEW k \in 0..n
      PROVE  h[k] = IF k = 0 THEN Start ELSE Turn(h[k - 1], k)
  <2>1. h[k] = g[k] /\ (k # 0 => h[k - 1] = g[k - 1] /\ k \in 1..n)
    BY <1>1
  <2> HIDE DEF h
  <2> QED
    BY <1>5, <2>1
<1>7. h = [k \in 0..n |-> h[k]]
  OBVIOUS
<1> HIDE DEF h
<1>8. h = [k \in 0..n |-> IF k = 0 THEN Start ELSE Turn(h[k - 1], k)]
  BY <1>6, <1>7
<1> QED
  BY <1>8 DEF Parses, Start, Turn

\* The last option of a letter among the first k, with its regular
\* expression.
LastRegex(c, k, letter, regex) ==
  IF \E j \in 1..k : c.argv[j].opt = letter
    THEN \E j \in 1..k :
           /\ c.argv[j].opt = letter /\ regex = c.argv[j].regex
           /\ \A i \in 1..k : c.argv[i].opt = letter => i <= j
    ELSE regex = NoRegex

ChosenTo(c, k) == UNION {ChosenBy(c.argv[j]) : j \in {i \in 1..k : c.argv[i].opt = "e"}}

\* What the options hold after the first k.
Holds(opts, c, k) ==
  /\ DOMAIN opts = Fields
  /\ opts.fromfile = (\E j \in 1..k : c.argv[j].opt = "z")
  /\ opts.recursive = (\E j \in 1..k : c.argv[j].opt = "r")
  /\ opts.daemon \in BOOLEAN /\ opts.monitor \in BOOLEAN
  /\ opts.daemon => opts.monitor
  /\ opts.events = ChosenTo(c, k)
  /\ LastRegex(c, k, "a", opts.exc) /\ LastRegex(c, k, "b", opts.exci)
  /\ LastRegex(c, k, "j", opts.inc) /\ LastRegex(c, k, "k", opts.inci)

\* The next option of a letter is the last.
LEMMA LastRegexStep ==
  ASSUME NEW c, NEW k \in Nat, NEW letter, NEW old, LastRegex(c, k, letter, old),
         NEW new, new = IF c.argv[k + 1].opt = letter THEN c.argv[k + 1].regex ELSE old
  PROVE  LastRegex(c, k + 1, letter, new)
<1>1. \A i \in 1..(k + 1) : i \in 1..k \/ i = k + 1
  OBVIOUS
<1>2. k + 1 \in 1..(k + 1) /\ \A i \in 1..k : i \in 1..(k + 1) /\ i <= k + 1
  OBVIOUS
<1>3. CASE c.argv[k + 1].opt = letter
  <2>1. \A i \in 1..(k + 1) : i <= k + 1
    OBVIOUS
  <2>2. new = c.argv[k + 1].regex
    BY <1>3
  <2> QED
    BY <1>2, <1>3, <2>1, <2>2 DEF LastRegex
<1>4. CASE c.argv[k + 1].opt # letter
  <2>1. new = old
    BY <1>4
  <2>2. CASE \E j \in 1..k : c.argv[j].opt = letter
    <3>1. PICK j \in 1..k : /\ c.argv[j].opt = letter /\ old = c.argv[j].regex
                            /\ \A i \in 1..k : c.argv[i].opt = letter => i <= j
      BY <2>2 DEF LastRegex
    <3>2. \A i \in 1..(k + 1) : c.argv[i].opt = letter => i <= j
      BY <1>1, <1>4, <3>1
    <3> QED
      BY <1>2, <2>1, <3>1, <3>2 DEF LastRegex
  <2>3. CASE ~\E j \in 1..k : c.argv[j].opt = letter
    BY <1>1, <1>4, <2>1, <2>3 DEF LastRegex
  <2> QED
    BY <2>2, <2>3
<1> QED
  BY <1>3, <1>4

\* str_to_event gives the events that are chosen.
LEMMA StrToEvent ==
  ASSUME NEW t, DOMAIN t.names \subseteq Nat, EventsValid(t.names)
  PROVE  str_to_event(t.names) = ChosenBy(t)
<1> DEFINE names == t.names
<1>1. CASE Stops(names) = {}
  <2>1. \A k \in DOMAIN names : names[k] # ""
    <3>1. EventBits("") = {}
      BY DEF EventBits, IN_ALL_EVENTS, Unasked
    <3> QED
      BY <1>1, <3>1 DEF Stops
  <2>2. "" \notin {names[k] : k \in DOMAIN names}
    BY <2>1
  <2> QED
    BY <1>1, <2>2 DEF str_to_event, ChosenBy
<1>2. CASE Stops(names) # {}
  <2>1. PICK x \in Stops(names) : \A y \in Stops(names) : x <= y
    <3>1. Stops(names) \subseteq Nat
      BY DEF Stops
    <3> HIDE DEF names
    <3> QED
      BY <1>2, <3>1, NatMin
  <2>2. FirstStop(names) \in Stops(names)
    BY <2>1 DEF FirstStop
  <2>3. names[FirstStop(names)] = ""
    BY <1>2 DEF EventsValid
  <2>4. FirstStop(names) \in DOMAIN names
    BY <2>2 DEF Stops
  <2>5. "" \in {names[k] : k \in DOMAIN names}
    BY <2>3, <2>4
  <2> QED
    BY <1>2, <2>5 DEF str_to_event, ChosenBy
<1> QED
  BY <1>1, <1>2

\* One turn of the loop.
LEMMA HoldsStep ==
  ASSUME NEW c \in Commands, NEW k \in Nat, k + 1 <= Len(c.argv), NEW opts, opts.ok = TRUE,
         Holds(opts, c, k), ParseOption(opts, c.argv[k + 1]).ok = TRUE
  PROVE  Holds(ParseOption(opts, c.argv[k + 1]), c, k + 1)
<1> DEFINE t == c.argv[k + 1]
           p == ParseOption(opts, t)
<1>1. /\ DOMAIN p = Fields
      /\ p.fromfile = IF t.opt = "z" THEN TRUE ELSE opts.fromfile
      /\ p.recursive = IF t.opt = "r" THEN TRUE ELSE opts.recursive
      /\ p.daemon = IF t.opt = "d" THEN TRUE ELSE opts.daemon
      /\ p.monitor = IF t.opt \in {"m", "d"} THEN TRUE ELSE opts.monitor
      /\ p.exc = IF t.opt = "a" THEN t.regex ELSE opts.exc
      /\ p.exci = IF t.opt = "b" THEN t.regex ELSE opts.exci
      /\ p.inc = IF t.opt = "j" THEN t.regex ELSE opts.inc
      /\ p.inci = IF t.opt = "k" THEN t.regex ELSE opts.inci
      /\ p.events = IF t.opt = "e" THEN opts.events \cup str_to_event(t.names) ELSE opts.events
      /\ t.opt = "e" => EventsValid(t.names)
  BY OptionEffect DEF Holds
<1>2. k + 1 \in DOMAIN c.argv
  BY CommandsAssumption
<1>3. \A i \in 1..(k + 1) : i \in 1..k \/ i = k + 1
  OBVIOUS
<1>4. k + 1 \in 1..(k + 1) /\ \A i \in 1..k : i \in 1..(k + 1)
  OBVIOUS
<1> HIDE DEF p
<1>5. p.fromfile = (\E j \in 1..(k + 1) : c.argv[j].opt = "z")
  BY <1>1, <1>3, <1>4 DEF Holds
<1>6. p.recursive = (\E j \in 1..(k + 1) : c.argv[j].opt = "r")
  BY <1>1, <1>3, <1>4 DEF Holds
<1>7. p.daemon \in BOOLEAN /\ p.monitor \in BOOLEAN /\ (p.daemon => p.monitor)
  BY <1>1 DEF Holds
<1>8. p.events = ChosenTo(c, k + 1)
  <2>1. opts.events = ChosenTo(c, k)
    BY DEF Holds
  <2>2. CASE t.opt = "e"
    <3>1. DOMAIN t.names \subseteq Nat
      BY <1>2, <2>2, CommandsAssumption
    <3>2. str_to_event(t.names) = ChosenBy(t)
      BY <1>1, <2>2, <3>1, StrToEvent
    <3>3. {i \in 1..(k + 1) : c.argv[i].opt = "e"} = {i \in 1..k : c.argv[i].opt = "e"} \cup {k + 1}
      BY <1>3, <1>4, <2>2
    <3>4. ChosenTo(c, k + 1) = ChosenTo(c, k) \cup ChosenBy(t)
      BY <3>3 DEF ChosenTo
    <3> QED
      BY <1>1, <2>1, <2>2, <3>2, <3>4
  <2>3. CASE t.opt # "e"
    <3>1. {i \in 1..(k + 1) : c.argv[i].opt = "e"} = {i \in 1..k : c.argv[i].opt = "e"}
      BY <1>3, <1>4, <2>3
    <3> QED
      BY <1>1, <2>1, <2>3, <3>1 DEF ChosenTo
  <2> QED
    BY <2>2, <2>3
<1>9. LastRegex(c, k + 1, "a", p.exc)
  BY <1>1, LastRegexStep DEF Holds
<1>10. LastRegex(c, k + 1, "b", p.exci)
  BY <1>1, LastRegexStep DEF Holds
<1>11. LastRegex(c, k + 1, "j", p.inc)
  BY <1>1, LastRegexStep DEF Holds
<1>12. LastRegex(c, k + 1, "k", p.inci)
  BY <1>1, LastRegexStep DEF Holds
<1>13. Holds(p, c, k + 1)
  BY <1>1, <1>5, <1>6, <1>7, <1>8, <1>9, <1>10, <1>11, <1>12 DEF Holds
<1> QED
  BY <1>13 DEF p

\* What parse_opts returns, when it accepts the command line.
LEMMA ParsedHolds ==
  ASSUME NEW c \in Commands
  PROVE  /\ Parsed(c).ok \in BOOLEAN
         /\ Parsed(c).ok = TRUE => Holds(Parsed(c), c, Len(c.argv)) /\ NoConflict(Parsed(c))
<1> DEFINE n == Len(c.argv)
           g == CHOOSE h : Parses(h, c)
<1>1. Parses(g, c)
  BY ParsesExists, Zenon
<1>2. Parsed(c) = IF NoConflict(g[n]) THEN g[n] ELSE Fail(g[n])
  BY Zenon DEF Parsed, Parses
<1> HIDE DEF g
<1>3. n \in Nat
  BY CommandsAssumption
<1>4. \A k \in 0..n : g[k] = IF k = 0 THEN DefaultOpts(c.fsnotify)
                            ELSE IF g[k - 1].ok THEN ParseOption(g[k - 1], c.argv[k]) ELSE g[k - 1]
  BY <1>1 DEF Parses
<1> DEFINE Fine(k) == /\ g[k].ok \in BOOLEAN /\ DOMAIN g[k] = Fields
                      /\ g[k].ok = TRUE => Holds(g[k], c, k)
           T == {k \in Nat : k \in 0..n => Fine(k)}
<1>5. 0 \in T
  <2>1. g[0] = DefaultOpts(c.fsnotify)
    BY <1>3, <1>4
  <2>2. DOMAIN DefaultOpts(c.fsnotify) = Fields
    BY DEF Fields, DefaultOpts
  <2>3. \A letter : LastRegex(c, 0, letter, NoRegex)
    BY DEF LastRegex
  <2>4. ChosenTo(c, 0) = {}
    BY DEF ChosenTo
  <2>5. Holds(DefaultOpts(c.fsnotify), c, 0)
    BY <2>2, <2>3, <2>4 DEF Holds, DefaultOpts
  <2>6. DefaultOpts(c.fsnotify).ok = TRUE
    BY DEF DefaultOpts
  <2> QED
    BY <2>1, <2>2, <2>5, <2>6
<1>6. ASSUME NEW k \in Nat, k \in T PROVE k + 1 \in T
  <2> SUFFICES ASSUME k + 1 \in 0..n PROVE Fine(k + 1)
    <3> HIDE DEF Fine
    <3> QED
      OBVIOUS
  <2>1. k \in 0..n /\ k + 1 # 0 /\ (k + 1) - 1 = k /\ k + 1 <= n
    BY <1>3
  <2>2. /\ g[k].ok \in BOOLEAN /\ DOMAIN g[k] = Fields
        /\ g[k].ok = TRUE => Holds(g[k], c, k)
    BY <1>6, <2>1
  <2>3. g[k + 1] = IF g[k].ok THEN ParseOption(g[k], c.argv[k + 1]) ELSE g[k]
    BY <1>4, <2>1
  <2>4. CASE g[k].ok = FALSE
    <3>1. g[k + 1] = g[k]
      BY <2>3, <2>4
    <3> QED
      BY <2>2, <2>4, <3>1
  <2>5. CASE g[k].ok = TRUE
    <3>1. g[k + 1] = ParseOption(g[k], c.argv[k + 1])
      BY <2>3, <2>5
    <3>2. g[k + 1].ok \in BOOLEAN /\ DOMAIN g[k + 1] = Fields
      <4> DEFINE x == g[k]
                 u == c.argv[k + 1]
      <4>1. DOMAIN x = Fields /\ x.ok = TRUE
        BY <2>2, <2>5
      <4> HIDE DEF x, u
      <4>2. ParseOption(x, u).ok \in BOOLEAN /\ DOMAIN ParseOption(x, u) = Fields
        BY <4>1, OptionOk
      <4> QED
        BY <3>1, <4>2 DEF x, u
    <3>3. g[k + 1].ok = TRUE => Holds(g[k + 1], c, k + 1)
      BY <2>1, <2>2, <2>5, <3>1, HoldsStep
    <3> QED
      BY <3>2, <3>3
  <2> QED
    BY <2>2, <2>4, <2>5
<1>7. n \in T
  <2> HIDE DEF T
  <2> QED
    BY <1>3, <1>5, <1>6, NatSetInduction
<1>8. g[n].ok \in BOOLEAN /\ DOMAIN g[n] = Fields /\ (g[n].ok = TRUE => Holds(g[n], c, n))
  BY <1>3, <1>7
<1>9. Fail(g[n]).ok = FALSE
  BY <1>8 DEF Fail, Fields, DefaultOpts
<1>10. CASE NoConflict(g[n])
  BY <1>2, <1>8, <1>10
<1>11. CASE ~NoConflict(g[n])
  BY <1>2, <1>9, <1>11
<1> QED
  BY <1>10, <1>11

(***************************************************************************)
(* Type correctness, and what the tool knows at each stage.                *)
(***************************************************************************)

\* The options are those of the command line, and the tool forks at
\* "redirect" at the earliest, and only with --daemon.
Stages ==
  /\ pc # "parse" => o = Parsed(cmd)
  /\ pc \notin {"parse", "done"} => o.ok = TRUE
  /\ pc \in {"parse", "init", "paths", "redirect"} => pid = ToolPid
  /\ pid = DaemonPid => o.daemon = TRUE
  /\ pc \notin {"parse", "init", "done"} => self_pid = IF o.fanotify THEN ToolPid ELSE 0

Basic == TypeOK /\ Stages

\* The sequences of TypeOK, one by one.
LEMMA Lines ==
  ASSUME TypeOK
  PROVE  /\ kq \in Seq(Events) /\ stdio \in Seq(Events) /\ out \in Seq(Events)
         /\ seen \in Seq(Events) /\ cur \in Events /\ StdioCap \in Nat \ {0}
         /\ << >> \in Seq(Events) /\ Len(<< >>) = 0
<1>1. << >> \in Seq(Events) /\ Len(<< >>) = 0
  BY Typing
<1> QED
  BY <1>1, BoundsAssumption DEF TypeOK

\* Printing a line keeps the buffer below its size.
LEMMA PutLineType ==
  ASSUME TypeOK, NEW e \in Events, PutLine(e)
  PROVE  out' \in Seq(Events) /\ stdio' \in Seq(Events) /\ Len(stdio') < StdioCap
<1> DEFINE lines == Append(stdio, e)
<1>1. stdio \in Seq(Events) /\ out \in Seq(Events) /\ StdioCap \in Nat \ {0}
  BY Lines
<1>2. lines \in Seq(Events)
  BY <1>1, Typing, Zenon
<1> HIDE DEF lines
<1>3. out \o lines \in Seq(Events) /\ Len(lines) \in Nat
  BY <1>1, <1>2, Typing, Zenon
<1>4. \/ out' = out \o lines /\ stdio' = << >>
      \/ out' = out /\ stdio' = lines /\ ~(Len(lines) >= StdioCap)
  BY Zenon DEF PutLine, lines
<1>5. CASE out' = out \o lines /\ stdio' = << >>
  <2>1. stdio' \in Seq(Events) /\ Len(stdio') = 0
    BY <1>5, Lines, Zenon
  <2> QED
    BY <1>1, <1>3, <1>5, <2>1
<1>6. CASE out' = out /\ stdio' = lines /\ ~(Len(lines) >= StdioCap)
  <2>1. Len(lines) < StdioCap
    BY <1>1, <1>3, <1>6
  <2> QED
    BY <1>1, <1>2, <1>6, <2>1
<1> QED
  BY <1>4, <1>5, <1>6

\* process::exit
LEMMA ExitType ==
  ASSUME TypeOK, NEW s \in {0, 1, 2}, Exit(s)
  PROVE  /\ pc' = "done" /\ status' = s
         /\ caller' \in {Running, 0, 1, 2, 128} /\ (pid = DaemonPid => caller' = 0)
         /\ out' \in Seq(Events) /\ stdio' \in Seq(Events) /\ Len(stdio') < StdioCap
<1>1. stdio \in Seq(Events) /\ out \in Seq(Events) /\ StdioCap \in Nat \ {0}
  BY Lines
<1>2. out \o stdio \in Seq(Events)
  BY <1>1, Typing, Zenon
<1>3. out' = out \o stdio /\ stdio' = << >>
  BY DEF Exit
<1>4. out' \in Seq(Events) /\ stdio' \in Seq(Events)
  BY <1>2, <1>3, Lines, Zenon
<1>5. Len(stdio') = 0
  BY <1>3, Lines, Zenon
<1>6. Len(stdio') < StdioCap
  BY <1>1, <1>5
<1>7. pc' = "done" /\ status' = s
  BY DEF Exit
<1>8. caller' \in {Running, 0, 1, 2, 128} /\ (pid = DaemonPid => caller' = 0)
  <2>1. caller \in {Running, 0, 1, 2, 128} /\ (pid = DaemonPid => caller = 0)
    BY DEF TypeOK
  <2>2. caller' = IF pid = DaemonPid THEN caller ELSE s
    BY DEF Exit, Forked
  <2> QED
    BY <2>1, <2>2
<1> QED
  BY <1>4, <1>6, <1>7, <1>8

\* The events the tool causes are events.
LEMMA OwnType ==
  ASSUME TypeOK
  PROVE  /\ \A kind \in {"open", "close_nowrite"} : Own(kind) \in Seq(Events) /\ Len(Own(kind)) \in 0..1
         /\ OpenByHandle \in Seq(Events) /\ Len(OpenByHandle) \in 0..2
<1>1. ASSUME NEW kind \in {"open", "close_nowrite"}
      PROVE  Own(kind) \in Seq(Events) /\ Len(Own(kind)) \in 0..1
  <2> DEFINE e == [kind |-> kind, name |-> Here, isdir |-> TRUE, who |-> pid]
  <2>1. e \in Events
    <3>1. kind \in IN_ALL_EVENTS \cup Unasked \cup {"none", "note"} /\ Here \in Names
      <4>1. kind \in IN_ALL_EVENTS
        BY DEF IN_ALL_EVENTS
      <4>2. Here \in Names
        BY DEF Names
      <4> QED
        BY <4>1, <4>2
    <3>2. pid \in {User, ToolPid, DaemonPid}
      BY DEF TypeOK
    <3> QED
      BY <3>1, <3>2 DEF Events
  <2> HIDE DEF e
  <2>2. <<e>> \in Seq(Events) /\ Len(<<e>>) = 1
    BY <2>1, Typing, Zenon
  <2>3. Own(kind) = <<e>> \/ Own(kind) = << >>
    BY Zenon DEF Own, e
  <2>4. CASE Own(kind) = <<e>>
    BY <2>2, <2>4
  <2>5. CASE Own(kind) = << >>
    BY <2>5, Lines
  <2> QED
    BY <2>3, <2>4, <2>5
<1>2. OpenByHandle \in Seq(Events) /\ Len(OpenByHandle) \in 0..2
  <2> DEFINE a == Own("open")
             b == Own("close_nowrite")
  <2>1. a \in Seq(Events) /\ b \in Seq(Events) /\ Len(a) \in 0..1 /\ Len(b) \in 0..1
    BY <1>1
  <2> HIDE DEF a, b
  <2>2. /\ a \o b \in Seq(Events) /\ Len(a \o b) = Len(a) + Len(b)
        /\ \A i \in Nat, j \in Nat : Len(a) <= i /\ Len(b) <= j => Len(a \o b) <= i + j
    BY <2>1, Concat, Zenon
  <2>3. OpenByHandle = a \o b
    BY DEF OpenByHandle, a, b
  <2>4. Len(a \o b) \in 0..2
    <3> DEFINE i == Len(a)
               j == Len(b)
               k == Len(a \o b)
    <3>1. i \in 0..1 /\ j \in 0..1 /\ k = i + j
      BY <2>1, <2>2
    <3> HIDE DEF i, j, k
    <3>2. k \in 0..2
      BY <3>1
    <3> QED
      BY <3>2 DEF k
  <2> QED
    BY <2>2, <2>3, <2>4
<1> QED
  BY <1>1, <1>2

\* What each line and each argument adds to the list of files.
LinePieces(c) == [k \in DOMAIN c.lines |-> AddLine(c.lines[k])]
ArgPieces(c) == [k \in DOMAIN c.args |-> AddArg(c.args[k])]

\* Each adds one name at most.
LEMMA Pieces ==
  ASSUME NEW c \in Commands
  PROVE  LET Good(ss, words) == /\ ss \in Seq(Seq(Paths \cup {NoPath})) /\ Len(ss) = Len(words)
                                /\ \A k \in 1..Len(ss) : Len(ss[k]) <= 1
                                /\ Len(words) \in Nat /\ DOMAIN words = 1..Len(words)
         IN  Good(LinePieces(c), c.lines) /\ Good(ArgPieces(c), c.args)
<1> DEFINE N == Paths \cup {NoPath}
           W == [at : BOOLEAN, name : N]
           ls == [k \in DOMAIN c.lines |-> AddLine(c.lines[k])]
           as == [k \in DOMAIN c.args |-> AddArg(c.args[k])]
<1>1. c.lines \in Seq(W) /\ c.args \in Seq(W) /\ Len(c.lines) \in Nat /\ Len(c.args) \in Nat
  <2>1. c.lines \in Seq(W) /\ c.args \in Seq(W)
    BY CommandsAssumption
  <2> HIDE DEF W
  <2> QED
    BY <2>1, Typing, Zenon
<1>2. \A w \in W : /\ AddLine(w) \in Seq(N) /\ Len(AddLine(w)) <= 1
                   /\ AddArg(w) \in Seq(N) /\ Len(AddArg(w)) <= 1
  <2> SUFFICES ASSUME NEW w \in W
               PROVE  /\ AddLine(w) \in Seq(N) /\ Len(AddLine(w)) <= 1
                      /\ AddArg(w) \in Seq(N) /\ Len(AddArg(w)) <= 1
    OBVIOUS
  <2> DEFINE one == <<w.name>>
             none == << >>
  <2>1. one \in Seq(N) /\ Len(one) = 1 /\ none \in Seq(N) /\ Len(none) = 0
    <3>1. w.name \in N
      OBVIOUS
    <3> HIDE DEF N, W
    <3> QED
      BY <3>1, Typing, Zenon
  <2> DEFINE l == AddLine(w)
             r == AddArg(w)
  <2>2. (l = one \/ l = none) /\ (r = one \/ r = none)
    BY DEF AddLine, AddArg
  <2> HIDE DEF one, none, N, W, l, r
  <2>3. l \in Seq(N) /\ (Len(l) = 1 \/ Len(l) = 0) /\ r \in Seq(N) /\ (Len(r) = 1 \/ Len(r) = 0)
    BY <2>1, <2>2, Zenon
  <2>4. l \in Seq(N) /\ Len(l) <= 1 /\ r \in Seq(N) /\ Len(r) <= 1
    <3> DEFINE i == Len(l)
               j == Len(r)
    <3>1. (i = 1 \/ i = 0) /\ (j = 1 \/ j = 0)
      BY <2>3
    <3> HIDE DEF i, j
    <3>2. i <= 1 /\ j <= 1
      BY <3>1
    <3> QED
      BY <2>3, <3>2 DEF i, j
  <2> QED
    BY <2>4 DEF l, r
<1>3. ls \in Seq(Seq(N)) /\ Len(ls) = Len(c.lines) /\ \A k \in 1..Len(ls) : Len(ls[k]) <= 1
  <2>1. DOMAIN c.lines = 1..Len(c.lines) /\ \A k \in 1..Len(c.lines) : c.lines[k] \in W
    <3> HIDE DEF W
    <3> QED
      BY <1>1, ElementOfSeq, LenProperties
  <2> HIDE DEF W, N
  <2>2. ls \in [1..Len(c.lines) -> Seq(N)] /\ \A k \in 1..Len(c.lines) : Len(ls[k]) <= 1
    BY <1>2, <2>1
  <2> HIDE DEF ls
  <2> QED
    BY <1>1, <2>2, ListIsSeq
<1>4. as \in Seq(Seq(N)) /\ Len(as) = Len(c.args) /\ \A k \in 1..Len(as) : Len(as[k]) <= 1
  <2>1. DOMAIN c.args = 1..Len(c.args) /\ \A k \in 1..Len(c.args) : c.args[k] \in W
    <3> HIDE DEF W
    <3> QED
      BY <1>1, ElementOfSeq, LenProperties
  <2> HIDE DEF W, N
  <2>2. as \in [1..Len(c.args) -> Seq(N)] /\ \A k \in 1..Len(c.args) : Len(as[k]) <= 1
    BY <1>2, <2>1
  <2> HIDE DEF as
  <2> QED
    BY <1>1, <2>2, ListIsSeq
<1>5. DOMAIN c.lines = 1..Len(c.lines) /\ DOMAIN c.args = 1..Len(c.args)
  <2> HIDE DEF W
  <2> QED
    BY <1>1, LenProperties
<1> HIDE DEF ls, as
<1>6. LinePieces(c) = ls /\ ArgPieces(c) = as
  BY DEF LinePieces, ArgPieces, ls, as
<1> QED
  BY <1>1, <1>3, <1>4, <1>5, <1>6

\* The list of files names paths.
LEMMA ListType ==
  ASSUME NEW c \in Commands
  PROVE  /\ construct_path_list(c) \in Seq(Paths \cup {NoPath})
         /\ Len(construct_path_list(c)) <= Len(c.lines) + Len(c.args)
         /\ Len(c.lines) \in Nat /\ Len(c.args) \in Nat
<1> DEFINE N == Paths \cup {NoPath}
           ls == LinePieces(c)
           as == ArgPieces(c)
<1>1. Len(c.lines) \in Nat /\ Len(c.args) \in Nat
  BY Pieces
<1>3. ls \in Seq(Seq(N)) /\ Len(ls) = Len(c.lines) /\ \A k \in 1..Len(ls) : Len(ls[k]) <= 1
  BY Pieces
<1>4. as \in Seq(Seq(N)) /\ Len(as) = Len(c.args) /\ \A k \in 1..Len(as) : Len(as[k]) <= 1
  BY Pieces
<1> HIDE DEF N, ls, as
<1>5. /\ FlattenSeq(ls) \in Seq(N) /\ Len(FlattenSeq(ls)) <= Len(c.lines)
      /\ FlattenSeq(as) \in Seq(N) /\ Len(FlattenSeq(as)) <= Len(c.args)
  BY <1>3, <1>4, FlattenElements
<1> DEFINE fl == FlattenSeq(ls)
           p == IF o.fromfile THEN fl ELSE << >>
           q == FlattenSeq(as)
<1>6. p \in Seq(N) /\ Len(p) <= Len(c.lines) /\ Len(p) \in Nat
  <2>1. << >> \in Seq(N) /\ Len(<< >>) = 0 /\ Len(fl) \in Nat
    BY <1>5, Typing, Zenon
  <2>2. fl \in Seq(N) /\ Len(fl) <= Len(c.lines)
    BY <1>5
  <2> HIDE DEF fl
  <2>3. CASE o.fromfile
    BY <2>1, <2>2, <2>3
  <2>4. CASE ~o.fromfile
    BY <1>1, <2>1, <2>4
  <2> QED
    BY <2>3, <2>4
<1>7. q \in Seq(N) /\ Len(q) <= Len(c.args) /\ Len(q) \in Nat
  <2>1. q \in Seq(N) /\ Len(q) <= Len(c.args)
    BY <1>5
  <2> HIDE DEF q
  <2> QED
    BY <2>1, Typing, Zenon
<1>8. construct_path_list(c) = p \o q
  BY DEF construct_path_list, LinePieces, ArgPieces, ls, as
<1> HIDE DEF p, q
<1>9. p \o q \in Seq(N) /\ Len(p \o q) = Len(p) + Len(q)
  BY <1>6, <1>7, Concat, Zenon
<1>10. Len(p \o q) <= Len(c.lines) + Len(c.args)
  BY <1>1, <1>6, <1>7, Concat, Zenon
<1> QED
  BY <1>1, <1>8, <1>9, <1>10 DEF N

\* x is an element of s.
InList(x, s) == \E k \in 1..Len(s) : s[k] = x

\* The elements of two sequences in a row, and of the tail of one.
LEMMA InListFacts ==
  ASSUME NEW S, NEW s \in Seq(S), NEW x
  PROVE  /\ \A t \in Seq(S) : InList(x, s) \/ InList(x, t) => InList(x, s \o t)
         /\ s # << >> => (InList(x, s) => x = Head(s) \/ InList(x, Tail(s)))
<1>1. ASSUME NEW t \in Seq(S), InList(x, s) \/ InList(x, t) PROVE InList(x, s \o t)
  <2>1. Len(s) \in Nat /\ Len(t) \in Nat
    BY LenProperties
  <2> DEFINE u == s \o t
             a == Len(s)
             b == Len(t)
  <2>2. Len(u) = a + b /\ \A i \in 1..(a + b) : u[i] = IF i <= a THEN s[i] ELSE t[i - a]
    BY ConcatProperties
  <2>3. (\E k \in 1..a : s[k] = x) \/ (\E k \in 1..b : t[k] = x)
    BY <1>1 DEF InList
  <2>4. a \in Nat /\ b \in Nat
    BY <2>1
  <2> HIDE DEF u, a, b
  <2>5. CASE \E k \in 1..a : s[k] = x
    <3>1. PICK k \in 1..a : s[k] = x
      BY <2>5
    <3>2. k \in 1..(a + b) /\ k <= a
      BY <2>4
    <3>3. u[k] = x /\ k \in 1..Len(u)
      BY <2>2, <3>1, <3>2
    <3> QED
      BY <3>3 DEF InList, u
  <2>6. CASE \E k \in 1..b : t[k] = x
    <3>1. PICK k \in 1..b : t[k] = x
      BY <2>6
    <3>2. a + k \in 1..(a + b) /\ ~(a + k <= a) /\ (a + k) - a = k
      BY <2>4
    <3>3. u[a + k] = x /\ a + k \in 1..Len(u)
      BY <2>2, <3>1, <3>2
    <3> QED
      BY <3>3 DEF InList, u
  <2> QED
    BY <2>3, <2>5, <2>6
<1>2. ASSUME s # << >>, InList(x, s) PROVE x = Head(s) \/ InList(x, Tail(s))
  <2>1. PICK k \in 1..Len(s) : s[k] = x
    BY <1>2 DEF InList
  <2>2. Len(s) \in Nat /\ Len(Tail(s)) = Len(s) - 1 /\ \A i \in 1..Len(Tail(s)) : Tail(s)[i] = s[i + 1]
    BY <1>2, HeadTailProperties, LenProperties
  <2>3. Head(s) = s[1]
    OBVIOUS
  <2> DEFINE t == Tail(s)
             n == Len(s)
             l == Len(t)
  <2>4. n \in Nat /\ l = n - 1 /\ (\A i \in 1..l : t[i] = s[i + 1]) /\ k \in 1..n
    BY <2>2
  <2> HIDE DEF t, n, l
  <2>5. CASE k = 1
    BY <2>1, <2>3, <2>5
  <2>6. CASE k # 1
    <3>1. k - 1 \in 1..l /\ (k - 1) + 1 = k
      BY <2>4, <2>6
    <3>2. t[k - 1] = x
      BY <2>1, <2>4, <3>1
    <3>3. InList(x, t)
      BY <3>1, <3>2 DEF InList, l
    <3> QED
      BY <3>3 DEF t
  <2> QED
    BY <2>5, <2>6
<1> QED
  BY <1>1, <1>2

\* Every name that was told is in the list.
LEMMA ListComplete ==
  ASSUME NEW c \in Commands
  PROVE  /\ \A k \in DOMAIN c.args : ~c.args[k].at /\ c.args[k].name # NoPath
               => InList(c.args[k].name, construct_path_list(c))
         /\ o.fromfile => \A k \in DOMAIN c.lines : ~c.lines[k].at
                            => InList(c.lines[k].name, construct_path_list(c))
<1> DEFINE N == Paths \cup {NoPath}
           ls == LinePieces(c)
           as == ArgPieces(c)
           fl == FlattenSeq(ls)
           p == IF o.fromfile THEN fl ELSE << >>
           q == FlattenSeq(as)
<1>1. ls \in Seq(Seq(N)) /\ Len(ls) = Len(c.lines) /\ DOMAIN c.lines = 1..Len(c.lines)
  BY Pieces
<1>2. as \in Seq(Seq(N)) /\ Len(as) = Len(c.args) /\ DOMAIN c.args = 1..Len(c.args)
  BY Pieces
<1>3. construct_path_list(c) = p \o q
  BY DEF construct_path_list, LinePieces, ArgPieces
<1>4. /\ fl \in Seq(N) /\ q \in Seq(N)
      /\ \A k \in 1..Len(ls) : \A j \in 1..Len(ls[k]) : \E i \in 1..Len(fl) : fl[i] = ls[k][j]
      /\ \A k \in 1..Len(as) : \A j \in 1..Len(as[k]) : \E i \in 1..Len(q) : q[i] = as[k][j]
  <2> HIDE DEF N, ls, as
  <2> QED
    BY <1>1, <1>2, FlattenElements
<1>5. p \in Seq(N)
  <2>1. << >> \in Seq(N)
    BY Typing
  <2> HIDE DEF fl, N
  <2> QED
    BY <1>4, <2>1
<1>6. \A x : InList(x, p) \/ InList(x, q) => InList(x, p \o q)
  <2> HIDE DEF p, q, N
  <2> QED
    BY <1>4, <1>5, InListFacts, Zenon
<1>7. ASSUME NEW k \in DOMAIN c.args, ~c.args[k].at, c.args[k].name # NoPath
      PROVE  InList(c.args[k].name, construct_path_list(c))
  <2>1. as[k] = <<c.args[k].name>>
    BY <1>7 DEF ArgPieces, AddArg
  <2>2. 1 \in 1..Len(as[k]) /\ as[k][1] = c.args[k].name
    BY <2>1
  <2>3. k \in 1..Len(as)
    BY <1>2
  <2> HIDE DEF as, q
  <2>4. InList(c.args[k].name, q)
    <3>1. PICK i \in 1..Len(q) : q[i] = as[k][1]
      BY <1>4, <2>2, <2>3, Zenon
    <3> QED
      BY <2>2, <3>1, Zenon DEF InList
  <2> QED
    BY <1>3, <1>6, <2>4
<1>8. ASSUME o.fromfile, NEW k \in DOMAIN c.lines, ~c.lines[k].at
      PROVE  InList(c.lines[k].name, construct_path_list(c))
  <2>1. ls[k] = <<c.lines[k].name>>
    BY <1>8 DEF LinePieces, AddLine
  <2>2. 1 \in 1..Len(ls[k]) /\ ls[k][1] = c.lines[k].name
    BY <2>1
  <2>3. k \in 1..Len(ls)
    BY <1>1
  <2>4. p = fl
    BY <1>8
  <2> HIDE DEF ls, fl, p
  <2>5. InList(c.lines[k].name, p)
    BY <1>4, <2>2, <2>3, <2>4 DEF InList
  <2> QED
    BY <1>3, <1>6, <2>5
<1> QED
  BY <1>7, <1>8

\* What UserEvent and Delete put into the queue.
LEMMA QueueType ==
  ASSUME TypeOK
  PROVE  /\ \A e \in UserEvents : e \in Events /\ Append(kq, e) \in Seq(Events)
         /\ LET e == [kind |-> "ignored", name |-> Here, isdir |-> FALSE, who |-> User]
            IN  e \in Events /\ Append(kq, e) \in Seq(Events)
<1>1. \A e \in UserEvents : e \in Events
  <2>1. IN_ALL_EVENTS \cup {"overflow"} \subseteq IN_ALL_EVENTS \cup Unasked \cup {"none", "note"}
    BY DEF Unasked
  <2> QED
    BY <2>1, UserEventsAssumption DEF Events
<1> DEFINE e == [kind |-> "ignored", name |-> Here, isdir |-> FALSE, who |-> User]
<1>2. e \in Events
  BY DEF Events, Unasked, Names
<1> HIDE DEF e
<1>3. \A x \in Events : Append(kq, x) \in Seq(Events)
  BY Lines, Typing, Zenon
<1> QED
  BY <1>1, <1>2, <1>3 DEF e

\* What next_event does keeps the types.
LEMMA TakeType ==
  ASSUME TypeOK, kq # << >>, Take(Head(kq))
  PROVE  /\ kq' \in Seq(Events) /\ cur' \in Events
         /\ out' \in Seq(Events) /\ stdio' \in Seq(Events) /\ Len(stdio') < StdioCap
         /\ pc' \in {pc, "output"} /\ UNCHANGED <<status, caller>>
<1> DEFINE e == Head(kq)
           h == OpenByHandle
           q == Tail(kq)
<1>1. e \in Events /\ q \in Seq(Events) /\ h \in Seq(Events) /\ << >> \in Seq(Events)
  BY Lines, OwnType, Typing, Zenon
<1>2. PICK f \in {filed, filed \cup {e.name}}, made \in {<< >>, h} :
           \E opens \in IF ~OwnEvent(e) /\ Tested(e) THEN UseName(e, f) ELSE {<< >>} :
             kq' = q \o made \o opens
  BY Zenon DEF Take
<1>3. PICK opens \in {<< >>, h} : kq' = q \o made \o opens
  BY <1>2, Zenon DEF UseName
<1>4. FidNote \in Events
  BY DEF FidNote, NoEvent, Events, Names
<1>5. \/ PutLine(FidNote)
      \/ UNCHANGED <<stdio, out>>
  BY Zenon DEF Take
<1>6. out' \in Seq(Events) /\ stdio' \in Seq(Events) /\ Len(stdio') < StdioCap
  <2>1. CASE PutLine(FidNote)
    BY <1>4, <2>1, PutLineType
  <2>2. CASE UNCHANGED <<stdio, out>>
    BY <2>2 DEF TypeOK
  <2> QED
    BY <1>5, <2>1, <2>2
<1>7. (pc' = pc /\ cur' = cur) \/ (pc' = "output" /\ cur' = e)
  BY Zenon DEF Take
<1>8. UNCHANGED <<status, caller>>
  BY DEF Take
<1>9. kq' \in Seq(Events)
  <2> HIDE DEF q, h
  <2>1. made \in Seq(Events) /\ opens \in Seq(Events)
    BY <1>1
  <2>2. q \o made \in Seq(Events)
    BY <1>1, <2>1, Concat, Zenon
  <2> QED
    BY <1>3, <2>1, <2>2, Concat, Zenon
<1> HIDE DEF e
<1> QED
  BY <1>1, <1>6, <1>7, <1>8, <1>9, Lines, Zenon

\* The first state.
LEMMA BasicInit == Init => Basic
<1> SUFFICES ASSUME Init PROVE Basic
  OBVIOUS
<1>1. NoEvent \in Events
  BY DEF NoEvent, Events, Names
<1>2. << >> \in Seq(Events) /\ Len(<< >>) = 0 /\ << >> \in Seq(Paths \cup {NoPath})
  BY Typing, Zenon
<1>3. posted \in 0..MaxEvents
  BY BoundsAssumption DEF Init
<1>4. Len(stdio) < StdioCap
  <2>1. Len(stdio) = 0
    BY <1>2 DEF Init
  <2> QED
    BY <2>1, BoundsAssumption
<1>5. TypeOK
  <2>1. list \in Seq(Paths \cup {NoPath})
    BY <1>2 DEF Init
  <2>2. {kq, stdio, out, seen} \subseteq Seq(Events) /\ cur \in Events
    BY <1>1, <1>2 DEF Init
  <2>3. /\ cmd \in Commands /\ pc = "parse" /\ pid = ToolPid /\ self_pid = 0 /\ cwd = "start"
        /\ watched = {} /\ dropped = {} /\ status = Running /\ caller = Running
    BY DEF Init
  <2>4. pid # DaemonPid
    BY <2>3 DEF ToolPid, DaemonPid
  <2> QED
    BY <1>3, <1>4, <2>1, <2>2, <2>3, <2>4 DEF TypeOK
<1> QED
  BY <1>5 DEF Basic, Stages, Init, ToolPid, DaemonPid

\* Exit keeps Basic, whatever else it leaves alone.
LEMMA ExitStep ==
  ASSUME Basic, NEW s \in {0, 1, 2}, Exit(s), o' = o \/ o' = Parsed(cmd), pc # "done",
         cmd' = cmd, pid' = pid, cwd' = cwd, list' \in Seq(Paths \cup {NoPath}),
         self_pid' \in {0, ToolPid}, watched' = watched, dropped' = dropped, posted' = posted,
         kq' \in Seq(Events), cur' \in Events, seen' \in Seq(Events),
         pc = "parse" => o' = Parsed(cmd), pc # "parse" => o' = o
  PROVE  Basic'
<1>1. TypeOK /\ Stages
  BY DEF Basic
<1>2. /\ pc' = "done" /\ status' = s
      /\ caller' \in {Running, 0, 1, 2, 128} /\ (pid = DaemonPid => caller' = 0)
      /\ out' \in Seq(Events) /\ stdio' \in Seq(Events) /\ Len(stdio') < StdioCap
  BY <1>1, ExitType
<1>3. s # Running
  BY DEF Running
<1>4. TypeOK'
  BY <1>1, <1>2, <1>3 DEF TypeOK
<1>5. Stages'
  BY <1>1, <1>2 DEF Stages, ToolPid, DaemonPid
<1> QED
  BY <1>4, <1>5 DEF Basic

\* Every step keeps the types, and what is known at each stage.
LEMMA BasicStep == Basic /\ [Next]_vars => Basic'
<1> SUFFICES ASSUME Basic, [Next]_vars PROVE Basic'
  OBVIOUS
<1>0. /\ TypeOK /\ Stages /\ list \in Seq(Paths \cup {NoPath}) /\ kq \in Seq(Events)
      /\ cur \in Events /\ seen \in Seq(Events) /\ self_pid \in {0, ToolPid}
      /\ (pc # "done" => status = Running)
  BY DEF Basic, TypeOK
<1>1. ASSUME parse_opts PROVE Basic'
  <2>1. /\ pc = "parse" /\ o' = Parsed(cmd)
        /\ UNCHANGED <<cmd, list, pid, self_pid, cwd, kvars, eventvars>>
    BY <1>1 DEF parse_opts
  <2>2. CASE Exit(1)
    BY <1>0, <2>1, <2>2, ExitStep DEF kvars, eventvars
  <2>3. CASE o'.ok /\ Goto("init")
    <3>1. o'.ok = TRUE
      BY <1>0, <2>1, <2>3, ParsedHolds DEF TypeOK
    <3>2. TypeOK'
      BY <1>0, <2>1, <2>3 DEF TypeOK, Goto, kvars, eventvars
    <3>3. Stages'
      BY <1>0, <2>1, <2>3, <3>1 DEF Stages, Goto, ToolPid, DaemonPid
    <3> QED
      BY <3>2, <3>3 DEF Basic
  <2> QED
    BY <1>1, <2>2, <2>3 DEF parse_opts
<1>2. ASSUME InitLibrary PROVE Basic'
  <2>1. /\ pc = "init" /\ self_pid' = IF o.fanotify THEN pid ELSE 0
        /\ UNCHANGED <<cmd, o, list, pid, cwd, kvars, eventvars>>
    BY <1>2 DEF InitLibrary
  <2>2. pid = ToolPid /\ self_pid' \in {0, ToolPid}
    BY <1>0, <2>1 DEF Stages
  <2>3. CASE Exit(1)
    BY <1>0, <2>1, <2>2, <2>3, ExitStep DEF kvars, eventvars
  <2>4. CASE Goto("paths")
    <3>1. TypeOK'
      BY <1>0, <2>1, <2>2, <2>4 DEF TypeOK, Goto, kvars, eventvars
    <3>2. Stages'
      BY <1>0, <2>1, <2>2, <2>4 DEF Stages, Goto, ToolPid, DaemonPid
    <3> QED
      BY <3>1, <3>2 DEF Basic
  <2> QED
    BY <1>2, <2>3, <2>4 DEF InitLibrary
<1>3. ASSUME BuildList PROVE Basic'
  <2>1. pc = "paths" /\ UNCHANGED <<cmd, o, pid, self_pid, cwd, kvars, eventvars>>
    BY <1>3 DEF BuildList
  <2>2. list' = list \/ list' = construct_path_list(cmd)
    BY <1>3 DEF BuildList
  <2>3. list' \in Seq(Paths \cup {NoPath})
    BY <1>0, <2>2, ListType DEF TypeOK
  <2>4. CASE Exit(1)
    BY <1>0, <2>1, <2>3, <2>4, ExitStep DEF kvars, eventvars
  <2>5. CASE Goto("redirect")
    <3>1. TypeOK'
      BY <1>0, <2>1, <2>3, <2>5 DEF TypeOK, Goto, kvars, eventvars
    <3>2. Stages'
      BY <1>0, <2>1, <2>5 DEF Stages, Goto, ToolPid, DaemonPid
    <3> QED
      BY <3>1, <3>2 DEF Basic
  <2> QED
    BY <1>3, <2>4, <2>5 DEF BuildList
<1>4. ASSUME Daemonize PROVE Basic'
  <2>1. pc = "redirect" /\ o.daemon /\ UNCHANGED <<cmd, o, list, self_pid, kvars, eventvars>>
    BY <1>4 DEF Daemonize
  <2>2. CASE Exit(1) /\ UNCHANGED <<pid, cwd>>
    BY <1>0, <2>1, <2>2, ExitStep DEF kvars, eventvars
  <2>3. CASE /\ pid' = DaemonPid /\ cwd' = "/" /\ caller' = 0
             /\ \/ pc' = "watch" /\ UNCHANGED status
                \/ pc' = "done" /\ status' = 1
             /\ UNCHANGED <<stdio, out>>
    <3>1. TypeOK'
      BY <1>0, <2>1, <2>3 DEF TypeOK, kvars, eventvars, Running
    <3>2. o.daemon = TRUE
      <4>1. o = Parsed(cmd) /\ o.ok = TRUE /\ cmd \in Commands
        BY <1>0, <2>1 DEF Stages, TypeOK
      <4>2. o.daemon \in BOOLEAN
        BY <4>1, ParsedHolds DEF Holds
      <4> QED
        BY <2>1, <4>2
    <3>3. Stages'
      BY <1>0, <2>1, <2>3, <3>2 DEF Stages, ToolPid, DaemonPid
    <3> QED
      BY <3>1, <3>3 DEF Basic
  <2> QED
    BY <1>4, <2>2, <2>3 DEF Daemonize
<1>5. ASSUME RedirectOutput PROVE Basic'
  <2>1. pc = "redirect" /\ UNCHANGED <<startvars, kvars, eventvars>>
    BY <1>5 DEF RedirectOutput
  <2>2. CASE Exit(1)
    BY <1>0, <2>1, <2>2, ExitStep DEF startvars, kvars, eventvars
  <2>3. CASE Goto("watch")
    <3>1. TypeOK'
      BY <1>0, <2>1, <2>3 DEF TypeOK, Goto, startvars, kvars, eventvars
    <3>2. Stages'
      BY <1>0, <2>1, <2>3 DEF Stages, Goto, startvars
    <3> QED
      BY <3>1, <3>2 DEF Basic
  <2> QED
    BY <1>5, <2>2, <2>3 DEF RedirectOutput
<1>6. ASSUME WatchNext PROVE Basic'
  <2>1. pc = "watch" /\ list # << >>
        /\ UNCHANGED <<cmd, o, pid, self_pid, cwd, dropped, posted, eventvars>>
    BY <1>6 DEF WatchNext
  <2>2. CASE Exit(1) /\ UNCHANGED <<watched, kq, list>>
    BY <1>0, <2>1, <2>2, ExitStep DEF eventvars
  <2>3. CASE /\ Exists(Head(list))
             /\ watched' = watched \cup {Head(list)}
             /\ kq' = kq \o Own("open")
             /\ list' = Tail(list)
             /\ Goto("watch")
    <3>1. kq' \in Seq(Events)
      <4>1. Own("open") \in Seq(Events)
        BY <1>0, OwnType
      <4> QED
        BY <1>0, <2>3, <4>1, Concat, Zenon
    <3>2. list' \in Seq(Paths \cup {NoPath})
      BY <1>0, <2>1, <2>3, Typing, Zenon
    <3>3. watched' \subseteq Paths
      BY <1>0, <2>3 DEF TypeOK, Exists
    <3>4. TypeOK'
      BY <1>0, <2>1, <2>3, <3>1, <3>2, <3>3 DEF TypeOK, Goto, eventvars
    <3>5. Stages'
      BY <1>0, <2>1, <2>3 DEF Stages, Goto
    <3> QED
      BY <3>4, <3>5 DEF Basic
  <2> QED
    BY <1>6, <2>2, <2>3 DEF WatchNext
<1>7. ASSUME Established PROVE Basic'
  <2>1. pc = "watch" /\ UNCHANGED <<startvars, kvars, eventvars>>
    BY <1>7 DEF Established
  <2>2. CASE Exit(1)
    BY <1>0, <2>1, <2>2, ExitStep DEF startvars, kvars, eventvars
  <2>3. CASE Goto("wait")
    <3>1. TypeOK'
      BY <1>0, <2>1, <2>3 DEF TypeOK, Goto, startvars, kvars, eventvars
    <3>2. Stages'
      BY <1>0, <2>1, <2>3 DEF Stages, Goto, startvars
    <3> QED
      BY <3>1, <3>2 DEF Basic
  <2> QED
    BY <1>7, <2>2, <2>3 DEF Established
<1>8. ASSUME ReadEvent PROVE Basic'
  <2>1. /\ pc = "wait" /\ kq # << >> /\ seen' = Append(seen, Head(kq))
        /\ UNCHANGED <<startvars, watched, dropped, posted>>
    BY <1>8 DEF ReadEvent
  <2>2. seen' \in Seq(Events) /\ Tail(kq) \in Seq(Events)
    BY <1>0, <2>1, Typing, Zenon
  <2>3. CASE Exit(2) /\ kq' = Tail(kq) /\ UNCHANGED <<filed, cur>>
    <3>1. kq' \in Seq(Events) /\ cur' \in Events /\ list' \in Seq(Paths \cup {NoPath})
      BY <1>0, <2>1, <2>2, <2>3 DEF startvars
    <3> QED
      BY <1>0, <2>1, <2>2, <2>3, <3>1, ExitStep DEF startvars
  <2>4. CASE Take(Head(kq))
    <3>1. /\ kq' \in Seq(Events) /\ cur' \in Events
          /\ out' \in Seq(Events) /\ stdio' \in Seq(Events) /\ Len(stdio') < StdioCap
          /\ pc' \in {pc, "output"} /\ UNCHANGED <<status, caller>>
      BY <1>0, <2>1, <2>4, TakeType
    <3>2. TypeOK'
      BY <1>0, <2>1, <2>2, <3>1 DEF TypeOK, startvars
    <3>3. Stages'
      BY <1>0, <2>1, <3>1 DEF Stages, startvars
    <3> QED
      BY <3>2, <3>3 DEF Basic
  <2> QED
    BY <1>8, <2>3, <2>4 DEF ReadEvent
<1>9. ASSUME Timeout PROVE Basic'
  BY <1>0, <1>9, ExitStep DEF Timeout, startvars, kvars, eventvars
<1>10. ASSUME PollFails PROVE Basic'
  BY <1>0, <1>10, ExitStep DEF PollFails, startvars, kvars, eventvars
<1>11. ASSUME OutputEvent PROVE Basic'
  <2>1. /\ pc = "output" /\ pc' \in {"handle", "wait", "finish"}
        /\ UNCHANGED <<startvars, watched, dropped, posted, eventvars, status, caller>>
    BY <1>11 DEF OutputEvent
  <2>2. /\ kq' \in Seq(Events) /\ out' \in Seq(Events) /\ stdio' \in Seq(Events)
        /\ Len(stdio') < StdioCap
    <3>1. CASE output_event(cur)
      <4>1. PICK opens \in UseName(cur, filed) : PutLine(cur) /\ kq' = kq \o opens
        BY <3>1, Zenon DEF output_event
      <4>2. opens \in Seq(Events)
        <5>1. opens = << >> \/ opens = OpenByHandle
          BY <4>1, Zenon DEF UseName
        <5> QED
          BY <1>0, <5>1, OwnType, Lines
      <4>3. kq' \in Seq(Events)
        BY <1>0, <4>1, <4>2, Concat, Zenon
      <4> QED
        BY <1>0, <4>1, <4>3, PutLineType
    <3>2. CASE UNCHANGED <<stdio, out, kq>>
      BY <1>0, <3>2 DEF TypeOK
    <3> QED
      BY <1>11, <3>1, <3>2 DEF OutputEvent
  <2>3. TypeOK'
    BY <1>0, <2>1, <2>2 DEF TypeOK, startvars, eventvars
  <2>4. Stages'
    BY <1>0, <2>1 DEF Stages, startvars
  <2> QED
    BY <2>3, <2>4 DEF Basic
<1>12. ASSUME HandleEvent PROVE Basic'
  <2>1. /\ pc = "handle" /\ pc' \in {"wait", "finish"} /\ out' = out \o stdio /\ stdio' = << >>
        /\ UNCHANGED <<startvars, kvars, eventvars, status, caller>>
    BY <1>12 DEF HandleEvent
  <2>2. out' \in Seq(Events) /\ stdio' \in Seq(Events) /\ Len(stdio') = 0
    BY <1>0, <2>1, Lines, Concat, Zenon
  <2>3. Len(stdio') < StdioCap
    BY <2>2, BoundsAssumption
  <2>4. TypeOK'
    BY <1>0, <2>1, <2>2, <2>3 DEF TypeOK, startvars, kvars, eventvars
  <2>5. Stages'
    BY <1>0, <2>1 DEF Stages, startvars
  <2> QED
    BY <2>4, <2>5 DEF Basic
<1>13. ASSUME Finish PROVE Basic'
  <2>1. pc = "finish" /\ UNCHANGED <<startvars, kvars, eventvars>>
    BY <1>13 DEF Finish
  <2>2. Exit(0) \/ Exit(1)
    BY <1>13 DEF Finish
  <2> QED
    BY <1>0, <2>1, <2>2, ExitStep DEF startvars, kvars, eventvars
<1>14. ASSUME Kill PROVE Basic'
  <2>1. /\ pc \in {"wait", "output", "handle"} /\ pc' = "done" /\ status' = 128 /\ stdio' = << >>
        /\ caller' = (IF pid = DaemonPid THEN caller ELSE 128)
        /\ UNCHANGED <<startvars, kvars, eventvars, out>>
    BY <1>14 DEF Kill, Forked
  <2>2. stdio' \in Seq(Events) /\ Len(stdio') = 0
    BY <1>0, <2>1, Lines, Zenon
  <2>3. Len(stdio') < StdioCap
    BY <2>2, BoundsAssumption
  <2>4. TypeOK'
    BY <1>0, <2>1, <2>2, <2>3 DEF TypeOK, startvars, kvars, eventvars, Running
  <2>5. Stages'
    BY <1>0, <2>1 DEF Stages, startvars
  <2> QED
    BY <2>4, <2>5 DEF Basic
<1>15. ASSUME NEW e \in UserEvents, UserEvent(e) PROVE Basic'
  <2>1. /\ posted < MaxEvents /\ kq' = Append(kq, e) /\ posted' = posted + 1
        /\ UNCHANGED <<startvars, pc, watched, dropped, eventvars, stdio, out, status, caller>>
    BY <1>15 DEF UserEvent
  <2>2. kq' \in Seq(Events)
    BY <1>0, <2>1, QueueType
  <2>3. posted' \in 0..MaxEvents
    BY <1>0, <2>1, BoundsAssumption DEF TypeOK
  <2>4. TypeOK'
    BY <1>0, <2>1, <2>2, <2>3 DEF TypeOK, startvars, eventvars
  <2>5. Stages'
    BY <1>0, <2>1 DEF Stages, startvars
  <2> QED
    BY <2>4, <2>5 DEF Basic
<1>16. ASSUME NEW p \in Paths, Delete(p) PROVE Basic'
  <2>1. /\ posted < MaxEvents /\ posted' = posted + 1 /\ p \in watched
        /\ watched' = watched \ {p} /\ dropped' = dropped \cup {p}
        /\ UNCHANGED <<startvars, pc, eventvars, stdio, out, status, caller>>
    BY <1>16 DEF Delete
  <2>2. kq' \in Seq(Events)
    BY <1>0, <1>16, QueueType DEF Delete
  <2>3. posted' \in 0..MaxEvents
    BY <1>0, <2>1, BoundsAssumption DEF TypeOK
  <2>4. TypeOK'
    BY <1>0, <2>1, <2>2, <2>3 DEF TypeOK, startvars, eventvars
  <2>5. Stages'
    BY <1>0, <2>1 DEF Stages, startvars
  <2> QED
    BY <2>4, <2>5 DEF Basic
<1>17. CASE UNCHANGED vars
  <2>1. TypeOK'
    BY <1>0, <1>17 DEF TypeOK, vars, startvars
  <2>2. Stages'
    BY <1>0, <1>17 DEF Stages, vars, startvars
  <2> QED
    BY <2>1, <2>2 DEF Basic
<1> QED
  BY <1>1, <1>2, <1>3, <1>4, <1>5, <1>6, <1>7, <1>8, <1>9, <1>10, <1>11, <1>12, <1>13, <1>14,
     <1>15, <1>16, <1>17 DEF Next, Tool

\* TypeOK, the shape of every variable, and what is known at each stage
\* hold throughout.
THEOREM BasicInvariance == Spec => []Basic
<1> QED
  BY BasicInit, BasicStep, PTL DEF Spec

\* inotifywait keeps its variables in shape: it has an exit status exactly
\* when it has ended, the caller of a daemon has got 0, and the buffer of
\* standard output never holds more lines than fit.
THEOREM TypeCorrect == Spec => []TypeOK
<1>1. Basic => TypeOK
  BY DEF Basic
<1> QED
  BY BasicInvariance, <1>1, PTL

(***************************************************************************)
(* The files to watch.                                                     *)
(***************************************************************************)

\* The names the tool was told, on the command line or in the file.
Told == {w.name : w \in {x \in Words : ~x.at}} \ {NoPath}

\* From BuildList on, each is in the list, or is or was watched; the list is
\* empty when the tool starts to wait.
Listing ==
  /\ pc \in {"redirect", "watch", "wait", "output", "handle", "finish"} =>
       \A x \in Told : InList(x, list) \/ x \in watched \cup dropped
  /\ pc \in {"wait", "output", "handle", "finish"} => list = << >>

\* The option --fromfile, seen from the command line.
LEMMA HasOption ==
  ASSUME Basic, pc \notin {"parse", "done"}
  PROVE  /\ o = Parsed(cmd) /\ cmd \in Commands /\ NoConflict(o)
         /\ Holds(o, cmd, Len(cmd.argv))
         /\ DOMAIN cmd.argv = 1..Len(cmd.argv) /\ Len(cmd.argv) \in Nat
         /\ Has("z") <=> o.fromfile
         /\ Has("r") <=> o.recursive
<1>1. o = Parsed(cmd) /\ cmd \in Commands /\ o.ok = TRUE
  BY DEF Basic, Stages, TypeOK
<1>2. Holds(o, cmd, Len(cmd.argv)) /\ NoConflict(o)
  BY <1>1, ParsedHolds
<1>3. DOMAIN cmd.argv = 1..Len(cmd.argv) /\ Len(cmd.argv) \in Nat
  BY <1>1, CommandsAssumption
<1>4. \A letter : Has(letter) <=> \E j \in 1..Len(cmd.argv) : cmd.argv[j].opt = letter
  BY <1>3 DEF Has, Options
<1> QED
  BY <1>1, <1>2, <1>3, <1>4 DEF Holds

\* A step that leaves the list and does not lose a path keeps Listing.
LEMMA ListingKept ==
  ASSUME Listing, cmd' = cmd, list' = list, watched \cup dropped \subseteq watched' \cup dropped',
         \/ pc' \in {"init", "paths", "done"} \/ pc' = pc
         \/ pc \in {"wait", "output", "handle", "finish"}
         \/ pc = "redirect" /\ pc' = "watch"
         \/ pc = "watch" /\ pc' = "wait" /\ list = << >>
  PROVE  Listing'
<1>1. Told' = Told
  BY DEF Told, Words, Has, Options
<1>2. CASE pc' \in {"init", "paths", "done"}
  BY <1>2 DEF Listing
<1>3. CASE pc' \notin {"init", "paths", "done"}
  <2>1. \A x : InList(x, list)' <=> InList(x, list)
    BY DEF InList
  <2> QED
    BY <1>1, <1>3, <2>1 DEF Listing
<1> QED
  BY <1>2, <1>3

\* Every step keeps Listing.
LEMMA ListingStep == Basic /\ Listing /\ [Next]_vars => Listing'
<1> SUFFICES ASSUME Basic, Listing, [Next]_vars PROVE Listing'
  OBVIOUS
<1>1. ASSUME BuildList PROVE Listing'
  <2>1. pc = "paths" /\ UNCHANGED <<cmd, o, watched, dropped>>
    BY <1>1 DEF BuildList, kvars
  <2>2. CASE pc' = "done"
    BY <2>2 DEF Listing
  <2>3. CASE pc' # "done"
    <3>1. list' = construct_path_list(cmd) /\ pc' = "redirect"
      BY <1>1, <2>3 DEF BuildList, Exit, Goto
    <3>2. cmd \in Commands /\ (Has("z") <=> o.fromfile)
      BY <2>1, HasOption
    <3>3. ASSUME NEW x \in Told PROVE InList(x, construct_path_list(cmd))
      <4>1. PICK w \in Words : x = w.name /\ ~w.at /\ x # NoPath
        BY DEF Told
      <4>2. CASE \E k \in DOMAIN cmd.args : w = cmd.args[k]
        BY <3>2, <4>1, <4>2, ListComplete
      <4>3. CASE Has("z") /\ \E k \in DOMAIN cmd.lines : w = cmd.lines[k]
        BY <3>2, <4>1, <4>3, ListComplete
      <4> QED
        BY <4>1, <4>2, <4>3 DEF Words
    <3>4. Told' = Told
      BY <2>1 DEF Told, Words, Has, Options
    <3>5. \A x \in Told' : InList(x, list)'
      BY <3>1, <3>3, <3>4 DEF InList
    <3> QED
      BY <3>1, <3>5 DEF Listing
  <2> QED
    BY <2>2, <2>3
<1>2. ASSUME WatchNext PROVE Listing'
  <2>1. pc = "watch" /\ list # << >> /\ UNCHANGED <<cmd, dropped>>
    BY <1>2 DEF WatchNext
  <2>2. CASE pc' = "done"
    BY <2>2 DEF Listing
  <2>3. CASE pc' # "done"
    <3>1. /\ watched' = watched \cup {Head(list)} /\ list' = Tail(list) /\ pc' = "watch"
      BY <1>2, <2>3 DEF WatchNext, Exit, Goto
    <3>2. list \in Seq(Paths \cup {NoPath})
      BY DEF Basic, TypeOK
    <3>3. Told' = Told
      BY <2>1 DEF Told, Words, Has, Options
    <3>4. ASSUME NEW x \in Told PROVE InList(x, Tail(list)) \/ x \in watched' \cup dropped'
      <4>1. InList(x, list) \/ x \in watched \cup dropped
        BY <2>1 DEF Listing
      <4>2. InList(x, list) => x = Head(list) \/ InList(x, Tail(list))
        BY <2>1, <3>2, InListFacts, Zenon
      <4> QED
        BY <2>1, <3>1, <4>1, <4>2
    <3>5. \A x \in Told' : InList(x, list)' \/ x \in watched' \cup dropped'
      BY <3>1, <3>3, <3>4 DEF InList
    <3> QED
      BY <3>1, <3>5 DEF Listing
  <2> QED
    BY <2>2, <2>3
<1>3. ASSUME parse_opts \/ InitLibrary \/ Daemonize \/ RedirectOutput \/ Established PROVE Listing'
  <2>1. /\ UNCHANGED <<cmd, list, watched, dropped>>
        /\ \/ pc' \in {"init", "paths", "done"}
           \/ pc = "redirect" /\ pc' = "watch"
           \/ pc = "watch" /\ pc' = "wait" /\ list = << >>
    <3>1. CASE parse_opts
      BY <3>1 DEF parse_opts, Exit, Goto, kvars
    <3>2. CASE InitLibrary
      BY <3>2 DEF InitLibrary, Exit, Goto, kvars
    <3>3. CASE Daemonize
      BY <3>3 DEF Daemonize, Exit, kvars
    <3>4. CASE RedirectOutput
      BY <3>4 DEF RedirectOutput, Exit, Goto, kvars, startvars
    <3>5. CASE Established
      BY <3>5 DEF Established, Exit, Goto, kvars, startvars
    <3> QED
      BY <1>3, <3>1, <3>2, <3>3, <3>4, <3>5
  <2> QED
    BY <2>1, ListingKept
<1>4. ASSUME \/ ReadEvent \/ Timeout \/ OutputEvent \/ HandleEvent \/ Finish \/ PollFails \/ Kill
      PROVE  Listing'
  <2>1. /\ UNCHANGED <<cmd, list, watched, dropped>>
        /\ pc \in {"wait", "output", "handle", "finish"}
    <3>1. CASE ReadEvent
      BY <3>1 DEF ReadEvent, startvars
    <3>2. CASE Timeout \/ PollFails
      BY <3>2 DEF Timeout, PollFails, startvars, kvars
    <3>3. CASE OutputEvent
      BY <3>3 DEF OutputEvent, startvars
    <3>4. CASE HandleEvent
      BY <3>4 DEF HandleEvent, startvars, kvars
    <3>5. CASE Finish
      BY <3>5 DEF Finish, startvars, kvars
    <3>6. CASE Kill
      BY <3>6 DEF Kill, startvars, kvars
    <3> QED
      BY <1>4, <3>1, <3>2, <3>3, <3>4, <3>5, <3>6
  <2> QED
    BY <2>1, ListingKept
<1>5. ASSUME NEW e \in UserEvents, UserEvent(e) PROVE Listing'
  BY <1>5, ListingKept DEF UserEvent, startvars
<1>6. ASSUME NEW p \in Paths, Delete(p) PROVE Listing'
  BY <1>6, ListingKept DEF Delete, startvars
<1>7. CASE UNCHANGED vars
  BY <1>7, ListingKept DEF vars, startvars
<1> QED
  BY <1>1, <1>2, <1>3, <1>4, <1>5, <1>6, <1>7 DEF Next, Tool

\* A tool that waits for events watches, or did watch until it was deleted,
\* every file it was told to watch: whatever the lines of --fromfile and the
\* arguments, none is passed over between the list and the watches.
THEOREM ToldIsWatched == Spec => []ListedAreWatched
<1>1. Init => Listing
  BY DEF Init, Listing
<1>2. Basic /\ Listing => ListedAreWatched
  <2> SUFFICES ASSUME Listing, pc \in {"wait", "output", "handle"}, NEW x \in Told
               PROVE  x \in watched \cup dropped
    BY DEF ListedAreWatched, Told
  <2>1. list = << >> /\ (InList(x, list) \/ x \in watched \cup dropped)
    BY DEF Listing
  <2>2. ~InList(x, << >>)
    BY DEF InList
  <2> QED
    BY <2>1, <2>2
<1> QED
  BY BasicInvariance, ListingStep, <1>1, <1>2, PTL DEF Spec

(***************************************************************************)
(* What is asked on the command line, and what the tool makes of it.       *)
(***************************************************************************)

\* The regular expression of a filter is that of the last such option.
LEMMA RegexIs ==
  ASSUME Basic, pc \notin {"parse", "done"}, NEW letter \in {"a", "b", "j", "k"}, NEW re,
         LastRegex(cmd, Len(cmd.argv), letter, re)
  PROVE  /\ re.given <=> Has(letter)
         /\ Has(letter) => re = LastOf(letter).regex
<1> DEFINE n == Len(cmd.argv)
<1>1. cmd \in Commands /\ DOMAIN cmd.argv = 1..n /\ n \in Nat
  BY HasOption
<1>2. Has(letter) <=> \E j \in 1..n : cmd.argv[j].opt = letter
  BY <1>1 DEF Has, Options
<1>3. CASE Has(letter)
  <2>1. PICK j \in 1..n : /\ cmd.argv[j].opt = letter /\ re = cmd.argv[j].regex
                          /\ \A i \in 1..n : cmd.argv[i].opt = letter => i <= j
    BY <1>2, <1>3 DEF LastRegex
  <2> DEFINE L(k) == /\ cmd.argv[k].opt = letter
                     /\ \A i \in DOMAIN cmd.argv : cmd.argv[i].opt = letter => i <= k
             c == CHOOSE k \in DOMAIN cmd.argv : L(k)
  <2>2. L(j) /\ j \in DOMAIN cmd.argv
    BY <1>1, <2>1
  <2>3. \A k \in DOMAIN cmd.argv : L(k) => k = j
    BY <1>1, <2>1
  <2>4. LastOf(letter) = cmd.argv[c]
    BY Zenon DEF LastOf
  <2> HIDE DEF L
  <2>5. c = j
    BY <2>2, <2>3
  <2>6. LastOf(letter).regex = re
    BY <2>1, <2>4, <2>5
  <2>7. re.given = TRUE
    BY <1>1, <2>1, CommandsAssumption
  <2> QED
    BY <1>3, <2>6, <2>7
<1>4. CASE ~Has(letter)
  <2>1. re = NoRegex
    BY <1>2, <1>4 DEF LastRegex
  <2> QED
    BY <1>4, <2>1 DEF NoRegex
<1> QED
  BY <1>3, <1>4

\* The events that are asked for are those the tool listens for.
LEMMA AskedIs ==
  ASSUME Basic, pc \notin {"parse", "done"}, NEW e
  PROVE  Asked(e) <=> e.kind \in orig_events
<1> DEFINE n == Len(cmd.argv)
<1>1. DOMAIN cmd.argv = 1..n /\ o.events = ChosenTo(cmd, n)
  BY HasOption DEF Holds
<1>2. Chosen = ChosenTo(cmd, n)
  <2>1. Chosen \subseteq ChosenTo(cmd, n)
    BY <1>1 DEF Chosen, ChosenTo, Options
  <2>2. ChosenTo(cmd, n) \subseteq Chosen
    BY <1>1 DEF Chosen, ChosenTo, Options
  <2> QED
    BY <2>1, <2>2
<1> QED
  BY <1>1, <1>2 DEF Asked, orig_events

\* An event of others is processed when the tool listens for it and its
\* filter lets it pass.
LEMMA ProcessedIs ==
  ASSUME Basic, pc \notin {"parse", "done"}, NEW e
  PROVE  /\ Processed(e) <=> e.who = User /\ e.kind \in orig_events /\ ~Drops(e)
         /\ has_include(o) <=> Has("j") \/ Has("k")
<1>1. /\ o.exc.given <=> Has("a")
      /\ Has("a") => o.exc = LastOf("a").regex
  BY HasOption, RegexIs DEF Holds
<1>2. /\ o.exci.given <=> Has("b")
      /\ Has("b") => o.exci = LastOf("b").regex
  BY HasOption, RegexIs DEF Holds
<1>3. /\ o.inc.given <=> Has("j")
      /\ Has("j") => o.inc = LastOf("j").regex
  BY HasOption, RegexIs DEF Holds
<1>4. /\ o.inci.given <=> Has("k")
      /\ Has("k") => o.inci = LastOf("k").regex
  BY HasOption, RegexIs DEF Holds
<1>5. Has("r") <=> o.recursive
  BY HasOption
<1>6. has_include(o) <=> Has("j") \/ Has("k")
  BY <1>3, <1>4 DEF has_include
<1>7. has_exclude(o) <=> Has("a") \/ Has("b")
  BY <1>1, <1>2 DEF has_exclude
<1>8. ~(has_include(o) /\ has_exclude(o))
  BY HasOption DEF NoConflict
<1> DEFINE ab == MatchesOption(e, {"a", "b"})
           jk == MatchesOption(e, {"j", "k"})
<1>9. ab <=> (o.exc.given /\ e.name \in o.exc.names) \/ (o.exci.given /\ e.name \in o.exci.names)
  BY <1>1, <1>2 DEF MatchesOption
<1>10. jk <=> (o.inc.given /\ e.name \in o.inc.names) \/ (o.inci.given /\ e.name \in o.inci.names)
  BY <1>3, <1>4 DEF MatchesOption
<1>11. Matches(e) <=> ab \/ jk
  BY <1>9, <1>10 DEF Matches, Regexes
<1>12. (ab => has_exclude(o)) /\ (jk => has_include(o))
  BY <1>6, <1>7 DEF MatchesOption
<1>13. Matches(e) \in BOOLEAN /\ has_include(o) \in BOOLEAN
  BY DEF Matches, has_include
<1> DEFINE drops == Drops(e)
           inc == has_include(o)
           exc == has_exclude(o)
           new == Has("r") /\ NewDirectory(e)
<1>14. drops <=> (inc \/ exc) /\ ~new /\ ~(Matches(e) <=> inc)
  BY <1>5, <1>13 DEF Drops, Tested
<1>15. Processed(e) <=> e.who = User /\ e.kind \in orig_events /\ ((~ab /\ (inc => jk)) \/ new)
  BY <1>6, AskedIs DEF Processed, Relevant, LetPast
<1> HIDE DEF ab, jk, drops, inc, exc, new
<1>16. ((~ab /\ (inc => jk)) \/ new) <=> ~drops
  <2>1. ~(inc /\ exc) /\ (ab => exc) /\ (jk => inc)
    BY <1>8, <1>12 DEF inc, exc
  <2> QED
    BY <1>11, <1>14, <2>1
<1> QED
  BY <1>6, <1>15, <1>16 DEF drops

(***************************************************************************)
(* The queue and the event in hand.                                        *)
(***************************************************************************)
OwnKinds == {"open", "close_nowrite"}

\* A daemon with fanotify does not listen for what the library does itself:
\* it takes itself for its parent, so that it would not know its own events.
Deaf == pid = DaemonPid /\ o.fanotify => OwnKinds \cap orig_events = {}

\* What the queue may hold: events that the tool listens for or that come
\* unasked; its own are those of OpenByHandle.
Queued ==
  {e \in Events :
     /\ e.kind \in IN_ALL_EVENTS \cup Unasked /\ e.kind \in events \cup Unasked
     /\ ~(e.kind = "ignored" /\ o.fanotify)
     /\ e.who # User => /\ o.fanotify /\ e.who = pid /\ e.name = Here
                        /\ e.kind \in OwnKinds \cap orig_events}

\* What next_event returns.
Passing ==
  {e \in Queued : ~OwnEvent(e) /\ ~Drops(e) /\ ~(o.fanotify /\ e.kind = "overflow")}

ProcessedEvents == {e \in Events : Processed(e)}
WantedEvents == {e \in Events : Wanted(e)}
ShownEvents == {e \in Events : Shown(e)}

\* Nothing is queued before there is a watch, nothing is read or printed
\* before the tool waits, and the event in hand is the last one read.
Queue ==
  /\ pc \in {"parse", "init", "paths", "redirect"} => kq = << >> /\ watched = {}
  /\ pc \notin {"parse", "init", "paths", "redirect", "done"} => kq \in Seq(Queued)
  /\ pc \in {"parse", "init", "paths", "redirect", "watch"} =>
       seen = << >> /\ out = << >> /\ stdio = << >>
  /\ pc \in {"output", "handle", "finish"} =>
       cur \in Passing /\ seen # << >> /\ cur = seen[Len(seen)]
  /\ pc = "finish" => ~o.monitor

\* The sets of events depend on what is settled before there is a watch.
LEMMA SetsKept ==
  ASSUME UNCHANGED <<cmd, o, pid, self_pid>>
  PROVE  /\ Queued' = Queued /\ Passing' = Passing /\ WantedEvents' = WantedEvents
         /\ ProcessedEvents' = ProcessedEvents /\ ShownEvents' = ShownEvents
         /\ Deaf' <=> Deaf
<1>1. orig_events' = orig_events /\ events' = events
  BY DEF orig_events, events
<1>2. Queued' = Queued
  BY <1>1 DEF Queued
<1>3. Deaf' <=> Deaf
  BY <1>1 DEF Deaf
<1>4. \A e : Drops(e)' <=> Drops(e)
  BY DEF Drops, Tested, Matches, Regexes, NewDirectory, has_include, has_exclude
<1>5. \A e : OwnEvent(e)' <=> OwnEvent(e)
  BY DEF OwnEvent
<1>6. Passing' = Passing
  BY <1>2, <1>4, <1>5 DEF Passing
<1>7. \A e : Processed(e)' <=> Processed(e)
  BY DEF Processed, Relevant, LetPast, Asked, Chosen, Options, MatchesOption, LastOf,
         Has, NewDirectory
<1>8. \A e : Wanted(e)' <=> Wanted(e)
  BY <1>7 DEF Wanted, Has, Options
<1>9. \A e : Shown(e)' <=> Shown(e)
  BY <1>1 DEF Shown, has_include
<1> QED
  BY <1>2, <1>3, <1>6, <1>7, <1>8, <1>9 DEF ProcessedEvents, WantedEvents, ShownEvents

\* A tool without --monitor is no daemon.
LEMMA NoDaemon ==
  ASSUME Basic, pc \notin {"parse", "done"}, ~o.monitor
  PROVE  pid = ToolPid /\ Deaf
<1>1. o.daemon \in BOOLEAN /\ (o.daemon => o.monitor)
  BY HasOption DEF Holds
<1>2. pid # DaemonPid /\ pid \in {ToolPid, DaemonPid}
  BY <1>1 DEF Basic, Stages, TypeOK
<1> QED
  BY <1>2 DEF Deaf

\* The tool knows its own events, unless it is a daemon that is not Deaf.
LEMMA OwnKnown ==
  ASSUME Basic, Deaf, pc \notin {"parse", "init", "done"}, NEW e \in Queued
  PROVE  e.who # User <=> OwnEvent(e)
<1>1. self_pid = IF o.fanotify THEN ToolPid ELSE 0
  BY DEF Basic, Stages
<1>2. pid \in {ToolPid, DaemonPid}
  BY DEF Basic, TypeOK
<1>3. CASE e.who # User
  <2>1. o.fanotify /\ e.who = pid /\ OwnKinds \cap orig_events # {}
    BY <1>3 DEF Queued
  <2>2. pid = ToolPid
    BY <1>2, <2>1 DEF Deaf
  <2> QED
    BY <1>1, <1>3, <2>1, <2>2 DEF OwnEvent, ToolPid
<1>4. CASE e.who = User
  BY <1>1, <1>4 DEF OwnEvent, User, ToolPid
<1> QED
  BY <1>3, <1>4

\* What next_event passes over is not processed, and of what it returns the
\* tool prints what was to be reported.
LEMMA PassingWanted ==
  ASSUME Basic, Deaf, pc \notin {"parse", "init", "done"}
  PROVE  /\ \A e \in Passing : e \in WantedEvents <=> e \in ShownEvents
         /\ \A e \in Queued : OwnEvent(e) \/ Drops(e) => e \notin ProcessedEvents
         /\ WantedEvents \subseteq ProcessedEvents
<1>1. ASSUME NEW e \in Queued PROVE Processed(e) <=> ~OwnEvent(e) /\ e.kind \in orig_events /\ ~Drops(e)
  BY <1>1, OwnKnown, ProcessedIs
<1>2. ASSUME NEW e \in Passing PROVE e \in WantedEvents <=> e \in ShownEvents
  <2>1. e \in Events /\ e \in Queued /\ ~OwnEvent(e) /\ ~Drops(e)
    BY DEF Passing, Queued
  <2>2. Processed(e) <=> e.kind \in orig_events
    BY <1>1, <2>1
  <2>3. has_include(o) <=> Has("j") \/ Has("k")
    BY ProcessedIs
  <2> QED
    BY <2>1, <2>2, <2>3 DEF Wanted, Shown, WantedEvents, ShownEvents
<1>3. \A e \in Queued : OwnEvent(e) \/ Drops(e) => e \notin ProcessedEvents
  BY <1>1 DEF ProcessedEvents
<1> QED
  BY <1>2, <1>3 DEF WantedEvents, ProcessedEvents, Wanted

\* The events of OpenByHandle may be queued; a daemon that is Deaf has none.
LEMMA OwnQueued ==
  ASSUME TypeOK
  PROVE  /\ << >> \in Seq(Queued) /\ Len(<< >>) = 0
         /\ Own("open") \in Seq(Queued) /\ Len(Own("open")) \in 0..1
         /\ OpenByHandle \in Seq(Queued) /\ Len(OpenByHandle) \in 0..2
         /\ \A k \in 1..Len(OpenByHandle) : OpenByHandle[k].who # User
         /\ \A k \in 1..Len(Own("open")) : Own("open")[k].who # User
<1>1. << >> \in Seq(Queued) /\ Len(<< >>) = 0
  BY Typing
<1>2. ASSUME NEW kind \in OwnKinds
      PROVE  /\ Own(kind) \in Seq(Queued)
             /\ \A k \in 1..Len(Own(kind)) : Own(kind)[k].who # User
  <2> DEFINE e == [kind |-> kind, name |-> Here, isdir |-> TRUE, who |-> pid]
  <2>1. CASE ~(o.fanotify /\ kind \in events)
    <3>1. Own(kind) = << >>
      BY <2>1, Zenon DEF Own
    <3> QED
      BY <1>1, <3>1
  <2>2. CASE o.fanotify /\ kind \in events
    <3>1. Own(kind) = <<e>>
      BY <2>2, Zenon DEF Own
    <3>2. e \in Events
      <4>1. kind \in IN_ALL_EVENTS \cup Unasked \cup {"none", "note"}
        BY DEF IN_ALL_EVENTS, OwnKinds
      <4>2. pid \in {User, ToolPid, DaemonPid}
        BY DEF TypeOK
      <4> QED
        BY <4>1, <4>2 DEF Events, Names
    <3>3. kind \in IN_ALL_EVENTS /\ kind # "ignored" /\ kind \in orig_events
      BY <2>2 DEF IN_ALL_EVENTS, OwnKinds, events
    <3>4. e \in Queued
      BY <2>2, <3>2, <3>3 DEF Queued
    <3>5. e.who # User
      BY DEF TypeOK, User, ToolPid, DaemonPid
    <3> HIDE DEF e
    <3>6. <<e>> \in Seq(Queued)
      BY <3>4, Typing, Zenon
    <3>7. \A k \in 1..Len(<<e>>) : <<e>>[k] = e
      OBVIOUS
    <3> QED
      BY <3>1, <3>5, <3>6, <3>7
  <2> QED
    BY <2>1, <2>2
<1> DEFINE a == Own("open")
           b == Own("close_nowrite")
<1>3. /\ a \in Seq(Queued) /\ \A k \in 1..Len(a) : a[k].who # User
      /\ b \in Seq(Queued) /\ \A k \in 1..Len(b) : b[k].who # User
  <2>1. "open" \in OwnKinds /\ "close_nowrite" \in OwnKinds
    BY DEF OwnKinds
  <2> QED
    BY <1>2, <2>1
<1>4. OpenByHandle = a \o b
  BY DEF OpenByHandle
<1> HIDE DEF a, b
<1>5. a \o b \in Seq(Queued)
  BY <1>3, Concat, Zenon
<1>6. \A k \in 1..Len(a \o b) : (a \o b)[k].who # User
  <2>1. Len(a) \in Nat /\ Len(b) \in Nat
    BY <1>3, LenProperties
  <2>2. Len(a \o b) = Len(a) + Len(b)
    BY <1>3, ConcatProperties
  <2>3. \A i \in 1..(Len(a) + Len(b)) : (a \o b)[i] = IF i <= Len(a) THEN a[i] ELSE b[i - Len(a)]
    BY <1>3, ConcatProperties
  <2> DEFINE u == a \o b
             m == Len(a)
             n == Len(b)
  <2>4. m \in Nat /\ n \in Nat
    BY <2>1
  <2> HIDE DEF u, m, n
  <2>5. \A i \in 1..(m + n) : (i \in 1..m /\ i <= m) \/ (i - m \in 1..n /\ ~(i <= m))
    BY <2>4
  <2>6. ASSUME NEW i \in 1..(m + n) PROVE u[i].who # User
    BY <1>3, <2>3, <2>5 DEF u, m, n
  <2> QED
    BY <2>2, <2>6 DEF u, m, n
<1> QED
  BY <1>1, <1>3, <1>4, <1>5, <1>6, OwnType DEF a

\* What Take does, in terms of what is filed and queued.
LEMMA TakeIs ==
  ASSUME NEW e, Take(e)
  PROVE  /\ \E f \in {filed, filed \cup {e.name}}, made \in {<< >>, OpenByHandle},
               opens \in {<< >>, OpenByHandle} :
              /\ LookUp(e, f, made) /\ filed' = f
              /\ kq' = Tail(kq) \o made \o opens
              /\ OwnEvent(e) => opens = << >>
         /\ PutLine(FidNote) \/ UNCHANGED <<stdio, out>>
         /\ OwnEvent(e) \/ Drops(e) => UNCHANGED <<pc, cur>>
         /\ ~(OwnEvent(e) \/ Drops(e)) => pc' = "output" /\ cur' = e
<1>1. PICK f \in {filed, filed \cup {e.name}}, made \in {<< >>, OpenByHandle} :
           /\ LookUp(e, f, made) /\ filed' = f
           /\ \E opens \in IF ~OwnEvent(e) /\ Tested(e) THEN UseName(e, f) ELSE {<< >>} :
                kq' = Tail(kq) \o made \o opens
  BY Zenon DEF Take
<1>2. PICK opens \in IF ~OwnEvent(e) /\ Tested(e) THEN UseName(e, f) ELSE {<< >>} :
        kq' = Tail(kq) \o made \o opens
  BY <1>1
<1>3. opens \in {<< >>, OpenByHandle} /\ (OwnEvent(e) => opens = << >>)
  <2>1. UseName(e, f) \subseteq {<< >>, OpenByHandle}
    BY Zenon DEF UseName
  <2> QED
    BY <1>2, <2>1, Zenon
<1>4. /\ PutLine(FidNote) \/ UNCHANGED <<stdio, out>>
      /\ OwnEvent(e) \/ Drops(e) => UNCHANGED <<pc, cur>>
      /\ ~(OwnEvent(e) \/ Drops(e)) => pc' = "output" /\ cur' = e
  BY Zenon DEF Take
<1> QED
  BY <1>1, <1>2, <1>3, <1>4, Zenon

\* Every step keeps Queue.
LEMMA QueueStep == Basic /\ Queue /\ [Next]_vars => Queue'
<1> SUFFICES ASSUME Basic, Queue, [Next]_vars PROVE Queue'
  OBVIOUS
<1> DEFINE Early == {"parse", "init", "paths", "redirect"}
<1>0. TypeOK /\ << >> \in Seq(Queued) /\ << >> \in Seq(Queued')
  BY Typing DEF Basic
<1>1. ASSUME parse_opts \/ InitLibrary \/ BuildList PROVE Queue'
  <2>1. /\ pc \in Early /\ pc' \in Early \cup {"done"} /\ UNCHANGED <<kq, watched, seen>>
        /\ pc' \in Early => UNCHANGED <<out, stdio>>
    <3>1. CASE parse_opts
      BY <3>1 DEF parse_opts, Exit, Goto, kvars, eventvars
    <3>2. CASE InitLibrary
      BY <3>2 DEF InitLibrary, Exit, Goto, kvars, eventvars
    <3>3. CASE BuildList
      BY <3>3 DEF BuildList, Exit, Goto, kvars, eventvars
    <3> QED
      BY <1>1, <3>1, <3>2, <3>3
  <2> QED
    BY <2>1 DEF Queue
<1>2. ASSUME Daemonize \/ RedirectOutput PROVE Queue'
  <2>1. /\ pc = "redirect" /\ pc' \in {"watch", "done"} /\ UNCHANGED <<kq, watched, seen>>
        /\ pc' = "watch" => UNCHANGED <<out, stdio>>
    <3>1. CASE Daemonize
      BY <3>1 DEF Daemonize, Exit, kvars, eventvars
    <3>2. CASE RedirectOutput
      BY <3>2 DEF RedirectOutput, Exit, Goto, kvars, eventvars
    <3> QED
      BY <1>2, <3>1, <3>2
  <2>2. kq' \in Seq(Queued')
    BY <1>0, <2>1 DEF Queue
  <2> QED
    BY <2>1, <2>2 DEF Queue
<1>3. ASSUME WatchNext PROVE Queue'
  <2>1. pc = "watch" /\ UNCHANGED <<cmd, o, pid, self_pid, seen>>
    BY <1>3 DEF WatchNext, eventvars
  <2>2. CASE pc' = "done"
    BY <2>2 DEF Queue
  <2>3. CASE pc' # "done"
    <3>1. kq' = kq \o Own("open") /\ pc' = "watch" /\ UNCHANGED <<out, stdio>>
      BY <1>3, <2>3 DEF WatchNext, Exit, Goto
    <3>2. kq \in Seq(Queued) /\ Own("open") \in Seq(Queued)
      BY <1>0, <2>1, OwnQueued DEF Queue
    <3>3. kq' \in Seq(Queued)
      BY <3>1, <3>2, Concat, Zenon
    <3>4. kq' \in Seq(Queued')
      BY <2>1, <3>3, SetsKept
    <3> QED
      BY <2>1, <3>1, <3>4 DEF Queue
  <2> QED
    BY <2>2, <2>3
<1>4. ASSUME Established PROVE Queue'
  <2>1. pc = "watch" /\ UNCHANGED <<cmd, o, pid, self_pid, kq>> /\ pc' \in {"wait", "done"}
    BY <1>4 DEF Established, startvars, kvars, Exit, Goto
  <2>2. Queued' = Queued
    BY <2>1, SetsKept
  <2> QED
    BY <2>1, <2>2 DEF Queue
<1>5. ASSUME ReadEvent PROVE Queue'
  <2> DEFINE e == Head(kq)
  <2>1. /\ pc = "wait" /\ kq # << >> /\ seen' = Append(seen, e)
        /\ UNCHANGED <<cmd, o, pid, self_pid>>
    BY <1>5 DEF ReadEvent, startvars
  <2>2. Queued' = Queued /\ Passing' = Passing
    BY <2>1, SetsKept
  <2>3. CASE pc' = "done"
    BY <2>3 DEF Queue
  <2>4. CASE pc' # "done"
    <3>1. Take(e) /\ ~(o.fanotify /\ e.kind = "overflow")
      BY <1>5, <2>4 DEF ReadEvent, Exit
    <3>2. kq \in Seq(Queued)
      BY <2>1 DEF Queue
    <3>3. e \in Queued /\ Tail(kq) \in Seq(Queued)
      BY <2>1, <3>2, Typing, Zenon
    <3>4. PICK made \in {<< >>, OpenByHandle}, opens \in {<< >>, OpenByHandle} :
             kq' = Tail(kq) \o made \o opens
      BY <3>1, TakeIs
    <3>5. made \in Seq(Queued) /\ opens \in Seq(Queued)
      BY <1>0, OwnQueued
    <3>6. kq' \in Seq(Queued')
      <4>1. Tail(kq) \o made \in Seq(Queued)
        BY <3>3, <3>5, Concat, Zenon
      <4>2. kq' \in Seq(Queued)
        BY <3>4, <3>5, <4>1, Concat, Zenon
      <4> QED
        BY <2>2, <4>2
    <3>7. CASE OwnEvent(e) \/ Drops(e)
      <4>1. pc' = "wait"
        BY <2>1, <3>1, <3>7, TakeIs
      <4> QED
        BY <3>6, <4>1 DEF Queue
    <3>8. CASE ~(OwnEvent(e) \/ Drops(e))
      <4>1. pc' = "output" /\ cur' = e
        BY <3>1, <3>8, TakeIs
      <4>2. e \in Passing
        BY <3>1, <3>3, <3>8 DEF Passing
      <4>3. seen' # << >> /\ seen'[Len(seen')] = e
        <5>1. seen \in Seq(Events) /\ e \in Events
          BY <1>0, <3>3, Lines DEF Queued
        <5> HIDE DEF e
        <5>2. seen' # << >> /\ Len(seen') = Len(seen) + 1 /\ seen'[Len(seen) + 1] = e
          BY <2>1, <5>1, AppendProperties
        <5> QED
          BY <5>2
      <4> QED
        BY <2>2, <3>6, <4>1, <4>2, <4>3 DEF Queue
    <3> QED
      BY <3>7, <3>8
  <2> QED
    BY <2>3, <2>4
<1>6. ASSUME Timeout \/ PollFails \/ Finish \/ Kill PROVE Queue'
  <2>1. pc' = "done"
    BY <1>6 DEF Timeout, PollFails, Finish, Kill, Exit
  <2> QED
    BY <2>1 DEF Queue
<1>7. ASSUME OutputEvent PROVE Queue'
  <2>1. /\ pc = "output" /\ UNCHANGED <<cmd, o, pid, self_pid, cur, seen>>
        /\ pc' = IF ~o.filesystem THEN "handle" ELSE IF o.monitor THEN "wait" ELSE "finish"
    BY <1>7 DEF OutputEvent, startvars, eventvars
  <2>2. Queued' = Queued /\ Passing' = Passing
    BY <2>1, SetsKept
  <2>3. kq' \in Seq(Queued)
    <3>1. kq \in Seq(Queued)
      BY <2>1 DEF Queue
    <3>2. kq' = kq \/ \E opens \in {<< >>, OpenByHandle} : kq' = kq \o opens
      <4>1. UseName(cur, filed) \subseteq {<< >>, OpenByHandle}
        BY Zenon DEF UseName
      <4> QED
        BY <1>7, <4>1 DEF OutputEvent, output_event
    <3>3. \A opens \in {<< >>, OpenByHandle} : opens \in Seq(Queued)
      BY <1>0, OwnQueued
    <3>4. \A opens \in {<< >>, OpenByHandle} : kq \o opens \in Seq(Queued)
      BY <3>1, <3>3, Concat, Zenon
    <3> QED
      BY <3>1, <3>2, <3>4
  <2>4. pc' = "finish" => ~o.monitor
    BY <2>1
  <2> QED
    BY <2>1, <2>2, <2>3, <2>4 DEF Queue
<1>8. ASSUME HandleEvent PROVE Queue'
  <2>1. /\ pc = "handle" /\ UNCHANGED <<cmd, o, pid, self_pid, cur, seen, kq>>
        /\ pc' = IF o.monitor THEN "wait" ELSE "finish"
    BY <1>8 DEF HandleEvent, startvars, eventvars, kvars
  <2>2. Queued' = Queued /\ Passing' = Passing
    BY <2>1, SetsKept
  <2> QED
    BY <2>1, <2>2 DEF Queue
<1>9. ASSUME NEW e \in UserEvents, UserEvent(e) PROVE Queue'
  <2>1. /\ pc # "done" /\ e.kind \in events \cup Unasked /\ watched # {} /\ kq' = Append(kq, e)
        /\ UNCHANGED <<cmd, o, pid, self_pid, pc, watched, cur, seen, out, stdio>>
    BY <1>9 DEF UserEvent, startvars, eventvars
  <2>2. pc \notin Early /\ kq \in Seq(Queued)
    BY <2>1 DEF Queue
  <2>3. e \in Queued
    <3>1. e \in Events
      BY <1>0, QueueType
    <3>2. e.kind \in IN_ALL_EVENTS \cup {"overflow"} /\ e.who = User
      BY UserEventsAssumption
    <3>3. e.kind # "ignored"
      BY <3>2 DEF IN_ALL_EVENTS
    <3> QED
      BY <2>1, <3>1, <3>2, <3>3 DEF Queued, Unasked
  <2>4. kq' \in Seq(Queued)
    BY <2>1, <2>2, <2>3, Typing, Zenon
  <2>5. Queued' = Queued /\ Passing' = Passing
    BY <2>1, SetsKept
  <2> QED
    BY <2>1, <2>2, <2>4, <2>5 DEF Queue
<1>10. ASSUME NEW p \in Paths, Delete(p) PROVE Queue'
  <2> DEFINE e == [kind |-> "ignored", name |-> Here, isdir |-> FALSE, who |-> User]
  <2>1. /\ pc # "done" /\ p \in watched
        /\ kq' = IF o.fanotify THEN kq ELSE Append(kq, e)
        /\ UNCHANGED <<cmd, o, pid, self_pid, pc, cur, seen, out, stdio>>
    BY <1>10 DEF Delete, startvars, eventvars
  <2>2. pc \notin Early /\ kq \in Seq(Queued)
    BY <2>1 DEF Queue
  <2>3. ~o.fanotify => e \in Queued
    <3>1. e \in Events
      BY <1>0, QueueType
    <3> QED
      BY <3>1 DEF Queued, Unasked
  <2>4. kq' \in Seq(Queued)
    <3> HIDE DEF e
    <3>1. CASE o.fanotify
      BY <2>1, <2>2, <3>1
    <3>2. CASE ~o.fanotify
      <4>1. Append(kq, e) \in Seq(Queued)
        BY <2>2, <2>3, <3>2, Typing, Zenon
      <4> QED
        BY <2>1, <3>2, <4>1
    <3> QED
      BY <3>1, <3>2
  <2>5. Queued' = Queued /\ Passing' = Passing
    BY <2>1, SetsKept
  <2> QED
    BY <2>1, <2>2, <2>4, <2>5 DEF Queue
<1>11. CASE UNCHANGED vars
  <2>1. UNCHANGED <<cmd, o, pid, self_pid, pc, cur, seen, out, stdio, kq, watched>>
    BY <1>11 DEF vars, startvars
  <2>2. Queued' = Queued /\ Passing' = Passing
    BY <2>1, SetsKept
  <2> QED
    BY <2>1, <2>2 DEF Queue
<1> QED
  BY <1>1, <1>2, <1>3, <1>4, <1>5, <1>6, <1>7, <1>8, <1>9, <1>10, <1>11 DEF Next, Tool

(***************************************************************************)
(* What is reported, and the exit status.                                  *)
(***************************************************************************)
EventLines == Events \ {FidNote}
Rep(lines) == Picked(lines, EventLines)
ToReport == Picked(seen, WantedEvents)

\* What has been printed, in the buffer or beyond, is what was to be
\* reported, but for the event in hand; without --monitor nothing that was
\* read before that event was to end the tool.
Reporting ==
  /\ pc = "wait" /\ Deaf =>
       /\ Rep(out \o stdio) = ToReport
       /\ ~(o.filesystem /\ o.monitor) => Rep(out) = Rep(out \o stdio)
  /\ pc = "output" /\ Deaf => Rep(out \o stdio) \o Piece(cur, ShownEvents) = ToReport
  /\ pc \in {"handle", "finish"} /\ Deaf => Rep(out \o stdio) = ToReport
  /\ pc = "wait" /\ ~o.monitor =>
       ToReport = << >> /\ \A k \in 1..Len(seen) : seen[k] \notin ProcessedEvents
  /\ pc \in {"output", "handle", "finish"} /\ ~o.monitor => ToReport = Piece(cur, WantedEvents)

\* The properties count the lines as Reporting does.
LEMMA RepIs ==
  /\ \A s \in Seq(Events) : Reported(s) = Rep(s)
  /\ \A s \in Seq(Events) : WantedOf(s) = Picked(s, WantedEvents)
<1>1. ASSUME NEW s \in Seq(Events) PROVE Reported(s) = Rep(s)
  <2>1. \A k \in DOMAIN s : s[k] \in Events
    BY ElementOfSeq, LenProperties
  <2>2. \A k \in DOMAIN s : (IF s[k] = FidNote THEN << >> ELSE <<s[k]>>) = Piece(s[k], EventLines)
    BY <2>1 DEF Piece, EventLines
  <2>3. [k \in DOMAIN s |-> IF s[k] = FidNote THEN << >> ELSE <<s[k]>>]
          = [k \in DOMAIN s |-> Piece(s[k], EventLines)]
    BY <2>2
  <2> QED
    BY <2>3, Zenon DEF Reported, Rep, Picked
<1>2. ASSUME NEW s \in Seq(Events) PROVE WantedOf(s) = Picked(s, WantedEvents)
  <2>1. \A k \in DOMAIN s : s[k] \in Events
    BY ElementOfSeq, LenProperties
  <2>2. \A k \in DOMAIN s : (IF Wanted(s[k]) THEN <<s[k]>> ELSE << >>) = Piece(s[k], WantedEvents)
    BY <2>1 DEF Piece, WantedEvents
  <2>3. [k \in DOMAIN s |-> IF Wanted(s[k]) THEN <<s[k]>> ELSE << >>]
          = [k \in DOMAIN s |-> Piece(s[k], WantedEvents)]
    BY <2>2
  <2> QED
    BY <2>3, Zenon DEF WantedOf, Picked
<1> QED
  BY <1>1, <1>2

\* A line that is printed follows all those before it.
LEMMA PutLineJoins ==
  ASSUME TypeOK, NEW e \in Events, PutLine(e)
  PROVE  /\ out' \o stdio' = Append(out \o stdio, e)
         /\ out' = out \/ out' = out' \o stdio'
         /\ Rep(out' \o stdio') = Rep(out \o stdio) \o Piece(e, EventLines)
         /\ e \notin EventLines => Rep(out' \o stdio') = Rep(out \o stdio)
<1> DEFINE x == Append(stdio, e)
<1>1. stdio \in Seq(Events) /\ out \in Seq(Events)
  BY Lines
<1>2. x \in Seq(Events) /\ x = stdio \o <<e>> /\ <<e>> \in Seq(Events) /\ out \o stdio \in Seq(Events)
  BY <1>1, AppendProperties, AppendIsConcat, Concat
<1>3. Append(out \o stdio, e) = (out \o stdio) \o <<e>>
  BY <1>2, AppendIsConcat
<1>4. (out \o stdio) \o <<e>> = out \o (stdio \o <<e>>)
  BY <1>1, <1>2, ConcatAssociative
<1>5. out \o x = Append(out \o stdio, e)
  BY <1>2, <1>3, <1>4
<1>6. (out \o x) \o << >> = out \o x
  <2> HIDE DEF x
  <2>1. out \o x \in Seq(Events)
    BY <1>1, <1>2, Concat
  <2> QED
    BY <2>1, ConcatEmptySeq
<1>7. (out' = out \o x /\ stdio' = << >>) \/ (out' = out /\ stdio' = x)
  BY Zenon DEF PutLine
<1> HIDE DEF x
<1>8. out' \o stdio' = Append(out \o stdio, e) /\ (out' = out \/ out' = out' \o stdio')
  BY <1>5, <1>6, <1>7, Zenon
<1>9. /\ Picked(Append(out \o stdio, e), EventLines) = Picked(out \o stdio, EventLines) \o Piece(e, EventLines)
      /\ e \notin EventLines
           => Picked(Append(out \o stdio, e), EventLines) = Picked(out \o stdio, EventLines)
  <2> DEFINE prt == out \o stdio
  <2>1. prt \in Seq(Events)
    BY <1>2
  <2> HIDE DEF prt
  <2>2. /\ Picked(Append(prt, e), EventLines) = Picked(prt, EventLines) \o Piece(e, EventLines)
        /\ e \notin EventLines => Picked(Append(prt, e), EventLines) = Picked(prt, EventLines)
    BY <2>1, PickedAppend
  <2> QED
    BY <2>2 DEF prt
<1> QED
  BY <1>8, <1>9, Zenon DEF Rep

\* An event that is read is to be reported or not.
LEMMA SeenGrows ==
  ASSUME TypeOK, NEW e \in Events, seen' = Append(seen, e), WantedEvents' = WantedEvents
  PROVE  /\ ToReport' = ToReport \o Piece(e, WantedEvents)
         /\ e \notin WantedEvents => ToReport' = ToReport
<1>1. seen \in Seq(Events)
  BY Lines
<1>2. /\ Picked(Append(seen, e), WantedEvents) = Picked(seen, WantedEvents) \o Piece(e, WantedEvents)
      /\ e \notin WantedEvents => Picked(Append(seen, e), WantedEvents) = Picked(seen, WantedEvents)
  BY <1>1, PickedAppend
<1> QED
  BY <1>2 DEF ToReport

\* A step that does not touch what is read and printed keeps Reporting.
LEMMA ReportingKept ==
  ASSUME Reporting, UNCHANGED <<cmd, o, pid, self_pid, pc, seen, out, stdio, cur>>
  PROVE  Reporting'
<1>1. /\ WantedEvents' = WantedEvents /\ ProcessedEvents' = ProcessedEvents
      /\ ShownEvents' = ShownEvents /\ (Deaf' <=> Deaf)
  BY SetsKept
<1>2. ToReport' = ToReport
  BY <1>1 DEF ToReport
<1>3. Rep(out \o stdio)' = Rep(out \o stdio) /\ Rep(out)' = Rep(out)
  BY DEF Rep, EventLines, Events, FidNote
<1> QED
  BY <1>1, <1>2, <1>3 DEF Reporting

\* The tool starts to wait with nothing to report.
LEMMA ReportingStarts ==
  ASSUME Basic, Queue, Established, pc' = "wait"
  PROVE  Reporting'
<1>1. pc = "watch" /\ UNCHANGED <<seen, out, stdio>>
  BY DEF Established, Goto, Exit, eventvars
<1>2. seen' = << >> /\ out' = << >> /\ stdio' = << >>
  BY <1>1 DEF Queue
<1>3. out' \o stdio' = << >>
  BY <1>2
<1>4. ToReport' = << >>
  BY <1>2, PickedEmpty DEF ToReport
<1>5. Rep(out' \o stdio') = << >> /\ Rep(out') = << >>
  BY <1>2, <1>3, PickedEmpty DEF Rep
<1>6. Len(seen') = 0
  BY <1>2
<1> QED
  BY <1>4, <1>5, <1>6 DEF Reporting, Rep, EventLines, Events, FidNote

\* next_event keeps Reporting.
LEMMA ReportingReads ==
  ASSUME Basic, Queue, Reporting, ReadEvent, pc' # "done"
  PROVE  Reporting'
<1> DEFINE e == Head(kq)
           prt == out \o stdio
<1>1. /\ pc = "wait" /\ kq # << >> /\ seen' = Append(seen, e)
      /\ UNCHANGED <<cmd, o, pid, self_pid>>
  BY DEF ReadEvent, startvars
<1>2. Take(e) /\ ~(o.fanotify /\ e.kind = "overflow")
  BY DEF ReadEvent, Exit
<1>3. /\ WantedEvents' = WantedEvents /\ ProcessedEvents' = ProcessedEvents
      /\ ShownEvents' = ShownEvents /\ (Deaf' <=> Deaf) /\ Passing' = Passing
  BY <1>1, SetsKept
<1>4. e \in Queued
  <2>1. kq \in Seq(Queued)
    BY <1>1 DEF Queue
  <2> QED
    BY <1>1, <2>1, Typing, Zenon
<1>5. TypeOK /\ e \in Events
  BY <1>4 DEF Queued, Basic
<1>6. ToReport' = ToReport \o Piece(e, WantedEvents) /\ (e \notin WantedEvents => ToReport' = ToReport)
  BY <1>1, <1>3, <1>5, SeenGrows
<1>7. /\ Rep(out' \o stdio') = Rep(prt)
      /\ Rep(out) = Rep(prt) => Rep(out') = Rep(out' \o stdio')
  <2>1. CASE PutLine(FidNote)
    <3>1. FidNote \in Events /\ FidNote \notin EventLines
      BY DEF FidNote, NoEvent, Events, Names, EventLines
    <3> QED
      BY <1>5, <2>1, <3>1, PutLineJoins
  <2>2. CASE UNCHANGED <<stdio, out>>
    BY <2>2
  <2> QED
    BY <1>2, <2>1, <2>2, TakeIs
<1>8. Rep(out \o stdio)' = Rep(out' \o stdio') /\ Rep(out)' = Rep(out')
  BY DEF Rep, EventLines, Events, FidNote
<1>9. ~o.monitor => Deaf
  BY <1>1, NoDaemon
<1>10. pc \notin {"parse", "init", "done"}
  BY <1>1
<1> HIDE DEF e, prt
<1>11. CASE OwnEvent(e) \/ Drops(e)
  <2>1. pc' = "wait"
    BY <1>1, <1>2, <1>11, TakeIs
  <2>2. Deaf => e \notin ProcessedEvents /\ e \notin WantedEvents
    BY <1>4, <1>10, <1>11, PassingWanted
  <2>3. Deaf => ToReport' = ToReport
    BY <1>6, <2>2
  <2>4. Deaf => /\ Rep(prt) = ToReport
                /\ ~(o.filesystem /\ o.monitor) => Rep(out) = Rep(prt)
    BY <1>1 DEF Reporting, prt
  <2>5. ~o.monitor => ToReport = << >> /\ \A k \in 1..Len(seen) : seen[k] \notin ProcessedEvents
    BY <1>1 DEF Reporting
  <2>6. ~o.monitor => \A k \in 1..Len(seen') : seen'[k] \notin ProcessedEvents
    <3> SUFFICES ASSUME ~o.monitor, NEW k \in 1..Len(seen') PROVE seen'[k] \notin ProcessedEvents
      OBVIOUS
    <3>1. seen \in Seq(Events) /\ e \in Events
      BY <1>5, Lines
    <3>2. /\ Len(seen') = Len(seen) + 1 /\ seen'[Len(seen) + 1] = e /\ Len(seen) \in Nat
          /\ \A i \in 1..Len(seen) : seen'[i] = seen[i]
      BY <1>1, <3>1, AppendProperties, LenProperties
    <3>3. k \in 1..Len(seen) \/ k = Len(seen) + 1
      BY <3>2
    <3> QED
      BY <1>9, <2>2, <2>5, <3>2, <3>3
  <2> QED
    BY <1>1, <1>3, <1>7, <1>8, <1>9, <2>1, <2>3, <2>4, <2>5, <2>6 DEF Reporting
<1>12. CASE ~(OwnEvent(e) \/ Drops(e))
  <2>1. pc' = "output" /\ cur' = e
    BY <1>2, <1>12, TakeIs
  <2>2. e \in Passing
    BY <1>2, <1>4, <1>12 DEF Passing
  <2>3. Deaf => Piece(e, WantedEvents) = Piece(e, ShownEvents)
    BY <1>10, <2>2, PassingWanted DEF Piece
  <2>4. Deaf => Rep(prt) = ToReport
    BY <1>1 DEF Reporting, prt
  <2>5. ~o.monitor => ToReport' = Piece(e, WantedEvents)
    <3>1. Piece(e, WantedEvents) \in Seq(Events)
      <4>1. <<e>> \in Seq(Events) /\ << >> \in Seq(Events)
        BY <1>5, Typing, Zenon
      <4> QED
        BY <4>1, Zenon DEF Piece
    <3>2. << >> \o Piece(e, WantedEvents) = Piece(e, WantedEvents)
      BY <3>1, ConcatEmptySeq
    <3>3. ~o.monitor => ToReport = << >>
      BY <1>1 DEF Reporting
    <3> QED
      BY <1>6, <3>2, <3>3
  <2>6. Deaf => Rep(out' \o stdio') \o Piece(e, ShownEvents) = ToReport'
    BY <1>6, <1>7, <2>3, <2>4
  <2>7. pc' \notin {"wait", "handle", "finish"}
    BY <2>1
  <2> QED
    BY <1>1, <1>3, <1>8, <2>1, <2>5, <2>6, <2>7 DEF Reporting
<1> QED
  BY <1>11, <1>12

\* The output of an event keeps Reporting.
LEMMA ReportingPrints ==
  ASSUME Basic, Queue, Reporting, OutputEvent
  PROVE  Reporting'
<1> DEFINE prt == out \o stdio
<1>1. /\ pc = "output" /\ UNCHANGED <<cmd, o, pid, self_pid, cur, seen>>
      /\ pc' = IF ~o.filesystem THEN "handle" ELSE IF o.monitor THEN "wait" ELSE "finish"
  BY DEF OutputEvent, startvars, eventvars
<1>2. /\ WantedEvents' = WantedEvents /\ ProcessedEvents' = ProcessedEvents
      /\ ShownEvents' = ShownEvents /\ (Deaf' <=> Deaf)
  BY <1>1, SetsKept
<1>3. ToReport' = ToReport
  BY <1>1, <1>2 DEF ToReport
<1>4. cur \in Events /\ cur.kind \in IN_ALL_EVENTS \cup Unasked
  BY <1>1 DEF Queue, Passing, Queued
<1>5. Rep(out' \o stdio') = Rep(prt) \o Piece(cur, ShownEvents)
  <2>1. CASE Shown(cur)
    <3>1. cur \in EventLines
      <4>1. FidNote.kind = "note"
        BY DEF FidNote, NoEvent
      <4>2. "note" \notin IN_ALL_EVENTS \cup Unasked
        BY DEF IN_ALL_EVENTS, Unasked
      <4> QED
        BY <1>4, <4>1, <4>2 DEF EventLines
    <3>2. Piece(cur, EventLines) = Piece(cur, ShownEvents)
      BY <1>4, <2>1, <3>1 DEF Piece, ShownEvents
    <3>3. PutLine(cur)
      BY <2>1 DEF OutputEvent, output_event
    <3> QED
      BY <1>4, <3>2, <3>3, PutLineJoins DEF Basic
  <2>2. CASE ~Shown(cur)
    <3>1. Piece(cur, ShownEvents) = << >> /\ UNCHANGED <<stdio, out>>
      BY <2>2 DEF Piece, ShownEvents, OutputEvent
    <3>2. prt \in Seq(Events)
      BY Lines, Concat DEF Basic
    <3> HIDE DEF prt
    <3>3. Rep(prt) \in Seq(Events)
      BY <1>4, <3>2, PickedAppend DEF Rep
    <3>4. Rep(prt) \o << >> = Rep(prt)
      BY <3>3, ConcatEmptySeq
    <3> QED
      BY <3>1, <3>4 DEF prt
  <2> QED
    BY <2>1, <2>2
<1>6. Rep(out \o stdio)' = Rep(out' \o stdio')
  BY DEF Rep, EventLines, Events, FidNote
<1>7. Deaf => Rep(out' \o stdio') = ToReport'
  BY <1>1, <1>3, <1>5 DEF Reporting
<1>8. ~o.monitor => ToReport' = Piece(cur', WantedEvents')
  BY <1>1, <1>2, <1>3 DEF Reporting
<1>9. pc' = "wait" => o.filesystem /\ o.monitor
  BY <1>1
<1> QED
  BY <1>1, <1>2, <1>6, <1>7, <1>8, <1>9 DEF Reporting

\* flush_all keeps Reporting.
LEMMA ReportingFlushes ==
  ASSUME Basic, Queue, Reporting, HandleEvent
  PROVE  Reporting'
<1>1. /\ pc = "handle" /\ UNCHANGED <<cmd, o, pid, self_pid, cur, seen, kq>>
      /\ pc' = (IF o.monitor THEN "wait" ELSE "finish") /\ out' = out \o stdio /\ stdio' = << >>
  BY DEF HandleEvent, startvars, eventvars, kvars
<1>2. /\ WantedEvents' = WantedEvents /\ ProcessedEvents' = ProcessedEvents
      /\ ShownEvents' = ShownEvents /\ (Deaf' <=> Deaf)
  BY <1>1, SetsKept
<1>3. ToReport' = ToReport
  BY <1>1, <1>2 DEF ToReport
<1>4. out' \o stdio' = out'
  <2>1. out \o stdio \in Seq(Events)
    BY Lines, Concat DEF Basic
  <2> QED
    BY <1>1, <2>1, ConcatEmptySeq
<1>5. Rep(out \o stdio)' = Rep(out') /\ Rep(out)' = Rep(out')
  BY <1>4 DEF Rep, EventLines, Events, FidNote
<1>6. Deaf => Rep(out') = ToReport'
  BY <1>1, <1>3 DEF Reporting
<1>7. ~o.monitor => ToReport' = Piece(cur', WantedEvents')
  BY <1>1, <1>2, <1>3 DEF Reporting
<1>8. pc' = "wait" => o.monitor
  BY <1>1
<1> QED
  BY <1>1, <1>2, <1>5, <1>6, <1>7, <1>8 DEF Reporting

\* Every step keeps Reporting.
LEMMA ReportingStep == Basic /\ Queue /\ Reporting /\ [Next]_vars => Reporting'
<1> SUFFICES ASSUME Basic, Queue, Reporting, [Next]_vars PROVE Reporting'
  OBVIOUS
<1>1. CASE pc' \in {"parse", "init", "paths", "redirect", "watch", "done"}
  BY <1>1 DEF Reporting
<1>2. CASE pc' \notin {"parse", "init", "paths", "redirect", "watch", "done"}
  <2>1. ASSUME parse_opts \/ InitLibrary \/ BuildList \/ Daemonize \/ RedirectOutput \/ WatchNext
        PROVE  FALSE
    BY <1>2, <2>1 DEF parse_opts, InitLibrary, BuildList, Daemonize, RedirectOutput, WatchNext, Exit, Goto
  <2>2. ASSUME Established PROVE Reporting'
    <3>1. pc' = "wait"
      BY <1>2, <2>2 DEF Established, Exit, Goto
    <3> QED
      BY <2>2, <3>1, ReportingStarts
  <2>3. ASSUME Timeout \/ PollFails \/ Finish \/ Kill PROVE FALSE
    BY <1>2, <2>3 DEF Timeout, PollFails, Finish, Kill, Exit
  <2>4. ASSUME ReadEvent PROVE Reporting'
    BY <1>2, <2>4, ReportingReads
  <2>5. ASSUME OutputEvent PROVE Reporting'
    BY <2>5, ReportingPrints
  <2>6. ASSUME HandleEvent PROVE Reporting'
    BY <2>6, ReportingFlushes
  <2>7. ASSUME NEW e \in UserEvents, UserEvent(e) PROVE Reporting'
    BY <2>7, ReportingKept DEF UserEvent, startvars, eventvars
  <2>8. ASSUME NEW p \in Paths, Delete(p) PROVE Reporting'
    BY <2>8, ReportingKept DEF Delete, startvars, eventvars
  <2>9. CASE UNCHANGED vars
    BY <2>9, ReportingKept DEF vars, startvars
  <2> QED
    BY <2>1, <2>2, <2>3, <2>4, <2>5, <2>6, <2>7, <2>8, <2>9 DEF Next, Tool
<1> QED
  BY <1>1, <1>2

\* The exit status is truthful when the tool ends: only Finish ends it with
\* 0, only Timeout and an overflow with fanotify with 2.
LEMMA EndsTruthfully ==
  Basic /\ Queue /\ Reporting /\ pc # "done" /\ [Next]_vars => ExitStatusTruthful'
<1> SUFFICES ASSUME Basic, Queue, Reporting, pc # "done", [Next]_vars PROVE ExitStatusTruthful'
  OBVIOUS
<1>1. Running # 0 /\ Running # 2
  BY DEF Running
<1>2. status = Running
  BY DEF Basic, TypeOK
<1>3. CASE status' \notin {0, 2}
  BY <1>3 DEF ExitStatusTruthful
<1>4. ASSUME Finish PROVE ExitStatusTruthful'
  <2>1. /\ pc = "finish" /\ UNCHANGED <<cmd, o, pid, self_pid, seen, cur>>
        /\ out' = out \o stdio
        /\ status' = IF cur.kind \in events \/ (o.fanotify /\ cur.isdir) THEN 0 ELSE 1
    BY <1>4 DEF Finish, Exit, startvars, eventvars
  <2>2. CASE status' # 0
    BY <2>1, <2>2 DEF ExitStatusTruthful
  <2>3. CASE status' = 0
    <3>1. cur.kind \in events \/ (o.fanotify /\ cur.isdir)
      BY <2>1, <2>3
    <3>2. /\ cur \in Passing /\ seen # << >> /\ cur = seen[Len(seen)] /\ ~o.monitor
      BY <2>1 DEF Queue
    <3>3. cur \in Queued /\ cur \in Events /\ ~OwnEvent(cur) /\ ~Drops(cur)
      BY <3>2 DEF Passing, Queued
    <3>4. cur.kind \in orig_events
      <4>1. events = orig_events
        BY <3>2 DEF events
      <4>2. CASE cur.kind \notin events
        <5>1. o.fanotify /\ cur.kind \in Unasked
          BY <3>1, <3>3, <4>2 DEF Queued
        <5>2. cur.kind # "ignored" /\ cur.kind # "overflow"
          BY <3>2, <3>3, <5>1 DEF Queued, Passing
        <5> QED
          BY <5>1, <5>2 DEF Unasked
      <4> QED
        BY <4>1, <4>2
    <3>5. Deaf
      BY <2>1, <3>2, NoDaemon
    <3>6. cur.who = User
      BY <2>1, <3>3, <3>5, OwnKnown
    <3>7. Processed(cur)
      BY <2>1, <3>3, <3>4, <3>6, ProcessedIs
    <3>8. Wanted(cur) => Reported(out') = <<cur>>
      <4> SUFFICES ASSUME Wanted(cur) PROVE Reported(out') = <<cur>>
        OBVIOUS
      <4>1. Rep(out \o stdio) = ToReport /\ ToReport = Piece(cur, WantedEvents)
        BY <2>1, <3>2, <3>5 DEF Reporting
      <4>2. Piece(cur, WantedEvents) = <<cur>>
        BY <3>3 DEF Piece, WantedEvents
      <4>3. out' \in Seq(Events)
        BY <2>1, Lines, Concat DEF Basic
      <4>4. Reported(out') = Rep(out')
        BY <4>3, RepIs
      <4> QED
        BY <2>1, <4>1, <4>2, <4>4
    <3>11. Processed(seen[Len(seen)])'
      <4>1. Processed(seen[Len(seen)])' <=> Processed(cur)
        BY <2>1, <3>2
           DEF Processed, Relevant, LetPast, Asked, Chosen, Options, MatchesOption, LastOf,
               Has, NewDirectory
      <4> QED
        BY <3>7, <4>1
    <3>12. Wanted(seen[Len(seen)])' => Reported(out)' = <<seen[Len(seen)]>>'
      <4>1. Wanted(seen[Len(seen)])' <=> Wanted(cur)
        <5>1. Processed(seen[Len(seen)])' <=> Processed(cur)
          BY <2>1, <3>2
             DEF Processed, Relevant, LetPast, Asked, Chosen, Options, MatchesOption, LastOf,
                 Has, NewDirectory
        <5> QED
          BY <2>1, <3>2, <5>1 DEF Wanted, Has, Options
      <4>2. seen'[Len(seen')] = cur
        BY <2>1, <3>2
      <4>3. Reported(out)' = Reported(out')
        BY DEF Reported, FidNote, NoEvent
      <4> QED
        BY <3>8, <4>1, <4>2, <4>3
    <3>13. ~o'.monitor /\ seen' # << >> /\ status' # 2
      BY <2>1, <2>3, <3>2
    <3> QED
      BY <3>11, <3>12, <3>13 DEF ExitStatusTruthful
  <2> QED
    BY <2>2, <2>3
<1>5. ASSUME Timeout PROVE ExitStatusTruthful'
  <2>1. /\ pc = "wait" /\ o.timeout > 0 /\ status' = 2 /\ UNCHANGED <<cmd, o, pid, self_pid, seen>>
    BY <1>5 DEF Timeout, Exit, startvars, eventvars
  <2>2. ~o.monitor => \A k \in DOMAIN seen : ~Processed(seen[k])
    <3>1. seen \in Seq(Events) /\ DOMAIN seen = 1..Len(seen)
      BY Lines, LenProperties DEF Basic
    <3>2. \A k \in 1..Len(seen) : seen[k] \in Events
      BY <3>1, ElementOfSeq
    <3> QED
      BY <2>1, <3>1, <3>2 DEF Reporting, ProcessedEvents
  <2>3. \A e : Processed(e)' <=> Processed(e)
    BY <2>1
       DEF Processed, Relevant, LetPast, Asked, Chosen, Options, MatchesOption, LastOf,
           Has, NewDirectory
  <2>4. (~o.monitor => \A k \in DOMAIN seen : ~Processed(seen[k]))'
    BY <2>1, <2>2, <2>3
  <2> QED
    BY <2>1, <2>4 DEF ExitStatusTruthful
<1>6. ASSUME ReadEvent, status' \in {0, 2} PROVE ExitStatusTruthful'
  <2>1. status' # Running
    BY <1>1, <1>6
  <2>2. /\ o.fanotify /\ Head(kq).kind = "overflow" /\ status' = 2
        /\ seen' = Append(seen, Head(kq)) /\ kq # << >> /\ o' = o
    BY <1>2, <1>6, <2>1 DEF ReadEvent, Exit, Take, startvars
  <2>3. seen' # << >> /\ seen'[Len(seen')] = Head(kq)
    <3> DEFINE e == Head(kq)
    <3>1. kq \in Seq(Events) /\ seen \in Seq(Events)
      BY Lines DEF Basic
    <3>2. e \in Events
      BY <2>2, <3>1, Typing, Zenon
    <3>3. seen' = Append(seen, e)
      BY <2>2
    <3> HIDE DEF e
    <3>4. seen' # << >> /\ Len(seen') = Len(seen) + 1 /\ seen'[Len(seen) + 1] = e
      BY <3>1, <3>2, <3>3, AppendProperties
    <3> QED
      BY <3>4 DEF e
  <2> QED
    BY <2>2, <2>3 DEF ExitStatusTruthful
<1>7. ASSUME \/ parse_opts \/ InitLibrary \/ BuildList \/ Daemonize \/ RedirectOutput \/ WatchNext
             \/ Established \/ OutputEvent \/ HandleEvent \/ PollFails \/ Kill
             \/ (\E e \in UserEvents : UserEvent(e)) \/ (\E p \in Paths : Delete(p))
             \/ UNCHANGED vars
      PROVE  status' \notin {0, 2}
  <2>1. \/ status' = status \/ status' = 1 \/ status' = 128
    <3>1. CASE parse_opts \/ InitLibrary \/ BuildList \/ Daemonize \/ RedirectOutput \/ WatchNext
      BY <3>1 DEF parse_opts, InitLibrary, BuildList, Daemonize, RedirectOutput, WatchNext, Exit, Goto
    <3>2. CASE Established \/ PollFails \/ Kill
      BY <3>2 DEF Established, PollFails, Kill, Exit, Goto
    <3>3. CASE OutputEvent \/ HandleEvent
      BY <3>3 DEF OutputEvent, HandleEvent
    <3>4. CASE (\E e \in UserEvents : UserEvent(e)) \/ (\E p \in Paths : Delete(p)) \/ UNCHANGED vars
      BY <3>4 DEF UserEvent, Delete, vars
    <3> QED
      BY <1>7, <3>1, <3>2, <3>3, <3>4
  <2> QED
    BY <1>1, <1>2, <2>1
<1> QED
  BY <1>3, <1>4, <1>5, <1>6, <1>7 DEF Next, Tool

\* Nothing happens to a tool that has ended.
LEMMA EndIsEnd ==
  ASSUME pc = "done", [Next]_vars
  PROVE  UNCHANGED vars
BY DEF Next, Tool, parse_opts, InitLibrary, BuildList, Daemonize, RedirectOutput, WatchNext, Established,
       ReadEvent, Timeout, OutputEvent, HandleEvent, Finish, PollFails, Kill, UserEvent, Delete

\* Queue and Reporting hold throughout.
LEMMA QueueInvariance == Spec => [](Basic /\ Queue /\ Reporting)
<1>1. Init => Queue /\ Reporting
  BY DEF Init, Queue, Reporting
<1> QED
  BY BasicInit, BasicStep, QueueStep, ReportingStep, <1>1, PTL DEF Spec

\* The exit status tells the truth: 0 only for a tool without --monitor whose
\* last event is one that was asked for on the command line and is not
\* filtered, and that has reported it if it was to, alone; 2 only after a
\* timeout with no such event before it (or an overflow with fanotify).
THEOREM ExitStatusIsTruthful == Spec => []ExitStatusTruthful
<1>1. Init => ExitStatusTruthful
  BY DEF Init, ExitStatusTruthful, Running
<1>2. pc = "done" /\ ExitStatusTruthful /\ [Next]_vars => ExitStatusTruthful'
  <2> SUFFICES ASSUME pc = "done", ExitStatusTruthful, [Next]_vars PROVE ExitStatusTruthful'
    OBVIOUS
  <2>1. UNCHANGED vars
    BY EndIsEnd
  <2>2. UNCHANGED <<cmd, o, seen, out, status>>
    BY <2>1 DEF vars, startvars
  <2>3. \A e : Processed(e)' <=> Processed(e)
    BY <2>2
       DEF Processed, Relevant, LetPast, Asked, Chosen, Options, MatchesOption, LastOf,
           Has, NewDirectory
  <2>4. Processed(seen[Len(seen)])' <=> Processed(seen[Len(seen)])
    BY <2>2
       DEF Processed, Relevant, LetPast, Asked, Chosen, Options, MatchesOption, LastOf,
           Has, NewDirectory
  <2>5. Wanted(seen[Len(seen)])' <=> Wanted(seen[Len(seen)])
    BY <2>2, <2>4 DEF Wanted, Has, Options
  <2>6. Reported(out)' = Reported(out)
    BY <2>2
  <2>7. (status = 2 => \/ o.timeout > 0 /\ (~o.monitor => \A k \in DOMAIN seen : ~Processed(seen[k]))
                       \/ o.fanotify /\ seen # << >> /\ seen[Len(seen)].kind = "overflow")'
    BY <2>2, <2>3 DEF ExitStatusTruthful
  <2>8. (status = 0 => ~o.monitor /\ seen # << >> /\ Processed(seen[Len(seen)])
                         /\ (Wanted(seen[Len(seen)]) => Reported(out) = <<seen[Len(seen)]>>))'
    BY <2>2, <2>4, <2>5, <2>6 DEF ExitStatusTruthful
  <2> QED
    BY <2>7, <2>8, Zenon DEF ExitStatusTruthful
<1>3. Basic /\ Queue /\ Reporting /\ ExitStatusTruthful /\ [Next]_vars => ExitStatusTruthful'
  <2>1. CASE pc = "done"
    BY <1>2, <2>1
  <2>2. CASE pc # "done"
    BY <2>2, EndsTruthfully
  <2> QED
    BY <2>1, <2>2
<1> QED
  BY QueueInvariance, <1>1, <1>3, PTL DEF Spec

\* For command lines on which no daemon with fanotify listens for what the
\* library does itself.
DaemonsDeaf ==
  \A c \in Commands :
    LET p == Parsed(c)
    IN  p.ok /\ p.daemon /\ p.fanotify => p.events # {} /\ OwnKinds \cap p.events = {}

\* They do not hear themselves.
LEMMA DaemonsDeafIs ==
  ASSUME DaemonsDeaf, Basic, pc \notin {"parse", "done"}
  PROVE  Deaf
<1>1. cmd \in Commands /\ o = Parsed(cmd) /\ o.ok = TRUE /\ (pid = DaemonPid => o.daemon = TRUE)
  BY DEF Basic, Stages, TypeOK
<1> QED
  BY <1>1 DEF DaemonsDeaf, Deaf, orig_events

\* Before the tool waits for more, every event it was to report has left it,
\* once and in order, and nothing else has.  The hypothesis excludes daemons
\* that report their own events.
THEOREM NothingIsWithheld ==
  ASSUME DaemonsDeaf
  PROVE  Spec => []NothingWithheld
<1>1. Basic /\ Queue /\ Reporting => NothingWithheld
  <2> SUFFICES ASSUME Basic, Queue, Reporting, pc = "wait", ~(o.filesystem /\ o.monitor)
               PROVE  Reported(out) = WantedOf(seen)
    BY DEF NothingWithheld
  <2>1. Deaf
    BY DaemonsDeafIs
  <2>2. Rep(out) = ToReport
    BY <2>1 DEF Reporting
  <2>3. Reported(out) = Rep(out) /\ WantedOf(seen) = ToReport
    BY Lines, RepIs DEF Basic, ToReport
  <2> QED
    BY <2>2, <2>3
<1> QED
  BY QueueInvariance, <1>1, PTL

(***************************************************************************)
(* The tool does not feed itself.                                          *)
(***************************************************************************)
NotUser == {e \in Events : e.who # User}
ByUser == {e \in Events : e.who = User}

\* The tool's own events among the first and the last ones, and those of
\* others that are still in the queue.
Spent(h) == Cardinality(Marked(h, NotUser, 0))
Due(h, n) == Cardinality(Marked(h, ByUser, n))
Pending(stage) == IF stage = "output" THEN 2 ELSE 0
Unfiled(f) == IF Here \in f THEN 0 ELSE 2

\* Each file to watch may cost one event of the tool's own, each event of
\* others six (its fid is looked up, it is filtered, and its path is printed:
\* an open and a close each), and the tool's own events two, once.
Rest == Pending(pc) + Unfiled(filed) + Len(list)
Allowed == Len(cmd.lines) + Len(cmd.args) + 2
Budget ==
  Spent(seen \o kq) + 6 * Due(seen \o kq, Len(seen)) + Rest <= Allowed + 6 * posted

\* What is added to the queue costs what it may.
LEMMA Grows ==
  ASSUME NEW h \in Seq(Events), NEW x \in Seq(Events), NEW n \in Nat
  PROVE  /\ Spent(h) \in Nat /\ Due(h, n) \in Nat /\ Spent(h \o x) \in Nat /\ Due(h \o x, n) \in Nat
         /\ (\A k \in 1..Len(x) : x[k].who # User) =>
              Spent(h \o x) <= Spent(h) + Len(x) /\ Due(h \o x, n) = Due(h, n)
         /\ (\A k \in 1..Len(x) : x[k].who = User) =>
              Spent(h \o x) = Spent(h) /\ Due(h \o x, n) <= Due(h, n) + Len(x)
         /\ n + 1 \in 1..Len(h) =>
              Due(h, n + 1) = Due(h, n) - (IF h[n + 1].who = User THEN 1 ELSE 0)
<1> DEFINE u == h \o x
<1>1. u \in Seq(Events)
  BY Concat
<1>2. Spent(h) \in Nat /\ Due(h, n) \in Nat
  BY MarkedFacts DEF Spent, Due
<1>3. Spent(u) \in Nat /\ Due(u, n) \in Nat
  <2> HIDE DEF u
  <2> QED
    BY <1>1, MarkedFacts DEF Spent, Due
<1>4. /\ Spent(u) <= Spent(h) + Len(x)
      /\ (\A k \in 1..Len(x) : x[k] \notin NotUser) => Spent(u) = Spent(h)
  <2>1. /\ Cardinality(Marked(h \o x, NotUser, 0)) <= Cardinality(Marked(h, NotUser, 0)) + Len(x)
        /\ (\A k \in 1..Len(x) : x[k] \notin NotUser) => Marked(h \o x, NotUser, 0) = Marked(h, NotUser, 0)
    BY MarkedFacts
  <2> QED
    BY <2>1 DEF Spent
<1>5. /\ Due(u, n) <= Due(h, n) + Len(x)
      /\ (\A k \in 1..Len(x) : x[k] \notin ByUser) => Due(u, n) = Due(h, n)
  <2>1. /\ Cardinality(Marked(h \o x, ByUser, n)) <= Cardinality(Marked(h, ByUser, n)) + Len(x)
        /\ (\A k \in 1..Len(x) : x[k] \notin ByUser) => Marked(h \o x, ByUser, n) = Marked(h, ByUser, n)
    BY MarkedFacts
  <2> QED
    BY <2>1 DEF Due
<1>6. n + 1 \in 1..Len(h) => Due(h, n + 1) = Due(h, n) - (IF h[n + 1].who = User THEN 1 ELSE 0)
  <2> SUFFICES ASSUME n + 1 \in 1..Len(h)
               PROVE  Due(h, n + 1) = Due(h, n) - (IF h[n + 1].who = User THEN 1 ELSE 0)
    OBVIOUS
  <2>0. n + 1 \in 1..Len(h)
    OBVIOUS
  <2>1. Due(h, n + 1) = Due(h, n) - (IF h[n + 1] \in ByUser THEN 1 ELSE 0)
    <3>1. Cardinality(Marked(h, ByUser, n + 1)) =
            Cardinality(Marked(h, ByUser, n)) - (IF h[n + 1] \in ByUser THEN 1 ELSE 0)
      BY <2>0, MarkedSkip
    <3> QED
      BY <2>0, <3>1, Zenon DEF Due
  <2>2. h[n + 1] \in Events
    BY ElementOfSeq
  <2>3. h[n + 1] \in ByUser <=> h[n + 1].who = User
    BY <2>2 DEF ByUser
  <2> QED
    BY <2>1, <2>3
<1>7. ASSUME NEW y PROVE (y.who = User => y \notin NotUser) /\ (y.who # User => y \notin ByUser)
  BY DEF NotUser, ByUser
<1> HIDE DEF u
<1> QED
  BY <1>2, <1>3, <1>4, <1>5, <1>6, <1>7 DEF u

\* The rest is a number.
LEMMA RestType ==
  ASSUME NEW stage, NEW f, NEW q \in Seq(Paths \cup {NoPath})
  PROVE  Pending(stage) + Unfiled(f) + Len(q) \in Nat
<1> DEFINE a == Len(q)
<1>1. a \in Nat
  BY LenProperties
<1> HIDE DEF a
<1>2. Pending(stage) + Unfiled(f) + a \in Nat
  BY <1>1 DEF Pending, Unfiled
<1> QED
  BY <1>2 DEF a

\* The numbers of Budget are numbers.
LEMMA BudgetType ==
  ASSUME TypeOK
  PROVE  /\ seen \o kq \in Seq(Events) /\ Len(seen) \in Nat /\ posted \in Nat
         /\ Spent(seen \o kq) \in Nat /\ Due(seen \o kq, Len(seen)) \in Nat
         /\ Rest \in Nat /\ Allowed \in Nat /\ Len(list) \in Nat
<1>1. seen \in Seq(Events) /\ kq \in Seq(Events) /\ << >> \in Seq(Events)
  BY Lines
<1>2. seen \o kq \in Seq(Events)
  BY <1>1, Concat, Zenon
<1>3. Len(seen) \in Nat
  BY <1>1, LenProperties
<1>4. Spent(seen \o kq) \in Nat /\ Due(seen \o kq, Len(seen)) \in Nat
  <2> DEFINE h == seen \o kq
             n == Len(seen)
  <2>1. h \in Seq(Events) /\ n \in Nat
    BY <1>2, <1>3
  <2> HIDE DEF h, n
  <2>2. Spent(h) \in Nat /\ Due(h, n) \in Nat
    BY <1>1, <2>1, Grows, Zenon
  <2> QED
    BY <2>2 DEF h, n
<1>5. posted \in Nat /\ cmd \in Commands /\ list \in Seq(Paths \cup {NoPath})
  BY BoundsAssumption DEF TypeOK
<1>6. Len(list) \in Nat
  BY <1>5, LenProperties
<1>7. Rest \in Nat
  BY <1>5, RestType DEF Rest
<1>8. Allowed \in Nat
  <2> DEFINE a == Len(cmd.lines)
             b == Len(cmd.args)
  <2>1. a \in Nat /\ b \in Nat
    BY <1>5, ListType
  <2> HIDE DEF a, b
  <2>2. a + b + 2 \in Nat
    BY <2>1
  <2> QED
    BY <2>2 DEF Allowed, a, b
<1> QED
  BY <1>2, <1>3, <1>4, <1>5, <1>6, <1>7, <1>8

\* A step that adds the events x to the queue and costs no more than the
\* rest of Budget allows keeps it.
LEMMA BudgetKept ==
  ASSUME TypeOK, TypeOK', Budget, cmd' = cmd, NEW x \in Seq(Events),
         seen' = seen, kq' = kq \o x,
         \/ (\A k \in 1..Len(x) : x[k].who # User) /\ Len(x) + Rest' <= Rest + 6 * (posted' - posted)
         \/ (\A k \in 1..Len(x) : x[k].who = User) /\ Len(x) <= posted' - posted /\ Rest' = Rest
  PROVE  Budget'
<1> DEFINE h == seen \o kq
           n == Len(seen)
           s == Spent(h)
           d == Due(h, n)
           s1 == Spent(h \o x)
           d1 == Due(h \o x, n)
           l == Len(x)
<1>1. /\ h \in Seq(Events) /\ n \in Nat /\ posted \in Nat /\ s \in Nat /\ d \in Nat
      /\ Rest \in Nat /\ Allowed \in Nat
  BY BudgetType, Zenon
<1>2. posted' \in Nat /\ Rest' \in Nat
  <2>1. posted' \in Nat /\ list' \in Seq(Paths \cup {NoPath})
    BY BoundsAssumption DEF TypeOK
  <2>2. Rest' = Pending(pc') + Unfiled(filed') + Len(list')
    BY DEF Rest, Pending, Unfiled
  <2> QED
    BY <2>1, <2>2, RestType
<1>3. l \in Nat
  BY LenProperties
<1>4. seen' \o kq' = h \o x
  <2>1. seen \in Seq(Events) /\ kq \in Seq(Events)
    BY Lines
  <2>2. (seen \o kq) \o x = seen \o (kq \o x)
    BY <2>1, ConcatAssociative, SMTT(30)
  <2> QED
    BY <2>2
<1>5. s + 6 * d + Rest <= Allowed + 6 * posted
  BY DEF Budget
<1>6. /\ s1 \in Nat /\ d1 \in Nat
      /\ (\A k \in 1..l : x[k].who # User) => s1 <= s + l /\ d1 = d
      /\ (\A k \in 1..l : x[k].who = User) => s1 = s /\ d1 <= d + l
  <2> HIDE DEF h, n
  <2> QED
    BY <1>1, Grows, ZenonT(30)
<1>7. \/ s1 <= s + l /\ d1 = d /\ l + Rest' <= Rest + 6 * (posted' - posted)
      \/ s1 = s /\ d1 <= d + l /\ l <= posted' - posted /\ Rest' = Rest
  BY <1>6, Zenon
<1> HIDE DEF s, d, s1, d1, l
<1>8. s1 + 6 * d1 + Rest' <= Allowed + 6 * posted'
  <2> DEFINE r == Rest
             r1 == Rest'
             w == Allowed
             p == posted
             p1 == posted'
  <2>1. /\ s \in Nat /\ d \in Nat /\ s1 \in Nat /\ d1 \in Nat /\ l \in Nat /\ r \in Nat /\ r1 \in Nat
        /\ w \in Nat /\ p \in Nat /\ p1 \in Nat
    BY <1>1, <1>2, <1>3, <1>6, Zenon
  <2>2. s + 6 * d + r <= w + 6 * p
    BY <1>5
  <2>3. \/ s1 <= s + l /\ d1 = d /\ l + r1 <= r + 6 * (p1 - p)
        \/ s1 = s /\ d1 <= d + l /\ l <= p1 - p /\ r1 = r
    BY <1>7
  <2> HIDE DEF r, r1, w, p, p1
  <2>4. s1 + 6 * d1 + r1 <= w + 6 * p1
    BY <2>1, <2>2, <2>3
  <2> QED
    BY <2>4 DEF r1, w, p1
<1>9. Spent(seen \o kq)' = s1 /\ Due(seen \o kq, Len(seen))' = d1
  BY <1>4 DEF s1, d1, Spent, Due, NotUser, ByUser, Events, Names
<1>10. Allowed' = Allowed
  BY DEF Allowed
<1> QED
  BY <1>8, <1>9, <1>10 DEF Budget

\* A step that leaves the queue alone and does not raise the rest keeps
\* Budget.
LEMMA BudgetSame ==
  ASSUME TypeOK, TypeOK', Budget, cmd' = cmd, seen' = seen, kq' = kq,
         Rest' <= Rest + 6 * (posted' - posted)
  PROVE  Budget'
<1> DEFINE x == << >>
<1>1. x \in Seq(Events) /\ Len(x) = 0
  BY Lines
<1>2. kq' = kq \o x
  BY Lines, ConcatEmptySeq
<1>3. \A k \in 1..Len(x) : x[k].who # User
  BY <1>1
<1>4. Len(x) + Rest' <= Rest + 6 * (posted' - posted)
  <2>1. Rest' \in Nat
    <3>1. list' \in Seq(Paths \cup {NoPath})
      BY DEF TypeOK
    <3>2. Rest' = Pending(pc') + Unfiled(filed') + Len(list')
      BY DEF Rest, Pending, Unfiled
    <3> QED
      BY <3>1, <3>2, RestType
  <2> DEFINE r == Rest'
             l == Len(x)
  <2>2. r \in Nat /\ l = 0
    BY <1>1, <2>1
  <2> HIDE DEF r, l
  <2>3. l + r = r
    BY <2>2
  <2> QED
    BY <2>3 DEF r, l
<1> HIDE DEF x
<1> QED
  BY <1>1, <1>2, <1>3, <1>4, BudgetKept

\* What next_event reads is paid for: an event of others by itself, one of
\* the tool's own by the fid that is filed, the first time.
LEMMA BudgetReads ==
  ASSUME Basic, Basic', Queue, Deaf, Budget, ReadEvent
  PROVE  Budget'
<1> DEFINE e == Head(kq)
           h == seen \o kq
           n == Len(seen)
<1>1. /\ pc = "wait" /\ kq # << >> /\ seen' = Append(seen, e)
      /\ UNCHANGED <<cmd, o, pid, self_pid, list, posted>>
  BY DEF ReadEvent, startvars
<1>2. kq \in Seq(Queued)
  BY <1>1 DEF Queue
<1>3. e \in Queued /\ TypeOK /\ TypeOK'
  BY <1>1, <1>2, Typing, Zenon DEF Basic
<1>4. seen \in Seq(Events) /\ kq \in Seq(Events) /\ Tail(kq) \in Seq(Events)
  BY <1>1, <1>3, Lines, Typing, Zenon
<1>5. PICK x \in Seq(Events) :
         /\ kq' = Tail(kq) \o x
         /\ \A k \in 1..Len(x) : x[k].who # User
         /\ Len(x) + Rest' <= Rest + (IF e.who = User THEN 6 ELSE 0)
  <2>1. Rest \in Nat
    BY <1>3, BudgetType
  <2>2. Rest' = Pending(pc') + Unfiled(filed') + Len(list')
    BY DEF Rest, Pending, Unfiled
  <2>3. Len(list) \in Nat
    BY <1>3, BudgetType
  <2> DEFINE l == Len(list)
  <2>4. Rest = Unfiled(filed) + l /\ Rest' = Pending(pc') + Unfiled(filed') + l /\ l \in Nat
    BY <1>1, <2>2, <2>3 DEF Rest, Pending, Unfiled
  <2> HIDE DEF l
  <2>5. CASE Exit(2) /\ kq' = Tail(kq) /\ UNCHANGED <<filed, cur>>
    <3>1. Pending(pc') = 0 /\ filed' = filed
      BY <2>5 DEF Exit, Pending
    <3>2. Rest' <= Rest + (IF e.who = User THEN 6 ELSE 0)
      <4>1. Rest' = Rest
        BY <2>4, <3>1 DEF Unfiled
      <4> QED
        BY <2>1, <4>1
    <3>3. << >> \in Seq(Events) /\ Len(<< >>) = 0 /\ Tail(kq) \o << >> = Tail(kq)
      BY <1>3, <1>4, Lines, ConcatEmptySeq
    <3> DEFINE x == << >>
    <3>4. x \in Seq(Events) /\ Len(x) = 0 /\ kq' = Tail(kq) \o x
      BY <2>5, <3>3
    <3> HIDE DEF x
    <3>5. \A k \in 1..Len(x) : x[k].who # User
      BY <3>4
    <3>6. Len(x) + Rest' <= Rest + (IF e.who = User THEN 6 ELSE 0)
      <4> DEFINE r1 == Rest'
                 r == Rest
      <4>1. r1 = r /\ r \in Nat
        BY <2>1, <2>4, <3>1 DEF Unfiled
      <4> HIDE DEF r, r1
      <4>2. Len(x) + r1 <= r + (IF e.who = User THEN 6 ELSE 0)
        BY <3>4, <4>1
      <4> QED
        BY <4>2 DEF r, r1
    <3> QED
      BY <3>4, <3>5, <3>6
  <2>6. CASE Take(e)
    <3>1. PICK f \in {filed, filed \cup {e.name}}, made \in {<< >>, OpenByHandle},
               opens \in {<< >>, OpenByHandle} :
              /\ LookUp(e, f, made) /\ filed' = f
              /\ kq' = Tail(kq) \o made \o opens
              /\ OwnEvent(e) => opens = << >>
      BY <2>6, TakeIs
    <3> DEFINE x == made \o opens
               i == Len(made)
               j == Len(opens)
    <3>2. \A y \in {<< >>, OpenByHandle} : /\ y \in Seq(Events) /\ Len(y) \in 0..2
                                           /\ \A k \in 1..Len(y) : y[k].who # User
      <4>1. << >> \in Seq(Events) /\ Len(<< >>) = 0
        BY <1>3, Lines
      <4>2. OpenByHandle \in Seq(Events) /\ Len(OpenByHandle) \in 0..2
        BY <1>3, OwnType
      <4>3. \A k \in 1..Len(OpenByHandle) : OpenByHandle[k].who # User
        BY <1>3, OwnQueued
      <4>4. \A k \in 1..Len(<< >>) : << >>[k].who # User
        BY <4>1
      <4>5. Len(<< >>) \in 0..2
        BY <4>1
      <4> QED
        BY <4>1, <4>2, <4>3, <4>4, <4>5
    <3>3. /\ made \in Seq(Events) /\ i \in 0..2 /\ \A k \in 1..i : made[k].who # User
          /\ opens \in Seq(Events) /\ j \in 0..2 /\ \A k \in 1..j : opens[k].who # User
      BY <3>2
    <3>4. /\ x \in Seq(Events) /\ Len(x) = i + j
          /\ \A k \in 1..(i + j) : x[k] = IF k <= i THEN made[k] ELSE opens[k - i]
      BY <3>3, ConcatProperties
    <3>5. kq' = Tail(kq) \o x
      <4> DEFINE q == Tail(kq)
      <4>1. q \in Seq(Events) /\ made \in Seq(Events) /\ opens \in Seq(Events)
        BY <1>4, <3>3
      <4>2. kq' = (q \o made) \o opens
        BY <3>1
      <4> HIDE DEF q
      <4>3. (q \o made) \o opens = q \o (made \o opens)
        BY <4>1, ConcatAssociative, SMTT(30)
      <4> QED
        BY <4>2, <4>3 DEF q
    <3> HIDE DEF x, i, j
    <3>6. \A k \in 1..Len(x) : x[k].who # User
      <4> SUFFICES ASSUME NEW k \in 1..(i + j) PROVE x[k].who # User
        BY <3>4
      <4>1. CASE k <= i
        <5>1. k \in 1..i
          BY <3>3, <4>1
        <5> QED
          BY <3>3, <3>4, <4>1, <5>1
      <4>2. CASE ~(k <= i)
        <5>1. k - i \in 1..j
          BY <3>3, <4>2
        <5> QED
          BY <3>3, <3>4, <4>2, <5>1
      <4> QED
        BY <4>1, <4>2
    <3>7. i + j + Rest' <= Rest + (IF e.who = User THEN 6 ELSE 0)
      <4>1. CASE e.who = User
        <5>1. Unfiled(filed') <= Unfiled(filed)
          BY <3>1 DEF Unfiled
        <5>2. Pending(pc') \in {0, 2} /\ Unfiled(filed) \in {0, 2} /\ Unfiled(filed') \in {0, 2}
          BY DEF Pending, Unfiled
        <5>3. i + j + (Pending(pc') + Unfiled(filed') + l) <= Unfiled(filed) + l + 6
          BY <2>4, <3>3, <5>1, <5>2, SMTT(30)
        <5> QED
          BY <2>4, <4>1, <5>3
      <4>2. CASE e.who # User
        <5>1. OwnEvent(e) /\ e.name = Here
          <6>1. e.name = Here
            BY <1>3, <4>2 DEF Queued
          <6> QED
            BY <1>1, <1>3, <4>2, <6>1, OwnKnown
        <5>2. opens = << >> /\ pc' = "wait"
          BY <1>1, <2>6, <3>1, <5>1, TakeIs
        <5>3. j = 0
          BY <1>3, <5>2, Lines DEF j
        <5>4. Pending(pc') = 0
          BY <5>2 DEF Pending
        <5>5. i + Unfiled(filed') <= Unfiled(filed)
          <6>1. CASE Here \in filed
            <7>1. made = << >> /\ f = filed
              BY <3>1, <5>1, <6>1 DEF LookUp, LookedUp
            <7>2. i = 0
              BY <1>3, <7>1, Lines DEF i
            <7> QED
              BY <3>1, <7>1, <7>2 DEF Unfiled
          <6>2. CASE Here \notin filed /\ f = filed
            <7>1. made = << >>
              BY <3>1, <5>1, <6>2 DEF LookUp
            <7>2. i = 0
              BY <1>3, <7>1, Lines DEF i
            <7> QED
              BY <3>1, <6>2, <7>2 DEF Unfiled
          <6>3. CASE Here \notin filed /\ f # filed
            <7>1. Here \in filed'
              BY <3>1, <5>1, <6>3
            <7> QED
              BY <3>3, <6>3, <7>1 DEF Unfiled
          <6> QED
            BY <6>1, <6>2, <6>3
        <5>6. Unfiled(filed) \in {0, 2} /\ Unfiled(filed') \in {0, 2}
          BY DEF Unfiled
        <5>7. i + j + (Pending(pc') + Unfiled(filed') + l) <= Unfiled(filed) + l + 0
          BY <2>4, <3>3, <5>3, <5>4, <5>5, <5>6
        <5> QED
          BY <2>4, <4>2, <5>7
      <4> QED
        BY <4>1, <4>2
    <3> QED
      BY <3>4, <3>5, <3>6, <3>7
  <2> QED
    BY <2>5, <2>6 DEF ReadEvent
<1>6. /\ seen' \o kq' = h \o x /\ n + 1 \in 1..Len(h) /\ h[n + 1] = e
      /\ Len(seen') = n + 1
  <2> DEFINE g == Append(seen, Head(kq))
             t == Tail(kq) \o x
             w == seen \o kq
  <2>1. /\ g \o t = w \o x
        /\ Len(seen) + 1 \in 1..Len(w) /\ w[Len(seen) + 1] = Head(kq)
        /\ Len(g) = Len(seen) + 1
    BY <1>1, <1>4, <1>5, MoveHead, Zenon
  <2>2. seen' = g /\ kq' = t
    BY <1>1, <1>5
  <2> HIDE DEF g, t, w
  <2> QED
    BY <2>1, <2>2 DEF w
<1>7. h \in Seq(Events) /\ n \in Nat /\ Rest \in Nat /\ Allowed \in Nat /\ posted \in Nat
  BY <1>3, BudgetType
<1>8. Len(x) \in Nat /\ h \o x \in Seq(Events) /\ n + 1 \in Nat
  <2> HIDE DEF h, n
  <2> QED
    BY <1>7, LenProperties, Concat
<1> DEFINE s == Spent(h)
           d == Due(h, n)
           s1 == Spent(h \o x)
           d1 == Due(h \o x, n + 1)
           u == IF e.who = User THEN 1 ELSE 0
           l == Len(x)
<1>9. s \in Nat /\ d \in Nat /\ s1 \in Nat /\ d1 \in Nat /\ s1 <= s + l /\ d1 = d - u
  <2> HIDE DEF h, n, e
  <2>1. s \in Nat /\ d \in Nat /\ s1 \in Nat /\ s1 <= s + l
    BY <1>5, <1>7, Grows, Zenon
  <2>2. Due(h, n + 1) = d - u
    <3>1. n + 1 \in 1..Len(h) => Due(h, n + 1) = Due(h, n) - (IF h[n + 1].who = User THEN 1 ELSE 0)
      BY <1>5, <1>7, Grows, Zenon
    <3> QED
      BY <1>6, <3>1
  <2>3. d1 = Due(h, n + 1) /\ d1 \in Nat
    BY <1>5, <1>7, <1>8, Grows, ZenonT(30)
  <2> QED
    BY <2>1, <2>2, <2>3
<1>10. l + Rest' <= Rest + 6 * u
  BY <1>5
<1>11. Rest' \in Nat
  <2>1. list' \in Seq(Paths \cup {NoPath})
    BY <1>3 DEF TypeOK
  <2>2. Rest' = Pending(pc') + Unfiled(filed') + Len(list')
    BY DEF Rest, Pending, Unfiled
  <2> QED
    BY <2>1, <2>2, RestType
<1>12. s + 6 * d + Rest <= Allowed + 6 * posted
  BY DEF Budget
<1>13. u \in {0, 1} /\ l \in Nat
  BY <1>8
<1> HIDE DEF s, d, s1, d1, u, l, e, h, n
<1>14. s1 + 6 * d1 + Rest' <= Allowed + 6 * posted
  <2> DEFINE r == Rest
             r1 == Rest'
             w == Allowed
             p == posted
  <2>1. r \in Nat /\ r1 \in Nat /\ w \in Nat /\ p \in Nat
    BY <1>7, <1>11
  <2>2. l + r1 <= r + 6 * u /\ s + 6 * d + r <= w + 6 * p
    BY <1>10, <1>12
  <2> HIDE DEF r, r1, w, p
  <2>3. s1 + 6 * d1 + r1 <= w + 6 * p
    BY <1>9, <1>13, <2>1, <2>2
  <2> QED
    BY <2>3 DEF r1, w, p
<1>15. Spent(seen \o kq)' = s1 /\ Due(seen \o kq, Len(seen))' = d1
  BY <1>6 DEF s1, d1, Spent, Due, NotUser, ByUser, Events, Names, n
<1>16. Allowed' = Allowed
  BY <1>1 DEF Allowed
<1> QED
  BY <1>1, <1>14, <1>15, <1>16 DEF Budget

\* Nothing has been spent before there is an event.
LEMMA NothingSpent == Spent(<< >> \o << >>) = 0 /\ Due(<< >> \o << >>, Len(<< >>)) = 0
<1> DEFINE h == << >> \o << >>
           z == << >>
<1>1. z \in Seq(Events) /\ Len(z) = 0 /\ h = z
  BY Typing, ConcatEmptySeq
<1>2. Len(h) = 0
  BY <1>1
<1> HIDE DEF h
<1>3. 1..Len(h) = {}
  BY <1>2
<1>4. Marked(h, NotUser, 0) = {} /\ Marked(h, ByUser, Len(z)) = {}
  BY <1>3 DEF Marked
<1>5. Cardinality({}) = 0
  BY FS_EmptySet
<1> QED
  BY <1>4, <1>5 DEF Spent, Due, h, z

\* The list of files is paid for by the words it comes from.
LEMMA BudgetLists ==
  ASSUME Basic, Basic', Queue, Budget, BuildList
  PROVE  Budget'
<1>1. /\ pc = "paths" /\ pc' # "output" /\ UNCHANGED <<cmd, o, kq, seen, posted, filed>>
      /\ list' = list \/ list' = construct_path_list(cmd)
  BY DEF BuildList, Exit, Goto, kvars, eventvars
<1>2. TypeOK /\ TypeOK' /\ cmd \in Commands
  BY DEF Basic, TypeOK
<1>3. CASE list' = list
  <2>1. Rest' <= Rest + 6 * (posted' - posted)
    <3>1. Rest' = Rest
      BY <1>1, <1>3 DEF Rest, Pending
    <3>2. posted' - posted = 0 /\ Rest \in Nat
      BY <1>1, <1>2, BudgetType
    <3> QED
      BY <3>1, <3>2
  <2> QED
    BY <1>1, <1>2, <2>1, BudgetSame
<1>4. CASE list' = construct_path_list(cmd)
  <2>1. kq' = << >> /\ seen' = << >>
    BY <1>1 DEF Queue
  <2> DEFINE l == Len(list')
             a == Len(cmd.lines)
             b == Len(cmd.args)
  <2>2. /\ l <= a + b /\ a \in Nat /\ b \in Nat
        /\ construct_path_list(cmd) \in Seq(Paths \cup {NoPath})
    BY <1>2, <1>4, ListType
  <2>3. l \in Nat
    BY <1>4, <2>2, LenProperties
  <2>4. Rest' = Unfiled(filed) + l /\ Allowed' = a + b + 2
    BY <1>1, <2>3 DEF Rest, Allowed, Pending, Unfiled
  <2>5. posted' \in Nat
    BY <1>2, BudgetType, <1>1
  <2>6. Spent(seen \o kq)' = 0 /\ Due(seen \o kq, Len(seen))' = 0
    BY <2>1, NothingSpent DEF Spent, Due, NotUser, ByUser, Events, Names
  <2> DEFINE u == Unfiled(filed)
             p == posted'
  <2>7. u \in {0, 2} /\ p \in Nat /\ l \in Nat /\ a \in Nat /\ b \in Nat /\ l <= a + b
    BY <2>2, <2>3, <2>5 DEF Unfiled
  <2> HIDE DEF l, a, b, u, p
  <2>8. 0 + 6 * 0 + (u + l) <= (a + b + 2) + 6 * p
    BY <2>7
  <2> QED
    BY <2>4, <2>6, <2>8 DEF Budget, u, p
<1> QED
  BY <1>1, <1>3, <1>4

\* Every step keeps within the budget.
LEMMA BudgetStep ==
  ASSUME Basic, Basic', Queue, Budget, [Next]_vars, pc \notin {"parse", "done"} => Deaf
  PROVE  Budget'
<1>0. TypeOK /\ TypeOK' /\ cmd' = cmd /\ list \in Seq(Paths \cup {NoPath}) /\ cmd \in Commands
  <2>1. TypeOK /\ TypeOK'
    BY DEF Basic
  <2>2. cmd' = cmd
    BY DEF Next, Tool, vars, startvars, parse_opts, InitLibrary, BuildList, Daemonize,
           RedirectOutput, WatchNext, Established, ReadEvent, Timeout, OutputEvent, HandleEvent,
           Finish, PollFails, Kill, UserEvent, Delete
  <2> QED
    BY <2>1, <2>2 DEF TypeOK
<1>1. /\ Rest \in Nat /\ posted \in Nat /\ Len(list) \in Nat
      /\ Pending(pc) \in {0, 2} /\ Unfiled(filed) \in {0, 2}
  BY <1>0, BudgetType DEF Pending, Unfiled
<1>2. ASSUME UNCHANGED <<kq, seen, list, filed, posted>>, pc' # "output" \/ pc' = pc
      PROVE  Budget'
  <2> DEFINE l == Len(list)
  <2>1. /\ Rest = Pending(pc) + Unfiled(filed) + l
        /\ Rest' = Pending(pc') + Unfiled(filed) + l
    BY <1>2 DEF Rest, Pending, Unfiled
  <2>2. Pending(pc') <= Pending(pc) /\ Pending(pc') \in {0, 2}
    BY <1>2 DEF Pending
  <2>3. l \in Nat
    BY <1>1
  <2> HIDE DEF l
  <2>4. Rest' <= Rest + 6 * (posted' - posted)
    BY <1>1, <1>2, <2>1, <2>2, <2>3
  <2> QED
    BY <1>0, <1>2, <2>4, BudgetSame
<1>3. ASSUME parse_opts \/ InitLibrary \/ Daemonize \/ RedirectOutput PROVE Budget'
  <2>1. /\ UNCHANGED <<kq, seen, list, filed, posted>> /\ pc' # "output"
    BY <1>3 DEF parse_opts, InitLibrary, Daemonize, RedirectOutput, Exit, Goto, kvars, eventvars,
                startvars
  <2> QED
    BY <1>2, <2>1
<1>4. ASSUME Established \/ Timeout \/ PollFails \/ Finish \/ HandleEvent \/ Kill
      PROVE  Budget'
  <2>1. /\ UNCHANGED <<kq, seen, list, filed, posted>> /\ pc' # "output"
    BY <1>4 DEF Established, Timeout, PollFails, Finish, HandleEvent, Kill, Exit, Goto, kvars,
                eventvars, startvars
  <2> QED
    BY <1>2, <2>1
<1>5. ASSUME BuildList PROVE Budget'
  BY <1>5, BudgetLists
<1>6. ASSUME WatchNext PROVE Budget'
  <2>1. CASE UNCHANGED <<kq, list>>
    <3>1. /\ UNCHANGED <<kq, seen, list, filed, posted>> /\ pc' # "output"
      BY <1>6, <2>1 DEF WatchNext, Exit, Goto, eventvars
    <3> QED
      BY <1>2, <3>1
  <2>2. CASE ~UNCHANGED <<kq, list>>
    <3>1. /\ pc = "watch" /\ pc' = "watch" /\ list # << >> /\ list' = Tail(list)
          /\ kq' = kq \o Own("open") /\ UNCHANGED <<seen, filed, posted>>
      BY <1>6, <2>2 DEF WatchNext, Exit, Goto, eventvars
    <3> DEFINE x == Own("open")
               l == Len(list)
               i == Len(x)
    <3>2. /\ x \in Seq(Events) /\ i \in 0..1 /\ \A k \in 1..Len(x) : x[k].who # User
      BY <1>0, OwnType, OwnQueued
    <3>3. Len(list') = l - 1 /\ l \in Nat
      BY <1>0, <1>1, <3>1, HeadTailProperties
    <3>4. Rest = Unfiled(filed) + l /\ Rest' = Unfiled(filed) + (l - 1)
      BY <1>1, <3>1, <3>3 DEF Rest, Pending, Unfiled
    <3>5. kq' = kq \o x
      BY <3>1
    <3> HIDE DEF l, i
    <3>6. i + Rest' <= Rest + 6 * (posted' - posted)
      <4> DEFINE u == Unfiled(filed)
      <4>1. posted' - posted = 0 /\ u \in {0, 2}
        BY <1>1, <3>1
      <4> HIDE DEF u
      <4>2. i + (u + (l - 1)) <= (u + l) + 6 * 0
        BY <3>2, <3>3, <4>1
      <4> QED
        BY <3>4, <4>1, <4>2 DEF u
    <3> HIDE DEF x
    <3> QED
      BY <1>0, <3>1, <3>2, <3>5, <3>6, BudgetKept DEF i
  <2> QED
    BY <2>1, <2>2
<1>7. ASSUME ReadEvent PROVE Budget'
  BY <1>7, BudgetReads DEF ReadEvent
<1>8. ASSUME OutputEvent PROVE Budget'
  <2>1. /\ pc = "output" /\ pc' # "output" /\ UNCHANGED <<seen, list, filed, posted>>
        /\ kq' \in {kq, kq \o << >>, kq \o OpenByHandle}
    BY <1>8 DEF OutputEvent, output_event, UseName, eventvars, startvars
  <2>2. CASE kq' = kq
    BY <1>2, <2>1, <2>2
  <2>3. CASE kq' = kq \o << >>
    <3>1. kq \in Seq(Events)
      BY <1>0, Lines
    <3>2. kq \o << >> = kq
      BY <3>1, ConcatEmptySeq
    <3> QED
      BY <1>2, <2>1, <2>3, <3>2
  <2>4. CASE kq' = kq \o OpenByHandle
    <3> DEFINE x == OpenByHandle
               l == Len(list)
               i == Len(x)
    <3>1. x \in Seq(Events) /\ i \in 0..2 /\ \A k \in 1..Len(x) : x[k].who # User
      BY <1>0, OwnType, OwnQueued
    <3>2. Rest = 2 + Unfiled(filed) + l /\ Rest' = Unfiled(filed) + l /\ l \in Nat
      BY <1>1, <2>1 DEF Rest, Pending, Unfiled
    <3>3. kq' = kq \o x
      BY <2>4
    <3> HIDE DEF l, i
    <3>4. i + Rest' <= Rest + 6 * (posted' - posted)
      <4> DEFINE u == Unfiled(filed)
      <4>1. posted' - posted = 0 /\ u \in {0, 2}
        BY <1>1, <2>1
      <4> HIDE DEF u
      <4>2. i + (u + l) <= (2 + u + l) + 6 * 0
        BY <3>1, <3>2, <4>1
      <4> QED
        BY <3>2, <4>1, <4>2 DEF u
    <3> HIDE DEF x
    <3> QED
      BY <1>0, <2>1, <3>1, <3>3, <3>4, BudgetKept DEF i
  <2> QED
    BY <2>1, <2>2, <2>3, <2>4
<1>9. ASSUME NEW e \in Events, e.who = User, kq' = Append(kq, e),
             UNCHANGED <<pc, seen, list, filed>>, posted' = posted + 1
      PROVE  Budget'
  <2> DEFINE x == <<e>>
  <2>1. x \in Seq(Events) /\ Len(x) = 1 /\ x[1] = e
    BY <1>9, Typing
  <2>2. kq' = kq \o x
    BY <1>0, <1>9, Lines, AppendIsConcat
  <2>3. Rest' = Rest
    BY <1>9 DEF Rest, Pending, Unfiled
  <2> HIDE DEF x
  <2>4. \A k \in 1..Len(x) : x[k].who = User
    BY <1>9, <2>1
  <2>5. Len(x) <= posted' - posted
    BY <1>1, <1>9, <2>1
  <2> QED
    BY <1>0, <1>9, <2>1, <2>2, <2>3, <2>4, <2>5, BudgetKept
<1>10. ASSUME NEW e \in UserEvents, UserEvent(e) PROVE Budget'
  <2>1. e.who = User /\ e \in Events
    BY <1>0, QueueType, UserEventsAssumption
  <2> QED
    BY <1>9, <1>10, <2>1 DEF UserEvent, startvars, eventvars
<1>11. ASSUME NEW p \in Paths, Delete(p) PROVE Budget'
  <2> DEFINE e == [kind |-> "ignored", name |-> Here, isdir |-> FALSE, who |-> User]
  <2>1. UNCHANGED <<pc, seen, list, filed>> /\ posted' = posted + 1
    BY <1>11 DEF Delete, startvars, eventvars
  <2>2. CASE kq' = kq
    <3>1. Rest' = Rest
      BY <2>1 DEF Rest, Pending, Unfiled
    <3>2. Rest' <= Rest + 6 * (posted' - posted)
      BY <1>1, <2>1, <3>1
    <3> QED
      BY <1>0, <2>1, <2>2, <3>2, BudgetSame
  <2>3. CASE kq' = Append(kq, e)
    <3>1. e \in Events /\ e.who = User
      BY DEF Events, Names, Unasked
    <3> HIDE DEF e
    <3> QED
      BY <1>9, <2>1, <2>3, <3>1
  <2> QED
    BY <1>11, <2>2, <2>3 DEF Delete
<1>12. ASSUME UNCHANGED vars PROVE Budget'
  BY <1>2, <1>12 DEF vars, startvars
<1> QED
  BY <1>3, <1>4, <1>5, <1>6, <1>7, <1>8, <1>10, <1>11, <1>12 DEF Next, Tool

\* The tool does not feed itself: each file to watch and each event of others
\* costs a bounded number of events of its own ("Skip events from self due to
\* open_by_handle_at()").  The hypothesis excludes daemons that report their
\* own events.
THEOREM DoesNotFeedItself ==
  ASSUME DaemonsDeaf
  PROVE  Spec => []NoFeedback
<1>1. Init => Budget
  <2> SUFFICES ASSUME Init PROVE Budget
    OBVIOUS
  <2>1. /\ cmd \in Commands /\ pc = "parse" /\ list = << >> /\ filed = {} /\ posted = 0
        /\ kq = << >> /\ seen = << >>
    BY DEF Init
  <2> DEFINE a == Len(cmd.lines)
             b == Len(cmd.args)
  <2>2. a \in Nat /\ b \in Nat
    BY <2>1, ListType
  <2>3. Rest = 2 /\ Allowed = a + b + 2
    BY <2>1, Typing DEF Rest, Allowed, Pending, Unfiled
  <2>4. Spent(seen \o kq) = 0 /\ Due(seen \o kq, Len(seen)) = 0
    BY <2>1, NothingSpent
  <2> HIDE DEF a, b
  <2>5. 0 + 6 * 0 + 2 <= (a + b + 2) + 6 * posted
    BY <2>1, <2>2
  <2> QED
    BY <2>3, <2>4, <2>5 DEF Budget
<1>2. ASSUME Basic PROVE pc \notin {"parse", "done"} => Deaf
  BY <1>2, DaemonsDeafIs
<1>3. (Basic /\ Queue /\ Budget) /\ Basic' /\ [Next]_vars => Budget'
  BY <1>2, BudgetStep
<1>4. Basic /\ Budget => NoFeedback
  <2> SUFFICES ASSUME TypeOK, Budget PROVE NoFeedback
    BY DEF Basic
  <2> DEFINE h == seen \o kq
             s == Spent(h)
             d == Due(h, Len(seen))
  <2>1. /\ h \in Seq(Events) /\ s \in Nat /\ d \in Nat /\ Rest \in Nat /\ Allowed \in Nat
        /\ posted \in Nat
    BY BudgetType
  <2>2. s + 6 * d + Rest <= Allowed + 6 * posted
    BY DEF Budget
  <2>3. OwnEvents = Marked(h, NotUser, 0)
    <3> HIDE DEF h
    <3>1. \A k \in 1..Len(h) : h[k] \in Events
      BY <2>1, ElementOfSeq
    <3>2. DOMAIN h = 1..Len(h) /\ Len(h) \in Nat
      BY <2>1, LenProperties
    <3>3. {k \in DOMAIN h : h[k].who # User} = Marked(h, NotUser, 0)
      BY <3>1, <3>2 DEF Marked, NotUser
    <3> QED
      BY <3>3 DEF OwnEvents, h
  <2>4. Cardinality(OwnEvents) = s
    BY <2>3 DEF Spent
  <2> HIDE DEF s, d, h
  <2>5. s <= Allowed + 6 * posted
    BY <2>1, <2>2
  <2> QED
    BY <2>4, <2>5 DEF NoFeedback, Allowed
<1> QED
  BY <1>1, <1>3, <1>4, QueueInvariance, PTL DEF Spec

=============================================================================
