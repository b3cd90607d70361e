------------------------------ MODULE WaitTool ------------------------------
(***************************************************************************)
(* inotifywait as a process (inotifywait.rs, common.rs): the command line, *)
(* the list of files, daemon mode and redirected output, the set-up of the *)
(* watches, the loop over events with its filter, buffered output and      *)
(* timeout, and the exit status.  Others make events while it runs, may    *)
(* interrupt or kill it, and with fanotify the tool causes events itself.  *)
(*                                                                         *)
(* What an event does to recursive watches is the subject of               *)
(* RecursiveWatch; the contents of the event buffer that of EventBuffer.   *)
(***************************************************************************)
EXTENDS Integers, Sequences, FiniteSets, SequencesExt

CONSTANTS
  Commands,      \* command lines
  Paths,         \* paths to watch, each of a directory
  AbsolutePaths, \* those of Paths that name it from any directory
  Missing,       \* those of Paths that lead nowhere
  UserEvents,    \* what others do: events by kind, entry and type
  MaxEvents,     \* bound on the number of events others make
  StdioCap       \* output lines that fit the buffer of the C library

NoPath == ""
ASSUME PathsAssumption ==
  /\ AbsolutePaths \subseteq Paths /\ Missing \subseteq Paths /\ NoPath \notin Paths
ASSUME BoundsAssumption == MaxEvents \in Nat /\ StdioCap \in Nat \ {0}

\* The bits of an event mask; the kernel sends "ignored" and "overflow"
\* unasked.  IN_ISDIR is a field of the event.
Unasked == {"ignored", "overflow"}
IN_ALL_EVENTS == {"create", "modify", "moved_to", "moved_from", "open", "close_nowrite"}

Here == "."      \* the name of an event on the watched directory itself
User == 0        \* the pid of everybody else
ToolPid == 1
DaemonPid == 2   \* the pid after daemon()

Names == {e.name : e \in UserEvents} \cup {Here}
ASSUME UserEventsAssumption ==
  UserEvents \subseteq [kind : IN_ALL_EVENTS \cup {"overflow"}, name : Names, isdir : BOOLEAN,
                       who : {User}]

\* A word names a path to watch or nothing; an option has what it takes.
ASSUME CommandsAssumption ==
  \A c \in Commands :
    /\ {c.args, c.lines} \subseteq Seq([at : BOOLEAN, name : Paths \cup {NoPath}])
    /\ Len(c.argv) \in Nat /\ DOMAIN c.argv = 1..Len(c.argv)
    /\ \A k \in DOMAIN c.argv :
         /\ c.argv[k].opt \in {"a", "b", "j", "k"} => c.argv[k].regex.given = TRUE
         /\ c.argv[k].opt = "e" => DOMAIN c.argv[k].names \subseteq Nat

VARIABLES
  cmd,           \* the command line the tool was given
  pc,            \* the stage of real_main
  o,             \* Opts
  list,          \* FileList::watch_files still to be watched
  pid, self_pid, \* the process, and the process the library takes itself for
  cwd,           \* where relative paths start: "start" or "/"
  watched,       \* kernel: the paths with a watch
  dropped,       \* kernel: the paths whose watch it removed
  kq,            \* kernel: the queue of events
  posted,        \* events made by others so far
  filed,         \* names whose fid the library has filed
  cur,           \* the event in hand
  stdio, out,    \* lines in the buffer of stdout, and in what it leads to
  seen,          \* history: the events taken from the queue
  status, caller \* exit status of the tool, and what its caller got

startvars == <<cmd, o, list, pid, self_pid, cwd>>
vars == <<startvars, pc, watched, dropped, kq, posted, filed, cur, stdio, out, seen,
          status, caller>>

NoEvent == [kind |-> "none", name |-> Here, isdir |-> FALSE, who |-> User]
FidNote == [NoEvent EXCEPT !.kind = "note"]    \* a "[fid=..." line in the output
Running == -1

(***************************************************************************)
(* The command line.  An option is a record with its letter and what it    *)
(* takes.  Of a format matters whether it has a %T, and whether it makes   *)
(* anything of an event without path and name ("%w%f" does not).           *)
(***************************************************************************)
NoRegex == [valid |-> TRUE, names |-> {}, given |-> FALSE]
NoFormat == [given |-> FALSE, empty |-> TRUE, time |-> FALSE]

\* Opts::default, with fanotify for the tools named fsnotify*
DefaultOpts(fsnotify) ==
  [ok |-> TRUE, monitor |-> FALSE, quiet |-> 0, recursive |-> FALSE,
   fanotify |-> fsnotify, filesystem |-> FALSE, csv |-> FALSE, daemon |-> FALSE,
   no_newline |-> FALSE, timefmt |-> FALSE, format |-> NoFormat,
   exc |-> NoRegex, exci |-> NoRegex, inc |-> NoRegex, inci |-> NoRegex,
   fromfile |-> FALSE, outfile |-> FALSE, timeout |-> 0, events |-> {}]

EventBits(name) ==
  CASE name = "all_events" -> IN_ALL_EVENTS
    [] name = "move" -> {"moved_from", "moved_to"}
    [] name = "close" -> {"close_nowrite"}
    [] OTHER -> {name} \cap (IN_ALL_EVENTS \cup Unasked)

\* str_to_event: the first element that is empty makes the mask 0, the
\* first that is not an event makes it -1 (EventsValid is FALSE).
Stops(names) == {k \in DOMAIN names : EventBits(names[k]) = {}}
FirstStop(names) == CHOOSE k \in Stops(names) : \A j \in Stops(names) : k <= j
EventsValid(names) == Stops(names) = {} \/ names[FirstStop(names)] = ""
str_to_event(names) ==
  IF Stops(names) = {} THEN UNION {EventBits(names[k]) : k \in DOMAIN names} ELSE {}

\* strtol must take the whole of a non-empty argument, within range.
is_timeout_option_valid(t) == t.len > 0 /\ ~t.range /\ t.consumed = t.len

Fail(opts) == [opts EXCEPT !.ok = FALSE]

\* One turn of the loop of parse_opts
ParseOption(opts, t) ==
  CASE t.opt = "m" -> [opts EXCEPT !.monitor = TRUE]
    [] t.opt = "q" -> [opts EXCEPT !.quiet = @ + 1]
    [] t.opt = "r" -> [opts EXCEPT !.recursive = TRUE]
    [] t.opt = "I" -> [opts EXCEPT !.fanotify = FALSE]
    [] t.opt = "F" -> [opts EXCEPT !.fanotify = TRUE]
    [] t.opt = "S" -> [opts EXCEPT !.filesystem = TRUE, !.fanotify = TRUE]
    [] t.opt = "c" -> [opts EXCEPT !.csv = TRUE]
    [] t.opt = "d" -> [opts EXCEPT !.daemon = TRUE, !.monitor = TRUE]
    [] t.opt = "n" -> [opts EXCEPT !.format = [given |-> TRUE, empty |-> t.empty,
                                               time |-> t.time]]
    [] t.opt \in {"s", "P"} -> opts    \* where errors go, symbolic links: abstracted
    [] t.opt = "0" -> [opts EXCEPT !.no_newline = TRUE]
    [] t.opt = "i" -> [opts EXCEPT !.timefmt = TRUE]
    [] t.opt = "a" -> [opts EXCEPT !.exc = t.regex]
    [] t.opt = "b" -> [opts EXCEPT !.exci = t.regex]
    [] t.opt = "j" -> [opts EXCEPT !.inc = t.regex]
    [] t.opt = "k" -> [opts EXCEPT !.inci = t.regex]
    [] t.opt = "z" -> IF opts.fromfile THEN Fail(opts) ELSE [opts EXCEPT !.fromfile = TRUE]
    [] t.opt = "o" -> IF opts.outfile THEN Fail(opts) ELSE [opts EXCEPT !.outfile = TRUE]
    [] t.opt = "t" -> IF is_timeout_option_valid(t) THEN [opts EXCEPT !.timeout = t.value]
                                                   ELSE Fail(opts)
    [] t.opt = "e" -> IF EventsValid(t.names)
                        THEN [opts EXCEPT !.events = @ \cup str_to_event(t.names)]
                        ELSE Fail(opts)
    [] OTHER -> Fail(opts)      \* -h, --filename, an unknown option

has_include(opts) == opts.inc.given \/ opts.inci.given
has_exclude(opts) == opts.exc.given \/ opts.exci.given

\* Filters::validate and the other conflicts between options
NoConflict(opts) ==
  /\ ~(opts.exc.given /\ opts.exci.given) /\ ~(opts.inc.given /\ opts.inci.given)
  /\ ~(has_include(opts) /\ has_exclude(opts))
  /\ ~(opts.format.given /\ opts.csv)
  /\ opts.no_newline \/ opts.timefmt => opts.format.given
  /\ opts.format.time => opts.timefmt
  /\ opts.daemon => opts.outfile

Parsed(c) ==
  LET after[k \in 0..Len(c.argv)] ==
        IF k = 0 THEN DefaultOpts(c.fsnotify)
        ELSE IF after[k - 1].ok THEN ParseOption(after[k - 1], c.argv[k]) ELSE after[k - 1]
      opts == after[Len(c.argv)]
  IN  IF NoConflict(opts) THEN opts ELSE Fail(opts)

(***************************************************************************)
(* The list of files, from the lines of --fromfile and the arguments.  A   *)
(* word is a name with or without '@' in front, a line may lack its        *)
(* newline at the end of the file.                                         *)
(***************************************************************************)
\* FileList::add: an empty argument and a lone '@' are passed over.
AddArg(w) == IF w.at \/ w.name = NoPath THEN << >> ELSE <<w.name>>

\* An empty line is kept as an empty name.
AddLine(w) == IF w.at THEN << >> ELSE <<w.name>>

construct_path_list(c) ==
  (IF o.fromfile THEN FlattenSeq([k \in DOMAIN c.lines |-> AddLine(c.lines[k])]) ELSE << >>)
    \o FlattenSeq([k \in DOMAIN c.args |-> AddArg(c.args[k])])

Init ==
  /\ cmd \in Commands /\ pc = "parse" /\ o = DefaultOpts(FALSE) /\ list = << >>
  /\ pid = ToolPid /\ self_pid = 0 /\ cwd = "start"
  /\ watched = {} /\ dropped = {} /\ kq = << >> /\ posted = 0 /\ filed = {}
  /\ cur = NoEvent /\ stdio = << >> /\ out = << >> /\ seen = << >>
  /\ status = Running /\ caller = Running

(***************************************************************************)
(* From the command line to the watches.                                   *)
(***************************************************************************)
kvars == <<watched, dropped, kq, posted>>
eventvars == <<filed, cur, seen>>

Forked == pid = DaemonPid

\* Faulty: the daemon's status is taken for the caller's.
BugExitToCaller(s) ==
  /\ pc' = "done" /\ status' = s /\ caller' = s
  /\ out' = out \o stdio /\ stdio' = << >>

\* process::exit flushes the streams; the caller of a daemon has got the 0
\* of the parent long ago.
Exit(s) ==
  /\ pc' = "done" /\ status' = s
  /\ caller' = IF Forked THEN caller ELSE s
  /\ out' = out \o stdio /\ stdio' = << >>

Goto(stage) == pc' = stage /\ UNCHANGED <<stdio, out, status, caller>>

parse_opts ==
  /\ pc = "parse"
  /\ o' = Parsed(cmd)
  /\ IF o'.ok THEN Goto("init") ELSE Exit(1)
  /\ UNCHANGED <<cmd, list, pid, self_pid, cwd, kvars, eventvars>>

Regexes == {o.exc, o.exci, o.inc, o.inci}
CompileRegexes == \A re \in Regexes : re.valid

\* The format is tried on an event without path and name: snprintf returns
\* one less than it has written, and -1 is an error.
validate_format == ~(o.format.given /\ o.format.empty /\ o.no_newline)

\* init may fail for want of instances.
InitLibrary ==
  /\ pc = "init"
  /\ self_pid' = IF o.fanotify THEN pid ELSE 0
  /\ \/ CompileRegexes /\ validate_format /\ Goto("paths")
     \/ Exit(1)
  /\ UNCHANGED <<cmd, o, list, pid, cwd, kvars, eventvars>>

BuildList ==
  /\ pc = "paths"
  /\ IF o.fromfile /\ ~cmd.fromfile_opens
       THEN Exit(1) /\ UNCHANGED list
       ELSE /\ list' = construct_path_list(cmd)
            /\ IF list' = << >> THEN Exit(1) ELSE Goto("redirect")
  /\ UNCHANGED <<cmd, o, pid, self_pid, cwd, kvars, eventvars>>

\* realpath needs the output file to exist; daemon() forks, the parent exits
\* with 0, and the child goes to "/"; then the file is opened.
Daemonize ==
  /\ pc = "redirect" /\ o.daemon
  /\ \/ Exit(1) /\ UNCHANGED <<pid, cwd>>
     \/ /\ cmd.outfile_exists
        /\ pid' = DaemonPid /\ cwd' = "/" /\ caller' = 0
        /\ \/ pc' = "watch" /\ UNCHANGED status
           \/ pc' = "done" /\ status' = 1
        /\ UNCHANGED <<stdio, out>>
  /\ UNCHANGED <<cmd, o, list, self_pid, kvars, eventvars>>

RedirectOutput ==
  /\ pc = "redirect" /\ ~o.daemon
  /\ \/ Goto("watch")
     \/ o.outfile /\ Exit(1)
  /\ UNCHANGED <<startvars, kvars, eventvars>>

(***************************************************************************)
(* The kernel (external), and what the library makes it report about the   *)
(* tool itself.                                                            *)
(***************************************************************************)
orig_events == IF o.events = {} THEN IN_ALL_EVENTS ELSE o.events
events ==
  orig_events \cup (IF o.monitor /\ o.recursive THEN {"create", "moved_to", "moved_from"}
                                              ELSE {})

Exists(path) ==
  path \in Paths \ Missing /\ (path \in AbsolutePaths \/ cwd = "start")

\* The tool opens (and closes) a directory it has marked with fanotify.
Own(kind) ==
  IF o.fanotify /\ kind \in events
    THEN <<[kind |-> kind, name |-> Here, isdir |-> TRUE, who |-> pid]>> ELSE << >>
OpenByHandle == Own("open") \o Own("close_nowrite")

\* Faulty: a file that cannot be watched is passed over.
BugWatchNextGoesOn ==
  /\ pc = "watch" /\ list # << >>
  /\ watched' = watched \cup (IF Exists(Head(list)) THEN {Head(list)} ELSE {})
  /\ kq' = kq /\ list' = Tail(list)
  /\ Goto("watch")
  /\ UNCHANGED <<cmd, o, pid, self_pid, cwd, dropped, posted, eventvars>>

\* One file of watch_list (or, with --filesystem, of watch_files): the first
\* that cannot be watched ends the tool.  fanotify_encode_fid opens the
\* directory it has just marked.
WatchNext ==
  /\ pc = "watch" /\ list # << >>
  /\ \/ /\ Exists(Head(list))
        /\ watched' = watched \cup {Head(list)}
        /\ kq' = kq \o Own("open")
        /\ list' = Tail(list)
        /\ Goto("watch")
     \/ Exit(1) /\ UNCHANGED <<watched, kq, list>>
  /\ UNCHANGED <<cmd, o, pid, self_pid, cwd, dropped, posted, eventvars>>

\* A negative timeout ends the tool once the watches are set up.
Established ==
  /\ pc = "watch" /\ list = << >>
  /\ IF o.timeout < 0 THEN Exit(1) ELSE Goto("wait")
  /\ UNCHANGED <<startvars, kvars, eventvars>>

\* Others do something that the kernel reports.
UserEvent(e) ==
  /\ pc # "done" /\ posted < MaxEvents
  /\ e.kind \in events \cup Unasked /\ watched # {}
  /\ kq' = Append(kq, e) /\ posted' = posted + 1
  /\ UNCHANGED <<startvars, pc, watched, dropped, eventvars, stdio, out, status, caller>>

\* A watched directory is deleted or unmounted: inotify says so.
Delete(p) ==
  /\ pc # "done" /\ posted < MaxEvents /\ p \in watched
  /\ watched' = watched \ {p} /\ dropped' = dropped \cup {p}
  /\ kq' = IF o.fanotify THEN kq
             ELSE Append(kq, [kind |-> "ignored", name |-> Here, isdir |-> FALSE, who |-> User])
  /\ posted' = posted + 1
  /\ UNCHANGED <<startvars, pc, eventvars, stdio, out, status, caller>>

(***************************************************************************)
(* The loop: next_event with its filter, the output, MoveTracker.          *)
(***************************************************************************)
Matches(e) == \E re \in Regexes : re.given /\ e.name \in re.names
NewDirectory(e) == e.isdir /\ e.kind \in {"create", "moved_to"}

\* The test of next_events: directories that appear pass with --recursive.
Tested(e) == (has_include(o) \/ has_exclude(o)) /\ ~(o.recursive /\ NewDirectory(e))
Drops(e) == Tested(e) /\ Matches(e) # has_include(o)

\* Faulty: the events of the tool itself are not told from the others.
BugOwnEvent(e) == FALSE

\* "Skip events from self due to open_by_handle_at()"
OwnEvent(e) == self_pid # 0 /\ self_pid = e.who

\* A fid the library has not filed yet is looked up, and filed if a path is
\* found: by open_by_handle_at, or (without --filesystem) by way of a
\* directory it has open.  The path of an entry may still not be accessible.
LookedUp(e) == o.fanotify /\ e.name \notin filed
LookUp(e, f, made) ==
  IF LookedUp(e)
    THEN /\ f # filed /\ made = << >> => ~o.filesystem
         /\ f = filed /\ made # << >> => e.name # Here
    ELSE f = filed /\ made = << >>

\* With --filesystem the path of a filed fid is looked up whenever it is
\* used, if the directory is still there.
UseName(e, f) ==
  IF o.filesystem /\ e.name \in f THEN {<< >>, OpenByHandle} ELSE {<< >>}

\* A line goes to a terminal at once, elsewhere when the buffer is full.
LineBuffered == cmd.tty /\ ~o.outfile /\ ~o.no_newline
PutLine(e) ==
  LET lines == Append(stdio, e)
      flush == LineBuffered \/ Len(lines) >= StdioCap
  IN  /\ out' = IF flush THEN out \o lines ELSE out
      /\ stdio' = IF flush THEN << >> ELSE lines

\* next_event finds the tool's own event, or one the filter drops, and goes
\* on; any other it returns.  Without --quiet a fid that is looked up is
\* noted on standard output.
Take(e) ==
  /\ \E f \in {filed, filed \cup {e.name}}, made \in {<< >>, OpenByHandle} :
       /\ LookUp(e, f, made)
       /\ filed' = f
       /\ \E opens \in IF ~OwnEvent(e) /\ Tested(e) THEN UseName(e, f) ELSE {<< >>} :
            kq' = Tail(kq) \o made \o opens
  /\ IF LookedUp(e) /\ o.quiet = 0 THEN PutLine(FidNote) ELSE UNCHANGED <<stdio, out>>
  /\ IF OwnEvent(e) \/ Drops(e)
       THEN UNCHANGED <<pc, cur>>
       ELSE pc' = "output" /\ cur' = e
  /\ UNCHANGED <<status, caller>>

\* An event arrives.  One without a fid (an overflow with fanotify) makes
\* next_event return nothing, without an error.
ReadEvent ==
  /\ pc = "wait" /\ kq # << >>
  /\ seen' = Append(seen, Head(kq))
  /\ IF o.fanotify /\ Head(kq).kind = "overflow"
       THEN Exit(2) /\ kq' = Tail(kq) /\ UNCHANGED <<filed, cur>>
       ELSE Take(Head(kq))
  /\ UNCHANGED <<startvars, watched, dropped, posted>>

\* Faulty: with --monitor the timeout is not an end.
BugTimeoutMonitor ==
  /\ pc = "wait" /\ kq = << >> /\ o.timeout > 0 /\ ~o.monitor
  /\ Exit(2)
  /\ UNCHANGED <<startvars, kvars, eventvars>>

\* ppoll times out, and the tool ends.
Timeout ==
  /\ pc = "wait" /\ kq = << >> /\ o.timeout > 0
  /\ Exit(2)
  /\ UNCHANGED <<startvars, kvars, eventvars>>

\* ppoll, ioctl or read fails (EINTR after a stop, for one).
PollFails ==
  /\ pc = "wait"
  /\ Exit(1)
  /\ UNCHANGED <<startvars, kvars, eventvars>>

Shown(e) == o.quiet < 2 /\ e.kind \in orig_events /\ (has_include(o) => ~e.isdir)

output_event(e) ==
  PutLine(e) /\ \E opens \in UseName(e, filed) : kq' = kq \o opens

\* With --filesystem the rest of the loop is skipped.
OutputEvent ==
  /\ pc = "output"
  /\ IF Shown(cur)
       THEN output_event(cur)
       ELSE UNCHANGED <<stdio, out, kq>>
  /\ pc' = IF ~o.filesystem THEN "handle" ELSE IF o.monitor THEN "wait" ELSE "finish"
  /\ UNCHANGED <<startvars, watched, dropped, posted, eventvars, status, caller>>

\* Faulty: the output is left in the buffer.
BugHandleNoFlush ==
  /\ pc = "handle"
  /\ UNCHANGED <<stdio, out>>
  /\ pc' = IF o.monitor THEN "wait" ELSE "finish"
  /\ UNCHANGED <<startvars, kvars, eventvars, status, caller>>

\* MoveTracker (see RecursiveWatch) and flush_all
HandleEvent ==
  /\ pc = "handle"
  /\ out' = out \o stdio /\ stdio' = << >>
  /\ pc' = IF o.monitor THEN "wait" ELSE "finish"
  /\ UNCHANGED <<startvars, kvars, eventvars, status, caller>>

\* Faulty: any event is a success.
BugFinishAlways ==
  /\ pc = "finish"
  /\ Exit(0)
  /\ UNCHANGED <<startvars, kvars, eventvars>>

\* The exit status of one-shot mode: with fanotify IN_ISDIR is listened for.
Finish ==
  /\ pc = "finish"
  /\ Exit(IF cur.kind \in events \/ (o.fanotify /\ cur.isdir) THEN 0 ELSE 1)
  /\ UNCHANGED <<startvars, kvars, eventvars>>

\* A signal ends the tool (external): what is in the buffer is lost.
Kill ==
  /\ cmd.killed /\ pc \in {"wait", "output", "handle"}
  /\ pc' = "done" /\ status' = 128 /\ stdio' = << >>
  /\ caller' = IF Forked THEN caller ELSE 128
  /\ UNCHANGED <<startvars, kvars, eventvars, out>>

Tool ==
  \/ parse_opts
  \/ InitLibrary
  \/ BuildList
  \/ Daemonize
  \/ RedirectOutput
  \/ WatchNext
  \/ Established
  \/ ReadEvent
  \/ Timeout
  \/ OutputEvent
  \/ HandleEvent
  \/ Finish

Next ==
  \/ Tool
  \/ PollFails
  \/ Kill
  \/ \E e \in UserEvents : UserEvent(e)
  \/ \E p \in Paths : Delete(p)

Spec == Init /\ [][Next]_vars

\* The tool runs, and time passes while it waits.
FairSpec == Spec /\ WF_vars(Tool)

(***************************************************************************)
(* Properties.  What was asked for is read off the command line, not off   *)
(* the tool's own variables.                                               *)
(***************************************************************************)
Options(c) == {c.argv[k] : k \in DOMAIN c.argv}
Has(letter) == \E t \in Options(cmd) : t.opt = letter

\* An empty element makes an --event option count for nothing ("Returns 0 if
\* `event` is empty or contains an empty element", str_to_event_sep).
ChosenBy(t) == IF "" \in {t.names[k] : k \in DOMAIN t.names} THEN {}
               ELSE UNION {EventBits(t.names[k]) : k \in DOMAIN t.names}
Chosen == UNION {ChosenBy(t) : t \in {x \in Options(cmd) : x.opt = "e"}}
Asked(e) == e.kind \in (IF Chosen = {} THEN IN_ALL_EVENTS ELSE Chosen)

\* "Only the last --exclude option will be taken into consideration"
\* (print_help), and the last --include.
LastOf(letter) ==
  cmd.argv[CHOOSE k \in DOMAIN cmd.argv :
             /\ cmd.argv[k].opt = letter
             /\ \A j \in DOMAIN cmd.argv : cmd.argv[j].opt = letter => j <= k]
MatchesOption(e, letters) ==
  \E letter \in letters : Has(letter) /\ e.name \in LastOf(letter).regex.names

\* An event of others that was listened for, of a file that is not to be
\* left out: "Do not process any events for the subset of files whose
\* filenames match" (inotifywait.1, on --exclude).
Relevant(e) ==
  /\ e.who = User /\ Asked(e) /\ ~MatchesOption(e, {"a", "b"})
  /\ Has("j") \/ Has("k") => MatchesOption(e, {"j", "k"})

\* Excepted by name: with --recursive the tool processes the events of new
\* directories whatever their names, "Skip regex filtering for directories
\* in recursive mode" (inotify.rs).  For --exclude the manual does not say so:
\* an excluded directory that appears is reported, and ends the wait.
LetPast(e) == e.who = User /\ Asked(e) /\ Has("r") /\ NewDirectory(e)

\* What the tool processes.
Processed(e) == Relevant(e) \/ LetPast(e)

\* What it is to report: "Directory events are not shown"
\* (inotifywait-recursive-include.t) with --include.
Wanted(e) ==
  /\ Processed(e) /\ o.quiet < 2
  /\ Has("j") \/ Has("k") => ~e.isdir

\* Each variable has the shape of what it models, and the exit status is
\* there exactly when the tool has ended.  The caller of a daemon got 0.
Events == [kind : IN_ALL_EVENTS \cup Unasked \cup {"none", "note"}, name : Names, isdir : BOOLEAN,
           who : {User, ToolPid, DaemonPid}]
TypeOK ==
  /\ cmd \in Commands
  /\ pc \in {"parse", "init", "paths", "redirect", "watch", "wait", "output", "handle",
             "finish", "done"}
  /\ list \in Seq(Paths \cup {NoPath})
  /\ pid \in {ToolPid, DaemonPid} /\ self_pid \in {0, ToolPid} /\ cwd \in {"start", "/"}
  /\ watched \subseteq Paths /\ dropped \subseteq Paths /\ posted \in 0..MaxEvents
  /\ {kq, stdio, out, seen} \subseteq Seq(Events) /\ cur \in Events
  /\ Len(stdio) < StdioCap
  /\ status \in {Running, 0, 1, 2, 128} /\ (status = Running <=> pc # "done")
  /\ caller \in {Running, 0, 1, 2, 128} /\ (pid = DaemonPid => caller = 0)

\* Before the tool waits for more, every event it was to report has left it,
\* once and in order, and nothing else has: "Output events to <file>"
\* (inotifywait.1, on --outfile).  The loop of --monitor --filesystem does
\* not flush and is left out.
Reported(lines) ==
  FlattenSeq([k \in DOMAIN lines |-> IF lines[k] = FidNote THEN << >> ELSE <<lines[k]>>])
WantedOf(s) == FlattenSeq([k \in DOMAIN s |-> IF Wanted(s[k]) THEN <<s[k]>> ELSE << >>])
NothingWithheld ==
  pc = "wait" /\ ~(o.filesystem /\ o.monitor) => Reported(out) = WantedOf(seen)

\* The table of "EXIT STATUS" in inotifywait.1: 0 when an event that was
\* listened for has occurred, 2 when -t was used and none has.  (With
\* fanotify an overflow ends the tool with 2 as well.  LetPast is excepted.)
ExitStatusTruthful ==
  LET last == seen[Len(seen)]
  IN  /\ status = 0 => ~o.monitor /\ seen # << >> /\ Processed(last)
                        /\ (Wanted(last) => Reported(out) = <<last>>)
      /\ status = 2 => \/ o.timeout > 0 /\ (~o.monitor => \A k \in DOMAIN seen : ~Processed(seen[k]))
                       \/ o.fanotify /\ seen # << >> /\ last.kind = "overflow"

\* A tool that waits for events watches all files it was told to (or did,
\* until they were deleted): those without '@' among the lines of --fromfile
\* and the arguments.
Words == {cmd.args[k] : k \in DOMAIN cmd.args}
           \cup {cmd.lines[k] : k \in IF Has("z") THEN DOMAIN cmd.lines ELSE {}}
ListedAreWatched ==
  pc \in {"wait", "output", "handle"} =>
    {w.name : w \in {x \in Words : ~x.at}} \ {NoPath} \subseteq watched \cup dropped

\* A tool that is due to end does: one with a timeout when nothing happens
\* any more, one without --monitor when an event it listens for is queued.
EndsWhenDue ==
  (/\ pc = "wait"
   /\ \/ o.timeout > 0
      \/ ~o.monitor /\ \E k \in DOMAIN kq : Relevant(kq[k]))
    ~> (pc = "done")

\* The tool does not feed itself: "Skip events from self due to
\* open_by_handle_at()".  Each file to watch and each event of others costs a
\* bounded number of events of its own, and an event of its own costs none
\* (but for the first, whose fid is looked up).
OwnEvents == {k \in DOMAIN (seen \o kq) : (seen \o kq)[k].who # User}
NoFeedback ==
  Cardinality(OwnEvents) <= Len(cmd.lines) + Len(cmd.args) + 2 + 6 * posted
=============================================================================
