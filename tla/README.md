# A TLA+ model of inotify-tools

inotify-tools is a library, `libinotifytools`, over Linux' inotify and fanotify,
and two programs that use it: `inotifywait` waits for or follows events on files,
`inotifywatch` counts them. The modules here model the parts of the program that
keep state across calls, events and signals; TLC checks them on small instances, and
TLAPS proves most of their safety properties for all instances: of the watch registry,
the event buffer, inotifywatch, inotifywait and recursive watching.

`PROJECT.json` lists the components, the runs, the correspondence of definitions
with source lines, the hazards of the code and the findings. Source paths below
are relative to the repository; `inotify.rs` is `libinotifytools/src/inotify.rs`.

## 1. The system

### Components

| Component | State | Operations | Correct when |
|---|---|---|---|
| Watch registry (`inotify.rs`, `fid.rs`) | `watches` by id, the indexes `by_wd`, `by_fid`, `by_filename`, `next_id`, `next_fanotify_wd`, `error` | `init`, `cleanup`, `watch_files`, `remove_watch_by_*`, `set_filename_by_*`, `replace_filename`, `create_watch` on fanotify events | indexes agree with the table; every kernel watch is found by its descriptor and always leads to the same watch; renames lose nothing |
| Event reading (`inotify.rs`) | `evbuf`, `first_byte`, `bytes`, `this_bytes` | `next_event`, `next_events` | a FIFO channel; nothing lost, repeated or reordered; calls return |
| Statistics (`inotify.rs`) | counters of each watch, `totals` | `record_stats`, `initialize_stats`, `watches_sorted_by_event` | rows add up to the totals, in the order asked for |
| inotifywatch (`src/inotifywatch.rs`) | `DONE`, `PRINT_NOW`, `TIMES_CALLED`, signal dispositions, alarm | signal handlers, main loop, table | a signal or the timeout ends it with the table; no statistics lost |
| Recursive watching (`inotify.rs`, `src/common.rs`) | `MoveTracker::moved_from`, the stack of a scan | `watch_recursively`, `MoveTracker::handle` | every directory of the tree is watched under its current name, nothing outside or excluded is |
| inotifywait (`src/inotifywait.rs`) | `Opts`, the stage of `real_main`, the exit status | `parse_opts`, start, loop | every event asked for is reported once and in order before the tool waits; the exit status tells event, timeout and failure apart; it ends when due |
| Event filter (`inotify.rs`, `src/common.rs`) | the regular expression, `invert_regexp`, `recursive_watch` | `Filters::validate`, `install`, the test in `next_events_raw` | drops what it should and nothing the tools need |
| Path list and options (`src/common.rs`) | `FileList` | `construct_path_list`, `is_timeout_option_valid`, `parse_event` | every file named is watched, or the tool ends |
| Output and daemon mode (`src/inotifywait.rs`, `cio.rs`) | the buffer of stdout, process id, working directory | redirection, `daemon`, `flush_all` | nothing withheld while the tool sleeps |
| Filename queries, event names, formats (`inotify.rs`) | (pure) | `filename_from_*`, `event_to_str`, `str_to_event`, `snprintf` | total; modelled as far as control depends on them |
| C interface, getopt, system bindings, kernel limits | one global handle | wrappers | (not modelled) |

### How they interact

The tools own one handle and call it from one thread. The kernel runs beside them:
it queues events, drops watches of deleted files, and answers system calls on a
file system that anybody changes. `next_events` reads the kernel's queue into the
event buffer, drops what the filter excludes, converts fanotify events (which files
new watches in the registry), and calls `record_stats`, which looks the event's
descriptor up in the registry. The tools pass each event to `MoveTracker::handle`,
which calls back into the registry: it scans new directories, renames prefixes
after a move and removes watches of what left the tree. In inotifywatch signal
handlers interrupt all of this and set flags the loop looks at. With fanotify the
library opens files that it watches to find their names, and so causes events itself,
which `next_events` tells from others by the process id that `init` has noted.

### What is hard

* One inode under several names, several watches with one key, stale entries after
  the kernel dropped a watch: the registry's indexes are updated by key.
* Events describe a file system that has moved on by the time they are read.
* A recursive scan takes many system calls, with the tree changing in between.
* Cursors into a buffer of events of different lengths, kept over calls that time
  out, fail or are interrupted, and over reinitialisation.
* Signals between any two instructions of the loop.
* Wrap-around of descriptors and counters; sort codes with reserved values.
* A daemon changes process and directory after the library was initialised, and its
  caller has left before the watches are set up.
* Output that waits in a buffer while the tool sleeps or is killed.
* A filter that drops events the bookkeeping of recursive watches depends on.

The list with source lines is under `hazards` in `PROJECT.json`.

## 2. Modules

| Module | Models |
|---|---|
| `WatchOps` | the registry as a record, with `create_watch`, `destroy_watch`, `rename_watch` as operators on it |
| `WatchTable` | the library's calls on the registry, against the kernel's inotify or fanotify instance |
| `EventChannel` | abstract: the FIFO channel `next_events` promises |
| `EventBuffer` | `next_events_raw`, one step per system call; implements `EventChannel` |
| `StatsTool` | inotifywatch: options, signals, loop, statistics, table |
| `RecursiveWatch` | inotifywait `-m -r`: tree, scan, filter, event loop, `MoveTracker`; uses `WatchOps` |
| `WaitTool` | inotifywait as a process: command line, path list, daemon mode, loop, output, exit status |
| `MC...` | the instances for TLC |
| `WatchTableProofs`, `EventBufferProofs`, `StatsToolProofs`, `WaitToolProofs`, `RecursiveWatchProofs` | theorems about the module named |
| `RecursiveWatchMoves` | theorems about `RecursiveWatch` when directories are renamed or moved out, on top of `RecursiveWatchProofs` |
| `InductionFacts`, `CollectionFacts` | lemmas on induction and recursive functions, and on orders and folds of finite sets and on sequences, which the others cite |

Definitions named `Bug...` are faulty variants of the definition after them. They
are used by no specification: with the variant in place of the original the
property named in `PROJECT.json` fails, which shows that it can.

### WatchTable

Its variables are the fields of `Inotifytools` that belong to the registry, the
result of the last call, and the kernel: `kmarks` (inode to descriptor), `knext`,
`fmarks`. Each public call that changes the registry is an action. The two with a
loop, `watch_files` and `replace_filename`, take one step per turn (`call` holds
what is left), because the kernel may drop watches in between; no other call of the
handle runs meanwhile, since the calls take `&mut self`. `WatchFileInotify` lets
the path lead to any inode and `isdir` answer either way, as the two system calls
look the path up at different moments. `WatchFileFanotify` has all the ways a turn
can end, also the failure after the mount descriptor was filed. A filename is a
sequence of bytes, as the code compares bytes; byte 1 is `/`. Fids are opaque keys
of the kinds FID, DFID, DFID_NAME and the key of a file system.
`init` in the state it is called in twice, and the read-only queries, change
nothing and are left out; so are calls before `init`, against which `niceassert`
only prints a warning. `niceassert` is not modelled. Descriptors stop at `MaxWd`
for inotify, where the real kernel numbers cyclically.

### EventBuffer

Lengths are counted in units of `EVENT_SIZE`, so an event has size 1 (no name) or
more. `evbuf` maps an offset to the event that begins there. Where the code would
decode bytes in the middle of an event, `Decoded` is any outcome. `skip` stands for
both reasons for which the loop goes on (own process, filter). `overflow` marks
the kernel's overflow report. `Fitting` is the kernel's rule that a read returns
whole events. The variables `sent`, `opened_at` and `delivered` are history.
The refinement maps `pending` to the events left in the buffer followed by
the kernel's queue.

### StatsTool

Control points of `real_main` are values of `pc`. A signal's action is `Handle`;
`Install` replaces one disposition at a time. `next_event` is reduced to what
matters to the loop: it sleeps, and returns an event, `EINTR`, or a failure. Three of
the thirteen counted events stand for all: `access`, whose bit is 1, one more, and
`unmount`, which `IN_ALL_EVENTS` lacks. The mask of an event is a set of them, since
fanotify merges the events of an object; the empty one stands for `IN_IGNORED`. That and
`IN_UNMOUNT` come for every watch, asked for or not. `Modulus` stands for 2^32.
`Establish` sums up everything from the options to the watches, any failure of which is
exit status 1. In
`Dispatch`, what `MoveTracker` does to the registry is a choice: remove a watch, add
one, or neither. A command line (`cmd`) holds the sort options in their order, `-z`
and the events of `-e`; `parse_opts` turns the first into the signed code `sort`, or
refuses. `Printed` is the table: which rows and columns are shown, and the order of
the rows, which `watches_sorted_by_event` chooses among the orders of the watches.
`NoStatisticsLost` says which ends of the process are possible once an event was counted:
the end of the loop, which prints the table, and a call of `next_event` that fails, but
no signal. `TableComplete` is about counters that have not wrapped: a sum that is a
multiple of 2^32 hides its row.

### RecursiveWatch

Files are left out, only directories matter to the tool. `loc` gives the parent and
name of every directory. An operation of others (`mkdir`, `rmdir`, `rename`, `moveout`,
`movein`) changes the tree in one step; then the kernel queues what inotify has to tell of
it, one event for each step `Notify`, to the directories watched by that time (`late` has
what is still to be told). Until all is told the directories whose entries change stay
locked, as in the kernel. Operations elsewhere and the steps of the tool come in between,
so the `IN_MOVED_FROM` and `IN_MOVED_TO` of a rename are not atomic.
Deletion, `IN_IGNORED` and everything `MoveTracker` treats alike is the kind
`other`. A scan is a stack of frames, one per active call of `watch_recursively`, and
takes one step for `opendir` with `readdir`, for `lstat` of an entry, and for the
watch on the directory itself. The root is watched last: `Started` says that the first scan
has got there, `Ended` that it failed, which ends the tool. A constant `Modes` says which
operations happen, whether they begin before the first scan is over (`early`), whether they
happen one at a time (`alone`) and wait for the tool (`quiet`), whether `IN_MOVE_SELF` is
among the events, and the limit on watches. Paths are sequences of names: directory names
in the registry end with `/`, so that byte prefixes and component prefixes agree.
`IN_CREATE`, `IN_MOVED_FROM` and `IN_MOVED_TO` are always among the events, as
inotifywait adds them. A mode also has the paths given as `@<path>`, the directories
that may not be opened (`EACCES`), and a filter, of which matters which names it
finds and whether it is inverted (`--include`). `DropFiltered` is a turn of
`next_events` that drops an event; `MoveTracker` never sees it. Symbolic links, which
the scan does not follow, and fanotify are left out. `ExcludedStaysOut` speaks of the
directories there at the start: `MoveTracker` does not pass the excluded paths on.

A directory that is moved out of the tree takes its subdirectories along, and only its
own watch is removed. The others keep theirs, filed under the old names. When a
directory is made under such a name later, `create_watch` leaves the entry of
`by_filename` alone, so that `replace_filename` misses the new watch: its events are
reported under a name it had before. `NoneLeftBehind` excepts this from `AllWatched`,
`NamesInSync` and `NothingOutsideWatched`; it is the same fault as that of the run
`recursivewatch_reuse`, a stale name in `by_filename`, reached another way.

`AllWatched` and `NothingOutsideWatched` speak of moments when the tool has caught up, as
does `NamesInSync` when names change. `PresentWatched` needs no such pause: whatever is
made, removed and moved in meanwhile, and be it during the first scan, a directory that
nobody touched is watched as soon as no scan is under way. Also `NamesInSync` holds at
every moment in such modes, and `ExcludedStaysOut` when directories are made and removed.

### WaitTool

`pc` is the stage of `real_main`. A command line is a sequence of records, one for each
option, with what the code looks at in its argument: the names of `-e`, what `strtol`
made of the number of `-t`, the names a regular expression finds and whether it
compiles, whether a format has a `%T` and whether it makes anything of an event without
path and name (`empty`; `%w%f` does not). `Parsed` goes through them in order and then
looks for conflicts. `-s` and `-P`, about syslog and symbolic links, do nothing here.
Files are words with or without `@`, from the arguments and the lines of `--fromfile`.

`WatchNext` is one file of the list. From then on others make events (`UserEvent`,
`Delete`) at any moment. `Take` is a turn of `next_events`: with fanotify an unknown
fid is looked up, which may open the directory (`OpenByHandle`, an event by the tool)
and writes a note to the output unless `--quiet`; then own events and those the filter
drops are passed over. That `/proc/self/fd` can be read is assumed. `PutLine`
follows the rules of stdio: a terminal gets lines at once, anything else gets what has
filled the buffer (`StdioCap` lines), the rest waits for `flush_all` or the exit.
A killed process loses it. Six events stand for the alphabet: one that is neither
create nor move nor the tool's own doing, the three that `-r -m` adds, and the two
an own open causes. `cwd` and `pid` change in `Daemonize`, `self_pid` does not.

What an event does to the watches is `RecursiveWatch`; here `HandleEvent` has the rest
of the loop. The properties read what was asked for off the command line, not off the
options the model parsed from it: `Relevant` is an event that the manual says is to be
processed, `Processed` one that the tool processes.

### Excepted by name

The properties leave out, by a definition or a clause of their own, behaviours of the code
that its documentation denies, or that it warns of:

* *A new directory that `--exclude` names* (`LetPast`). With `-r` the filter lets new
  directories past whatever their names (`inotify.rs:1215`, "Skip regex filtering for
  directories in recursive mode"), for the bookkeeping of watches; so the tool reports
  them too, and without `-m` ends with status 0. The manual says of `--exclude` "Do not
  process any events for the subset of files whose filenames match"
  (`man/inotifywait.1.in:143-145`). `NothingWithheld` and `ExitStatusTruthful` state what
  the code does; that the tool ends when due is stated for `Relevant` events only.
* *`-d access`* (`Asked`). `parse_opts` stores it as -1, the code of the sum, and the
  table is in the order of the sum (`inotifywatch.rs:386`), where the manual says "Sort
  output descending by event counts for the specified event". `SortedAsAsked` states the
  order of the sum.
* *`IN_UNMOUNT` that was not asked for.* It is counted in its own counter and in the sum,
  but `print_info` has no column for it (`inotifywatch.rs:250`): `TableComplete` speaks
  of the events asked for and of the sums.
* *Renames and moves out during the first scan* (`early`). No watch tells of them: a
  directory may stay unwatched for ever or keep its old name, and an entry of the root that
  has gone ends the tool (`lstat`, `inotify.rs:992`). The manual warns that events are
  not received in this time (`man/inotifywait.1.in:125-128`). One mode runs them, with
  `TypeOK` and `CatchesUp` alone; `Growing` and `CaughtUp` keep them out of the others.
* *Renames that overlap* (`alone`). `MoveTracker` pairs the events without their cookie
  (`recursivewatch_pair`). In the modes of the run that passes with claims on names, one
  user renames, one directory after the other, and does not wait for the tool.
* *Directories left behind by a move out* (`NoneLeftBehind`, above).
* *`--monitor --filesystem`*. The loop goes on before `flush_all`, so `NothingWithheld`
  does not claim it.
* *A daemon with fanotify that listens for `open`*. It does not know its own events; with
  `-d -S` it reports every directory it opens to report the one before. The instance has
  no such command line.

## 3. Runs

A run is `tlc -config <name>.cfg <module>`. Figures are distinct states.

| Run | Result | Shows |
|---|---|---|
| `watchtable` | pass, 119 thousand | `IndexConsistent`, `KernelWatchTracked`, `FanotifyDescriptorsUnique`, `ReplaceLeavesNoOldName`, `StableAttribution` in both modes; `CallReturns`: the looping calls return |
| `eventbuffer` | pass, 285 thousand | `CursorsSound`, `FifoDelivery` (refinement of `EventChannel`), `NullMeansTimeoutOrError`, `CallReturns` |
| `eventbuffer_overflow` | violated | fanotify's overflow report ends a blocking call without an error |
| `eventbuffer_spin` | violated | waiting for two events ignores the timeout |
| `eventbuffer_stale` | violated | events of a closed instance are returned by the next |
| `statstool` | pass, 1.47 million | `CountersAddUp`, `NoStatisticsLost`, `TableComplete`, `SortedAsAsked`, `SignalEndsTool` |
| `statstool_timeout` | violated | the alarm is lost between the test of `DONE` and `ppoll` |
| `recursivewatch` | pass, 362 thousand | `AllWatched`, `ExcludedStaysOut`, `PresentWatched`, `NamesInSync`, `NothingOutsideWatched`, `CatchesUp` |
| `recursivewatch_pair` | violated | the events of two renames at the same time are paired wrongly, and directories get each other's names |
| `recursivewatch_reuse` | violated | a directory removed, made again and renamed is reported under its old name |
| `recursivewatch_filter` | violated | with `--include`, a directory made in a renamed one is not watched |
| `waittool` | pass, 140 thousand | `NothingWithheld`, `ExitStatusTruthful`, `ListedAreWatched`, `NoFeedback`, `EndsWhenDue` |

The violated runs state what the header or a manual page says; `findings` in
`PROJECT.json` quotes the lines.

### Bounds

* `watchtable`: two inodes and two names give two names for an inode, two inodes
  one after the other under a name, and collisions of renames; one replacement makes
  a name the other, one extends a name by itself. `MaxWd = 2` makes fanotify's
  descriptors wrap with a watch in use. `MaxId = 4` leaves room for three watches.
  `MaxName` only stops names from growing. File system marks and larger bounds are
  left to the proofs, which cover them for all safety properties of the run.
* `eventbuffer`: a buffer of 3 units and events of 1 and 2 units give batches that
  fill it, do not fill it, and leave an event behind. Four events, a queue of two,
  two initialisations.
* `statstool`: two watches, three events, modulus 3, so that counters wrap;
  one signal besides the alarm, at any moment. A queue of one is enough, as
  the order of two queued events does not matter to the loop. Seven command lines, three of
  them accepted: both directions, a key that names no counter, `-d access` after another
  sort option, `-z`, a column that is not listened for, and `unmount` asked for and not;
  the refused ones are `move`, a repeated option, and keys not listened for.
* `recursivewatch`: six directories on up to three levels of the tree, one of them outside
  with one below it and one to be made; two names; two or three operations. The modes:
  everything from the first system call on, any number at a time, with room for four
  watches; directories that are made and removed, and moved in, likewise, with and without an
  excluded path; one user's renames after the first scan that race the tool, with and
  without `IN_MOVE_SELF`; making, renaming and moving out, or making, removing and moving
  in, by a user who waits; an exclude filter with directories that come and go, an include
  filter with renames that race the tool; and a directory that may not be read. The mode at
  the limit checks `TypeOK` and `CatchesUp` only: the manual (inotifywait.1, BUGS) excepts
  such races. `recursivewatch_pair` has two users who rename at the same time.
* `waittool`: 43 command lines, chosen so that every option, every conflict, every way
  to fail and every kind of watch occurs, and the options that meet in the loop occur
  together; two events of others, of which the first may be dropped, unasked or the
  cause of own events and the second is what the tool waits for. A buffer of three
  lines can fill up, since the notes on fids count.

Deadlock is checked in the runs of `WatchTable` and `EventBuffer`. `StatsTool` may
sleep in `ppoll` for ever and ends in `exit`; `RecursiveWatch` waits for events once
the bounded operations are used up; `WaitTool` ends, or waits for ever.

### Fairness

* `WatchTable`: a call in its loop goes on. Each turn is a system call that returns.
* `EventBuffer`: weak fairness of the running call, without `SysCallFails`: the
  thread runs, and the timer of `ppoll` expires. Callers need not call.
* `StatsTool`: weak fairness of the program and of an armed alarm. Nothing makes
  events or user signals happen.
* `RecursiveWatch`: weak fairness of the tool, and of `Notify`: the kernel ends the system
  calls of others that are under way. That others act is not fair.
* `WaitTool`: weak fairness of the tool, with the timer of `ppoll`. Nothing makes
  others act, a system call fail or a signal come.

## 4. Proofs

The theorems hold for every value of the constants that satisfies the assumptions
named in the modules. Those say what the code or the kernel guarantee: sizes, limits and
errno values are positive numbers, sets of watches and directories are finite, names are
not empty, command lines are lists of options, no two directories are in one place at
first. TLC evaluates all of them in the runs.

### What is proved

| Module | Theorem | Statement |
|---|---|---|
| `WatchTableProofs` | `Invariance`, `TypeCorrect` | `Spec => []Inv`, `[]TypeOK` |
| | `IndexesConsistent` | `[]IndexConsistent` |
| | `KernelWatchesTracked` | `[]KernelWatchTracked` |
| | `DescriptorsUnique` | `[]FanotifyDescriptorsUnique` |
| | `AttributionIsStable` | `StableAttribution` (of steps) |
| | `ReplaceMovesNames` | `[]ReplaceLeavesNoOldName` |
| `EventBufferProofs` | `Invariance`, `TypeCorrect` | over inotify: `[]Inv`, `[]TypeOK` |
| | `CursorsStaySound` | over inotify: `[]CursorsSound` |
| | `NullIsTimeoutOrError` | over inotify: `[]NullMeansTimeoutOrError` |
| | `EventBufferIsChannel` | over inotify: `FifoDelivery`, the refinement of `EventChannel` |
| `StatsToolProofs` | `TypeCorrect` | `[]TypeOK` |
| | `StatisticsNotLost` | `[]NoStatisticsLost` |
| | `TotalsAddUp` | `[]CountersAddUp` |
| | `RowsSorted` | `[]SortedAsAsked` |
| | `TableTellsAll` | `[]TableComplete` |
| `WaitToolProofs` | `BasicInvariance`, `TypeCorrect` | `[]Basic`, `[]TypeOK` |
| | `ToldIsWatched` | `[]ListedAreWatched` |
| | `ExitStatusIsTruthful` | `[]ExitStatusTruthful` |
| | `NothingIsWithheld` | `[]NothingWithheld`, if `DaemonsDeaf` |
| | `DoesNotFeedItself` | `[]NoFeedback`, if `DaemonsDeaf` |
| `RecursiveWatchProofs` | `TypeCorrect` | `[]TypeOK` |
| | `NamesStayInSync` | `[](Growing => NamesInSync)` |
| | `WholeTreeWatched` | `[](Roomy => AllWatched)` |
| | `ExcludedNeverWatched` | `[]ExcludedStaysOut` |
| `RecursiveWatchMoves` | `NamesFollowMoves` | `[](Tracked => NamesInSync)` |
| | `TreeWatchedAfterMoves` | `[](Tracked => AllWatched)` |
| | `NothingLeftWatched` | `[](Tracked \/ Growing => NothingOutsideWatched)` |

Every hypothesis excludes what a run shows to be false, or what is left to TLC:

* `~Fanotify` in `EventBufferProofs`: over fanotify the report of an overflow puts the
  cursors out of step (`eventbuffer_overflow`).
* `DaemonsDeaf`: no command line makes a daemon with fanotify that listens for the opens
  and closes the library causes. Such a daemon reports itself (section 2, `WaitTool`).
* `Growing`: directories are made, removed and moved in, in any order, any number at a time
  and from the first system call of the first scan on, but none that has a name in the tree
  gets another one.
* `Roomy` is `Growing`, others wait for the tool (as the manual asks), and the limit on
  watches is above the number of directories: at the limit a scan gives up half way.
* `Tracked`: after the first scan one user renames directories, one after the other and
  without waiting for the tool; or directories are made, renamed, and moved in or moved
  out, and others wait for the tool. Each part is needed, as TLC shows on small instances:
  - not during the first scan, and one at a time (`recursivewatch_pair`): see "Excepted by
    name" in section 2;
  - no directory is removed: the name of a removed one stays in `by_filename` and hides
    the directory that gets the name next (`recursivewatch_reuse`), so that a watch
    keeps a name it had before or is not removed when its directory is moved out;
  - not both moved in and moved out: a directory that came in and left again with others
    in it leaves their watches behind, at a place where `NoneLeftBehind` does not
    see it, because it is where it was at first;
  - `IN_MOVE_SELF`, if directories are moved out: without it the tool learns that a
    directory is gone only with the next event, whenever that comes;
  - no filter, which drops the renames the tool needs (`recursivewatch_filter`), and room
    for all watches;
  - others wait, unless they only rename: the manual excepts the races of new directories.

  Unreadable and excluded directories are left to TLC: a rename may move others into them.

### How

**Registry.** `Inv` is `TypeOK` and

* `RegInv(reg)`: each index leads to an existing watch with the key it was looked up
  by, and ids in use are below `next_id`. The latter is needed for `create_watch`:
  a new id must not be one some entry leads to;
* `Quiescent`: without an initialised handle there is no watch and no kernel watch.
  `init` clears the indexes but not the table, so this is what makes it safe;
* `KernelWatchTracked`, which needs the agreement of `by_wd`: removal drops the
  entry under the watch's own descriptor, and only together with the kernel watch;
* in fanotify mode, every watch has a fid and is the one its descriptor leads to. The
  fid matters because removal then fails and nothing is ever destroyed, and because
  an inotify watch could share a descriptor.

The lemmas `CreateInv`, `DestroyInv` and `RenameInv` show `RegInv` of the three
operators of `WatchOps`. The interesting case is `DestroyInv`: removal by key may
take away the entry of another watch, but cannot leave one that leads to the
destroyed watch, because a watch's entries are under its own keys. One lemma per
action then shows `Inv'`. `AttributionIsStable` follows from `Inv` and that
`create_watch` keeps entries. `ReplaceMovesNames` is inductive relative to
`Inv`: the renamed watch starts with the new prefix, which is not comparable with
the old one (`RenamedLeavesPrefix`), and an entry that is dropped belonged to it.

**Event buffer.** `Inv` is `TypeOK`, `Control` (where the cursors stand at each control
point: a read is made into an empty buffer only), `Layout` (between the cursors lie
whole events, one where the one before it ends) and `NullMeansTimeoutOrError`. `Layout`
is an existential over the sequence of events and their offsets; the lemmas `Laid...`
say what appending a batch and taking the first event do to it. `Buffered`, the
recursive function of the refinement mapping, is then that sequence
(`BufferedIsEventsOf`), and every step maps to one of the channel or to a stutter.

**inotifywatch.** `Control` has the types and the signal dispositions (from the
statistics on none is the default). `Counted` adds that nothing is counted before the
start is over, or for a watch never added, and `NoStatisticsLost`. `TotalsAddUp` adds the sums,
kind by kind; a step adds to one summand, moves one out of the set, or
changes nothing, and all arithmetic is modulo 2^w. `Tally` says that until the total may
have wrapped the sums are exact and split into kinds, which `TableComplete` needs to
tell a row without counts from one whose sum is 0. `RowsSorted` has to show that a
sorted order exists at all: `CollectionFacts` proves it for finite sets and total preorders.

**inotifywait.** `Basic` is `TypeOK` and `Stages`: the options are those of the command
line, and who forked when. That `Parsed` yields the last of each option and the union of
the events is proved from its recursion (`Parses`, `Holds`). `Listing`: every file
told of is in the list still, or is or was watched; `construct_path_list` is shown to
keep all of them. `Queue` and `Reporting` relate what was read, what is in the buffer of
stdout, what has left it, and what was to be reported, at each control point;
`ExitStatusTruthful` and `NothingWithheld` follow. `NoFeedback` needs a potential
(`Budget`): what the tool has caused, six for each event of others that it has not
dealt with, and what it may still cause for the files of its list and for fids not
filed yet, never exceed what the command line and the events of others allow.

**Recursive watching.** `TypeInv` has the types, the registry's agreement (`Sound`) and
that what is filed, scanned or remembered is a path from the root. The hard case is
`HandleMovedTo`: `Replaced` visits the entries in the order of their names, so the
proof shows that the order is total, that each rank has exactly one name, and carries
`Sound` through the visits. `Sync` says that every kernel watch is filed under a path
that leads to its directory. It must hold while calls of `watch_recursively` are under way, and
is inductive since a new entry in `by_wd` is made under the path just resolved. `Cover` says
of every directory in a watched one, or passed already by a call that reads its parent,
that it is watched, passed over on purpose, being scanned, or told of by a queued event;
when the tool has caught up only the first two are left, and `AllWatched` follows by induction over the
depth. `Keep` says that the directories there at the start are where they were or gone,
and that what is scanned or announced after the first scan is a path that was not there
at the start.

**Directories that move.** A rename breaks `Sync` at once: until `MoveTracker` has handled
both its events, everything below the directory is filed under the old path, and by then the
tree may have changed again. `MovesInv` says that, if `Tracked`, the tool stands to the
tree in one of these ways:

* `Scanning`: it is in step with the tree, by `Sync`, `Cover` and `Filed` (`by_filename`
  leads to every watch and to nothing else, or `replace_filename` would miss one);
* `Lagging`: the scans are over, the whole tree is watched (`Closed`), and there is a
  sequence of trees, one for each event in the queue (`Mirror`). The registry is in step
  with the first, the last is the tree as it is now, and each `IN_MOVED_TO` leads from one
  to the next, told of by the `IN_MOVED_FROM` before it or by `moved_from`. The queue is taken with
  the events that the kernel has still to queue. A rename appends
  to the sequence, handling an event takes its head away;
* `Leaving`: a directory was moved out, and the queue tells of it;
* a directory was moved out with others in it (`Stranded`), which `NoneLeftBehind` excepts.

`Away` adds that, if directories are not moved in, those outside at first still are. The
step that matters is `IN_MOVED_TO` while lagging. `MoveRenames` shows that it takes the
registry from one tree to the next: `replace_filename` renames the watches below the moved
directory and no others. For that no new name may be one in use when its turn
comes (`Renamable`, carried through the visits by `VisitRenamed`), which follows from the
trees: a directory does not move below itself, the place it moves to was empty, and a
path leads to one directory only (`MoveKeeps`, `MoveLeads`, `MoveFollows`, `OnePath`).
With an empty queue the sequence has one tree, and lagging is being in step
(`LaggingSettled`). TLC checked `MovesInv` on an instance before it was proved.

**Induction.** The library's induction theorems take an operator and cannot be used
with the provers at hand. `InductionFacts` restates them for sets: a set of numbers with 0 and
closed under successor is all of `Nat` (`NatSetInduction`), the same for the numbers
below one, and with these that a recursive function exists and is unique. Paths and finite
sets are handled in the same way (`PathInduction`, and `CollectionFacts`).

### What is only model-checked

* Liveness: `CallReturns` (both), `SignalEndsTool`, `EndsWhenDue`, `CatchesUp`. Temporal
  proofs under fairness need `ENABLED`, which is out of the provers' reach.
* `NamesInSync`, `AllWatched` and `NothingOutsideWatched` in the modes that neither
  `Growing` (`Roomy` for `AllWatched`) nor `Tracked` admits; and `PresentWatched`. In the run that passes
  this is the one mode with renames under an include filter; the modes whose races
  the manual excepts are excepted by `CaughtUp`.
* The violated properties: TLC has the counterexamples.


## 5. Not modelled

Text: the output of formats, csv, event names and time formats, and the layout of the
table. Which names a regular expression finds: that is regcomp and regexec. Symbolic
links and `-P`. Syslog and messages. The path that `filename_from_fid` puts together
(when it succeeds and what it opens is in `WaitTool`). Recursive watching through
fanotify, where a moved directory gets a new fid and watches are never removed.
`get_max_*`, which read numbers from `/proc`. getopt, which is the C library's. The C
interface, which wraps one handle whose calls are modelled. `PROJECT.json` gives the
reason for each.

## 6. Plan

Done: the registry, the event buffer with its abstract channel, inotifywatch with its
options and table, recursive watching with the filter, excluded and unreadable
directories, and inotifywait from the command line to its exit status; the proofs of
section 4.

Next, in this order:

1. `NamesInSync` and `AllWatched` for renames with a filter that keeps the names in
   use, and for trees with unreadable or excluded directories that are renamed.
2. fanotify in recursive watching, and the names of its events.
