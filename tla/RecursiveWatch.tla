-------------------------- MODULE RecursiveWatch ----------------------------
(***************************************************************************)
(* inotifywait -m -r: a tree of directories that changes while the tool    *)
(* follows it through inotify.  The recursive scan watch_recursively       *)
(* (inotify.rs), the event loop and MoveTracker::handle (common.rs) keep a *)
(* registry of watches, whose operators are those of WatchOps, in step     *)
(* with the tree.                                                          *)
(*                                                                         *)
(* A path is the sequence of its components, RootName first: the           *)
(* filenames of directories end with '/', so that the byte prefixes the    *)
(* code compares are exactly the prefixes of component sequences.          *)
(***************************************************************************)
EXTENDS WatchOps, FiniteSets

CONSTANTS
  Dirs,          \* directories below the root, by inode
  Root,          \* the directory the tool was started on
  Fresh, Out, Dead,  \* places of directories that do not exist yet, are
                     \* outside the tree, or were deleted
  Names,         \* names of directory entries
  InitialLoc,    \* where the directories are at first
  Modes          \* what others do to the tree, and when

Places == {Root, Fresh, Out, Dead}
NoDir == Dead
RootName == 0

ASSUME RecursiveNamesAssumption == Names \subseteq Nat \ {0}
ASSUME PlacesAssumption ==
  /\ Root \notin {Fresh, Out, Dead} /\ Fresh \notin {Out, Dead} /\ Out # Dead
  /\ Dirs \cap Places = {} /\ IsFiniteSet(Dirs)

\* A directory is in another one under a name, or nowhere.  At first no two
\* are in the same place, and one that does not exist has none in it.
Locations == ((Dirs \cup {Root}) \X Names) \cup ({Fresh, Out, Dead} \X {0})
ASSUME InitialLocAssumption ==
  /\ InitialLoc \in [Dirs -> Locations]
  /\ \A d, e \in Dirs : InitialLoc[d] = InitialLoc[e] /\ InitialLoc[d][2] # 0 => d = e
  /\ \A d, e \in Dirs : InitialLoc[d][1] = e => InitialLoc[e][1] \notin {Fresh, Dead}

\* A path leads from the root down.
IsPath(path) ==
  /\ path \in Seq(Names \cup {RootName}) /\ path # << >> /\ path[1] = RootName
  /\ \A k \in 2..Len(path) : path[k] \in Names

\* Operations on the tree: those allowed, how many there may be, whether
\* others act before the tool has set up its watches (early), one after the
\* other (alone), and when the tool has caught up only (quiet); further
\* whether the tool listens for IN_MOVE_SELF, the limit on watches
\* (fs.inotify.max_user_watches), the directories the tool may not open
\* (EACCES), the paths given as @<file>, and the filter: the names the
\* regular expression of --exclude, or inverted of --include, finds.
ASSUME ModesAssumption ==
  \A m \in Modes :
    /\ m.ops \subseteq {"mkdir", "rmdir", "rename", "moveout", "movein"}
    /\ {m.early, m.alone, m.quiet, m.move_self} \subseteq BOOLEAN
    /\ {m.max_ops, m.max_watches} \subseteq Nat
    /\ m.denied \subseteq Dirs /\ \A path \in m.excluded : IsPath(path)
    /\ m.pattern \subseteq Names /\ m.invert \in BOOLEAN

VARIABLES
  loc,           \* file system: directory -> <<parent, name>>
  ops,           \* operations so far
  late,          \* directory -> what the kernel has still to tell of the
                 \* operation on it that is under way
  mode,          \* the member of Modes that applies
  kmarks, knext, kq,   \* kernel: inode -> wd, the next wd, the event queue
  reg,           \* the registry of the library
  moved_from,    \* MoveTracker::moved_from, << >> for None
  scan           \* the calls of watch_recursively, innermost last

fsvars == <<loc, ops, late>>
toolvars == <<reg, moved_from, scan>>
vars == <<loc, ops, late, mode, kmarks, knext, kq, reg, moved_from, scan>>

(***************************************************************************)
(* The tree.                                                               *)
(***************************************************************************)
IsAt(d, p, n) == loc[d] = <<p, n>>
Vacant(p, n) == \A d \in Dirs : ~IsAt(d, p, n)
Children(p) == {d \in Dirs : loc[d][1] = p}

\* d or one of the directories above it
Parent(x) == IF x \in Dirs THEN loc[x][1] ELSE x
Above(d) ==
  LET parent == [x \in Dirs \cup Places |-> Parent(x)]
      up[k \in 0..Cardinality(Dirs)] == IF k = 0 THEN d ELSE parent[up[k - 1]]
  IN  {up[k] : k \in 0..Cardinality(Dirs)}

InTree(d) == Root \in Above(d)

\* The directory a path leads to.
Entry(p, n) == IF Vacant(p, n) THEN NoDir ELSE CHOOSE d \in Dirs : IsAt(d, p, n)
Resolve(path) ==
  LET entry == [p \in Dirs \cup Places |-> [n \in Names |-> Entry(p, n)]]
      at[k \in 1..Len(path)] == IF k = 1 THEN Root ELSE entry[at[k - 1]][path[k]]
  IN  at[Len(path)]

Frame(path) == [path |-> path, opened |-> FALSE, todo |-> {}]

\* main starts with watch_recursively on the directory given.
Init ==
  /\ loc = InitialLoc /\ ops = 0 /\ late = [d \in Dirs |-> << >>] /\ mode \in Modes
  /\ kmarks = EmptyMap /\ knext = 1 /\ kq = << >>
  /\ reg = EmptyRegistry(1, 0)
  /\ moved_from = << >>
  /\ scan = <<Frame(<<RootName>>)>>

(***************************************************************************)
(* Others change the tree (external); the kernel queues events for the     *)
(* directories that are watched.  It tells of an operation after it has    *)
(* changed the tree, one event at a time, and keeps the directories whose  *)
(* entries change locked until it has told all.  So the IN_MOVED_FROM and  *)
(* the IN_MOVED_TO of a rename are not queued atomically (inotify(7)).     *)
(***************************************************************************)
\* The root is watched last: this ends the first scan.  Without it the tool
\* ends, since a failure of the first scan is final.
Started == Root \in DOMAIN kmarks
Ended == ~Started /\ scan = << >>
Idle == \A d \in Dirs : late[d] = << >>
Quiescent == Started /\ scan = << >> /\ kq = << >> /\ Idle

Event(wd, kind, n) == [wd |-> wd, kind |-> kind, name |-> n]
OnDir(d, kind, n) ==
  IF d \in DOMAIN kmarks THEN <<Event(kmarks[d], kind, n)>> ELSE << >>

\* An event on directory x that is still to be told, and what is locked.
Notice(x, kind, n, locked) == [dir |-> x, kind |-> kind, name |-> n, locked |-> locked]
Locked == UNION {Head(late[d]).locked : d \in {x \in Dirs : late[x] # << >>}}

Operation(op, d, locked, notices) ==
  /\ op \in mode.ops /\ ops < mode.max_ops
  /\ mode.early \/ Started
  /\ mode.alone => Idle
  /\ mode.quiet => Quiescent
  /\ late[d] = << >> /\ locked \cap Locked = {}
  /\ ops' = ops + 1
  /\ late' = [late EXCEPT ![d] = notices]
  /\ UNCHANGED <<mode, knext, toolvars>>

\* The kernel tells of the operation on d that is under way.
Notify(d) ==
  /\ late[d] # << >>
  /\ LET x == Head(late[d])
     IN  kq' = kq \o OnDir(x.dir, x.kind, x.name)
  /\ late' = [late EXCEPT ![d] = Tail(@)]
  /\ UNCHANGED <<loc, ops, mode, kmarks, knext, toolvars>>

mkdir(d, p, n) ==
  /\ Operation("mkdir", d, {p}, <<Notice(p, "create", n, {p})>>)
  /\ loc[d][1] = Fresh /\ InTree(p) /\ Vacant(p, n)
  /\ loc' = [loc EXCEPT ![d] = <<p, n>>]
  /\ UNCHANGED <<kmarks, kq>>

\* The watch goes with the directory: IN_DELETE_SELF and IN_IGNORED on it,
\* and then IN_DELETE on its parent.
rmdir(d) ==
  LET p == loc[d][1]
  IN  /\ Operation("rmdir", d, {d, p}, <<Notice(p, "other", loc[d][2], {p})>>)
      /\ InTree(d) /\ Children(d) = {}
      /\ loc' = [loc EXCEPT ![d] = <<Dead, 0>>]
      /\ kq' = kq \o OnDir(d, "other", 0) \o OnDir(d, "other", 0)
      /\ kmarks' = Drop(kmarks, d)

\* IN_MOVE_SELF follows, if the tool listens for it.
WithSelf(d, locked, notices) ==
  IF mode.move_self THEN Append(notices, Notice(d, "other", 0, locked)) ELSE notices

MovedFrom(d, locked) == Notice(loc[d][1], "moved_from", loc[d][2], locked)
MovedTo(p, n, locked) == Notice(p, "moved_to", n, locked)

rename(d, p, n) ==
  LET locked == {loc[d][1], p}
  IN  /\ Operation("rename", d, locked,
                   WithSelf(d, locked, <<MovedFrom(d, locked), MovedTo(p, n, locked)>>))
      /\ InTree(d) /\ InTree(p) /\ d \notin Above(p) /\ Vacant(p, n)
      /\ loc' = [loc EXCEPT ![d] = <<p, n>>]
      /\ UNCHANGED <<kmarks, kq>>

moveout(d) ==
  LET locked == {loc[d][1]}
  IN  /\ Operation("moveout", d, locked, WithSelf(d, locked, <<MovedFrom(d, locked)>>))
      /\ InTree(d)
      /\ loc' = [loc EXCEPT ![d] = <<Out, 0>>]
      /\ UNCHANGED <<kmarks, kq>>

movein(d, p, n) ==
  /\ Operation("movein", d, {p}, WithSelf(d, {p}, <<MovedTo(p, n, {p})>>))
  /\ loc[d][1] = Out /\ InTree(p) /\ Vacant(p, n)
  /\ loc' = [loc EXCEPT ![d] = <<p, n>>]
  /\ UNCHANGED <<kmarks, kq>>

(***************************************************************************)
(* watch_recursively: children first, then the directory itself.  Others   *)
(* may change the tree between any two of its system calls, where the mode *)
(* lets them.                                                              *)
(***************************************************************************)
Top == scan[Len(scan)]
Below == SubSeq(scan, 1, Len(scan) - 1)

\* Faulty: a directory that has gone ends the calls around it, too.
BugVanishedAll == scan' = << >> /\ UNCHANGED <<kmarks, knext, reg>>

\* The call on top of the stack fails with ENOENT; its caller goes on.
Vanished == scan' = Below /\ UNCHANGED <<kmarks, knext, reg>>

\* opendir and readdir.  A directory that may not be opened (EACCES) is
\* passed over like one that has gone.
ScanOpen ==
  /\ scan # << >> /\ ~Top.opened
  /\ LET dir == Resolve(Top.path)
     IN  IF dir = NoDir \/ dir \in mode.denied
           THEN Vanished
           ELSE /\ scan' = Append(Below, [path |-> Top.path, opened |-> TRUE,
                                          todo |-> {loc[d][2] : d \in Children(dir)}])
                /\ UNCHANGED <<kmarks, knext, reg>>
  /\ UNCHANGED <<fsvars, mode, kq, moved_from>>

\* Faulty: lstat is tried again on an entry that has gone.
BugScanEntryRetries ==
  /\ scan # << >> /\ Top.opened
  /\ \E n \in Top.todo :
       scan' = IF Resolve(Append(Top.path, n)) = NoDir
                 THEN scan
                 ELSE Append(Append(Below, [Top EXCEPT !.todo = @ \ {n}]),
                             Frame(Append(Top.path, n)))
  /\ UNCHANGED <<fsvars, mode, kmarks, knext, kq, reg, moved_from>>

\* Faulty: an excluded path is compared with its trailing '/' only.
BugIsExcludedNever(path) == FALSE

\* The list of excluded paths is passed to the first scan only: MoveTracker
\* scans new directories without one.
is_excluded(path) == ~Started /\ path \in mode.excluded

\* lstat on an entry: a directory that is not excluded is scanned in turn;
\* an entry that has gone makes the whole call fail.
ScanEntry ==
  /\ scan # << >> /\ Top.opened
  /\ \E n \in Top.todo :
       LET path == Append(Top.path, n)
           rest == Append(Below, [Top EXCEPT !.todo = @ \ {n}])
       IN  scan' = CASE Resolve(path) = NoDir -> Below
                     [] Resolve(path) # NoDir /\ is_excluded(path) -> rest
                     [] OTHER -> Append(rest, Frame(path))
  /\ UNCHANGED <<fsvars, mode, kmarks, knext, kq, reg, moved_from>>

\* watch_file on the directory itself.  At the limit of watches (ENOSPC)
\* all calls fail.
ScanWatch ==
  /\ scan # << >> /\ Top.opened /\ Top.todo = {}
  /\ LET dir == Resolve(Top.path)
         marked == dir \in DOMAIN kmarks
         wd == IF marked THEN kmarks[dir] ELSE knext
     IN  IF dir = NoDir
           THEN Vanished
           ELSE IF ~marked /\ Cardinality(DOMAIN kmarks) >= mode.max_watches
             THEN scan' = << >> /\ UNCHANGED <<kmarks, knext, reg>>
             ELSE /\ kmarks' = Put(kmarks, dir, wd)
                  /\ knext' = IF marked THEN knext ELSE knext + 1
                  /\ reg' = CreateInotifyWatch(reg, wd, Top.path)
                  /\ scan' = Below
  /\ UNCHANGED <<fsvars, mode, kq, moved_from>>

(***************************************************************************)
(* MoveTracker::handle.                                                    *)
(***************************************************************************)
E == Head(kq)

\* "%w%f" of the event; %w is empty when the watch is not known any more.
EventPath ==
  LET dir == IF E.wd \in DOMAIN reg.by_wd THEN reg.watches[reg.by_wd[E.wd]].filename
                                          ELSE << >>
  IN  IF E.name = 0 THEN dir ELSE Append(dir, E.name)

\* The filter of next_events: the regular expression may match anywhere in
\* the path.
Matched == \E k \in 1..Len(EventPath) : EventPath[k] \in mode.pattern

\* Faulty: new directories are filtered like everything else.
BugFilteredAll == Matched # mode.invert

\* With -r the directories that appear (IN_ISDIR with IN_CREATE or
\* IN_MOVED_TO) are never filtered.
Filtered == E.kind \notin {"create", "moved_to"} /\ Matched # mode.invert

\* The event loop does not see an event that the filter drops.
DropFiltered ==
  /\ Started /\ scan = << >> /\ kq # << >> /\ Filtered
  /\ kq' = Tail(kq)
  /\ UNCHANGED <<fsvars, mode, kmarks, knext, toolvars>>

Receives(kinds) ==
  Started /\ scan = << >> /\ kq # << >> /\ E.kind \in kinds /\ ~Filtered

\* dirpath_from_event, << >> when the watch is not known any more
DirPath(r) ==
  IF E.wd \in DOMAIN r.by_wd THEN Append(r.watches[r.by_wd[E.wd]].filename, E.name)
                             ELSE << >>

\* remove_watch_by_filename(moved_from): the kernel acknowledges with
\* IN_IGNORED; if it has dropped the watch already the registry stays as
\* it is.
LeftWatch == reg.by_filename[moved_from]
LeftFiled == moved_from # << >> /\ moved_from \in DOMAIN reg.by_filename
LeftMarked ==
  LeftFiled /\ \E d \in DOMAIN kmarks : kmarks[d] = reg.watches[LeftWatch].wd

RegAfterLeave == IF LeftMarked THEN DestroyWatch(reg, LeftWatch) ELSE reg

\* Faulty: a directory that left the tree stays watched.
BugLeaveTreeNot(r) ==
  /\ kq' = Tail(kq)
  /\ r = reg
  /\ UNCHANGED kmarks

\* Before any event but IN_MOVED_TO: the directory that moved away and did
\* not reappear has left the tree.  r is the registry afterwards.
LeaveTree(r) ==
  LET wd == reg.watches[LeftWatch].wd
  IN  /\ kq' = Tail(kq) \o (IF LeftMarked THEN <<Event(wd, "other", 0)>> ELSE << >>)
      /\ kmarks' = IF LeftMarked
                     THEN [d \in {x \in DOMAIN kmarks : kmarks[x] # wd} |-> kmarks[d]]
                     ELSE kmarks
      /\ r = RegAfterLeave

StartScan(path) ==
  scan' = IF path # << >> /\ Resolve(path) # NoDir THEN <<Frame(path)>> ELSE << >>

HandleCreate ==
  /\ Receives({"create"})
  /\ LeaveTree(reg')
  /\ moved_from' = << >>
  /\ StartScan(DirPath(reg'))
  /\ UNCHANGED <<fsvars, mode, knext>>

\* Faulty: a name that is not watched is remembered too.
BugMovedFromUnwatched ==
  /\ Receives({"moved_from"})
  /\ LeaveTree(reg')
  /\ moved_from' = DirPath(reg')
  /\ UNCHANGED <<fsvars, mode, knext, scan>>

\* The name is remembered if it is that of a watch.
HandleMovedFrom ==
  /\ Receives({"moved_from"})
  /\ LeaveTree(reg')
  /\ moved_from' = IF DirPath(reg') \in DOMAIN reg'.by_filename THEN DirPath(reg') ELSE << >>
  /\ UNCHANGED <<fsvars, mode, knext, scan>>

HandleOther ==
  /\ Receives({"other"})
  /\ LeaveTree(reg')
  /\ moved_from' = << >>
  /\ UNCHANGED <<fsvars, mode, knext, scan>>

\* IN_MOVED_TO without IN_MOVED_FROM before it: a new directory
HandleMovedIn ==
  /\ Receives({"moved_to"}) /\ moved_from = << >>
  /\ kq' = Tail(kq)
  /\ StartScan(DirPath(reg))
  /\ UNCHANGED <<fsvars, mode, kmarks, knext, reg, moved_from>>

\* Faulty: only the directory itself is renamed.
BugReplacedShallow(oldname, newname) ==
  {RenameWatch(reg, reg.by_filename[oldname], newname)}

\* replace_filename: the watches filed by name are visited in the order of
\* the names; nothing is renamed when the new name is not known.  (The set
\* of the one registry this leads to.)
Replaced(oldname, newname) ==
  LET filed == DOMAIN reg.by_filename
      names == [k \in 1..Cardinality(filed) |->
                  CHOOSE n \in filed : Cardinality({m \in filed : LexLess(m, n)}) = k - 1]
      Visit(r, id) ==
        LET cur == r.watches[id].filename
        IN  IF StartsWith(cur, oldname) /\ cur # newname
              THEN RenameWatch(r, id, newname \o SubSeq(cur, Len(oldname) + 1, Len(cur)))
              ELSE r
      after[k \in 0..Len(names)] ==
        IF k = 0 THEN {reg} ELSE {Visit(r, reg.by_filename[names[k]]) : r \in after[k - 1]}
  IN  IF newname = << >> THEN {reg} ELSE after[Len(names)]

\* IN_MOVED_TO right after IN_MOVED_FROM, of whatever directory: a rename
HandleMovedTo ==
  /\ Receives({"moved_to"}) /\ moved_from # << >>
  /\ kq' = Tail(kq)
  /\ reg' \in Replaced(moved_from, DirPath(reg))
  /\ moved_from' = << >>
  /\ UNCHANGED <<fsvars, mode, kmarks, knext, scan>>

Tool ==
  \/ ScanOpen
  \/ ScanEntry
  \/ ScanWatch
  \/ DropFiltered
  \/ HandleCreate
  \/ HandleMovedFrom
  \/ HandleOther
  \/ HandleMovedIn
  \/ HandleMovedTo

Next ==
  \/ Tool
  \/ \E d \in Dirs, p \in Dirs \cup {Root}, n \in Names :
        mkdir(d, p, n) \/ rename(d, p, n) \/ movein(d, p, n)
  \/ \E d \in Dirs : rmdir(d) \/ moveout(d) \/ Notify(d)

Spec == Init /\ [][Next]_vars

\* The tool runs whenever it has something to do, and the kernel ends the
\* system calls that are under way.
FairSpec == Spec /\ WF_vars(Tool) /\ WF_vars(\E d \in Dirs : Notify(d))

(***************************************************************************)
(* Properties.                                                             *)
(***************************************************************************)
\* Every variable has the shape of what it models; the name MoveTracker
\* keeps between two events is always that of a watch.
KernelEvents ==
  {e \in [wd : Nat \ {0}, kind : {"create", "moved_from", "moved_to", "other"},
          name : Names \cup {0}] : e.kind # "other" => e.name # 0}
Notices ==
  {x \in [dir : Dirs \cup {Root}, kind : {"create", "moved_from", "moved_to", "other"},
          name : Names \cup {0}, locked : SUBSET (Dirs \cup {Root})] :
     x.kind # "other" => x.name # 0}
TypeOK ==
  /\ loc \in [Dirs -> Locations] /\ ops \in Nat /\ mode \in Modes
  /\ DOMAIN kmarks \subseteq Dirs \cup {Root} /\ knext \in Nat \ {0}
  /\ \A d \in DOMAIN kmarks : kmarks[d] \in 1..(knext - 1)
  /\ kq \in Seq(KernelEvents) /\ late \in [Dirs -> Seq(Notices)]
  /\ moved_from = << >> \/ moved_from \in DOMAIN reg.by_filename
  /\ \A n \in DOMAIN reg.by_filename : IsPath(n)
  /\ scan \in Seq([path : Seq(Names \cup {RootName}), opened : BOOLEAN, todo : SUBSET Names])
  /\ \A k \in 1..Len(scan) : IsPath(scan[k].path)

\* A directory that is moved out takes those in it along.  Only its own watch
\* is removed: theirs stay filed under the old names, and get in the way of
\* directories that come under these names later.
NoneLeftBehind ==
  \A d \in Dirs : loc[d][1] = Out /\ loc[d] # InitialLoc[d] => Children(d) = {}

\* The manual excepts directories that change right after they were made
\* ("There are race conditions in the recursive directory watching code",
\* inotifywait.1): others wait for the tool, or only rename directories.
\* (Renames during the first scan, and two at a time, are left to the modes.)
CaughtUp == Quiescent /\ NoneLeftBehind /\ (mode.quiet \/ mode.ops = {"rename"})

\* A directory that may not be opened, or one below it.
Unreadable(d) == Above(d) \cap mode.denied # {}

\* A directory that is excluded, or one below it.
Excluded(d) == \E path \in mode.excluded : Resolve(path) \in Above(d) \ {Root}

\* Once the tool has caught up, every directory of the tree is watched,
\* however deep it came in and wherever it was moved: "Watches will be set
\* up recursively to an unlimited depth" (inotifywait.1, on --recursive).
\* A filter takes nothing away from this, and a directory that cannot be
\* read or is excluded only those below it.
AllWatched ==
  CaughtUp =>
    \A d \in Dirs :
      InTree(d) /\ ~Unreadable(d) /\ ~Excluded(d) => d \in DOMAIN kmarks

\* Whatever is made or removed elsewhere, a directory that was there and
\* excluded when the tool started is never watched: "exclude the specified
\* file from being watched" (inotifywait.1, on @<file>).
ExcludedStaysOut ==
  mode.ops \subseteq {"mkdir", "rmdir"} =>
    \A d \in Dirs :
      loc[d] = InitialLoc[d] /\ InTree(d) /\ Excluded(d) => d \notin DOMAIN kmarks

\* No directory above d was anywhere else, and no entry of one of them was
\* removed.  (One that is new and was removed may have been such an entry.)
LeftAlone(d) ==
  /\ \A a \in Above(d) \cap Dirs : loc[a] = InitialLoc[a]
  /\ \A e \in Dirs :
       loc[e][1] = Dead => InitialLoc[e][1] \notin Above(d) \cup {Fresh, Out}

\* Directories come and go at any moment, from the first system call of the
\* first scan on.  When no scan is under way every directory that was left
\* alone is watched, the root with them: an entry that vanishes ends the scan
\* of the directory it was in, and of no other.
Growing == mode.ops \subseteq {"mkdir", "rmdir", "movein"}
HasRoom == Cardinality(Dirs) < mode.max_watches
PresentWatched ==
  Growing /\ HasRoom /\ scan = << >> =>
    \A d \in Dirs \cup {Root} :
      InTree(d) /\ LeftAlone(d) /\ ~Unreadable(d) /\ ~Excluded(d) => d \in DOMAIN kmarks

\* The events of a watched directory in the tree are reported under the
\* directory's current path: %w is "the name of the Directory in which the
\* event occurred" (inotifywait.1).  As long as no directory with a name in
\* the tree is renamed this holds at every moment, the scans included; else
\* once the tool has caught up.  (A filter hides renames from the tool.)
NoFilter == mode.pattern = {} /\ ~mode.invert
NamesInSync ==
  Growing \/ (CaughtUp /\ NoFilter) =>
    \A d \in DOMAIN kmarks \cap Dirs :
      InTree(d) =>
        /\ kmarks[d] \in DOMAIN reg.by_wd
        /\ Resolve(reg.watches[reg.by_wd[kmarks[d]]].filename) = d

\* Once the tool has caught up, a directory that was moved out of the tree
\* is not watched any more.
NothingOutsideWatched ==
  CaughtUp /\ NoFilter => \A d \in Dirs : loc[d][1] = Out => d \notin DOMAIN kmarks

\* The tool catches up with a tree that changes finitely often: the scans
\* end although entries appear and vanish under them, the first one perhaps
\* with a failure, and the tool with it.
CatchesUp == []<>(Quiescent \/ Ended)
=============================================================================
