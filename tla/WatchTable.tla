----------------------------- MODULE WatchTable -----------------------------
(***************************************************************************)
(* The watch bookkeeping of libinotifytools as a state machine: one action *)
(* per call of the library's API that changes the registry (inotify.rs),   *)
(* over the kernel's inotify instance (external) and a file system that    *)
(* anyone may change between two calls.                                    *)
(*                                                                         *)
(* The handle is used through &mut self, so calls do not overlap.  The two *)
(* calls with a loop, watch_files and replace_filename, take one step per  *)
(* turn of the loop: the kernel moves between the turns, the library's     *)
(* other calls do not.                                                     *)
(***************************************************************************)
EXTENDS WatchOps, FiniteSets

CONSTANTS
  Inodes,        \* the objects of the file system
  Entries,       \* names of directory entries in fanotify events
  Names,         \* filenames the callers use
  FileLists,     \* argument lists of watch_files
  Replacements,  \* argument pairs of replace_filename
  WatchFilesystem,  \* init's watch_filesystem: fanotify marks file systems
  Errnos,        \* errno values of the system calls
  MaxId,         \* bound on the number of watches ever created
  MaxName        \* bound on the length of a filename

Fids == ({"fid", "dfid"} \X Inodes) \cup ({"dfid_name"} \X Inodes \X Entries)
          \cup {<<"fsid">>}

ASSUME NoFidAssumption == NoFid \notin Fids
ASSUME NamesAssumption == Names \subseteq Seq(Nat) \ {<< >>}
ASSUME FileListsAssumption == FileLists \subseteq Seq(Names)
ASSUME ReplacementsAssumption ==
  \A p \in Replacements : p[1] \in Seq(Nat) /\ p[2] \in Seq(Nat)
ASSUME WatchFilesystemAssumption == WatchFilesystem \in BOOLEAN
ASSUME ErrnosAssumption == Errnos \subseteq Nat \ {0}

VARIABLES
  initialized,     \* the handle owns an inotify or fanotify descriptor
  fanotify_mode,
  error,           \* what Inotifytools::error() returns
  ret,             \* what the last call returned
  reg,             \* the registry
  call,            \* the call that is in its loop, if any
  kmarks,          \* kernel: inode -> watch descriptor (inotify)
  knext,           \* kernel: the next watch descriptor
  fmarks           \* kernel: inodes under a fanotify mark

libvars == <<initialized, fanotify_mode, error, ret, reg, call>>
kvars == <<kmarks, knext, fmarks>>
vars == <<initialized, fanotify_mode, error, ret, reg, call, kmarks, knext, fmarks>>

NoCall == [op |-> "none", files |-> << >>, old |-> << >>, new |-> << >>, todo |-> {}]
Idle == call.op = "none"

Room(n) == reg.next_id + n <= MaxId

Init ==
  /\ initialized = FALSE
  /\ fanotify_mode = FALSE
  /\ error = 0
  /\ ret = TRUE
  /\ reg = EmptyRegistry(1, 0)
  /\ call = NoCall
  /\ kmarks = EmptyMap
  /\ knext = 1
  /\ fmarks = {}

(***************************************************************************)
(* The kernel (external).                                                  *)
(***************************************************************************)

\* A watched inode is deleted or its file system unmounted: the kernel
\* removes the watch or the mark.  The library is told by an IN_IGNORED
\* event (inotify) or not at all, and changes nothing in the registry.
KernelDrop(i) ==
  /\ \/ i \in DOMAIN kmarks
     \/ i \in fmarks /\ ~WatchFilesystem
  /\ kmarks' = Drop(kmarks, i)
  /\ fmarks' = fmarks \ {i}
  /\ UNCHANGED <<libvars, knext>>

\* inotify_add_watch on inode i returns wd: a watched inode keeps its
\* descriptor.
InotifyAddWatch(i, wd) ==
  IF i \in DOMAIN kmarks
    THEN wd = kmarks[i] /\ UNCHANGED kvars
    ELSE /\ wd = knext /\ knext <= MaxWd
         /\ kmarks' = Put(kmarks, i, wd)
         /\ knext' = knext + 1
         /\ UNCHANGED fmarks

\* fanotify_mark on inode i, or on the file system it is on
FanotifyMark(i) ==
  /\ fmarks' = IF WatchFilesystem THEN Inodes ELSE fmarks \cup {i}
  /\ UNCHANGED <<kmarks, knext>>

KernelHasWd(wd) == \E i \in DOMAIN kmarks : kmarks[i] = wd

(***************************************************************************)
(* init and cleanup.                                                       *)
(***************************************************************************)
init(fanotify) ==
  /\ Idle /\ ~initialized
  /\ fanotify_mode' = fanotify
  /\ \/ /\ initialized' = TRUE /\ ret' = TRUE /\ error' = 0
        /\ reg' = [watches |-> reg.watches, by_wd |-> EmptyMap,
                   by_fid |-> EmptyMap, by_filename |-> EmptyMap,
                   next_id |-> reg.next_id,
                   next_fanotify_wd |-> reg.next_fanotify_wd]
        /\ kmarks' = EmptyMap /\ knext' = 1 /\ fmarks' = {}
     \/ /\ initialized' = FALSE /\ ret' = FALSE /\ error' \in Errnos
        /\ UNCHANGED <<reg, kvars>>
  /\ UNCHANGED call

cleanup ==
  /\ Idle /\ initialized
  /\ initialized' = FALSE
  /\ error' = 0
  /\ reg' = EmptyRegistry(reg.next_id, reg.next_fanotify_wd)
  /\ kmarks' = EmptyMap /\ fmarks' = {}
  /\ UNCHANGED <<fanotify_mode, ret, call, knext>>

(***************************************************************************)
(* watch_files.                                                            *)
(***************************************************************************)
watch_files(files) ==
  /\ Idle /\ initialized /\ Room(2 * Len(files))
  /\ call' = [NoCall EXCEPT !.op = "watch_files", !.files = files]
  /\ error' = 0
  /\ UNCHANGED <<initialized, fanotify_mode, ret, reg, kvars>>

Return(result) == ret' = result /\ call' = NoCall

NextFile == call' = [call EXCEPT !.files = Tail(@)] /\ UNCHANGED ret

\* The name filed for a file: a directory's ends with '/'.
Recorded(fname, isdir) == IF isdir THEN DirName(fname) ELSE fname

\* One turn of the loop in inotify mode.  fname leads to inode i at this
\* moment, and isdir() answers on whatever it leads to a moment later.
WatchFileInotify ==
  LET fname == Head(call.files)
  IN  /\ call.op = "watch_files" /\ call.files # << >> /\ ~fanotify_mode
      /\ \/ \E i \in Inodes, isdir \in BOOLEAN, wd \in 1..MaxWd :
              /\ InotifyAddWatch(i, wd)
              /\ reg' = CreateInotifyWatch(reg, wd, Recorded(fname, isdir))
              /\ NextFile
              /\ UNCHANGED error
         \/ /\ error' \in Errnos
            /\ Return(FALSE)
            /\ UNCHANGED <<reg, kvars>>
      /\ UNCHANGED <<initialized, fanotify_mode>>

\* fanotify_encode_fid files the mount fd of every directory it meets.
FileMountFd(r, w, d) == CreateFanotifyWatch(r, w, <<"fsid">>, MountName(d), TRUE)

\* One turn of the loop in fanotify mode.  A failing fanotify_mark sets
\* error; a failing fanotify_encode_fid does not, and what it filed before
\* it failed stays.
WatchFileFanotify ==
  LET fname == Head(call.files)
      d == DirName(fname)
  IN  /\ call.op = "watch_files" /\ call.files # << >> /\ fanotify_mode
      /\ \/ \E i \in Inodes :
              /\ FanotifyMark(i)
              /\ UNCHANGED error
              /\ \/ \E w \in 1..MaxWd :
                      /\ IsNextFanotifyWd(reg, w)
                      /\ reg' = CreateFanotifyWatch(reg, w, <<"fid", i>>, fname, FALSE)
                      /\ NextFile
                 \/ \E w1, w2 \in 1..MaxWd :
                      LET r == FileMountFd(reg, w1, d)
                      IN  /\ IsNextFanotifyWd(reg, w1)
                          /\ IsNextFanotifyWd(r, w2)
                          /\ reg' = CreateFanotifyWatch(r, w2, <<"dfid", i>>, d, TRUE)
                          /\ NextFile
                 \/ UNCHANGED reg /\ Return(FALSE)
                 \/ \E w \in 1..MaxWd :
                      /\ IsNextFanotifyWd(reg, w)
                      /\ reg' = FileMountFd(reg, w, d)
                      /\ Return(FALSE)
         \/ /\ error' \in Errnos
            /\ Return(FALSE)
            /\ UNCHANGED <<reg, kvars>>
      /\ UNCHANGED <<initialized, fanotify_mode>>

WatchFilesDone ==
  /\ call.op = "watch_files" /\ call.files = << >>
  /\ Return(TRUE)
  /\ UNCHANGED <<initialized, fanotify_mode, error, reg, kvars>>

(***************************************************************************)
(* convert_fanotify_event: an event whose fid is not filed yet gets a      *)
(* watch of its own under the path the fid resolves to, if it does.        *)
(***************************************************************************)
convert_fanotify_event(f) ==
  /\ Idle /\ initialized /\ fanotify_mode
  /\ f # <<"fsid">> /\ f[2] \in fmarks
  /\ error' = 0
  /\ \/ /\ f \notin DOMAIN reg.by_fid /\ Room(1)
        /\ \E n \in Names, w \in 1..MaxWd :
             /\ IsNextFanotifyWd(reg, w)
             /\ reg' = CreateFanotifyWatch(reg, w, f, n, FALSE)
     \/ UNCHANGED reg
  /\ UNCHANGED <<initialized, fanotify_mode, ret, call, kvars>>

(***************************************************************************)
(* Renaming.                                                               *)
(***************************************************************************)
set_filename_by_wd(wd, filename) ==
  /\ Idle /\ initialized
  /\ wd \in DOMAIN reg.by_wd
  /\ reg' = RenameWatch(reg, reg.by_wd[wd], filename)
  /\ UNCHANGED <<initialized, fanotify_mode, error, ret, call, kvars>>

set_filename_by_filename(oldname, newname) ==
  /\ Idle /\ initialized
  /\ oldname \in DOMAIN reg.by_filename
  /\ reg' = RenameWatch(reg, reg.by_filename[oldname], newname)
  /\ UNCHANGED <<initialized, fanotify_mode, error, ret, call, kvars>>

\* An empty name is refused.
replace_filename(oldname, newname) ==
  /\ Idle /\ initialized
  /\ oldname # << >> /\ newname # << >>
  /\ \A n \in DOMAIN reg.by_filename :
        Len(n) + Len(newname) - Len(oldname) <= MaxName
  /\ call' = [NoCall EXCEPT !.op = "replace_filename", !.old = oldname,
                            !.new = newname,
                            !.todo = {reg.by_filename[n] : n \in DOMAIN reg.by_filename}]
  /\ UNCHANGED <<initialized, fanotify_mode, error, ret, reg, kvars>>

\* The entries are visited in the order of their names.  Renaming one watch
\* leaves the names of the others alone, so the next one visited is the one
\* with the least name of those left.
VisitedNext(id) ==
  /\ id \in call.todo
  /\ \A other \in call.todo \cap DOMAIN reg.watches :
       id \in DOMAIN reg.watches =>
         ~LexLess(reg.watches[other].filename, reg.watches[id].filename)

Renamed(cur, oldname, newname) ==
  newname \o SubSeq(cur, Len(oldname) + 1, Len(cur))

\* Faulty: a watch whose name is exactly the old prefix is left out.
BugToRenameStrict(id) ==
  /\ id \in DOMAIN reg.watches
  /\ Len(reg.watches[id].filename) > Len(call.old)
  /\ StartsWith(reg.watches[id].filename, call.old)
  /\ reg.watches[id].filename # call.new

ToRename(id) ==
  /\ id \in DOMAIN reg.watches
  /\ StartsWith(reg.watches[id].filename, call.old)
  /\ reg.watches[id].filename # call.new

ReplaceNext ==
  /\ call.op = "replace_filename"
  /\ \E id \in call.todo :
       /\ VisitedNext(id)
       /\ call' = [call EXCEPT !.todo = @ \ {id}]
       /\ reg' = IF ToRename(id)
                   THEN RenameWatch(reg, id,
                          Renamed(reg.watches[id].filename, call.old, call.new))
                   ELSE reg
  /\ UNCHANGED <<initialized, fanotify_mode, error, ret, kvars>>

\* Faulty: the loop goes on until no filename starts with the old prefix.
BugReplaceDoneUntilGone ==
  /\ call.op = "replace_filename" /\ call.todo = {}
  /\ \A n \in DOMAIN reg.by_filename : ~StartsWith(n, call.old)
  /\ call' = NoCall
  /\ UNCHANGED <<initialized, fanotify_mode, error, ret, reg, kvars>>

ReplaceDone ==
  /\ call.op = "replace_filename" /\ call.todo = {}
  /\ call' = NoCall
  /\ UNCHANGED <<initialized, fanotify_mode, error, ret, reg, kvars>>

(***************************************************************************)
(* Removal.  With fanotify the kernel has no object to remove and the call *)
(* fails; a refusal of the kernel sets error to the return value, -1.      *)
(***************************************************************************)

\* Faulty: the watch is destroyed without inotify_rm_watch.
BugRemoveKeepsKernelWatch(id) ==
  /\ reg' = DestroyWatch(reg, id)
  /\ error' = 0 /\ ret' = TRUE
  /\ UNCHANGED <<initialized, fanotify_mode, call, kvars>>

RemoveWatch(id) ==
  LET w == reg.watches[id]
  IN  /\ \/ /\ w.fid = NoFid /\ KernelHasWd(w.wd)
            /\ kmarks' = [i \in {x \in DOMAIN kmarks : kmarks[x] # w.wd} |-> kmarks[i]]
            /\ reg' = DestroyWatch(reg, id)
            /\ error' = 0 /\ ret' = TRUE
         \/ /\ w.fid # NoFid
            /\ error' = 0 /\ ret' = FALSE
            /\ UNCHANGED <<reg, kmarks>>
         \/ /\ w.fid = NoFid /\ ~KernelHasWd(w.wd)
            /\ error' = -1 /\ ret' = FALSE
            /\ UNCHANGED <<reg, kmarks>>
      /\ UNCHANGED <<initialized, fanotify_mode, call, knext, fmarks>>

RemoveNothing ==
  ret' = TRUE /\ UNCHANGED <<initialized, fanotify_mode, error, reg, call, kvars>>

remove_watch_by_wd(wd) ==
  /\ Idle /\ initialized
  /\ IF wd \in DOMAIN reg.by_wd THEN RemoveWatch(reg.by_wd[wd]) ELSE RemoveNothing

remove_watch_by_filename(filename) ==
  /\ Idle /\ initialized
  /\ IF filename \in DOMAIN reg.by_filename
       THEN RemoveWatch(reg.by_filename[filename])
       ELSE RemoveNothing

Next ==
  \/ \E i \in Inodes : KernelDrop(i)
  \/ \E b \in BOOLEAN : init(b)
  \/ cleanup
  \/ \E files \in FileLists : watch_files(files)
  \/ WatchFileInotify
  \/ WatchFileFanotify
  \/ WatchFilesDone
  \/ \E f \in Fids : convert_fanotify_event(f)
  \/ \E wd \in 1..MaxWd, n \in Names : set_filename_by_wd(wd, n)
  \/ \E o \in DOMAIN reg.by_filename, n \in Names : set_filename_by_filename(o, n)
  \/ \E p \in Replacements : replace_filename(p[1], p[2])
  \/ ReplaceNext
  \/ ReplaceDone
  \/ \E wd \in 1..MaxWd : remove_watch_by_wd(wd)
  \/ \E n \in DOMAIN reg.by_filename \cup Names : remove_watch_by_filename(n)

Spec == Init /\ [][Next]_vars

\* A call that is in its loop goes on: the caller's thread runs, and every
\* turn of the two loops consists of system calls that return.
FairSpec ==
  Spec /\ WF_vars(WatchFileInotify \/ WatchFileFanotify \/ WatchFilesDone
                    \/ ReplaceNext \/ ReplaceDone)

(***************************************************************************)
(* Type invariant.                                                         *)
(***************************************************************************)
IsMap(f, K, V) == f \in [DOMAIN f -> V] /\ DOMAIN f \subseteq K

Ids == Nat \ {0}
Wds == Nat \ {0}
Filenames == Seq(Nat)
Watches == [wd : Wds, fid : Fids \cup {NoFid}, filename : Filenames, dirf : BOOLEAN]

RegistryOK(r) ==
  /\ IsMap(r.watches, Ids, Watches)
  /\ IsMap(r.by_wd, Wds, Ids)
  /\ IsMap(r.by_fid, Fids, Ids)
  /\ IsMap(r.by_filename, Filenames, Ids)
  /\ r.next_id \in Ids
  /\ r.next_fanotify_wd \in Nat

Calls == [op : {"none", "watch_files", "replace_filename"}, files : Seq(Names),
          old : Filenames, new : Filenames, todo : SUBSET Ids]

\* Every variable has the shape of the field or the kernel state it models.
TypeOK ==
  /\ initialized \in BOOLEAN
  /\ fanotify_mode \in BOOLEAN
  /\ error \in Int
  /\ ret \in BOOLEAN
  /\ RegistryOK(reg)
  /\ call \in Calls
  /\ IsMap(kmarks, Inodes, Wds)
  /\ knext \in Wds
  /\ fmarks \subseteq Inodes

(***************************************************************************)
(* Safety.                                                                 *)
(***************************************************************************)

\* Each index leads from a key to a watch that exists and has that key.
ByWdAgrees(r) ==
  \A wd \in DOMAIN r.by_wd :
    r.by_wd[wd] \in DOMAIN r.watches /\ r.watches[r.by_wd[wd]].wd = wd

ByFidAgrees(r) ==
  \A f \in DOMAIN r.by_fid :
    r.by_fid[f] \in DOMAIN r.watches /\ r.watches[r.by_fid[f]].fid = f

ByFilenameAgrees(r) ==
  \A n \in DOMAIN r.by_filename :
    r.by_filename[n] \in DOMAIN r.watches /\ r.watches[r.by_filename[n]].filename = n

\* No index of the registry ever leads to a watch that was destroyed, or to
\* one with another key, although destroy_watch removes index entries by key
\* and create_watch and rename_watch leave entries of other watches in place.
\* The lookup `&self.watches[&id]` in watch() therefore never panics.
IndexConsistent == ByWdAgrees(reg) /\ ByFidAgrees(reg) /\ ByFilenameAgrees(reg)

\* Every watch the kernel holds for this handle is filed by its descriptor,
\* whatever names the inode was watched under and however the watches were
\* renamed or removed: an event of a live watch always finds a filename and
\* is counted by record_stats.
KernelWatchTracked ==
  \A i \in DOMAIN kmarks : kmarks[i] \in DOMAIN reg.by_wd

\* In fanotify mode the descriptors create_watch makes up tell all watches
\* apart, also after next_fanotify_wd has wrapped around.
FanotifyDescriptorsUnique ==
  fanotify_mode /\ initialized =>
    \A id \in DOMAIN reg.watches :
      LET wd == reg.watches[id].wd
      IN  wd \in DOMAIN reg.by_wd /\ reg.by_wd[wd] = id

Comparable(s, t) == StartsWith(s, t) \/ StartsWith(t, s)

\* The loop of replace_filename loses no name: a filename in the index that
\* still starts with the old prefix belongs to an entry the loop has yet to
\* visit, also when renamed entries collide with existing ones.
ReplaceLeavesNoOldName ==
  call.op = "replace_filename" /\ ~Comparable(call.old, call.new) =>
    \A n \in DOMAIN reg.by_filename :
      StartsWith(n, call.old) => reg.by_filename[n] \in call.todo

AttributionKept ==
  \A i \in DOMAIN kmarks :
    i \in DOMAIN kmarks' /\ kmarks'[i] = kmarks[i] =>
      /\ kmarks[i] \in DOMAIN reg'.by_wd
      /\ reg'.by_wd[kmarks[i]] = reg.by_wd[kmarks[i]]

\* While the kernel holds a watch, no call changes which watch its events are
\* attributed to: watching the same inode under a second name keeps the first
\* entry, and renaming keeps the entry.
StableAttribution == [][AttributionKept]_vars

\* watch_files and replace_filename return, whatever the kernel does
\* between the turns of their loops.
CallReturns == (call.op # "none") ~> (call.op = "none")
=============================================================================
