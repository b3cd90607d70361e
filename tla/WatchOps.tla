------------------------------ MODULE WatchOps ------------------------------
(***************************************************************************)
(* The watch registry of the Inotifytools handle (inotify.rs): the table   *)
(* of watches and the three indexes over it, as pure operators.            *)
(*                                                                         *)
(* A registry is a record with                                             *)
(*   watches           id -> watch, the boxed Watch structs                *)
(*   by_wd             watch descriptor -> id                              *)
(*   by_fid            fanotify file identifier -> id                      *)
(*   by_filename       filename -> id                                      *)
(*   next_id           the id the next watch gets                          *)
(*   next_fanotify_wd  the last descriptor made up for fanotify            *)
(* The maps are partial functions.  A filename is a non-empty sequence of  *)
(* bytes (small naturals, 1 standing for '/'), because the code compares   *)
(* filenames byte by byte: as map keys, by prefix, and in map order.       *)
(***************************************************************************)
EXTENDS Integers, Sequences

CONSTANTS
  NoFid,     \* the fid of an inotify watch (None)
  MaxWd      \* i32::MAX, the largest watch descriptor

ASSUME MaxWdAssumption == MaxWd \in Nat \ {0}

(***************************************************************************)
(* Maps.                                                                   *)
(***************************************************************************)
EmptyMap == [x \in {} |-> x]

\* BTreeMap::insert
Put(f, k, v) == [x \in (DOMAIN f) \cup {k} |-> IF x = k THEN v ELSE f[x]]

\* Entry::Vacant: an existing entry is kept.
PutIfVacant(f, k, v) == IF k \in DOMAIN f THEN f ELSE Put(f, k, v)

\* BTreeMap::remove
Drop(f, k) == [x \in (DOMAIN f) \ {k} |-> f[x]]

(***************************************************************************)
(* Filenames.                                                              *)
(***************************************************************************)
Slash == 1

\* slice::starts_with
StartsWith(s, p) == Len(p) <= Len(s) /\ SubSeq(s, 1, Len(p)) = p

\* A directory's filename always ends with '/'.
DirName(n) == IF n[Len(n)] = Slash THEN n ELSE Append(n, Slash)

\* The name under which a directory's mount fd is filed: no trailing '/'.
MountName(d) == SubSeq(d, 1, Len(d) - 1)

\* The order of the keys of by_filename.
LexLess(s, t) ==
  \/ Len(s) < Len(t) /\ StartsWith(t, s)
  \/ \E i \in 1..Len(s) :
        /\ i <= Len(t)
        /\ s[i] < t[i]
        /\ \A j \in 1..(i - 1) : s[j] = t[j]

(***************************************************************************)
(* The registry.                                                           *)
(***************************************************************************)
EmptyRegistry(id, fan) ==
  [watches |-> EmptyMap, by_wd |-> EmptyMap, by_fid |-> EmptyMap,
   by_filename |-> EmptyMap, next_id |-> id, next_fanotify_wd |-> fan]

\* Faulty: the counter advances without looking for a free descriptor.
BugNextWdTaken(r, w) == w = (r.next_fanotify_wd % MaxWd) + 1

\* The loop that hands out descriptors in fanotify mode: the first one after
\* the last handed out that no watch is filed under, wrapping from i32::MAX
\* to 1.
IsNextFanotifyWd(r, w) ==
  LET last == r.next_fanotify_wd
      Taken(x) == x \in DOMAIN r.by_wd
  IN  /\ w \in 1..MaxWd
      /\ ~Taken(w)
      /\ IF w > last
           THEN \A x \in (last + 1)..(w - 1) : Taken(x)
           ELSE \A x \in 1..MaxWd : x > last \/ x < w => Taken(x)

\* Faulty: insert() in place of the vacant-entry insertion into by_wd.
BugCreateOverwritesWd(r, wd, fan, fid, filename, dirf) ==
  LET id == r.next_id
  IN  [watches     |-> Put(r.watches, id, [wd |-> wd, fid |-> fid,
                                           filename |-> filename, dirf |-> dirf]),
       by_wd       |-> Put(r.by_wd, wd, id),
       by_fid      |-> IF fid = NoFid THEN r.by_fid
                                      ELSE PutIfVacant(r.by_fid, fid, id),
       by_filename |-> PutIfVacant(r.by_filename, filename, id),
       next_id     |-> id + 1,
       next_fanotify_wd |-> fan]

\* Faulty: inotify watches are filed in by_fid too.
BugCreateFilesNoFid(r, wd, fan, fid, filename, dirf) ==
  LET new == BugCreateOverwritesWd(r, wd, fan, fid, filename, dirf)
  IN  [new EXCEPT !.by_fid = PutIfVacant(r.by_fid, fid, r.next_id)]

\* create_watch for a watch whose descriptor is known; `fan` is the counter
\* next_fanotify_wd afterwards.  A watch that no index takes is dropped.
CreateWatch(r, wd, fan, fid, filename, dirf) ==
  LET id == r.next_id
      w  == [wd |-> wd, fid |-> fid, filename |-> filename, dirf |-> dirf]
      inserted == \/ wd \notin DOMAIN r.by_wd
                  \/ fid # NoFid /\ fid \notin DOMAIN r.by_fid
                  \/ filename \notin DOMAIN r.by_filename
  IN  [watches     |-> IF inserted THEN Put(r.watches, id, w) ELSE r.watches,
       by_wd       |-> PutIfVacant(r.by_wd, wd, id),
       by_fid      |-> IF fid = NoFid THEN r.by_fid
                                      ELSE PutIfVacant(r.by_fid, fid, id),
       by_filename |-> PutIfVacant(r.by_filename, filename, id),
       next_id     |-> id + 1,
       next_fanotify_wd |-> fan]

\* create_watch(wd, None, filename, 0) with the kernel's descriptor
CreateInotifyWatch(r, wd, filename) ==
  CreateWatch(r, wd, r.next_fanotify_wd, NoFid, filename, FALSE)

\* create_watch(0, Some(fid), filename, dirf) when the loop settles on w
CreateFanotifyWatch(r, w, fid, filename, dirf) ==
  CreateWatch(r, w, w, fid, filename, dirf)

\* Faulty: the filename's entry is left behind.
BugDestroyKeepsName(r, id) ==
  LET w == r.watches[id]
  IN  [r EXCEPT !.watches = Drop(@, id), !.by_wd = Drop(@, w.wd)]

\* destroy_watch: the index entries are removed by key, whichever watch
\* they belong to.
DestroyWatch(r, id) ==
  LET w == r.watches[id]
  IN  [watches     |-> Drop(r.watches, id),
       by_wd       |-> Drop(r.by_wd, w.wd),
       by_fid      |-> IF w.fid = NoFid THEN r.by_fid ELSE Drop(r.by_fid, w.fid),
       by_filename |-> Drop(r.by_filename, w.filename),
       next_id     |-> r.next_id,
       next_fanotify_wd |-> r.next_fanotify_wd]

\* rename_watch: the old entry goes only if it is this watch's own, and an
\* entry already filed under the new name is kept.
RenameWatch(r, id, newname) ==
  LET old  == r.watches[id].filename
      rest == IF old \in DOMAIN r.by_filename /\ r.by_filename[old] = id
                THEN Drop(r.by_filename, old)
                ELSE r.by_filename
  IN  [watches     |-> Put(r.watches, id,
                           [wd |-> r.watches[id].wd, fid |-> r.watches[id].fid,
                            filename |-> newname, dirf |-> r.watches[id].dirf]),
       by_wd       |-> r.by_wd,
       by_fid      |-> r.by_fid,
       by_filename |-> PutIfVacant(rest, newname, id),
       next_id     |-> r.next_id,
       next_fanotify_wd |-> r.next_fanotify_wd]
=============================================================================
