-------------------------- MODULE WatchTableProofs --------------------------
(***************************************************************************)
(* Proofs about WatchTable, for every set of inodes and names, every       *)
(* descriptor width and every bound.                                       *)
(***************************************************************************)
EXTENDS WatchTable, TLAPS

(***************************************************************************)
(* Maps.                                                                   *)
(***************************************************************************)

\* The empty map is a map between any two sets.
LEMMA EmptyIsMap ==
  ASSUME NEW K, NEW V
  PROVE  IsMap(EmptyMap, K, V) /\ DOMAIN EmptyMap = {}
  BY DEF EmptyMap, IsMap

(***************************************************************************)
(* The registry.                                                           *)
(***************************************************************************)

\* Ids are given out once.
FreshIds(r) == \A id \in DOMAIN r.watches : id < r.next_id

RegInv(r) ==
  /\ RegistryOK(r)
  /\ ByWdAgrees(r)
  /\ ByFidAgrees(r)
  /\ ByFilenameAgrees(r)
  /\ FreshIds(r)

\* new() and cleanup() leave an empty registry.
LEMMA EmptyRegistryInv ==
  ASSUME NEW id \in Ids, NEW fan \in Nat
  PROVE  RegInv(EmptyRegistry(id, fan))
  BY EmptyIsMap
  DEF EmptyRegistry, RegInv, RegistryOK, ByWdAgrees, ByFidAgrees, ByFilenameAgrees,
      FreshIds

\* create_watch keeps the indexes in agreement with the table.
LEMMA CreateInv ==
  ASSUME NEW r, RegInv(r), NEW wd \in Wds, NEW fan \in Nat,
         NEW fid \in Fids \cup {NoFid}, NEW filename \in Filenames,
         NEW dirf \in BOOLEAN
  PROVE  RegInv(CreateWatch(r, wd, fan, fid, filename, dirf))
<1> DEFINE id == r.next_id
           w  == [wd |-> wd, fid |-> fid, filename |-> filename, dirf |-> dirf]
           ins == \/ wd \notin DOMAIN r.by_wd
                  \/ fid # NoFid /\ fid \notin DOMAIN r.by_fid
                  \/ filename \notin DOMAIN r.by_filename
           W == IF ins THEN Put(r.watches, id, w) ELSE r.watches
           D == PutIfVacant(r.by_wd, wd, id)
           F == IF fid = NoFid THEN r.by_fid ELSE PutIfVacant(r.by_fid, fid, id)
           N == PutIfVacant(r.by_filename, filename, id)
           new == CreateWatch(r, wd, fan, fid, filename, dirf)
<1>1. /\ new.watches = W /\ new.by_wd = D /\ new.by_fid = F
      /\ new.by_filename = N /\ new.next_id = id + 1
      /\ new.next_fanotify_wd = fan
  BY DEF CreateWatch
<1>2. id \in Ids /\ id \notin DOMAIN r.watches /\ w \in Watches
  BY DEF RegInv, RegistryOK, FreshIds, Ids, Watches
<1>3. /\ IsMap(r.watches, Ids, Watches) /\ IsMap(r.by_wd, Wds, Ids)
      /\ IsMap(r.by_fid, Fids, Ids) /\ IsMap(r.by_filename, Filenames, Ids)
  BY DEF RegInv, RegistryOK
<1>4. /\ IsMap(W, Ids, Watches)
      /\ DOMAIN W = (DOMAIN r.watches) \cup (IF ins THEN {id} ELSE {})
      /\ \A x \in DOMAIN r.watches : W[x] = r.watches[x]
      /\ ins => W[id] = w
  BY <1>2, <1>3 DEF Put, IsMap
<1>5. /\ IsMap(D, Wds, Ids)
      /\ DOMAIN D = (DOMAIN r.by_wd) \cup {wd}
      /\ wd \notin DOMAIN r.by_wd => D[wd] = id
      /\ \A x \in DOMAIN r.by_wd : D[x] = r.by_wd[x]
  BY <1>2, <1>3 DEF PutIfVacant, Put, IsMap
<1>6. /\ IsMap(F, Fids, Ids)
      /\ DOMAIN F = (DOMAIN r.by_fid) \cup (IF fid = NoFid THEN {} ELSE {fid})
      /\ fid # NoFid /\ fid \notin DOMAIN r.by_fid => F[fid] = id
      /\ \A x \in DOMAIN r.by_fid : F[x] = r.by_fid[x]
  <2>1. CASE fid = NoFid
    BY <2>1, <1>3
  <2>2. CASE fid # NoFid
    <3>1. fid \in Fids
      BY <2>2
    <3>2. QED BY <2>2, <3>1, <1>2, <1>3 DEF PutIfVacant, Put, IsMap
  <2>3. QED BY <2>1, <2>2
<1>7. /\ IsMap(N, Filenames, Ids)
      /\ DOMAIN N = (DOMAIN r.by_filename) \cup {filename}
      /\ filename \notin DOMAIN r.by_filename => N[filename] = id
      /\ \A x \in DOMAIN r.by_filename : N[x] = r.by_filename[x]
  BY <1>2, <1>3 DEF PutIfVacant, Put, IsMap
<1>8. w.wd = wd /\ w.fid = fid /\ w.filename = filename
  OBVIOUS
<1> HIDE DEF W, D, F, N, w, new
<1>9. RegistryOK(new)
  BY <1>1, <1>2, <1>4, <1>5, <1>6, <1>7 DEF RegistryOK, Ids
<1>10. ByWdAgrees(new)
  BY <1>1, <1>4, <1>5, <1>8 DEF ByWdAgrees, RegInv
<1>11. ByFidAgrees(new)
  BY <1>1, <1>4, <1>6, <1>8 DEF ByFidAgrees, RegInv
<1>12. ByFilenameAgrees(new)
  BY <1>1, <1>4, <1>7, <1>8 DEF ByFilenameAgrees, RegInv
<1>13. FreshIds(new)
  BY <1>1, <1>2, <1>4 DEF FreshIds, RegInv, Ids, RegistryOK, IsMap
<1>14. QED BY <1>9, <1>10, <1>11, <1>12, <1>13 DEF RegInv, new

\* destroy_watch leaves no entry that leads to the destroyed watch.
LEMMA DestroyInv ==
  ASSUME NEW r, RegInv(r), NEW id \in DOMAIN r.watches
  PROVE  RegInv(DestroyWatch(r, id))
<1> DEFINE w == r.watches[id]
           W == Drop(r.watches, id)
           D == Drop(r.by_wd, w.wd)
           F == IF w.fid = NoFid THEN r.by_fid ELSE Drop(r.by_fid, w.fid)
           N == Drop(r.by_filename, w.filename)
           new == DestroyWatch(r, id)
<1>1. /\ new.watches = W /\ new.by_wd = D /\ new.by_fid = F
      /\ new.by_filename = N /\ new.next_id = r.next_id
      /\ new.next_fanotify_wd = r.next_fanotify_wd
  BY DEF DestroyWatch
<1>2. /\ IsMap(r.watches, Ids, Watches) /\ IsMap(r.by_wd, Wds, Ids)
      /\ IsMap(r.by_fid, Fids, Ids) /\ IsMap(r.by_filename, Filenames, Ids)
  BY DEF RegInv, RegistryOK
<1>3. /\ IsMap(W, Ids, Watches) /\ DOMAIN W = (DOMAIN r.watches) \ {id}
      /\ \A x \in DOMAIN W : W[x] = r.watches[x]
  BY <1>2 DEF Drop, IsMap
<1>4. /\ IsMap(D, Wds, Ids) /\ DOMAIN D = (DOMAIN r.by_wd) \ {w.wd}
      /\ \A x \in DOMAIN D : D[x] = r.by_wd[x]
  BY <1>2 DEF Drop, IsMap
<1>5. /\ IsMap(F, Fids, Ids) /\ DOMAIN F = (DOMAIN r.by_fid) \ {w.fid}
      /\ \A x \in DOMAIN F : F[x] = r.by_fid[x]
  BY <1>2, NoFidAssumption DEF Drop, IsMap
<1>6. /\ IsMap(N, Filenames, Ids)
      /\ DOMAIN N = (DOMAIN r.by_filename) \ {w.filename}
      /\ \A x \in DOMAIN N : N[x] = r.by_filename[x]
  BY <1>2 DEF Drop, IsMap
<1> HIDE DEF W, D, F, N, new
<1>7. RegistryOK(new)
  BY <1>1, <1>3, <1>4, <1>5, <1>6 DEF RegistryOK, RegInv
<1>8. ByWdAgrees(new)
  BY <1>1, <1>3, <1>4 DEF ByWdAgrees, RegInv
<1>9. ByFidAgrees(new)
  BY <1>1, <1>3, <1>5 DEF ByFidAgrees, RegInv
<1>10. ByFilenameAgrees(new)
  BY <1>1, <1>3, <1>6 DEF ByFilenameAgrees, RegInv
<1>11. FreshIds(new)
  BY <1>1, <1>3 DEF FreshIds, RegInv
<1>12. QED BY <1>7, <1>8, <1>9, <1>10, <1>11 DEF RegInv, new

\* rename_watch leaves no entry under the old name that leads to the renamed
\* watch, and none of another watch is lost or redirected.
LEMMA RenameInv ==
  ASSUME NEW r, RegInv(r), NEW id \in DOMAIN r.watches, NEW newname \in Filenames
  PROVE  RegInv(RenameWatch(r, id, newname))
<1> DEFINE old == r.watches[id].filename
           own == old \in DOMAIN r.by_filename /\ r.by_filename[old] = id
           rest == IF own THEN Drop(r.by_filename, old) ELSE r.by_filename
           w == [wd |-> r.watches[id].wd, fid |-> r.watches[id].fid,
                 filename |-> newname, dirf |-> r.watches[id].dirf]
           W == Put(r.watches, id, w)
           N == PutIfVacant(rest, newname, id)
           new == RenameWatch(r, id, newname)
<1>1. /\ new.watches = W /\ new.by_wd = r.by_wd /\ new.by_fid = r.by_fid
      /\ new.by_filename = N /\ new.next_id = r.next_id
      /\ new.next_fanotify_wd = r.next_fanotify_wd
  BY DEF RenameWatch
<1>2. /\ IsMap(r.watches, Ids, Watches) /\ IsMap(r.by_wd, Wds, Ids)
      /\ IsMap(r.by_fid, Fids, Ids) /\ IsMap(r.by_filename, Filenames, Ids)
  BY DEF RegInv, RegistryOK
<1>3. /\ w \in Watches /\ id \in Ids
      /\ w.wd = r.watches[id].wd /\ w.fid = r.watches[id].fid /\ w.filename = newname
  BY <1>2 DEF IsMap, Watches
<1>4. /\ IsMap(rest, Filenames, Ids)
      /\ \A n \in DOMAIN rest : /\ n \in DOMAIN r.by_filename
                              /\ rest[n] = r.by_filename[n]
                              /\ rest[n] # id
  <2>1. \A n \in DOMAIN r.by_filename : r.by_filename[n] = id => n = old
    BY DEF RegInv, ByFilenameAgrees
  <2>2. CASE own
    BY <2>1, <2>2, <1>2 DEF Drop, IsMap
  <2>3. CASE ~own
    BY <2>1, <2>3, <1>2
  <2>4. QED BY <2>2, <2>3
<1> HIDE DEF rest, w
<1>5. /\ IsMap(W, Ids, Watches) /\ DOMAIN W = DOMAIN r.watches
      /\ W[id] = w
      /\ \A x \in DOMAIN r.watches : x # id => W[x] = r.watches[x]
  BY <1>2, <1>3 DEF Put, IsMap
<1>6. /\ IsMap(N, Filenames, Ids)
      /\ DOMAIN N = (DOMAIN rest) \cup {newname}
      /\ newname \notin DOMAIN rest => N[newname] = id
      /\ \A x \in DOMAIN rest : N[x] = rest[x]
  BY <1>3, <1>4 DEF PutIfVacant, Put, IsMap
<1> HIDE DEF W, N, new
<1>7. RegistryOK(new)
  BY <1>1, <1>5, <1>6 DEF RegistryOK, RegInv
<1>8. ByWdAgrees(new)
  BY <1>1, <1>3, <1>5 DEF ByWdAgrees, RegInv
<1>9. ByFidAgrees(new)
  BY <1>1, <1>3, <1>5 DEF ByFidAgrees, RegInv
<1>10. ByFilenameAgrees(new)
  <2> SUFFICES ASSUME NEW n \in DOMAIN N
               PROVE  N[n] \in DOMAIN W /\ W[N[n]].filename = n
    BY <1>1 DEF ByFilenameAgrees
  <2>1. CASE n \in DOMAIN rest
    BY <2>1, <1>4, <1>5, <1>6 DEF ByFilenameAgrees, RegInv
  <2>2. CASE n \notin DOMAIN rest
    BY <2>2, <1>3, <1>5, <1>6
  <2>3. QED BY <2>1, <2>2
<1>11. FreshIds(new)
  BY <1>1, <1>5 DEF FreshIds, RegInv
<1>12. QED BY <1>7, <1>8, <1>9, <1>10, <1>11 DEF RegInv, new

\* What create_watch adds: an entry for its descriptor, and, when the
\* descriptor was free, the watch itself.
LEMMA CreateAdds ==
  ASSUME NEW r, RegInv(r), NEW wd \in Wds, NEW fan \in Nat,
         NEW fid \in Fids \cup {NoFid}, NEW filename \in Filenames,
         NEW dirf \in BOOLEAN
  PROVE  LET new == CreateWatch(r, wd, fan, fid, filename, dirf)
         IN  /\ DOMAIN new.by_wd = (DOMAIN r.by_wd) \cup {wd}
             /\ \A x \in DOMAIN r.by_wd : new.by_wd[x] = r.by_wd[x]
             /\ wd \notin DOMAIN r.by_wd =>
                  /\ new.by_wd[wd] = r.next_id
                  /\ DOMAIN new.watches = (DOMAIN r.watches) \cup {r.next_id}
                  /\ new.watches[r.next_id].wd = wd
                  /\ new.watches[r.next_id].fid = fid
                  /\ \A id \in DOMAIN r.watches : new.watches[id] = r.watches[id]
<1>1. r.next_id \notin DOMAIN r.watches
  BY DEF RegInv, RegistryOK, FreshIds, Ids
<1>2. QED BY <1>1 DEF CreateWatch, Put, PutIfVacant

\* In fanotify mode every watch has a fid, so remove_watch never removes one,
\* and is the watch its descriptor leads to.
FanotifyReg(r) ==
  \A id \in DOMAIN r.watches :
    /\ r.watches[id].fid # NoFid
    /\ r.watches[id].wd \in DOMAIN r.by_wd
    /\ r.by_wd[r.watches[id].wd] = id

\* create_watch in fanotify mode.
LEMMA CreateFanotify ==
  ASSUME NEW r, RegInv(r), FanotifyReg(r), NEW w, IsNextFanotifyWd(r, w),
         NEW fid \in Fids, NEW filename \in Filenames, NEW dirf \in BOOLEAN
  PROVE  /\ RegInv(CreateFanotifyWatch(r, w, fid, filename, dirf))
         /\ FanotifyReg(CreateFanotifyWatch(r, w, fid, filename, dirf))
         /\ DOMAIN r.by_wd \subseteq
              DOMAIN CreateFanotifyWatch(r, w, fid, filename, dirf).by_wd
         /\ \A x \in DOMAIN r.by_wd :
              CreateFanotifyWatch(r, w, fid, filename, dirf).by_wd[x] = r.by_wd[x]
<1> DEFINE new == CreateWatch(r, w, w, fid, filename, dirf)
<1>1. w \in Wds /\ w \in Nat /\ w \notin DOMAIN r.by_wd
  BY MaxWdAssumption DEF IsNextFanotifyWd, Wds
<1>2. fid \in Fids \cup {NoFid} /\ fid # NoFid
  BY NoFidAssumption
<1>3. RegInv(new)
  BY <1>1, <1>2, CreateInv
<1>4. /\ DOMAIN new.by_wd = (DOMAIN r.by_wd) \cup {w}
      /\ \A x \in DOMAIN r.by_wd : new.by_wd[x] = r.by_wd[x]
      /\ new.by_wd[w] = r.next_id
      /\ DOMAIN new.watches = (DOMAIN r.watches) \cup {r.next_id}
      /\ new.watches[r.next_id].wd = w
      /\ new.watches[r.next_id].fid = fid
      /\ \A id \in DOMAIN r.watches : new.watches[id] = r.watches[id]
  BY <1>1, <1>2, CreateAdds
<1> HIDE DEF new
<1>5. FanotifyReg(new)
  BY <1>1, <1>2, <1>4 DEF FanotifyReg
<1>6. QED BY <1>3, <1>4, <1>5 DEF CreateFanotifyWatch, new

\* rename_watch changes no descriptor and no fid.
LEMMA RenameKeeps ==
  ASSUME NEW r, RegInv(r), NEW id \in DOMAIN r.watches, NEW newname \in Filenames
  PROVE  /\ RenameWatch(r, id, newname).by_wd = r.by_wd
         /\ FanotifyReg(r) => FanotifyReg(RenameWatch(r, id, newname))
  BY DEF RenameWatch, FanotifyReg, Put

(***************************************************************************)
(* The invariant of the state machine.  TypeOK and IndexConsistent are not *)
(* inductive by themselves: create_watch files the id next_id, so ids must *)
(* be fresh; and init clears the indexes but not the table, so the table   *)
(* must be empty whenever the handle is not initialised.                   *)
(***************************************************************************)

\* Nothing is registered, and no call is in its loop, without a handle.
Quiescent ==
  ~initialized => /\ DOMAIN reg.watches = {}
                  /\ DOMAIN kmarks = {}
                  /\ Idle

Inv ==
  /\ TypeOK
  /\ RegInv(reg)
  /\ Quiescent
  /\ KernelWatchTracked
  /\ fanotify_mode /\ initialized => FanotifyReg(reg)

\* The parts of Inv that a step which leaves the registry alone can disturb.
LEMMA InvParts ==
  ASSUME TypeOK', RegInv(reg'), Quiescent', KernelWatchTracked',
         fanotify_mode' /\ initialized' => FanotifyReg(reg')
  PROVE  Inv'
  BY DEF Inv

\* The initial state.
LEMMA InitInv == Init => Inv
<1> SUFFICES ASSUME Init PROVE Inv
  OBVIOUS
<1> USE DEF Init
<1>1. RegInv(reg)
  BY EmptyRegistryInv DEF Ids
<1>2. IsMap(kmarks, Inodes, Wds) /\ DOMAIN kmarks = {}
  BY EmptyIsMap
<1>3. call \in Calls
  <2>1. << >> \in Seq(Names) /\ << >> \in Seq(Nat)
    OBVIOUS
  <2>2. QED BY <2>1 DEF NoCall, Calls, Filenames
<1>4. TypeOK
  <2>1. initialized \in BOOLEAN /\ fanotify_mode \in BOOLEAN /\ ret \in BOOLEAN
    OBVIOUS
  <2>2. error \in Int /\ knext \in Wds /\ fmarks \subseteq Inodes
    BY DEF Wds
  <2>3. QED BY <1>1, <1>2, <1>3, <2>1, <2>2 DEF TypeOK, RegInv
<1>5. Quiescent
  <2>1. DOMAIN reg.watches = {}
    BY EmptyIsMap DEF EmptyRegistry
  <2>2. Idle
    BY DEF Idle, NoCall
  <2>3. QED BY <1>2, <2>1, <2>2 DEF Quiescent
<1>6. QED BY <1>1, <1>2, <1>4, <1>5 DEF Inv, KernelWatchTracked

(***************************************************************************)
(* Filenames.                                                              *)
(***************************************************************************)

\* The names watch_files derives from a file's name are filenames.
LEMMA NamesAreFilenames ==
  ASSUME NEW n \in Names
  PROVE  /\ n \in Filenames
         /\ DirName(n) \in Filenames
         /\ MountName(DirName(n)) \in Filenames
<1>1. n \in Seq(Nat) /\ n # << >>
  BY NamesAssumption
<1>2. DirName(n) \in Seq(Nat)
  BY <1>1 DEF DirName, Slash
<1>3. MountName(DirName(n)) \in Seq(Nat)
  BY <1>2 DEF MountName
<1>4. QED BY <1>1, <1>2, <1>3 DEF Filenames

\* So is the name replace_filename puts together.
LEMMA RenamedIsFilename ==
  ASSUME NEW c \in Filenames, NEW o \in Filenames, NEW n \in Filenames,
         StartsWith(c, o)
  PROVE  Renamed(c, o, n) \in Filenames
<1>1. SubSeq(c, Len(o) + 1, Len(c)) \in Seq(Nat)
  BY DEF Filenames, StartsWith
<1>2. QED BY <1>1 DEF Renamed, Filenames

(***************************************************************************)
(* One lemma per action.                                                   *)
(***************************************************************************)

\* The kernel drops a watch or a mark.
LEMMA KernelDropInv ==
  ASSUME Inv, NEW i \in Inodes, KernelDrop(i)
  PROVE  Inv'
<1> USE DEF KernelDrop, libvars
<1>1. /\ IsMap(kmarks', Inodes, Wds) /\ DOMAIN kmarks' \subseteq DOMAIN kmarks
      /\ \A x \in DOMAIN kmarks' : kmarks'[x] = kmarks[x]
  BY DEF Inv, TypeOK, Drop, IsMap
<1>2. TypeOK'
  BY <1>1 DEF Inv, TypeOK, IsMap
<1>3. KernelWatchTracked'
  BY <1>1 DEF Inv, KernelWatchTracked
<1>4. Quiescent'
  BY <1>1 DEF Inv, Quiescent, Idle
<1>5. RegInv(reg') /\ (fanotify_mode' /\ initialized' => FanotifyReg(reg'))
  BY DEF Inv
<1>6. QED BY <1>2, <1>3, <1>4, <1>5, InvParts

\* init clears the indexes of a table that is already empty.
LEMMA InitCallInv ==
  ASSUME Inv, NEW b \in BOOLEAN, init(b)
  PROVE  Inv'
<1>1. DOMAIN reg.watches = {} /\ DOMAIN kmarks = {} /\ call = call' /\ Idle
  BY DEF Inv, Quiescent, init
<1>2. CASE initialized' = TRUE
  <2>1. /\ reg'.watches = reg.watches /\ reg'.by_wd = EmptyMap
        /\ reg'.by_fid = EmptyMap /\ reg'.by_filename = EmptyMap
        /\ reg'.next_id = reg.next_id
        /\ reg'.next_fanotify_wd = reg.next_fanotify_wd
        /\ kmarks' = EmptyMap /\ knext' = 1 /\ fmarks' = {}
        /\ error' = 0 /\ ret' = TRUE /\ fanotify_mode' = b
    BY <1>2 DEF init
  <2>2. RegistryOK(reg')
    BY <2>1, EmptyIsMap DEF Inv, RegInv, RegistryOK
  <2>3. RegInv(reg')
    BY <1>1, <2>1, <2>2, EmptyIsMap
    DEF RegInv, ByWdAgrees, ByFidAgrees, ByFilenameAgrees, FreshIds
  <2>4. initialized' \in BOOLEAN /\ fanotify_mode' \in BOOLEAN /\ ret' \in BOOLEAN
    BY <1>2, <2>1
  <2>5. /\ error' \in Int /\ knext' \in Wds /\ fmarks' \subseteq Inodes
        /\ IsMap(kmarks', Inodes, Wds) /\ DOMAIN kmarks' = {}
    BY <2>1, EmptyIsMap DEF Wds
  <2>6. TypeOK'
    BY <1>1, <2>2, <2>4, <2>5 DEF TypeOK, Inv
  <2>7. KernelWatchTracked' /\ Quiescent'
    BY <1>2, <2>5 DEF KernelWatchTracked, Quiescent
  <2>8. FanotifyReg(reg')
    BY <1>1, <2>1 DEF FanotifyReg
  <2>9. QED BY <2>3, <2>6, <2>7, <2>8, InvParts
<1>3. CASE initialized' = FALSE
  <2>1. UNCHANGED <<reg, kmarks, knext, fmarks>> /\ error' \in Errnos /\ ret' = FALSE
        /\ fanotify_mode' = b
    BY <1>3 DEF init, kvars
  <2>2. error' \in Int
    BY <2>1, ErrnosAssumption
  <2>3. initialized' \in BOOLEAN /\ fanotify_mode' \in BOOLEAN /\ ret' \in BOOLEAN
    BY <1>3, <2>1
  <2>4. TypeOK'
    BY <1>1, <2>1, <2>2, <2>3 DEF TypeOK, Inv
  <2>5. KernelWatchTracked' /\ Quiescent'
    BY <1>1, <2>1 DEF KernelWatchTracked, Quiescent, Inv, Idle
  <2>6. QED BY <1>3, <2>1, <2>4, <2>5, InvParts DEF Inv
<1>4. QED BY <1>2, <1>3 DEF init

\* cleanup forgets everything.
LEMMA CleanupInv ==
  ASSUME Inv, cleanup
  PROVE  Inv'
<1> USE DEF cleanup
<1>1. reg.next_id \in Ids /\ reg.next_fanotify_wd \in Nat
  BY DEF Inv, RegInv, RegistryOK
<1>2. RegInv(reg')
  BY <1>1, EmptyRegistryInv
<1>3. DOMAIN reg'.watches = {}
  BY EmptyIsMap DEF EmptyRegistry
<1>4. IsMap(kmarks', Inodes, Wds) /\ DOMAIN kmarks' = {}
  BY EmptyIsMap
<1>5. initialized' \in BOOLEAN /\ fanotify_mode' \in BOOLEAN /\ ret' \in BOOLEAN
      /\ ~initialized'
  BY DEF Inv, TypeOK
<1>6. error' \in Int /\ knext' \in Wds /\ fmarks' \subseteq Inodes /\ call' = call
  BY DEF Inv, TypeOK
<1>7. TypeOK'
  BY <1>2, <1>4, <1>5, <1>6 DEF TypeOK, RegInv, Inv
<1>8. Quiescent' /\ KernelWatchTracked'
  BY <1>3, <1>4, <1>6 DEF Quiescent, Idle, KernelWatchTracked
<1>9. QED BY <1>2, <1>5, <1>7, <1>8, InvParts

\* A step of an initialised handle: what is left to show of it.
LEMMA HandleStep ==
  ASSUME Inv, initialized, UNCHANGED <<initialized, fanotify_mode>>,
         RegInv(reg'), KernelWatchTracked',
         fanotify_mode => FanotifyReg(reg'),
         call' \in Calls, error' \in Int, ret' \in BOOLEAN,
         IsMap(kmarks', Inodes, Wds), knext' \in Wds, fmarks' \subseteq Inodes
  PROVE  Inv'
<1>1. TypeOK'
  BY DEF TypeOK, Inv, RegInv
<1>2. Quiescent'
  BY DEF Quiescent
<1>3. QED BY <1>1, <1>2, InvParts

\* A step of an initialised handle that leaves the registry and the kernel
\* alone.
LEMMA CallStep ==
  ASSUME Inv, initialized, UNCHANGED <<initialized, fanotify_mode, reg, kvars>>,
         call' \in Calls, error' \in Int, ret' \in BOOLEAN
  PROVE  Inv'
<1>1. UNCHANGED <<kmarks, knext, fmarks>>
  BY DEF kvars
<1>2. RegInv(reg') /\ KernelWatchTracked' /\ (fanotify_mode => FanotifyReg(reg'))
  BY <1>1 DEF Inv, KernelWatchTracked
<1>3. IsMap(kmarks', Inodes, Wds) /\ knext' \in Wds /\ fmarks' \subseteq Inodes
  BY <1>1 DEF Inv, TypeOK
<1>4. QED BY <1>2, <1>3, HandleStep

\* The types of the parts of a call.
LEMMA CallTypes ==
  ASSUME Inv
  PROVE  /\ call.files \in Seq(Names) /\ call.old \in Filenames
         /\ call.new \in Filenames /\ call.todo \in SUBSET Ids
         /\ NoCall \in Calls
         /\ error \in Int /\ ret \in BOOLEAN
         /\ IsMap(kmarks, Inodes, Wds) /\ knext \in Wds /\ fmarks \subseteq Inodes
<1>1. << >> \in Seq(Names) /\ << >> \in Seq(Nat)
  OBVIOUS
<1>2. NoCall \in Calls
  BY <1>1 DEF NoCall, Calls, Filenames
<1>3. QED BY <1>2 DEF Inv, TypeOK, Calls

\* Only an initialised handle is in a call.
LEMMA InCallInitialized ==
  ASSUME Inv, call.op # "none"
  PROVE  initialized
  BY DEF Inv, Quiescent, Idle

\* watch_files is called.
LEMMA WatchFilesInv ==
  ASSUME Inv, NEW files \in FileLists, watch_files(files)
  PROVE  Inv'
<1> USE DEF watch_files
<1>1. files \in Seq(Names)
  BY FileListsAssumption
<1>2. call' \in Calls
  BY <1>1, CallTypes DEF Calls, NoCall
<1>3. QED BY <1>2, CallTypes, CallStep DEF kvars

\* The ways a turn of watch_files' loop goes on.
LEMMA TurnTypes ==
  ASSUME Inv, call.op = "watch_files", call.files # << >>
  PROVE  /\ Head(call.files) \in Names
         /\ NextFile => call' \in Calls /\ ret' \in BOOLEAN
         /\ Return(FALSE) => call' \in Calls /\ ret' \in BOOLEAN
<1>1. Head(call.files) \in Names /\ Tail(call.files) \in Seq(Names)
  BY CallTypes
<1>2. NextFile => call' \in Calls
  BY <1>1 DEF NextFile, Inv, TypeOK, Calls
<1>3. NextFile => ret' \in BOOLEAN
  BY CallTypes DEF NextFile
<1>4. QED BY <1>1, <1>2, <1>3, CallTypes DEF Return

\* A turn of watch_files' loop in inotify mode.
LEMMA WatchFileInotifyInv ==
  ASSUME Inv, WatchFileInotify
  PROVE  Inv'
<1> DEFINE fname == Head(call.files)
<1>1. /\ initialized /\ UNCHANGED <<initialized, fanotify_mode>> /\ ~fanotify_mode
      /\ call.op = "watch_files" /\ call.files # << >>
  BY InCallInitialized DEF WatchFileInotify
<1>2. ASSUME NEW i \in Inodes, NEW isdir \in BOOLEAN, NEW wd \in 1..MaxWd,
             InotifyAddWatch(i, wd),
             reg' = CreateInotifyWatch(reg, wd, Recorded(fname, isdir)),
             NextFile, UNCHANGED error
      PROVE  Inv'
  <2>1. wd \in Wds
    BY <1>2, MaxWdAssumption DEF Wds
  <2>2. Recorded(fname, isdir) \in Filenames
    <3>1. fname \in Names
      BY <1>1, TurnTypes
    <3>2. fname \in Filenames /\ DirName(fname) \in Filenames
      BY <3>1, NamesAreFilenames
    <3>3. QED BY <3>2 DEF Recorded
  <2>3. /\ reg.next_fanotify_wd \in Nat /\ NoFid \in Fids \cup {NoFid}
        /\ FALSE \in BOOLEAN /\ RegInv(reg)
    BY DEF Inv, RegInv, RegistryOK
  <2>4. RegInv(reg')
    BY <1>2, <2>1, <2>2, <2>3, CreateInv DEF CreateInotifyWatch
  <2>5. DOMAIN reg'.by_wd = (DOMAIN reg.by_wd) \cup {wd}
    <3> DEFINE new == CreateWatch(reg, wd, reg.next_fanotify_wd, NoFid,
                                  Recorded(fname, isdir), FALSE)
    <3>1. DOMAIN new.by_wd = (DOMAIN reg.by_wd) \cup {wd}
      BY DEF CreateWatch, PutIfVacant, Put
    <3>2. QED BY <1>2, <3>1 DEF CreateInotifyWatch
  <2>6. /\ IsMap(kmarks', Inodes, Wds) /\ knext' \in Wds /\ fmarks' \subseteq Inodes
        /\ \A x \in DOMAIN kmarks' : \/ x \in DOMAIN kmarks /\ kmarks'[x] = kmarks[x]
                                     \/ kmarks'[x] = wd
    <3>1. IsMap(kmarks, Inodes, Wds) /\ knext \in Wds /\ fmarks \subseteq Inodes
      BY CallTypes
    <3>2. CASE i \in DOMAIN kmarks
      BY <1>2, <3>1, <3>2 DEF InotifyAddWatch, kvars
    <3>3. CASE i \notin DOMAIN kmarks
      <4>1. kmarks' = Put(kmarks, i, wd) /\ knext' = knext + 1 /\ fmarks' = fmarks
        BY <1>2, <3>3 DEF InotifyAddWatch
      <4>2. knext' \in Wds
        BY <3>1, <4>1 DEF Wds
      <4>3. QED BY <1>2, <2>1, <3>1, <4>1, <4>2 DEF Put, IsMap
    <3>4. QED BY <3>2, <3>3
  <2>7. KernelWatchTracked'
    BY <2>5, <2>6 DEF KernelWatchTracked, Inv
  <2>8. call' \in Calls /\ ret' \in BOOLEAN /\ error' \in Int
    BY <1>1, <1>2, TurnTypes, CallTypes
  <2>9. QED BY <1>1, <2>4, <2>6, <2>7, <2>8, HandleStep
<1>3. ASSUME error' \in Errnos, Return(FALSE), UNCHANGED <<reg, kvars>>
      PROVE  Inv'
  <2>1. call' \in Calls /\ ret' \in BOOLEAN /\ error' \in Int
    <3>1. error' \in Int
      BY <1>3, ErrnosAssumption
    <3>2. QED BY <1>1, <1>3, <3>1, TurnTypes
  <2>2. QED BY <1>1, <1>3, <2>1, CallStep DEF kvars
<1>4. QED BY <1>2, <1>3 DEF WatchFileInotify

\* Filing the mount fd of a directory.
LEMMA FileMountFdInv ==
  ASSUME NEW r, RegInv(r), FanotifyReg(r), NEW w, IsNextFanotifyWd(r, w),
         NEW n \in Names
  PROVE  /\ RegInv(FileMountFd(r, w, DirName(n)))
         /\ FanotifyReg(FileMountFd(r, w, DirName(n)))
         /\ DOMAIN r.by_wd \subseteq DOMAIN FileMountFd(r, w, DirName(n)).by_wd
         /\ \A x \in DOMAIN r.by_wd :
              FileMountFd(r, w, DirName(n)).by_wd[x] = r.by_wd[x]
<1>1. <<"fsid">> \in Fids /\ MountName(DirName(n)) \in Filenames /\ TRUE \in BOOLEAN
  BY NamesAreFilenames DEF Fids
<1>2. QED BY <1>1, CreateFanotify DEF FileMountFd

\* A turn of watch_files' loop in fanotify mode, however it ends.
LEMMA WatchFileFanotifyInv ==
  ASSUME Inv, WatchFileFanotify
  PROVE  /\ Inv'
         /\ DOMAIN reg.by_wd \subseteq DOMAIN reg'.by_wd
         /\ \A x \in DOMAIN reg.by_wd : reg'.by_wd[x] = reg.by_wd[x]
<1> DEFINE fname == Head(call.files)
           d == DirName(fname)
           Goal == /\ Inv'
                   /\ DOMAIN reg.by_wd \subseteq DOMAIN reg'.by_wd
                   /\ \A x \in DOMAIN reg.by_wd : reg'.by_wd[x] = reg.by_wd[x]
<1>1. /\ initialized /\ UNCHANGED <<initialized, fanotify_mode>> /\ fanotify_mode
      /\ call.op = "watch_files" /\ call.files # << >>
  BY InCallInitialized DEF WatchFileFanotify
<1>2. RegInv(reg) /\ FanotifyReg(reg)
  BY <1>1 DEF Inv
<1>3. fname \in Names
  BY <1>1, TurnTypes
<1>4. fname \in Filenames /\ d \in Filenames
  BY <1>3, NamesAreFilenames
<1>5. ASSUME RegInv(reg'), FanotifyReg(reg'),
             DOMAIN reg.by_wd \subseteq DOMAIN reg'.by_wd,
             \A x \in DOMAIN reg.by_wd : reg'.by_wd[x] = reg.by_wd[x],
             NEW i \in Inodes, FanotifyMark(i), UNCHANGED error,
             NextFile \/ Return(FALSE)
      PROVE  Goal
  <2>1. UNCHANGED <<kmarks, knext>> /\ fmarks' \subseteq Inodes
    BY <1>5, CallTypes DEF FanotifyMark
  <2>2. IsMap(kmarks', Inodes, Wds) /\ knext' \in Wds
    BY <2>1, CallTypes
  <2>3. KernelWatchTracked'
    BY <1>5, <2>1 DEF Inv, KernelWatchTracked
  <2>4. call' \in Calls /\ ret' \in BOOLEAN
    BY <1>1, <1>5, TurnTypes
  <2>5. error' \in Int
    BY <1>5, CallTypes
  <2>6. Inv'
    BY <1>1, <1>5, <2>1, <2>2, <2>3, <2>4, <2>5, HandleStep
  <2>7. QED BY <1>5, <2>6
<1>6. ASSUME NEW i \in Inodes, FanotifyMark(i), UNCHANGED error,
             NEW w \in 1..MaxWd, IsNextFanotifyWd(reg, w),
             reg' = CreateFanotifyWatch(reg, w, <<"fid", i>>, fname, FALSE), NextFile
      PROVE  Goal
  <2>1. <<"fid", i>> \in Fids /\ FALSE \in BOOLEAN
    BY <1>6 DEF Fids
  <2>2. /\ RegInv(reg') /\ FanotifyReg(reg')
        /\ DOMAIN reg.by_wd \subseteq DOMAIN reg'.by_wd
        /\ \A x \in DOMAIN reg.by_wd : reg'.by_wd[x] = reg.by_wd[x]
    BY <1>2, <1>4, <1>6, <2>1, CreateFanotify
  <2>3. QED BY <1>5, <1>6, <2>2
<1>7. ASSUME NEW i \in Inodes, FanotifyMark(i), UNCHANGED error,
             NEW w1 \in 1..MaxWd, NEW w2 \in 1..MaxWd, IsNextFanotifyWd(reg, w1),
             IsNextFanotifyWd(FileMountFd(reg, w1, d), w2),
             reg' = CreateFanotifyWatch(FileMountFd(reg, w1, d), w2, <<"dfid", i>>, d, TRUE),
             NextFile
      PROVE  Goal
  <2> DEFINE r == FileMountFd(reg, w1, d)
  <2>1. <<"dfid", i>> \in Fids /\ TRUE \in BOOLEAN
    BY <1>7 DEF Fids
  <2>2. /\ RegInv(r) /\ FanotifyReg(r) /\ DOMAIN reg.by_wd \subseteq DOMAIN r.by_wd
        /\ \A x \in DOMAIN reg.by_wd : r.by_wd[x] = reg.by_wd[x]
    BY <1>2, <1>3, <1>7, FileMountFdInv
  <2> HIDE DEF r
  <2>3. /\ RegInv(reg') /\ FanotifyReg(reg')
        /\ DOMAIN r.by_wd \subseteq DOMAIN reg'.by_wd
        /\ \A x \in DOMAIN r.by_wd : reg'.by_wd[x] = r.by_wd[x]
    BY <1>4, <1>7, <2>1, <2>2, CreateFanotify, ZenonT(30) DEF r
  <2>4. QED BY <1>5, <1>7, <2>2, <2>3
<1>8. ASSUME NEW i \in Inodes, FanotifyMark(i), UNCHANGED error, UNCHANGED reg,
             Return(FALSE)
      PROVE  Goal
  BY <1>2, <1>5, <1>8
<1>9. ASSUME NEW i \in Inodes, FanotifyMark(i), UNCHANGED error,
             NEW w \in 1..MaxWd, IsNextFanotifyWd(reg, w),
             reg' = FileMountFd(reg, w, d), Return(FALSE)
      PROVE  Goal
  <2>1. /\ RegInv(reg') /\ FanotifyReg(reg')
        /\ DOMAIN reg.by_wd \subseteq DOMAIN reg'.by_wd
        /\ \A x \in DOMAIN reg.by_wd : reg'.by_wd[x] = reg.by_wd[x]
    BY <1>2, <1>3, <1>9, FileMountFdInv
  <2>2. QED BY <1>5, <1>9, <2>1
<1>10. ASSUME error' \in Errnos, Return(FALSE), UNCHANGED <<reg, kvars>>
       PROVE  Goal
  <2>1. error' \in Int
    BY <1>10, ErrnosAssumption
  <2>2. call' \in Calls /\ ret' \in BOOLEAN
    BY <1>1, <1>10, TurnTypes
  <2>3. QED BY <1>1, <1>10, <2>1, <2>2, CallStep DEF kvars
<1> HIDE DEF Goal
<1>11. Goal
  BY <1>6, <1>7, <1>8, <1>9, <1>10 DEF WatchFileFanotify
<1>12. QED BY <1>11 DEF Goal

\* watch_files returns.
LEMMA WatchFilesDoneInv ==
  ASSUME Inv, WatchFilesDone
  PROVE  Inv'
<1>1. initialized
  BY InCallInitialized DEF WatchFilesDone
<1>2. call' \in Calls /\ ret' \in BOOLEAN /\ error' \in Int
  BY CallTypes DEF WatchFilesDone, Return
<1>3. QED BY <1>1, <1>2, CallStep DEF WatchFilesDone, kvars

\* An event files a watch, or not.
LEMMA ConvertInv ==
  ASSUME Inv, NEW f \in Fids, convert_fanotify_event(f)
  PROVE  /\ Inv'
         /\ DOMAIN reg.by_wd \subseteq DOMAIN reg'.by_wd
         /\ \A x \in DOMAIN reg.by_wd : reg'.by_wd[x] = reg.by_wd[x]
<1>1. RegInv(reg) /\ FanotifyReg(reg) /\ initialized /\ fanotify_mode
  BY DEF Inv, convert_fanotify_event
<1>2. /\ RegInv(reg') /\ FanotifyReg(reg')
      /\ DOMAIN reg.by_wd \subseteq DOMAIN reg'.by_wd
      /\ \A x \in DOMAIN reg.by_wd : reg'.by_wd[x] = reg.by_wd[x]
  <2>1. CASE UNCHANGED reg
    BY <1>1, <2>1
  <2>2. ASSUME NEW n \in Names, NEW w \in 1..MaxWd, IsNextFanotifyWd(reg, w),
               reg' = CreateFanotifyWatch(reg, w, f, n, FALSE)
        PROVE  /\ RegInv(reg') /\ FanotifyReg(reg')
               /\ DOMAIN reg.by_wd \subseteq DOMAIN reg'.by_wd
               /\ \A x \in DOMAIN reg.by_wd : reg'.by_wd[x] = reg.by_wd[x]
    <3>1. n \in Filenames /\ FALSE \in BOOLEAN
      BY <2>2, NamesAreFilenames
    <3>2. QED BY <1>1, <2>2, <3>1, CreateFanotify
  <2>3. \/ UNCHANGED reg
        \/ \E n \in Names, w \in 1..MaxWd :
             /\ IsNextFanotifyWd(reg, w)
             /\ reg' = CreateFanotifyWatch(reg, w, f, n, FALSE)
    BY DEF convert_fanotify_event
  <2>4. QED BY <2>1, <2>2, <2>3
<1>3. KernelWatchTracked'
  BY <1>2 DEF Inv, KernelWatchTracked, convert_fanotify_event, kvars
<1>4. /\ call' \in Calls /\ ret' \in BOOLEAN /\ error' \in Int
      /\ IsMap(kmarks', Inodes, Wds) /\ knext' \in Wds /\ fmarks' \subseteq Inodes
  BY DEF Inv, TypeOK, convert_fanotify_event, kvars
<1>5. QED BY <1>1, <1>2, <1>3, <1>4, HandleStep DEF convert_fanotify_event

\* A step that renames one watch.
LEMMA RenameStep ==
  ASSUME Inv, initialized, UNCHANGED <<initialized, fanotify_mode, error, ret, kvars>>,
         call' \in Calls,
         NEW id \in DOMAIN reg.watches, NEW n \in Filenames,
         reg' = RenameWatch(reg, id, n)
  PROVE  Inv' /\ reg'.by_wd = reg.by_wd
<1>1. RegInv(reg) /\ (fanotify_mode => FanotifyReg(reg))
  BY DEF Inv
<1>2. RegInv(reg')
  BY <1>1, RenameInv
<1>3. reg'.by_wd = reg.by_wd /\ (fanotify_mode => FanotifyReg(reg'))
  BY <1>1, RenameKeeps
<1>4. KernelWatchTracked'
  BY <1>3 DEF Inv, KernelWatchTracked, kvars
<1>5. /\ ret' \in BOOLEAN /\ error' \in Int
      /\ IsMap(kmarks', Inodes, Wds) /\ knext' \in Wds /\ fmarks' \subseteq Inodes
  BY CallTypes DEF kvars
<1>6. QED BY <1>2, <1>3, <1>4, <1>5, HandleStep

\* set_filename_by_wd renames one watch.
LEMMA SetFilenameByWdInv ==
  ASSUME Inv, NEW wd, NEW n \in Names, set_filename_by_wd(wd, n)
  PROVE  Inv' /\ reg'.by_wd = reg.by_wd
<1>1. reg.by_wd[wd] \in DOMAIN reg.watches
  BY DEF set_filename_by_wd, Inv, RegInv, ByWdAgrees
<1>2. n \in Filenames /\ call' \in Calls
  BY NamesAreFilenames DEF set_filename_by_wd, Inv, TypeOK
<1>3. QED BY <1>1, <1>2, RenameStep DEF set_filename_by_wd, kvars

\* So does set_filename_by_filename.
LEMMA SetFilenameByFilenameInv ==
  ASSUME Inv, NEW o, NEW n \in Names, set_filename_by_filename(o, n)
  PROVE  Inv' /\ reg'.by_wd = reg.by_wd
<1>1. reg.by_filename[o] \in DOMAIN reg.watches
  BY DEF set_filename_by_filename, Inv, RegInv, ByFilenameAgrees
<1>2. n \in Filenames /\ call' \in Calls
  BY NamesAreFilenames DEF set_filename_by_filename, Inv, TypeOK
<1>3. QED BY <1>1, <1>2, RenameStep DEF set_filename_by_filename, kvars

\* replace_filename is called.
LEMMA ReplaceInv ==
  ASSUME Inv, NEW p \in Replacements, replace_filename(p[1], p[2])
  PROVE  Inv'
<1> USE DEF replace_filename
<1>1. p[1] \in Filenames /\ p[2] \in Filenames
  BY ReplacementsAssumption DEF Filenames
<1>2. {reg.by_filename[n] : n \in DOMAIN reg.by_filename} \subseteq Ids
  BY DEF Inv, RegInv, RegistryOK, IsMap
<1>3. call' \in Calls
  BY <1>1, <1>2, CallTypes DEF Calls, NoCall
<1>4. QED BY <1>3, CallTypes, CallStep DEF kvars

\* A turn of replace_filename's loop renames the watch or passes it over.
LEMMA ReplaceNextInv ==
  ASSUME Inv, ReplaceNext
  PROVE  Inv' /\ reg'.by_wd = reg.by_wd
<1>1. /\ initialized /\ call.op = "replace_filename"
      /\ UNCHANGED <<initialized, fanotify_mode, error, ret, kvars>>
  BY InCallInitialized DEF ReplaceNext, kvars
<1>2. PICK id \in call.todo :
        /\ call' = [call EXCEPT !.todo = @ \ {id}]
        /\ reg' = IF ToRename(id)
                    THEN RenameWatch(reg, id,
                           Renamed(reg.watches[id].filename, call.old, call.new))
                    ELSE reg
  BY DEF ReplaceNext
<1>3. call' \in Calls
  BY <1>2 DEF Inv, TypeOK, Calls
<1>4. CASE ToRename(id)
  <2>1. id \in DOMAIN reg.watches /\ StartsWith(reg.watches[id].filename, call.old)
    BY <1>4 DEF ToRename
  <2>2. reg.watches[id].filename \in Filenames
    BY <2>1 DEF Inv, RegInv, RegistryOK, IsMap, Watches
  <2>3. Renamed(reg.watches[id].filename, call.old, call.new) \in Filenames
    BY <2>1, <2>2, CallTypes, RenamedIsFilename
  <2>4. QED BY <1>1, <1>2, <1>3, <1>4, <2>1, <2>3, RenameStep
<1>5. CASE ~ToRename(id)
  <2>1. reg' = reg
    BY <1>2, <1>5
  <2>2. error' \in Int /\ ret' \in BOOLEAN
    BY <1>1, CallTypes
  <2>3. QED BY <1>1, <1>3, <2>1, <2>2, CallStep DEF kvars
<1>6. QED BY <1>4, <1>5

\* replace_filename returns.
LEMMA ReplaceDoneInv ==
  ASSUME Inv, ReplaceDone
  PROVE  Inv'
<1>1. initialized
  BY InCallInitialized DEF ReplaceDone
<1>2. call' \in Calls /\ ret' \in BOOLEAN /\ error' \in Int
  BY CallTypes DEF ReplaceDone
<1>3. QED BY <1>1, <1>2, CallStep DEF ReplaceDone, kvars

\* remove_watch, for a watch that exists: the kernel's watch and the entry
\* under its descriptor go together.
LEMMA RemoveInv ==
  ASSUME Inv, initialized, NEW id \in DOMAIN reg.watches, RemoveWatch(id)
  PROVE  /\ Inv'
         /\ \A i \in DOMAIN kmarks' :
              /\ kmarks'[i] = kmarks[i] /\ i \in DOMAIN kmarks
              /\ kmarks[i] \in DOMAIN reg'.by_wd
              /\ reg'.by_wd[kmarks[i]] = reg.by_wd[kmarks[i]]
<1> DEFINE w == reg.watches[id]
<1>1. UNCHANGED <<initialized, fanotify_mode, call, knext, fmarks>>
  BY DEF RemoveWatch
<1>2. RegInv(reg) /\ (fanotify_mode => FanotifyReg(reg))
  BY DEF Inv
<1>3. CASE w.fid = NoFid /\ KernelHasWd(w.wd)
  <2>1. /\ kmarks' = [i \in {x \in DOMAIN kmarks : kmarks[x] # w.wd} |-> kmarks[i]]
        /\ reg' = DestroyWatch(reg, id)
        /\ error' = 0 /\ ret' = TRUE
    BY <1>3 DEF RemoveWatch
  <2>2. ~fanotify_mode
    BY <1>2, <1>3 DEF FanotifyReg
  <2>3. RegInv(reg')
    BY <1>2, <2>1, DestroyInv
  <2>4. /\ DOMAIN reg'.by_wd = (DOMAIN reg.by_wd) \ {w.wd}
        /\ \A x \in DOMAIN reg'.by_wd : reg'.by_wd[x] = reg.by_wd[x]
    BY <2>1 DEF DestroyWatch, Drop
  <2>5. /\ IsMap(kmarks', Inodes, Wds)
        /\ \A i \in DOMAIN kmarks' : /\ i \in DOMAIN kmarks
                                     /\ kmarks'[i] = kmarks[i]
                                     /\ kmarks[i] # w.wd
    BY <2>1, CallTypes DEF IsMap
  <2>6. /\ KernelWatchTracked'
        /\ \A i \in DOMAIN kmarks' : kmarks[i] \in DOMAIN reg'.by_wd
    BY <2>4, <2>5 DEF Inv, KernelWatchTracked
  <2>7. error' \in Int /\ ret' \in BOOLEAN
    BY <2>1
  <2>8. call' \in Calls /\ knext' \in Wds /\ fmarks' \subseteq Inodes
    BY <1>1 DEF Inv, TypeOK
  <2>9. Inv'
    BY <1>1, <2>2, <2>3, <2>5, <2>6, <2>7, <2>8, HandleStep
  <2>10. QED BY <2>4, <2>5, <2>6, <2>9
<1>4. CASE ~(w.fid = NoFid /\ KernelHasWd(w.wd))
  <2>1. UNCHANGED <<reg, kmarks>>
    BY <1>4 DEF RemoveWatch
  <2>2. (error' = 0 \/ error' = -1) /\ ret' = FALSE
    BY <1>4 DEF RemoveWatch
  <2>3. error' \in Int /\ ret' \in BOOLEAN /\ call' \in Calls
    <3>1. error' \in Int
      BY <2>2
    <3>2. ret' \in BOOLEAN
      BY <2>2
    <3>3. QED BY <1>1, <3>1, <3>2 DEF Inv, TypeOK
  <2>4. Inv'
    BY <1>1, <2>1, <2>3, CallStep DEF kvars
  <2>5. QED BY <2>1, <2>4 DEF Inv, KernelWatchTracked
<1>5. QED BY <1>3, <1>4

\* remove_watch_by_wd: the watch exists, or there is nothing to remove.
LEMMA RemoveByWdInv ==
  ASSUME Inv, NEW wd, remove_watch_by_wd(wd)
  PROVE  /\ Inv'
         /\ \A i \in DOMAIN kmarks' :
              /\ kmarks'[i] = kmarks[i] /\ i \in DOMAIN kmarks
              /\ kmarks[i] \in DOMAIN reg'.by_wd
              /\ reg'.by_wd[kmarks[i]] = reg.by_wd[kmarks[i]]
<1>1. CASE wd \in DOMAIN reg.by_wd
  <2>1. reg.by_wd[wd] \in DOMAIN reg.watches
    BY <1>1 DEF Inv, RegInv, ByWdAgrees
  <2>2. QED BY <1>1, <2>1, RemoveInv DEF remove_watch_by_wd
<1>2. CASE wd \notin DOMAIN reg.by_wd
  <2>1. RemoveNothing /\ initialized
    BY <1>2 DEF remove_watch_by_wd
  <2>2. error' \in Int /\ call' \in Calls
    BY <2>1 DEF RemoveNothing, Inv, TypeOK
  <2>3. ret' \in BOOLEAN
    BY <2>1 DEF RemoveNothing
  <2>4. Inv'
    BY <2>1, <2>2, <2>3, CallStep DEF RemoveNothing, kvars
  <2>5. QED BY <2>1, <2>4 DEF RemoveNothing, kvars, Inv, KernelWatchTracked
<1>3. QED BY <1>1, <1>2

\* remove_watch_by_filename: likewise.
LEMMA RemoveByFilenameInv ==
  ASSUME Inv, NEW n, remove_watch_by_filename(n)
  PROVE  /\ Inv'
         /\ \A i \in DOMAIN kmarks' :
              /\ kmarks'[i] = kmarks[i] /\ i \in DOMAIN kmarks
              /\ kmarks[i] \in DOMAIN reg'.by_wd
              /\ reg'.by_wd[kmarks[i]] = reg.by_wd[kmarks[i]]
<1>1. CASE n \in DOMAIN reg.by_filename
  <2>1. reg.by_filename[n] \in DOMAIN reg.watches
    BY <1>1 DEF Inv, RegInv, ByFilenameAgrees
  <2>2. QED BY <1>1, <2>1, RemoveInv DEF remove_watch_by_filename
<1>2. CASE n \notin DOMAIN reg.by_filename
  <2>1. RemoveNothing /\ initialized
    BY <1>2 DEF remove_watch_by_filename
  <2>2. error' \in Int /\ call' \in Calls
    BY <2>1 DEF RemoveNothing, Inv, TypeOK
  <2>3. ret' \in BOOLEAN
    BY <2>1 DEF RemoveNothing
  <2>4. Inv'
    BY <2>1, <2>2, <2>3, CallStep DEF RemoveNothing, kvars
  <2>5. QED BY <2>1, <2>4 DEF RemoveNothing, kvars, Inv, KernelWatchTracked
<1>3. QED BY <1>1, <1>2

(***************************************************************************)
(* The theorems.                                                           *)
(***************************************************************************)

\* Every step of the library and of the kernel preserves the invariant.
LEMMA NextInv == Inv /\ [Next]_vars => Inv'
<1> SUFFICES ASSUME Inv, [Next]_vars PROVE Inv'
  OBVIOUS
<1>1. CASE UNCHANGED vars
  BY <1>1 DEF vars, Inv, TypeOK, RegInv, Quiescent, Idle, KernelWatchTracked
<1>2. ASSUME NEW i \in Inodes, KernelDrop(i) PROVE Inv'
  BY <1>2, KernelDropInv
<1>3. ASSUME NEW b \in BOOLEAN, init(b) PROVE Inv'
  BY <1>3, InitCallInv
<1>4. CASE cleanup
  BY <1>4, CleanupInv
<1>5. ASSUME NEW files \in FileLists, watch_files(files) PROVE Inv'
  BY <1>5, WatchFilesInv
<1>6. CASE WatchFileInotify
  BY <1>6, WatchFileInotifyInv
<1>7. CASE WatchFileFanotify
  BY <1>7, WatchFileFanotifyInv
<1>8. CASE WatchFilesDone
  BY <1>8, WatchFilesDoneInv
<1>9. ASSUME NEW f \in Fids, convert_fanotify_event(f) PROVE Inv'
  BY <1>9, ConvertInv
<1>10. ASSUME NEW wd \in 1..MaxWd, NEW n \in Names, set_filename_by_wd(wd, n)
       PROVE  Inv'
  BY <1>10, SetFilenameByWdInv
<1>11. ASSUME NEW o \in DOMAIN reg.by_filename, NEW n \in Names,
              set_filename_by_filename(o, n)
       PROVE  Inv'
  BY <1>11, SetFilenameByFilenameInv
<1>12. ASSUME NEW p \in Replacements, replace_filename(p[1], p[2]) PROVE Inv'
  BY <1>12, ReplaceInv
<1>13. CASE ReplaceNext
  BY <1>13, ReplaceNextInv
<1>14. CASE ReplaceDone
  BY <1>14, ReplaceDoneInv
<1>15. ASSUME NEW wd \in 1..MaxWd, remove_watch_by_wd(wd) PROVE Inv'
  BY <1>15, RemoveByWdInv
<1>16. ASSUME NEW n, remove_watch_by_filename(n) PROVE Inv'
  BY <1>16, RemoveByFilenameInv
<1>17. QED
  BY <1>1, <1>2, <1>3, <1>4, <1>5, <1>6, <1>7, <1>8, <1>9, <1>10, <1>11, <1>12,
     <1>13, <1>14, <1>15, <1>16 DEF Next

\* The inductive invariant holds in every behaviour.
THEOREM Invariance == Spec => []Inv
<1>1. Init => Inv
  BY InitInv
<1>2. Inv /\ [Next]_vars => Inv'
  BY NextInv
<1>3. QED BY <1>1, <1>2, PTL DEF Spec

\* Type correctness of the library's bookkeeping.
THEOREM TypeCorrect == Spec => []TypeOK
<1>1. Inv => TypeOK
  BY DEF Inv
<1>2. QED BY <1>1, Invariance, PTL

\* No index ever leads to a destroyed watch or to one with another key, so
\* the lookup in watch() never panics.
THEOREM IndexesConsistent == Spec => []IndexConsistent
<1>1. Inv => IndexConsistent
  BY DEF Inv, RegInv, IndexConsistent
<1>2. QED BY <1>1, Invariance, PTL

\* Every watch the kernel holds is filed by its descriptor.
THEOREM KernelWatchesTracked == Spec => []KernelWatchTracked
<1>1. Inv => KernelWatchTracked
  BY DEF Inv
<1>2. QED BY <1>1, Invariance, PTL

\* The descriptors made up for fanotify tell all watches apart.
THEOREM DescriptorsUnique == Spec => []FanotifyDescriptorsUnique
<1>1. Inv => FanotifyDescriptorsUnique
  BY DEF Inv, FanotifyDescriptorsUnique, FanotifyReg
<1>2. QED BY <1>1, Invariance, PTL

\* A step that keeps the entries of by_wd keeps the attribution.
LEMMA KeepsAttribution ==
  ASSUME Inv, \A x \in DOMAIN reg.by_wd : x \in DOMAIN reg'.by_wd /\ reg'.by_wd[x] = reg.by_wd[x]
  PROVE  AttributionKept
  BY DEF AttributionKept, Inv, KernelWatchTracked

\* No step redirects the events of a live watch.
LEMMA NextKeepsAttribution ==
  ASSUME Inv, [Next]_vars
  PROVE  [AttributionKept]_vars
<1>1. CASE UNCHANGED vars
  BY <1>1
<1>2. ASSUME reg' = reg PROVE AttributionKept
  BY <1>2, KeepsAttribution
<1>3. ASSUME NEW b \in BOOLEAN, init(b) PROVE AttributionKept
  BY <1>3, EmptyIsMap DEF init, AttributionKept, Inv, Quiescent
<1>4. CASE cleanup
  BY <1>4, EmptyIsMap DEF cleanup, AttributionKept
<1>5. CASE WatchFileInotify
  <2>1. CASE reg' = reg
    BY <2>1, <1>2
  <2>2. ASSUME NEW wd, NEW n, reg' = CreateInotifyWatch(reg, wd, n)
        PROVE  AttributionKept
    <3>1. reg'.by_wd = PutIfVacant(reg.by_wd, wd, reg.next_id)
      BY <2>2 DEF CreateInotifyWatch, CreateWatch
    <3>2. QED BY <3>1, KeepsAttribution DEF PutIfVacant, Put
  <2>3. QED BY <1>5, <2>1, <2>2 DEF WatchFileInotify
<1>6. CASE WatchFileFanotify
  BY <1>6, WatchFileFanotifyInv, KeepsAttribution
<1>7. ASSUME NEW f \in Fids, convert_fanotify_event(f) PROVE AttributionKept
  BY <1>7, ConvertInv, KeepsAttribution
<1>8. ASSUME reg'.by_wd = reg.by_wd PROVE AttributionKept
  BY <1>8, KeepsAttribution
<1>9. ASSUME NEW wd, NEW n \in Names, set_filename_by_wd(wd, n) PROVE AttributionKept
  BY <1>8, <1>9, SetFilenameByWdInv
<1>10. ASSUME NEW o, NEW n \in Names, set_filename_by_filename(o, n)
       PROVE  AttributionKept
  BY <1>8, <1>10, SetFilenameByFilenameInv
<1>11. CASE ReplaceNext
  BY <1>8, <1>11, ReplaceNextInv
<1>12. ASSUME NEW wd, remove_watch_by_wd(wd) PROVE AttributionKept
  BY <1>12, RemoveByWdInv DEF AttributionKept
<1>13. ASSUME NEW n, remove_watch_by_filename(n) PROVE AttributionKept
  BY <1>13, RemoveByFilenameInv DEF AttributionKept
<1>14. ASSUME \/ \E i \in Inodes : KernelDrop(i)
              \/ \E files \in FileLists : watch_files(files)
              \/ WatchFilesDone
              \/ \E p \in Replacements : replace_filename(p[1], p[2])
              \/ ReplaceDone
       PROVE  AttributionKept
  <2>1. reg' = reg
    BY <1>14 DEF KernelDrop, libvars, watch_files, WatchFilesDone, replace_filename,
                 ReplaceDone
  <2>2. QED BY <2>1, <1>2
<1>15. QED
  BY <1>1, <1>3, <1>4, <1>5, <1>6, <1>7, <1>9, <1>10, <1>11, <1>12, <1>13, <1>14
  DEF Next

\* While the kernel holds a watch, its events stay attributed to one watch.
THEOREM AttributionIsStable == Spec => StableAttribution
<1>1. Inv /\ [Next]_vars => [AttributionKept]_vars
  BY NextKeepsAttribution
<1>2. QED BY <1>1, Invariance, PTL DEF Spec, StableAttribution

\* A name built from a new prefix does not start with an old prefix that is
\* not comparable to the new one.
LEMMA RenamedLeavesPrefix ==
  ASSUME NEW o \in Seq(Nat), NEW n \in Seq(Nat), NEW t \in Seq(Nat),
         ~Comparable(o, n)
  PROVE  ~StartsWith(n \o t, o)
<1> SUFFICES ASSUME StartsWith(n \o t, o) PROVE FALSE
  OBVIOUS
<1> DEFINE s == n \o t
<1>1. /\ s \in Seq(Nat) /\ Len(s) = Len(n) + Len(t)
      /\ \A k \in 1..Len(n) : s[k] = n[k]
  OBVIOUS
<1>2. Len(o) <= Len(s) /\ \A k \in 1..Len(o) : s[k] = o[k]
  <2>1. Len(o) <= Len(s) /\ SubSeq(s, 1, Len(o)) = o
    BY DEF StartsWith
  <2>2. \A k \in 1..Len(o) : SubSeq(s, 1, Len(o))[k] = s[k]
    BY <1>1, <2>1
  <2>3. QED BY <2>1, <2>2
<1> HIDE DEF s
<1>3. CASE Len(o) <= Len(n)
  <2>1. SubSeq(n, 1, Len(o)) = o
    BY <1>1, <1>2, <1>3
  <2>2. QED BY <1>3, <2>1 DEF Comparable, StartsWith
<1>4. CASE Len(n) <= Len(o)
  <2>1. SubSeq(o, 1, Len(n)) = n
    BY <1>1, <1>2, <1>4
  <2>2. QED BY <1>4, <2>1 DEF Comparable, StartsWith
<1>5. Len(o) \in Nat /\ Len(n) \in Nat
  OBVIOUS
<1>6. QED BY <1>3, <1>4, <1>5

\* A turn of replace_filename's loop.
LEMMA ReplaceNextMoves ==
  ASSUME Inv, ReplaceLeavesNoOldName, ReplaceNext
  PROVE  ReplaceLeavesNoOldName'
<1>1. PICK id \in call.todo :
        /\ call' = [call EXCEPT !.todo = @ \ {id}]
        /\ reg' = IF ToRename(id)
                    THEN RenameWatch(reg, id,
                           Renamed(reg.watches[id].filename, call.old, call.new))
                    ELSE reg
  BY DEF ReplaceNext
<1>2. /\ call'.op = call.op /\ call'.old = call.old /\ call'.new = call.new
      /\ call'.todo = call.todo \ {id} /\ call.op = "replace_filename"
  BY <1>1 DEF Inv, TypeOK, Calls, ReplaceNext
<1> SUFFICES ASSUME ~Comparable(call.old, call.new),
                    NEW n \in DOMAIN reg'.by_filename, StartsWith(n, call.old)
             PROVE  reg'.by_filename[n] \in call.todo \ {id}
  BY <1>2 DEF ReplaceLeavesNoOldName
<1>3. \A m \in DOMAIN reg.by_filename :
        StartsWith(m, call.old) => reg.by_filename[m] \in call.todo
  BY <1>2 DEF ReplaceLeavesNoOldName
<1>4. \A m \in DOMAIN reg.by_filename :
        reg.by_filename[m] = id => id \in DOMAIN reg.watches /\ reg.watches[id].filename = m
  BY DEF Inv, RegInv, ByFilenameAgrees
<1>5. CASE ~ToRename(id)
  <2>1. reg' = reg
    BY <1>1, <1>5
  <2>2. reg.by_filename[n] # id
    <3> SUFFICES ASSUME reg.by_filename[n] = id PROVE FALSE
      OBVIOUS
    <3>1. n = call.new
      BY <1>4, <1>5, <2>1 DEF ToRename
    <3>2. QED BY <3>1 DEF Comparable
  <2>3. QED BY <1>3, <2>1, <2>2
<1>6. CASE ToRename(id)
  <2> DEFINE cur == reg.watches[id].filename
             newname == Renamed(cur, call.old, call.new)
             own == cur \in DOMAIN reg.by_filename /\ reg.by_filename[cur] = id
             rest == IF own THEN Drop(reg.by_filename, cur) ELSE reg.by_filename
  <2>1. reg'.by_filename = PutIfVacant(rest, newname, id)
    BY <1>1, <1>6 DEF RenameWatch
  <2>2. \A m \in DOMAIN rest : /\ m \in DOMAIN reg.by_filename
                               /\ rest[m] = reg.by_filename[m]
                               /\ rest[m] # id
    <3>1. CASE own
      BY <3>1, <1>4 DEF Drop
    <3>2. CASE ~own
      BY <3>2, <1>4
    <3>3. QED BY <3>1, <3>2
  <2> HIDE DEF rest
  <2>3. CASE n \in DOMAIN rest
    BY <1>3, <2>1, <2>2, <2>3 DEF PutIfVacant, Put
  <2>4. CASE n \notin DOMAIN rest
    <3>1. n = newname
      BY <2>1, <2>4 DEF PutIfVacant, Put
    <3>2. cur \in Seq(Nat) /\ call.old \in Seq(Nat) /\ call.new \in Seq(Nat)
      BY <1>6, CallTypes
      DEF ToRename, Inv, RegInv, RegistryOK, IsMap, Watches, Filenames
    <3>3. SubSeq(cur, Len(call.old) + 1, Len(cur)) \in Seq(Nat)
      BY <1>6, <3>2, SMTT(30) DEF ToRename, StartsWith
    <3>4. ~StartsWith(newname, call.old)
      BY <3>2, <3>3, RenamedLeavesPrefix DEF Renamed
    <3>5. QED BY <3>1, <3>4
  <2>5. QED BY <2>3, <2>4
<1>7. QED BY <1>5, <1>6

\* Every step preserves it: only replace_filename's own steps matter.
LEMMA NextMoves ==
  ASSUME Inv, ReplaceLeavesNoOldName, [Next]_vars
  PROVE  ReplaceLeavesNoOldName'
<1>1. ASSUME call' = call, reg' = reg PROVE ReplaceLeavesNoOldName'
  BY <1>1 DEF ReplaceLeavesNoOldName
<1>2. ASSUME call'.op # "replace_filename" PROVE ReplaceLeavesNoOldName'
  BY <1>2 DEF ReplaceLeavesNoOldName
<1>3. ASSUME Idle, call' = call PROVE ReplaceLeavesNoOldName'
  BY <1>2, <1>3 DEF Idle
<1>4. CASE UNCHANGED vars \/ \E i \in Inodes : KernelDrop(i)
  BY <1>1, <1>4 DEF vars, KernelDrop, libvars
<1>5. CASE (\E b \in BOOLEAN : init(b)) \/ cleanup
  BY <1>3, <1>5 DEF init, cleanup
<1>6. CASE \E files \in FileLists : watch_files(files)
  BY <1>2, <1>6 DEF watch_files, NoCall
<1>7. CASE WatchFileInotify \/ WatchFileFanotify \/ WatchFilesDone
  <2>1. call.op = "watch_files" /\ (NextFile \/ call' = NoCall)
    BY <1>7 DEF WatchFileInotify, WatchFileFanotify, WatchFilesDone, Return
  <2>2. call'.op # "replace_filename"
    BY <2>1 DEF NextFile, NoCall, Inv, TypeOK, Calls
  <2>3. QED BY <1>2, <2>2
<1>8. CASE \E f \in Fids : convert_fanotify_event(f)
  BY <1>3, <1>8 DEF convert_fanotify_event
<1>9. CASE \/ \E wd \in 1..MaxWd, n \in Names : set_filename_by_wd(wd, n)
           \/ \E o \in DOMAIN reg.by_filename, n \in Names : set_filename_by_filename(o, n)
  BY <1>3, <1>9 DEF set_filename_by_wd, set_filename_by_filename
<1>10. ASSUME NEW p \in Replacements, replace_filename(p[1], p[2])
       PROVE  ReplaceLeavesNoOldName'
  <2>1. /\ reg' = reg
        /\ call'.todo = {reg.by_filename[n] : n \in DOMAIN reg.by_filename}
    BY <1>10 DEF replace_filename, NoCall
  <2>2. QED BY <2>1 DEF ReplaceLeavesNoOldName
<1>11. CASE ReplaceNext
  BY <1>11, ReplaceNextMoves
<1>12. CASE ReplaceDone
  BY <1>2, <1>12 DEF ReplaceDone, NoCall
<1>13. CASE \/ \E wd \in 1..MaxWd : remove_watch_by_wd(wd)
            \/ \E n \in DOMAIN reg.by_filename \cup Names : remove_watch_by_filename(n)
  <2>1. Idle /\ call' = call
    BY <1>13 DEF remove_watch_by_wd, remove_watch_by_filename, RemoveWatch, RemoveNothing
  <2>2. QED BY <1>3, <2>1
<1>14. QED
  BY <1>4, <1>5, <1>6, <1>7, <1>8, <1>9, <1>10, <1>11, <1>12, <1>13 DEF Next

\* replace_filename leaves no filename of the index under the old prefix.
THEOREM ReplaceMovesNames == Spec => []ReplaceLeavesNoOldName
<1>1. Init => ReplaceLeavesNoOldName
  BY DEF Init, NoCall, ReplaceLeavesNoOldName
<1>2. Inv /\ ReplaceLeavesNoOldName /\ [Next]_vars => ReplaceLeavesNoOldName'
  BY NextMoves
<1>3. QED BY <1>1, <1>2, Invariance, PTL DEF Spec
=============================================================================
