----------------------------- MODULE WalProofs -----------------------------
(***************************************************************************)
(* Proofs about Wal.tla, for any processes, values, sizes of the WAL and   *)
(* bound on a transaction, when no process dies and the file is there from *)
(* the start: transactions find the last commit, no old WAL is replayed,   *)
(* and the commit protocol implements AtomicStore.tla.                     *)
(*                                                                         *)
(* The argument is that of mutual exclusion.  Only a writer that holds the *)
(* file's lock has dirty pages.  The second commit of EXEC, which holds no *)
(* lock, has none: it may truncate, write and delete a WAL under another   *)
(* process's feet, but what it does to the WAL is to empty it.  So a WAL   *)
(* that is not empty is that of the committing holder of the lock, and who *)
(* opens the database finds none that it could replay.                     *)
(***************************************************************************)
EXTENDS Wal, FiniteSetTheorems, Induction, TLAPS

(* What a handle is by itself: its fields, the lock and the pages that go  *)
(* with each pc.                                                           *)
Fields == {"pc", "mode", "lock", "fd", "dirty", "left", "buf", "cache", "size", "again"}

Typed(r) ==
    /\ r = [f \in Fields |-> r[f]]
    /\ r.fd \in Inode \cup {0}
    /\ r.dirty \in Image /\ r.left \in Image /\ r.buf \in Image
    /\ r.mode \in {"r+", "w+"} /\ r.again \in BOOLEAN
    /\ r.size \in {"small", "large", "exact"}

LockOf(p) == IF p \in Writers THEN "EX" ELSE "SH"
Opening == {"access", "r_open", "r_lock", "header"}
Committed == {"c_open", "c_lock", "c_write", "c_close", "c_unlink", "c_flush"}

LockPhase(p, r) ==
    /\ r.lock \in {"none", LockOf(p)}
    /\ r.pc \in {"fopen", "flock"} => r.lock = "none"
    /\ r.pc \in Opening \cup {"run"} => r.lock # "none"
    /\ r.pc \in Committed \cup {"apply"} => p \in Writers
    /\ r.pc = "apply" /\ r.fd = 0 => r.lock = "EX" /\ r.dirty = NoPages
    /\ r.pc = "fopen" => r.mode = "r+"
    /\ r.pc \in {"idle", "fopen", "flock", "run", "apply"} \cup Opening \cup Committed

WalPhase(r) ==
    /\ r.fd # 0 => r.pc \in {"r_lock", "c_lock", "c_write", "apply", "c_close"}
    /\ r.pc \in {"r_lock", "c_lock", "c_write", "c_close"} => r.fd # 0

PagesPhase(r) ==
    /\ r.cache = NoPages
    /\ r.dirty # NoPages => r.lock = "EX" /\ r.pc \notin {"fopen", "flock"} \cup Opening
    /\ r.left # NoPages => r.pc = "apply"
    /\ r.buf # NoPages => r.pc \in {"apply", "c_close", "c_unlink", "c_flush"}
    /\ \A x \in Page : r.left[x] \in {None, r.dirty[x]} /\ r.buf[x] \in {None, r.dirty[x]}

Local(p, r) == Typed(r) /\ LockPhase(p, r) /\ WalPhase(r) /\ PagesPhase(r)

(* The locks, and what was there at first *)
Exclusive ==
    \A p, q \in Process : p # q /\ h[p].lock = "EX" => h[q].lock = "none"
Handles ==
    /\ h = [p \in Process |-> h[p]]
    /\ \A p \in Process : Local(p, h[p])
    /\ Exclusive

(* The WAL: nobody is about to replay one *)
NothingToReplay ==
    \A p \in Process : At(p, "r_lock") => data[h[p].fd] = NoPages
Logs ==
    /\ wal \in Inode \cup {0}
    /\ data \in [Inode -> Image]
    /\ NoStaleWal
    /\ NothingToReplay

(* The file: the last commit, or that with the transaction that is being   *)
(* written, once the buffer and the pages to come are in.                  *)
Behind(r) == r.lock = "EX" /\ r.pc \in {"apply", "c_close", "c_unlink", "c_flush"}
Completed(f, r) == Overlay(Overlay(f, r.buf), r.left)
FileIs(m) ==
    /\ allowed = {m}
    /\ \A p \in Process : Behind(h[p]) => Completed(file, h[p]) = Overlay(m, h[p].dirty)
    /\ (\A p \in Process : ~Behind(h[p])) => file = m
Files ==
    /\ exists = TRUE
    /\ file \in Image
    /\ \E m \in Image : FileIs(m)

WInv == Handles /\ Logs /\ Files

-----------------------------------------------------------------------------
(* Pages laid over pages *)
LEMMA OverlayFacts ==
    /\ NoPages \in Image
    /\ \A f \in Image : /\ Overlay(f, NoPages) = f /\ Overlay(NoPages, f) = f
                        /\ \A g \in Image : Overlay(f, g) \in Image
BY DEF NoPages, Image, Overlay

LEMMA ImageDamaged == \A f \in Image : f \in Damaged
BY ValuesAssumption DEF Image, Damaged

(* What has a page has a lowest one. *)
LEMMA FirstPage ==
    ASSUME NEW f, \E x \in Page : f[x] # None
    PROVE  First(f) \in Page /\ f[First(f)] # None
<1> DEFINE T == {x \in Page : f[x] # None}
<1>1. T \in SUBSET Nat /\ T # {}
  BY PageAssumption
<1>2. \E x \in T : \A y \in T : x <= y
  <2> HIDE DEF T
  <2> QED BY <1>1, LeastNatural
<1>3. \E x \in Page : f[x] # None /\ \A y \in Page : f[y] # None => x <= y
  BY <1>2
<1> QED BY <1>3 DEF First

(* There is always an inode for a new WAL: each process has one open at    *)
(* most.                                                                   *)
LEMMA FreeInode ==
    ASSUME wal = 0
    PROVE  \E i \in Inode : i # wal /\ \A q \in Process : h[q].fd # i
<1> SUFFICES ASSUME \A i \in Inode : \E q \in Process : h[q].fd = i PROVE FALSE
  BY DEF Inode
<1>1. Cardinality(Process) \in Nat
  BY FS_CardinalityType, ProcessAssumption
<1>2. /\ IsFiniteSet(Inode)
      /\ Cardinality(Inode) = Cardinality(Process) + 1
  BY <1>1, FS_Interval DEF Inode
<1> DEFINE user == [i \in Inode |-> CHOOSE q \in Process : h[q].fd = i]
<1>3. user \in [Inode -> Process]
  OBVIOUS
<1>4. Cardinality(Process) < Cardinality(Inode)
  BY <1>1, <1>2
<1>5. PICK i, j \in Inode : i # j /\ user[i] = user[j]
  <2> HIDE DEF user
  <2> QED BY <1>2, <1>3, <1>4, ProcessAssumption, FS_PigeonHole
<1>6. h[user[i]].fd = i /\ h[user[j]].fd = j
  OBVIOUS
<1> QED BY <1>5, <1>6

-----------------------------------------------------------------------------
(* A step of p: what it has to respect for each part of the invariant.     *)
Compatible(p, r) ==
    \A q \in Process \ {p} : /\ r.lock = "EX" => h[q].lock = "none"
                             /\ h[q].lock = "EX" => r.lock = "none"

LEMMA LockKept ==
    ASSUME Handles, NEW p \in Process, NEW r, r.lock \in {"none", h[p].lock}
    PROVE  Compatible(p, r)
BY DEF Handles, Exclusive, Compatible

LEMMA HandleStep ==
    ASSUME Handles, NEW p \in Process, NEW r, Local(p, r), Compatible(p, r),
           h' = [h EXCEPT ![p] = r]
    PROVE  Handles'
<1>1. h' = [q \in Process |-> IF q = p THEN r ELSE h[q]]
  BY DEF Handles
<1>2. h' = [q \in Process |-> h'[q]]
  BY <1>1
<1>3. ASSUME NEW q \in Process PROVE Local(q, h'[q])
  BY <1>1 DEF Handles
<1>4. ASSUME NEW q1 \in Process, NEW q2 \in Process, q1 # q2, h'[q1].lock = "EX"
      PROVE  h'[q2].lock = "none"
  BY <1>1, <1>4 DEF Handles, Exclusive, Compatible
<1> QED BY <1>2, <1>3, <1>4 DEF Handles, Exclusive

(* Who holds the lock and has logged a transaction keeps what is logged.   *)
Logging(r) == r.lock = "EX" /\ r.pc \in {"apply", "c_close", "c_unlink"}

LEMMA LogsStep ==
    ASSUME Handles, Logs, NEW p \in Process, NEW r, h' = [h EXCEPT ![p] = r],
           UNCHANGED <<wal, data>>,
           r.pc = "r_lock" => data[r.fd] = NoPages,
           Logging(h[p]) => Logging(r) /\ r.dirty = h[p].dirty
    PROVE  Logs'
<1>1. h' = [q \in Process |-> IF q = p THEN r ELSE h[q]]
  BY DEF Handles
<1>2. NothingToReplay'
  BY <1>1 DEF Logs, NothingToReplay, At
<1>3. NoStaleWal'
  <2> SUFFICES ASSUME wal # 0, data[wal] # NoPages
               PROVE  \E q \in Writers : /\ h'[q].pc \in {"apply", "c_close", "c_unlink"}
                                         /\ h'[q].lock = "EX" /\ h'[q].dirty = data[wal]
    BY DEF NoStaleWal
  <2>1. PICK q \in Writers : /\ h[q].pc \in {"apply", "c_close", "c_unlink"}
                             /\ h[q].lock = "EX" /\ h[q].dirty = data[wal]
    BY DEF Logs, NoStaleWal
  <2>2. q \in Process
    BY DEF Process
  <2> QED BY <1>1, <2>1, <2>2 DEF Logging
<1> QED BY <1>2, <1>3 DEF Logs

LEMMA FilesStep ==
    ASSUME Handles, Files, NEW p \in Process, NEW r, h' = [h EXCEPT ![p] = r],
           UNCHANGED <<exists, file, allowed>>, ~Behind(h[p]), ~Behind(r)
    PROVE  Files'
<1>1. h' = [q \in Process |-> IF q = p THEN r ELSE h[q]]
  BY DEF Handles
<1>2. PICK m \in Image : FileIs(m)
  BY DEF Files
<1>3. FileIs(m)'
  BY <1>1, <1>2 DEF FileIs
<1> QED BY <1>2, <1>3 DEF Files

(* Most steps are neither those of a commit nor of a recovery. *)
LEMMA QuietStep ==
    ASSUME WInv, NEW p \in Process, NEW r, Local(p, r), Compatible(p, r),
           h' = [h EXCEPT ![p] = r], UNCHANGED <<file, exists, wal, data, allowed>>,
           ~Behind(h[p]), ~Behind(r),
           r.pc = "r_lock" => data[r.fd] = NoPages
    PROVE  WInv'
<1>1. ~Logging(h[p])
  BY DEF Logging, Behind
<1> QED BY <1>1, HandleStep, LogsStep, FilesStep DEF WInv

-----------------------------------------------------------------------------
LEMMA ClosedLocal ==
    ASSUME NEW p \in Process
    PROVE  Local(p, Closed) /\ Closed.pc = "idle" /\ Closed.lock = "none"
BY DEF Closed, Local, Typed, Fields, LockPhase, WalPhase, PagesPhase, Image, NoPages, Opening, Committed

LEMMA InitInv == FileAtStart /\ Init => WInv
<1> SUFFICES ASSUME FileAtStart, Init PROVE WInv
  OBVIOUS
<1>1. /\ h = [p \in Process |-> Closed] /\ wal = 0 /\ data = [i \in Inode |-> NoPages]
      /\ exists = TRUE /\ file \in [Page -> Values] /\ allowed = {file}
  BY DEF Init
<1>2. Handles
  BY <1>1, ClosedLocal DEF Handles, Exclusive
<1>3. Logs
  BY <1>1, OverlayFacts, ClosedLocal DEF Logs, NoStaleWal, NothingToReplay, At
<1>4. file \in Image
  BY <1>1 DEF Image
<1>5. \A p \in Process : ~Behind(h[p])
  BY <1>1, ClosedLocal DEF Behind
<1> QED BY <1>1, <1>2, <1>3, <1>4, <1>5 DEF WInv, Files, FileIs

LEMMA StartInv == ASSUME WInv, NEW p \in Process, Start(p) PROVE WInv'
<1> DEFINE r == [Closed EXCEPT !.pc = "fopen", !.mode = IF exists THEN "r+" ELSE "w+"]
<1>1. /\ h' = [h EXCEPT ![p] = r] /\ UNCHANGED <<file, exists, wal, data, allowed>>
      /\ h[p].pc = "idle" /\ exists = TRUE
  BY DEF Start, At, WInv, Files
<1>2. Local(p, r) /\ r.pc = "fopen" /\ r.lock = "none"
  BY <1>1, ClosedLocal DEF Local, Typed, Fields, LockPhase, WalPhase, PagesPhase, Opening, Committed
<1> HIDE DEF r
<1>3. Compatible(p, r)
  BY <1>2, LockKept DEF WInv
<1> QED BY <1>1, <1>2, <1>3, QuietStep DEF Behind

LEMMA FopenInv == ASSUME WInv, NEW p \in Process, Fopen(p) PROVE WInv'
<1> DEFINE r == [h[p] EXCEPT !.pc = "flock"]
<1>0. Local(p, h[p]) /\ h[p].pc = "fopen" /\ h = [q \in Process |-> h[q]]
  BY DEF WInv, Handles, Fopen, At
<1>1. h' = [h EXCEPT ![p] = r] /\ UNCHANGED <<file, exists, wal, data, allowed>>
  BY <1>0 DEF Fopen, At, WInv, Files, Local, LockPhase, Goto
<1>2. Local(p, r) /\ r.pc = "flock" /\ r.lock = "none"
  BY <1>0 DEF Local, Typed, Fields, LockPhase, WalPhase, PagesPhase, Opening, Committed
<1> HIDE DEF r
<1>3. Compatible(p, r)
  BY <1>2, LockKept DEF WInv
<1> QED BY <1>0, <1>1, <1>2, <1>3, QuietStep DEF Behind

LEMMA FlockInv == ASSUME WInv, NEW p \in Process, Flock(p) PROVE WInv'
<1> DEFINE r == [h[p] EXCEPT !.lock = LockOf(p), !.pc = "access"]
<1>0. Local(p, h[p]) /\ h[p].pc = "flock" /\ h = [q \in Process |-> h[q]]
  BY DEF WInv, Handles, Flock, At
<1>1. h' = [h EXCEPT ![p] = r] /\ UNCHANGED <<file, exists, wal, data, allowed>>
  BY <1>0 DEF Flock, LockOf
<1>2. Local(p, r) /\ r.pc = "access" /\ r.lock = LockOf(p)
  BY <1>0 DEF Local, Typed, Fields, LockPhase, LockOf, WalPhase, PagesPhase, Opening, Committed
<1> HIDE DEF r
<1>3. Compatible(p, r)
  BY <1>2 DEF Flock, Grants, Compatible, LockOf
<1> QED BY <1>0, <1>1, <1>2, <1>3, QuietStep DEF Behind

(* Who opens the file holds its lock, so nobody's WAL is there to replay.  *)
LEMMA NoLog ==
    ASSUME WInv, NEW p \in Process, h[p].pc \in Opening \cup {"run"}
    PROVE  /\ wal # 0 => data[wal] = NoPages
           /\ \A q \in Process : ~Behind(h[q])
<1>1. h[p].lock # "none" /\ ~Logging(h[p]) /\ ~Behind(h[p])
  BY DEF WInv, Handles, Local, LockPhase, Logging, Behind, Opening
<1>2. \A q \in Process \ {p} : h[q].lock # "EX"
  BY <1>1 DEF WInv, Handles, Exclusive
<1>3. \A q \in Process : ~Logging(h[q]) /\ ~Behind(h[q])
  BY <1>1, <1>2 DEF Logging, Behind
<1>4. \A q \in Writers : ~Logging(h[q])
  BY <1>3 DEF Process
<1>5. wal # 0 => data[wal] = NoPages
  BY <1>4 DEF WInv, Logs, NoStaleWal, Logging
<1> QED BY <1>3, <1>5

LEMMA AccessWalInv == ASSUME WInv, NEW p \in Process, AccessWal(p) PROVE WInv'
<1> DEFINE r == [h[p] EXCEPT !.pc = IF wal = 0 THEN "header" ELSE "r_open"]
<1>0. Local(p, h[p]) /\ h[p].pc = "access" /\ h = [q \in Process |-> h[q]]
  BY DEF WInv, Handles, AccessWal, At
<1>1. h' = [h EXCEPT ![p] = r] /\ UNCHANGED <<file, exists, wal, data, allowed>>
  BY <1>0 DEF AccessWal, Goto
<1>2. Local(p, r) /\ r.pc \in {"header", "r_open"} /\ r.lock = h[p].lock
  BY <1>0 DEF Local, Typed, Fields, LockPhase, WalPhase, PagesPhase, Opening, Committed
<1> HIDE DEF r
<1>3. Compatible(p, r)
  BY <1>2, LockKept DEF WInv
<1> QED BY <1>0, <1>1, <1>2, <1>3, QuietStep DEF Behind

LEMMA OpenWalInv == ASSUME WInv, NEW p \in Process, OpenWal(p) PROVE WInv'
<1> DEFINE r == [h[p] EXCEPT !.fd = wal, !.pc = IF wal = 0 THEN "header" ELSE "r_lock"]
<1>0. /\ Local(p, h[p]) /\ h[p].pc = "r_open" /\ h = [q \in Process |-> h[q]]
      /\ wal \in Inode \cup {0}
  BY DEF WInv, Handles, OpenWal, At, Logs
<1>1. h' = [h EXCEPT ![p] = r] /\ UNCHANGED <<file, exists, wal, data, allowed>>
  BY <1>0 DEF OpenWal
<1>2. /\ Local(p, r) /\ r.pc \in {"header", "r_lock"} /\ r.lock = h[p].lock
      /\ r.fd = wal /\ (r.pc = "r_lock" => wal # 0)
  BY <1>0 DEF Local, Typed, Fields, LockPhase, WalPhase, PagesPhase, Opening, Committed
<1> HIDE DEF r
<1>3. Compatible(p, r)
  BY <1>2, LockKept DEF WInv
<1>4. wal # 0 => data[wal] = NoPages
  BY <1>0, NoLog DEF Opening
<1> QED BY <1>0, <1>1, <1>2, <1>3, <1>4, QuietStep DEF Behind

(* A WAL that is read is empty: a recovery has nothing to apply. *)
LEMMA ReadWalInv == ASSUME WInv, NEW p \in Process, ReadWal(p) PROVE WInv'
<1> DEFINE r == [h[p] EXCEPT !.fd = 0, !.pc = IF p \in Writers THEN "apply" ELSE "header"]
<1>0. /\ Local(p, h[p]) /\ h[p].pc = "r_lock" /\ h = [q \in Process |-> h[q]]
      /\ data[h[p].fd] = NoPages
  BY DEF WInv, Handles, ReadWal, At, Logs, NothingToReplay
<1>1. h[p].left = NoPages /\ h[p].buf = NoPages /\ h[p].dirty = NoPages /\ h[p].cache = NoPages
  BY <1>0 DEF Local, PagesPhase, Opening
<1>2. Applicable(NoPages)
  BY DEF Applicable
<1>3. h' = IF p \in Writers
             THEN [h EXCEPT ![p].fd = 0, ![p].pc = "apply", ![p].buf = NoPages, ![p].left = NoPages]
             ELSE [h EXCEPT ![p].fd = 0, ![p].pc = "header", ![p].cache = NoPages]
  BY <1>0, <1>2 DEF ReadWal
<1>4. h' = [h EXCEPT ![p] = r]
  <2>1. Typed(h[p])
    BY <1>0 DEF Local
  <2>2. CASE p \in Writers
    <3>1. h' = [h EXCEPT ![p] = [h[p] EXCEPT !.fd = 0, !.pc = "apply", !.buf = NoPages,
                                             !.left = NoPages]]
      BY <1>0, <1>3, <2>2
    <3>2. [h[p] EXCEPT !.fd = 0, !.pc = "apply", !.buf = NoPages, !.left = NoPages] = r
      BY <1>1, <2>1, <2>2 DEF Typed, Fields
    <3> QED BY <3>1, <3>2
  <2>3. CASE p \notin Writers
    <3>1. h' = [h EXCEPT ![p] = [h[p] EXCEPT !.fd = 0, !.pc = "header", !.cache = NoPages]]
      BY <1>0, <1>3, <2>3
    <3>2. [h[p] EXCEPT !.fd = 0, !.pc = "header", !.cache = NoPages] = r
      BY <1>1, <2>1, <2>3 DEF Typed, Fields
    <3> QED BY <3>1, <3>2
  <2> QED BY <2>2, <2>3
<1>5. /\ Local(p, r) /\ r.pc \in {"apply", "header"} /\ r.lock = h[p].lock
      /\ r.left = NoPages /\ r.buf = NoPages /\ r.dirty = NoPages
  BY <1>0, <1>1 DEF Local, Typed, Fields, LockPhase, LockOf, WalPhase, PagesPhase, Opening, Committed
<1>6. UNCHANGED <<file, exists, wal, data, allowed>>
  BY DEF ReadWal
<1> HIDE DEF r
<1>7. Handles'
  <2>1. Compatible(p, r)
    BY <1>5, LockKept DEF WInv
  <2> QED BY <1>4, <1>5, <2>1, HandleStep DEF WInv
<1>8. Logs'
  <2>1. ~Logging(h[p]) /\ r.pc # "r_lock"
    BY <1>0, <1>5 DEF Logging
  <2> QED BY <1>4, <1>6, <2>1, LogsStep DEF WInv
<1>9. Files'
  <2>1. PICK m \in Image : FileIs(m)
    BY DEF WInv, Files
  <2>2. file = m
    BY <1>0, <2>1, NoLog DEF FileIs, Opening
  <2>3. ASSUME NEW q \in Process, Behind(h'[q])
        PROVE  Completed(file, h'[q]) = Overlay(m, h'[q].dirty)
    <3>1. q = p
      BY <1>0, <1>4, <2>3, NoLog DEF Opening
    <3>2. h'[q] = r
      BY <1>0, <1>4, <3>1
    <3>3. file = m /\ m \in Image
      BY <2>2
    <3> QED BY <1>5, <3>2, <3>3, OverlayFacts DEF Completed
  <2> QED BY <1>6, <2>1, <2>2, <2>3 DEF FileIs, WInv, Files
<1> QED BY <1>7, <1>8, <1>9 DEF WInv

(* The lock's holder has the file to itself. *)
LEMMA HolderFiles ==
    ASSUME Handles, NEW p \in Process, NEW r, h' = [h EXCEPT ![p] = r],
           h[p].lock = "EX", Behind(r), exists' = TRUE, file' \in Image,
           NEW m \in Image, allowed' = {m}, Completed(file', r) = Overlay(m, r.dirty)
    PROVE  Files'
<1>1. h' = [q \in Process |-> IF q = p THEN r ELSE h[q]]
  BY DEF Handles
<1>2. \A q \in Process \ {p} : ~Behind(h'[q])
  BY <1>1 DEF Handles, Exclusive, Behind
<1>3. h'[p] = r
  BY <1>1
<1>4. FileIs(m)'
  BY <1>2, <1>3 DEF FileIs
<1> QED BY <1>4 DEF Files

LEMMA ClearFiles ==
    ASSUME Handles, NEW p \in Process, NEW r, h' = [h EXCEPT ![p] = r],
           \A q \in Process \ {p} : ~Behind(h[q]), ~Behind(r),
           exists' = TRUE, file' \in Image, allowed' = {file'}
    PROVE  Files'
<1>1. h' = [q \in Process |-> IF q = p THEN r ELSE h[q]]
  BY DEF Handles
<1>2. \A q \in Process : ~Behind(h'[q])
  BY <1>1
<1>3. \E m \in Image : FileIs(m)'
  BY <1>2 DEF FileIs
<1> QED BY <1>3 DEF Files

(* A page more in the file, or in the buffer, does not change what the     *)
(* file is to become.                                                      *)
LEMMA PageApplied ==
    ASSUME NEW f \in Image, NEW buf \in Image, NEW left \in Image, NEW x \in Page,
           left[x] # None
    PROVE  /\ [NoPages EXCEPT ![x] = left[x]] \in Image /\ [left EXCEPT ![x] = None] \in Image
           /\ Overlay(Overlay(Overlay(f, buf), [NoPages EXCEPT ![x] = left[x]]),
                      [left EXCEPT ![x] = None])
                = Overlay(Overlay(f, buf), left)
BY DEF Image, NoPages, Overlay

(* ApplyPage takes a page that is left, which only the lock's holder has:  *)
(* here it is named, with the handle it leaves.                            *)
LEMMA AppliesPage ==
    ASSUME WInv, NEW p \in Process, ApplyPage(p)
    PROVE  \E x \in Page :
              LET r == [h[p] EXCEPT !.buf = [NoPages EXCEPT ![x] = h[p].left[x]],
                                    !.left = [h[p].left EXCEPT ![x] = None]]
              IN /\ h[p].left[x] # None /\ h[p].dirty[x] = h[p].left[x]
                 /\ h[p].lock = "EX" /\ h[p].fd # 0 /\ p \in Writers /\ h[p].pc = "apply"
                 /\ h' = [h EXCEPT ![p] = r]
<1>0. Local(p, h[p]) /\ h[p].pc = "apply" /\ h = [q \in Process |-> h[q]] /\ h[p].left # NoPages
  BY DEF WInv, Handles, ApplyPage, At
<1> DEFINE x == First(h[p].left)
<1>1. x \in Page /\ h[p].left[x] # None
  <2>1. \E y \in Page : h[p].left[y] # None
    BY <1>0 DEF Local, Typed, Image, NoPages
  <2> QED BY <2>1, FirstPage
<1>2. h' = [h EXCEPT ![p].buf = [NoPages EXCEPT ![x] = h[p].left[x]], ![p].left[x] = None]
  BY DEF ApplyPage
<1> HIDE DEF x
<1>3. h[p].dirty[x] = h[p].left[x]
  BY <1>0, <1>1 DEF Local, PagesPhase
<1>4. h[p].dirty # NoPages
  BY <1>1, <1>3 DEF NoPages
<1>5. h[p].lock = "EX" /\ h[p].fd # 0 /\ p \in Writers
  BY <1>0, <1>4 DEF Local, LockPhase, PagesPhase
<1>6. h' = [h EXCEPT ![p] = [h[p] EXCEPT !.buf = [NoPages EXCEPT ![x] = h[p].left[x]],
                                         !.left = [h[p].left EXCEPT ![x] = None]]]
  BY <1>0, <1>2
<1> QED BY <1>0, <1>1, <1>3, <1>5, <1>6

LEMMA ApplyPageInv == ASSUME WInv, NEW p \in Process, ApplyPage(p) PROVE WInv'
<1>1. PICK x \in Page :
         LET r == [h[p] EXCEPT !.buf = [NoPages EXCEPT ![x] = h[p].left[x]],
                               !.left = [h[p].left EXCEPT ![x] = None]]
         IN /\ h[p].left[x] # None /\ h[p].dirty[x] = h[p].left[x]
            /\ h[p].lock = "EX" /\ h[p].fd # 0 /\ p \in Writers /\ h[p].pc = "apply"
            /\ h' = [h EXCEPT ![p] = r]
  BY AppliesPage
<1> DEFINE next == [NoPages EXCEPT ![x] = h[p].left[x]]
           rest == [h[p].left EXCEPT ![x] = None]
           r == [h[p] EXCEPT !.buf = next, !.left = rest]
<1>2. Local(p, h[p])
  BY DEF WInv, Handles
<1>3. file \in Image /\ h[p].buf \in Image /\ h[p].left \in Image /\ h[p].dirty \in Image
  BY <1>2 DEF WInv, Files, Local, Typed
<1>4. /\ next \in Image /\ rest \in Image
      /\ Overlay(Overlay(Overlay(file, h[p].buf), next), rest)
           = Overlay(Overlay(file, h[p].buf), h[p].left)
  <2>1. \A f, buf, left \in Image : left[x] # None =>
           /\ [NoPages EXCEPT ![x] = left[x]] \in Image /\ [left EXCEPT ![x] = None] \in Image
           /\ Overlay(Overlay(Overlay(f, buf), [NoPages EXCEPT ![x] = left[x]]),
                      [left EXCEPT ![x] = None])
                = Overlay(Overlay(f, buf), left)
    BY PageApplied
  <2> QED BY <1>1, <1>3, <2>1
<1>5. \A y \in Page : next[y] \in {None, h[p].dirty[y]} /\ rest[y] \in {None, h[p].dirty[y]}
  <2>1. /\ \A y \in Page : next[y] = IF y = x THEN h[p].left[x] ELSE None
        /\ \A y \in Page : rest[y] = IF y = x THEN None ELSE h[p].left[y]
    BY <1>3 DEF Image, NoPages
  <2>2. \A y \in Page : h[p].left[y] \in {None, h[p].dirty[y]}
    BY <1>2 DEF Local, PagesPhase
  <2> HIDE DEF next, rest
  <2> QED BY <1>1, <2>1, <2>2
<1>6. h' = [h EXCEPT ![p] = r]
  BY <1>1
<1> HIDE DEF next, rest
<1>7. /\ Local(p, r) /\ r.lock = h[p].lock /\ r.pc = "apply" /\ r.dirty = h[p].dirty
      /\ r.buf = next /\ r.left = rest
  BY <1>1, <1>2, <1>4, <1>5 DEF Local, Typed, Fields, LockPhase, WalPhase, PagesPhase, Opening, Committed
<1> HIDE DEF r
<1>8. Handles'
  <2>1. Compatible(p, r)
    BY <1>7, LockKept DEF WInv
  <2> QED BY <1>6, <1>7, <2>1, HandleStep DEF WInv
<1>9. Logs'
  <2>1. UNCHANGED <<wal, data>> /\ Logging(r)
    BY <1>1, <1>7 DEF ApplyPage, Logging
  <2> QED BY <1>6, <1>7, <2>1, LogsStep DEF WInv
<1>10. Files'
  <2>1. PICK m \in Image : FileIs(m)
    BY DEF WInv, Files
  <2>2. /\ file' = Overlay(file, h[p].buf) /\ file' \in Image
        /\ exists' = TRUE /\ allowed' = {m}
    BY <1>3, <2>1, OverlayFacts DEF ApplyPage, Flushed, WInv, Files, FileIs
  <2>3. Behind(h[p]) /\ Behind(r)
    BY <1>1, <1>7 DEF Behind
  <2>4. Completed(file, h[p]) = Overlay(m, h[p].dirty)
    BY <2>1, <2>3 DEF FileIs
  <2>5. Completed(file', r) = Overlay(m, r.dirty)
    BY <1>4, <1>7, <2>2, <2>4 DEF Completed
  <2> QED BY <1>1, <1>6, <2>2, <2>3, <2>5, HolderFiles DEF WInv
<1> QED BY <1>8, <1>9, <1>10 DEF WInv

-----------------------------------------------------------------------------
LEMMA EndRecoveryInv == ASSUME WInv, NEW p \in Process, EndRecovery(p) PROVE WInv'
<1> DEFINE r == [h[p] EXCEPT !.pc = "header"]
<1>0. /\ Local(p, h[p]) /\ h[p].pc = "apply" /\ h[p].fd = 0 /\ h = [q \in Process |-> h[q]]
      /\ h[p].left = NoPages /\ h[p].lock = "EX" /\ h[p].dirty = NoPages
  BY DEF WInv, Handles, EndRecovery, At, Local, LockPhase
<1>1. h[p].buf = NoPages
  BY <1>0 DEF Local, Typed, PagesPhase, Image, NoPages
<1>2. h' = [h EXCEPT ![p] = r] /\ wal' = 0 /\ UNCHANGED <<file, exists, data, allowed>>
  BY <1>0 DEF EndRecovery, Goto
<1>3. Local(p, r) /\ r.pc = "header" /\ r.lock = "EX"
  BY <1>0, <1>1 DEF Local, Typed, Fields, LockPhase, LockOf, WalPhase, PagesPhase, Opening, Committed
<1> HIDE DEF r
<1>4. Handles'
  <2>1. Compatible(p, r)
    BY <1>0, <1>3, LockKept DEF WInv
  <2> QED BY <1>2, <1>3, <2>1, HandleStep DEF WInv
<1>5. Logs'
  <2>1. ASSUME NEW q \in Process, h'[q].pc = "r_lock" PROVE data[h'[q].fd] = NoPages
    BY <1>0, <1>2, <1>3, <2>1 DEF WInv, Logs, NothingToReplay, At
  <2> QED BY <1>2, <2>1 DEF WInv, Logs, NoStaleWal, NothingToReplay, At
<1>6. Files'
  <2>1. PICK m \in Image : FileIs(m)
    BY DEF WInv, Files
  <2>2. Behind(h[p]) /\ file \in Image /\ exists = TRUE
    BY <1>0 DEF Behind, WInv, Files
  <2>3. Completed(file, h[p]) = Overlay(m, NoPages)
    BY <1>0, <2>1, <2>2 DEF FileIs
  <2>4. file = m
    BY <1>0, <1>1, <2>2, <2>3, OverlayFacts DEF Completed
  <2>5. \A q \in Process \ {p} : ~Behind(h[q])
    BY <1>0 DEF WInv, Handles, Exclusive, Behind
  <2>6. exists' = TRUE /\ file' \in Image /\ allowed' = {file'} /\ ~Behind(r)
    BY <1>2, <1>3, <2>1, <2>2, <2>4 DEF FileIs, Behind
  <2> QED BY <1>2, <2>5, <2>6, ClearFiles DEF WInv
<1> QED BY <1>4, <1>5, <1>6 DEF WInv

(* Who opens a database finds the last commit in it. *)
LEMMA Found ==
    ASSUME WInv, NEW p \in Process, h[p].pc \in Opening \cup {"run"}
    PROVE  allowed = {file} /\ View(p) = file /\ Flushed(p) = file
<1>1. h[p].buf = NoPages /\ h[p].cache = NoPages
  BY DEF WInv, Handles, Local, PagesPhase, Opening
<1>2. allowed = {file} /\ file \in Image
  BY NoLog DEF WInv, Files, FileIs
<1> QED BY <1>1, <1>2, OverlayFacts DEF View, Flushed

LEMMA ReadHeaderInv == ASSUME WInv, NEW p \in Process, ReadHeader(p) PROVE WInv'
<1>0. Local(p, h[p]) /\ h[p].pc = "header" /\ h = [q \in Process |-> h[q]]
  BY DEF WInv, Handles, ReadHeader, At
<1>1. allowed = {file} /\ View(p) = file /\ Flushed(p) = file
  BY <1>0, Found DEF Opening
<1>2. UNCHANGED <<file, exists, wal, data, allowed>>
  BY <1>1 DEF ReadHeader, View, Agrees
<1> DEFINE opened == [h[p] EXCEPT !.pc = "run", !.buf = NoPages]
<1>3. PICK r : /\ h' = [h EXCEPT ![p] = r]
               /\ \/ r = opened
                  \/ /\ p \in Writers
                     /\ \E v \in Values : r = [opened EXCEPT !.dirty = [NoPages EXCEPT ![0] = v]]
                  \/ r = Closed
                  \/ r = [opened EXCEPT !.pc = "idle"]
  BY DEF ReadHeader
<1>4. h[p].lock = LockOf(p) /\ h[p].dirty = NoPages
  BY <1>0 DEF Local, LockPhase, PagesPhase, Opening
<1>5. Local(p, r) /\ r.pc \in {"run", "idle"} /\ r.lock \in {"none", h[p].lock}
  <2>1. Local(p, opened) /\ opened.pc = "run" /\ opened.lock = h[p].lock
    BY <1>0 DEF Local, Typed, Fields, LockPhase, WalPhase, PagesPhase, Image, NoPages, Opening, Committed
  <2>2. ASSUME p \in Writers, NEW v \in Values, r = [opened EXCEPT !.dirty = [NoPages EXCEPT ![0] = v]]
        PROVE  Local(p, r) /\ r.pc = "run" /\ r.lock = h[p].lock
    <3>1. /\ r = [f \in Fields |-> r[f]] /\ r.dirty = [NoPages EXCEPT ![0] = v]
          /\ r.fd = opened.fd /\ r.left = opened.left /\ r.buf = opened.buf
          /\ r.again = opened.again /\ r.lock = opened.lock /\ r.pc = opened.pc
          /\ r.mode = opened.mode /\ r.cache = opened.cache /\ r.size = opened.size
      <4> HIDE DEF opened
      <4> QED BY <2>1, <2>2 DEF Local, Typed, Fields
    <3>2. opened.left = NoPages /\ opened.buf = NoPages
      <4> HIDE DEF opened
      <4> QED BY <2>1 DEF Local, PagesPhase
    <3> HIDE DEF opened
    <3>3. Typed(r)
      BY <2>1, <3>1, PageAssumption DEF Local, Typed, Image, NoPages
    <3>4. PagesPhase(r)
      BY <1>4, <2>1, <2>2, <3>1, <3>2 DEF Local, PagesPhase, NoPages, Opening, LockOf
    <3> QED BY <2>1, <3>1, <3>3, <3>4 DEF Local, LockPhase, WalPhase
  <2>3. /\ Local(p, [opened EXCEPT !.pc = "idle"])
        /\ [opened EXCEPT !.pc = "idle"].pc = "idle" /\ [opened EXCEPT !.pc = "idle"].lock = h[p].lock
    BY <1>0 DEF Local, Typed, Fields, LockPhase, WalPhase, PagesPhase, Image, NoPages, Opening, Committed
  <2> HIDE DEF opened
  <2> QED BY <1>3, <2>1, <2>2, <2>3, ClosedLocal
<1> HIDE DEF opened
<1>6. Compatible(p, r)
  BY <1>5, LockKept DEF WInv
<1> QED BY <1>0, <1>2, <1>3, <1>5, <1>6, QuietStep DEF Behind

LEMMA WriteInv ==
    ASSUME WInv, NEW p \in Process, NEW x \in Page, NEW v \in Values, Write(p, x, v)
    PROVE  WInv'
<1> DEFINE r == [h[p] EXCEPT !.dirty = [h[p].dirty EXCEPT ![x] = v]]
<1>0. Local(p, h[p]) /\ h[p].pc = "run" /\ h = [q \in Process |-> h[q]] /\ p \in Writers
  BY DEF WInv, Handles, Write, At
<1>1. h' = [h EXCEPT ![p] = r] /\ UNCHANGED <<file, exists, wal, data, allowed>>
  BY <1>0 DEF Write
<1>2. h[p].lock = "EX" /\ h[p].left = NoPages /\ h[p].buf = NoPages
  BY <1>0 DEF Local, LockPhase, LockOf, PagesPhase
<1>3. [h[p].dirty EXCEPT ![x] = v] \in Image
  BY <1>0 DEF Local, Typed, Image
<1>4. Local(p, r) /\ r.pc = "run" /\ r.lock = h[p].lock
  BY <1>0, <1>2, <1>3 DEF Local, Typed, Fields, LockPhase, WalPhase, PagesPhase, NoPages, Opening, Committed
<1> HIDE DEF r
<1>5. Compatible(p, r)
  BY <1>4, LockKept DEF WInv
<1> QED BY <1>0, <1>1, <1>4, <1>5, QuietStep DEF Behind

LEMMA CloseInv == ASSUME WInv, NEW p \in Process, Close(p) PROVE WInv'
<1>1. h' = [h EXCEPT ![p] = Closed] /\ UNCHANGED <<file, exists, wal, data, allowed>>
  BY DEF Close
<1>2. Compatible(p, Closed)
  BY ClosedLocal, LockKept DEF WInv
<1>3. ~Behind(h[p])
  BY DEF Close, Behind
<1> QED BY <1>1, <1>2, <1>3, ClosedLocal, QuietStep DEF Behind

LEMMA QueueInv == ASSUME WInv, NEW p \in Process, Queue(p) PROVE WInv'
<1> DEFINE r == [h[p] EXCEPT !.pc = "idle"]
<1>0. Local(p, h[p]) /\ h[p].pc = "run" /\ h = [q \in Process |-> h[q]]
  BY DEF WInv, Handles, Queue, At
<1>1. h' = [h EXCEPT ![p] = r] /\ UNCHANGED <<file, exists, wal, data, allowed>>
  BY <1>0 DEF Queue, Goto
<1>2. Local(p, r) /\ r.pc = "idle" /\ r.lock = h[p].lock
  BY <1>0 DEF Local, Typed, Fields, LockPhase, WalPhase, PagesPhase, Opening, Committed
<1> HIDE DEF r
<1>3. Compatible(p, r)
  BY <1>2, LockKept DEF WInv
<1> QED BY <1>0, <1>1, <1>2, <1>3, QuietStep DEF Behind

LEMMA CallCommitInv ==
    ASSUME WInv, NEW p \in Process, NEW again \in BOOLEAN, CallCommit(p, again)
    PROVE  WInv'
<1> DEFINE r == [h[p] EXCEPT !.pc = "c_open", !.again = again]
<1>0. Local(p, h[p]) /\ h[p].pc = "run" /\ h = [q \in Process |-> h[q]] /\ p \in Writers
  BY DEF WInv, Handles, CallCommit, At
<1>1. h' = [h EXCEPT ![p] = r] /\ UNCHANGED <<file, exists, wal, data, allowed>>
  BY <1>0 DEF CallCommit
<1>2. Local(p, r) /\ r.pc = "c_open" /\ r.lock = h[p].lock
  BY <1>0 DEF Local, Typed, Fields, LockPhase, WalPhase, PagesPhase, Opening, Committed
<1> HIDE DEF r
<1>3. Compatible(p, r)
  BY <1>2, LockKept DEF WInv
<1> QED BY <1>0, <1>1, <1>2, <1>3, QuietStep DEF Behind

LEMMA LockWalInv == ASSUME WInv, NEW p \in Process, LockWal(p) PROVE WInv'
<1> DEFINE r == [h[p] EXCEPT !.pc = "c_write"]
<1>0. Local(p, h[p]) /\ h[p].pc = "c_lock" /\ h = [q \in Process |-> h[q]]
  BY DEF WInv, Handles, LockWal, At
<1>1. h' = [h EXCEPT ![p] = r] /\ UNCHANGED <<file, exists, wal, data, allowed>>
  BY <1>0 DEF LockWal, Goto
<1>2. Local(p, r) /\ r.pc = "c_write" /\ r.lock = h[p].lock
  BY <1>0 DEF Local, Typed, Fields, LockPhase, WalPhase, PagesPhase, Opening, Committed
<1> HIDE DEF r
<1>3. Compatible(p, r)
  BY <1>2, LockKept DEF WInv
<1> QED BY <1>0, <1>1, <1>2, <1>3, QuietStep DEF Behind

-----------------------------------------------------------------------------
(* A commit's own writes to its WAL, by one who holds the lock or by one   *)
(* who does not and has nothing to log.                                    *)
LEMMA LogWritten ==
    ASSUME Handles, Logs, NEW p \in Process, NEW r, h' = [h EXCEPT ![p] = r],
           wal' = wal, NEW pages \in {NoPages, h[p].dirty},
           data' \in {data, [data EXCEPT ![h[p].fd] = pages]},
           r.dirty = h[p].dirty, r.lock = h[p].lock, r.pc # "r_lock",
           h[p].lock = "EX" => Logging(r)
    PROVE  Logs'
<1>0. Local(p, h[p]) /\ h[p].dirty \in Image
  BY DEF Handles, Local, Typed
<1>1. h' = [q \in Process |-> IF q = p THEN r ELSE h[q]]
  BY DEF Handles
<1>2. h[p].lock # "EX" => pages = NoPages
  BY <1>0 DEF Local, PagesPhase
<1>3. data' \in [Inode -> Image]
  BY <1>0, OverlayFacts DEF Logs
<1>4. \A i \in Inode : data'[i] = data[i] \/ data'[i] = pages
  BY DEF Logs
<1>5. NothingToReplay'
  <2> SUFFICES ASSUME NEW q \in Process, h'[q].pc = "r_lock" PROVE data'[h'[q].fd] = NoPages
    BY DEF NothingToReplay, At
  <2>1. q # p /\ h'[q] = h[q]
    BY <1>1
  <2>2. Local(q, h[q]) /\ h[q].pc = "r_lock"
    BY <2>1 DEF Handles
  <2>3. h[q].lock # "none" /\ h[q].fd \in Inode /\ data[h[q].fd] = NoPages
    BY <2>2 DEF Logs, NothingToReplay, At, Local, Typed, LockPhase, WalPhase, Opening
  <2>4. pages = NoPages
    BY <1>2, <2>1, <2>3 DEF Handles, Exclusive
  <2> QED BY <1>4, <2>1, <2>3, <2>4
<1>6. NoStaleWal'
  <2> SUFFICES ASSUME wal # 0, data'[wal] # NoPages
               PROVE  \E q \in Writers : /\ h'[q].pc \in {"apply", "c_close", "c_unlink"}
                                         /\ h'[q].lock = "EX" /\ h'[q].dirty = data'[wal]
    BY DEF NoStaleWal
  <2>1. wal \in Inode
    BY DEF Logs
  <2>2. CASE data'[wal] = data[wal]
    <3>1. PICK q \in Writers : /\ h[q].pc \in {"apply", "c_close", "c_unlink"}
                               /\ h[q].lock = "EX" /\ h[q].dirty = data[wal]
      BY <2>2 DEF Logs, NoStaleWal
    <3>2. q \in Process
      BY DEF Process
    <3> QED BY <1>1, <2>2, <3>1, <3>2 DEF Logging
  <2>3. CASE data'[wal] # data[wal]
    <3>1. data'[wal] = h[p].dirty /\ h[p].lock = "EX"
      BY <1>2, <1>4, <2>1, <2>3
    <3>2. p \in Writers
      BY <1>0, <3>1 DEF Local, LockPhase, LockOf
    <3> QED BY <1>1, <3>1, <3>2 DEF Logging
  <2> QED BY <2>2, <2>3
<1> QED BY <1>3, <1>5, <1>6 DEF Logs

(* The file's part when only the WAL is touched. *)
LEMMA FilesKept ==
    ASSUME Handles, Files, NEW p \in Process, NEW r, h' = [h EXCEPT ![p] = r],
           UNCHANGED <<exists, file, allowed>>, Behind(h[p]) <=> Behind(r),
           r.dirty = h[p].dirty, r.left = h[p].left, r.buf = h[p].buf
    PROVE  Files'
<1>1. h' = [q \in Process |-> IF q = p THEN r ELSE h[q]]
  BY DEF Handles
<1>2. PICK m \in Image : FileIs(m)
  BY DEF Files
<1>3. ASSUME NEW q \in Process
      PROVE  /\ Behind(h'[q]) <=> Behind(h[q])
             /\ Completed(file, h'[q]) = Completed(file, h[q]) /\ h'[q].dirty = h[q].dirty
  BY <1>1 DEF Completed
<1>4. FileIs(m)'
  BY <1>2, <1>3 DEF FileIs
<1> QED BY <1>2, <1>4 DEF Files

LEMMA CreateWalInv == ASSUME WInv, NEW p \in Process, CreateWal(p) PROVE WInv'
<1>0. Local(p, h[p]) /\ h[p].pc = "c_open" /\ h = [q \in Process |-> h[q]]
  BY DEF WInv, Handles, CreateWal, At
<1>1. PICK i \in Inode :
         /\ h' = [h EXCEPT ![p] = [h[p] EXCEPT !.fd = i, !.pc = "c_lock"]]
         /\ wal' = i /\ data' = [data EXCEPT ![i] = NoPages]
         /\ UNCHANGED <<file, exists, allowed>>
  <2> DEFINE free == {i \in Inode : i # wal /\ \A q \in Process : h[q].fd # i}
             i == IF wal # 0 THEN wal ELSE CHOOSE j \in free : TRUE
  <2>1. i \in Inode
    <3>1. CASE wal # 0
      BY <3>1 DEF WInv, Logs
    <3>2. CASE wal = 0
      BY <3>2, FreeInode DEF WInv
    <3> QED BY <3>1, <3>2
  <2>2. /\ wal' = i /\ data' = [data EXCEPT ![i] = NoPages]
        /\ h' = [h EXCEPT ![p].fd = i, ![p].pc = "c_lock"]
        /\ UNCHANGED <<file, exists, allowed>>
    BY DEF CreateWal
  <2> HIDE DEF i
  <2> QED BY <1>0, <2>1, <2>2
<1> DEFINE r == [h[p] EXCEPT !.fd = i, !.pc = "c_lock"]
<1>2. i # 0
  BY DEF Inode
<1>3. /\ Local(p, r) /\ r.pc = "c_lock" /\ r.lock = h[p].lock /\ r.fd = i
      /\ r.dirty = h[p].dirty /\ r.left = h[p].left /\ r.buf = h[p].buf
  BY <1>0, <1>2 DEF Local, Typed, Fields, LockPhase, WalPhase, PagesPhase, Opening, Committed
<1>4. h' = [h EXCEPT ![p] = r]
  BY <1>1
<1> HIDE DEF r
<1>5. Handles'
  <2>1. Compatible(p, r)
    BY <1>3, LockKept DEF WInv
  <2> QED BY <1>3, <1>4, <2>1, HandleStep DEF WInv
<1>6. Logs'
  <2>1. data' \in [Inode -> Image] /\ data'[i] = NoPages
    BY <1>1, OverlayFacts DEF WInv, Logs
  <2>2. ASSUME NEW q \in Process, h'[q].pc = "r_lock" PROVE data'[h'[q].fd] = NoPages
    <3>1. q # p /\ h'[q] = h[q]
      BY <1>0, <1>3, <1>4, <2>2
    <3>2. Local(q, h[q]) /\ h[q].pc = "r_lock"
      BY <2>2, <3>1 DEF WInv, Handles
    <3>3. h[q].fd \in Inode /\ data[h[q].fd] = NoPages
      BY <3>2 DEF WInv, Logs, NothingToReplay, At, Local, Typed, WalPhase
    <3> QED BY <1>1, <3>1, <3>3, <2>1 DEF WInv, Logs
  <2>3. NoStaleWal'
    BY <1>1, <2>1 DEF NoStaleWal
  <2> QED BY <1>1, <2>1, <2>2, <2>3 DEF Logs, NothingToReplay, At
<1>7. Files'
  <2>1. ~Behind(h[p]) /\ ~Behind(r)
    BY <1>0, <1>3 DEF Behind
  <2> QED BY <1>1, <1>4, <2>1, FilesStep DEF WInv
<1> QED BY <1>5, <1>6, <1>7 DEF WInv

(* From here on who holds the lock is Behind. *)
LEMMA WriteWalInv == ASSUME WInv, NEW p \in Process, WriteWal(p) PROVE WInv'
<1>0. /\ Local(p, h[p]) /\ h[p].pc = "c_write" /\ h = [q \in Process |-> h[q]]
      /\ h[p].dirty \in Image
  BY DEF WInv, Handles, WriteWal, At, Local, Typed
<1>1. PICK s \in WalSizes :
         /\ data' = IF s = "exact" THEN [data EXCEPT ![h[p].fd] = h[p].dirty] ELSE data
         /\ h' = [h EXCEPT ![p].size = s, ![p].left = h[p].dirty, ![p].pc = "apply"]
         /\ UNCHANGED <<file, exists, wal, allowed>>
  BY DEF WriteWal
<1> DEFINE r == [h[p] EXCEPT !.size = s, !.left = h[p].dirty, !.pc = "apply"]
<1>2. /\ h[p].fd # 0 /\ p \in Writers /\ h[p].buf = NoPages
      /\ s \in {"small", "large", "exact"}
  BY <1>0, WalSizesAssumption DEF Local, LockPhase, WalPhase, PagesPhase, Committed
<1>3. /\ Local(p, r) /\ r.pc = "apply" /\ r.lock = h[p].lock
      /\ r.dirty = h[p].dirty /\ r.left = h[p].dirty /\ r.buf = NoPages
  BY <1>0, <1>2 DEF Local, Typed, Fields, LockPhase, WalPhase, PagesPhase, Opening, Committed, NoPages
<1>4. h' = [h EXCEPT ![p] = r]
  BY <1>0, <1>1
<1> HIDE DEF r
<1>5. Handles'
  <2>1. Compatible(p, r)
    BY <1>3, LockKept DEF WInv
  <2> QED BY <1>3, <1>4, <2>1, HandleStep DEF WInv
<1>6. Logs'
  <2>1. data' \in {data, [data EXCEPT ![h[p].fd] = h[p].dirty]}
    BY <1>1
  <2>2. h[p].lock = "EX" => Logging(r)
    BY <1>3 DEF Logging
  <2> QED BY <1>1, <1>3, <1>4, <2>1, <2>2, LogWritten DEF WInv
<1>7. Files'
  <2>1. CASE h[p].lock = "EX"
    <3>1. \A q \in Process : ~Behind(h[q])
      BY <1>0, <2>1 DEF WInv, Handles, Exclusive, Behind
    <3>2. PICK m \in Image : FileIs(m)
      BY DEF WInv, Files
    <3>3. file = m /\ allowed = {m} /\ exists = TRUE
      BY <3>1, <3>2 DEF FileIs, WInv, Files
    <3>4. Completed(file', r) = Overlay(m, r.dirty) /\ file' \in Image
      BY <1>1, <1>3, <3>3, OverlayFacts DEF Completed
    <3>5. Behind(r) /\ exists' = TRUE /\ allowed' = {m}
      BY <1>1, <1>3, <2>1, <3>3 DEF Behind
    <3> QED BY <1>4, <2>1, <3>4, <3>5, HolderFiles DEF WInv
  <2>2. CASE h[p].lock # "EX"
    <3>1. ~Behind(h[p]) /\ ~Behind(r)
      BY <1>3, <2>2 DEF Behind
    <3> QED BY <1>1, <1>4, <3>1, FilesStep DEF WInv
  <2> QED BY <2>1, <2>2
<1> QED BY <1>5, <1>6, <1>7 DEF WInv

LEMMA TruncateWalInv == ASSUME WInv, NEW p \in Process, TruncateWal(p) PROVE WInv'
<1> DEFINE r == [h[p] EXCEPT !.pc = "c_close"]
<1>0. /\ Local(p, h[p]) /\ h[p].pc = "apply" /\ h = [q \in Process |-> h[q]]
      /\ h[p].fd # 0 /\ h[p].left = NoPages /\ p \in Writers
  BY DEF WInv, Handles, TruncateWal, At, Local, LockPhase
<1>1. /\ h' = [h EXCEPT ![p] = r] /\ data' = [data EXCEPT ![h[p].fd] = NoPages]
      /\ UNCHANGED <<file, exists, wal, allowed>>
  BY <1>0 DEF TruncateWal, Goto
<1>2. /\ Local(p, r) /\ r.pc = "c_close" /\ r.lock = h[p].lock
      /\ r.dirty = h[p].dirty /\ r.left = h[p].left /\ r.buf = h[p].buf
  BY <1>0 DEF Local, Typed, Fields, LockPhase, WalPhase, PagesPhase, Opening, Committed
<1> HIDE DEF r
<1>3. Handles'
  <2>1. Compatible(p, r)
    BY <1>2, LockKept DEF WInv
  <2> QED BY <1>1, <1>2, <2>1, HandleStep DEF WInv
<1>4. Logs'
  <2>1. h[p].lock = "EX" => Logging(r)
    BY <1>2 DEF Logging
  <2> QED BY <1>1, <1>2, <2>1, LogWritten DEF WInv
<1>5. Files'
  <2>1. Behind(h[p]) <=> Behind(r)
    BY <1>0, <1>2 DEF Behind
  <2> QED BY <1>1, <1>2, <2>1, FilesKept DEF WInv
<1> QED BY <1>3, <1>4, <1>5 DEF WInv

LEMMA CloseWalInv == ASSUME WInv, NEW p \in Process, CloseWal(p) PROVE WInv'
<1> DEFINE r == [h[p] EXCEPT !.fd = 0, !.pc = "c_unlink"]
<1>0. Local(p, h[p]) /\ h[p].pc = "c_close" /\ h = [q \in Process |-> h[q]]
  BY DEF WInv, Handles, CloseWal, At
<1>1. /\ h' = [h EXCEPT ![p] = r] /\ data' \in {data, [data EXCEPT ![h[p].fd] = h[p].dirty]}
      /\ UNCHANGED <<file, exists, wal, allowed>>
  BY <1>0 DEF CloseWal
<1>2. /\ Local(p, r) /\ r.pc = "c_unlink" /\ r.lock = h[p].lock
      /\ r.dirty = h[p].dirty /\ r.left = h[p].left /\ r.buf = h[p].buf
  BY <1>0 DEF Local, Typed, Fields, LockPhase, WalPhase, PagesPhase, Opening, Committed
<1> HIDE DEF r
<1>3. Handles'
  <2>1. Compatible(p, r)
    BY <1>2, LockKept DEF WInv
  <2> QED BY <1>1, <1>2, <2>1, HandleStep DEF WInv
<1>4. Logs'
  <2>1. h[p].lock = "EX" => Logging(r)
    BY <1>2 DEF Logging
  <2> QED BY <1>1, <1>2, <2>1, LogWritten DEF WInv
<1>5. Files'
  <2>1. Behind(h[p]) <=> Behind(r)
    BY <1>0, <1>2 DEF Behind
  <2> QED BY <1>1, <1>2, <2>1, FilesKept DEF WInv
<1> QED BY <1>3, <1>4, <1>5 DEF WInv

LEMMA UnlinkWalInv == ASSUME WInv, NEW p \in Process, UnlinkWal(p) PROVE WInv'
<1> DEFINE r == [h[p] EXCEPT !.pc = "c_flush"]
<1>0. Local(p, h[p]) /\ h[p].pc = "c_unlink" /\ h = [q \in Process |-> h[q]]
  BY DEF WInv, Handles, UnlinkWal, At
<1>1. /\ h' = [h EXCEPT ![p] = r] /\ wal' = 0 /\ UNCHANGED <<file, exists, data, allowed>>
  BY <1>0 DEF UnlinkWal, Goto
<1>2. /\ Local(p, r) /\ r.pc = "c_flush" /\ r.lock = h[p].lock
      /\ r.dirty = h[p].dirty /\ r.left = h[p].left /\ r.buf = h[p].buf
  BY <1>0 DEF Local, Typed, Fields, LockPhase, WalPhase, PagesPhase, Opening, Committed
<1> HIDE DEF r
<1>3. Handles'
  <2>1. Compatible(p, r)
    BY <1>2, LockKept DEF WInv
  <2> QED BY <1>1, <1>2, <2>1, HandleStep DEF WInv
<1>4. Logs'
  <2>1. ASSUME NEW q \in Process, h'[q].pc = "r_lock" PROVE data[h'[q].fd] = NoPages
    BY <1>0, <1>1, <1>2, <2>1 DEF WInv, Logs, NothingToReplay, At
  <2> QED BY <1>1, <2>1 DEF WInv, Logs, NoStaleWal, NothingToReplay, At
<1>5. Files'
  <2>1. Behind(h[p]) <=> Behind(r)
    BY <1>0, <1>2 DEF Behind
  <2> QED BY <1>1, <1>2, <2>1, FilesKept DEF WInv
<1> QED BY <1>3, <1>4, <1>5 DEF WInv

(* The holder's flush completes the file; who has nothing to write has     *)
(* nothing to flush.                                                       *)
LEMMA EndCommitInv == ASSUME WInv, NEW p \in Process, EndCommit(p) PROVE WInv'
<1> DEFINE r == [Closed EXCEPT !.pc = IF h[p].again THEN "c_open" ELSE "idle"]
<1>0. /\ Local(p, h[p]) /\ h[p].pc = "c_flush" /\ h = [q \in Process |-> h[q]] /\ p \in Writers
      /\ h[p].left = NoPages /\ h[p].dirty \in Image /\ h[p].buf \in Image
  BY DEF WInv, Handles, EndCommit, At, Local, Typed, LockPhase, PagesPhase, Committed
<1>1. /\ h' = [h EXCEPT ![p] = r] /\ UNCHANGED <<exists, wal, data>>
      /\ file' = Overlay(file, h[p].buf)
      /\ allowed' = IF h[p].dirty = NoPages THEN allowed
                    ELSE {Overlay(m, h[p].dirty) : m \in allowed}
  BY DEF EndCommit, Flushed
<1>2. Local(p, r) /\ r.pc \in {"idle", "c_open"} /\ r.lock = "none"
  BY <1>0, ClosedLocal DEF Local, Typed, Fields, LockPhase, WalPhase, PagesPhase, Opening, Committed
<1> HIDE DEF r
<1>3. Handles'
  <2>1. Compatible(p, r)
    BY <1>2, LockKept DEF WInv
  <2> QED BY <1>1, <1>2, <2>1, HandleStep DEF WInv
<1>4. Logs'
  <2>1. ~Logging(h[p]) /\ r.pc # "r_lock"
    BY <1>0, <1>2 DEF Logging
  <2> QED BY <1>1, <2>1, LogsStep DEF WInv
<1>5. Files'
  <2>1. CASE h[p].lock = "EX"
    <3>1. PICK m \in Image : FileIs(m)
      BY DEF WInv, Files
    <3>2. Completed(file, h[p]) = Overlay(m, h[p].dirty)
      BY <1>0, <2>1, <3>1 DEF FileIs, Behind
    <3>3. file' = Overlay(m, h[p].dirty) /\ file' \in Image
      BY <1>0, <1>1, <3>2, OverlayFacts DEF Completed, WInv, Files
    <3>4. allowed' = {file'}
      <4>1. allowed = {m}
        BY <3>1 DEF FileIs
      <4> QED BY <1>1, <3>3, <4>1, OverlayFacts
    <3>5. \A q \in Process \ {p} : ~Behind(h[q])
      BY <2>1 DEF WInv, Handles, Exclusive, Behind
    <3>6. exists' = TRUE /\ ~Behind(r)
      BY <1>1, <1>2 DEF Behind, WInv, Files
    <3> QED BY <1>1, <3>3, <3>4, <3>5, <3>6, ClearFiles DEF WInv
  <2>2. CASE h[p].lock # "EX"
    <3>1. h[p].dirty = NoPages
      BY <1>0, <2>2 DEF Local, PagesPhase
    <3>2. h[p].buf = NoPages
      BY <1>0, <3>1 DEF Local, PagesPhase, Image, NoPages
    <3>3. file' = file /\ allowed' = allowed
      BY <1>1, <3>1, <3>2, OverlayFacts DEF WInv, Files
    <3>4. ~Behind(h[p]) /\ ~Behind(r)
      BY <1>2, <2>2 DEF Behind
    <3> QED BY <1>1, <3>3, <3>4, FilesStep DEF WInv
  <2> QED BY <2>1, <2>2
<1> QED BY <1>3, <1>4, <1>5 DEF WInv

-----------------------------------------------------------------------------
LEMMA NextInv == ASSUME WInv, [Next]_vars PROVE WInv'
<1>1. CASE UNCHANGED vars
  BY <1>1 DEF vars, WInv, Handles, Exclusive, Logs, NoStaleWal, NothingToReplay, At, Files, FileIs
<1>2. CASE Next
  <2>1. PICK p \in Process :
           Start(p) \/ Flock(p) \/ Step(p) \/ Command(p)
             \/ \E x \in Page, v \in Values : Write(p, x, v)
    BY <1>2 DEF Next
  <2>2. Step(p) => WInv'
    BY FopenInv, AccessWalInv, OpenWalInv, ReadWalInv, ApplyPageInv, EndRecoveryInv,
       ReadHeaderInv, CreateWalInv, LockWalInv, WriteWalInv, TruncateWalInv, CloseWalInv,
       UnlinkWalInv, EndCommitInv DEF Step
  <2>3. Command(p) => WInv'
    BY CloseInv, QueueInv, CallCommitInv DEF Command
  <2> QED BY <2>1, <2>2, <2>3, StartInv, FlockInv, WriteInv
<1> QED BY <1>1, <1>2

(* The locks, the WAL and the file keep to the argument above, whatever    *)
(* processes open, commit and close the database (wal.c, flock_posix.c).   *)
THEOREM Invariance == FileAtStart => (Spec => []WInv)
BY InitInv, NextInv, PTL DEF Spec

(* Every variable keeps its type. *)
THEOREM TypeCorrect == FileAtStart => (Spec => []TypeOK)
<1>1. ASSUME WInv PROVE TypeOK
  <2>1. ASSUME NEW p \in Process PROVE h[p] \in Handle
    <3>1. Local(p, h[p])
      BY <1>1 DEF WInv, Handles
    <3>2. h[p] = [pc |-> h[p].pc, mode |-> h[p].mode, lock |-> h[p].lock, fd |-> h[p].fd,
                  dirty |-> h[p].dirty, left |-> h[p].left, buf |-> h[p].buf,
                  cache |-> h[p].cache, size |-> h[p].size, again |-> h[p].again]
      BY <3>1 DEF Local, Typed, Fields
    <3>3. /\ h[p].pc \in {"idle", "fopen", "flock", "access", "r_open", "r_lock", "apply",
                          "header", "run", "c_open", "c_lock", "c_write", "c_close",
                          "c_unlink", "c_flush"}
          /\ h[p].lock \in {"none", "SH", "EX"}
      BY <3>1 DEF Local, LockPhase, LockOf, Opening, Committed
    <3>4. h[p].cache \in [Page -> Values \cup {None, Junk}]
      BY <3>1 DEF Local, PagesPhase, NoPages
    <3>5. h[p].left \in Damaged /\ h[p].buf \in Damaged
      BY <3>1, ImageDamaged DEF Local, Typed
    <3> QED BY <3>1, <3>2, <3>3, <3>4, <3>5 DEF Local, Typed, Handle
  <2>2. h \in [Process -> Handle]
    BY <1>1, <2>1 DEF WInv, Handles
  <2>3. allowed \in SUBSET Image
    BY <1>1 DEF WInv, Files, FileIs
  <2> QED BY <1>1, <2>2, <2>3, ImageDamaged DEF TypeOK, WInv, Files, Logs
<1> QED BY <1>1, Invariance, PTL

(* A writer's transaction finds the last commit in the file, all of it and *)
(* nothing else, while it runs (rl_read_header to rl_commit).              *)
THEOREM WritersRead == FileAtStart => (Spec => []WritersFindCommitted)
<1>1. WInv => WritersFindCommitted
  BY Found DEF WritersFindCommitted, At, Process
<1> QED BY <1>1, Invariance, PTL

(* So does a reader's, which recovers from a WAL in memory only.           *)
THEOREM ReadersRead == FileAtStart => (Spec => []ReadersFindCommitted)
<1>1. WInv => ReadersFindCommitted
  BY Found DEF ReadersFindCommitted, At, Process
<1> QED BY <1>1, Invariance, PTL

(* No WAL is there to be replayed but that of the commit under way: not    *)
(* even after the second commit of EXEC, which takes no lock (wal.c).      *)
THEOREM NoWalLeft == FileAtStart => (Spec => []NoStaleWal)
<1>1. WInv => NoStaleWal
  BY DEF WInv, Logs
<1> QED BY <1>1, Invariance, PTL

-----------------------------------------------------------------------------
(* The refinement.  Of a database's pages, the file holds the last commit  *)
(* m, or m with some of the transaction that is Behind; the store holds m, *)
(* or m with all of it.                                                    *)
IsActive(r) == r.pc \in {"run", "c_open", "c_lock", "c_write", "idle"} /\ r.lock # "none"

LEMMA StoredIs ==
    ASSUME WInv, NEW m \in Image, FileIs(m)
    PROVE  /\ \A p \in Process : Behind(h[p]) => Stored = Overlay(m, h[p].dirty)
           /\ (\A p \in Process : ~Behind(h[p])) => Stored = m
<1>1. ASSUME NEW q \in Committing, NEW x \in Page, h[q].dirty[x] # None
      PROVE  q \in Process /\ Behind(h[q])
  <2>1. q \in Process /\ h[q].pc \in {"apply", "c_close", "c_unlink", "c_flush"}
    BY DEF Committing, Process
  <2>2. h[q].dirty # NoPages
    BY <1>1 DEF NoPages
  <2>3. h[q].lock = "EX"
    BY <2>1, <2>2 DEF WInv, Handles, Local, PagesPhase
  <2> QED BY <2>1, <2>3 DEF Behind
<1>2. ASSUME NEW p \in Process, Behind(h[p]) PROVE Stored = Overlay(m, h[p].dirty)
  <2>1. ASSUME NEW q \in Process, Behind(h[q]) PROVE q = p
    BY <1>2, <2>1 DEF Behind, WInv, Handles, Exclusive
  <2>2. Local(p, h[p])
    BY DEF WInv, Handles
  <2>3. p \in Committing \/ h[p].dirty = NoPages
    BY <1>2, <2>2 DEF Committing, Committed, Behind, Local, LockPhase
  <2>4. ASSUME NEW x \in Page PROVE Stored[x] = Overlay(m, h[p].dirty)[x]
    <3>1. CASE h[p].dirty[x] # None
      <4>1. p \in Committing
        BY <2>3, <3>1 DEF NoPages
      <4>2. \A q \in Committing : h[q].dirty[x] # None => q = p
        BY <1>1, <2>1
      <4>3. (CHOOSE q \in Committing : h[q].dirty[x] # None) = p
        BY <3>1, <4>1, <4>2
      <4> QED BY <3>1, <4>1, <4>3 DEF Stored, Overlay
    <3>2. CASE h[p].dirty[x] = None
      <4>1. \A q \in Committing : h[q].dirty[x] = None
        BY <1>1, <2>1, <3>2
      <4>2. Stored[x] = file[x]
        BY <4>1 DEF Stored
      <4>3. h[p].left[x] = None /\ h[p].buf[x] = None
        BY <2>2, <3>2 DEF Local, PagesPhase
      <4>4. Completed(file, h[p])[x] = file[x]
        BY <4>3 DEF Completed, Overlay
      <4>5. Completed(file, h[p]) = Overlay(m, h[p].dirty)
        BY <1>2 DEF FileIs
      <4> QED BY <4>2, <4>4, <4>5
    <3> QED BY <3>1, <3>2
  <2>5. Stored = [x \in Page |-> Stored[x]]
    BY DEF Stored
  <2>6. Overlay(m, h[p].dirty) = [x \in Page |-> Overlay(m, h[p].dirty)[x]]
    BY DEF Overlay
  <2> QED BY <2>4, <2>5, <2>6
<1>3. ASSUME \A p \in Process : ~Behind(h[p]) PROVE Stored = m
  <2>1. \A x \in Page : \A q \in Committing : h[q].dirty[x] = None
    BY <1>1, <1>3
  <2>2. Stored = [x \in Page |-> file[x]]
    BY <2>1 DEF Stored
  <2>3. file = m
    BY <1>3 DEF FileIs
  <2> QED BY <2>2, <2>3 DEF Image
<1> QED BY <1>2, <1>3

StoredFollows ==
    \A m \in Image : WInv /\ FileIs(m) =>
        /\ \A p \in Process : Behind(h[p]) => Stored = Overlay(m, h[p].dirty)
        /\ (\A p \in Process : ~Behind(h[p])) => Stored = m

LEMMA StoredAlways == StoredFollows
BY StoredIs DEF StoredFollows

(* A step of p as the store sees it. *)
LEMMA StoreStep ==
    ASSUME Handles, NEW p \in Process, NEW r, h' = [h EXCEPT ![p] = r]
    PROVE  /\ p \in Active <=> IsActive(h[p])
           /\ Active' = IF IsActive(r) THEN Active \cup {p} ELSE Active \ {p}
           /\ Work' = [Work EXCEPT ![p] = IF IsActive(r) THEN r.dirty ELSE NoPages]
           /\ Work = [q \in Process |-> Work[q]]
           /\ Work[p] = IF IsActive(h[p]) THEN h[p].dirty ELSE NoPages
<1>1. h' = [q \in Process |-> IF q = p THEN r ELSE h[q]]
  BY DEF Handles
<1>2. \A q \in Process : q \in Active <=> IsActive(h[q])
  BY DEF Active, IsActive
<1>3. \A q \in Process : q \in Active' <=> IF q = p THEN IsActive(r) ELSE IsActive(h[q])
  BY <1>1 DEF Active, IsActive
<1>4. Active \subseteq Process /\ Active' \subseteq Process
  BY DEF Active
<1>5. Active' = IF IsActive(r) THEN Active \cup {p} ELSE Active \ {p}
  BY <1>2, <1>3, <1>4
<1>6. \A q \in Process : Work'[q] = IF q = p THEN (IF IsActive(r) THEN r.dirty ELSE NoPages) ELSE Work[q]
  BY <1>1, <1>2, <1>3 DEF Work
<1> QED BY <1>2, <1>5, <1>6 DEF Work

LEMMA StoredKept ==
    ASSUME WInv, WInv', NEW p \in Process, NEW r, h' = [h EXCEPT ![p] = r], allowed' = allowed,
           \/ ~Behind(h[p]) /\ ~Behind(r)
           \/ r.dirty = h[p].dirty /\ (Behind(r) <=> Behind(h[p]))
           \/ r.dirty = NoPages /\ h[p].dirty = NoPages
    PROVE  Stored' = Stored
<1>1. PICK m \in Image : FileIs(m)
  BY DEF WInv, Files
<1>2. FileIs(m)'
  <2>1. PICK n \in Image : FileIs(n)'
    BY DEF WInv, Files
  <2>2. allowed = {m} /\ allowed' = {n}
    BY <1>1, <2>1 DEF FileIs
  <2> QED BY <2>1, <2>2
<1>3. /\ \A q \in Process : Behind(h[q]) => Stored = Overlay(m, h[q].dirty)
      /\ (\A q \in Process : ~Behind(h[q])) => Stored = m
  BY <1>1, StoredIs
<1>4. /\ \A q \in Process : Behind(h'[q]) => Stored' = Overlay(m, h'[q].dirty)
      /\ (\A q \in Process : ~Behind(h'[q])) => Stored' = m
  <2>1. StoredFollows'
    BY StoredAlways, PTL
  <2>2. \A n \in Image : WInv' /\ FileIs(n)' =>
            /\ \A q \in Process : Behind(h'[q]) => Stored' = Overlay(n, h'[q].dirty)
            /\ (\A q \in Process : ~Behind(h'[q])) => Stored' = n
    BY <2>1 DEF StoredFollows
  <2> QED BY <1>2, <2>2
<1>5. h' = [q \in Process |-> IF q = p THEN r ELSE h[q]]
  BY DEF WInv, Handles
<1>6. Overlay(m, NoPages) = m
  BY OverlayFacts
<1>7. CASE \E q \in Process \ {p} : Behind(h[q])
  <2>1. PICK q \in Process \ {p} : Behind(h[q])
    BY <1>7
  <2>2. h'[q] = h[q]
    BY <1>5
  <2> QED BY <1>3, <1>4, <2>1, <2>2
<1>8. CASE \A q \in Process \ {p} : ~Behind(h[q])
  <2>1. Stored = IF Behind(h[p]) THEN Overlay(m, h[p].dirty) ELSE m
    BY <1>3, <1>8
  <2>2. Stored' = IF Behind(r) THEN Overlay(m, r.dirty) ELSE m
    BY <1>4, <1>5, <1>8
  <2> QED BY <1>6, <2>1, <2>2
<1> QED BY <1>7, <1>8

(* Steps the store does not see *)
Stutter == UNCHANGED <<Stored, Active, Work>>

LEMMA QuietStutter ==
    ASSUME WInv, WInv', NEW p \in Process, NEW r, h' = [h EXCEPT ![p] = r], allowed' = allowed,
           r.dirty = h[p].dirty, IsActive(r) <=> IsActive(h[p]),
           (Behind(r) <=> Behind(h[p])) \/ h[p].dirty = NoPages
    PROVE  Stutter
<1>1. Stored' = Stored
  BY StoredKept
<1>2. Active' = Active /\ Work' = Work
  <2>1. /\ p \in Active <=> IsActive(h[p])
        /\ Active' = IF IsActive(r) THEN Active \cup {p} ELSE Active \ {p}
        /\ Work' = [Work EXCEPT ![p] = IF IsActive(r) THEN r.dirty ELSE NoPages]
        /\ Work = [q \in Process |-> Work[q]]
        /\ Work[p] = IF IsActive(h[p]) THEN h[p].dirty ELSE NoPages
    BY StoreStep DEF WInv
  <2> QED BY <2>1
<1> QED BY <1>1, <1>2 DEF Stutter

LEMMA AbortSeen ==
    ASSUME WInv, WInv', NEW p \in Process, NEW r, h' = [h EXCEPT ![p] = r], allowed' = allowed,
           IsActive(h[p]), ~IsActive(r), ~Behind(h[p]), ~Behind(r)
    PROVE  Store!Abort(p)
<1>1. Stored' = Stored
  BY StoredKept
<1>2. /\ p \in Active /\ Active' = Active \ {p}
      /\ Work' = [Work EXCEPT ![p] = NoPages]
  BY StoreStep DEF WInv
<1> QED BY <1>1, <1>2 DEF Store!Abort, Store!NoPages, NoPages

(* A transaction under way is the only one, or all of them are readers'. *)
LEMMA BeginSeen ==
    ASSUME WInv, WInv', NEW p \in Process, NEW r, h' = [h EXCEPT ![p] = r], allowed' = allowed,
           h[p].pc = "header", IsActive(r), ~Behind(r),
           NEW v \in IF p \in Writers /\ file[0] = None THEN Values ELSE {None},
           r.dirty = [NoPages EXCEPT ![0] = v]
    PROVE  Store!Begin(p)
<1>1. ~IsActive(h[p]) /\ ~Behind(h[p]) /\ h[p].lock = LockOf(p)
  BY DEF IsActive, Behind, WInv, Handles, Local, LockPhase, Opening
<1>2. Stored' = Stored
  BY <1>1, StoredKept
<1>3. /\ p \notin Active /\ Active' = Active \cup {p}
      /\ Work' = [Work EXCEPT ![p] = [NoPages EXCEPT ![0] = v]]
      /\ Work = [q \in Process |-> Work[q]] /\ Work[p] = NoPages
  BY <1>1, StoreStep DEF WInv
<1>4. Work' = [Work EXCEPT ![p][0] = v]
  BY <1>3
<1>5. IF p \in Writers THEN Active = {} ELSE Active \cap Writers = {}
  <2>1. CASE p \in Writers
    <3>1. \A q \in Process \ {p} : h[q].lock = "none"
      BY <1>1, <2>1 DEF LockOf, WInv, Handles, Exclusive
    <3> QED BY <1>3, <2>1, <3>1 DEF Active
  <2>2. CASE p \notin Writers
    <3>1. \A q \in Process \ {p} : h[q].lock # "EX"
      BY <1>1, <2>2 DEF LockOf, WInv, Handles, Exclusive
    <3>2. \A q \in Writers : q \in Process /\ q # p /\ h[q].lock \in {"none", "EX"}
      BY <2>2 DEF Process, WInv, Handles, Local, LockPhase, LockOf
    <3> QED BY <2>2, <3>1, <3>2 DEF Active
  <2> QED BY <2>1, <2>2
<1>6. Stored = file
  <2>1. PICK m \in Image : FileIs(m)
    BY DEF WInv, Files
  <2>2. \A q \in Process : ~Behind(h[q])
    BY NoLog DEF Opening
  <2> QED BY <2>1, <2>2, StoredIs DEF FileIs
<1>7. v \in IF p \in Writers /\ Stored[0] = None THEN Values ELSE {None}
  BY <1>6
<1> QED BY <1>2, <1>3, <1>4, <1>5, <1>7 DEF Store!Begin

LEMMA ReadHeaderSeen ==
    ASSUME WInv, WInv', NEW p \in Process, ReadHeader(p)
    PROVE  Store!Begin(p) \/ Stutter
<1>0. Local(p, h[p]) /\ h[p].pc = "header" /\ h = [q \in Process |-> h[q]]
  BY DEF WInv, Handles, ReadHeader, At
<1>1. allowed = {file} /\ View(p) = file /\ Flushed(p) = file
  BY <1>0, Found DEF Opening
<1>2. allowed' = allowed
  BY <1>1 DEF ReadHeader, View, Agrees
<1>3. h[p].lock # "none" /\ h[p].dirty = NoPages
  BY <1>0 DEF Local, LockPhase, PagesPhase, Opening
<1> DEFINE opened == [h[p] EXCEPT !.pc = "run", !.buf = NoPages]
<1>4. opened.pc = "run" /\ opened.lock = h[p].lock /\ opened.dirty = NoPages
  BY <1>0, <1>3 DEF Local, Typed, Fields
<1>5. opened = [f \in Fields |-> opened[f]]
  BY <1>0 DEF Local, Typed, Fields
<1>6. /\ file[0] \in Values \cup {None}
      /\ \/ file[0] \in Values /\ h' = [h EXCEPT ![p] = opened]
         \/ /\ file[0] = None /\ p \in Writers
            /\ \E v \in Values :
                  h' = [h EXCEPT ![p] = [opened EXCEPT !.dirty = [NoPages EXCEPT ![0] = v]]]
         \/ /\ file[0] = None /\ p \notin Writers
            /\ h' \in {[h EXCEPT ![p] = Closed], [h EXCEPT ![p] = [opened EXCEPT !.pc = "idle"]]}
  <2>1. file[0] \in Values \cup {None}
    BY PageAssumption DEF WInv, Files, Image
  <2> QED BY <1>1, <2>1, ValuesAssumption DEF ReadHeader, View
<1> HIDE DEF opened
<1>7. CASE file[0] # None
  <2>1. opened.dirty = [NoPages EXCEPT ![0] = None] /\ h' = [h EXCEPT ![p] = opened]
    BY <1>4, <1>6, <1>7 DEF NoPages
  <2>2. IsActive(opened) /\ ~Behind(opened)
    BY <1>3, <1>4 DEF IsActive, Behind
  <2>3. None \in IF p \in Writers /\ file[0] = None THEN Values ELSE {None}
    BY <1>7
  <2> QED BY <1>0, <1>2, <2>1, <2>2, <2>3, BeginSeen
<1>8. CASE file[0] = None /\ p \in Writers
  <2> DEFINE header(v) == [opened EXCEPT !.dirty = [NoPages EXCEPT ![0] = v]]
  <2>1. PICK v \in Values : h' = [h EXCEPT ![p] = header(v)]
    BY <1>6, <1>8, ValuesAssumption
  <2> DEFINE r == header(v)
  <2>2. r.pc = "run" /\ r.lock = h[p].lock /\ r.dirty = [NoPages EXCEPT ![0] = v]
    BY <1>4, <1>5 DEF Fields
  <2>3. h' = [h EXCEPT ![p] = r]
    BY <2>1
  <2> HIDE DEF r
  <2>4. IsActive(r) /\ ~Behind(r)
    BY <1>3, <2>2 DEF IsActive, Behind
  <2>5. v \in IF p \in Writers /\ file[0] = None THEN Values ELSE {None}
    BY <1>8
  <2> QED BY <1>0, <1>2, <2>2, <2>3, <2>4, <2>5, BeginSeen
<1>9. CASE file[0] = None /\ p \notin Writers
  <2> DEFINE kept == [opened EXCEPT !.pc = "idle"]
  <2>1. h' = [h EXCEPT ![p] = Closed] \/ h' = [h EXCEPT ![p] = kept]
    BY <1>6, <1>9, ValuesAssumption
  <2>2. CASE h' = [h EXCEPT ![p] = Closed]
    <3>1. Closed.dirty = h[p].dirty
      BY <1>3 DEF Closed
    <3>2. ~IsActive(Closed) /\ ~IsActive(h[p])
      BY <1>0 DEF IsActive, Closed
    <3> QED BY <1>2, <1>3, <2>2, <3>1, <3>2, QuietStutter
  <2>3. CASE h' = [h EXCEPT ![p] = kept]
    <3>1. kept.pc = "idle" /\ kept.lock = h[p].lock /\ kept.dirty = NoPages
      BY <1>4, <1>5 DEF Fields
    <3>2. kept.dirty = [NoPages EXCEPT ![0] = None]
      BY <3>1 DEF NoPages
    <3> HIDE DEF kept
    <3>3. IsActive(kept) /\ ~Behind(kept)
      BY <1>3, <3>1 DEF IsActive, Behind
    <3>4. None \in IF p \in Writers /\ file[0] = None THEN Values ELSE {None}
      BY <1>9
    <3> QED BY <1>0, <1>2, <2>3, <3>2, <3>3, <3>4, BeginSeen
  <2> QED BY <2>1, <2>2, <2>3
<1> QED BY <1>7, <1>8, <1>9

LEMMA StartSeen ==
    ASSUME WInv, WInv', NEW p \in Process, Start(p)
    PROVE  Store!Abort(p) \/ Stutter
<1> DEFINE r == [Closed EXCEPT !.pc = "fopen", !.mode = IF exists THEN "r+" ELSE "w+"]
<1>1. h' = [h EXCEPT ![p] = r] /\ allowed' = allowed /\ h[p].pc = "idle"
  BY DEF Start, At
<1>2. r.pc = "fopen" /\ r.dirty = NoPages
  BY DEF Closed
<1> HIDE DEF r
<1>3. ~IsActive(r) /\ ~Behind(r) /\ ~Behind(h[p])
  BY <1>1, <1>2 DEF IsActive, Behind
<1>4. CASE IsActive(h[p])
  BY <1>1, <1>3, <1>4, AbortSeen
<1>5. CASE ~IsActive(h[p])
  <2>1. h[p].dirty = NoPages
    BY <1>1, <1>5 DEF IsActive, WInv, Handles, Local, PagesPhase
  <2> QED BY <1>1, <1>2, <1>3, <1>5, <2>1, QuietStutter
<1> QED BY <1>4, <1>5

LEMMA CloseSeen == ASSUME WInv, WInv', NEW p \in Process, Close(p) PROVE Store!Abort(p)
<1>1. /\ h' = [h EXCEPT ![p] = Closed] /\ allowed' = allowed
      /\ IsActive(h[p]) /\ ~Behind(h[p])
  BY DEF Close, IsActive, Behind
<1>2. ~IsActive(Closed) /\ ~Behind(Closed)
  BY DEF IsActive, Behind, Closed
<1> QED BY <1>1, <1>2, AbortSeen

LEMMA WriteSeen ==
    ASSUME WInv, WInv', NEW p \in Process, NEW x \in Page, NEW v \in Values, Write(p, x, v)
    PROVE  Store!Put(p, x, v)
<1> DEFINE r == [h[p] EXCEPT !.dirty = [h[p].dirty EXCEPT ![x] = v]]
<1>0. Local(p, h[p]) /\ h[p].pc = "run" /\ h = [q \in Process |-> h[q]] /\ p \in Writers
  BY DEF WInv, Handles, Write, At
<1>1. h' = [h EXCEPT ![p] = r] /\ allowed' = allowed
  BY <1>0 DEF Write
<1>2. r.pc = "run" /\ r.lock = h[p].lock /\ r.dirty = [h[p].dirty EXCEPT ![x] = v]
  BY <1>0 DEF Local, Typed, Fields
<1> HIDE DEF r
<1>3. IsActive(h[p]) /\ IsActive(r) /\ ~Behind(h[p]) /\ ~Behind(r)
  BY <1>0, <1>2 DEF IsActive, Behind, Local, LockPhase
<1>4. Stored' = Stored
  BY <1>1, <1>3, StoredKept
<1>5. /\ p \in Active /\ Active' = Active \cup {p}
      /\ Work' = [Work EXCEPT ![p] = [h[p].dirty EXCEPT ![x] = v]]
      /\ Work = [q \in Process |-> Work[q]] /\ Work[p] = h[p].dirty
  BY <1>1, <1>2, <1>3, StoreStep DEF WInv
<1>6. Work' = [Work EXCEPT ![p][x] = v]
  BY <1>5
<1>7. Active' = Active
  BY <1>5
<1> QED BY <1>0, <1>4, <1>5, <1>6, <1>7 DEF Store!Put

(* The commit happens when the log is written, by one who has a lock. *)
LEMMA WriteWalSeen ==
    ASSUME WInv, WInv', NEW p \in Process, WriteWal(p)
    PROVE  Store!Commit(p) \/ Stutter
<1>0. Local(p, h[p]) /\ h[p].pc = "c_write" /\ h = [q \in Process |-> h[q]]
  BY DEF WInv, Handles, WriteWal, At
<1>1. PICK s \in WalSizes :
         /\ h' = [h EXCEPT ![p].size = s, ![p].left = h[p].dirty, ![p].pc = "apply"]
         /\ allowed' = allowed
  BY DEF WriteWal
<1> DEFINE r == [h[p] EXCEPT !.size = s, !.left = h[p].dirty, !.pc = "apply"]
<1>2. h' = [h EXCEPT ![p] = r]
  BY <1>0, <1>1
<1>3. r.pc = "apply" /\ r.lock = h[p].lock /\ r.dirty = h[p].dirty
  BY <1>0 DEF Local, Typed, Fields
<1> HIDE DEF r
<1>4. h[p].lock \in {"none", "EX"} /\ h[p].dirty \in Image
  BY <1>0 DEF Local, Typed, LockPhase, LockOf, Committed
<1>5. CASE h[p].lock = "EX"
  <2>1. IsActive(h[p]) /\ ~IsActive(r) /\ ~Behind(h[p]) /\ Behind(r)
    BY <1>0, <1>3, <1>5 DEF IsActive, Behind
  <2>2. /\ p \in Active /\ Active' = Active \ {p} /\ Work' = [Work EXCEPT ![p] = NoPages]
        /\ Work[p] = h[p].dirty
    BY <1>2, <2>1, StoreStep DEF WInv
  <2>3. PICK m \in Image : FileIs(m)
    BY DEF WInv, Files
  <2>4. \A q \in Process : ~Behind(h[q])
    BY <1>5, <2>1 DEF WInv, Handles, Exclusive, Behind
  <2>5. Stored = m
    BY <2>3, <2>4, StoredIs
  <2>6. Stored' = Overlay(m, h[p].dirty)
    <3>1. PICK n \in Image : FileIs(n)'
      BY DEF WInv, Files
    <3>2. n = m
      BY <1>1, <2>3, <3>1 DEF FileIs
    <3>3. StoredFollows'
      BY StoredAlways, PTL
    <3>4. h'[p] = r
      BY <1>0, <1>2
    <3> QED BY <1>3, <2>1, <3>1, <3>2, <3>3, <3>4 DEF StoredFollows
  <2>7. Stored' = Store!Overlay(Stored, Work[p])
    BY <2>2, <2>5, <2>6 DEF Overlay, Store!Overlay
  <2> QED BY <2>2, <2>7 DEF Store!Commit, Store!NoPages, NoPages
<1>6. CASE h[p].lock = "none"
  <2>1. ~IsActive(h[p]) /\ ~IsActive(r) /\ ~Behind(h[p]) /\ ~Behind(r)
    BY <1>3, <1>6 DEF IsActive, Behind
  <2> QED BY <1>1, <1>2, <1>3, <2>1, QuietStutter
<1> QED BY <1>4, <1>5, <1>6

(* The flush makes of the file what the store has been since. *)
LEMMA EndCommitSeen == ASSUME WInv, WInv', NEW p \in Process, EndCommit(p) PROVE Stutter
<1> DEFINE r == [Closed EXCEPT !.pc = IF h[p].again THEN "c_open" ELSE "idle"]
<1>0. Local(p, h[p]) /\ h[p].pc = "c_flush" /\ h = [q \in Process |-> h[q]] /\ h[p].dirty \in Image
  BY DEF WInv, Handles, EndCommit, At, Local, Typed
<1>1. /\ h' = [h EXCEPT ![p] = r]
      /\ allowed' = IF h[p].dirty = NoPages THEN allowed
                    ELSE {Overlay(m, h[p].dirty) : m \in allowed}
  BY DEF EndCommit
<1>2. r.lock = "none"
  BY DEF Closed
<1> HIDE DEF r
<1>3. ~IsActive(h[p]) /\ ~IsActive(r) /\ ~Behind(r)
  BY <1>0, <1>2 DEF IsActive, Behind
<1>4. Active' = Active /\ Work' = Work
  <2>1. /\ p \in Active <=> IsActive(h[p])
        /\ Active' = IF IsActive(r) THEN Active \cup {p} ELSE Active \ {p}
        /\ Work' = [Work EXCEPT ![p] = IF IsActive(r) THEN r.dirty ELSE NoPages]
        /\ Work = [q \in Process |-> Work[q]]
        /\ Work[p] = IF IsActive(h[p]) THEN h[p].dirty ELSE NoPages
    BY <1>1, StoreStep DEF WInv
  <2> QED BY <1>3, <2>1
<1>5. CASE Behind(h[p])
  <2>1. PICK m \in Image : FileIs(m)
    BY DEF WInv, Files
  <2>2. PICK n \in Image : FileIs(n)'
    BY DEF WInv, Files
  <2>3. Stored = Overlay(m, h[p].dirty)
    BY <1>5, <2>1, StoredIs
  <2>4. n = Overlay(m, h[p].dirty)
    <3>1. allowed = {m} /\ allowed' = {n}
      BY <2>1, <2>2 DEF FileIs
    <3> QED BY <1>1, <3>1, OverlayFacts
  <2>5. \A q \in Process : ~Behind(h'[q])
    BY <1>0, <1>1, <1>3, <1>5 DEF Behind, WInv, Handles, Exclusive
  <2>6. StoredFollows'
    BY StoredAlways, PTL
  <2>7. Stored' = n
    BY <2>2, <2>5, <2>6 DEF StoredFollows
  <2> QED BY <1>4, <2>3, <2>4, <2>7 DEF Stutter
<1>6. CASE ~Behind(h[p])
  <2>1. h[p].dirty = NoPages
    BY <1>0, <1>6 DEF Behind, Local, PagesPhase
  <2>2. Stored' = Stored
    BY <1>1, <1>3, <1>6, <2>1, StoredKept
  <2> QED BY <1>4, <2>2 DEF Stutter
<1> QED BY <1>5, <1>6

(* The other steps of opening, recovering and committing *)
Moves(p, r, to) ==
    /\ h' = [h EXCEPT ![p] = r]
    /\ r.dirty = h[p].dirty /\ r.pc \in to
    /\ h[p].pc = "flock" \/ r.lock = h[p].lock

LEMMA OpeningSeen ==
    ASSUME WInv, WInv', NEW p \in Process,
           Fopen(p) \/ Flock(p) \/ AccessWal(p) \/ OpenWal(p) \/ ReadWal(p) \/ EndRecovery(p)
    PROVE  Stutter
<1>0. Local(p, h[p]) /\ h = [q \in Process |-> h[q]]
  BY DEF WInv, Handles
<1>1. /\ h[p].pc \in {"fopen", "flock", "access", "r_open", "r_lock", "apply"}
      /\ (h[p].pc = "apply" => h[p].fd = 0) /\ (Flock(p) => h[p].pc = "flock")
      /\ allowed' = allowed
  BY DEF Fopen, Flock, AccessWal, OpenWal, ReadWal, EndRecovery, At
<1>2. h[p].dirty = NoPages
  BY <1>0, <1>1 DEF Local, LockPhase, PagesPhase, Opening
<1>3. PICK r : Moves(p, r, {"flock", "access", "r_open", "r_lock", "apply", "header"})
  <2>1. CASE Fopen(p)
    <3> DEFINE r == [h[p] EXCEPT !.pc = "flock"]
    <3>1. h' = [h EXCEPT ![p] = r]
      BY <2>1 DEF Fopen, Goto
    <3>2. Moves(p, r, {"flock", "access", "r_open", "r_lock", "apply", "header"})
      BY <1>0, <1>1, <2>1, <3>1 DEF Moves, Local, Typed, Fields
    <3> HIDE DEF r
    <3> QED BY <3>2
  <2>2. CASE Flock(p)
    <3> DEFINE r == [h[p] EXCEPT !.lock = LockOf(p), !.pc = "access"]
    <3>1. h' = [h EXCEPT ![p] = r]
      BY <1>0, <2>2 DEF Flock, LockOf
    <3>2. Moves(p, r, {"flock", "access", "r_open", "r_lock", "apply", "header"})
      BY <1>0, <1>1, <2>2, <3>1 DEF Moves, Local, Typed, Fields
    <3> HIDE DEF r
    <3> QED BY <3>2
  <2>3. CASE AccessWal(p)
    <3> DEFINE r == [h[p] EXCEPT !.pc = IF wal = 0 THEN "header" ELSE "r_open"]
    <3>1. h' = [h EXCEPT ![p] = r]
      BY <2>3 DEF AccessWal, Goto
    <3>2. Moves(p, r, {"flock", "access", "r_open", "r_lock", "apply", "header"})
      BY <1>0, <1>1, <2>3, <3>1 DEF Moves, Local, Typed, Fields
    <3> HIDE DEF r
    <3> QED BY <3>2
  <2>4. CASE OpenWal(p)
    <3> DEFINE r == [h[p] EXCEPT !.fd = wal,
                               !.pc = IF wal = 0 THEN "header" ELSE "r_lock"]
    <3>1. h' = [h EXCEPT ![p] = r]
      BY <1>0, <2>4 DEF OpenWal
    <3>2. Moves(p, r, {"flock", "access", "r_open", "r_lock", "apply", "header"})
      BY <1>0, <1>1, <2>4, <3>1 DEF Moves, Local, Typed, Fields
    <3> HIDE DEF r
    <3> QED BY <3>2
  <2>5. CASE ReadWal(p) /\ p \in Writers
    <3>0. PICK buf, left :
             h' = [h EXCEPT ![p].fd = 0, ![p].pc = "apply", ![p].buf = buf, ![p].left = left]
      BY <2>5 DEF ReadWal
    <3> DEFINE r == [h[p] EXCEPT !.fd = 0, !.pc = "apply", !.buf = buf, !.left = left]
    <3>1. h' = [h EXCEPT ![p] = r]
      BY <1>0, <3>0
    <3>2. Moves(p, r, {"flock", "access", "r_open", "r_lock", "apply", "header"})
      BY <1>0, <1>1, <2>5, <3>1 DEF Moves, Local, Typed, Fields
    <3> HIDE DEF r
    <3> QED BY <3>2
  <2>6. CASE ReadWal(p) /\ p \notin Writers
    <3>0. PICK cache : h' = [h EXCEPT ![p].fd = 0, ![p].pc = "header", ![p].cache = cache]
      BY <2>6 DEF ReadWal
    <3> DEFINE r == [h[p] EXCEPT !.fd = 0, !.pc = "header", !.cache = cache]
    <3>1. h' = [h EXCEPT ![p] = r]
      BY <1>0, <3>0
    <3>2. Moves(p, r, {"flock", "access", "r_open", "r_lock", "apply", "header"})
      BY <1>0, <1>1, <2>6, <3>1 DEF Moves, Local, Typed, Fields
    <3> HIDE DEF r
    <3> QED BY <3>2
  <2>7. CASE EndRecovery(p)
    <3> DEFINE r == [h[p] EXCEPT !.pc = "header"]
    <3>1. h' = [h EXCEPT ![p] = r]
      BY <2>7 DEF EndRecovery, Goto
    <3>2. Moves(p, r, {"flock", "access", "r_open", "r_lock", "apply", "header"})
      BY <1>0, <1>1, <2>7, <3>1 DEF Moves, Local, Typed, Fields
    <3> HIDE DEF r
    <3> QED BY <3>2
  <2> QED BY <2>1, <2>2, <2>3, <2>4, <2>5, <2>6, <2>7
<1>4. ~IsActive(h[p]) /\ ~IsActive(r)
  BY <1>1, <1>3 DEF Moves, IsActive
<1> QED BY <1>1, <1>2, <1>3, <1>4, QuietStutter DEF Moves

LEMMA CommitSeen ==
    ASSUME WInv, WInv', NEW p \in Process,
           \/ Queue(p) \/ \E again \in BOOLEAN : CallCommit(p, again)
           \/ CreateWal(p) \/ LockWal(p)
    PROVE  Stutter
<1>0. Local(p, h[p]) /\ h = [q \in Process |-> h[q]]
  BY DEF WInv, Handles
<1>1. h[p].pc \in {"run", "c_open", "c_lock"} /\ allowed' = allowed
  BY DEF Queue, CallCommit, CreateWal, LockWal, At
<1>2. PICK r : Moves(p, r, {"idle", "c_open", "c_lock", "c_write"})
  <2>1. CASE Queue(p)
    <3> DEFINE r == [h[p] EXCEPT !.pc = "idle"]
    <3>1. h' = [h EXCEPT ![p] = r]
      BY <2>1 DEF Queue, Goto
    <3>2. Moves(p, r, {"idle", "c_open", "c_lock", "c_write"})
      BY <1>0, <1>1, <2>1, <3>1 DEF Moves, Local, Typed, Fields
    <3> HIDE DEF r
    <3> QED BY <3>2
  <2>2. CASE \E again \in BOOLEAN : CallCommit(p, again)
    <3>0. PICK again \in BOOLEAN : CallCommit(p, again)
      BY <2>2
    <3> DEFINE r == [h[p] EXCEPT !.pc = "c_open", !.again = again]
    <3>1. h' = [h EXCEPT ![p] = r]
      BY <1>0, <3>0 DEF CallCommit
    <3>2. Moves(p, r, {"idle", "c_open", "c_lock", "c_write"})
      BY <1>0, <1>1, <2>2, <3>1 DEF Moves, Local, Typed, Fields
    <3> HIDE DEF r
    <3> QED BY <3>2
  <2>3. CASE CreateWal(p)
    <3>0. PICK i : h' = [h EXCEPT ![p].fd = i, ![p].pc = "c_lock"]
      BY <2>3 DEF CreateWal
    <3> DEFINE r == [h[p] EXCEPT !.fd = i, !.pc = "c_lock"]
    <3>1. h' = [h EXCEPT ![p] = r]
      BY <1>0, <3>0
    <3>2. Moves(p, r, {"idle", "c_open", "c_lock", "c_write"})
      BY <1>0, <1>1, <2>3, <3>1 DEF Moves, Local, Typed, Fields
    <3> HIDE DEF r
    <3> QED BY <3>2
  <2>4. CASE LockWal(p)
    <3> DEFINE r == [h[p] EXCEPT !.pc = "c_write"]
    <3>1. h' = [h EXCEPT ![p] = r]
      BY <2>4 DEF LockWal, Goto
    <3>2. Moves(p, r, {"idle", "c_open", "c_lock", "c_write"})
      BY <1>0, <1>1, <2>4, <3>1 DEF Moves, Local, Typed, Fields
    <3> HIDE DEF r
    <3> QED BY <3>2
  <2> QED BY <2>1, <2>2, <2>3, <2>4
<1>3. IsActive(h[p]) <=> IsActive(r)
  BY <1>1, <1>2 DEF Moves, IsActive
<1>4. ~Behind(h[p]) /\ ~Behind(r)
  BY <1>1, <1>2 DEF Moves, Behind
<1> QED BY <1>1, <1>2, <1>3, <1>4, QuietStutter DEF Moves

LEMMA WritingSeen ==
    ASSUME WInv, WInv', NEW p \in Process,
           ApplyPage(p) \/ TruncateWal(p) \/ CloseWal(p) \/ UnlinkWal(p)
    PROVE  Stutter
<1>0. Local(p, h[p]) /\ h = [q \in Process |-> h[q]]
  BY DEF WInv, Handles
<1>1. h[p].pc \in {"apply", "c_close", "c_unlink"} /\ allowed' = allowed
  BY DEF ApplyPage, TruncateWal, CloseWal, UnlinkWal, At
<1>2. PICK r : Moves(p, r, {"apply", "c_close", "c_unlink", "c_flush"})
  <2>1. CASE ApplyPage(p)
    <3>0. PICK x \in Page :
             LET r == [h[p] EXCEPT !.buf = [NoPages EXCEPT ![x] = h[p].left[x]],
                                   !.left = [h[p].left EXCEPT ![x] = None]]
             IN h[p].pc = "apply" /\ h' = [h EXCEPT ![p] = r]
      BY <2>1, AppliesPage
    <3> DEFINE r == [h[p] EXCEPT !.buf = [NoPages EXCEPT ![x] = h[p].left[x]],
                               !.left = [h[p].left EXCEPT ![x] = None]]
    <3>1. h' = [h EXCEPT ![p] = r]
      BY <3>0
    <3>2. Moves(p, r, {"apply", "c_close", "c_unlink", "c_flush"})
      BY <1>0, <1>1, <2>1, <3>1 DEF Moves, Local, Typed, Fields
    <3> HIDE DEF r
    <3> QED BY <3>2
  <2>2. CASE TruncateWal(p)
    <3> DEFINE r == [h[p] EXCEPT !.pc = "c_close"]
    <3>1. h' = [h EXCEPT ![p] = r]
      BY <2>2 DEF TruncateWal, Goto
    <3>2. Moves(p, r, {"apply", "c_close", "c_unlink", "c_flush"})
      BY <1>0, <1>1, <2>2, <3>1 DEF Moves, Local, Typed, Fields
    <3> HIDE DEF r
    <3> QED BY <3>2
  <2>3. CASE CloseWal(p)
    <3> DEFINE r == [h[p] EXCEPT !.fd = 0, !.pc = "c_unlink"]
    <3>1. h' = [h EXCEPT ![p] = r]
      BY <1>0, <2>3 DEF CloseWal
    <3>2. Moves(p, r, {"apply", "c_close", "c_unlink", "c_flush"})
      BY <1>0, <1>1, <2>3, <3>1 DEF Moves, Local, Typed, Fields
    <3> HIDE DEF r
    <3> QED BY <3>2
  <2>4. CASE UnlinkWal(p)
    <3> DEFINE r == [h[p] EXCEPT !.pc = "c_flush"]
    <3>1. h' = [h EXCEPT ![p] = r]
      BY <2>4 DEF UnlinkWal, Goto
    <3>2. Moves(p, r, {"apply", "c_close", "c_unlink", "c_flush"})
      BY <1>0, <1>1, <2>4, <3>1 DEF Moves, Local, Typed, Fields
    <3> HIDE DEF r
    <3> QED BY <3>2
  <2> QED BY <2>1, <2>2, <2>3, <2>4
<1>3. ~IsActive(h[p]) /\ ~IsActive(r)
  BY <1>1, <1>2 DEF Moves, IsActive
<1>4. Behind(h[p]) <=> Behind(r)
  BY <1>1, <1>2 DEF Moves, Behind
<1> QED BY <1>1, <1>2, <1>3, <1>4, QuietStutter DEF Moves

LEMMA StoreInit == FileAtStart /\ Init => Store!Init
<1> SUFFICES ASSUME FileAtStart, Init PROVE Store!Init
  OBVIOUS
<1>1. h = [p \in Process |-> Closed] /\ file \in [Page -> Values]
  BY DEF Init
<1>2. Committing = {} /\ Active = {}
  <2>1. \A p \in Process : h[p].pc = "idle" /\ h[p].lock = "none"
    BY <1>1 DEF Closed
  <2> QED BY <2>1 DEF Committing, Active, Process
<1>3. Stored = file
  BY <1>1, <1>2 DEF Stored
<1>4. Stored \in Store!Image
  BY <1>1, <1>3 DEF Store!Image
<1>5. Work = [p \in Process |-> NoPages]
  BY <1>2 DEF Work
<1> QED BY <1>2, <1>4, <1>5 DEF Store!Init, Store!NoPages, NoPages, Store!Process, Process

LEMMA StoreNext == ASSUME WInv, WInv', [Next]_vars PROVE [Store!Next]_(Store!vars)
<1>1. CASE UNCHANGED vars
  <2>1. Stored' = Stored
    BY <1>1 DEF vars, Stored, Committing
  <2>2. Active' = Active
    BY <1>1 DEF vars, Active
  <2>3. Work' = Work
    BY <1>1, <2>2 DEF vars, Work
  <2> QED BY <2>1, <2>2, <2>3 DEF Store!vars
<1>2. CASE Next
  <2>1. PICK p \in Process :
           Start(p) \/ Flock(p) \/ Step(p) \/ Command(p)
             \/ \E x \in Page, v \in Values : Write(p, x, v)
    BY <1>2 DEF Next
  <2>2. \/ Store!Begin(p) \/ Store!Commit(p) \/ Store!Abort(p) \/ Stutter
        \/ \E x \in Page, v \in Values : Store!Put(p, x, v)
    <3>1. CASE Step(p)
      BY <3>1, OpeningSeen, CommitSeen, WritingSeen, ReadHeaderSeen, WriteWalSeen,
         EndCommitSeen DEF Step
    <3>2. CASE Command(p)
      BY <3>2, CloseSeen, CommitSeen DEF Command
    <3>3. CASE \E x \in Page, v \in Values : Write(p, x, v)
      BY <3>3, WriteSeen
    <3> QED BY <2>1, <3>1, <3>2, <3>3, StartSeen, OpeningSeen
  <2>3. CASE Stutter
    BY <2>3 DEF Stutter, Store!vars
  <2>4. CASE ~Stutter
    BY <2>2, <2>4 DEF Store!Next, Store!Process, Process
  <2> QED BY <2>3, <2>4
<1> QED BY <1>1, <1>2

(* The commit protocol implements the atomic store: to the transactions of *)
(* every process a commit, which is a dozen of system calls, is one step   *)
(* (rl_write_apply_wal, rl_apply_wal, rl_read_header).                     *)
THEOREM ImplementsStore == FileAtStart => (Spec => Atomic)
<1>1. FileAtStart /\ Init => Store!Init
  BY StoreInit
<1>2. WInv /\ WInv' /\ [Next]_vars => [Store!Next]_(Store!vars)
  BY StoreNext
<1> QED BY <1>1, <1>2, Invariance, PTL DEF Spec, Atomic, Store!Spec

-----------------------------------------------------------------------------
(***************************************************************************)
(* Proofs about Wal.tla when processes die: every variable keeps its type  *)
(* in every configuration, and where a transaction writes one page and all *)
(* processes are writers, transactions find what was committed, but for    *)
(* the pages that a recovery which does not know the page size yet may     *)
(* strike.                                                                 *)
(***************************************************************************)

(* A WAL that is read is in an inode, and where a transaction writes one   *)
(* page there is one in a WAL: that its recovery strikes is Struck.        *)
OnePage(f) == \A x, y \in Page : f[x] # None /\ f[y] # None => x = y
OneEach ==
    /\ \A i \in Inode : OnePage(data[i])
    /\ \A p \in Process : OnePage(h[p].dirty)
TInv ==
    /\ TypeOK
    /\ \A p \in Process : At(p, "r_lock") => h[p].fd # 0
    /\ MaxDirty = 1 => OneEach

LEMMA NoneOnePage == OnePage(NoPages) /\ NoPages \in Image
BY DEF OnePage, NoPages, Image

LEMMA DamagedFacts ==
    /\ NoPages \in Damaged
    /\ \A f \in Damaged : /\ Overlay(f, NoPages) = f /\ Overlay(NoPages, f) = f
                          /\ \A g \in Damaged : Overlay(f, g) \in Damaged
    /\ \A s \in SUBSET Struck : Damage(s) \in Damaged
<1>1. NoPages \in Damaged
  BY NoneOnePage, ImageDamaged
<1>2. \A f \in Damaged : Overlay(f, NoPages) = f /\ Overlay(NoPages, f) = f
  BY DEF Damaged, NoPages, Overlay
<1>3. \A f, g \in Damaged : Overlay(f, g) \in Damaged
  BY DEF Damaged, Overlay
<1>4. \A s \in SUBSET Struck : Damage(s) \in Damaged
  BY ValuesAssumption DEF Damaged, Damage
<1> QED BY <1>1, <1>2, <1>3, <1>4

LEMMA StruckFacts ==
    /\ \A x \in Page : Misplaced(x) \subseteq Struck
    /\ MaxDirty = 1 => 0 \notin Struck
    /\ MaxDirty # 1 => Struck = Page
<1>1. \A x \in Page : Misplaced(x) \subseteq Page /\ 0 \notin Misplaced(x)
  BY DEF Misplaced
<1> QED BY <1>1 DEF Struck

LEMMA HandleTyped ==
    ASSUME TInv, NEW p \in Process, NEW r \in Handle, h' = [h EXCEPT ![p] = r],
           r.pc = "r_lock" => r.fd # 0,
           file' \in Damaged, exists' \in BOOLEAN, wal' \in Inode \cup {0},
           data' \in [Inode -> Image], allowed' \in SUBSET Image,
           r.dirty = h[p].dirty \/ (MaxDirty = 1 => OnePage(r.dirty)),
           \A i \in Inode : data'[i] \in {data[i], NoPages, h[p].dirty}
    PROVE  TInv'
<1>1. h' = [q \in Process |-> IF q = p THEN r ELSE h[q]]
  BY DEF TInv, TypeOK
<1>2. h' \in [Process -> Handle]
  BY <1>1 DEF TInv, TypeOK
<1>3. MaxDirty = 1 => OneEach'
  <2> SUFFICES ASSUME MaxDirty = 1 PROVE OneEach'
    OBVIOUS
  <2>1. OneEach
    BY DEF TInv
  <2> QED BY <1>1, <2>1, NoneOnePage DEF OneEach
<1> QED BY <1>1, <1>2, <1>3 DEF TInv, TypeOK, At

LEMMA ClosedTyped ==
    Closed \in Handle /\ Closed.pc = "idle" /\ Closed.lock = "none" /\ Closed.dirty = NoPages
BY NoneOnePage, DamagedFacts DEF Closed, Handle, NoPages

LEMMA OpeningTyped ==
    ASSUME TInv, NEW p \in Process,
           Start(p) \/ Fopen(p) \/ Flock(p) \/ AccessWal(p) \/ OpenWal(p) \/ EndRecovery(p)
    PROVE  TInv'
<1>0. h[p] \in Handle /\ h \in [Process -> Handle] /\ wal \in Inode \cup {0}
  BY DEF TInv, TypeOK
<1>1. UNCHANGED <<data, allowed>> /\ file' \in Damaged /\ exists' \in BOOLEAN /\ wal' \in {wal, 0}
  BY DamagedFacts DEF TInv, TypeOK, Start, Fopen, Flock, AccessWal, OpenWal, EndRecovery
<1>2. CASE Start(p)
  <2> DEFINE r == [Closed EXCEPT !.pc = "fopen", !.mode = IF exists THEN "r+" ELSE "w+"]
  <2>1. h' = [h EXCEPT ![p] = r]
    BY <1>2 DEF Start
  <2>2. r \in Handle /\ r.pc = "fopen" /\ r.dirty = NoPages
    BY ClosedTyped DEF Handle
  <2> HIDE DEF r
  <2> QED BY <1>0, <1>1, <2>1, <2>2, NoneOnePage, HandleTyped DEF TInv, TypeOK
<1>3. CASE Fopen(p) \/ AccessWal(p) \/ EndRecovery(p)
  <2> DEFINE r(l) == [h[p] EXCEPT !.pc = l]
  <2>1. \A l \in {"flock", "header", "r_open"} : r(l) \in Handle /\ r(l).pc = l /\ r(l).dirty = h[p].dirty
    BY <1>0 DEF Handle
  <2>2. \E l \in {"flock", "header", "r_open"} : h' = [h EXCEPT ![p] = r(l)]
    BY <1>3 DEF Fopen, AccessWal, EndRecovery, Goto
  <2> HIDE DEF r
  <2> QED BY <1>0, <1>1, <2>1, <2>2, HandleTyped DEF TInv, TypeOK
<1>4. CASE Flock(p)
  <2> DEFINE r == [h[p] EXCEPT !.lock = LockOf(p), !.pc = "access"]
  <2>1. h' = [h EXCEPT ![p] = r]
    BY <1>0, <1>4 DEF Flock, LockOf
  <2>2. r \in Handle /\ r.pc = "access" /\ r.dirty = h[p].dirty
    BY <1>0 DEF Handle, LockOf
  <2> HIDE DEF r
  <2> QED BY <1>0, <1>1, <2>1, <2>2, HandleTyped DEF TInv, TypeOK
<1>5. CASE OpenWal(p)
  <2> DEFINE r == [h[p] EXCEPT !.fd = wal, !.pc = IF wal = 0 THEN "header" ELSE "r_lock"]
  <2>1. h' = [h EXCEPT ![p] = r]
    BY <1>0, <1>5 DEF OpenWal
  <2>2. r \in Handle /\ (r.pc = "r_lock" => r.fd # 0) /\ r.dirty = h[p].dirty
    BY <1>0 DEF Handle
  <2> HIDE DEF r
  <2> QED BY <1>0, <1>1, <2>1, <2>2, HandleTyped DEF TInv, TypeOK
<1> QED BY <1>2, <1>3, <1>4, <1>5

LEMMA ReadWalTyped == ASSUME TInv, NEW p \in Process, ReadWal(p) PROVE TInv'
<1> DEFINE w == data[h[p].fd]
           a(buf, left) == [h[p] EXCEPT !.fd = 0, !.pc = "apply", !.buf = buf, !.left = left]
           b(cache) == [h[p] EXCEPT !.fd = 0, !.pc = "header", !.cache = cache]
<1>0. /\ h[p] \in Handle /\ h \in [Process -> Handle] /\ h[p].fd \in Inode /\ w \in Image
      /\ MaxDirty = 1 => OnePage(w)
  <2>1. h[p] \in Handle /\ h[p].pc = "r_lock"
    BY DEF ReadWal, At, TInv, TypeOK
  <2>2. h[p].fd \in Inode
    BY <2>1 DEF TInv, At, Handle
  <2> QED BY <2>1, <2>2 DEF TInv, TypeOK, OneEach
<1>1. PICK s \in Strays(w) :
         \/ h' = [h EXCEPT ![p] = a(NoPages, w)]
         \/ ~Applicable(w) /\ h' = [h EXCEPT ![p] = a(Damage(Misplaced(First(w))), Damage(s))]
         \/ h' = [h EXCEPT ![p] = b(w)]
         \/ ~Applicable(w) /\ h' = [h EXCEPT ![p] = b(Damage({First(w)} \cup s))]
  <2>1. \A cache :
           [h EXCEPT ![p].fd = 0, ![p].pc = "header", ![p].cache = cache]
              = [h EXCEPT ![p] = b(cache)]
    BY <1>0
  <2> HIDE DEF a, b
  <2>2. CASE p \in Writers
    <3>1. PICK s, buf, left :
             /\ s \in Strays(w)
             /\ buf = IF Applicable(w) THEN NoPages ELSE Damage(Misplaced(First(w)))
             /\ left = IF Applicable(w) THEN w ELSE Damage(s)
             /\ h' = [h EXCEPT ![p].fd = 0, ![p].pc = "apply", ![p].buf = buf, ![p].left = left]
      BY <2>2 DEF ReadWal
    <3>2. h' = [h EXCEPT ![p] = a(buf, left)]
      <4>1. h' = [h EXCEPT ![p].fd = 0, ![p].pc = "apply", ![p].buf = buf, ![p].left = left]
        BY <3>1
      <4> HIDE DEF w
      <4> QED BY <1>0, <4>1 DEF a
    <3>3. CASE Applicable(w)
      BY <3>1, <3>2, <3>3
    <3>4. CASE ~Applicable(w)
      BY <3>1, <3>2, <3>4
    <3> QED BY <3>3, <3>4
  <2>3. CASE p \notin Writers /\ Applicable(w)
    BY <2>1, <2>3 DEF ReadWal
  <2>4. CASE p \notin Writers /\ ~Applicable(w)
    BY <2>1, <2>4 DEF ReadWal
  <2> QED BY <2>2, <2>3, <2>4
<1>2. UNCHANGED <<file, exists, wal, data, allowed>>
  BY DEF ReadWal
<1>3. s \subseteq Struck
  <2>1. CASE MaxDirty = 1
    <3>1. \A x \in Page : w[x] # None => x = First(w)
      <4> SUFFICES ASSUME NEW x \in Page, w[x] # None PROVE x = First(w)
        OBVIOUS
      <4>1. First(w) \in Page /\ w[First(w)] # None
        BY FirstPage
      <4> QED BY <1>0, <2>1, <4>1 DEF OnePage
    <3> QED BY <3>1 DEF Strays
  <2>2. CASE MaxDirty # 1
    BY <2>2, StruckFacts DEF Strays
  <2> QED BY <2>1, <2>2
<1>4. ~Applicable(w) => First(w) \in Page
  <2> SUFFICES ASSUME ~Applicable(w) PROVE First(w) \in Page
    OBVIOUS
  <2>1. \E x \in Page : w[x] # None
    BY <1>0 DEF Applicable, Image, NoPages
  <2> QED BY <2>1, FirstPage
<1>5. w \in Damaged /\ NoPages \in Damaged /\ Damage(s) \in Damaged
  BY <1>0, <1>3, ImageDamaged, DamagedFacts
<1>6. ~Applicable(w) => Damage(Misplaced(First(w))) \in Damaged
  BY <1>4, StruckFacts, DamagedFacts
<1>7. /\ w \in [Page -> Values \cup {None, Junk}]
      /\ \A t : Damage(t) \in [Page -> Values \cup {None, Junk}]
  BY <1>0 DEF Image, Damage
<1> HIDE DEF w
<1>8. /\ \A buf, left \in Damaged : /\ a(buf, left) \in Handle /\ a(buf, left).pc = "apply"
                                     /\ a(buf, left).dirty = h[p].dirty
      /\ \A cache \in [Page -> Values \cup {None, Junk}] :
            b(cache) \in Handle /\ b(cache).pc = "header" /\ b(cache).dirty = h[p].dirty
  BY <1>0 DEF Handle
<1> HIDE DEF a, b
<1>9. \E r \in Handle : h' = [h EXCEPT ![p] = r] /\ r.pc # "r_lock" /\ r.dirty = h[p].dirty
  BY <1>1, <1>5, <1>6, <1>7, <1>8
<1> QED BY <1>2, <1>9, HandleTyped DEF TInv, TypeOK

LEMMA PagesTyped ==
    ASSUME TInv, NEW p \in Process, ApplyPage(p) \/ ReadHeader(p)
    PROVE  TInv'
<1>0. /\ h[p] \in Handle /\ h \in [Process -> Handle] /\ file \in Damaged
      /\ h[p].buf \in Damaged /\ h[p].left \in Damaged
  BY DEF TInv, TypeOK, Handle
<1>2. CASE ApplyPage(p)
  <2> DEFINE x == First(h[p].left)
             buf == [NoPages EXCEPT ![x] = h[p].left[x]]
             left == [h[p].left EXCEPT ![x] = None]
             r == [h[p] EXCEPT !.buf = buf, !.left = left]
  <2>1. \E y \in Page : h[p].left[y] # None
    BY <1>0, <1>2 DEF ApplyPage, Damaged, NoPages
  <2>2. x \in Page
    BY <2>1, FirstPage
  <2>3. h' = [h EXCEPT ![p].buf = buf, ![p].left[x] = None]
    BY <1>2 DEF ApplyPage
  <2> HIDE DEF x
  <2>4. buf \in Damaged /\ left \in Damaged
    BY <1>0, <2>2, ValuesAssumption DEF Damaged, NoPages
  <2>5. h' = [h EXCEPT ![p] = r]
    BY <1>0, <2>3
  <2> HIDE DEF buf, left
  <2>6. r \in Handle /\ r.pc = "apply" /\ r.dirty = h[p].dirty
    BY <1>0, <1>2, <2>4 DEF Handle, ApplyPage, At
  <2>7. file' \in Damaged /\ UNCHANGED <<exists, wal, data, allowed>>
    BY <1>0, <1>2, DamagedFacts DEF ApplyPage, Flushed
  <2> HIDE DEF r
  <2> QED BY <2>5, <2>6, <2>7, HandleTyped DEF TInv, TypeOK
<1>3. CASE ReadHeader(p)
  <2> DEFINE opened == [h[p] EXCEPT !.pc = "run", !.buf = NoPages]
             header(v) == [opened EXCEPT !.dirty = [NoPages EXCEPT ![0] = v]]
             kept == [opened EXCEPT !.pc = "idle"]
  <2>1. /\ file' \in Damaged /\ UNCHANGED <<exists, wal, data>>
        /\ allowed' \in SUBSET Image
    BY <1>0, <1>3, DamagedFacts DEF ReadHeader, Flushed, TInv, TypeOK
  <2>2. PICK r : /\ h' = [h EXCEPT ![p] = r]
                 /\ r \in {opened, kept, Closed} \/ \E v \in Values : r = header(v)
    BY <1>3 DEF ReadHeader
  <2>3. /\ opened \in Handle /\ opened.pc = "run" /\ opened.dirty = h[p].dirty
        /\ kept \in Handle /\ kept.pc = "idle" /\ kept.dirty = h[p].dirty
    BY <1>0, DamagedFacts DEF Handle
  <2>4. ASSUME NEW v \in Values
        PROVE  header(v) \in Handle /\ header(v).pc = "run" /\ OnePage(header(v).dirty)
    <3> HIDE DEF opened
    <3> DEFINE d == [NoPages EXCEPT ![0] = v]
    <3>1. d \in Image /\ OnePage(d)
      BY PageAssumption DEF NoPages, Image, OnePage
    <3> HIDE DEF d
    <3>2. [opened EXCEPT !.dirty = d] \in Handle
      BY <2>3, <3>1 DEF Handle
    <3>3. [opened EXCEPT !.dirty = d].pc = "run" /\ [opened EXCEPT !.dirty = d].dirty = d
      BY <2>3 DEF Handle
    <3> QED BY <3>1, <3>2, <3>3 DEF d
  <2> HIDE DEF opened, header, kept
  <2>5. /\ r \in Handle /\ r.pc # "r_lock"
        /\ r.dirty = h[p].dirty \/ OnePage(r.dirty)
    BY <2>2, <2>3, <2>4, ClosedTyped, NoneOnePage
  <2> QED BY <2>1, <2>2, <2>5, HandleTyped DEF TInv, TypeOK
<1> QED BY <1>2, <1>3

(* Of at most one page, by their number *)
LEMMA OneWritten ==
    ASSUME NEW f \in Image, Cardinality({y \in Page : f[y] # None}) <= 1
    PROVE  OnePage(f)
<1> SUFFICES ASSUME NEW x \in Page, NEW y \in Page, f[x] # None, f[y] # None, x # y
             PROVE  FALSE
  BY DEF OnePage
<1> DEFINE T == {z \in Page : f[z] # None}
<1>1. IsFiniteSet(T) /\ {x, y} \subseteq T
  BY PageAssumption, FS_Subset
<1>2. IsFiniteSet({x}) /\ Cardinality({x}) = 1 /\ y \notin {x}
  BY FS_Singleton
<1>3. Cardinality({x} \cup {y}) = 2
  BY <1>2, FS_AddElement
<1>4. {x} \cup {y} \subseteq T
  BY <1>1
<1> HIDE DEF T
<1>5. Cardinality({x} \cup {y}) <= Cardinality(T) /\ Cardinality(T) \in Nat
  BY <1>1, <1>4, FS_Subset, FS_CardinalityType
<1> QED BY <1>3, <1>5 DEF T

LEMMA CommandTyped ==
    ASSUME TInv, NEW p \in Process,
           \/ Close(p) \/ Queue(p) \/ LockWal(p) \/ UnlinkWal(p)
           \/ (\E again \in BOOLEAN : CallCommit(p, again))
           \/ (\E x \in Page, v \in Values : Write(p, x, v))
    PROVE  TInv'
<1>0. h[p] \in Handle /\ h \in [Process -> Handle] /\ h[p].dirty \in Image
  BY DEF TInv, TypeOK, Handle
<1>1. wal' \in {wal, 0} /\ UNCHANGED <<file, exists, data, allowed>>
  BY DEF Close, Queue, LockWal, UnlinkWal, CallCommit, Write
<1>2. ASSUME NEW r \in Handle, r.pc # "r_lock", h' = [h EXCEPT ![p] = r],
             r.dirty = h[p].dirty \/ (MaxDirty = 1 => OnePage(r.dirty))
      PROVE  TInv'
  BY <1>1, <1>2, HandleTyped DEF TInv, TypeOK
<1>3. CASE Close(p)
  BY <1>2, <1>3, ClosedTyped, NoneOnePage DEF Close
<1>4. CASE Queue(p) \/ LockWal(p) \/ UnlinkWal(p)
  <2> DEFINE r(l) == [h[p] EXCEPT !.pc = l]
  <2>1. \E l \in {"idle", "c_write", "c_flush"} : h' = [h EXCEPT ![p] = r(l)]
    BY <1>4 DEF Queue, LockWal, UnlinkWal, Goto
  <2>2. \A l \in {"idle", "c_write", "c_flush"} : r(l) \in Handle /\ r(l).pc = l /\ r(l).dirty = h[p].dirty
    BY <1>0 DEF Handle
  <2> HIDE DEF r
  <2> QED BY <1>2, <2>1, <2>2
<1>5. CASE \E again \in BOOLEAN : CallCommit(p, again)
  <2> DEFINE r(again) == [h[p] EXCEPT !.pc = "c_open", !.again = again]
  <2>1. \E again \in BOOLEAN : h' = [h EXCEPT ![p] = r(again)]
    BY <1>0, <1>5 DEF CallCommit
  <2>2. \A again \in BOOLEAN : /\ r(again) \in Handle /\ r(again).pc = "c_open"
                                /\ r(again).dirty = h[p].dirty
    BY <1>0 DEF Handle
  <2> HIDE DEF r
  <2> QED BY <1>2, <2>1, <2>2
<1>6. ASSUME NEW x \in Page, NEW v \in Values, Write(p, x, v) PROVE TInv'
  <2> DEFINE e == [h[p].dirty EXCEPT ![x] = v]
             r == [h[p] EXCEPT !.dirty = e]
  <2>1. e \in Image
    BY <1>0 DEF Image
  <2>2. h' = [h EXCEPT ![p] = r] /\ h[p].pc = "run"
    BY <1>0, <1>6 DEF Write, At
  <2>3. MaxDirty = 1 => OnePage(e)
    <3> SUFFICES ASSUME MaxDirty = 1 PROVE OnePage(e)
      OBVIOUS
    <3>1. h'[p].dirty = e
      BY <1>0, <2>2
    <3>2. Cardinality({y \in Page : e[y] # None}) <= 1
      BY <1>6, <3>1 DEF Write
    <3> HIDE DEF e
    <3> QED BY <2>1, <3>2, OneWritten
  <2> HIDE DEF e
  <2>4. r \in Handle /\ r.pc = "run" /\ r.dirty = e
    BY <1>0, <2>1, <2>2 DEF Handle
  <2> HIDE DEF r
  <2> QED BY <1>2, <2>2, <2>3, <2>4
<1> QED BY <1>3, <1>4, <1>5, <1>6

LEMMA EndTyped == ASSUME TInv, NEW p \in Process, EndCommit(p) \/ Crash(p) PROVE TInv'
<1>0. /\ h[p] \in Handle /\ h \in [Process -> Handle] /\ file \in Damaged
      /\ h[p].dirty \in Image /\ h[p].buf \in Damaged /\ allowed \in SUBSET Image
  BY DEF TInv, TypeOK, Handle
<1>1. file' \in Damaged /\ UNCHANGED <<exists, wal, data>>
  BY <1>0, DamagedFacts DEF EndCommit, Crash, Flushed
<1> DEFINE after == {Overlay(m, h[p].dirty) : m \in allowed}
<1>2. after \in SUBSET Image
  BY <1>0, OverlayFacts
<1>3. allowed' \in {allowed, after, allowed \cup after}
  BY DEF EndCommit, Crash
<1> HIDE DEF after
<1>4. allowed' \in SUBSET Image
  BY <1>0, <1>2, <1>3
<1> DEFINE r(l) == [Closed EXCEPT !.pc = l]
<1>5. \A l \in {"c_open", "idle"} : r(l) \in Handle /\ r(l).pc = l /\ r(l).dirty = NoPages
  BY ClosedTyped DEF Handle
<1>6. h' = [h EXCEPT ![p] = Closed] \/ \E l \in {"c_open", "idle"} : h' = [h EXCEPT ![p] = r(l)]
  BY DEF EndCommit, Crash
<1> HIDE DEF r
<1> QED BY <1>1, <1>4, <1>5, <1>6, ClosedTyped, NoneOnePage, HandleTyped DEF TInv, TypeOK

LEMMA LogTyped ==
    ASSUME TInv, NEW p \in Process,
           CreateWal(p) \/ WriteWal(p) \/ TruncateWal(p) \/ CloseWal(p)
    PROVE  TInv'
<1>0. /\ h[p] \in Handle /\ h \in [Process -> Handle] /\ data \in [Inode -> Image]
      /\ h[p].dirty \in Image /\ NoPages \in Image
  BY OverlayFacts DEF TInv, TypeOK, Handle
<1>d. h[p].dirty \in Damaged
  BY <1>0, ImageDamaged
<1>1. CASE CreateWal(p)
  <2> DEFINE free == {i \in Inode : i # wal /\ \A q \in Process : h[q].fd # i}
             i == IF wal # 0 THEN wal ELSE CHOOSE j \in free : TRUE
             r == [h[p] EXCEPT !.fd = i, !.pc = "c_lock"]
  <2>1. i \in Inode
    <3>1. CASE wal # 0
      BY <3>1 DEF TInv, TypeOK
    <3>2. CASE wal = 0
      BY <3>2, FreeInode
    <3> QED BY <3>1, <3>2
  <2>2. /\ wal' = i /\ data' = [data EXCEPT ![i] = NoPages]
        /\ h' = [h EXCEPT ![p].fd = i, ![p].pc = "c_lock"]
        /\ UNCHANGED <<file, exists, allowed>>
    BY <1>1 DEF CreateWal
  <2> HIDE DEF i
  <2>3. /\ h' = [h EXCEPT ![p] = r] /\ data' \in [Inode -> Image]
        /\ \A j \in Inode : data'[j] \in {data[j], NoPages, h[p].dirty}
    BY <1>0, <2>2
  <2>4. r \in Handle /\ r.pc = "c_lock" /\ r.dirty = h[p].dirty
    BY <1>0, <2>1 DEF Handle
  <2> HIDE DEF r
  <2> QED BY <2>1, <2>2, <2>3, <2>4, HandleTyped DEF TInv, TypeOK
<1>2. CASE WriteWal(p)
  <2>1. PICK s \in WalSizes :
           /\ data' = IF s = "exact" THEN [data EXCEPT ![h[p].fd] = h[p].dirty] ELSE data
           /\ h' = [h EXCEPT ![p].size = s, ![p].left = h[p].dirty, ![p].pc = "apply"]
           /\ UNCHANGED <<file, exists, wal, allowed>>
    BY <1>2 DEF WriteWal
  <2> DEFINE r == [h[p] EXCEPT !.size = s, !.left = h[p].dirty, !.pc = "apply"]
  <2>2. /\ h' = [h EXCEPT ![p] = r] /\ data' \in [Inode -> Image]
        /\ \A j \in Inode : data'[j] \in {data[j], NoPages, h[p].dirty}
    BY <1>0, <2>1
  <2>3. r \in Handle /\ r.pc = "apply" /\ r.dirty = h[p].dirty
    BY <1>0, <1>d, WalSizesAssumption DEF Handle
  <2> HIDE DEF r
  <2> QED BY <2>1, <2>2, <2>3, HandleTyped DEF TInv, TypeOK
<1>3. CASE TruncateWal(p) \/ CloseWal(p)
  <2> DEFINE c == [h[p] EXCEPT !.pc = "c_close"]
             u == [h[p] EXCEPT !.fd = 0, !.pc = "c_unlink"]
  <2>1. h' = [h EXCEPT ![p] = c] \/ h' = [h EXCEPT ![p] = u]
    BY <1>0, <1>3 DEF TruncateWal, CloseWal, Goto
  <2>2. /\ c \in Handle /\ c.pc = "c_close" /\ c.dirty = h[p].dirty
        /\ u \in Handle /\ u.pc = "c_unlink" /\ u.dirty = h[p].dirty
    BY <1>0 DEF Handle
  <2>3. /\ data' \in [Inode -> Image] /\ UNCHANGED <<file, exists, wal, allowed>>
        /\ \A j \in Inode : data'[j] \in {data[j], NoPages, h[p].dirty}
    BY <1>0, <1>3 DEF TruncateWal, CloseWal
  <2> HIDE DEF c, u
  <2> QED BY <2>1, <2>2, <2>3, HandleTyped DEF TInv, TypeOK
<1> QED BY <1>1, <1>2, <1>3

LEMMA NextTyped == ASSUME TInv, [NextOrCrash]_vars PROVE TInv'
<1>1. CASE UNCHANGED vars
  BY <1>1 DEF vars, TInv, TypeOK, OneEach, At
<1>2. CASE NextOrCrash
  BY <1>2, OpeningTyped, ReadWalTyped, PagesTyped, CommandTyped, EndTyped, LogTyped
     DEF NextOrCrash, Next, Step, Command
<1> QED BY <1>1, <1>2

LEMMA StartTyped == Init => TInv
<1> SUFFICES ASSUME Init PROVE TInv
  OBVIOUS
<1>1. file \in Image /\ file \in Damaged /\ exists \in BOOLEAN
  BY OverlayFacts, ImageDamaged, FileAtStartAssumption DEF Init, Image
<1>2. OneEach
  BY ClosedTyped, NoneOnePage DEF Init, OneEach
<1> QED BY <1>1, <1>2, ClosedTyped, OverlayFacts DEF Init, TInv, TypeOK, At

(* Whatever processes die when, and in every configuration, every variable *)
(* keeps its type: a WAL holds pages as they were written, a commit finds  *)
(* an inode for a new one, and where transactions write one page (MaxDirty *)
(* = 1) the misplaced pieces of a recovery (rl_apply_wal_data before it    *)
(* knows the page size) leave junk in the pages of Struck only.            *)
THEOREM CrashTypeCorrect == CrashSpec => []TypeOK
<1>1. TInv => TypeOK
  BY DEF TInv
<1> QED BY <1>1, StartTyped, NextTyped, PTL DEF CrashSpec

-----------------------------------------------------------------------------
(* Transactions of one page, among writers only.  A page of a commit is in *)
(* the buffer until the commit's last step, so the file agrees at all      *)
(* times with an image that a transaction may find, but for the pages that *)
(* the misplaced pieces of a recovery have struck.  What else may be found *)
(* is that with the WAL laid over it that a dead process left (LeftOver);  *)
(* the next one to open the database replays it, or finds that somebody    *)
(* has truncated it, and deletes it before it goes on.                     *)
OnePageCommits == FileAtStart /\ MaxDirty = 1 /\ Readers = {}

(* An image agrees with one of those that may be found, or with all. *)
Fits(f, images) == \E m \in images : Agrees(f, m)
Decided(f, images) == images # {} /\ \A m \in images : Agrees(f, m)

Replayed(f) == IF f[0] = None THEN NoPages ELSE f
LeftOver == IF wal = 0 THEN NoPages ELSE Replayed(data[wal])

Recovering(r) == r.pc = "apply" /\ r.fd = 0
Inside(r) == r.lock = "EX" /\ r.pc \notin Opening /\ ~Recovering(r)
Writing == {"apply", "c_close", "c_unlink", "c_flush"}

(* A handle by itself *)
Solo(r) ==
    /\ r.lock \in {"none", "EX"}
    /\ r.pc \in {"fopen", "flock"} => r.lock = "none"
    /\ r.pc \in Opening \cup {"run"} \/ Recovering(r) => r.lock = "EX"
    /\ r.pc = "fopen" => r.mode = "r+"
    /\ r.pc \in {"c_lock", "c_write"} => r.fd # 0
    /\ r.cache = NoPages
    /\ OnePage(r.dirty) /\ OnePage(r.left)
    /\ r.dirty # NoPages => Inside(r)
    /\ r.left # NoPages => r.pc = "apply" /\ r.buf = NoPages
    /\ r.buf # NoPages => r.pc \in Writing \cup {"header"}
    /\ r.pc \in Writing /\ ~Recovering(r) => Overlay(r.buf, r.left) = r.dirty

(* A handle and what is stored *)
Logged(r) == IF r.pc \in {"apply", "c_close", "c_unlink"} THEN Replayed(r.dirty) ELSE NoPages
Phase(p) ==
    /\ Inside(h[p]) => Decided(file, allowed) /\ LeftOver \in {NoPages, Logged(h[p])}
    /\ At(p, "header") => LeftOver = NoPages /\ Fits(Overlay(file, h[p].buf), allowed)
    /\ Recovering(h[p]) =>
          /\ LeftOver \in {NoPages, Overlay(h[p].buf, h[p].left)}
          /\ Fits(Overlay(file, Overlay(h[p].buf, h[p].left)), allowed)
    /\ At(p, "r_lock") => /\ wal # 0 /\ wal # h[p].fd => LeftOver = NoPages
                          /\ Fits(Overlay(file, Replayed(data[h[p].fd])), allowed)
CInv ==
    /\ exists = TRUE
    /\ Fits(file, allowed)
    /\ \A i \in Inode : OnePage(data[i])
    /\ Exclusive
    /\ \A p \in Process : Solo(h[p]) /\ Phase(p)
    /\ (\A p \in Process : ~Inside(h[p])) => Fits(Overlay(file, LeftOver), allowed)

LEMMA OnePageFacts ==
    /\ OnePage(NoPages) /\ Replayed(NoPages) = NoPages
    /\ \A f : Replayed(f) \in {NoPages, f}
    /\ \A f, g \in Damaged : Overlay(f, g) = NoPages => f = NoPages /\ g = NoPages
<1>1. OnePage(NoPages) /\ Replayed(NoPages) = NoPages
  BY PageAssumption DEF OnePage, Replayed, NoPages
<1>2. \A f : Replayed(f) \in {NoPages, f}
  BY DEF Replayed
<1>3. \A f, g \in Damaged : Overlay(f, g) = NoPages => f = NoPages /\ g = NoPages
  BY DEF Damaged, NoPages, Overlay
<1> QED BY <1>1, <1>2, <1>3

(* Pages laid over what agrees, and junk in what may be struck *)
LEMMA AgreeFacts ==
    /\ \A f, m, d : Agrees(f, m) => Agrees(Overlay(f, d), Overlay(m, d))
    /\ \A f, m : \A s \in SUBSET Struck :
         f \in Damaged /\ Agrees(f, m) => Agrees(Overlay(f, Damage(s)), m)
<1>1. \A f, m, d : Agrees(f, m) => Agrees(Overlay(f, d), Overlay(m, d))
  BY DEF Agrees, Overlay
<1>2. \A f, m : \A s \in SUBSET Struck :
         f \in Damaged /\ Agrees(f, m) => Agrees(Overlay(f, Damage(s)), m)
  BY ValuesAssumption DEF Agrees, Overlay, Damage, Damaged
<1> QED BY <1>1, <1>2

LEMMA FitsFacts ==
    ASSUME NEW f, NEW images
    PROVE  /\ Agrees(f, f)
           /\ Decided(f, images) => Fits(f, images)
           /\ \A more : images \subseteq more /\ Fits(f, images) => Fits(f, more)
           /\ \A s \in SUBSET Struck :
                f \in Damaged /\ Fits(f, images) => Fits(Overlay(f, Damage(s)), images)
<1>1. Agrees(f, f)
  BY DEF Agrees
<1>2. Decided(f, images) => Fits(f, images)
  BY DEF Decided, Fits
<1>3. \A more : images \subseteq more /\ Fits(f, images) => Fits(f, more)
  BY DEF Fits
<1>4. \A s \in SUBSET Struck :
        f \in Damaged /\ Fits(f, images) => Fits(Overlay(f, Damage(s)), images)
  BY AgreeFacts DEF Fits
<1> QED BY <1>1, <1>2, <1>3, <1>4

(* One page moves as a whole. *)
LEMMA OneMoves ==
    ASSUME NEW f \in Damaged, OnePage(f), NEW x \in Page, f[x] # None
    PROVE  [NoPages EXCEPT ![x] = f[x]] = f /\ [f EXCEPT ![x] = None] = NoPages
BY DEF Damaged, OnePage, NoPages

(* Who holds no lock has nothing to write. *)
LEMMA Unlocked ==
    ASSUME TInv, NEW p \in Process, Solo(h[p]), h[p].lock = "none"
    PROVE  /\ h[p].dirty = NoPages /\ h[p].left = NoPages /\ h[p].buf = NoPages
           /\ ~Inside(h[p]) /\ ~Recovering(h[p]) /\ h[p].pc \notin Opening \cup {"run"}
<1>1. /\ ~Inside(h[p]) /\ ~Recovering(h[p]) /\ h[p].pc \notin Opening \cup {"run"}
      /\ h[p].dirty = NoPages
  BY DEF Solo, Inside
<1>2. h[p].left \in Damaged /\ h[p].buf \in Damaged
  BY DEF TInv, TypeOK, Handle
<1>3. h[p].pc \in Writing => h[p].left = NoPages /\ h[p].buf = NoPages
  BY <1>1, <1>2, OnePageFacts DEF Solo
<1> QED BY <1>1, <1>3 DEF Solo, Writing, Opening

-----------------------------------------------------------------------------
(* A step of one that holds the lock: nobody else is inside or opening. *)
LEMMA HolderStep ==
    ASSUME TInv, CInv, NEW p \in Process, NEW r, h' = [h EXCEPT ![p] = r],
           h[p].lock = "EX", Solo(r), exists' = TRUE, Fits(file', allowed'),
           \A i \in Inode : OnePage(data'[i]), Phase(p)',
           Inside(r) \/ Fits(Overlay(file', LeftOver'), allowed')
    PROVE  CInv'
<1>1. h' = [q \in Process |-> IF q = p THEN r ELSE h[q]]
  BY DEF TInv, TypeOK
<1>2. ASSUME NEW q \in Process, q # p
      PROVE  Solo(h'[q]) /\ Phase(q)' /\ h'[q].lock = "none" /\ ~Inside(h'[q])
  <2>1. h'[q] = h[q] /\ h[q].lock = "none" /\ Solo(h[q])
    BY <1>1, <1>2 DEF CInv, Exclusive
  <2>2. ~Inside(h'[q]) /\ ~Recovering(h'[q]) /\ h'[q].pc \notin Opening
    BY <2>1, Unlocked
  <2> QED BY <2>1, <2>2 DEF Phase, At, Opening
<1>3. Exclusive'
  BY <1>1, <1>2 DEF Exclusive
<1>4. \A q \in Process : Solo(h'[q]) /\ Phase(q)'
  BY <1>1, <1>2
<1>5. (\A q \in Process : ~Inside(h'[q])) => Fits(Overlay(file', LeftOver'), allowed')
  BY <1>1
<1> QED BY <1>3, <1>4, <1>5 DEF CInv

(* A step of one that holds no lock, or takes it: of the log it takes away *)
(* only.                                                                   *)
LogShrinks ==
    /\ \A i \in Inode : data'[i] \in {data[i], NoPages}
    /\ wal' \in {wal, 0} \/ data'[wal'] = NoPages

LEMMA Shrunk ==
    ASSUME TInv, TInv', LogShrinks
    PROVE  /\ LeftOver' \in {LeftOver, NoPages}
           /\ wal' # 0 /\ wal' # wal => LeftOver' = NoPages
           /\ \A i \in Inode : Replayed(data'[i]) \in {Replayed(data[i]), NoPages}
<1>1. \A i \in Inode : Replayed(data'[i]) \in {Replayed(data[i]), NoPages}
  BY OnePageFacts DEF LogShrinks
<1>2. wal \in Inode \cup {0} /\ wal' \in Inode \cup {0} /\ 0 \notin Inode
  BY DEF TInv, TypeOK, Inode
<1> QED BY <1>1, <1>2, OnePageFacts DEF LogShrinks, LeftOver

LEMMA OtherStep ==
    ASSUME TInv, TInv', CInv, NEW p \in Process, NEW r, h' = [h EXCEPT ![p] = r],
           Solo(r), Compatible(p, r), LogShrinks, UNCHANGED <<file, exists, allowed>>,
           ~Inside(h[p]), ~Inside(r), Phase(p)'
    PROVE  CInv'
<1>1. h' = [q \in Process |-> IF q = p THEN r ELSE h[q]]
  BY DEF TInv, TypeOK
<1>2. file \in Damaged /\ Fits(file, allowed) /\ Overlay(file, NoPages) = file
  BY DamagedFacts DEF TInv, TypeOK, CInv
<1>3. /\ LeftOver' \in {LeftOver, NoPages}
      /\ wal' # 0 /\ wal' # wal => LeftOver' = NoPages
      /\ \A i \in Inode : Replayed(data'[i]) \in {Replayed(data[i]), NoPages}
  BY Shrunk
<1>4. ASSUME NEW q \in Process, q # p PROVE Solo(h'[q]) /\ Phase(q)'
  <2>1. h'[q] = h[q] /\ Solo(h[q]) /\ Phase(q)
    BY <1>1, <1>4 DEF CInv
  <2>2. Inside(h[q]) => Decided(file', allowed') /\ LeftOver' \in {NoPages, Logged(h[q])}
    BY <1>3, <2>1 DEF Phase
  <2>3. At(q, "header") => LeftOver' = NoPages /\ Fits(Overlay(file', h[q].buf), allowed')
    BY <1>3, <2>1 DEF Phase
  <2>4. Recovering(h[q]) =>
          /\ LeftOver' \in {NoPages, Overlay(h[q].buf, h[q].left)}
          /\ Fits(Overlay(file', Overlay(h[q].buf, h[q].left)), allowed')
    BY <1>3, <2>1 DEF Phase
  <2>5. ASSUME At(q, "r_lock")
        PROVE  /\ wal' # 0 /\ wal' # h[q].fd => LeftOver' = NoPages
               /\ Fits(Overlay(file', Replayed(data'[h[q].fd])), allowed')
    <3>1. h[q].fd \in Inode
      BY <2>5 DEF TInv, TypeOK, Handle
    <3>2. /\ wal # 0 /\ wal # h[q].fd => LeftOver = NoPages
          /\ Fits(Overlay(file, Replayed(data[h[q].fd])), allowed)
      BY <2>1, <2>5 DEF Phase
    <3>3. Replayed(data'[h[q].fd]) \in {Replayed(data[h[q].fd]), NoPages}
      BY <1>3, <3>1
    <3>4. Fits(Overlay(file', Replayed(data'[h[q].fd])), allowed')
      BY <1>2, <3>2, <3>3
    <3> QED BY <1>3, <3>2, <3>4
  <2>6. Phase(q)'
    BY <2>1, <2>2, <2>3, <2>4, <2>5 DEF Phase, At
  <2> QED BY <2>1, <2>6
<1>5. \A q \in Process : Solo(h'[q]) /\ Phase(q)'
  BY <1>1, <1>4
<1>6. Exclusive'
  BY <1>1 DEF CInv, Exclusive, Compatible
<1>7. ASSUME \A q \in Process : ~Inside(h'[q]) PROVE Fits(Overlay(file', LeftOver'), allowed')
  <2>1. Fits(Overlay(file, LeftOver), allowed)
    BY <1>1, <1>7 DEF CInv
  <2> QED BY <1>2, <1>3, <2>1
<1>8. \A i \in Inode : OnePage(data'[i])
  BY OnePageFacts DEF LogShrinks, CInv
<1> QED BY <1>2, <1>5, <1>6, <1>7, <1>8 DEF CInv

LEMMA NoPhase ==
    ASSUME TInv, NEW p \in Process, NEW r, h' = [h EXCEPT ![p] = r],
           ~Inside(r), ~Recovering(r), r.pc \notin {"header", "r_lock"}
    PROVE  Phase(p)'
<1>1. h'[p] = r
  BY DEF TInv, TypeOK
<1> QED BY <1>1 DEF Phase, At

(* What the lock's holder leaves, should it go *)
LEMMA HolderLeaves ==
    ASSUME TInv, CInv, NEW p \in Process, h[p].lock = "EX"
    PROVE  \/ ~Inside(h[p]) /\ Fits(Overlay(file, LeftOver), allowed)
           \/ /\ Inside(h[p]) /\ Decided(file, allowed)
              /\ LeftOver = NoPages
           \/ /\ Inside(h[p]) /\ Decided(file, allowed)
              /\ LeftOver = Replayed(h[p].dirty) /\ h[p].pc \in {"apply", "c_close", "c_unlink"}
<1>1. CASE Inside(h[p])
  BY <1>1 DEF CInv, Phase, Logged
<1>2. CASE ~Inside(h[p])
  <2>1. \A q \in Process : q # p => h[q].lock = "none"
    BY DEF CInv, Exclusive
  <2>2. \A q \in Process : ~Inside(h[q])
    BY <1>2, <2>1 DEF Inside
  <2> QED BY <1>2, <2>2 DEF CInv
<1> QED BY <1>1, <1>2

LEMMA Released ==
    ASSUME TInv, TInv', CInv, NEW p \in Process, NEW r, h' = [h EXCEPT ![p] = r],
           Solo(r), r.lock = "none", r.pc \notin Opening, ~Recovering(r),
           UNCHANGED <<file, exists, wal, data>>,
           h[p].lock = "EX" => Fits(file, allowed') /\ Fits(Overlay(file, LeftOver), allowed'),
           h[p].lock # "EX" => allowed' = allowed
    PROVE  CInv'
<1>1. ~Inside(r) /\ Phase(p)'
  BY NoPhase DEF Inside, Opening
<1>2. Solo(h[p]) /\ LeftOver' = LeftOver
  BY DEF CInv, LeftOver
<1>3. CASE h[p].lock = "EX"
  BY <1>1, <1>2, <1>3, HolderStep DEF CInv
<1>4. CASE h[p].lock # "EX"
  <2>1. h[p].lock = "none"
    BY <1>2, <1>4 DEF Solo
  <2>2. ~Inside(h[p]) /\ Compatible(p, r) /\ LogShrinks
    BY <1>2, <2>1, Unlocked DEF Compatible, LogShrinks, CInv, Exclusive
  <2> QED BY <1>1, <1>4, <2>2, OtherStep
<1> QED BY <1>3, <1>4

LEMMA InsideStep ==
    ASSUME TInv, TInv', CInv, NEW p \in Process, NEW r, h' = [h EXCEPT ![p] = r],
           Inside(h[p]), Inside(r), Solo(r), r.pc # "header", r.pc # "r_lock",
           UNCHANGED <<file, exists, allowed>>,
           \A i \in Inode : OnePage(data'[i]), LeftOver' \in {NoPages, Logged(r)}
    PROVE  CInv'
<1>1. h'[p] = r
  BY DEF TInv, TypeOK
<1>2. h[p].lock = "EX" /\ Decided(file, allowed)
  BY DEF CInv, Phase, Inside
<1>3. Phase(p)'
  BY <1>1, <1>2 DEF Phase, Inside, At
<1> QED BY <1>2, <1>3, HolderStep DEF CInv

-----------------------------------------------------------------------------
LEMMA ClosedSolo ==
    /\ Solo(Closed) /\ Closed.pc = "idle" /\ Closed.lock = "none"
    /\ \A l \in {"idle", "c_open"} :
         LET r == [Closed EXCEPT !.pc = l]
         IN Solo(r) /\ r.pc = l /\ r.lock = "none" /\ ~Recovering(r)
    /\ LET r == [Closed EXCEPT !.pc = "fopen", !.mode = "r+"]
       IN Solo(r) /\ r.pc = "fopen" /\ r.lock = "none" /\ ~Recovering(r)
<1>1. Overlay(NoPages, NoPages) = NoPages
  BY DamagedFacts
<1> QED BY <1>1, OnePageFacts DEF Closed, Solo, Recovering, Inside, Opening, Writing

LEMMA CrashStartInv ==
    ASSUME TInv, TInv', CInv, NEW p \in Process, Start(p) \/ Close(p) PROVE CInv'
<1>1. /\ UNCHANGED <<file, exists, wal, data, allowed>>
      /\ h[p].pc \in {"run", "idle"}
  BY DEF Start, Close, At
<1>2. PICK r : /\ h' = [h EXCEPT ![p] = r]
               /\ r = Closed \/ r = [Closed EXCEPT !.pc = "fopen", !.mode = "r+"]
  BY DEF Start, Close, CInv
<1>3. Solo(r) /\ r.lock = "none" /\ r.pc \notin Opening /\ ~Recovering(r)
  BY <1>2, ClosedSolo DEF Opening, Recovering
<1>4. h[p].lock = "EX" => Fits(file, allowed') /\ Fits(Overlay(file, LeftOver), allowed')
  <2>1. file \in Damaged /\ Fits(file, allowed)
    BY DEF TInv, TypeOK, CInv
  <2> QED BY <1>1, <2>1, HolderLeaves, DamagedFacts
<1> QED BY <1>1, <1>2, <1>3, <1>4, Released

LEMMA CrashFopenInv == ASSUME TInv, TInv', CInv, NEW p \in Process, Fopen(p) PROVE CInv'
<1> DEFINE r == [h[p] EXCEPT !.pc = "flock"]
<1>0. h[p] \in Handle /\ Solo(h[p]) /\ h[p].pc = "fopen" /\ h[p].lock = "none"
  BY DEF TInv, TypeOK, CInv, Fopen, At, Solo
<1>1. h' = [h EXCEPT ![p] = r] /\ UNCHANGED <<file, exists, wal, data, allowed>>
  BY <1>0 DEF Fopen, CInv, Solo, Goto
<1>2. /\ h[p].dirty = NoPages /\ h[p].left = NoPages /\ h[p].buf = NoPages /\ ~Inside(h[p])
  BY <1>0, Unlocked
<1>3. Solo(r) /\ r.pc = "flock" /\ r.lock = "none" /\ ~Recovering(r)
  BY <1>0, <1>2 DEF Handle, Solo, Recovering, Opening, Writing
<1> HIDE DEF r
<1> QED BY <1>0, <1>1, <1>2, <1>3, Released DEF Opening

LEMMA CrashFlockInv ==
    ASSUME OnePageCommits, TInv, TInv', CInv, NEW p \in Process, Flock(p) PROVE CInv'
<1> DEFINE r == [h[p] EXCEPT !.lock = "EX", !.pc = "access"]
<1>0. h[p] \in Handle /\ Solo(h[p]) /\ h[p].pc = "flock" /\ h[p].lock = "none" /\ p \in Writers
  BY DEF TInv, TypeOK, CInv, Flock, At, Solo, OnePageCommits, Process
<1>1. h' = [h EXCEPT ![p] = r] /\ UNCHANGED <<file, exists, wal, data, allowed>>
  BY <1>0 DEF Flock
<1>2. h[p].dirty = NoPages /\ h[p].left = NoPages /\ h[p].buf = NoPages /\ ~Inside(h[p])
  BY <1>0, Unlocked
<1>3. Solo(r) /\ r.pc = "access" /\ r.lock = "EX" /\ ~Recovering(r) /\ ~Inside(r)
  BY <1>0, <1>2 DEF Handle, Solo, Inside, Recovering, Opening, Writing
<1> HIDE DEF r
<1>4. Compatible(p, r)
  BY <1>0, <1>3 DEF Flock, Grants, Compatible
<1>5. Phase(p)' /\ LogShrinks
  BY <1>1, <1>3, NoPhase DEF LogShrinks
<1> QED BY <1>1, <1>2, <1>3, <1>4, <1>5, OtherStep

(* rl_apply_wal, as far as the WAL's lock *)
LEMMA CrashAccessInv ==
    ASSUME TInv, TInv', CInv, NEW p \in Process, AccessWal(p) \/ OpenWal(p) PROVE CInv'
<1> DEFINE a(l) == [h[p] EXCEPT !.pc = l]
           b == [h[p] EXCEPT !.fd = wal, !.pc = "r_lock"]
           c == [h[p] EXCEPT !.fd = wal, !.pc = "header"]
<1>0. /\ h[p] \in Handle /\ Solo(h[p]) /\ h[p].pc \in {"access", "r_open"} /\ h[p].lock = "EX"
      /\ file \in Damaged
  <2>1. h[p].pc \in {"access", "r_open"}
    BY DEF AccessWal, OpenWal, At
  <2> QED BY <2>1 DEF TInv, TypeOK, CInv, Solo, Opening
<1>1. /\ ~Inside(h[p]) /\ h[p].dirty = NoPages /\ h[p].left = NoPages /\ h[p].buf = NoPages
      /\ Fits(Overlay(file, LeftOver), allowed) /\ Fits(file, allowed)
  <2>1. ~Inside(h[p])
    BY <1>0 DEF Inside, Opening
  <2> QED BY <1>0, <2>1, HolderLeaves DEF Solo, Writing, CInv
<1>2. UNCHANGED <<file, exists, wal, data, allowed>> /\ LeftOver' = LeftOver
  BY DEF AccessWal, OpenWal, LeftOver
<1>3. PICK r : /\ h' = [h EXCEPT ![p] = r]
               /\ \/ r = a("header") /\ wal = 0
                  \/ r = a("r_open")
                  \/ r = b /\ wal # 0
                  \/ r = c /\ wal = 0
  <2>1. CASE AccessWal(p)
    BY <2>1, <1>0 DEF AccessWal, Goto
  <2>2. CASE OpenWal(p)
    <3>1. h' = [h EXCEPT ![p].fd = wal, ![p].pc = IF wal = 0 THEN "header" ELSE "r_lock"]
      BY <2>2 DEF OpenWal
    <3>2. wal = 0 => h' = [h EXCEPT ![p] = c]
      BY <3>1
    <3>3. wal # 0 => h' = [h EXCEPT ![p] = b]
      BY <3>1
    <3> QED BY <3>2, <3>3
  <2> QED BY <2>1, <2>2
<1>4. /\ Solo(r) /\ r.lock = "EX" /\ r.pc \in {"header", "r_open", "r_lock"} /\ r.buf = NoPages
      /\ r.pc = "header" => wal = 0
      /\ r.pc = "r_lock" => wal # 0 /\ r.fd = wal
  BY <1>0, <1>1, <1>3 DEF Handle, Solo, Recovering, Opening, Writing
<1> HIDE DEF a, b, c
<1>5. h'[p] = r
  BY <1>3 DEF TInv, TypeOK
<1>6. Phase(p)'
  <2>1. ~Inside(r) /\ ~Recovering(r)
    BY <1>4 DEF Inside, Recovering, Opening
  <2>2. r.pc = "header" => LeftOver' = NoPages /\ Fits(Overlay(file', r.buf), allowed')
    BY <1>0, <1>1, <1>2, <1>4, DamagedFacts DEF LeftOver
  <2>3. r.pc = "r_lock" => /\ wal' = r.fd
                           /\ Fits(Overlay(file', Replayed(data'[r.fd])), allowed')
    BY <1>1, <1>2, <1>4 DEF LeftOver
  <2> QED BY <1>5, <2>1, <2>2, <2>3 DEF Phase, At
<1> QED BY <1>0, <1>1, <1>2, <1>3, <1>4, <1>6, HolderStep DEF CInv

LEMMA CrashReadWalInv ==
    ASSUME OnePageCommits, TInv, TInv', CInv, NEW p \in Process, ReadWal(p) PROVE CInv'
<1> DEFINE w == data[h[p].fd]
           r(buf, left) == [h[p] EXCEPT !.fd = 0, !.pc = "apply", !.buf = buf, !.left = left]
<1>0. /\ h[p] \in Handle /\ Solo(h[p]) /\ h[p].pc = "r_lock" /\ h[p].lock = "EX"
      /\ file \in Damaged /\ h[p].fd \in Inode /\ p \in Writers
      /\ h \in [Process -> Handle]
  <2>1. h[p].pc = "r_lock"
    BY DEF ReadWal, At
  <2>2. /\ h[p] \in Handle /\ Solo(h[p]) /\ file \in Damaged /\ p \in Writers
        /\ h \in [Process -> Handle]
    BY DEF TInv, TypeOK, CInv, OnePageCommits, Process
  <2>3. h[p].fd \in Inode
    BY <2>1, <2>2 DEF TInv, At, Handle
  <2> QED BY <2>1, <2>2, <2>3 DEF Solo, Opening
<1>1. w \in Image /\ w \in Damaged /\ OnePage(w) /\ UNCHANGED <<file, exists, wal, data, allowed>>
  BY <1>0, ImageDamaged DEF TInv, TypeOK, CInv, ReadWal
<1>2. /\ LeftOver \in {NoPages, Replayed(w)} /\ LeftOver' = LeftOver
      /\ Fits(Overlay(file, Replayed(w)), allowed) /\ Fits(Overlay(file, LeftOver), allowed)
      /\ Fits(file, allowed)
  <2>1. /\ wal # 0 /\ wal # h[p].fd => LeftOver = NoPages
        /\ Fits(Overlay(file, Replayed(w)), allowed)
    BY <1>0 DEF CInv, Phase, At
  <2>2. ~Inside(h[p])
    BY <1>0 DEF Inside, Opening
  <2>3. LeftOver \in {NoPages, Replayed(w)}
    BY <2>1 DEF LeftOver
  <2>4. LeftOver' = LeftOver
    BY <1>1 DEF LeftOver
  <2> QED BY <1>0, <2>1, <2>2, <2>3, <2>4, HolderLeaves DEF CInv
<1>3. PICK s, buf, left :
         /\ s \in Strays(w)
         /\ buf = IF Applicable(w) THEN NoPages ELSE Damage(Misplaced(First(w)))
         /\ left = IF Applicable(w) THEN w ELSE Damage(s)
         /\ h' = [h EXCEPT ![p].fd = 0, ![p].pc = "apply", ![p].buf = buf, ![p].left = left]
  <2>1. p \in Writers
    BY <1>0
  <2> QED BY <2>1 DEF ReadWal
<1>4. h' = [h EXCEPT ![p] = r(buf, left)]
  <2>1. h' = [h EXCEPT ![p].fd = 0, ![p].pc = "apply", ![p].buf = buf, ![p].left = left]
    BY <1>3
  <2> HIDE DEF w
  <2> QED BY <1>0, <2>1
<1> HIDE DEF w
(* A WAL of another page than the header is not applied, and strikes. *)
<1>5. ASSUME ~Applicable(w)
      PROVE  /\ Replayed(w) = NoPages /\ left = NoPages
             /\ buf = Damage(Misplaced(First(w))) /\ Misplaced(First(w)) \in SUBSET Struck
  <2>1. w[0] = None /\ w # NoPages
    BY <1>5 DEF Applicable
  <2>2. PICK x \in Page : w[x] # None
    BY <1>1, <2>1 DEF Image, NoPages
  <2>3. First(w) \in Page /\ w[First(w)] # None
    BY <2>2, FirstPage
  <2>4. \A y \in Page : w[y] # None => y = First(w)
    BY <1>1, <2>3 DEF OnePage
  <2>5. s = {}
    BY <1>3, <2>4 DEF Strays
  <2>6. Damage({}) = NoPages
    BY DEF Damage, NoPages
  <2> QED BY <1>3, <1>5, <2>1, <2>3, <2>5, <2>6, StruckFacts DEF Replayed
<1>6. /\ OnePage(left)
      /\ left # NoPages => buf = NoPages
      /\ LeftOver \in {NoPages, Overlay(buf, left)}
      /\ Fits(Overlay(file, Overlay(buf, left)), allowed)
  <2>1. CASE Applicable(w)
    <3>1. Replayed(w) = w
      BY <2>1 DEF Applicable, Replayed, NoPages
    <3>2. buf = NoPages /\ left = w /\ Overlay(buf, left) = w
      BY <1>1, <1>3, <2>1, DamagedFacts
    <3> QED BY <1>1, <1>2, <3>1, <3>2
  <2>2. CASE ~Applicable(w)
    <3>1. buf \in Damaged /\ Overlay(buf, left) = buf
      BY <1>5, <2>2, DamagedFacts
    <3>2. Fits(Overlay(file, buf), allowed)
      BY <1>0, <1>2, <1>5, <2>2, FitsFacts
    <3> QED BY <1>2, <1>5, <2>2, <3>1, <3>2, NoneOnePage
  <2> QED BY <2>1, <2>2
<1> DEFINE q == r(buf, left)
<1>7. /\ q.pc = "apply" /\ q.fd = 0 /\ q.lock = "EX" /\ q.left = left /\ q.buf = buf
      /\ Solo(q) /\ Recovering(q) /\ ~Inside(q)
  <2>1. h[p].dirty = NoPages
    BY <1>0 DEF Solo, Inside, Opening
  <2>2. /\ q.pc = "apply" /\ q.fd = 0 /\ q.lock = "EX" /\ q.left = left /\ q.buf = buf
        /\ q.dirty = NoPages /\ q.cache = h[p].cache
    BY <1>0, <2>1 DEF Handle
  <2>3. h[p].cache = NoPages /\ OnePage(NoPages)
    BY <1>0, OnePageFacts DEF Solo
  <2> HIDE DEF r, q
  <2>4. Recovering(q) /\ ~Inside(q)
    BY <2>2 DEF Inside, Recovering
  <2>5. Solo(q)
    BY <1>6, <2>2, <2>3, <2>4 DEF Solo, Opening, Writing
  <2> QED BY <2>2, <2>4, <2>5
<1>8. h' = [h EXCEPT ![p] = q] /\ h'[p] = q
  BY <1>4 DEF TInv, TypeOK
<1> HIDE DEF r, q
<1>9. Phase(p)'
  BY <1>1, <1>2, <1>6, <1>7, <1>8 DEF Phase, At
<1> QED BY <1>0, <1>1, <1>2, <1>7, <1>8, <1>9, HolderStep DEF CInv

LEMMA CrashApplyInv == ASSUME TInv, TInv', CInv, NEW p \in Process, ApplyPage(p) PROVE CInv'
<1> DEFINE x == First(h[p].left)
           left == h[p].left
           r == [h[p] EXCEPT !.buf = [NoPages EXCEPT ![x] = left[x]],
                             !.left = [left EXCEPT ![x] = None]]
<1>0. /\ h[p] \in Handle /\ Solo(h[p]) /\ h[p].pc = "apply" /\ left # NoPages
      /\ file \in Damaged /\ left \in Damaged /\ OnePage(left) /\ h[p].buf = NoPages
      /\ h \in [Process -> Handle]
  BY DEF TInv, TypeOK, CInv, Solo, ApplyPage, At, Handle
<1>1. h[p].lock = "EX"
  BY <1>0, Unlocked DEF Solo
<1>2. Overlay(file, NoPages) = file /\ Overlay(NoPages, left) = left /\ Overlay(left, NoPages) = left
  BY <1>0, DamagedFacts
<1>3. /\ file' = file /\ h' = [h EXCEPT ![p] = r] /\ UNCHANGED <<exists, wal, data, allowed>>
  <2>1. h' = [h EXCEPT ![p].buf = [NoPages EXCEPT ![x] = left[x]], ![p].left[x] = None]
    BY DEF ApplyPage
  <2>2. file' = file /\ UNCHANGED <<exists, wal, data, allowed>>
    BY <1>0, <1>2 DEF ApplyPage, Flushed
  <2> HIDE DEF x
  <2>3. h' = [h EXCEPT ![p] = r]
    BY <1>0, <2>1
  <2> QED BY <2>2, <2>3
<1>4. x \in Page /\ left[x] # None
  <2>1. \E y \in Page : left[y] # None
    BY <1>0 DEF Damaged, NoPages
  <2> QED BY <2>1, FirstPage
<1> HIDE DEF x
<1>5. [NoPages EXCEPT ![x] = left[x]] = left /\ [left EXCEPT ![x] = None] = NoPages
  BY <1>0, <1>4, OneMoves
<1>6. r = [h[p] EXCEPT !.buf = left, !.left = NoPages]
  BY <1>5
<1> HIDE DEF r
<1>7. /\ r.buf = left /\ r.left = NoPages /\ r.pc = "apply" /\ r.dirty = h[p].dirty
      /\ r.lock = "EX" /\ r.fd = h[p].fd /\ r.cache = h[p].cache
  BY <1>0, <1>1, <1>6 DEF Handle
<1>8. (Inside(r) <=> Inside(h[p])) /\ (Recovering(r) <=> Recovering(h[p]))
  BY <1>0, <1>1, <1>7 DEF Inside, Recovering
<1>9. Solo(r)
  BY <1>0, <1>1, <1>2, <1>7, <1>8, OnePageFacts DEF Solo, Opening, Writing
<1>10. LeftOver' = LeftOver /\ h'[p] = r
  BY <1>3 DEF LeftOver, TInv, TypeOK
<1>11. Phase(p)'
  <2>1. Phase(p)
    BY DEF CInv
  <2>2. Logged(r) = Logged(h[p])
    BY <1>0, <1>7 DEF Logged
  <2> QED BY <1>0, <1>2, <1>3, <1>7, <1>8, <1>10, <2>1, <2>2 DEF Phase, At
<1>12. Inside(r) \/ Fits(Overlay(file', LeftOver'), allowed')
  BY <1>1, <1>3, <1>8, <1>10, HolderLeaves
<1> QED BY <1>1, <1>3, <1>9, <1>11, <1>12, HolderStep DEF CInv

LEMMA CrashEndRecoveryInv ==
    ASSUME TInv, TInv', CInv, NEW p \in Process, EndRecovery(p) PROVE CInv'
<1> DEFINE r == [h[p] EXCEPT !.pc = "header"]
<1>0. /\ h[p] \in Handle /\ Solo(h[p]) /\ h[p].pc = "apply" /\ h[p].fd = 0
      /\ h[p].left = NoPages /\ file \in Damaged /\ h[p].buf \in Damaged
  BY DEF TInv, TypeOK, CInv, EndRecovery, At, Handle
<1>1. Recovering(h[p]) /\ h[p].lock = "EX" /\ ~Inside(h[p])
  BY <1>0 DEF Recovering, Solo, Inside
<1>2. h' = [h EXCEPT ![p] = r] /\ wal' = 0 /\ UNCHANGED <<file, exists, data, allowed>>
  BY <1>0 DEF EndRecovery, Goto
<1>3. Fits(Overlay(file, h[p].buf), allowed)
  <2>1. Fits(Overlay(file, Overlay(h[p].buf, NoPages)), allowed)
    BY <1>0, <1>1 DEF CInv, Phase
  <2> QED BY <1>0, <2>1, DamagedFacts
<1>4. /\ r.pc = "header" /\ r.lock = "EX" /\ r.buf = h[p].buf /\ Solo(r)
      /\ ~Inside(r) /\ ~Recovering(r)
  BY <1>0, <1>1 DEF Handle, Solo, Inside, Recovering, Opening, Writing
<1> HIDE DEF r
<1>5. LeftOver' = NoPages /\ h'[p] = r
  BY <1>2 DEF LeftOver, TInv, TypeOK
<1>6. Phase(p)'
  BY <1>2, <1>3, <1>4, <1>5 DEF Phase, At
<1>7. Fits(Overlay(file', LeftOver'), allowed')
  BY <1>0, <1>2, <1>5, DamagedFacts DEF CInv
<1> QED BY <1>1, <1>2, <1>4, <1>6, <1>7, HolderStep DEF CInv

LEMMA CrashReadHeaderInv ==
    ASSUME OnePageCommits, TInv, TInv', CInv, NEW p \in Process, ReadHeader(p) PROVE CInv'
<1> DEFINE opened == [h[p] EXCEPT !.pc = "run", !.buf = NoPages]
<1>0. /\ h[p] \in Handle /\ Solo(h[p]) /\ h[p].pc = "header" /\ h[p].lock = "EX"
      /\ p \in Writers /\ h[p].cache = NoPages /\ file \in Damaged /\ h[p].buf \in Damaged
  <2>1. h[p].pc = "header"
    BY DEF ReadHeader, At
  <2> QED BY <2>1 DEF TInv, TypeOK, CInv, Solo, Opening, Handle, OnePageCommits, Process
<1>1. /\ LeftOver = NoPages /\ Fits(Overlay(file, h[p].buf), allowed)
      /\ h[p].dirty = NoPages /\ h[p].left = NoPages
  BY <1>0 DEF CInv, Phase, At, Solo, Inside, Opening
<1>2. /\ file' = Overlay(file, h[p].buf) /\ file' \in Damaged
      /\ Overlay(file', NoPages) = file'
      /\ UNCHANGED <<exists, wal, data>>
  BY <1>0, DamagedFacts DEF ReadHeader, Flushed
<1>3. Decided(file', allowed')
  <2> DEFINE fits == {m \in allowed : Agrees(file', m)}
  <2>1. Decided(file', fits)
    BY <1>1, <1>2 DEF Fits, Decided
  <2>2. Overlay(Flushed(p), h[p].cache) = file'
    BY <1>0, <1>2 DEF Flushed
  <2>3. allowed' = IF fits # {} THEN fits ELSE allowed
    BY <2>2 DEF ReadHeader
  <2> QED BY <2>1, <2>3 DEF Decided
<1>4. PICK r : /\ h' = [h EXCEPT ![p] = r]
               /\ \/ r = opened
                  \/ \E v \in Values : r = [opened EXCEPT !.dirty = [NoPages EXCEPT ![0] = v]]
  <2>1. file'[0] # Junk
    BY <1>2, PageAssumption, StruckFacts DEF Damaged, OnePageCommits
  <2>2. Overlay(Flushed(p), h[p].cache) = file'
    BY <1>0, <1>2 DEF Flushed
  <2> QED BY <1>0, <2>1, <2>2 DEF ReadHeader
<1>5. /\ r.pc = "run" /\ r.lock = "EX" /\ r.buf = NoPages /\ r.left = NoPages /\ r.cache = NoPages
      /\ OnePage(r.dirty)
  <2>1. \A v : OnePage([NoPages EXCEPT ![0] = v])
    BY DEF OnePage, NoPages
  <2>2. CASE r = opened
    BY <1>0, <1>1, <2>2, OnePageFacts DEF Handle
  <2>3. CASE \E v \in Values : r = [opened EXCEPT !.dirty = [NoPages EXCEPT ![0] = v]]
    <3>1. PICK v \in Values : r = [opened EXCEPT !.dirty = [NoPages EXCEPT ![0] = v]]
      BY <2>3
    <3>2. r.dirty = [NoPages EXCEPT ![0] = v]
      BY <1>0, <3>1 DEF Handle
    <3>3. /\ r.pc = "run" /\ r.lock = "EX" /\ r.buf = NoPages /\ r.left = NoPages
          /\ r.cache = NoPages
      BY <1>0, <1>1, <3>1 DEF Handle
    <3> QED BY <2>1, <3>2, <3>3
  <2> QED BY <1>4, <2>2, <2>3
<1> HIDE DEF opened
<1>6. Inside(r) /\ ~Recovering(r)
  BY <1>5 DEF Inside, Recovering, Opening
<1>7. Solo(r)
  BY <1>5, <1>6, OnePageFacts DEF Solo, Opening, Writing
<1>8. LeftOver' = NoPages /\ h'[p] = r
  BY <1>1, <1>2, <1>4 DEF LeftOver, TInv, TypeOK
<1>9. Phase(p)'
  BY <1>3, <1>5, <1>6, <1>8 DEF Phase, At
<1> QED BY <1>0, <1>2, <1>3, <1>4, <1>6, <1>7, <1>9, FitsFacts, HolderStep DEF CInv

-----------------------------------------------------------------------------
LEMMA CrashWriteInv ==
    ASSUME OnePageCommits, TInv, TInv', CInv, NEW p \in Process,
           NEW x \in Page, NEW v \in Values, Write(p, x, v)
    PROVE  CInv'
<1> DEFINE dirty == [h[p].dirty EXCEPT ![x] = v]
           r == [h[p] EXCEPT !.dirty = dirty]
<1>0. h[p] \in Handle /\ Solo(h[p]) /\ h[p].pc = "run" /\ h[p].lock = "EX"
  BY DEF TInv, TypeOK, CInv, Write, At, Solo
<1>1. h' = [h EXCEPT ![p] = r] /\ UNCHANGED <<file, exists, wal, data, allowed>>
  BY <1>0 DEF Write, TInv, TypeOK
<1>2. h'[p] = r /\ r \in Handle /\ r.dirty = dirty /\ dirty \in Image
  BY <1>0, <1>1 DEF TInv, TypeOK, Handle
<1>3. OnePage(dirty)
  <2>1. Cardinality({y \in Page : dirty[y] # None}) <= 1
    BY <1>2 DEF Write, OnePageCommits
  <2> HIDE DEF dirty
  <2> QED BY <1>2, <2>1, OneWritten
<1> HIDE DEF dirty
<1>4. r.pc = "run" /\ Solo(r) /\ Inside(r) /\ Inside(h[p])
  BY <1>0, <1>3 DEF Handle, Solo, Inside, Recovering, Opening, Writing
<1> HIDE DEF r
<1>5. LeftOver' = NoPages
  BY <1>0, <1>1, <1>4 DEF LeftOver, CInv, Phase, Logged
<1> QED BY <1>1, <1>4, <1>5, InsideStep DEF CInv

LEMMA CrashQueueInv ==
    ASSUME TInv, TInv', CInv, NEW p \in Process,
           Queue(p) \/ \E again \in BOOLEAN : CallCommit(p, again)
    PROVE  CInv'
<1> DEFINE a == [h[p] EXCEPT !.pc = "idle"]
           b(again) == [h[p] EXCEPT !.pc = "c_open", !.again = again]
<1>0. h[p] \in Handle /\ Solo(h[p]) /\ h[p].pc = "run" /\ h[p].lock = "EX"
  BY DEF TInv, TypeOK, CInv, Queue, CallCommit, At, Solo
<1>1. PICK r : /\ h' = [h EXCEPT ![p] = r]
               /\ r = a \/ \E again \in BOOLEAN : r = b(again)
  BY DEF Queue, CallCommit, Goto
<1>2. UNCHANGED <<file, exists, wal, data, allowed>>
  BY DEF Queue, CallCommit
<1>3. r.pc \in {"idle", "c_open"} /\ Solo(r) /\ Inside(r) /\ Inside(h[p])
  BY <1>0, <1>1 DEF Handle, Solo, Inside, Recovering, Opening, Writing
<1> HIDE DEF a, b
<1>4. LeftOver' = NoPages
  BY <1>0, <1>2, <1>3 DEF LeftOver, CInv, Phase, Logged
<1> QED BY <1>1, <1>2, <1>3, <1>4, InsideStep DEF CInv

(* A step of a commit with the WAL: the log it creates is empty, and holds *)
(* its own pages or none at any time.                                      *)
LEMMA CommitStep ==
    ASSUME TInv, TInv', CInv, NEW p \in Process, NEW r, h' = [h EXCEPT ![p] = r],
           h[p].pc \notin Opening, ~Recovering(h[p]), Solo(r), r.dirty \in Image,
           r.pc \notin Opening, ~Recovering(r), r.lock = h[p].lock, r.dirty = h[p].dirty,
           UNCHANGED <<file, exists, allowed>>,
           wal' \in {wal, 0} \/ data'[wal'] = NoPages,
           \A i \in Inode : data'[i] \in {data[i], NoPages, r.dirty},
           r.lock = "EX" /\ r.pc \notin {"apply", "c_close", "c_unlink"} => LeftOver' = NoPages
    PROVE  CInv'
<1>0. Solo(h[p]) /\ r.pc # "header" /\ r.pc # "r_lock"
  BY DEF CInv, Opening
<1>1. CASE r.lock = "EX"
  <2>1. Inside(h[p]) /\ Inside(r)
    BY <1>1 DEF Inside
  <2>2. \A i \in Inode : OnePage(data'[i])
    BY OnePageFacts DEF CInv, Solo
  <2>3. LeftOver \in {NoPages, Replayed(r.dirty)}
    BY <2>1 DEF CInv, Phase, Logged
  <2>4. LeftOver' \in {NoPages, LeftOver, Replayed(r.dirty)}
    <3>1. wal' \in Inode \cup {0} /\ wal \in Inode \cup {0}
      BY DEF TInv, TypeOK
    <3>2. CASE wal' = wal /\ wal # 0
      <4>1. data'[wal'] \in {data[wal], NoPages, r.dirty}
        BY <3>1, <3>2
      <4> QED BY <3>2, <4>1, OnePageFacts DEF LeftOver
    <3>3. CASE wal' # wal \/ wal = 0
      BY <3>3, OnePageFacts DEF LeftOver
    <3> QED BY <3>2, <3>3
  <2>5. LeftOver' \in {NoPages, Logged(r)}
    BY <1>1, <2>3, <2>4 DEF Logged
  <2> QED BY <1>0, <2>1, <2>2, <2>5, InsideStep
<1>2. CASE r.lock # "EX"
  <2>1. h[p].lock = "none"
    BY <1>0, <1>2 DEF Solo
  <2>2. ~Inside(h[p]) /\ ~Inside(r) /\ r.dirty = NoPages /\ Compatible(p, r)
    BY <1>0, <2>1, Unlocked DEF Compatible, CInv, Exclusive, Inside
  <2>3. LogShrinks
    BY <2>2 DEF LogShrinks
  <2>4. Phase(p)'
    BY <1>0, <2>2, NoPhase
  <2> QED BY <2>2, <2>3, <2>4, OtherStep
<1> QED BY <1>1, <1>2

LEMMA CrashLogInv ==
    ASSUME TInv, TInv', CInv, NEW p \in Process, CreateWal(p) \/ LockWal(p) \/ WriteWal(p)
    PROVE  CInv'
<1>0. h[p] \in Handle /\ Solo(h[p]) /\ h[p].pc \in {"c_open", "c_lock", "c_write"}
  BY DEF TInv, TypeOK, CInv, CreateWal, LockWal, WriteWal, At
<1>1. /\ h[p].pc \notin Opening /\ ~Recovering(h[p]) /\ h[p].dirty \in Image
      /\ h[p].left = NoPages /\ h[p].buf = NoPages /\ h[p].fd \in Inode \cup {0}
      /\ h[p].pc # "c_open" => h[p].fd # 0
      /\ h[p].dirty # NoPages => h[p].lock = "EX"
  BY <1>0 DEF Handle, Opening, Recovering, Solo, Writing, Inside
<1>2. h[p].lock = "EX" => LeftOver = NoPages
  BY <1>0, <1>1 DEF CInv, Phase, Inside, Logged
<1>3. CASE CreateWal(p)
  <2> DEFINE i == wal'
             r == [h[p] EXCEPT !.fd = i, !.pc = "c_lock"]
  <2>1. /\ h' = [h EXCEPT ![p] = r] /\ data' = [data EXCEPT ![i] = NoPages]
        /\ UNCHANGED <<file, exists, allowed>>
    <3>1. /\ h' = [h EXCEPT ![p].fd = i, ![p].pc = "c_lock"]
          /\ data' = [data EXCEPT ![i] = NoPages] /\ UNCHANGED <<file, exists, allowed>>
      BY <1>3 DEF CreateWal
    <3> QED BY <3>1
  <2>2. i \in Inode
    <3>1. CASE wal # 0
      BY <1>3, <3>1 DEF CreateWal, TInv, TypeOK
    <3>2. CASE wal = 0
      BY <1>3, <3>2, FreeInode DEF CreateWal
    <3> QED BY <3>1, <3>2
  <2>3. /\ data'[i] = NoPages /\ \A j \in Inode : data'[j] \in {data[j], NoPages}
        /\ LeftOver' = NoPages
    BY <2>1, <2>2, OnePageFacts DEF TInv, TypeOK, LeftOver
  <2>4. /\ r.pc = "c_lock" /\ r.dirty = h[p].dirty /\ r.lock = h[p].lock /\ Solo(r)
        /\ ~Recovering(r) /\ r.pc \notin Opening
    <3>1. 0 \notin Inode
      BY DEF Inode
    <3> HIDE DEF i
    <3> QED BY <1>0, <1>1, <2>2, <3>1 DEF Handle, Solo, Inside, Recovering, Opening, Writing
  <2> HIDE DEF r
  <2> QED BY <1>1, <2>1, <2>3, <2>4, CommitStep
<1>4. CASE LockWal(p)
  <2> DEFINE r == [h[p] EXCEPT !.pc = "c_write"]
  <2>1. h' = [h EXCEPT ![p] = r] /\ UNCHANGED <<file, exists, wal, data, allowed>>
    BY <1>4 DEF LockWal, Goto
  <2>2. h[p].pc = "c_lock" /\ LeftOver' = LeftOver
    BY <1>4, <2>1 DEF LockWal, At, LeftOver
  <2>3. /\ r.pc = "c_write" /\ r.dirty = h[p].dirty /\ r.lock = h[p].lock /\ Solo(r)
        /\ ~Recovering(r) /\ r.pc \notin Opening
    BY <1>0, <1>1, <2>2 DEF Handle, Solo, Inside, Recovering, Opening, Writing
  <2> HIDE DEF r
  <2> QED BY <1>1, <1>2, <2>1, <2>2, <2>3, CommitStep
<1>5. CASE WriteWal(p)
  <2> DEFINE c(s) == [h[p] EXCEPT !.size = s, !.left = h[p].dirty, !.pc = "apply"]
  <2>1. PICK s \in WalSizes :
           /\ h[p].pc = "c_write" /\ h' = [h EXCEPT ![p] = c(s)]
           /\ data' \in {data, [data EXCEPT ![h[p].fd] = h[p].dirty]}
           /\ UNCHANGED <<file, exists, wal, allowed>>
    BY <1>5 DEF WriteWal, At
  <2> DEFINE r == c(s)
  <2>2. /\ r.pc = "apply" /\ r.dirty = h[p].dirty /\ r.lock = h[p].lock
        /\ r.left = h[p].dirty /\ r.buf = NoPages /\ r.fd = h[p].fd /\ r.cache = h[p].cache
    BY <1>0, <1>1 DEF Handle
  <2> HIDE DEF r, c
  <2>3. Solo(r) /\ ~Recovering(r) /\ r.pc \notin Opening
    <3>1. Overlay(r.buf, r.left) = r.dirty
      BY <1>1, <2>2, OverlayFacts
    <3>2. ~Recovering(r) /\ r.pc \notin Opening
      BY <1>1, <2>1, <2>2 DEF Recovering, Opening
    <3> QED BY <1>0, <1>1, <2>1, <2>2, <3>1, <3>2 DEF Solo, Inside, Opening, Writing
  <2>4. \A j \in Inode : data'[j] \in {data[j], r.dirty}
    BY <2>1, <2>2 DEF TInv, TypeOK
  <2>5. h' = [h EXCEPT ![p] = r]
    BY <2>1 DEF r
  <2> QED BY <1>1, <2>1, <2>2, <2>3, <2>4, <2>5, CommitStep
<1> QED BY <1>3, <1>4, <1>5

LEMMA CrashUnlogInv ==
    ASSUME TInv, TInv', CInv, NEW p \in Process, TruncateWal(p) \/ CloseWal(p) \/ UnlinkWal(p)
    PROVE  CInv'
<1> DEFINE a == [h[p] EXCEPT !.pc = "c_close"]
           b == [h[p] EXCEPT !.fd = 0, !.pc = "c_unlink"]
           c == [h[p] EXCEPT !.pc = "c_flush"]
<1>0. /\ h[p] \in Handle /\ Solo(h[p]) /\ h[p].left = NoPages
      /\ \/ h[p].pc = "apply" /\ h[p].fd # 0
         \/ h[p].pc \in {"c_close", "c_unlink"}
  BY DEF TInv, TypeOK, CInv, TruncateWal, CloseWal, UnlinkWal, At, Solo
<1>1. /\ h[p].pc \notin Opening /\ ~Recovering(h[p]) /\ h[p].dirty \in Image
      /\ Overlay(h[p].buf, NoPages) = h[p].dirty
      /\ h[p].dirty # NoPages => h[p].lock = "EX"
  BY <1>0 DEF Handle, Opening, Recovering, Solo, Writing, Inside
<1>2. PICK r : /\ h' = [h EXCEPT ![p] = r]
               /\ \/ r \in {a, b}
                  \/ r = c /\ wal' = 0
  <2>1. CASE TruncateWal(p)
    BY <2>1 DEF TruncateWal, Goto
  <2>2. CASE CloseWal(p)
    BY <2>2 DEF CloseWal
  <2>3. CASE UnlinkWal(p)
    BY <2>3 DEF UnlinkWal, Goto
  <2> QED BY <2>1, <2>2, <2>3
<1>3. /\ wal' \in {wal, 0} /\ UNCHANGED <<file, exists, allowed>>
      /\ \A i \in Inode : data'[i] \in {data[i], NoPages, h[p].dirty}
  BY DEF TruncateWal, CloseWal, UnlinkWal, TInv, TypeOK
<1>4. /\ \/ r.pc \in {"c_close", "c_unlink"}
         \/ r.pc = "c_flush" /\ wal' = 0
      /\ r.dirty = h[p].dirty /\ r.lock = h[p].lock /\ r.left = NoPages
      /\ r.buf = h[p].buf /\ r.cache = h[p].cache
  BY <1>0, <1>2 DEF Handle
<1> HIDE DEF a, b, c
<1>5. ~Recovering(r) /\ r.pc \notin Opening
  BY <1>4 DEF Recovering, Opening
<1>6. Solo(r)
  BY <1>0, <1>1, <1>4, <1>5 DEF Solo, Inside, Opening, Writing
<1>7. r.lock = "EX" /\ r.pc \notin {"apply", "c_close", "c_unlink"} => LeftOver' = NoPages
  BY <1>4 DEF LeftOver
<1> QED BY <1>1, <1>2, <1>3, <1>4, <1>5, <1>6, <1>7, CommitStep

-----------------------------------------------------------------------------
LEMMA CrashEndCommitInv ==
    ASSUME TInv, TInv', CInv, NEW p \in Process, EndCommit(p) PROVE CInv'
<1>0. /\ h[p] \in Handle /\ Solo(h[p]) /\ h[p].pc = "c_flush" /\ file \in Damaged
      /\ h[p].dirty \in Image /\ h[p].buf \in Damaged
  BY DEF TInv, TypeOK, CInv, EndCommit, At, Handle
<1>1. h[p].left = NoPages /\ h[p].buf = h[p].dirty
  <2>1. h[p].left = NoPages
    BY <1>0 DEF Solo
  <2>2. Overlay(h[p].buf, NoPages) = h[p].dirty
    BY <1>0, <2>1 DEF Solo, Recovering, Writing
  <2> QED BY <1>0, <2>1, <2>2, DamagedFacts
<1>2. /\ file' = Overlay(file, h[p].dirty) /\ file' \in Damaged
      /\ UNCHANGED <<exists, wal, data>> /\ LeftOver' = LeftOver
  BY <1>0, <1>1, DamagedFacts DEF EndCommit, Flushed, LeftOver
<1>3. allowed' = IF h[p].dirty = NoPages THEN allowed
                 ELSE {Overlay(m, h[p].dirty) : m \in allowed}
  BY DEF EndCommit
<1>4. PICK l \in {"idle", "c_open"} : h' = [h EXCEPT ![p] = [Closed EXCEPT !.pc = l]]
  BY DEF EndCommit
<1> DEFINE r == [Closed EXCEPT !.pc = l]
<1>5. Solo(r) /\ r.pc = l /\ r.lock = "none" /\ ~Recovering(r) /\ h' = [h EXCEPT ![p] = r]
  BY <1>4, ClosedSolo
<1> HIDE DEF r
<1>6. r.pc \notin Opening \cup {"header", "r_lock"} /\ ~Inside(r)
  BY <1>5 DEF Opening, Inside
<1>7. Phase(p)'
  BY <1>5, <1>6, NoPhase
<1>8. CASE h[p].lock = "EX"
  <2>1. Inside(h[p])
    BY <1>0, <1>8 DEF Inside, Opening, Recovering
  <2>2. Decided(file, allowed) /\ LeftOver = NoPages
    BY <1>0, <2>1 DEF CInv, Phase, Logged
  <2>3. Decided(file', allowed')
    <3>1. CASE h[p].dirty = NoPages
      BY <1>0, <1>2, <1>3, <2>2, <3>1, DamagedFacts
    <3>2. CASE h[p].dirty # NoPages
      BY <1>2, <1>3, <2>2, <3>2, AgreeFacts DEF Decided
    <3> QED BY <3>1, <3>2
  <2>4. Fits(file', allowed') /\ Fits(Overlay(file', LeftOver'), allowed')
    BY <1>2, <2>2, <2>3, FitsFacts, DamagedFacts
  <2> QED BY <1>2, <1>5, <1>7, <1>8, <2>4, HolderStep DEF CInv
<1>9. CASE h[p].lock # "EX"
  <2>1. h[p].dirty = NoPages
    BY <1>0, <1>9, Unlocked DEF Solo
  <2>2. file' = file /\ allowed' = allowed
    BY <1>0, <1>2, <1>3, <2>1, DamagedFacts
  <2> QED BY <1>2, <1>5, <1>6, <1>9, <2>2, Released
<1> QED BY <1>8, <1>9

LEMMA CrashInv == ASSUME TInv, TInv', CInv, NEW p \in Process, Crash(p) PROVE CInv'
<1>0. /\ Solo(h[p]) /\ file \in Damaged /\ allowed \in SUBSET Image /\ Fits(file, allowed)
  BY DEF TInv, TypeOK, CInv
<1>1. h' = [h EXCEPT ![p] = Closed] /\ UNCHANGED <<file, exists, wal, data>>
  BY DEF Crash
<1>2. \/ allowed' = allowed
      \/ allowed' = allowed \cup {Overlay(m, h[p].dirty) : m \in allowed}
  BY DEF Crash
<1>3. /\ allowed \subseteq allowed' /\ Fits(file, allowed')
      /\ h[p].pc \in {"apply", "c_close", "c_unlink"} =>
            Fits(Overlay(file, h[p].dirty), allowed')
  <2>1. Fits(file, allowed')
    BY <1>0, <1>2, FitsFacts
  <2>2. ASSUME h[p].pc \in {"apply", "c_close", "c_unlink"}
        PROVE  Fits(Overlay(file, h[p].dirty), allowed')
    <3> DEFINE done == {Overlay(m, h[p].dirty) : m \in allowed}
    <3>1. allowed' = allowed \cup done
      BY <2>2 DEF Crash
    <3>2. Fits(Overlay(file, h[p].dirty), done)
      BY <1>0, AgreeFacts DEF Fits
    <3> HIDE DEF done
    <3> QED BY <3>1, <3>2, FitsFacts
  <2> QED BY <1>2, <2>1, <2>2
<1>4. h[p].lock = "EX" => Fits(file, allowed') /\ Fits(Overlay(file, LeftOver), allowed')
  <2> SUFFICES ASSUME h[p].lock = "EX"
               PROVE  Fits(file, allowed') /\ Fits(Overlay(file, LeftOver), allowed')
    OBVIOUS
  <2>1. Overlay(file, NoPages) = file
    BY <1>0, DamagedFacts
  <2>2. Replayed(h[p].dirty) \in {NoPages, h[p].dirty}
    BY OnePageFacts
  <2>3. \/ Fits(Overlay(file, LeftOver), allowed)
        \/ LeftOver = NoPages
        \/ LeftOver = Replayed(h[p].dirty) /\ h[p].pc \in {"apply", "c_close", "c_unlink"}
    BY HolderLeaves
  <2> QED BY <1>3, <2>1, <2>2, <2>3, FitsFacts
<1>5. h[p].lock # "EX" => allowed' = allowed
  <2> SUFFICES ASSUME h[p].lock # "EX" PROVE allowed' = allowed
    OBVIOUS
  <2>1. h[p].dirty = NoPages
    BY <1>0, Unlocked DEF Solo
  <2>2. \A m \in allowed : Overlay(m, NoPages) = m
    BY <1>0, OverlayFacts
  <2> QED BY <1>2, <2>1, <2>2
<1>6. Solo(Closed) /\ Closed.lock = "none" /\ Closed.pc \notin Opening /\ ~Recovering(Closed)
  BY ClosedSolo DEF Opening, Recovering
<1> QED BY <1>1, <1>4, <1>5, <1>6, Released

LEMMA CrashNextInv ==
    ASSUME OnePageCommits, TInv, CInv, [NextOrCrash]_vars PROVE CInv'
<1>0. TInv'
  BY NextTyped
<1>1. CASE UNCHANGED vars
  BY <1>1 DEF vars, CInv, Exclusive, Phase, LeftOver, At
<1>2. CASE NextOrCrash
  <2>1. CASE \E p \in Process : Crash(p)
    BY <1>0, <2>1, CrashInv
  <2>2. ASSUME NEW p \in Process, Start(p) \/ Flock(p) PROVE CInv'
    BY <1>0, <2>2, CrashStartInv, CrashFlockInv
  <2>3. ASSUME NEW p \in Process, \E x \in Page, v \in Values : Write(p, x, v) PROVE CInv'
    BY <1>0, <2>3, CrashWriteInv
  <2>4. ASSUME NEW p \in Process, Command(p) PROVE CInv'
    BY <1>0, <2>4, CrashStartInv, CrashQueueInv DEF Command
  <2>5. ASSUME NEW p \in Process, Step(p) PROVE CInv'
    BY <1>0, <2>5, CrashFopenInv, CrashAccessInv, CrashReadWalInv, CrashApplyInv,
       CrashEndRecoveryInv, CrashReadHeaderInv, CrashLogInv, CrashUnlogInv, CrashEndCommitInv
       DEF Step
  <2> QED BY <1>2, <2>1, <2>2, <2>3, <2>4, <2>5 DEF NextOrCrash, Next
<1> QED BY <1>1, <1>2

(* Where every transaction writes one page at most and no process only     *)
(* reads, a transaction finds the pages of the last commit whenever and    *)
(* wherever processes die, in a commit or in a recovery: of a commit that  *)
(* was cut short, all or nothing, in all pages but those of Struck, which  *)
(* rl_apply_wal_data may strike as long as page_size is HEADER_SIZE.       *)
THEOREM CrashDamageConfined == OnePageCommits => (CrashSpec => []DamageConfined)
<1> SUFFICES ASSUME OnePageCommits PROVE CrashSpec => []DamageConfined
  OBVIOUS
<1>1. Init => TInv /\ CInv
  <2> SUFFICES ASSUME Init PROVE TInv /\ CInv
    OBVIOUS
  <2>1. file \in Image /\ file \in Damaged /\ exists = TRUE
    BY ImageDamaged DEF Init, OnePageCommits, Image
  <2>2. TInv
    BY <2>1, StartTyped
  <2>3. \A p \in Process : h[p] = Closed /\ ~Inside(h[p]) /\ Solo(h[p]) /\ Phase(p)
    BY ClosedSolo DEF Init, Inside, Phase, At, Recovering
  <2>4. Fits(file, allowed) /\ Fits(Overlay(file, LeftOver), allowed)
    <3>1. Fits(file, allowed)
      BY FitsFacts DEF Init, Fits
    <3> QED BY <2>1, <3>1, DamagedFacts DEF Init, LeftOver
  <2>5. Exclusive /\ \A i \in Inode : OnePage(data[i])
    BY <2>3, ClosedSolo, OnePageFacts DEF Init, Exclusive
  <2> QED BY <2>1, <2>2, <2>3, <2>4, <2>5 DEF CInv
<1>2. TInv /\ CInv /\ [NextOrCrash]_vars => (TInv /\ CInv)'
  BY NextTyped, CrashNextInv
<1>3. TInv /\ CInv => DamageConfined
  <2> SUFFICES ASSUME TInv, CInv, NEW p \in Writers, At(p, "run")
               PROVE  \E m \in allowed : Agrees(View(p), m)
    BY DEF DamageConfined
  <2>1. file \in Damaged /\ h[p].cache = NoPages /\ Fits(file, allowed)
    BY DEF TInv, TypeOK, CInv, Solo, Process
  <2> QED BY <2>1, DamagedFacts DEF View, Fits
<1> QED BY <1>1, <1>2, <1>3, PTL DEF CrashSpec
=============================================================================
