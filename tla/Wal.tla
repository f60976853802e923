-------------------------------- MODULE Wal --------------------------------
(***************************************************************************)
(* Processes that share a database file: opening it (rlite.c), the file    *)
(* locks (flock_posix.c), the commit through the write-ahead log and the   *)
(* recovery from one (wal.c), as the library's commands drive them         *)
(* (hirlite.c).  One step is one system call, or a run of calls between    *)
(* which no other process can tell the difference.                         *)
(*                                                                         *)
(* Two layers of buffering decide what a crash loses, and are modelled as  *)
(* the C library has them:                                                 *)
(*   - the database's stream holds the page written last (buf) until the   *)
(*     next fseek or fflush;                                               *)
(*   - the WAL's stream is never flushed before it is closed, and a WAL    *)
(*     longer than the buffer goes out in whole blocks only.  So, by the   *)
(*     WAL's size: a "small" one (it fits the buffer) is not in the file   *)
(*     at all until fclose, a "large" one is there but for its tail, and   *)
(*     an "exact" one (a multiple of the buffer) is complete at once.      *)
(*                                                                         *)
(* A crash is the death of a process: its buffers and locks go, what it    *)
(* has handed to the system stays.                                         *)
(***************************************************************************)
EXTENDS Naturals, FiniteSets

CONSTANTS
    Writers,      \* processes with a RLITE_OPEN_READWRITE | CREATE handle
    Readers,      \* processes with a RLITE_OPEN_READONLY handle
    Page,         \* the numbers of the pages; page 0 is the header
    Values,       \* what a page can hold
    None,         \* no page: beyond the end of the file, not written
    Junk,         \* a page that was written or read as something else
    WalSizes,     \* the sizes a WAL can have, a subset of the three above
    MaxDirty,     \* bound on the pages one transaction writes
    FileAtStart   \* TRUE if the database file exists at first

ASSUME WalSizesAssumption == WalSizes \subseteq {"small", "large", "exact"}
ASSUME MaxDirtyAssumption == MaxDirty \in Nat \ {0}
ASSUME FileAtStartAssumption == FileAtStart \in BOOLEAN
ASSUME PageAssumption == Page \subseteq Nat /\ IsFiniteSet(Page) /\ 0 \in Page
ASSUME ValuesAssumption == None \notin Values /\ Junk \notin Values \cup {None}

Process == Writers \cup Readers
ASSUME ProcessAssumption == IsFiniteSet(Process)
Inode == 1 .. Cardinality(Process) + 1    \* of WAL files; 0 is no file

NoPages == [x \in Page |-> None]
Image == [Page -> Values \cup {None}]
Overlay(under, top) == [x \in Page |-> IF top[x] = None THEN under[x] ELSE top[x]]

(* The bytes of a header, all that is used of page 0, and of a page *)
HeaderSize == 200
PageSize == 1024

(* The pages that a piece of HeaderSize bytes strikes when it is written   *)
(* at x * HeaderSize: it falls before page x, for the first pages in the   *)
(* unused end of page 0 and from page 5 on in pages that are in use.       *)
Misplaced(x) ==
    {y \in Page \ {0} : /\ y * PageSize < (x + 1) * HeaderSize
                        /\ x * HeaderSize < (y + 1) * PageSize}
Damage(pages) == [x \in Page |-> IF x \in pages THEN Junk ELSE None]

(* The pages that recoveries may strike: all, if a WAL may hold several    *)
(* pages without a header.                                                 *)
Struck == IF MaxDirty = 1 THEN UNION {Misplaced(x) : x \in Page} ELSE Page

(* An image agrees with another where it has not been struck. *)
Agrees(f, m) == \A x \in Page : f[x] = m[x] \/ (f[x] = Junk /\ x \in Struck)

(* The lowest page of an image that is not empty *)
First(f) == CHOOSE x \in Page : /\ f[x] # None
                                /\ \A y \in Page : f[y] # None => x <= y

VARIABLES
    file,      \* the database file's pages
    exists,    \* whether it is there
    wal,       \* the inode the WAL's path names, or 0
    data,      \* what the WAL in an inode holds; NoPages if it is not valid
    h,         \* each process's handle
    allowed    \* history: the images a transaction may find in the file
vars == <<file, exists, wal, data, h, allowed>>

(* A handle: pc; the fopen mode decided; the lock held on the file; the    *)
(* WAL's descriptor; write_pages; the pages of a WAL still to be applied;  *)
(* the page in the stream's buffer; the pages of a WAL a read-only handle  *)
(* has put in its read cache; the WAL's size; whether a second rl_commit   *)
(* follows (EXEC commits, and rliteAppendCommandClient commits again).     *)
Closed ==
    [pc |-> "idle", mode |-> "r+", lock |-> "none", fd |-> 0,
     dirty |-> NoPages, left |-> NoPages, buf |-> NoPages, cache |-> NoPages,
     size |-> "small", again |-> FALSE]

Init ==
    /\ exists = FileAtStart
    /\ file \in IF FileAtStart THEN [Page -> Values] ELSE {NoPages}
    /\ wal = 0
    /\ data = [i \in Inode |-> NoPages]
    /\ h = [p \in Process |-> Closed]
    /\ allowed = {file}

-----------------------------------------------------------------------------
At(p, l) == h[p].pc = l
Goto(p, l) == h' = [h EXCEPT ![p].pc = l]

(* Mutants of the locks: a shared lock granted beside an exclusive one, and *)
(* a lock taken by opening the file.                                       *)
GrantsToReaders(p, type) ==
    type = "EX" => \A q \in Process \ {p} : h[q].lock = "none"
WalLockedOnceOpen(i) == \E q \in Process : h[q].fd = i

(* flock, by another process, on the database and on a WAL's inode. *)
Grants(p, type) ==
    \A q \in Process \ {p} :
       h[q].lock # "EX" /\ (type = "EX" => h[q].lock = "none")
WalLocked(i) ==
    \E q \in Process :
       h[q].fd = i /\ h[q].pc \in {"c_write", "apply", "c_close"}

(* fseek, fflush: the buffered page reaches the file. *)
Flushed(p) == Overlay(file, h[p].buf)

(* What a handle reads: its write cache apart, a page that came from the   *)
(* WAL or the one in the file.                                             *)
View(p) == Overlay(file, h[p].cache)

-----------------------------------------------------------------------------
(* rl_refresh or rl_open: rl_discard closes an open handle, which unlocks; *)
(* then file_driver_fp asks whether the file exists.                       *)
Start(p) ==
    /\ At(p, "idle")
    /\ p \in Writers \/ exists
    /\ h' = [h EXCEPT ![p] = [Closed EXCEPT !.pc = "fopen",
                                            !.mode = IF exists THEN "r+" ELSE "w+"]]
    /\ UNCHANGED <<file, exists, wal, data, allowed>>

(* fopen: mode "w+" truncates the file, and no lock is held yet. *)
Fopen(p) ==
    /\ At(p, "fopen")
    /\ exists' = TRUE
    /\ file' = IF h[p].mode = "w+" THEN NoPages ELSE file
    /\ Goto(p, "flock")
    /\ UNCHANGED <<wal, data, allowed>>

Flock(p) ==
    LET type == IF p \in Writers THEN "EX" ELSE "SH"
    IN /\ At(p, "flock") /\ Grants(p, type)
       /\ h' = [h EXCEPT ![p].lock = type, ![p].pc = "access"]
       /\ UNCHANGED <<file, exists, wal, data, allowed>>

(* rl_apply_wal: is there a WAL?  fopen may find it gone again: then there *)
(* is nothing to apply, and nothing to delete.                             *)
AccessWal(p) ==
    /\ At(p, "access")
    /\ Goto(p, IF wal = 0 THEN "header" ELSE "r_open")
    /\ UNCHANGED <<file, exists, wal, data, allowed>>

OpenWal(p) ==
    /\ At(p, "r_open")
    /\ h' = [h EXCEPT ![p].fd = wal, ![p].pc = IF wal = 0 THEN "header" ELSE "r_lock"]
    /\ UNCHANGED <<file, exists, wal, data, allowed>>

(* rl_read_wal, and rl_apply_wal_data's checks: an invalid WAL applies no  *)
(* page.                                                                   *)
Applicable(w) == w = NoPages \/ w[0] # None

(* page_size is still HEADER_SIZE until page 0 has been read from the WAL. *)
(* Of a WAL that begins with another page x, a writer puts 200 bytes of it *)
(* at x * 200 in the file's stream, and a reader caches a page x of 200    *)
(* bytes.  The number of the next page is then read from the middle of     *)
(* this one: what follows may strike any pages.                            *)
Strays(w) ==
    IF Applicable(w) \/ \A x \in Page : w[x] # None => x = First(w) THEN {{}} ELSE SUBSET Page

(* Mutant: the page is put in its place, but 200 bytes of it only. *)
ReadWalShort(p) ==
    LET w == data[h[p].fd]
    IN /\ At(p, "r_lock") /\ ~WalLocked(h[p].fd)
       /\ IF Applicable(w)
            THEN h' = [h EXCEPT ![p].fd = 0, ![p].pc = "apply", ![p].left = w]
            ELSE \E s \in Strays(w) :
                    h' = [h EXCEPT ![p].fd = 0, ![p].pc = "apply",
                                   ![p].buf = Damage({First(w)}), ![p].left = Damage(s)]
       /\ UNCHANGED <<file, exists, wal, data, allowed>>

ReadWal(p) ==
    LET w == data[h[p].fd]
    IN /\ At(p, "r_lock") /\ ~WalLocked(h[p].fd)
       /\ \E s \in Strays(w) :
            h' = IF p \in Writers
                   THEN [h EXCEPT ![p].fd = 0, ![p].pc = "apply",
                            ![p].buf = IF Applicable(w) THEN NoPages
                                       ELSE Damage(Misplaced(First(w))),
                            ![p].left = IF Applicable(w) THEN w ELSE Damage(s)]
                   ELSE [h EXCEPT ![p].fd = 0, ![p].pc = "header",
                            ![p].cache = IF Applicable(w) THEN w
                                         ELSE Damage({First(w)} \cup s)]
       /\ UNCHANGED <<file, exists, wal, data, allowed>>

(* The loop of rl_apply_wal_data, in recovery and in a commit: the fseek   *)
(* pushes the page before out of the buffer, the fwrite fills it again.    *)
ApplyPage(p) ==
    LET x == First(h[p].left)
    IN /\ At(p, "apply") /\ h[p].left # NoPages
       /\ file' = Flushed(p)
       /\ h' = [h EXCEPT ![p].buf = [NoPages EXCEPT ![x] = h[p].left[x]],
                         ![p].left[x] = None]
       /\ UNCHANGED <<exists, wal, data, allowed>>

(* The end of a recovery: the WAL is deleted, whatever it was. *)
EndRecovery(p) ==
    /\ At(p, "apply") /\ h[p].left = NoPages /\ h[p].fd = 0
    /\ wal' = 0
    /\ Goto(p, "header")
    /\ UNCHANGED <<file, exists, data, allowed>>

(* rl_read_header: the fseek flushes; a writer gives a file without header *)
(* a new one, a reader gives up, and so does who finds junk there: rl_open *)
(* closes, rl_refresh fails and the handle keeps its lock.  From here on   *)
(* the transaction has seen the image it works on: a commit in doubt is    *)
(* decided.                                                                *)
ReadHeader(p) ==
    LET found == Overlay(Flushed(p), h[p].cache)
        fits == {m \in allowed : Agrees(found, m)}
        opened == [h[p] EXCEPT !.pc = "run", !.buf = NoPages]
    IN /\ At(p, "header")
       /\ file' = Flushed(p)
       /\ allowed' = IF fits # {} THEN fits ELSE allowed
       /\ \/ /\ found[0] \in Values
             /\ h' = [h EXCEPT ![p] = opened]
          \/ /\ found[0] = None /\ p \in Writers
             /\ \E v \in Values :
                   h' = [h EXCEPT ![p] = [opened EXCEPT !.dirty = [NoPages EXCEPT ![0] = v]]]
          \/ /\ found[0] = Junk \/ (found[0] = None /\ p \notin Writers)
             /\ h' \in {[h EXCEPT ![p] = Closed],
                        [h EXCEPT ![p] = [opened EXCEPT !.pc = "idle"]]}
       /\ UNCHANGED <<exists, wal, data>>

-----------------------------------------------------------------------------
(* A command's rl_write. *)
Write(p, x, v) ==
    /\ At(p, "run") /\ p \in Writers
    /\ h' = [h EXCEPT ![p].dirty[x] = v]
    /\ Cardinality({y \in Page : h'[p].dirty[y] # None}) <= MaxDirty
    /\ UNCHANGED <<file, exists, wal, data, allowed>>

(* rl_close, or rl_discard. *)
Close(p) ==
    /\ h[p].pc \in {"run", "idle"} /\ h[p].lock # "none"
    /\ h' = [h EXCEPT ![p] = Closed]
    /\ UNCHANGED <<file, exists, wal, data, allowed>>

(* A command queued by MULTI: refreshed, and returned without a commit or  *)
(* a discard.                                                              *)
Queue(p) ==
    /\ At(p, "run") /\ p \in Writers
    /\ \A x \in Page \ {0} : h[p].dirty[x] = None
    /\ Goto(p, "idle")
    /\ UNCHANGED <<file, exists, wal, data, allowed>>

(* The end of a command (or of EXEC: again) and the start of               *)
(* rl_write_apply_wal; fopen with mode "wb" truncates a WAL that is there. *)
CallCommit(p, again) ==
    /\ At(p, "run") /\ p \in Writers
    /\ h' = [h EXCEPT ![p].pc = "c_open", ![p].again = again]
    /\ UNCHANGED <<file, exists, wal, data, allowed>>

CreateWal(p) ==
    LET free == {i \in Inode : i # wal /\ \A q \in Process : h[q].fd # i}
        i == IF wal # 0 THEN wal ELSE CHOOSE j \in free : TRUE
    IN /\ At(p, "c_open")
       /\ wal' = i
       /\ data' = [data EXCEPT ![i] = NoPages]
       /\ h' = [h EXCEPT ![p].fd = i, ![p].pc = "c_lock"]
       /\ UNCHANGED <<file, exists, allowed>>

LockWal(p) ==
    /\ At(p, "c_lock") /\ ~WalLocked(h[p].fd)
    /\ Goto(p, "c_write")
    /\ UNCHANGED <<file, exists, wal, data, allowed>>

(* rl_write_wal_file: what of the WAL is in its file depends on its size. *)
WriteWal(p) ==
    \E s \in WalSizes :
       /\ At(p, "c_write")
       /\ data' = IF s = "exact" THEN [data EXCEPT ![h[p].fd] = h[p].dirty] ELSE data
       /\ h' = [h EXCEPT ![p].size = s, ![p].left = h[p].dirty, ![p].pc = "apply"]
       /\ UNCHANGED <<file, exists, wal, allowed>>

TruncateWal(p) ==
    /\ At(p, "apply") /\ h[p].left = NoPages /\ h[p].fd # 0
    /\ data' = [data EXCEPT ![h[p].fd] = NoPages]
    /\ Goto(p, "c_close")
    /\ UNCHANGED <<file, exists, wal, allowed>>

(* fclose writes out what the stream still buffers: all of a small WAL. *)
CloseWal(p) ==
    /\ At(p, "c_close")
    /\ data' = IF h[p].size = "small" THEN [data EXCEPT ![h[p].fd] = h[p].dirty] ELSE data
    /\ h' = [h EXCEPT ![p].fd = 0, ![p].pc = "c_unlink"]
    /\ UNCHANGED <<file, exists, wal, allowed>>

(* Mutant: the WAL is left behind. *)
LeaveWal(p) ==
    /\ At(p, "c_unlink")
    /\ Goto(p, "c_flush")
    /\ UNCHANGED <<file, exists, wal, data, allowed>>

UnlinkWal(p) ==
    /\ At(p, "c_unlink")
    /\ wal' = 0
    /\ Goto(p, "c_flush")
    /\ UNCHANGED <<file, exists, data, allowed>>

(* Mutants: the database is not flushed; rl_discard leaves the dirty pages *)
(* to the second commit.                                                   *)
EndCommitUnflushed(p) ==
    /\ At(p, "c_flush")
    /\ allowed' = {Overlay(m, h[p].dirty) : m \in allowed}
    /\ h' = [h EXCEPT ![p] = [Closed EXCEPT !.pc = IF h[p].again THEN "c_open" ELSE "idle"]]
    /\ UNCHANGED <<file, exists, wal, data>>
EndCommitDirty(p) ==
    /\ At(p, "c_flush")
    /\ file' = Flushed(p)
    /\ allowed' = {Overlay(m, h[p].dirty) : m \in allowed}
    /\ h' = [h EXCEPT ![p] = [Closed EXCEPT !.pc = IF h[p].again THEN "c_open" ELSE "idle",
                                            !.dirty = h[p].dirty]]
    /\ UNCHANGED <<exists, wal, data>>

(* fflush of the database (if anything was written), then rl_discard.      *)
(* After EXEC the second rl_commit follows, on a handle that holds no lock. *)
EndCommit(p) ==
    /\ At(p, "c_flush")
    /\ file' = Flushed(p)
    /\ allowed' = IF h[p].dirty = NoPages THEN allowed
                  ELSE {Overlay(m, h[p].dirty) : m \in allowed}
    /\ h' = [h EXCEPT ![p] = [Closed EXCEPT !.pc = IF h[p].again THEN "c_open" ELSE "idle"]]
    /\ UNCHANGED <<exists, wal, data>>

-----------------------------------------------------------------------------
(* The process dies.  If it was committing, the next transaction may find  *)
(* the commit done or not done.                                            *)
Crash(p) ==
    /\ h[p] # Closed
    /\ h' = [h EXCEPT ![p] = Closed]
    /\ allowed' = IF h[p].pc \in {"c_write", "apply", "c_close", "c_unlink", "c_flush"}
                    THEN allowed \cup {Overlay(m, h[p].dirty) : m \in allowed}
                    ELSE allowed
    /\ UNCHANGED <<file, exists, wal, data>>

Step(p) ==
    \/ Fopen(p) \/ AccessWal(p) \/ OpenWal(p) \/ ReadWal(p)
    \/ ApplyPage(p) \/ EndRecovery(p) \/ ReadHeader(p)
    \/ CreateWal(p) \/ LockWal(p) \/ WriteWal(p) \/ TruncateWal(p)
    \/ CloseWal(p) \/ UnlinkWal(p) \/ EndCommit(p)

Command(p) ==
    \/ Close(p) \/ Queue(p)
    \/ \E again \in BOOLEAN : CallCommit(p, again)

Next ==
    \E p \in Process :
       \/ Start(p)
       \/ Flock(p)
       \/ Step(p)
       \/ \E x \in Page, v \in Values : Write(p, x, v)
       \/ Command(p)

NextOrCrash == Next \/ \E p \in Process : Crash(p)

Spec == Init /\ [][Next]_vars
CrashSpec == Init /\ [][NextOrCrash]_vars

-----------------------------------------------------------------------------
Damaged ==
    {f \in [Page -> Values \cup {None, Junk}] : \A x \in Page \ Struck : f[x] # Junk}
Handle ==
    [pc    : {"idle", "fopen", "flock", "access", "r_open", "r_lock", "apply",
              "header", "run", "c_open", "c_lock", "c_write", "c_close",
              "c_unlink", "c_flush"},
     mode  : {"r+", "w+"}, lock : {"none", "SH", "EX"}, fd : Inode \cup {0},
     dirty : Image, left : Damaged, buf : Damaged,
     cache : [Page -> Values \cup {None, Junk}],
     size  : {"small", "large", "exact"}, again : BOOLEAN]

(* Every variable keeps its type: no junk gets into a WAL, nor into a page *)
(* of the file that no misplaced piece of another page can strike, and     *)
(* there is always an inode for the WAL that a commit creates.             *)
TypeOK ==
    /\ file \in Damaged
    /\ exists \in BOOLEAN
    /\ wal \in Inode \cup {0}
    /\ data \in [Inode -> Image]
    /\ h \in [Process -> Handle]
    /\ allowed \in SUBSET Image

(* A transaction under way finds in the file the pages of the last commit, *)
(* all of them and nothing else, until its own commit is written: whatever *)
(* other processes have opened, created, committed, recovered or left      *)
(* behind when they died.                                                  *)
WritersFindCommitted ==
    \A p \in Writers : At(p, "run") => View(p) \in allowed

(* Where transactions write one page (MaxDirty = 1), the damage that a      *)
(* recovery does is confined to the pages before the logged one: whatever  *)
(* processes die in a commit or a recovery, a writer finds every other     *)
(* page as the last commit left it, and one and the same commit in all.    *)
DamageConfined ==
    \A p \in Writers : At(p, "run") => \E m \in allowed : Agrees(View(p), m)

(* A read-only handle, which recovers from a WAL in memory, finds the last *)
(* commit too.                                                             *)
ReadersFindCommitted ==
    \A p \in Readers : At(p, "run") => View(p) \in allowed

(* While no process dies, a WAL that a recovery would replay is the log of *)
(* the transaction being committed, by a process that holds the file's     *)
(* lock: no recovery ever replays an old transaction over a newer one.     *)
NoStaleWal ==
    wal # 0 /\ data[wal] # NoPages =>
       \E p \in Writers : /\ h[p].pc \in {"apply", "c_close", "c_unlink"}
                          /\ h[p].lock = "EX"
                          /\ h[p].dirty = data[wal]

-----------------------------------------------------------------------------
(* The refinement: a transaction is active from the moment its header is   *)
(* read to the moment its WAL is written, and from then on the database is *)
(* the file with the pages still to be written laid over it.               *)
Committing == {p \in Writers :
    \/ h[p].pc = "apply" /\ h[p].fd # 0
    \/ h[p].pc \in {"c_close", "c_unlink", "c_flush"}}
Active == {p \in Process :
    \/ h[p].pc \in {"run", "c_open", "c_lock", "c_write"} /\ h[p].lock # "none"
    \/ h[p].pc = "idle" /\ h[p].lock # "none"}
Stored ==
    [x \in Page |->
       IF \E p \in Committing : h[p].dirty[x] # None
         THEN h[CHOOSE p \in Committing : h[p].dirty[x] # None].dirty[x]
         ELSE file[x]]
Work == [p \in Process |-> IF p \in Active THEN h[p].dirty ELSE NoPages]

Store == INSTANCE AtomicStore WITH store <- Stored, active <- Active, work <- Work

(* The commit protocol implements the atomic store, as long as processes   *)
(* do not die: the second commit of EXEC, which holds no lock on the file, *)
(* the WAL created and deleted under another process's feet and the lock   *)
(* kept by a queued command change nothing that a transaction can see.     *)
Atomic == Store!Spec

-----------------------------------------------------------------------------
(* A process inside the library runs on; flock is granted in the end to a  *)
(* process that waits and finds the lock free again and again; and a       *)
(* client that is inside a transaction ends it, or issues the next command *)
(* of a MULTI.                                                             *)
Fairness ==
    \A p \in Process :
       /\ WF_vars(Step(p))
       /\ SF_vars(Flock(p))
       /\ SF_vars(LockWal(p))
       /\ WF_vars(Command(p))
       /\ WF_vars(h[p].lock # "none" /\ Start(p))
LiveSpec == Spec /\ Fairness

(* A process that opens the database gets to run its transaction, and one  *)
(* that commits finishes: no process waits for ever for a lock on the file *)
(* or on a WAL.                                                            *)
Progress ==
    \A p \in Process :
       h[p].pc \in {"flock", "c_open"} ~> h[p].pc \in {"run", "idle"}

=============================================================================
