# rlite, in TLA+

rlite (the C library in `src/rlite/src`, wrapped for R by the rest of this
repository) is a Redis without a server: commands run in the caller's process
on a database file, or on memory.  This directory holds TLA+ modules that model
the library, TLC configurations that model-check them on small instances, and
theorems that TLAPS proves for all instances.

All C files below are in `src/rlite/src`.

## 1. The system

### Components

| component | files | state | operations |
|---|---|---|---|
| Page layer and page cache | `rlite.c`, `page_string.c`, `page_long.c` | `next_empty_page`, `number_of_pages`, `databases[]` with their `initial_` copies; `read_pages`, `write_pages`; the open file | `rl_refresh`, `rl_read`, `rl_write`, `rl_alloc_page_number`, `rl_delete`, `rl_commit`, `rl_discard`, `rl_get_key_btree` |
| Write-ahead log, locks, opening | `wal.c`, `flock_posix.c`, `rlite.c` | the database file and the WAL, their inodes and advisory locks, the stream's buffer | `file_driver_fp`, `rl_read_header`, `rl_apply_wal`, `rl_write_apply_wal` |
| Commands and transactions | `hirlite.c` | per context: `inTransaction`, `transactionFailed`, `enqueuedCommands`, `watchedKeys`, `selected_database` | `rliteAppendCommandClient`, MULTI, EXEC, DISCARD, WATCH, UNWATCH, SELECT, and one function per command |
| Keys | `page_key.c`, `type_string.c`, `rlite.c` | a B-tree per database from a key's digest to its `rl_key` (type, value page, expiry, version) | `rl_key_get`, `rl_key_set`, `rl_key_delete`, `rl_watch`, `rl_rename`, `rl_move`, expiry |
| B-tree | `page_btree.c` | a tree page (height, number of elements, root) and nodes of sorted scores | find, add, update, remove, iterate |
| Skiplist | `page_skiplist.c` | nodes with a level each, links and widths | add, delete, rank, ranges |
| Linked list of pages | `page_list.c` | a list page and nodes of up to `max_node_size` elements | find, add, remove, iterate |
| Strings over pages | `page_multi_string.c` | a list of page numbers behind a size | set, append, range, replace |
| Data types | `type_*.c` | a composition of the structures above per key | the commands of strings, lists, sets, hashes, sorted sets |
| Publish and subscribe | `pubsub.c`, `signal_posix.c` | internal databases of the same file: subscribers by topic, topics by subscriber, messages; a FIFO and a locked file per subscriber; per context a `subscriber_id` | subscribe, publish, poll, poll_wait, unsubscribe |
| SORT | `sort.c` | none | SORT |
| DUMP and RESTORE | `dump.c`, `restore.c`, `rdb_*`, `crc64.c` | none | serialisation |
| Lua scripting, HyperLogLog, utilities | `scripting.c`, `hyperloglog.c`, `util.c`, `sha1.c`, ... | | |
| R glue and R interface | `src/*.c`, `R/*.R` | one connection pointer | conversions |

### How they interact

A client calls `rliteAppendCommandClient` with a command.  It calls
`rl_refresh`, which drops whatever the handle has cached, opens the file, takes
its lock, recovers from a WAL if one is there, and reads the header.  The
command then works on key trees, whose nodes are pages read and written through
the two caches; `rl_commit` writes the dirty pages to a WAL, then to the file,
deletes the WAL and closes the file, which gives the lock back.  Processes share
nothing but the file system: the database file, the WAL beside it and, for
publish and subscribe, a FIFO and a locked file per subscriber; subscriptions and
messages are keys in internal databases of the database file itself.  Within a
process the library is single-threaded and calls back into nothing except Lua.

The value of a key is a composition: a string is a list of pages
(`page_multi_string.c` over `page_list.c`); a list is a list of strings; a set and
a hash are B-trees over digests that lead to strings; a sorted set is a B-tree
from a member to its score and a skiplist of scores and members.  All of them
take their pages from the page layer and give them back to it.

### What is hard

* *Several processes, one file.*  When the lock is taken, and what is read or
  truncated before it is; which calls return with it; EXEC, which gives it back
  and takes it again; a commit run by a handle that holds no lock.
* *Crashes.*  A commit is a dozen of system calls over two buffered streams.
* *In-memory state against the file.*  The header is one page of many; the code
  that changes a header field and the code that marks the header dirty are not
  the same.
* *Free pages.*  They are linked through their own contents, which may be in
  either cache or in the file.
* *WATCH.*  Optimistic concurrency over a version number stored in each key.
* *Structures over pages.*  Splits, borrows, merges, lending and re-linking, each
  of which allocates, rewrites and frees pages; strings cut up between pages; the
  spans of a skiplist over random levels.
* *Two copies of one fact.*  A member's score in two structures, a subscription in
  two databases, changed one after the other with early returns in between.
* *Commits in the middle of a command.*  Subscribing, unsubscribing and cleaning up
  after a dead subscriber commit, and the command goes on with the old header.
* *Sleeping.*  A subscriber polls, gives the lock back, creates its FIFO and opens
  it; a publisher signals before it commits.

### What makes each component correct

* Page layer: a page reads back as last written; the free list holds the freed
  pages only; no page is lost; a stored header refers to live pages.
* Log and locks: a commit is atomic and durable; a transaction sees exactly the
  last commit; nobody waits for ever.
* Commands and transactions: the lock is given back; nothing of a transaction
  outlives it; EXEC runs only on the keys WATCH has seen, and gives up only
  when one was touched.
* Keys: a version changes with the key; a failed command changes nothing; an
  expired key is as good as gone.
* B-tree: a sorted, balanced search tree with nodes at least half full that
  holds exactly the keys added and not removed; it owns all the pages it took
  and did not give back.
* Skiplist: ordered at every level; widths add up to ranks.
* Lists of pages: no empty node; links agree in both directions; an element's
  position is the sum of the sizes before it.
* Strings over pages: the bytes are what a plain string would hold.
* Data types: a command does to a key's value, and replies, what its abstract value
  promises; both structures of a sorted set agree; no string is lost or shared; a
  change moves the version.
* Publish and subscribe: a published message reaches each subscriber once and
  in order, and a waiting subscriber wakes; a dead subscriber is forgotten.

`PROJECT.json` lists the hazards behind these, each at its line.

## 2. The modules

| module | models | kind |
|---|---|---|
| `PageLayer` | the functions of `rlite.c` on a handle, as operators | operators |
| `Pager` | one handle and any client that allocates, rewrites, reads and frees pages in transactions | state machine over `PageLayer` |
| `AtomicStore` | what a shared database file promises: atomic transactions | abstract specification |
| `Wal` | opening, locking, recovery and commit, one action per system call, by several processes that may die | detailed specification; implements `AtomicStore` |
| `Transactions` | contexts, MULTI/EXEC/WATCH, and the commands on whole keys with versions and expiry | state machine; takes the atomicity that `Wal` shows |
| `Dictionary` | what a B-tree is for: a map from scores to values | abstract specification |
| `MemoryPages` | what the structures share: objects in pages of the memory driver, the free list | operators over `PageLayer` |
| `BTree` | `page_btree.c` over `MemoryPages`, pages included | state machine; implements `Dictionary` |
| `PageList`, `MultiString`, `Skiplist` | `page_list.c`, `page_multi_string.c` over it, `page_skiplist.c` over that | operators, each C function returning the handle it leaves |
| `Structures` | a list, a string and a skiplist beside each other in one file | state machine over the three |
| `Values` | what the commands on values promise: keys, abstract values, replies | abstract specification |
| `Keyspace`, `Strings`, `Lists`, `Sets`, `Hashes`, `SortedSets` | `page_key.c` and `type_*.c` | operators, each C function returning database, result and output |
| `Owned` | what is to hold of the keys, their values and the strings that `Keyspace` keeps, within a function and between commands | predicates |
| `DataTypes` | the commands of `hirlite.c` on values | state machine over those; implements `Values` |
| `Mailbox` | what publish and subscribe promise: boxes of messages | abstract specification |
| `PubSub` | `pubsub.c`, `signal_posix.c` and the reply loop, by several processes that may die | state machine; takes the atomicity that `Wal` shows; delivers as `Mailbox` does |
| `MC*` | constants for TLC; `MCBTree` holds two instances of its machine and chooses one in the initial state | |
| `Induction` | induction over the naturals and definition by recursion, as theorems that can be cited for any set or function | lemmas |
| `Loops` | a loop over a sequence and what it keeps, for any step and invariant, to be instantiated | lemmas |
| `OwnedProofs` | what each function of `Keyspace`, `Strings`, `Lists`, `Sets`, `Hashes` and `SortedSets` leaves | lemmas |
| `PagerProofs`, `WalProofs`, `TransactionsProofs`, `PubSubProofs`, `DataTypesProofs` | theorems | |

The layers meet at three seams, where one module takes as given what another
shows: `Transactions`, `PubSub` and `DataTypes` take a command under the lock as
one step (`Wal` implements `AtomicStore`); `Structures` and `BTree` take pages that
read back and a sound free list (`Pager`); the data types take trees, lists,
strings and skiplists as functions, sequences and sorted sequences (`BTree`
implements `Dictionary`, `Structures`).

### PageLayer and Pager

A handle is a record.  `read_pages` and `write_pages` are functions from page
numbers: the C code keeps them as sorted arrays in which a page occurs once
(the binary search in them is not modelled).  Each operator of `PageLayer` is
one C function and returns the handle that function leaves behind.  The driver
(`driver_type`) is a field too: `Pager` starts with a handle of either kind.

| code | TLA+ |
|---|---|
| `rl_create_db`, `rl_read_header` | `CreateDb`, `ReadHeader`, `HeaderRead` |
| `rl_read_from_cache`, `rl_read` | `Cached`, `Stored` (the result), `RlRead` (the handle) |
| `rl_alloc_page_number` | `AllocPageNumber` |
| `rl_write`, `rl_delete` | `RlWrite`, `RlDelete` |
| `rl_write_apply_wal` without failure, `rl_commit`, `rl_discard`, `rl_refresh` | `Applied`, `Committed`, `Discarded`, `Refreshed` |

`Pager`'s actions are the ways in which the rest of the library uses these:
`Create` (an `rl_write` to `next_empty_page`), `CreateReserved`
(`rl_key_get_or_create`: the value's page number is taken first and written
last), `CreateTree` (`rl_get_key_btree`), `DropTree` (the end of
`rl_key_delete`), `FlushTree` (the end of `rl_flushdb`), `Update`, `Free`,
`Read`, `Commit`, `Discard` and `Refresh`.  The history variables `img` and
`saved` record what the client owns and in which order pages were freed, now
and at the last commit; the properties compare the handle with them.

### Wal and AtomicStore

`h[p]` is process `p`: the call it is in (`pc`), its lock, the inode of the WAL
it has open, the handle's dirty pages, the pages it still has to write, and the
one page that is in the database stream's buffer.  A `fseek` pushes that page
out, which is where the crash windows come from.  Whether the bytes of a WAL are
in its file before `fclose` depends on its size, as with any `stdio` stream:
`WalSizes` has "small" (it all stays in the buffer), "large" (the tail stays)
and "exact" (nothing stays).  Nearly every commit of a command that writes has a
large WAL; "exact" is a coincidence of sizes.

| code | TLA+ |
|---|---|
| `file_driver_fp` | `Start` (access), `Fopen`, `Flock` |
| `rl_apply_wal`, `rl_read_wal`, `rl_apply_wal_data` | `AccessWal`, `OpenWal`, `ReadWal`, `ApplyPage`, `EndRecovery` |
| `rl_read_header` | `ReadHeader` |
| a command's `rl_write`; a queued command; `rl_close`/`rl_discard` | `Write`, `Queue`, `Close` |
| `rl_write_apply_wal` | `CreateWal`, `LockWal`, `WriteWal`, `ApplyPage`, `TruncateWal`, `CloseWal`, `UnlinkWal`, `EndCommit` |
| the second `rl_commit` after EXEC | `CallCommit(p, TRUE)` |
| the process dies (the kernel closes its files, the buffers are lost) | `Crash` |

A WAL is applied before the header has been read, with `page_size = HEADER_SIZE` (200)
until page 0 comes by in the WAL (`rlite.c:440`, `wal.c:81`).  So a WAL without page 0
is applied amiss (`ReadWal`): a writer puts 200 bytes of its first page x at x * 200 in
the file, which strikes the pages `Misplaced(x)` (the unused end of page 0 for x up to
4, live pages from 5 on), and a reader caches a page of 200 bytes; the number of the
page after it is read from the middle of the first, so that the rest may strike any
page (`Strays`).  A struck page holds `Junk`.  Who finds junk in the header gives up:
`rl_open` closes the file, but a `rl_refresh` that fails keeps its lock.

Losing power, so that the kernel's own buffers are lost, is not modelled: the
code never calls `fsync`.  A database has the pages `Page`: the header and one other
are enough to tell half a commit from a whole one and a commit with the header from one
without, and page 5 is the first whose misplaced piece strikes another, page 1.  The refinement to `AtomicStore` maps the store to the
file with the pages a commit has logged and not yet written laid over it: the
commit takes effect when its WAL is written.

### Transactions

A call is three steps: `Call` (`rl_refresh` closes the file), `Flock`, and the
command itself, which `Wal` lets us take as one step; EXEC waits for the lock a
second time (`Exec`, `Flock`, then `ExecNil` or `ExecRun`).  The commands on
whole keys are operators on a record of key trees, selected database and calls
of `rand()`: `Set`, `AppendTo`, `Lookup` (GET), `Delete`, `Expire`, `Persist`,
`Rename`, `Move`.  Each command follows the C function's order of lookups,
deletions and early returns, because several of them delete before they fail.
A key is a value, an expiry (never, later, past) and a version.  A version is a
call of `rand()` and how often it was increased since (`[draw, updates]`); the
version that a missing key gets without a draw is `Zero`.  `rand()` is a fixed
sequence per process, since nothing seeds it; `FirstDraw` says how far along each
process is.  `Tick` makes an expiry pass.

The model takes values of the string type only; what commands on the other types
do to versions is checked in `DataTypes` (`VersionsMove`).

### BTree and Dictionary

The trees live on the memory driver of `PageLayer` in one transaction
(`MemoryPages`): a new node is written to `next_empty_page`, and freed pages come
back from the free list.  A node is a sequence of elements and, unless it is a leaf, a sequence of
one page more.  The loops of the C functions along the recorded path (`nodes[]`,
`positions[]`) are folds over `Path`.

| code | TLA+ |
|---|---|
| `rl_btree_find_score` | `Search` (within a node), `Path`, `Found` |
| `rl_btree_add_element` | `Inserted`, `Split`, `AddAt` (one level up), `AddElement` |
| `rl_btree_remove_element` | `ToLeaf`, `TakeOut`, `BorrowLeft`, `BorrowRight`, `Merge`, `Rebalance` (one level up), `ShrinkRoot`, `RemoveElement` |
| `rl_btree_node_delete`, `rl_btree_delete`, `rl_flushdb` | `PagesBelow`, `DeleteTree`, `Flush` |
| `rl_btree_iterator_create`, `rl_btree_iterator_next` | `IteratorCreate`, `IteratorNext`, `Iterated` (a whole iteration) |
| the free list as `rl_is_balanced` follows it | `FreePages` |

`Balanced` is what `rl_btree_is_balanced` tests, and the rest of what makes a
B-tree; `PagesAccounted` is what `rl_is_balanced` tests, but for the pages in
`lost`: when the root has lost its last element its only child is promoted and
the old root's page stays allocated and on no list.  The model keeps that leak
(`ShrinkRoot`) and the property says that it is the only one.

A tree of real size cannot be grown from nothing within the bounds, so a run also
starts from trees loaded with the insertion operators themselves: ascending,
descending, and odd scores before even ones.

### MemoryPages, PageList, MultiString, Skiplist and Structures

Objects are contents of pages; every operator gets a handle `d` and the page `p`
of the structure, and returns the handle.

| code | TLA+ |
|---|---|
| `rl_list_create`, `find_element`, `rl_list_get_element` | `ListCreate`, `FindPosition`, `GetElement` |
| `add_element` | `LendLeft`, `LendRight`, `LendRightLast`, `NewNode` (the four ways a full node makes room), `AddElement` |
| `remove_element` | `TakeElement`, `Unlink` (the merge), `RemoveElement` |
| `rl_flatten_list`, iterators, `rl_list_delete`, `rl_list_is_balanced` | `Flattened`, `FlattenedBack`, `ListDelete`, `ListBalanced` |
| `rl_multi_string_set`, `append`, `setrange`, `getrange`, `cmp_str`, `sha1`, `delete` | `SetString`, `AppendString`, `SetRange`, `GetRange`, `CompareString`, `Digested`, `DeleteString` |
| `rl_skiplist_add`, `rl_skiplist_delete`, `get_update` | `SkipAdd` (`LinkNode`, `Spanned`), `SkipDelete` (`UnlinkNode`, `Bypassed`), `GetUpdate` |
| `rl_skiplist_first_node`, `rl_skiplist_node_by_rank`, iterators, `is_balanced` | `FirstNode`, `NodeByRank`, `Iterate`, `SkipBalanced` |

The level of a skiplist node is chosen nondeterministically, `SHA-1` is taken as
the string it digests.  `Structures` keeps what was added, written and removed in
history variables (`seq`, `bytes`, `ranked`), and its properties compare every way
of reading with them.  `overrun` records a write that starts before and ends after
a string's last byte on a page that is not the first: after it `StringHolds` says
nothing, and `WritesHold`, which says it all the same, is violated (section 4).

### Keyspace, the data types, DataTypes and Values

The database is a record: `keys` (type, value, expiry, version), `heap` (the
strings values own, by page), the clock, the last version given out and whether
`errno` is set (`erange`).  An operator returns `[db, ret, out]`, the C function's
effect, return code and output, in the order of its lookups, deletions and early
returns; `Then` is `RL_CALL`.  One action of `DataTypes` is one command, which calls
the function of `type_*.c` and turns its code into a reply (`Run`, `Reply`).  Reading
commands are operators that `ReadsAgree` evaluates in every state.  `Values` knows
only types, values and expiry; the refinement maps a key to its value with the
strings read from the heap (`Seen`), and leaves out keys whose time has come.

`Strays` lists, as a condition on a command and the state it meets, the cases in
which the code does something else than `Values` promises.  After such a step
nothing is promised (`strayed`), so that every other step is checked; section 4
has the cases.  The clock stands still within a command (`Tick` moves it
between commands), `rand()` never repeats a version a key still has, scores are
whole numbers.

### PubSub and Mailbox

`db` is what is committed: `subs` (subscribers of a topic), `own` (topics of a
subscriber), `messages`, and `user`, the lists that got into the publisher's own
database.  `work` is what the lock's holder sees.  `h[c]` is a connection: the call
it is in, whether it has a `subscriber_id` (and so a locked file), how it waits,
whether it was signalled before its FIFO was open (`missed`), whether another
client changed the file since it read the header (`stale`), whom it unsubscribes
and what it publishes.

| code | TLA+ |
|---|---|
| `do_subscribe`, the count for the reply | `Subscribe`, `Count` |
| `do_unsubscribe`, UNSUBSCRIBE without arguments | `Unsubscribe`, `UnsubscribeAll` |
| `rl_poll` | `Poll`, `Received` |
| `rl_poll_wait`, `rl_create_signal`, `rl_read_signal` | `PollWait`, `OpenSignal`, `Timeout`, `PollAgain` |
| the reply loop of `rliteGetReply` | `PollWait(c, "reply")`, `NoReply` |
| `rl_publish`, `publish_to_members`, `do_publish`, `rl_write_signal`, `rl_is_flocked` | `Publish`, `Send`, `Signalled`, `CleanUp`, `Alive`, `NextTopic`, `EndPublish` |
| `rl_unsubscribe_all_type`, `rl_unsubscribe_all_subscriber` | `UnsubscribeChannels`, `UnsubscribePatterns` |
| `rl_close`; the process dies | `Close`, `EndClose`; `Die` |

A command is one step unless it meets what goes around the database (signals,
locked files, a death) or gives the lock back half way; a client that has to wait
for the lock is one whose step is not enabled.  `Delivers` is the refinement to
`Mailbox`: a box is a committed list of messages, cut (`Messages`) as `rl_poll` cuts
it, which pops a number and then as many elements.  A topic is a channel or a
pattern, never both (`DatabasesAssumption`): the two are kept in different databases.

## 3. The runs

| run | shows | bounds |
|---|---|---|
| `drivers` | either driver: every page reads back, the free list is right; memory driver: no page is lost, a tree entry names a live page | 4 pages, 2 values, 1 database |
| `shared` | commits are atomic, nobody reads a mixture, no old WAL is replayed, `Wal` implements `AtomicStore` | 2 writers, 1 reader, 2 pages, 2 values, all WAL sizes, no crash |
| `live` | everyone gets the lock and finishes, also when the file has to be created | 2 writers, 1 reader, no file at first, the header only, 1 value, no crash |
| `onepage` | with crashes anywhere: transactions of one page, among writers only, are atomic and durable in every page that no misplaced piece strikes | 2 writers, pages 0, 1 and 5, 2 values, all WAL sizes |
| `crash_unflushed` | must fail: a crash tears a commit of two pages | 1 writer, large WALs |
| `watch` | WATCH is safe against changes in place, deletion, creation, expiry and flushing, and gives up only for a reason; the lock is given back, nothing outlives a transaction, every call returns | 2 clients, 1 of them watching, some of their draws the same, 1 key, 2 values |
| `commands` | WATCH is safe against renames, moves and SELECT, which change the version of a target that is there | 1 client, 2 draws, 2 keys, 2 databases, 2 values |
| `trees` | trees stay balanced, everything in them is found and iterated, pages are accounted for, `BTree` implements `Dictionary` | 2 operations on the empty tree and on 8 loaded ones, nodes of up to 2 or 4 elements |
| `structures` | lists, strings and skiplists read back in every way, their links and spans agree, pages are accounted for | 2 operations on 13 loads, list nodes of 3, pages of 2 bytes, 3 levels |
| `types` | each command does and replies what `Values` promises (but for `Strays`), reads agree with it, no string is lost or shared, scores agree, versions move | 2 commands on 8 databases, keys `a`, `b` and a target, 2 members |
| `pubsub` | messages arrive once and in commit order, nobody sleeps on a message but for the race at the FIFO, who waits is served, calls end | 3 clients, 1 channel, 1 pattern, 2 publications |
| `cleanup` | must fail: publishing to a dead subscriber removes the publisher's subscriptions | 3 clients, 1 publication |

Bounds, all of them constants: `MaxPages` pages in a file (4: a header and three
pages, so a free list of up to three and a live page beside a free list; 16 for
`trees`, more than any tree there uses); `MaxDirty` pages per transaction (1 or 2 of
the 2 there are); the first `MaxDraws` numbers of `rand()`, which each process draws
from `FirstDraw` on, `MaxUpdates` updates of a key between two creations, `MaxQueue`
commands in a MULTI, `MaxWatched` keys watched, `Watchers` the clients that use
WATCH and MULTI at all; `MaxOps` operations on a tree after it is loaded. Two
versions are equal only when draw and updates are: that increments never lead from
one value of `rand()` to another is an assumption; that a real key is so updated is
of the order of one in 2^31. The `watch` run has one process a call of `rand()`
ahead of the other (`NearDraws`): as nobody seeds it both draw the same sequence, so
of the two numbers one comes to both and one to the watching client only. These
admit a deletion and a creation by either client between a WATCH and its EXEC, an
update on top, and a queued command; a client that does not watch has no state that
more of them could tell apart. In `trees` two operations are enough because the
loads put the trees at every brink: `Up(7)` with nodes of two is as thin as a tree
of three levels can be, so that one removal merges up to the root, the others split
or borrow on either side; every branch of `Split`, `Rebalance` and `ShrinkRoot` is
taken. The operators were also compared, page by page, with what the library does in
random sequences of insertions and removals.

In `structures` the loads are lists grown to the right, to the left and from the
inside (eight or nine elements in nodes of three: three nodes or more, some full,
some at the brink of a merge), a string of three pages with its last page half
full, and skiplists of four entries, two with equal scores, whatever the levels of
two of them; the writes are of zero to three bytes at offsets 0 to 6, before, at
and past the end.  `MaxPages` is 32 and an operation starts only with eight pages
to be had (`Room`), more than any of them takes.  In `types` the first command
meets one of eight databases (empty; strings, one of them a number past the
largest; lists; sets; hashes; two of sorted sets; mixed types), some of their keys
with a time to live, and the second one whatever the first has left.  `MaxLong` is
127 and `MaxBytes` 3: the largest integer and the longest string of the code,
scaled so that both limits are met.  The view `MCView` leaves out the last call and
its reply, which are written and never read.  In `pubsub` `a` polls with a timeout,
`b` waits for replies and may die, `p` publishes and may die; in `cleanup` `a`
publishes, too, and subscribers may wait without a timeout.  `MaxMessages` is 2, so
that the order of two messages shows.

Symmetry is used for values and for processes of the same kind, never in a run
that checks liveness.

Deadlock is checked where some client can always make a call.  It is not in
`pubsub` and `cleanup`, where all clients may have closed or died, nor in
`structures` and `types`, whose bound on operations is used up in the end.

### Fairness

`LiveSpec` of `Wal` and of `Transactions` assume three things.  A process inside
the library runs on (weak fairness of its own steps: the code has no loop that
waits).  `flock` is granted in the end to a process that finds the lock free
again and again (strong fairness; the code calls `flock` without `LOCK_NB`, and
Linux queues the waiters).  A client that holds the lock between two calls, which
happens after a command queued by MULTI, makes its next call: the code has no
timeout, and a client that queues a command and then sleeps blocks every other
process; this is an assumption on clients, and the hazard is listed.

`PubSub`'s `LiveSpec` assumes strong fairness of each client's `Step`: what goes on
once a call has begun happens if it can happen again and again, which is the
fairness of `flock` once more (a step that needs the lock is enabled when it is
free).  A `select` with a timeout returns.  The pollers go on polling.  Nobody has to
publish, subscribe, close or die, and nobody is woken from an `open` without a
timeout except by a signal.

## 4. The disagreements found

Two are runs that TLC must find violated, and entries under "findings" in
`PROJECT.json` with the lines.

1. The WAL is not flushed before the database is written (`crash_unflushed`): a
   process that dies while it applies a commit leaves half of it, and no WAL.
2. To forget a dead subscriber, `rl_unsubscribe_all_subscriber` removes the
   publisher's own subscriptions to the dead client's topics, and keeps the dead
   client's (`cleanup`).

The same models show more, for other values of the constants or when a property
is asked of the configuration that leaves it out.

Pages, log and transactions:

* `RootLive` asked of the file driver too (without `db.driver = "memory"`): `rl_key_delete` resets a database's entry
  without marking the header dirty, so that the transaction that deletes a
  database's last key leaves a stored header that names a freed page.
* `NoOrphan` asked of the file driver too: a transaction that only frees pages commits without
  the header, and the freed pages are on no list (the same cause).
* `WritersFindCommitted` in `onepage`: a recovery applies a WAL without page 0 with a
  page size of 200, so a process that dies between writing such a WAL and deleting it
  makes the next one write over pages that no transaction has touched (a piece of page
  5 falls on page 1).
* `FileAtStart = FALSE` with two writers: a process that opens a database decides to
  truncate it before it has the lock.
* `WalSizes = {"exact"}` in `crash_unflushed`: even when the WAL is complete it is
  deleted before the database's stream is flushed, so a crash in between tears
  the commit.
* `ReadersFindCommitted` with a reader, `CrashSpec` and `WalSizes = {"exact"}`: a
  handle opened read-only applies a WAL before it knows the page size, too.
* `DamageConfined` with `MaxDirty = 2` would say nothing, for then any page may be
  struck: of a WAL of several pages without page 0 all but the first piece is misread.
* A reader beside the writers in `onepage`: it replays a dead process's WAL in
  memory, and leaves file and WAL as they are.  The second commit of an EXEC holds no
  lock: if it then truncates that WAL, the commit the reader has seen is gone.
* `WatchSafe` without any of the three conditions of `Telling`: RENAME into a missing
  key, and MOVE, restart the version at 1, so a key watched at version 1 can be
  replaced unnoticed (in `commands`); `rand()` is not seeded, so another process can
  draw the watched number again for the same key (in `watch`); WATCH records its
  database and EXEC compares the version in the one selected then (in `commands`).
* `RenameKeepsValue`: RENAME of a missing key, or of a key to itself, deletes the
  target.
* `NoSpuriousAbort` exempts keys that were to expire and EXEC in another database:
  without these exemptions it fails, because a read of an expired key deletes it
  and because WATCH's database is ignored.

Structures:

* `lost = {}` in `trees`: the page of a root that has been replaced is leaked.
* `WritesHold` in `structures`: SETRANGE over the end of a string, when the end is on
  a page that is not the first, loses bytes.
* `RanksEqual` in `structures`: where several elements have a score, the rank that
  ends a range is not what the comment at `page_skiplist.c:281` says; ZCOUNT with
  that score at both ends replies 0.

Data types, each a case of `Strays` or an exception that `ReadsAgree` names:

* RPOPLPUSH into a key of another type loses the element it took.
* SMOVE of a member that the destination has, and SINTER and SINTERSTORE of sets
  without a common member, free memory twice.
* The *STORE commands delete their target before they read the sources, one of
  which may be the target, or of the wrong type.
* ZREM and ZREMRANGE* of a missing key create an empty sorted set, and so does
  ZINTERSTORE of sources without a common member; ZINTERSTORE with sets among the
  sources, and ZUNIONSTORE with MIN or MAX and weights, compute other scores.
* ZREMRANGEBYSCORE with equal scores, and ZREMRANGEBYLEX with different ones, remove
  other members than the range has.  In reverse with a LIMIT whose offset passes the
  first element, a range goes on from the last one.  ZCOUNT of the empty range
  `(1 (1` is -1.
* LREM of the last element of a list, and LTRIM that leaves none, reply an error:
  `rl_lrem` and `rl_ltrim` return `RL_DELETED`, which the commands do not expect.
  `Values` promises just that.
* MSETNX that names a key twice sets it, finds it, and replies twice.  INCR or DECR
  after a command that left `errno` set fails (`type_string.c:169`).  EXPIREAT 0 makes a key permanent.  ZINCRBY
  replies the increment.
* Adding to a set, hash, sorted set or list by SADD, HSET, ZADD or a push clears the
  key's time to live (`Kept` allows it).  KEYS and DBSIZE count keys that have
  expired and were not looked up since.

Publish and subscribe:

* `SleepsOnlyInRace` without `missed`: a signal between the poll and the opening of
  the FIFO is lost, and without a timeout the subscriber sleeps on its message.
* `Delivers` with `Patterns <- TwoPatterns`: a publication that matches two patterns
  reaches the members of one only.
* After a dead member the publication goes on in the publisher's own database: the
  messages of later members end up there (`user`).
* UNSUBSCRIBE without arguments when nobody subscribes to anything has no reply, and
  the client waits for a message instead.
* `FreshCommits` names who may commit changes with the header of an earlier
  transaction: who gives up channels and patterns at once, and who meets a dead
  subscriber.

## 5. The proofs

TLAPS checks every theorem for every value of the constants, from the
assumptions named in the modules.

`PagerProofs`: `TypeCorrect`, `PagesReadBack` and `FreeListCorrect` hold for both
drivers, any number of pages, any databases and values; so do `NothingOrphaned` and
`RootsLive`, which speak of the handles on the memory driver.  Together they state
all five invariants of `drivers`.  The driver is a field of the handle that
`rl_open` sets and no step changes (`StepInv`).  `ReadBack` and `FreeList` are not
inductive: a transaction may be discarded, or commit without the header, and the
next one starts from the file.  The invariant `IInv` therefore says of three
images what the properties say of one: the handle represents `img`
(`Represents`: contents, free list, disjointness, and that page contents are
found in one place, `Coherent`); the storage together with the initial fields
represents `saved` (`SavedOK`); and a handle whose header is clean has the
`next_empty_page` and `number_of_pages` that the file has, or has only pushed
freed pages on the list (`CleanHeader`), which is why a commit without the
header still leaves a sound, if shorter, list.  The lemmas say for each operator
of `PageLayer` what it does to the represented image; the invariance proof has a
step per action.  For the memory driver `MemoryInv` adds that every page below
`number_of_pages` is live or free, now and as saved.

`WalProofs`, from the assumption that the set of processes is finite (so that
there is always an inode for one WAL more) and, in each theorem, that the file is
there from the start and no process dies: `WritersRead`, `ReadersRead`,
`NoWalLeft`, `TypeCorrect`, and `ImplementsStore`, the refinement of `AtomicStore`.
Without `FileAtStart`, or under `CrashSpec`, they are false (section 4), but for
`TypeCorrect`, of which the second part of the module has a form without either.  The invariant `WInv` has
three parts.  `Handles`: each handle's fields go with its `pc` (who reads the
database holds the lock; dirty pages belong to an exclusive holder; pages in the
buffer or still to be written are pages of the transaction), and locks exclude
each other.  `Logs`: a WAL that is not empty is that of the exclusive holder who
is applying it, and who is about to read a WAL has an empty one.  `Files`: there
is one image `m` a transaction may find; the file is `m`, or the pages in the
buffer and those to come make `m` with the transaction of it.  The crux is the
second commit of EXEC: it holds no lock, but then it has no dirty pages
(`PagesPhase`), so whatever it does to the WAL only empties it (`LogWritten`).
For the refinement, `StoredIs` says what the store is in terms of `m`; then each
action is shown to be a step of the store (`BeginSeen`, `WriteSeen`,
`WriteWalSeen`, `AbortSeen`) or to be unseen (`QuietStutter`, `EndCommitSeen`).

The second part of `WalProofs`: the same protocol when processes die.  `CrashTypeCorrect`
holds in every configuration, with `FileAtStart` or without: a commit finds an inode for
its WAL, no junk gets into a WAL and, where transactions write one page (`MaxDirty = 1`),
none into a page of the file outside `Struck`, the pages that misplaced pieces fall on.
It is inductive with the fact that such a WAL has one page (`TInv`).
`CrashDamageConfined` (`DamageConfined`) has the hypothesis `OnePageCommits`, three
conditions each of which the run `onepage` meets and none of which can go: the file is
there from the start, a transaction writes one page at most, all processes are writers
(section 4 has what happens otherwise).  It holds for any number of writers and pages,
any values and any sizes of the WAL, and says that outside `Struck` a writer finds one
of the images allowed.  In `Struck` it says nothing, and cannot (section 4); for a file
of n pages those are the pages from 1 to about n / 5.  The invariant is `CInv`.  A page
of a commit stays in the stream's buffer until the last step, so the file always fits an
image that a transaction may find (`Fits`: it agrees with it outside `Struck`); what else
may be found is that image with the WAL that is there laid over it (`LeftOver`).  While
somebody is past its recovery (`Inside`) the file agrees with every image allowed
(`Decided`), and the only WAL is its own, which a death turns into a commit in doubt; a
recovery holds in its buffer, or has still to write, what is left over, or a misplaced
piece of a WAL that counts for nothing; and one that has opened a WAL and waits for its
lock finds there what is left over or, if another has truncated it since, nothing.
`HolderStep` and `OtherStep` say what a step of the lock's holder and of anybody else may
do to this; each action is one or the other, and a death gives the lock back
(`Released`).

`Induction`, from the library's theorem that a well-founded relation has minimal
elements: induction over the naturals for a set, which can be cited with any set
written out where the library's own theorems take an operator, and `Recursion`: for
any start and any `step` that stays in a set there is a function on the naturals that
iterates it.  So what a recursive function of a model computes need not be taken on
trust: it is what its defining equation says because something satisfies the
equation.

`TransactionsProofs`: `LocksReturned`, `ContextsClean`, `TypesKept` (the type
invariant) and `VersionsChanged` (a command that changes a key in place changes its
version), for any clients, keys, databases, commands and bounds.  The invariant
`TInv` holds the lock discipline, and that a context outside MULTI is clean; that it
is preserved needs no reasoning about keys.  For the types and versions there is a
lemma per command on what it does to the key trees, and `Recursion` carries it
through the queue of an EXEC (`RunAll`).

The second part of `TransactionsProofs`: what WATCH is for, from both sides.  `AbortsJustified`
(`NoSpuriousAbort`), for any commands: EXEC gives up only when a watched key was
touched, or had an expiry and is gone, or another database is selected; the invariant
`QuietWatches` says that a watched key not touched still has the version and
content recorded, or had an expiry and is gone.  `WatchedUnchanged` (`WatchSafe`):
EXEC runs only on what WATCH has seen, again for any commands, any number of
databases and any calls of `rand()` made before, the same for all processes included.
What it leaves out is part of the property and judged watch by watch (`Telling`): a
watch of another database than the one EXEC compares in, one whose number some
process has drawn again since the WATCH (`repeated`, which `Follow` keeps), and a
version without a number.  The invariant `FaithfulWatches` says of each other watch
that an entry with its number has at least its updates, and that one with its very
version has the content that WATCH saw.  It is inductive because of what `Lawful`
says of every command, RENAME and MOVE included, and `RunAllKept` of a queue
(`Evolves`): an entry stays, goes, is updated with a growing version, or comes anew
with a number just drawn or with none.

`PubSubProofs`: `DirectionsAgree` and `WakeUpsKept`, for any clients, topics,
matching and number of messages, with deaths.  The invariant `PInv` says that both
what is committed and what the lock's holder sees are sound (typed, and
subscriptions agree), that nobody but the holder sees anything else, and that every
connection is `Quiet` beside either: who sleeps on a message has missed a signal.
Signals come before the commit that makes the message visible, so the property has
to hold for `work` before it can hold for `db`, which is why it is stated of both.
Lemmas say what subscribing, unsubscribing, receiving and sending do to a sound
database; `CommitInv` and `KeepInv` lift them to a step, of which there is one per
action.  `HeadersFresh` (`FreshCommits`): who commits has read the header after the
last commit of another, but for a client that gives up channels and patterns at once
and one that meets a dead subscriber.  `FInv` says where a call can be with an old
header (`StaleExcused`): only in the steps after a commit in the middle of a command,
and there only with topics of both kinds, or with somebody dead.  That needs what a
client owns (`OwnTopics`), what it has given up so far when it closes (`ClosesOwn`),
and that the members a publication serves are subscribers unless one has died
(`Serves`).

The second part of `PubSubProofs`: the refinement `Delivers`, for any clients, channels, patterns and
number of messages, with deaths.  `ImplementsMailbox` has two hypotheses.  `OneMatch`:
no channel is matched by two patterns; else the second is never served (section 4).
`Apart`, of every state: a publisher that has served some members and cleans up after
a dead one has no id of its own; else the clean-up commits, and with it half the
publication.  A publisher gets an id by subscribing or by waiting for a message, so
where publishers do neither (`OnlyPublish`, as in the run `pubsub`) `Apart` holds by
itself: this is `PublishersDeliver`.  With the id, the publication still arrives, but in
more than one commit, and what comes after the clean-up goes to the wrong database.
The first part is about lists: a list that is `Whole` can be cut into messages up to
its last element; appending a message to a whole list adds one to what `Messages` cuts
out of it (`Appended`), and what a poll takes off is the first of them (`Polled`).
`Messages` is defined by a recursive function, so this rests on `Induction`.  The
second part is the invariant `DInv`: a committed list is whole; if there is a
publication under way its publisher has the lock, and for each client the holder's list
is the committed one with the mail of the topics that reached it so far (`Halfway`),
where a topic has reached all its subscribers but those left to serve, unless one of
them has died (`Reached`); otherwise the holder sees what is committed.  The third part has
a lemma per action.  Only five of them are seen by the boxes: two kinds of subscription
change, `Received`, a death, and the commit in `EndPublish`, where the publication enters
all boxes at once (`BoxesPublish`).

`DataTypesProofs`: `AlwaysStringsOwned` and `AlwaysScoresAgree`, for every command of
`DataTypes` in any order and number, for any keys, strings, members, fields, lists of
arguments and sources, and bound on their number.  Scores, increments, offsets, positions
and ranges are those that the actions enumerate, but the lemma on each command has them
for any (`ZincrbyCommandRest`: any increment; `ZremrangeCommandRest`: any range).  There
are two assumptions.  `CommandsAssumption` says what the parser of arguments guarantees: names
are strings, and a command that takes several members or source keys has at least one.
`LoadsAssumption` says that the databases to begin with are at rest; an empty one is
(`EmptyAtRest`), and TLC evaluates both for the eight of the run `types`.

Neither property is inductive.  Whether ZREM leaves the two structures of a sorted set
the same depends on the skiplist's being sorted where it looks, on each member's being
there once, and on the node's string saying the member that the tree has; whether any
deletion leaves a string to another key depends on what all the other keys hold.  So
the invariant, `AtRest` of `Owned.tla`, says of each key that its value has the form of
its type and goes with its strings (`IsList`, `IsSet`, `IsHash`, `IsZset`), of two keys
that they hold no string together, of each string that some key holds it, and of lists
that none is empty (RPOPLPUSH and LTRIM rest on that).  It too holds only between
functions of `type_*.c`: within one, strings are made before the value that is to hold
them is written, others are deleted before the value forgets them, and a new list is
empty.  `Own(d, loose, bare)` is `AtRest` up to those: `loose` are the strings that nobody
holds yet, or any more, and `bare` the keys whose lists may be empty.  The lemmas of
`OwnedProofs` first say how each step of `Keyspace.tla` changes `loose`
(`SetStringOwn`, `KeyDeleteOwn`, `KeySetOwn` and those like them), then, type by type,
that a function which begins at rest ends at rest, on every way out; for sorted sets they
also say where `Before`, a comparison of bytes and lengths, is a strict order
(`SortsOrder`), and that the node which a removal finds is the member's.  The *STORE
commands need more than `AtRest`: what was read from the sources must still be true of
them while the target, which may be one of them, is deleted and filled.  In
`DataTypesProofs` there is a lemma per command.

Most of these functions loop over arguments, and a loop's result is a fold, of which
nothing can be proved without induction on an operator.  No installed prover can apply a
theorem to an operator, but INSTANCE can: `Loops.tla` has the loop's step and its
invariant as CONSTANT operators and proves `LoopKeeps` once, and each loop is an instance
of it.  A loop's own variables come in as a context, which the step and the invariant
take as their first argument.  The fold of the model is the instance's `Loop` by
definition.

For these proofs four things in the models were put another way, with the same meaning.
`Put` updates a function where `:>` and `@@` did.  `StringsOwned` counted strings, and
now says that the places of a value have different strings.  `ScoresAgree` compared the
skiplist with a recursively sorted sequence, and now says that it is sorted and has the
tree's members.  The merge of ZUNIONSTORE with MIN or MAX counts its nodes instead of
concatenating them.

Only model-checked: that `crash_unflushed` and `cleanup` fail; all liveness, which is out of
the prover's reach; the refinement `Implements` of the data types, with what versions and
reads show (`VersionsMove`, `ReadsAgree`); and the B-tree and the structures,
where the proofs would go by induction over the levels of a tree and the pages of a list.

## 6. The plan

Done: `PageLayer` and `Pager`, with proofs; `Wal` against `AtomicStore`, with proofs;
`Transactions`, with its first proofs; `BTree` against `Dictionary`; the other
structures; the data types against `Values`, with proofs that every string has one owner
and that sorted sets agree; `PubSub` against `Mailbox`, with proofs.

Next, in this order:

1. Proofs: lemmas on one level of a B-tree (what `Inserted`, `Split`, the borrows and
   `Merge` do to the elements of the nodes they touch); `ReadsAgree`, for which the lemmas of
   `OwnedProofs` have what the reads need of a database.
2. `PageCache`: the sorted arrays with `rl_search_cache`, a pure algorithm checked
   against a function from pages, to discharge the abstraction of `PageLayer`.
3. The composition of a data type with its structures: a sorted set over the pages
   of its tree and its skiplist, so that `StringsOwned` becomes a statement on pages.
4. SORT, and the length encodings of DUMP.

Not modelled of the modelled parts: the float increments (INCRBYFLOAT,
HINCRBYFLOAT) and scores that are not whole numbers; PUBSUB CHANNELS, NUMSUB and
NUMPAT, which only read; `rl_randomkey`, `rl_btree_random_element` and the position it
computes in floating point (`page_btree.c:270`); `rl_write_wal`,
`rl_list_find_element` and `rl_multi_string_cmp`, which no command calls; a clock
that moves within a command; two connections of one thread to the same file, the
second of which waits for a lock that only the first can give back
(`hirlite.c:1040`); failures of allocation and of I/O; loss of power.

Not to be modelled: Lua scripting and the R glue (conversions without protocol of
their own), HyperLogLog with the PF* commands (floating-point estimates over 16384
registers), DUMP and RESTORE but for their length encodings, the utilities without
state, the vendored Lua.
