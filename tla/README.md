# TecnicoFS and its message broker in TLA+

The repository holds two exercises: `projeto-1`, a file system kept in memory
(TecnicoFS) with links and fine-grained locks, and `projeto-2`, a message broker
that stores its message boxes in a simpler TecnicoFS. This directory models the
second from the tables of the file system up to the clients and the bytes in
their pipes, and the first for a single caller and for several threads.

    tlc -workers 2 -config tfs_tables.cfg MCTfs     # one of the runs below
    tlapm TfsProofs.tla                             # the proofs

## The system

### Parts, state and operations

| Part | State | Operations | What makes it correct |
|---|---|---|---|
| File system, `projeto-2/fs` | inode table, block bitmap, blocks, one root directory, open file table | `tfs_init`, `tfs_destroy`, `tfs_open` (create, truncate, append), `tfs_close`, `tfs_write`, `tfs_read`, `tfs_unlink` | directory and inodes in step; no block shared or lost; reads and writes stay inside a file |
| Queue, `projeto-2/producer-consumer` | ring of slots, head, tail, size; a lock and a condition variable for each side | `pcq_enqueue` (main), `pcq_dequeue` (workers) | bounded FIFO; nothing served twice or torn; nobody sleeps while there is work |
| Broker, `projeto-2/mbroker` | list of boxes with counts of publishers and subscribers, `active_boxes`; locals of each session | sessions of a publisher and of a subscriber, creation, removal and listing of boxes | list and file system agree; handles have one owner; subscribers hear of messages and removals; boxes with a publisher stay |
| Clients, `publisher`, `subscriber`, `manager` | a session pipe each | register, send, receive, ask and print | whole records; a reply to each request; an end to each list |
| Wire protocol, `utils/wire_protocol.c` | none | encode and decode records | decode after encode gives the fields back |
| First file system, `projeto-1/fs` | as above, and link counters, symbolic links, a rwlock per inode and table | the calls above, `tfs_link`, `tfs_sym_link`, `tfs_copy_from_external_fs` | link counters count names; failures undo; calls of many threads are linearizable |

Clients write a request into the broker's register pipe. Main reads it,
broadcasts `write_cond` and puts it in the queue; a worker takes it, broadcasts
and runs the session to its end. Publishers and subscribers meet only in the
files of the boxes and on `write_cond`: a publisher appends and broadcasts, a
subscriber reads and, when there is nothing, waits.

### What is hard about it

* Only the calls of `projeto-2/fs` are under a lock. The list of boxes, the
  counts in it and every decision made from them are not, so each session may
  act on what another has changed.
* A box can be removed under a subscriber's handle and its inode reused.
* The queue's two sides use different locks, and each reads what the other
  writes; signals are sent without the lock of the side that waits.
* Failures half way: a full directory, a full open file table, a client that is
  gone, a reply that cannot be sent.
* Unsigned subtractions at the ends of files and blocks.
* Records of one size are written into pipes, and read at another place by a
  reader that counts bytes; the publisher's stream begins with a byte that
  belongs to no record.
* In the first file system: counters that must follow the names of a file, links
  that lead to names which are unlinked and created again, a text without a
  terminator, handles to inodes that have become something else; and, with several
  threads, entries found and changed under no lock, truncation and unlinking under
  locks for reading.

`PROJECT.json` lists these as hazards, each at its line.

## The modules

| Module | Models | Extends or instantiates |
|---|---|---|
| `TfsState` | the tables and routines of `fs/state.c` | |
| `Tfs` | the calls of `fs/operations.c`, one action each or one per outcome | extends `TfsState`, instantiates `FileStore` |
| `FileStore` | what the calls promise: named byte strings and handles | |
| `TfsProofs` | theorems about `Tfs` and any callers | extends `Tfs` |
| `TfsPoliteProofs` | theorems about `Tfs` and polite callers, and that it implements `FileStore` for them | extends `TfsProofs` |
| `PcQueue` | `producer-consumer.c` access by access, and the copy at `mbroker.c:467` | instantiates `BoundedFifo` |
| `BoundedFifo` | a bounded queue | |
| `PcQueueProofs` | theorems about `PcQueue`, and that it implements `BoundedFifo` | extends `PcQueue` |
| `Broker` | `mbroker.c`: main, `thread_manager`, sessions, managers, listings | instantiates `Tfs` |
| `BrokerProofs` | theorems about the broker's tables, sessions, handles, list of boxes and listings | extends `Broker`, instantiates `TfsProofs` |
| `WireProtocol` | the encoders and decoders of `wire_protocol.c` | |
| `Requests` | requests and replies in their pipes: `manager.c`, the registrations of `pub.c` and `sub.c`, main, and `thread_manager` with the slots of the queue | instantiates `WireProtocol` |
| `RequestsProofs` | theorems about `Requests` | extends `Requests` |
| `Sessions` | `pub.c` and `sub.c` against the workers that serve them, one box | |
| `SessionsProofs` | theorems about `Sessions` | extends `Sessions` |
| `TfsLinks` | `projeto-1/fs`, one caller | |
| `TfsLinksProofs` | theorems about `TfsLinks` | extends `TfsLinks` |
| `TfsThreads` | `projeto-1/fs`, several threads, split at its locks | extends `TfsLinks` |
| `TfsThreadsProofs` | theorems about `TfsThreads` | extends `TfsThreads`, `TfsLinksProofs` |
| `MCTfs`, `MCPcQueue`, `MCBroker`, `MCRequests`, `MCSessions`, `MCTfsLinks`, `MCTfsThreads` | small instances | |

Definitions named "Mutation" in a module are the code with a plausible mistake.
Nothing uses them; each shows that one property can fail.

### TfsState and Tfs

The variables are the tables of `state.c`, by name, plus `status`. Two
representations differ. The block of the root directory never moves, so the
entries in it are the variable `dir_entries`, and block 0 stays unused in
`fs_data`. A name is a model value, and those longer than `MAX_FILE_NAME - 1`
are in `LongNames`.

Every call takes `g_library_mutex` first and gives it back last, so a call is one
action. `tfs_init` and `tfs_destroy` do not take it; the broker calls the one
before it starts workers and the other in its signal handler. A call that returns
-1 before it changes a table is a stuttering step, which `[][Next]_vars` allows;
a call that fails later has an action for it (`OpenCreateUndone`, the second
disjunct of `add_to_open_file_table`). `tfs_write` is called with a length up to
`MaxTransfer` and one byte value; what the property of a write depends on is
which cells it fills. An assertion that fails, or a copy with a length that
wrapped around, sets `status` to "aborted". `OffsetOf(h) > SizeOf(h)` is how
`i_size - of_offset < 0` looks without the wrap-around: the length read is then
all of `len`.

`state_init` mallocs the blocks, and the directory's `d_name` fields are not
reset, so after `tfs_init` they hold any names (`FreshTables`); `state_destroy`
and the initial state hold canonical values, which nothing reads.

`Spec` allows any caller. `PoliteSpec` is for callers that neither truncate nor
unlink a file that is open; the code leaves this to its callers, and `FileStore`
is what they get.

### PcQueue

Pushers and poppers each have one lock (`owner`) and one set of sleepers
(`asleep`), and a step is one shared access: the test of a loop, the release and
sleep of `pthread_cond_wait`, a copy begun and ended, a store to the tail, a load
and a store of the size, a signal, an unlock. `pcq_tail_lock` and `pcq_head_lock` are taken only
inside the sides' locks and never block; they are left out. The k-th request is
the number k, and `Torn` is a slot, or a copy, with bytes of two requests.

The code's data races have the outcomes that its builds produce. `size++` and
`size--`, under different locks, are a load and a store in every build (`Count`,
`StoreSize`), and an update can be lost; `undercounted` is history, and says that a
dequeue has stored its count over an enqueue's. `splitWrap` is the build, chosen by
`Init`: `tail++` and `tail % capacity` are two stores, as `-O0` compiles them (`make
OPTIM=no`, Makefile:61-65); with `-O3` they are one. Spurious wakeups are allowed.

### Broker

A worker's `pc` says where in its session it stands and `job` holds the locals.
A step is one call into the file system, as the action of `Tfs` that models it, or
one access to the list of boxes, with the statements around it that touch nothing
shared, such as the pipe probe of a subscriber (mbroker.c:198). What the call returns is a choice that follows the table: the first
free handle, or -1. `boxes` and `active_boxes` are as in the code, with `NoName` for
the empty string. No lock protects them: that a box is looked up and its count of
publishers tested are two steps, each `++` and `--` is a load (`PubCount`, `SubCount`,
`PubLeave`, `SubLeave`, `CreateActive`, `RemoveActive`) and a store, and a creation
and a removal store the name, the two counts and `active_boxes` one after the other.
`get_box_index` may return -1, which `remove_box` uses as it comes: the value read at
`boxes[-1]` is any, and stores there change nothing in the model. A search of the
list, and a copy of a name into it, is one step: names read while they are being
copied are not modelled.

A message is one byte, so a block of `BLOCK_SIZE` cells takes that many. Clients
are nondeterministic: wherever the broker opens, reads or writes a pipe it may
succeed or find the client gone. Writing to a pipe without reader kills the
process (status "killed") until a subscriber session has made it ignore
`SIGPIPE`. The queue is a counter of requests that were read and not taken, at
most one more than its capacity (main holds one while the queue is full); what a
request asks is chosen when a worker takes it. `PcQueue` says what the real queue
adds to that.

`list_boxes` is five steps for each place of the list: `active_boxes` is read
twice for a record, and again for the next one, and the box is opened by name,
while other workers create and remove. A listing returns early when a box cannot
be opened, and the record marked last is then never sent.

Three history variables say which promise a behaviour has spoilt, and only
properties read them. `overlapped`: two creations or removals were served at
once. `undisturbed`: the listings that none of them overlapped. `lapses`:
"uncounted", a session ended by a way out that does not count down
(mbroker.c:121, :136, :183); "removed", a box lost its place in the list under a
publisher's session, whose index then counts on whatever box comes next, or under a
removal that had found it there; "raced", a publisher was counted after another
session or a removal had read the same count; "doubled", a creation listed a name
that an overlapping one had listed meanwhile; "lostPublishers" and
"lostSubscribers", a count was stored by somebody who took it for another than it
was: by a `++` or `--` that another one has overtaken since its load, or by a manager
who clears the count of a box that a session has been counted at.

### WireProtocol and Requests

`WireProtocol` has the records at the offsets that are written out in the code.
An array is a function from its indices to bytes, a byte of a value is the pair of
the value and the byte's number, and `Stray` is a byte from outside the array
that is read. Encoders return what `encoded` holds afterwards, decoders what
their results hold, both of them the old contents when the length is too small.

`Requests` puts them to work between the processes. Every client writes one
request of 291 bytes, whatever its record's size; main reads 291, and the queue
keeps 1026 of the array behind it (the 735 bytes past its end are `Stray`).

`elements` is what main has enqueued, from the first on, and a worker that dequeues
one (`WorkerDequeues`) remembers its number until it copies the slot
(`WorkerServes`), in whatever order the workers come to that. `threads` are the
workers that the broker was started with, and the queue has as many slots; what went
into the same slot meanwhile (`Later`) may be in the copy, whole or in part
(`Copies`): either of the two names may be a later request's or, torn, nobody's.
`overtaken` is history and has the requests that were copied so late. `MainReads`
never waits for room: the count that `pcq_enqueue` waits for may be too low
(`PcQueue`), and what it does when it is right is among what the model does. That
is the optimised build, for which `PcQueue` shows that nothing else befalls an
element. The worker decodes what the code in the first byte says. The answer itself is a
choice (`Broker` is about that), the way back is not: one record of 1030 bytes
for a creation or a removal, a record of 63 for each box of a listing, read by a
manager that loops until one is marked last. Sessions, and the records of a listing
after it was decided, go on beside the worker, which is free at once. A name is a model value; one in
`LongNames` fills its array up to the terminator, the others take three bytes and
leave the rest of the array as it was on the stack. No record is longer
than `PIPE_BUF`, so a write is one step.

What the code has otherwise than its comments, and the model follows:

* a response is 1031 bytes, and the encoder tests for 1030 and writes the last
  byte of the message behind the array (wire_protocol.c:48, :56);
* a removal is answered with the code of a creation, 4 where the comment at
  wire_protocol.c:151 has 6 (mbroker.c:351, :380); the manager does not look at it;
* `list_boxes` passes subscribers and publishers in that order to an encoder
  whose parameters are publishers and subscribers (mbroker.c:444-445,
  wire_protocol.c:196), which `wire_counts` shows;
* the manager tests `last` before anything is stored in it (manager.c:154, :175):
  `StartListing` chooses its value, and with 1 the answer stays unread.

### Sessions

One publisher, one subscriber, their two workers, one box and one removal. The
publisher's pipe is a stream: a byte written to test the pipe (pub.c:97) and then
records of 1026 bytes. The broker reads up to 1026 bytes from wherever it stands
(mbroker.c:133), so the byte for the test may be read alone or with the first
record, which shifts every later read: `Decoded` says which line a shifted read
contains and from which of its characters on. The box holds 1024 bytes (`size` of
them used, its inode's `i_size`) and the last message is cut to the room there is. The subscriber gets all that is new in
one record, prints its lines, and opens its own pipe by name after each record,
to see whether the session goes on, without ever closing it (sub.c:97): without
the name it drops the record it has just read, with the name and without a
writer it hangs in `open`. Lines are the lengths that are told apart: empty,
short, and one that fills the box but for two bytes.

Left to `Broker`: handles, counts and boxes that share an inode. `pub.c` copies a
line into an array of 1024 without a test; `SessionsAssumption` keeps to lines
that fit.

### TfsLinks

The calls of `projeto-1/fs`, each one action for a single caller, over the same
tables with a type and a link counter in the inodes. What the callers of the
first file system can see of its locks when there is only one of them is nothing:
no call takes a lock that it holds. `free_open_file_entries` is folded into
`open_file_table` (`Closed`). Of the bytes of a block only the path they spell is
kept (`text`), and the path of a link fills one cell.

`tfs_open` follows links by calling itself: `ChainFrom` is the set of names it
passes through, the least that contains the first and every link's target, and a
chain without an end is a process without a stack
(`OpenLoops`). Each link's text is read without a terminator, so the path that is
opened next is the target or `Garbled`, a name that stands for the target and what
follows it in memory and that no caller passes. `verify_symlink_recursion` copies
eight bytes of each link instead, as many as a pointer has (operations.c:167-169),
and goes on with the name that they spell: the target when it is shorter, its
beginning when it is longer, or a listed name that an earlier use of the block has
made of it. `ReadsAs` says which names the bytes of a link to each name may spell,
`ReadChain` is the chain as it is read then, and "misread" the lapse that a link of
it was read as another name than its target. When no listed name is spelt,
`inode_get(-1)` ends the process (`SymLinkAborts`). A write through a handle to a
deleted file goes into the block that its inode still names, whoever has the block
by now, and takes a block only when the size is 0 (`BlocksAfterWrite`); when the
inode is now a link, it spells any path (`TextAfterWrite`). `tfs_copy_from_external_fs` writes until the source ends or
the block is full, a chunk an action, while no other call is made.

When the process is gone (`abort`) or the file system destroyed the tables are
gone too (`TablesGone`). `lapses` is a history variable and nothing reads it but
properties: "relinked" when a link took a listed name, "orphaned" when the last
name of an open file was unlinked, "misread" as above, "spilled" when a link call
failed halfway.

### TfsThreads

The same tables, and threads whose calls are split where the code lets another
thread in. Each inode's rwlock (`readers`, `writer`) is held across steps; the
mutexes of the free lists are held within one. A lookup takes the lock of the
directory's entry 0 (`Lookup`), searches and gives it back (`FindInDir`);
`add_dir_entry` takes no such lock, and initialises that of the entry it fills
(`AddStore`), so that for entry 0 it is nobody's from then on (`dirLock`). A lookup
that comes to give back what it does not hold (`UnlockUndefined`) may do any harm:
the model ends there, or goes on with the lock free. What the code does under no lock
that its rivals share is a step of its own: looking a name up and using the
number, finding an unused entry, storing its number and storing its name, finding an
entry and clearing it,
loading, storing and testing the link counter (under the lock for reading), the
test, the release and the reset of a truncation (likewise), the two releases of a
symbolic link's block.

A thread has one handle at a time and uses only that one, writes one byte at a
time, and links names of files; reads, which change the offset of their own
handle and nothing else, copies from outside, and links to links are in
`TfsLinks` only. `ThreadsInit` is what the tests set up before they start their
threads: one file, empty or not, perhaps with a hard or a symbolic link.

`apart` is history: no two calls of an `Unsafe` pair have been under way
together, and nobody has initialised the lock of entry 0 under a lookup. The pairs
are an unlink and anything, two calls that add an entry, and two truncations. `shared`: two threads have had files open together.

## The runs

| Run | What it checks | Result |
|---|---|---|
| `tfs_tables` | `TypeOK`, `DirectoryMatchesInodes`, `BlocksExclusive`, `DirectoryBlockSafe`, `UnlinkClearsWhatItFound`, any callers | hold; 587 000 states |
| `tfs_store` | `HandlesInsideFiles`, `NoBlockLeaks`, `StoreSpec`, polite callers | hold; 117 000 states |
| `pcq_fifo` | `TypeOK`, `NoPhantomDequeue`, `TornOnlyWhenLapped`, `FifoSpec` | hold; 4 482 000 states |
| `broker_boxes` | `TypeOK`, `HandlesOwned`, `ListMatchesStore`, `CountsMatchSessions`, `OnePublisher`, `RemovedWithoutPublisher`, `ListingTellsTheTruth`, `ListingStopsShort` | hold; 1 802 000 states |
| `broker_wakeups` | `SleepersAreWoken` | holds; 918 000 states |
| `wire_requests` | `RequestsArriveWhole`, `RepliesReachTheirManagers`, `ListingArrivesWhole` | hold; 467 000 states |
| `sessions` | `StoredAsTyped`, `NothingLeftInThePipe`, `PrintedAsStored`, `OnlyRemovalEndsASession`, `PublisherReleasesWorker` | hold; 773 000 states |
| `links_tables` | `TypeOK`, `EntriesBacked`, `BlocksExclusive`, `NothingLeaks`, `SymlinksTerminate` | hold; 177 000 states |
| `links_threads` | `SafeApart`, `AppendsKept` | hold; 2 640 000 states |
| `pcq_stall` | `NotAllAsleep` | violated |
| `broker_stale_handle` | `NoAssertionFails` | violated |
| `wire_counts` | `CountsInTheirColumns` | violated |

The three violated properties state what a header, an assertion and a comment of the
repository say; `findings` in `PROJECT.json` quotes them:

* `pcq_stall`: a full ring has head = tail, which is also the test for empty.
  The workers sleep on the one, main on the other.
* `broker_stale_handle`: a box is removed and created again between two steps of
  a subscriber, whose handle now stands past the end of an empty file; the read
  asks for block -1, and the assertion ends the broker.
* `wire_counts`: the record of a box has the publishers first (wire_protocol.c:189),
  and the manager prints them first (manager.c:193); `list_boxes` passes the
  subscribers first (mbroker.c:445).

Other promises of the repository hold only under a condition. The property states
the condition, so that the run shows what is left of the promise:

* `NoPhantomDequeue` needs the optimised build. With `splitWrap` a worker that
  looks at the tail between its increment and its wrap finds an empty queue not
  empty and dequeues a slot nobody filled (`producer-consumer.c:81`).
* `TornOnlyWhenLapped`: `pcq_dequeue` releases the slot that it returns. The
  worker receives the element it removed (producer-consumer.h:47) unless main has
  come round to that slot before it has made its copy. `RequestsArriveWhole` has the
  same condition for what a request is decoded as, request by request; with
  `overtaken` left out of it, TLC finds it violated on the same instance.
* `FifoSpec` ends where a dequeue has stored its count over an enqueue's
  (`undercounted`): the count is then too low for good, and a request can be written
  over one that nobody has read. A lost decrement makes the count too high, and the
  queue remains a FIFO, of which a part is never used again.
* `SleepersAreWoken`: a broadcast wakes who sleeps. One that comes between a
  subscriber's empty read and its wait is lost (mbroker.c:204-210), and the
  subscriber sleeps over its message until the next.
* `RemovedWithoutPublisher` and `OnePublisher`: the count that the broker tests is
  read without a lock. Once a publisher is counted behind the test ("raced"), a
  box with a publisher may be removed, although the comment at mbroker.c:326 says
  otherwise, and two may publish to one box. The same comes of a count that is lost:
  `create_box` makes the name known before it clears the counts, so that a publisher
  may be counted in between and forgotten at mbroker.c:299. A name that two
  overlapping creations have both listed ("doubled") has its publisher counted at
  one place while the removal looks at the other, and one whose place was taken from
  it ("removed") is not looked for there. That takes three workers, and so
  it is an attempt at the proof, not the run, that found it.
* `CountsMatchSessions`: the counts are those of the places that sessions keep the
  number of, until a store to one loses another (`LosesPublishers`,
  `LosesSubscribers`) or a session ends uncounted. Each is recorded at the step that
  does it, and nothing else can make a count differ.
* `ListingTellsTheTruth` and `ListingStopsShort` are about listings that no
  creation or removal overlaps. One that is overlapped may count wrong, mark no
  record last, or stop, and the manager waits for ever.
* `OnlyRemovalEndsASession`: after the removal a slow subscriber loses what it has
  been sent but has not read before the broker unlinks its pipe. A publisher that
  dies before it opens its pipe leaves its worker in `open` for ever; that is why
  `PublisherReleasesWorker` begins with the pipe open.
* `SafeApart`: the first file system's threads are safe from each other except
  for the `Unsafe` pairs. No pair is there for nothing: with any one of them taken
  out of `Unsafe`, TLC finds `SafeApart` violated on the same instance. The other
  condition is needed as well: a file that is opened while another is created in entry
  0 ends with a lookup that unlocks what it does not hold (projeto-1/fs/state.c:410).
* `AppendsKept`: `ST_TEST_threads_test_write_onto_same_file.c:57` expects every byte
  that its threads append. The offset of an append is the size at `tfs_open`, so
  the code keeps them only when no two threads have files open together.
* `SymlinksTerminate` needs callers who link no listed name. With files a and b,
  `sym_link(b, a)` lists a second a behind the first; after `unlink(b)`,
  `sym_link(a, b)` is accepted, because a is still a file; `unlink(a)` uncovers
  the link, and a and b lead to each other, although
  `tests/ST_TEST_symlink_recursive.c` says of two such links that making them
  fails. It needs that the code reads links as what they lead to, besides
  ("misread"): with files `/abcdefg` and `/abcdefgh`, a link T to the second, and the
  second unlinked, a link from T to `/abcdefgh` is verified by looking at `/abcdefg`,
  and T and `/abcdefgh` lead to each other. `NothingLeaks` likewise excludes link calls that failed halfway:
  `tfs_link` leaves the counter raised, `tfs_sym_link` an inode and a block taken.

### Bounds

* `tfs_tables`, `tfs_store`: two short names and a long one, 3 inodes (root and
  two files), 3 blocks, 2 directory entries, 2 handles, blocks of 2 bytes. That is
  the least at which the directory and the inode table fill up, an inode and a
  block are reused while a handle to their former file is open, two handles share
  a file, a write is clipped and an offset stands past the end. With 2 entries
  and 2 blocks for files the directory fills before the inodes and the blocks
  run out only through deleted files that are still written to, as in the code.
  `MaxOffset` stops the growth of offsets past the end of a file; `MaxTransfer`
  is a block.
* `pcq_*`: one main thread, as in the code, two workers, capacity 2, and 4
  requests, so the indices wrap twice, the ring fills, and two workers compete.
* `broker_boxes`: two workers, three names, two places for boxes, two handles (so
  that the open file table fills), blocks of two messages, four requests: create,
  create, remove and create fill, empty and refill a place while another session
  runs; two workers are enough for a load and a store with another's store in
  between, and for a session between the stores of a creation. `broker_wakeups` and `broker_stale_handle` have one box; the latter needs
  its five requests.
* `wire_requests`, `wire_counts`: two clients, so that requests can mix and pass one
  another, one worker, whose only slot is then written again under it, or (in the
  first) two, which copy in either order, two boxes, a long and a short name of each, listings of up to two records (none, a
  last one, one before the last). Sizes of arrays are the code's own.
* `sessions`: three lines, of 0, 3 and 1022 characters: the second read of a
  shifted stream is one that begins and ends inside records, two lines fill the
  box, and a long one is cut. Two descriptors are less than the records that can
  be sent.
* `links_tables`: two short names and a long one, 3 inodes, 3 blocks, 2 entries,
  one handle, blocks of one cell. A file and a link, two names of one file, or two
  links fill the directory; an inode passes from a deleted file that is still open
  to a link or to another file; blocks run out through deleted files. Two names
  make the shortest cycles of links; for longer ones there is the theorem
  `ChainsEnd`. `MaxCounter`
  bounds how often `tfs_link` may fail on one file.
* `links_threads`: two threads with two calls each besides closing, since every
  race is one of two calls, and an append is an open and a write; two names, 4
  inodes, 4 blocks, 3 entries, 2 handles, blocks of two bytes, so that what one
  thread's two calls and the other's need can be had, and the third entry is what
  they compete for.
* Symmetry is over names, bytes, workers or threads and only in runs without liveness.
  `StoreSpec` is a safety property, although it is given as a PROPERTY.
* `CHECK_DEADLOCK FALSE`: in `tfs_tables` and `links_tables` an aborted process takes no step; in
  `pcq_*`, `broker_*`, `wire_*` and `sessions` the program may stop when what
  the bounds allow has been served, or for the reasons found above. `tfs_store` and
  `links_threads` check for deadlock: in the latter only ended threads
  (`Ended`) may stop, so no two calls block each other on the inodes' locks.

### Fairness

`broker_wakeups`: weak fairness of each worker's steps that wait for nobody
(`Running`), which a scheduler of threads gives. Steps that open, read or write a client's pipe, the arrival of
requests and spurious wakeups are not fair: a client may never answer.

`sessions`: weak fairness of each worker's steps, likewise. Users need not type, quit or read. The worker's fairness does not make
`open` return: that is a step both ends take.

## The proofs

`tlapm` checks every theorem for all values of the constants, under the named
assumptions of the modules (`TfsAssumption`, `BoundsAssumption`,
`PcQueueAssumption`, `BrokerAssumption`, `LinksAssumption`, `ThreadsAssumption`,
`RequestsAssumption`, `SessionsAssumption`: sizes are natural numbers, names that mean "none" are not
names, the tables have room for the files that the first file system's threads
start from, and the like). TLC evaluates them in the runs, and it checked each
inductive invariant on the instance of its run before the invariant was proved.

`TfsProofs` proves, of `Spec`, that is of any callers:

* `TypeCorrect`: the tables keep their types; in particular no size exceeds a
  block, which rests on the clipping of `to_write`.
* `DirectorySound`, `FilesShareNoBlock`, `DirectoryOutOfReach`, `UnlinkSound`: the
  four invariants of `tfs_tables`.

The inductive invariant `IInv` is the conjunction of `TypeOK`,
`DirectoryMatchesInodes`, `BlocksExclusive`, `DirectoryBlockSafe` and
`StaleNamesLast`. The last is why `clear_dir_entry` may look at unused entries:
names in entries that are not used occur only behind all the used ones, because
`add_dir_entry` takes the first unused entry and clearing one erases its name.
Without it `UnlinkClearsWhatItFound` would not be inductive, and without that an
unlink could break `DirectoryMatchesInodes`. The proof has one lemma per call.

`TfsPoliteProofs` proves what callers get who neither truncate nor unlink an open
file: `PoliteCallersNeverAbort` (`HandlesInsideFiles`) and
`PoliteCallersLoseNoBlock` (`NoBlockLeaks`). `PoliteNext` has no step for the calls
that abort; the first theorem is therefore about `PoliteOrAbort`, which has, and
`PoliteNextIsComplete` says that they are never enabled, so that `PoliteSpec`
leaves no behaviour of such callers out. The inductive invariant is `IInv` with
the two: `HandlesInsideFiles` keeps the offsets below the sizes, so that
`block_size - of_offset` and `i_size - of_offset` do not wrap around, and
`DirectoryBlockSafe` gives every file with data a block to read. `IInv'` is not
proved again: `PoliteOrAbort` implies `Next`.

Its last part proves the refinement: `TablesImplementStore` is `PoliteSpec =>
StoreSpec`. `DirectoryMatchesInodes` makes a name's file, its bytes and its
handles functions of the tables, and each call maps to one step of `FileStore` or,
failing, to none. That the bytes of the other files stay is `BlocksExclusive`;
that `tfs_open` finds the name it has just added is `StaleNamesLast`.

`PcQueueProofs` proves four things of any number of threads on either side and
any capacity:

* `TypeCorrect`, in every build, and `DequeuesWhatWasEnqueued` (`NoPhantomDequeue`).
  The invariant says who holds which
  lock, that sleepers sleep, that threads run the code of their own side, that
  head and tail are the two counters modulo the capacity (`CountsAgree`), and that
  a popper past its test still has something to take (`PastTheTest`): only the
  popper with the lock moves the head, and the tail moves only forward. It does
  not need `pcq_current_size`.
* `ReceivesItsElement` (`TornOnlyWhenLapped`). `BInv` adds to the above what the ring holds: the last requests that fit are in their slots,
  but for the one whose slot a pusher is writing (`LastRequestsStay`), and what a
  popper has copied so far is its element unless the pushers came round.
* `RingImplementsFifo` (`FifoSpec`). While no increment was lost (`undercounted`),
  `SizeCovers` says that `pcq_current_size` is at least the number of elements between
  head and tail and at most the capacity, give or take a thread on each side that has
  moved its index and not yet counted, `RoomFound` that a pusher past its test finds
  its slot free until it fills it, and `LoadedHigh` that what it has loaded of the size
  is not too low. The properties name the build (`~splitWrap`), and the invariants are
  proved of the behaviours of that build (`Sure`).

`BrokerProofs` is about any number of workers, boxes and handles:

* `BrokerTypes` and `BrokerTables`: the invariants of `TfsProofs` hold of the
  tables that the workers share. A broker's step is a call of `Tfs` or leaves the
  tables alone, so the lemmas of `TfsProofs` are cited, not proved again.
* `CountsAreSessions` (`CountsMatchSessions`) and `PublishersAreAlone`
  (`OnePublisher`), from the invariant `Sessions`: until the lapse that spoils it,
  a session's place bears the name it asked for (`PlacesNamed`), no name is listed
  twice (`ListedOnce`), a count is at least that of the sessions even where some ended
  uncounted (`CountsCover`), and no two publishers share a place (`PublisherAlone`).
  What a step does to a count is either what it does to the sessions or a loss that it
  records (`Counting`).
* `NoneRemovedUnderAPublisher`, the action property `RemovedWithoutPublisher`:
  nobody past the test at mbroker.c:347 has the box of a publisher in hand
  (`NotBeingRemoved`, the last part of `Sessions`).
* `HandlesAreOwned`: each handle a worker holds is taken in the open file table,
  and two workers' are different. It needs nothing of the list.

Its last part has `ListIsTheStore` (`ListMatchesStore`), `ListingIsTrue`
(`ListingTellsTheTruth`) and the action property `ListingStops`
(`ListingStopsShort`). While one creation or removal is served alone, the list
and the directory differ by at most the box it is about, and by which one its
program counter says (`ListSound`), and `active_boxes` is the number of boxes but
for the one that it has not counted yet (`ActiveBoxesCounts`). `create_box` lists its box even when `tfs_open`
returned -1; that does no harm, because the list and the root directory have
equally many places, so a creation that finds no entry finds no place in the list
either. A listing that nothing overlaps has sent a record for each box before its
place, and the last is marked (`ListingSound`).

`TfsLinksProofs` proves the five invariants of `links_tables`: `LinksTypes`,
`EntriesKeepTheirInodes` (`EntriesBacked`), `BlocksHaveOneOwner`
(`BlocksExclusive`), `TablesDoNotLeak` (`NothingLeaks`) and `ChainsEnd`
(`SymlinksTerminate`). `CountersSound` says that a counter is at least the
cardinality of the entries with that inode, and 1 for a link; so the unlink that
brings a counter to 0 has removed the last entry. For `ChainsEnd` the invariant is
`LinksEndSound`: without "relinked", "orphaned" and "misread", out of any set of names that is
not empty some link leads, or one of them is no link (`LinksLeave`). A new link whose target leads to no ring adds none, since
its own name was not listed; unlinking only takes names away. The run has two
names and so rings of two; the theorem is about rings of any length.

`TfsThreadsProofs` proves the two invariants of `links_threads`,
`CallsApartAreSafe` (`SafeApart`) and `AppendsAreKept` (`AppendsKept`), for any
number of threads and calls. `SafeApart` is about moments at which no call is
under way, so its inductive invariant must say what the tables are like between
any two steps of any calls that the code keeps apart. `Apart` says it from the
side of the inodes and from the side of the threads (and `LooksAlone` says that the
one lookup under way has the lock of entry 0):

* What the tables are when nobody is at work on them, except for what somebody
  is: an inode's counter is the number of its entries unless a thread has it in hand
  (`CountersApart`, `InHand`), and its block is its own unless a thread is about to
  set it up, reset its size, or has freed it (`BlocksApart`, `Spared`).
* What a thread knows of the inode in hand, step by step (`Plan`): that it is
  still allocated and listed when a lookup found it (`PlanOfOpen`), that no entry
  names it yet while it is made (`PlanOfMaking`), that its counter is one ahead of
  its entries while a link is added or after an entry is cleared (`PlanOfAdding`,
  `PlanOfUnlink`), that the entry it is about to fill is still unused, or that the
  one it is about to clear is still the one it found.

A step then has to keep the plans of all others. This is where the `Unsafe` pairs
come in (`KindsApart`): next to an unlink no other call is under way, and next to
one that adds an entry the others only open or truncate (`OneChanger`,
`OnlyOpens`). The inode's lock keeps a write away from the one truncation
(`WritesAlone`). There is one lemma per action, and lemmas about what a kind of step
leaves alone (`PlanKept`, `CountersKept`, `BlockTaken`, `HandlesKept`).

Once a file was deleted while open ("orphaned"), a handle may write into an inode
that another thread is making. The number of its block is then overwritten when the
link gets one, so nobody owns the old block any more. The blocks of the inodes that
exist still differ; it is only that none is lost that has to be given up, as
`NothingLeaks` does.

For `AppendsAreKept` the invariant has `AppendsApart`: no two threads have files
open, and the offset of the one handle, or the one an open is about to store, is
not below the file's size.

`RequestsProofs` proves the three invariants of `wire_requests` for any number of
clients, boxes and rows: `RequestsAreWhole`, `RepliesAreTheirOwn` and
`ListingsAreWhole`. A pipe `Holds` a sequence of records when its bytes are
theirs, one behind the other, and reading a record's length from such a pipe
returns the first and leaves the rest (`ReadTakesFirst`). In the register pipe
these are the requests that were asked and not yet enqueued, and an element that was
dequeued is decoded as it was asked, or one worker has it still to decode, or its slot
was written again (`InOrder`). As long as no slot was, a client's pipe is empty,
or has its reply, or the rows it has not read (`Quiet`, `ReplySound`,
`ListingSound`). Lemmas on arrays say that a decoder finds what an encoder wrote,
whatever the array held before; they need that the first byte of a name is
neither the terminator nor a byte from outside the array, which
`RequestsAssumption` says.

`SessionsProofs` proves the four invariants of `sessions` for any number of lines
and any lengths that fit: `StoredInOrder` (`StoredAsTyped`), `NothingIsLeft`
(`NothingLeftInThePipe`), `PrintsWhatIsStored` (`PrintedAsStored`) and
`SessionsLast` (`OnlyRemovalEndsASession`). The heart of it is `StreamFramed`: the
worker has read k records, and the byte for the test besides or not; if it has,
every read begins one byte into the stream's frames but ends with the first byte
of a record that is there, so it is a whole read (`MessageIsRead`), and the shift
never changes again. On the other side `RecordsMarked` has a mark in the box for
each record sent, and what was printed goes from the beginning to the mark of the
last record read; `Counted` needs of the box (`BoxSound`) that only the last
message of a full one can be cut to nothing.

Only model-checked, and why:

* `SleepersAreWoken` and `PublisherReleasesWorker`: liveness
  under fairness is beyond the prover.
* What the recursive and folded definitions compute for every input: induction
  over data is, too.

## Not modelled

* Clients whose own `mkfifo` or `open` fails: they have made no request.
* In `TfsThreads`: reads, `tfs_copy_from_external_fs`, links to links, that
  `clear_dir_entry` destroys the rwlock of entry 0 (which in glibc leaves it as it
  is), and names that a lookup compares while `strncpy` writes them.
* The memory before `boxes` that `remove_box` reads and writes for a box that is
  not listed, and box names that are read or written while another copies them.
* In `Requests`, the build with two stores to the tail, where a worker may be given a
  slot nobody has filled: that is `PcQueue`'s.

Modelled, and no property's business: a worker that sleeps over a request, because the
signal of the queue came between its test and its wait (`producer-consumer.c:87`), and
a subscriber that sleeps over a message likewise. Both happen in the models, and no
document of the code says that they do not.
* SIGINT in the broker: `tfs_destroy` frees tables under running workers, and the
  process exits in the same handler.
* `pcq_destroy`, which only that handler calls, and the failures of `malloc` and
  `pthread_mutex_lock`.
* Logging, formatting, `insert_delay`.

## Plan

Done: `TfsState`, `Tfs`, `FileStore`, `TfsProofs`, `TfsPoliteProofs`,
`PcQueue`, `BoundedFifo`, `PcQueueProofs`, `Broker` with its
listings, `BrokerProofs`, `WireProtocol`, `Requests`,
`RequestsProofs`, `Sessions`, `SessionsProofs`, `TfsLinks`, `TfsLinksProofs`,
`TfsThreads`, `TfsThreadsProofs`. Every safety property that a passing run checks is a theorem.
What stays model-checked or is not modelled is listed above, with the reason.
