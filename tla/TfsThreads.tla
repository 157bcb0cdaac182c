----------------------------- MODULE TfsThreads -----------------------------
(***************************************************************************)
(* The calls of several threads to the first file system, over the tables  *)
(* of TfsLinks: projeto-1/fs, operations.c and state.c.                    *)
(*                                                                         *)
(* Each inode has a read-write lock, and each table of free entries a      *)
(* mutex; of the locks of the directory's entries, lookups take that of    *)
(* entry 0, and whoever fills an entry initialises its lock without taking *)
(* it.  A step is what a call does between two points at which another     *)
(* thread can change what it goes on to use: a mutex is held within a      *)
(* step, the other locks across steps.                                     *)
(*                                                                         *)
(* A thread uses only the handle it opened itself, and has one at a time,  *)
(* so that the locks of open file entries are never waited for.  Reads     *)
(* change nothing but the offset of their own handle and are left out.     *)
(***************************************************************************)
EXTENDS TfsLinks

CONSTANTS
    Threads,
    CallsEach,     \* bound: the calls of a thread
    NoThread

\* The tables have room for what the tests set up.
ASSUME ThreadsAssumption ==
    /\ NoThread \notin Threads /\ CallsEach \in Nat
    /\ INODE_TABLE_SIZE > 2 /\ DATA_BLOCKS > 2 /\ MAX_DIR_ENTRIES > 1

VARIABLES
    pc,
    call,          \* what each thread called, and its locals
    handle,        \* the handle it has open, else -1
    calls,         \* how many calls it made
    readers,       \* who holds the lock of each inode
    writer,
    dirLock,       \* who holds the lock of entry 0 of the directory
    apart,         \* history: no two Unsafe calls ran at the same time, and
                   \* entry 0 was not filled while a lookup held its lock
    shared         \* history: two threads had files open at the same time

inodeLocks == <<readers, writer>>
lockVars   == <<inodeLocks, dirLock>>
threadVars == <<call, handle, calls>>
pastVars   == <<apart, shared>>
tfsVars    == <<status, inodeVars, dir_entries, blockVars, open_file_table, callVars>>
allVars    == <<tfsVars, pc, threadVars, lockVars, pastVars>>

\* The flags of a tfs_open: TFS_O_APPEND, alone or with TFS_O_CREAT, and
\* TFS_O_TRUNC.  One with TFS_O_CREAT is "append" until its file is not found.
Opens == {"append", "truncate", "create"}
Kinds == Opens \cup {"link", "symlink", "unlink"}

\* Calls that the code does not keep apart: what unlinks and anything else,
\* what adds entries to the directory, and truncations.
Adders == {"create", "link", "symlink"}
Unsafe == {{"unlink", kind} : kind \in Kinds \cup {"write"}}
            \cup {{kind, other} : kind, other \in Adders}
            \cup {{"truncate"}}

NoCall == [kind |-> "none", name |-> NoName, target |-> NoName,
           creat |-> FALSE, inum |-> -1, slot |-> -1, offset |-> 0, count |-> 0]

Idle(t) == pc[t] = "idle"
Quiescent == \A t \in Threads : Idle(t)

-----------------------------------------------------------------------------
(* Threads, calls and locks                                                *)

File(size, bnum) == [NewInode("T_FILE") EXCEPT !.i_size = size, !.i_data_block = bnum]

\* Mounted, with a file that may hold a byte, and perhaps a hard or a symbolic
\* link to it, as the tests set it up before they start their threads.
ThreadsInit ==
    \E x, y \in Names \ LongNames, link \in {"none", "hard", "symbolic"}, size \in {0, 1} :
      /\ x # y
      /\ status = "mounted"
      /\ inode_table = [i \in Inums |->
            CASE i = ROOT_DIR_INUM -> [i_node_type |-> "T_DIRECTORY", i_size |-> BLOCK_SIZE,
                                       i_data_block |-> RootBlock, i_link_counter |-> 1]
              [] i = 1 -> [File(size, IF size = 1 THEN 1 ELSE -1) EXCEPT
                              !.i_link_counter = IF link = "hard" THEN 2 ELSE 1]
              [] i = 2 /\ link = "symbolic" -> NewSymlink(2)
              [] OTHER -> NewInode("T_FILE")]
      /\ freeinode_ts = [i \in Inums |->
            IF i \in {0, 1} \/ (i = 2 /\ link = "symbolic") THEN TAKEN ELSE FREE]
      /\ dir_entries = [s \in Slots |->
            CASE s = 0 -> [d_name |-> x, d_inumber |-> 1]
              [] s = 1 /\ link = "hard"     -> [d_name |-> y, d_inumber |-> 1]
              [] s = 1 /\ link = "symbolic" -> [d_name |-> y, d_inumber |-> 2]
              [] OTHER -> Unused]
      /\ text = [b \in Blocks |-> IF b = 2 /\ link = "symbolic" THEN x ELSE Garbled]
      /\ free_blocks = [b \in Blocks |->
            IF b = 0 \/ (b = 1 /\ size = 1) \/ (b = 2 /\ link = "symbolic")
            THEN TAKEN ELSE FREE]
      /\ open_file_table = [h \in Handles |-> Closed]
      /\ copying = -1 /\ lapses = {}
      /\ pc = [t \in Threads |-> "idle"]
      /\ call = [t \in Threads |-> NoCall]
      /\ handle = [t \in Threads |-> -1]
      /\ calls = [t \in Threads |-> 0]
      /\ readers = [i \in Inums |-> {}]
      /\ writer = [i \in Inums |-> NoThread]
      /\ dirLock = NoThread
      /\ apart = TRUE /\ shared = FALSE

At(t, step)   == pc[t] = step /\ status = "mounted"
GoTo(t, step) == pc' = [pc EXCEPT ![t] = step]
Set(t, field, v) == call' = [call EXCEPT ![t] = [@ EXCEPT ![field] = v]]
InumOfCall(t) == call[t].inum
InodeOf(t)    == inode_table[call[t].inum]

Lapse(what) == lapses' = lapses \cup {what}

Return(t) ==
    /\ GoTo(t, "idle")
    /\ call' = [call EXCEPT ![t] = NoCall]
    /\ UNCHANGED <<handle, calls>>

Unheld(i)      == writer[i] = NoThread /\ readers[i] = {}
ReadLocked(t)  == /\ readers' = [readers EXCEPT ![InumOfCall(t)] = @ \cup {t}]
                  /\ UNCHANGED <<writer, dirLock>>
WriteLocked(t) == /\ writer' = [writer EXCEPT ![InumOfCall(t)] = t]
                  /\ UNCHANGED <<readers, dirLock>>
Unlocked(t)    == /\ readers' = [readers EXCEPT ![InumOfCall(t)] = @ \ {t}]
                  /\ writer' = [writer EXCEPT ![InumOfCall(t)] =
                                   IF @ = t THEN NoThread ELSE @]
                  /\ UNCHANGED dirLock

SetInode(t, field, v) ==
    inode_table' = [inode_table EXCEPT ![InumOfCall(t)] = [@ EXCEPT ![field] = v]]

OtherCalls(t) == {call[u].kind : u \in {v \in Threads \ {t} : ~Idle(v)}}
HasFile(t) == handle[t] # -1 \/ call[t].kind \in Opens

\* Thread t goes on with a call of this kind.
Overlap(t, kind) ==
    apart' = (apart /\ \A other \in OtherCalls(t) : {kind, other} \notin Unsafe)

\* tfs_lookup, at the beginning of a call c or for the name a link leads to,
\* waits for the lock of entry 0.
Lookup(t, c) ==
    /\ dirLock = NoThread /\ dirLock' = t
    /\ call' = [call EXCEPT ![t] = c]
    /\ GoTo(t, "looking")

LookAgain(t) ==
    /\ At(t, "lookup")
    /\ Lookup(t, call[t])
    /\ UNCHANGED <<tfsVars, handle, calls, inodeLocks, pastVars>>

Sought(t) == IF call[t].kind \in {"link", "symlink"} THEN call[t].target ELSE call[t].name

KindFound(t) ==
    IF call[t].creat /\ ~Listed(Sought(t)) THEN "create" ELSE call[t].kind

StepFound(t) ==
    CASE call[t].kind = "link"    -> "writeLock"
      [] call[t].kind = "symlink" -> "allocInode"
      [] OTHER                    -> "readLock"

\* find_in_dir.  The number it returns is used after the lock is given back.
\* verify_symlink_recursion asserts that there is one, and passes: the callers
\* make links to files.
FindInDir(t) ==
    /\ At(t, "looking")
    /\ dirLock' = NoThread
    /\ Overlap(t, KindFound(t))
    /\ \/ /\ Listed(Sought(t))
          /\ call' = [call EXCEPT ![t] = [@ EXCEPT !.inum = find_in_dir(Sought(t))]]
          /\ GoTo(t, StepFound(t))
          /\ UNCHANGED <<status, handle, calls>>
       \/ /\ ~Listed(Sought(t)) /\ KindFound(t) = "create"
          /\ Set(t, "kind", "create")
          /\ GoTo(t, "allocInode")
          /\ UNCHANGED <<status, handle, calls>>
       \/ /\ ~Listed(Sought(t)) /\ KindFound(t) = "symlink"
          /\ status' = "aborted"
          /\ UNCHANGED <<pc, threadVars>>
       \/ /\ ~Listed(Sought(t)) /\ KindFound(t) \notin {"create", "symlink"}
          /\ Return(t)
          /\ UNCHANGED status
    /\ UNCHANGED <<inodeVars, dir_entries, blockVars, open_file_table, callVars,
                   inodeLocks, shared>>

\* The lock was initialised again under the lookup, which then gives back what
\* it does not hold.  When that goes wrong, every later lookup waits for ever.
UnlockUndefined(t) ==
    /\ At(t, "looking") /\ dirLock # t
    /\ status' = "aborted"
    /\ UNCHANGED <<inodeVars, dir_entries, blockVars, open_file_table, callVars, pc,
                   threadVars, lockVars, pastVars>>

CanCall(t) == At(t, "idle") /\ calls[t] < CallsEach
Called(t)  == calls' = [calls EXCEPT ![t] = @ + 1]

CallOpen(t, kind, name) ==
    /\ CanCall(t) /\ Called(t)
    /\ handle[t] = -1
    /\ LET looked == IF kind = "create" THEN "append" ELSE kind IN
       /\ Overlap(t, looked)
       /\ Lookup(t, [NoCall EXCEPT !.kind = looked, !.name = name, !.creat = (kind = "create")])
    /\ shared' = (shared \/ \E u \in Threads \ {t} : HasFile(u))
    /\ UNCHANGED <<tfsVars, handle, inodeLocks>>

CallUnlink(t, name) ==
    /\ CanCall(t) /\ Called(t)
    /\ Overlap(t, "unlink")
    /\ Lookup(t, [NoCall EXCEPT !.kind = "unlink", !.name = name])
    /\ UNCHANGED <<tfsVars, handle, inodeLocks, shared>>

CallLink(t, target, name) ==
    /\ CanCall(t) /\ Called(t)
    /\ name # target
    /\ Overlap(t, "link")
    /\ Lookup(t, [NoCall EXCEPT !.kind = "link", !.name = name, !.target = target])
    /\ UNCHANGED <<tfsVars, handle, inodeLocks, shared>>

CallSymLink(t, target, name) ==
    /\ CanCall(t) /\ Called(t)
    /\ name # target /\ Listed(target) /\ ~IsSymlink(target)
    /\ Overlap(t, "symlink")
    /\ Lookup(t, [NoCall EXCEPT !.kind = "symlink", !.name = name, !.target = target])
    /\ UNCHANGED <<tfsVars, handle, inodeLocks, shared>>

Calling(t) ==
    \/ \E kind \in Opens, name \in Names : CallOpen(t, kind, name)
    \/ \E name \in Names : CallUnlink(t, name)
    \/ \E target, name \in Names : CallLink(t, target, name) \/ CallSymLink(t, target, name)

-----------------------------------------------------------------------------
(* tfs_open of a name that is listed, and of a new one                     *)

\* A symbolic link is read and the name it leads to looked up; it is read behind
\* the lock, but only its deletion changes its text.  One that took
\* the place of what was found may have no block yet, which data_block_get
\* asserts that it has.
FollowLink(t) ==
    /\ At(t, "readLock") /\ call[t].kind \in Opens
    /\ writer[InumOfCall(t)] = NoThread
    /\ InodeOf(t).i_node_type = "T_SYMLINK"
    /\ IF InodeOf(t).i_data_block = -1
       THEN status' = "aborted" /\ UNCHANGED <<pc, call>>
       ELSE /\ \E path \in {text[InodeOf(t).i_data_block], Garbled} :
                   Set(t, "name", path)
            /\ GoTo(t, "lookup")
            /\ UNCHANGED status
    /\ UNCHANGED <<inodeVars, dir_entries, blockVars, open_file_table, callVars, handle,
                   calls, lockVars, pastVars>>

\* Mutation: the offset is not taken from the size.
OpenFileAtStart(t) ==
    /\ At(t, "readLock") /\ call[t].kind \in Opens
    /\ writer[InumOfCall(t)] = NoThread
    /\ InodeOf(t).i_node_type # "T_SYMLINK"
    /\ IF call[t].kind = "truncate"
       THEN GoTo(t, "truncate") /\ ReadLocked(t) /\ UNCHANGED call
       ELSE GoTo(t, "addOpen") /\ Set(t, "offset", 0) /\ UNCHANGED lockVars
    /\ UNCHANGED <<tfsVars, handle, calls, pastVars>>

\* The offset is the size there is now, whoever writes before the caller does.
OpenFile(t) ==
    /\ At(t, "readLock") /\ call[t].kind \in Opens
    /\ writer[InumOfCall(t)] = NoThread
    /\ InodeOf(t).i_node_type # "T_SYMLINK"
    /\ IF call[t].kind = "truncate"
       THEN GoTo(t, "truncate") /\ ReadLocked(t) /\ UNCHANGED call
       ELSE GoTo(t, "addOpen") /\ Set(t, "offset", InodeOf(t).i_size) /\ UNCHANGED lockVars
    /\ UNCHANGED <<tfsVars, handle, calls, pastVars>>

\* Truncation tests the size, frees the block and resets the size while it
\* holds the lock for reading.
TestSize(t) ==
    /\ At(t, "truncate")
    /\ IF InodeOf(t).i_size > 0
       THEN GoTo(t, "freeData") /\ UNCHANGED lockVars
       ELSE GoTo(t, "addOpen") /\ Unlocked(t)
    /\ UNCHANGED <<tfsVars, threadVars, pastVars>>

FreeData(t) ==
    /\ At(t, "freeData")
    /\ free_blocks' = Release(free_blocks, InodeOf(t).i_data_block)
    /\ GoTo(t, "resetSize")
    /\ UNCHANGED <<status, inodeVars, dir_entries, text, open_file_table, callVars,
                   threadVars, lockVars, pastVars>>

ResetSize(t) ==
    /\ At(t, "resetSize")
    /\ SetInode(t, "i_size", 0)
    /\ Unlocked(t)
    /\ GoTo(t, "addOpen")
    /\ UNCHANGED <<status, freeinode_ts, dir_entries, blockVars, open_file_table, callVars,
                   threadVars, pastVars>>

AddOpen(t) ==
    /\ At(t, "addOpen")
    /\ add_to_open_file_table(InumOfCall(t), call[t].offset)
    /\ handle' = [handle EXCEPT ![t] =
          IF FreeHandles = {} THEN -1 ELSE First(FreeHandles)]
    /\ GoTo(t, "idle")
    /\ call' = [call EXCEPT ![t] = NoCall]
    /\ UNCHANGED <<status, inodeVars, dir_entries, blockVars, callVars, calls, lockVars,
                   pastVars>>

\* inode_alloc, and then inode_create sets the inode up under its lock.
AllocInode(t) ==
    /\ At(t, "allocInode")
    /\ IF CanCreateInode
       THEN /\ freeinode_ts' = Take(freeinode_ts, NextInum)
            /\ Set(t, "inum", NextInum)
            /\ GoTo(t, "initInode")
            /\ UNCHANGED <<handle, calls>>
       ELSE Return(t) /\ UNCHANGED freeinode_ts
    /\ UNCHANGED <<status, inode_table, dir_entries, blockVars, open_file_table, callVars,
                   lockVars, pastVars>>

InitInode(t) ==
    LET symlink == call[t].kind = "symlink" IN
    /\ At(t, "initInode") /\ Unheld(InumOfCall(t))
    /\ inode_table' = [inode_table EXCEPT ![InumOfCall(t)] =
          NewInode(IF symlink THEN "T_SYMLINK" ELSE "T_FILE")]
    /\ GoTo(t, IF symlink THEN "linkBlock" ELSE "addPick")
    /\ UNCHANGED <<status, freeinode_ts, dir_entries, blockVars, open_file_table, callVars,
                   threadVars, lockVars, pastVars>>

-----------------------------------------------------------------------------
(* tfs_sym_link and tfs_link, which keep the lock while they add the entry *)

LinkBlock(t) ==
    /\ At(t, "linkBlock") /\ Unheld(InumOfCall(t))
    /\ IF CanAllocBlock
       THEN /\ free_blocks' = Take(free_blocks, NextBlock)
            /\ text' = [text EXCEPT ![NextBlock] = call[t].target]
            /\ inode_table' = [inode_table EXCEPT ![InumOfCall(t)].i_size = TextSize,
                                   ![InumOfCall(t)].i_data_block = NextBlock]
            /\ WriteLocked(t)
            /\ GoTo(t, "addPick") /\ UNCHANGED threadVars
            /\ UNCHANGED lapses
       ELSE /\ Return(t) /\ Lapse("spilled")
            /\ UNCHANGED <<inode_table, blockVars, lockVars>>
    /\ UNCHANGED <<status, freeinode_ts, dir_entries, open_file_table, copying, pastVars>>

RaiseCounter(t) ==
    /\ At(t, "writeLock") /\ Unheld(InumOfCall(t))
    /\ IF InodeOf(t).i_node_type = "T_SYMLINK"
       THEN Return(t) /\ UNCHANGED <<inode_table, lockVars>>
       ELSE /\ SetInode(t, "i_link_counter", InodeOf(t).i_link_counter + 1)
            /\ WriteLocked(t)
            /\ GoTo(t, "addPick") /\ UNCHANGED threadVars
    /\ UNCHANGED <<status, freeinode_ts, dir_entries, blockVars, open_file_table, callVars,
                   pastVars>>

\* add_dir_entry looks for an unused entry, and then fills it.
AddPick(t) ==
    /\ At(t, "addPick")
    /\ \/ /\ ~CannotList(call[t].name)
          /\ Set(t, "slot", First(Slots \ SlotsUsed))
          /\ GoTo(t, "addStore")
          /\ UNCHANGED <<handle, calls, lockVars, lapses>>
       \/ /\ CannotList(call[t].name) /\ call[t].kind = "create"
          /\ GoTo(t, "delete")
          /\ UNCHANGED <<threadVars, lockVars, lapses>>
       \/ /\ CannotList(call[t].name) /\ call[t].kind # "create"
          /\ Unlocked(t) /\ Return(t) /\ Lapse("spilled")
    /\ UNCHANGED <<status, inodeVars, dir_entries, blockVars, open_file_table, copying,
                   pastVars>>

\* The entry is in use from now on, without its name.  Its lock is initialised,
\* and of entry 0's that takes it from the lookup that has it.
AddStore(t) ==
    /\ At(t, "addStore")
    /\ dir_entries' = [dir_entries EXCEPT ![call[t].slot].d_inumber = InumOfCall(t)]
    /\ IF call[t].slot = 0
       THEN dirLock' = NoThread /\ apart' = (apart /\ dirLock = NoThread)
       ELSE UNCHANGED <<dirLock, apart>>
    /\ GoTo(t, "addName")
    /\ UNCHANGED <<status, inodeVars, blockVars, open_file_table, callVars, threadVars,
                   inodeLocks, shared>>

AddName(t) ==
    /\ At(t, "addName")
    /\ dir_entries' = [dir_entries EXCEPT ![call[t].slot].d_name = call[t].name]
    /\ IF call[t].kind = "create"
       THEN GoTo(t, "addOpen") /\ UNCHANGED <<threadVars, lockVars>>
       ELSE Return(t) /\ Unlocked(t)
    /\ UNCHANGED <<status, inodeVars, blockVars, open_file_table, callVars, pastVars>>

-----------------------------------------------------------------------------
(* tfs_unlink, which holds the lock for reading                            *)

LockToUnlink(t) ==
    /\ At(t, "readLock") /\ call[t].kind = "unlink"
    /\ writer[InumOfCall(t)] = NoThread
    /\ ReadLocked(t)
    /\ GoTo(t, "clearPick")
    /\ UNCHANGED <<tfsVars, threadVars, pastVars>>

AfterClearing(t) ==
    GoTo(t, IF InodeOf(t).i_node_type = "T_SYMLINK" THEN "freeBlock" ELSE "lower")

\* clear_dir_entry compares names, and then clears the entry it stopped at.
ClearPick(t) ==
    LET named == {s \in Slots : dir_entries[s].d_name = call[t].name} IN
    /\ At(t, "clearPick")
    /\ IF named # {} THEN Set(t, "slot", First(named)) /\ GoTo(t, "clearStore")
       ELSE AfterClearing(t) /\ UNCHANGED call
    /\ UNCHANGED <<tfsVars, handle, calls, lockVars, pastVars>>

ClearStore(t) ==
    /\ At(t, "clearStore")
    /\ dir_entries' = [dir_entries EXCEPT ![call[t].slot] = Unused]
    /\ AfterClearing(t)
    /\ UNCHANGED <<status, inodeVars, blockVars, open_file_table, callVars, threadVars,
                   lockVars, pastVars>>

\* i_link_counter-- of two readers: a load, a store, and a test of what was
\* stored or of what is there by then.
LoadCounter(t) ==
    /\ At(t, "lower")
    /\ Set(t, "count", InodeOf(t).i_link_counter - 1)
    /\ GoTo(t, "storeCounter")
    /\ UNCHANGED <<tfsVars, handle, calls, lockVars, pastVars>>

\* Mutation: the counter of a file with other links is lowered to 0.
StoreCounterLast(t) ==
    /\ At(t, "storeCounter")
    /\ SetInode(t, "i_link_counter", 0)
    /\ Set(t, "count", 0)
    /\ GoTo(t, "testCounter")
    /\ UNCHANGED <<status, freeinode_ts, dir_entries, blockVars, open_file_table, callVars,
                   handle, calls, lockVars, pastVars>>

StoreCounter(t) ==
    /\ At(t, "storeCounter")
    /\ SetInode(t, "i_link_counter", call[t].count)
    /\ GoTo(t, "testCounter")
    /\ UNCHANGED <<status, freeinode_ts, dir_entries, blockVars, open_file_table, callVars,
                   threadVars, lockVars, pastVars>>

TestCounter(t) ==
    /\ At(t, "testCounter")
    /\ \/ /\ 0 \in {call[t].count, InodeOf(t).i_link_counter}
          /\ GoTo(t, "delete")
          /\ UNCHANGED <<threadVars, lockVars>>
       \/ /\ {call[t].count, InodeOf(t).i_link_counter} # {0}
          /\ Unlocked(t) /\ Return(t)
    /\ UNCHANGED <<tfsVars, pastVars>>

\* The block of a symbolic link is freed here, and again when it is deleted.
FreeBlock(t) ==
    /\ At(t, "freeBlock")
    /\ free_blocks' = BlocksWithoutDataOf(InumOfCall(t))
    /\ GoTo(t, "delete")
    /\ UNCHANGED <<status, inodeVars, dir_entries, text, open_file_table, callVars,
                   threadVars, lockVars, pastVars>>

\* inode_delete, which asserts that nobody else has deleted the inode
DeleteBlock(t) ==
    /\ At(t, "delete")
    /\ IF freeinode_ts[InumOfCall(t)] = TAKEN
       THEN /\ free_blocks' = BlocksWithoutDataOf(InumOfCall(t))
            /\ GoTo(t, "freeInode") /\ UNCHANGED status
       ELSE status' = "aborted" /\ UNCHANGED <<pc, free_blocks>>
    /\ UNCHANGED <<inodeVars, dir_entries, text, open_file_table, callVars, threadVars,
                   lockVars, pastVars>>

FreeInode(t) ==
    /\ At(t, "freeInode")
    /\ freeinode_ts' = Release(freeinode_ts, InumOfCall(t))
    /\ IF FileIsOpen(InumOfCall(t)) THEN Lapse("orphaned") ELSE UNCHANGED lapses
    /\ Unlocked(t) /\ Return(t)
    /\ UNCHANGED <<status, inode_table, dir_entries, blockVars, open_file_table, copying,
                   pastVars>>

-----------------------------------------------------------------------------
(* tfs_write of a byte and tfs_close                                       *)

\* A write has the inode to itself from the first thing it reads to the last.
Write(t) ==
    /\ CanCall(t) /\ Called(t) /\ Overlap(t, "write")
    /\ handle[t] # -1 /\ Unheld(InumOf(handle[t]))
    /\ LET h == handle[t] IN
       /\ OffsetOf(h) < BLOCK_SIZE /\ HasRoom(h)
       /\ WriteAt(h, ToWrite(h, 1))
       /\ IF OffsetOf(h) < SizeOf(h) THEN Lapse("overwritten") ELSE UNCHANGED lapses
    /\ UNCHANGED <<status, copying, pc, call, handle, lockVars, shared>>

Close(t) ==
    /\ At(t, "idle") /\ handle[t] # -1
    /\ remove_from_open_file_table(handle[t])
    /\ handle' = [handle EXCEPT ![t] = -1]
    /\ UNCHANGED <<status, inodeVars, dir_entries, blockVars, callVars, pc, call, calls,
                   lockVars, pastVars>>

-----------------------------------------------------------------------------

InLookup(t) == FindInDir(t) \/ UnlockUndefined(t)

InOpen(t) ==
    \/ FollowLink(t) \/ LookAgain(t) \/ OpenFile(t) \/ TestSize(t) \/ FreeData(t) \/ ResetSize(t)
    \/ AddOpen(t)

InCreation(t) ==
    \/ AllocInode(t) \/ InitInode(t) \/ LinkBlock(t) \/ RaiseCounter(t)
    \/ AddPick(t) \/ AddStore(t) \/ AddName(t)

InUnlink(t) ==
    \/ LockToUnlink(t) \/ ClearPick(t) \/ ClearStore(t) \/ LoadCounter(t)
    \/ StoreCounter(t) \/ TestCounter(t) \/ FreeBlock(t) \/ DeleteBlock(t) \/ FreeInode(t)

Ended ==
    /\ status = "aborted" \/ \A t \in Threads : Idle(t) /\ calls[t] = CallsEach
    /\ UNCHANGED allVars

ThreadsNext ==
    \/ \E t \in Threads :
          \/ Calling(t) \/ InLookup(t) \/ InOpen(t) \/ InCreation(t) \/ InUnlink(t)
          \/ Write(t) \/ Close(t)
    \/ Ended

ThreadsSpec == ThreadsInit /\ [][ThreadsNext]_allVars

-----------------------------------------------------------------------------

\* Whenever no call is under way, the tables are as one caller alone would
\* leave them -- entries name allocated inodes, files have blocks of their own,
\* and nothing leaks unless TfsLinks says so -- and no assertion failed, unless
\* two Unsafe calls ran at once, or a creation or a link initialised the lock of
\* entry 0 under a lookup: every other pair of calls is safe.
SafeApart ==
    apart =>
        /\ status # "aborted"
        /\ Quiescent => EntriesBacked /\ BlocksExclusive /\ NothingLeaks

\* What ST_TEST_threads_test_write_onto_same_file.c:57 is after: threads that
\* append to one file, under whatever name, keep all that was written.  They
\* do if no two have files open at the same time and none is deleted while it
\* is open.
AppendsKept ==
    apart /\ ~shared /\ "orphaned" \notin lapses =>
        "overwritten" \notin lapses
=============================================================================
