-------------------------------- MODULE Tfs ---------------------------------
(***************************************************************************)
(* The calls of TecnicoFS: projeto-2/fs/operations.c.                      *)
(*                                                                         *)
(* Every call holds g_library_mutex from its first statement to its last,  *)
(* so a call is one atomic action, whichever thread makes it.  A call that *)
(* returns -1 before it has touched a table changes nothing and is a       *)
(* stuttering step, which every specification here allows.                 *)
(*                                                                         *)
(* A failed ALWAYS_ASSERT, or a copy that runs off the heap, ends the      *)
(* process: status becomes "aborted" and no call follows.                  *)
(***************************************************************************)
EXTENDS TfsState, FiniteSets

CONSTANTS
    MaxTransfer,   \* bound: the longest buffer a caller passes
    MaxOffset      \* bound: the offset past which no handle is followed

ASSUME BoundsAssumption == MaxTransfer \in Nat /\ MaxOffset \in Nat

-----------------------------------------------------------------------------

Init == status = "unmounted" /\ NoTables

tfs_init ==
    /\ status = "unmounted"
    /\ status' = "mounted"
    /\ FreshTables

\* Nothing asks whether files are still open.
tfs_destroy ==
    /\ status = "mounted"
    /\ status' = "unmounted"
    /\ state_destroy

abort ==
    /\ status' = "aborted"
    /\ UNCHANGED <<inodeVars, dirVars, blockVars, openVars>>

-----------------------------------------------------------------------------
(* tfs_open                                                                *)

\* Mutation: truncation gives the block back and leaves i_size.
SizeKeptByTruncation(inum, trunc) == inode_table[inum].i_size

SizeAfterOpen(inum, trunc) == IF trunc THEN 0 ELSE inode_table[inum].i_size

\* The name is listed; TFS_O_CREAT makes no difference.  The truncation has
\* happened even when the open file table turns out to be full.
OpenExisting(name, trunc, append) ==
    /\ status = "mounted"
    /\ \E s \in Slots :
          /\ Finds(s, name)
          /\ LET inum == dir_entries[s].d_inumber IN
             /\ inode_table' =
                   [inode_table EXCEPT ![inum].i_size = SizeAfterOpen(inum, trunc)]
             /\ free_blocks' =
                   IF trunc THEN BlocksWithoutDataOf(inum) ELSE free_blocks
             /\ add_to_open_file_table(inum,
                   IF append THEN SizeAfterOpen(inum, trunc) ELSE 0)
    /\ UNCHANGED <<status, freeinode_ts, dirVars, fs_data>>

\* The name is not listed and TFS_O_CREAT is set.
OpenCreate(name) ==
    /\ status = "mounted"
    /\ NotFound(name)
    /\ \E inum \in Inums : \E s \in Slots :
          /\ IsFirstFree(inum, freeinode_ts)
          /\ freeinode_ts' = Take(freeinode_ts, inum)
          /\ inode_table' = [inode_table EXCEPT ![inum] = NewFile]
          /\ ~CannotList(name)
          /\ IsFirstUnused(s)
          /\ add_dir_entry(s, name, inum)
          /\ add_to_open_file_table(inum, 0)
    /\ UNCHANGED <<status, blockVars>>

\* Mutation: the inode is not given back.
OpenCreateNotUndone(name) ==
    /\ status = "mounted"
    /\ NotFound(name)
    /\ CannotList(name)
    /\ \E inum \in Inums :
          /\ IsFirstFree(inum, freeinode_ts)
          /\ freeinode_ts' = Take(freeinode_ts, inum)
          /\ inode_table' = [inode_table EXCEPT ![inum] = NewFile]
    /\ UNCHANGED <<status, dirVars, blockVars, openVars>>

\* inode_create succeeds and add_dir_entry fails: inode_delete gives back an
\* inode whose fields were reset, which a stale handle to it can see.
OpenCreateUndone(name) ==
    /\ status = "mounted"
    /\ NotFound(name)
    /\ CannotList(name)
    /\ \E inum \in Inums :
          /\ IsFirstFree(inum, freeinode_ts)
          /\ inode_table' = [inode_table EXCEPT ![inum] = NewFile]
    /\ UNCHANGED <<status, freeinode_ts, dirVars, blockVars, openVars>>

tfs_close(h) ==
    /\ status = "mounted"
    /\ IsOpen(h)
    /\ remove_from_open_file_table(h)
    /\ UNCHANGED <<status, inodeVars, dirVars, blockVars>>

-----------------------------------------------------------------------------
(* tfs_write and tfs_read.  The inode is the one the handle names, listed  *)
(* or deleted: inode_get does not ask.                                     *)

Least(a, b) == IF a < b THEN a ELSE b
Greatest(a, b) == IF a > b THEN a ELSE b

InumOf(h)   == open_file_table[h].of_inumber
OffsetOf(h) == open_file_table[h].of_offset
SizeOf(h)   == inode_table[InumOf(h)].i_size
BlockOf(h)  == inode_table[InumOf(h)].i_data_block

\* Mutation: to_write is not clipped.
ToWriteUnclipped(h, len) == len

\* to_write, clipped to the end of the block
ToWrite(h, len) == Least(len, BLOCK_SIZE - OffsetOf(h))

\* The block the write goes to: the file's, or for an empty file a new one.
WritesTo(h, b) ==
    IF SizeOf(h) = 0 THEN IsFirstFree(b, free_blocks) ELSE b = BlockOf(h)

\* Mutation: the copy ignores the offset.
WrittenAtStart(cells, offset, n, byte) ==
    [c \in Cells |-> IF c < n THEN byte ELSE cells[c]]

Written(cells, offset, n, byte) ==
    [c \in Cells |-> IF offset <= c /\ c < offset + n THEN byte ELSE cells[c]]

tfs_write(h, byte, len) ==
    /\ status = "mounted"
    /\ IsOpen(h)
    /\ OffsetOf(h) <= BLOCK_SIZE
    /\ ToWrite(h, len) > 0
    /\ LET n   == ToWrite(h, len)
           end == OffsetOf(h) + n
       IN  \E b \in Blocks :
             /\ WritesTo(h, b)
             /\ free_blocks' =
                   IF SizeOf(h) = 0 THEN Take(free_blocks, b) ELSE free_blocks
             /\ fs_data' = [fs_data EXCEPT
                   ![b] = Written(fs_data[b], OffsetOf(h), n, byte)]
             /\ inode_table' = [inode_table EXCEPT ![InumOf(h)] =
                   [i_size |-> Greatest(SizeOf(h), end), i_data_block |-> b]]
             /\ open_file_table' = [open_file_table EXCEPT ![h].of_offset = end]
    /\ UNCHANGED <<status, freeinode_ts, dirVars, free_open_file_entries>>

\* Past the end of the block, block_size - of_offset wraps around to a length
\* no heap holds.
WriteOverrun(h) ==
    /\ status = "mounted"
    /\ IsOpen(h)
    /\ OffsetOf(h) > BLOCK_SIZE
    /\ \E b \in Blocks : WritesTo(h, b)
    /\ abort

\* Mutation: to_read is not clipped.
ToReadUnclipped(h, len) == len

\* to_read: i_size - of_offset is unsigned, and past the end of the file it
\* wraps around to more than any len
ToRead(h, len) ==
    IF OffsetOf(h) > SizeOf(h) THEN len ELSE Least(len, SizeOf(h) - OffsetOf(h))

tfs_read(h, len) ==
    /\ status = "mounted"
    /\ IsOpen(h)
    /\ ToRead(h, len) > 0
    /\ BlockOf(h) # -1
    /\ OffsetOf(h) + ToRead(h, len) <= MaxOffset
    /\ open_file_table' = [open_file_table EXCEPT
          ![h].of_offset = OffsetOf(h) + ToRead(h, len)]
    /\ UNCHANGED <<status, inodeVars, dirVars, blockVars, free_open_file_entries>>

\* data_block_get(-1)
ReadNoBlock(h) ==
    /\ status = "mounted"
    /\ IsOpen(h)
    /\ MaxTransfer > 0
    /\ ToRead(h, MaxTransfer) > 0
    /\ BlockOf(h) = -1
    /\ abort

-----------------------------------------------------------------------------

\* Nothing asks whether the file is open.
tfs_unlink(name) ==
    /\ status = "mounted"
    /\ \E s \in Slots :
          /\ Finds(s, name)
          /\ inode_delete(dir_entries[s].d_inumber)
    /\ \E t \in Slots : IsCleared(t, name) /\ clear_dir_entry(t)
    /\ UNCHANGED <<status, fs_data, openVars>>

-----------------------------------------------------------------------------

FileIsOpen(name) ==
    \E s \in Slots, h \in Handles :
        Finds(s, name) /\ IsOpen(h) /\ InumOf(h) = dir_entries[s].d_inumber

Lens == 1 .. MaxTransfer

Next ==
    \/ tfs_init
    \/ tfs_destroy
    \/ \E name \in Names, trunc, append \in BOOLEAN :
          OpenExisting(name, trunc, append)
    \/ \E name \in Names : OpenCreate(name)
    \/ \E name \in Names : OpenCreateUndone(name)
    \/ \E h \in Handles : tfs_close(h)
    \/ \E h \in Handles, byte \in Bytes, len \in Lens : tfs_write(h, byte, len)
    \/ \E h \in Handles : WriteOverrun(h)
    \/ \E h \in Handles, len \in Lens : tfs_read(h, len)
    \/ \E h \in Handles : ReadNoBlock(h)
    \/ \E name \in Names : tfs_unlink(name)

\* Callers in any order, with any argument.
Spec == Init /\ [][Next]_vars

\* Callers that never truncate or unlink a file somebody has open.  The broker
\* does not truncate, but it does unlink a box its subscribers still read.
PoliteNext ==
    \/ tfs_init
    \/ tfs_destroy
    \/ \E name \in Names, trunc, append \in BOOLEAN :
          /\ trunc => ~FileIsOpen(name)
          /\ OpenExisting(name, trunc, append)
    \/ \E name \in Names : OpenCreate(name)
    \/ \E name \in Names : OpenCreateUndone(name)
    \/ \E h \in Handles : tfs_close(h)
    \/ \E h \in Handles, byte \in Bytes, len \in Lens : tfs_write(h, byte, len)
    \/ \E h \in Handles, len \in Lens : tfs_read(h, len)
    \/ \E name \in Names : ~FileIsOpen(name) /\ tfs_unlink(name)

PoliteSpec == Init /\ [][PoliteNext]_vars

-----------------------------------------------------------------------------
(* Under any callers                                                       *)

Used(s) == dir_entries[s].d_inumber # -1
HasData(i) == inode_table[i].i_size > 0

\* Between mount and destroy the used entries of the root directory and the
\* allocated inodes stay in step: no two entries of one name, no two of one
\* inode, none of the root's, and no allocated inode without an entry -- after
\* failed creations, unlinks of open files and stale names in the block.
DirectoryMatchesInodes ==
    status # "unmounted" =>
      /\ freeinode_ts[ROOT_DIR_INUM] = TAKEN
      /\ \A s \in Slots : Used(s) =>
            /\ dir_entries[s].d_inumber # ROOT_DIR_INUM
            /\ freeinode_ts[dir_entries[s].d_inumber] = TAKEN
            /\ dir_entries[s].d_name \in ShortNames
      /\ \A s, t \in Slots : Used(s) /\ Used(t) /\ s # t =>
            /\ dir_entries[s].d_name # dir_entries[t].d_name
            /\ dir_entries[s].d_inumber # dir_entries[t].d_inumber
      /\ \A i \in Inums \ {ROOT_DIR_INUM} : freeinode_ts[i] = TAKEN =>
            \E s \in Slots : dir_entries[s].d_inumber = i

\* The blocks of the files that exist are allocated and theirs alone, although
\* a handle to a deleted file keeps allocating and writing blocks of its own.
BlocksExclusive ==
    status # "unmounted" =>
      /\ \A i \in Inums : freeinode_ts[i] = TAKEN /\ HasData(i) =>
            free_blocks[inode_table[i].i_data_block] = TAKEN
      /\ \A i, j \in Inums :
            /\ freeinode_ts[i] = TAKEN /\ HasData(i)
            /\ freeinode_ts[j] = TAKEN /\ HasData(j)
            /\ i # j
            => inode_table[i].i_data_block # inode_table[j].i_data_block

\* No inode a handle can reach, deleted ones included, leads to the block of
\* the root directory, and that block is never given out: no write through a
\* stale handle can corrupt the directory.
DirectoryBlockSafe ==
    status # "unmounted" =>
      /\ free_blocks[RootBlock] = TAKEN
      /\ inode_table[ROOT_DIR_INUM].i_data_block = RootBlock
      /\ \A i \in Inums \ {ROOT_DIR_INUM} :
            /\ inode_table[i].i_data_block # RootBlock
            /\ HasData(i) => inode_table[i].i_data_block # -1
      /\ \A h \in Handles : IsOpen(h) => InumOf(h) # ROOT_DIR_INUM

\* clear_dir_entry looks for the name in unused entries too, find_in_dir does
\* not: both must stop at the same entry, or unlink would free the inode of one
\* entry and clear another.  What saves it: only entries never used hold stale
\* names, and they come after all the used ones.
UnlinkClearsWhatItFound ==
    \A name \in Names, s, t \in Slots :
        Finds(s, name) /\ IsCleared(t, name) => s = t

-----------------------------------------------------------------------------
(* Under polite callers                                                    *)

\* Every open handle names a file that exists and stands inside it, so neither
\* unsigned subtraction wraps around and no call aborts.
HandlesInsideFiles ==
    /\ status # "aborted"
    /\ \A h \in Handles : IsOpen(h) =>
          /\ freeinode_ts[InumOf(h)] = TAKEN
          /\ OffsetOf(h) <= SizeOf(h)

\* A block is allocated only while a file that exists holds it.
NoBlockLeaks ==
    status # "unmounted" =>
      \A b \in Blocks : free_blocks[b] = TAKEN =>
          \E i \in Inums : /\ freeinode_ts[i] = TAKEN
                           /\ HasData(i)
                           /\ inode_table[i].i_data_block = b

-----------------------------------------------------------------------------
(* The file store the tables implement                                     *)

Listed == {n \in Names : \E s \in Slots : Finds(s, n)}

InumNamed(n) ==
    dir_entries[CHOOSE s \in Slots : Finds(s, n)].d_inumber

Contents(i) ==
    [k \in 1 .. inode_table[i].i_size |->
        fs_data[inode_table[i].i_data_block][k - 1]]

NameOf(i) == CHOOSE n \in Listed : InumNamed(n) = i

Store == INSTANCE FileStore WITH
    MaxSize <- BLOCK_SIZE,
    up      <- status = "mounted",
    files   <- [n \in Listed |-> Contents(InumNamed(n))],
    handles <- [h \in {g \in Handles : IsOpen(g)} |->
                   [name |-> NameOf(InumOf(h)), offset |-> OffsetOf(h)]]

\* A store of named byte strings, which the tables implement for polite
\* callers: a write changes the bytes of one file, a read moves one handle by
\* what is left of the file, an unlink or a creation touches no other file.
StoreSpec == Store!Spec
=============================================================================
