------------------------------ MODULE TfsState ------------------------------
(***************************************************************************)
(* The tables of TecnicoFS as the message broker links it, and the         *)
(* routines over them: projeto-2/fs/state.c.                               *)
(*                                                                         *)
(* The root directory is the only directory, so inode ROOT_DIR_INUM keeps  *)
(* its data block (block 0) for the whole life of the file system; the     *)
(* entries that block holds are the variable dir_entries, and every other  *)
(* inode is a regular file.  The allocators take the first free slot, and  *)
(* here too: that order is what keeps clear_dir_entry correct.             *)
(***************************************************************************)
EXTENDS Integers

CONSTANTS
    INODE_TABLE_SIZE,   \* fs_params.max_inode_count
    DATA_BLOCKS,        \* fs_params.max_block_count
    MAX_OPEN_FILES,     \* fs_params.max_open_files_count
    BLOCK_SIZE,         \* bytes of a block
    MAX_DIR_ENTRIES,    \* entries of the root directory's block
    Names,              \* path names, without the leading slash
    LongNames,          \* those of more than MAX_FILE_NAME - 1 characters
    NoName,             \* a d_name no caller ever asks for
    Bytes,              \* what callers write
    Junk                \* a byte of malloc'ed memory nobody wrote

ASSUME TfsAssumption ==
    /\ INODE_TABLE_SIZE \in Nat \ {0}
    /\ DATA_BLOCKS \in Nat \ {0}
    /\ MAX_OPEN_FILES \in Nat
    /\ BLOCK_SIZE \in Nat \ {0}
    /\ MAX_DIR_ENTRIES \in Nat
    /\ LongNames \subseteq Names
    /\ NoName \notin Names
    /\ Junk \notin Bytes

VARIABLES
    status,                   \* of the process: see TypeOK
    inode_table,
    freeinode_ts,
    dir_entries,
    fs_data,
    free_blocks,
    open_file_table,
    free_open_file_entries

inodeVars == <<inode_table, freeinode_ts>>
dirVars == <<dir_entries>>
blockVars == <<fs_data, free_blocks>>
openVars == <<open_file_table, free_open_file_entries>>
vars == <<status, inodeVars, dirVars, blockVars, openVars>>

-----------------------------------------------------------------------------

ROOT_DIR_INUM == 0
RootBlock == 0                 \* the first block state_init's tables give out

Inums   == 0 .. INODE_TABLE_SIZE - 1
Blocks  == 0 .. DATA_BLOCKS - 1
Handles == 0 .. MAX_OPEN_FILES - 1
Slots   == 0 .. MAX_DIR_ENTRIES - 1
Cells   == 0 .. BLOCK_SIZE - 1

FREE  == "FREE"
TAKEN == "TAKEN"
AllocationState == {FREE, TAKEN}

ShortNames == Names \ LongNames
Inode      == [i_size : 0 .. BLOCK_SIZE, i_data_block : Blocks \cup {-1}]
DirEntry   == [d_name : ShortNames \cup {NoName}, d_inumber : Inums \cup {-1}]
OpenFile   == [of_inumber : Inums, of_offset : Nat]

\* What the type declarations of state.h and the bounds of the tables say.
TypeOK ==
    /\ status \in {"unmounted", "mounted", "aborted"}
    /\ inode_table \in [Inums -> Inode]
    /\ freeinode_ts \in [Inums -> AllocationState]
    /\ dir_entries \in [Slots -> DirEntry]
    /\ fs_data \in [Blocks -> [Cells -> Bytes \cup {Junk}]]
    /\ free_blocks \in [Blocks -> AllocationState]
    /\ open_file_table \in [Handles -> OpenFile]
    /\ free_open_file_entries \in [Handles -> AllocationState]

-----------------------------------------------------------------------------
(* Allocation: the first FREE slot of a table.                             *)

IsFirstFree(i, table) ==
    /\ i \in DOMAIN table
    /\ table[i] = FREE
    /\ \A j \in DOMAIN table : j < i => table[j] = TAKEN

NoneFree(table) == \A i \in DOMAIN table : table[i] = TAKEN

Take(table, i) == [table EXCEPT ![i] = TAKEN]
Release(table, i) == [table EXCEPT ![i] = FREE]

\* Mutation: a new file starts with block 0 instead of none.
NewFileAtBlock0 == [i_size |-> 0, i_data_block |-> 0]

NewFile == [i_size |-> 0, i_data_block |-> -1]

\* free_blocks once the data of an inode is given back
BlocksWithoutDataOf(inum) ==
    IF inode_table[inum].i_size > 0
    THEN Release(free_blocks, inode_table[inum].i_data_block)
    ELSE free_blocks

\* Mutation: the data block is not given back.
inode_delete_keeping_data(inum) ==
    /\ freeinode_ts' = Release(freeinode_ts, inum)
    /\ UNCHANGED <<free_blocks, inode_table>>

\* inode_delete touches neither i_size nor i_data_block
inode_delete(inum) ==
    /\ freeinode_ts' = Release(freeinode_ts, inum)
    /\ free_blocks' = BlocksWithoutDataOf(inum)
    /\ UNCHANGED inode_table

-----------------------------------------------------------------------------
(* The root directory.                                                     *)

\* The inumber find_in_dir answers for the entry at slot s, when it is the
\* first used one of that name; a long name equals no stored name.
Finds(s, name) ==
    /\ s \in Slots
    /\ dir_entries[s].d_inumber # -1
    /\ dir_entries[s].d_name = name
    /\ \A t \in Slots : t < s => \/ dir_entries[t].d_inumber = -1
                                 \/ dir_entries[t].d_name # name

NotFound(name) == \A s \in Slots : \/ dir_entries[s].d_inumber = -1
                                   \/ dir_entries[s].d_name # name

\* find_in_dir skips unused entries, clear_dir_entry does not: it clears the
\* first entry that spells the name, used or not.
ClearedEntry == [d_name |-> NoName, d_inumber |-> -1]

IsCleared(s, name) ==
    /\ s \in Slots
    /\ dir_entries[s].d_name = name
    /\ \A t \in Slots : t < s => dir_entries[t].d_name # name

\* Mutation: any unused entry instead of the first.
IsUnused(s) == s \in Slots /\ dir_entries[s].d_inumber = -1

IsFirstUnused(s) ==
    /\ s \in Slots
    /\ dir_entries[s].d_inumber = -1
    /\ \A t \in Slots : t < s => dir_entries[t].d_inumber # -1

DirectoryFull == \A s \in Slots : dir_entries[s].d_inumber # -1

\* add_dir_entry returns -1
CannotList(name) == name \in LongNames \/ DirectoryFull

add_dir_entry(s, name, inum) ==
    dir_entries' =
        [dir_entries EXCEPT ![s] = [d_name |-> name, d_inumber |-> inum]]

clear_dir_entry(s) == dir_entries' = [dir_entries EXCEPT ![s] = ClearedEntry]

-----------------------------------------------------------------------------
(* The open file table.                                                    *)

IsOpen(h) == free_open_file_entries[h] = TAKEN

\* With no room left the call that opens returns -1, and everything it did
\* before stays done.
add_to_open_file_table(inum, offset) ==
    \/ \E h \in Handles :
          /\ IsFirstFree(h, free_open_file_entries)
          /\ free_open_file_entries' = Take(free_open_file_entries, h)
          /\ open_file_table' =
                [open_file_table EXCEPT ![h] =
                    [of_inumber |-> inum, of_offset |-> offset]]
    \/ /\ NoneFree(free_open_file_entries)
       /\ UNCHANGED openVars

remove_from_open_file_table(h) ==
    /\ free_open_file_entries' = Release(free_open_file_entries, h)
    /\ UNCHANGED open_file_table

-----------------------------------------------------------------------------
(* state_init and state_destroy.  malloc may hand the directory's block    *)
(* over with the names of an earlier mount in it, and only d_inumber is    *)
(* reset: a stale name is any short name.  The other uninitialised cells   *)
(* are written before they are read, and get one value each.               *)

FreeAll(indices) == [i \in indices |-> FREE]
BlankData == [b \in Blocks |-> [c \in Cells |-> Junk]]
BlankInodes == [i \in Inums |-> NewFile]
BlankOpenFiles ==
    [h \in Handles |-> [of_inumber |-> ROOT_DIR_INUM, of_offset |-> 0]]
BlankDirectories(names) ==
    [Slots -> [d_name : names, d_inumber : {-1}]]

\* state_init, and tfs_init's inode_create(T_DIRECTORY)
FreshTables ==
    /\ inode_table' = [BlankInodes EXCEPT ![ROOT_DIR_INUM] =
          [i_size |-> BLOCK_SIZE, i_data_block |-> RootBlock]]
    /\ freeinode_ts' = Take(FreeAll(Inums), ROOT_DIR_INUM)
    /\ dir_entries' \in BlankDirectories(ShortNames \cup {NoName})
    /\ fs_data' = BlankData
    /\ free_blocks' = Take(FreeAll(Blocks), RootBlock)
    /\ open_file_table' = BlankOpenFiles
    /\ free_open_file_entries' = FreeAll(Handles)

NoTables ==
    /\ inode_table = BlankInodes
    /\ freeinode_ts = FreeAll(Inums)
    /\ dir_entries \in BlankDirectories({NoName})
    /\ fs_data = BlankData
    /\ free_blocks = FreeAll(Blocks)
    /\ open_file_table = BlankOpenFiles
    /\ free_open_file_entries = FreeAll(Handles)

\* state_destroy
state_destroy ==
    /\ inode_table' = BlankInodes
    /\ freeinode_ts' = FreeAll(Inums)
    /\ dir_entries' \in BlankDirectories({NoName})
    /\ fs_data' = BlankData
    /\ free_blocks' = FreeAll(Blocks)
    /\ open_file_table' = BlankOpenFiles
    /\ free_open_file_entries' = FreeAll(Handles)
=============================================================================
