------------------------------ MODULE TfsLinks ------------------------------
(***************************************************************************)
(* TecnicoFS with hard and symbolic links: projeto-1/fs, operations.c over *)
(* the tables of state.c, for one caller.  A call is one action; a copy    *)
(* from outside, whose source has no known length, is one action a chunk.  *)
(* TfsThreads is about the calls of several threads.                       *)
(*                                                                         *)
(* A call that returns -1 before it changes a table is a stuttering step.  *)
(* A failed ALWAYS_ASSERT, a NULL dereference, a copy that runs off the    *)
(* heap or a loop without end takes the process down: status "aborted".    *)
(*                                                                         *)
(* Of a block's bytes only the path they spell is kept, since that is what *)
(* a symbolic link is made of.  The path of a link fills one cell.         *)
(***************************************************************************)
EXTENDS Integers, FiniteSets

CONSTANTS
    INODE_TABLE_SIZE, DATA_BLOCKS, MAX_OPEN_FILES, BLOCK_SIZE, MAX_DIR_ENTRIES,
    Names,         \* path names callers pass
    LongNames,     \* those of more than MAX_FILE_NAME - 1 characters
    NoName,        \* an empty d_name
    Garbled,       \* a path nobody passes: a link's text and what follows it
    ReadsAs,       \* the names that eight bytes of a link to a name may spell
    MaxTransfer,   \* bound: the longest buffer
    MaxOffset      \* bound: the offset past which no handle is followed

ASSUME LinksAssumption ==
    /\ {INODE_TABLE_SIZE, DATA_BLOCKS, BLOCK_SIZE, MAX_DIR_ENTRIES} \subseteq Nat \ {0}
    /\ {MAX_OPEN_FILES, MaxTransfer, MaxOffset} \subseteq Nat
    /\ LongNames \subseteq Names
    /\ {NoName, Garbled} \cap Names = {} /\ NoName # Garbled
    /\ ReadsAs \in [Names -> SUBSET Names]

VARIABLES
    status,            \* "unmounted", "mounted", "copying", "aborted"
    inode_table,
    freeinode_ts,
    dir_entries,       \* the block of the root directory
    text,              \* fs_data: the path the bytes of a block spell
    free_blocks,
    open_file_table,   \* Closed where free_open_file_entries says FREE
    copying,           \* internalFd of the copy under way, else -1
    lapses             \* history: what the callers or a full table did

inodeVars == <<inode_table, freeinode_ts>>
blockVars == <<text, free_blocks>>
callVars == <<copying, lapses>>
vars == <<status, inodeVars, dir_entries, blockVars, open_file_table, callVars>>

ROOT_DIR_INUM == 0
RootBlock == 0
TextSize == 1

Inums   == 0 .. INODE_TABLE_SIZE - 1
Blocks  == 0 .. DATA_BLOCKS - 1
Handles == 0 .. MAX_OPEN_FILES - 1
Slots   == 0 .. MAX_DIR_ENTRIES - 1

FREE  == "FREE"
TAKEN == "TAKEN"
Closed == [of_inumber |-> -1, of_offset |-> 0]
Unused == [d_name |-> NoName, d_inumber |-> -1]
Texts == Names \cup {Garbled}
\* The last is one of threads.
Lapses == {"relinked", "orphaned", "misread", "spilled", "overwritten"}

TypeOK ==
    /\ status \in {"unmounted", "mounted", "copying", "aborted"}
    /\ inode_table \in [Inums ->
          [i_node_type : {"T_FILE", "T_DIRECTORY", "T_SYMLINK"},
           i_size : 0 .. BLOCK_SIZE, i_data_block : Blocks \cup {-1},
           i_link_counter : Nat]]
    /\ freeinode_ts \in [Inums -> {FREE, TAKEN}]
    /\ dir_entries \in [Slots ->
          [d_name : Texts \cup {NoName}, d_inumber : Inums \cup {-1}]]
    /\ text \in [Blocks -> Texts]
    /\ free_blocks \in [Blocks -> {FREE, TAKEN}]
    /\ open_file_table \in [Handles ->
          [of_inumber : Inums \cup {-1}, of_offset : Nat]]
    /\ copying \in Handles \cup {-1}
    /\ lapses \subseteq Lapses

-----------------------------------------------------------------------------
(* Tables                                                                  *)

First(S) == CHOOSE i \in S : \A j \in S : i <= j

FreeOf(table) == {i \in DOMAIN table : table[i] = FREE}
Take(table, i) == [table EXCEPT ![i] = TAKEN]
Release(table, i) == [table EXCEPT ![i] = FREE]

NewInode(type) == [i_node_type |-> type, i_size |-> 0, i_data_block |-> -1,
                   i_link_counter |-> 1]

\* inode_create takes the first free inode and fails when there is none.
CanCreateInode == FreeOf(freeinode_ts) # {}
NextInum == First(FreeOf(freeinode_ts))

CanAllocBlock == FreeOf(free_blocks) # {}
NextBlock == First(FreeOf(free_blocks))

\* free_blocks once the data of an inode is given back
BlocksWithoutDataOf(inum) ==
    IF inode_table[inum].i_size > 0
    THEN Release(free_blocks, inode_table[inum].i_data_block)
    ELSE free_blocks

\* The i_link_counter and the i_size of a deleted inode stay as they were.
inode_delete(inum) ==
    /\ freeinode_ts' = Release(freeinode_ts, inum)
    /\ free_blocks' = BlocksWithoutDataOf(inum)

SlotsUsed == {s \in Slots : dir_entries[s].d_inumber # -1}
SlotsNamed(name) == {s \in SlotsUsed : dir_entries[s].d_name = name}
Listed(name) == SlotsNamed(name) # {}

\* find_in_dir: the first used entry of that name
find_in_dir(name) == dir_entries[First(SlotsNamed(name))].d_inumber

\* add_dir_entry returns -1
CannotList(name) == name \in LongNames \/ SlotsUsed = Slots

add_dir_entry(name, inum) ==
    dir_entries' = [dir_entries EXCEPT
        ![First(Slots \ SlotsUsed)] = [d_name |-> name, d_inumber |-> inum]]

\* clear_dir_entry: the first entry that spells the name, used or not
clear_dir_entry(name) ==
    dir_entries' = [dir_entries EXCEPT
        ![First({s \in Slots : dir_entries[s].d_name = name})] = Unused]

IsOpen(h) == open_file_table[h] # Closed
FreeHandles == {h \in Handles : ~IsOpen(h)}

\* add_to_open_file_table; with no room what the call did before stays done.
add_to_open_file_table(inum, offset) ==
    IF FreeHandles = {} THEN UNCHANGED open_file_table ELSE
    open_file_table' = [open_file_table EXCEPT ![First(FreeHandles)] =
        [of_inumber |-> inum, of_offset |-> offset]]

remove_from_open_file_table(h) ==
    open_file_table' = [open_file_table EXCEPT ![h] = Closed]

-----------------------------------------------------------------------------
(* Paths                                                                   *)

IsSymlink(name) ==
    Listed(name) /\ inode_table[find_in_dir(name)].i_node_type = "T_SYMLINK"

TargetOf(name) == text[inode_table[find_in_dir(name)].i_data_block]

\* A set of names that holds the target of each link in it
FollowsLinks(names) == \A n \in names : IsSymlink(n) => TargetOf(n) \in names

\* The names a chain of links from name passes through, name included: the
\* least set that follows links from there.
ChainFrom(name) ==
    LET followed == {C \in SUBSET Texts : name \in C /\ FollowsLinks(C)}
    IN  {n \in Texts : \A C \in followed : n \in C}

LoopsFrom(name) == \A n \in ChainFrom(name) : IsSymlink(n)

\* Where tfs_open may end up: the link's text has no terminator, so the path
\* it opens next is the target or the target and whatever follows it.
OpenEnds(name) ==
    {last \in ChainFrom(name) : ~IsSymlink(last)}
      \cup (IF IsSymlink(name) THEN {Garbled} ELSE {})

\* verify_symlink_recursion copies sizeof(link_name) bytes of a link's block, as
\* many as a pointer has.  They spell the target if it is shorter, the beginning
\* of the target if it is longer, and more than the target if an earlier use of
\* the block left something behind.
SpelledBy(path) == IF path \in Names THEN ReadsAs[path] ELSE Names

Readings == [{n \in Names : IsSymlink(n)} -> Names]

\* The names that such a reading of the links passes through
ReadChain(name, read) ==
    LET followed == {C \in SUBSET Names :
                       name \in C /\ \A n \in C : IsSymlink(n) => read[n] \in C}
    IN  {n \in Names : \A C \in followed : n \in C}

\* Mutation: the chain is not looked at.
NotVerified(target, link_name, read) == TRUE

\* No link of the chain spells link_name, and the chain ends at a file.
verify_symlink_recursion(target, link_name, read) ==
    LET chain == ReadChain(target, read) IN
    /\ \A n \in chain : Listed(n) /\ n # link_name
    /\ \A n \in chain : IsSymlink(n) => read[n] \in SpelledBy(TargetOf(n))
    /\ \E n \in chain : ~IsSymlink(n)

-----------------------------------------------------------------------------
(* Mount, failure                                                          *)

BlankDirectories(names) == [Slots -> [d_name : names, d_inumber : {-1}]]

Init ==
    /\ status = "unmounted"
    /\ inode_table = [i \in Inums |-> NewInode("T_FILE")]
    /\ freeinode_ts = [i \in Inums |-> FREE]
    /\ dir_entries = [s \in Slots |-> Unused]
    /\ text = [b \in Blocks |-> Garbled]
    /\ free_blocks = [b \in Blocks |-> FREE]
    /\ open_file_table = [h \in Handles |-> Closed]
    /\ copying = -1
    /\ lapses = {}

\* state_init and inode_create(T_DIRECTORY).  Only d_inumber of the entries is
\* reset, and a block malloc'ed again may hold names of an earlier mount.
tfs_init ==
    /\ status = "unmounted"
    /\ status' = "mounted"
    /\ inode_table' = [inode_table EXCEPT ![ROOT_DIR_INUM] =
          [i_node_type |-> "T_DIRECTORY", i_size |-> BLOCK_SIZE,
           i_data_block |-> RootBlock, i_link_counter |-> 1]]
    /\ freeinode_ts' = Take(freeinode_ts, ROOT_DIR_INUM)
    /\ dir_entries' \in BlankDirectories((Names \ LongNames) \cup {NoName})
    /\ free_blocks' = Take(free_blocks, RootBlock)
    /\ UNCHANGED <<text, open_file_table, callVars>>

TablesGone ==
    /\ inode_table' = [i \in Inums |-> NewInode("T_FILE")]
    /\ freeinode_ts' = [i \in Inums |-> FREE]
    /\ dir_entries' = [s \in Slots |-> Unused]
    /\ text' = [b \in Blocks |-> Garbled]
    /\ free_blocks' = [b \in Blocks |-> FREE]
    /\ open_file_table' = [h \in Handles |-> Closed]
    /\ copying' = -1
    /\ lapses' = {}

\* Nothing asks whether files are open.
tfs_destroy == status = "mounted" /\ status' = "unmounted" /\ TablesGone

abort == status' = "aborted" /\ TablesGone

-----------------------------------------------------------------------------
(* tfs_open                                                                *)

\* Mutation: truncation gives the block back and leaves i_size.
SizeKeptByTruncation(inum, trunc) == inode_table[inum].i_size

SizeAfterOpen(inum, trunc) == IF trunc THEN 0 ELSE inode_table[inum].i_size

\* TFS_O_CREAT makes no difference.
OpenExisting(name, trunc, append) ==
    /\ \E last \in OpenEnds(name) :
          /\ Listed(last)
          /\ LET inum == find_in_dir(last)
                 size == SizeAfterOpen(inum, trunc)
             IN  /\ inode_table' = [inode_table EXCEPT ![inum].i_size = size]
                 /\ free_blocks' =
                       IF trunc THEN BlocksWithoutDataOf(inum) ELSE free_blocks
                 /\ add_to_open_file_table(inum, IF append THEN size ELSE 0)
    /\ UNCHANGED <<freeinode_ts, dir_entries, text, lapses>>

\* With TFS_O_CREAT, a file is created where the chain of links ends.
OpenCreate(name) ==
    /\ CanCreateInode
    /\ \E last \in OpenEnds(name) :
          /\ ~Listed(last) /\ ~CannotList(last)
          /\ add_dir_entry(last, NextInum)
    /\ freeinode_ts' = Take(freeinode_ts, NextInum)
    /\ inode_table' = [inode_table EXCEPT ![NextInum] = NewInode("T_FILE")]
    /\ add_to_open_file_table(NextInum, 0)
    /\ UNCHANGED <<blockVars, lapses>>

\* add_dir_entry fails, and inode_delete gives back an inode that was reset.
OpenCreateUndone(name) ==
    /\ status = "mounted"
    /\ CanCreateInode
    /\ \E last \in OpenEnds(name) :
          ~Listed(last) /\ (CannotList(last) \/ last = Garbled)
    /\ inode_table' = [inode_table EXCEPT ![NextInum] = NewInode("T_FILE")]
    /\ UNCHANGED <<status, freeinode_ts, dir_entries, blockVars,
                   open_file_table, callVars>>

tfs_open(name, trunc, append) ==
    /\ status = "mounted"
    /\ OpenExisting(name, trunc, append) \/ OpenCreate(name)
    /\ UNCHANGED <<status, copying>>

\* Every link leads to another: the recursion eats the stack.
OpenLoops(name) ==
    /\ status = "mounted"
    /\ IsSymlink(name) /\ LoopsFrom(name)
    /\ abort

-----------------------------------------------------------------------------
(* tfs_sym_link and tfs_link.  Neither asks whether link_name is listed.   *)

Relinking(link_name) == IF Listed(link_name) THEN {"relinked"} ELSE {}

\* The links of the chain were not all read as what they lead to.
Misreading(target, read) ==
    IF \E n \in ReadChain(target, read) : IsSymlink(n) /\ read[n] # TargetOf(n)
    THEN {"misread"} ELSE {}

NewSymlink(bnum) == [NewInode("T_SYMLINK") EXCEPT !.i_size = TextSize,
                                                  !.i_data_block = bnum]

\* The entry is added last, after the block got its text.
SymLinkBlock(target) ==
    /\ CanAllocBlock
    /\ inode_table' = [inode_table EXCEPT ![NextInum] = NewSymlink(NextBlock)]
    /\ free_blocks' = Take(free_blocks, NextBlock)
    /\ text' = [text EXCEPT ![NextBlock] = target]

SymLinkListed(target, link_name, read) ==
    /\ ~CannotList(link_name)
    /\ SymLinkBlock(target)
    /\ add_dir_entry(link_name, NextInum)
    /\ lapses' = lapses \cup Relinking(link_name) \cup Misreading(target, read)

\* The directory does not take the name: inode and block stay allocated.
SymLinkNotListed(target, link_name) ==
    /\ CannotList(link_name)
    /\ SymLinkBlock(target)
    /\ lapses' = lapses \cup {"spilled"}
    /\ UNCHANGED dir_entries

\* No block: the inode stays allocated, with size 0.
SymLinkNoBlock ==
    /\ ~CanAllocBlock
    /\ inode_table' = [inode_table EXCEPT ![NextInum] = NewInode("T_SYMLINK")]
    /\ lapses' = lapses \cup {"spilled"}
    /\ UNCHANGED <<dir_entries, blockVars>>

tfs_sym_link(target, link_name) ==
    /\ status = "mounted"
    /\ target # link_name
    /\ CanCreateInode
    /\ freeinode_ts' = Take(freeinode_ts, NextInum)
    /\ \E read \in Readings :
          /\ verify_symlink_recursion(target, link_name, read)
          /\ \/ SymLinkListed(target, link_name, read)
             \/ SymLinkNotListed(target, link_name)
             \/ SymLinkNoBlock
    /\ UNCHANGED <<status, open_file_table, copying>>

\* inode_get(-1), for a target that is not listed or a link whose eight bytes
\* spell no listed name, as they always may; or an endless chain.
SymLinkAborts(target, link_name) ==
    /\ status = "mounted"
    /\ target # link_name
    /\ IsSymlink(target) \/ ~Listed(target)
    /\ abort

\* Mutation: the counter is not raised.
WithoutLinkMore(inum) == inode_table

WithLinkMore(inum) == [inode_table EXCEPT ![inum].i_link_counter = @ + 1]

tfs_link(target, link_name) ==
    /\ status = "mounted"
    /\ target # link_name
    /\ Listed(target) /\ ~IsSymlink(target)
    /\ ~CannotList(link_name)
    /\ add_dir_entry(link_name, find_in_dir(target))
    /\ inode_table' = WithLinkMore(find_in_dir(target))
    /\ lapses' = lapses \cup Relinking(link_name)
    /\ UNCHANGED <<status, freeinode_ts, blockVars, open_file_table, copying>>

\* The directory does not take the name: the counter stays raised.  MaxCounter
\* bounds how often, far below where the int would overflow.
MaxCounter == MAX_DIR_ENTRIES + 1

LinkNotListed(target, link_name) ==
    /\ status = "mounted"
    /\ target # link_name
    /\ Listed(target) /\ ~IsSymlink(target)
    /\ CannotList(link_name)
    /\ inode_table[find_in_dir(target)].i_link_counter < MaxCounter
    /\ inode_table' = WithLinkMore(find_in_dir(target))
    /\ lapses' = lapses \cup {"spilled"}
    /\ UNCHANGED <<status, freeinode_ts, dir_entries, blockVars,
                   open_file_table, copying>>

-----------------------------------------------------------------------------
(* tfs_close, tfs_write and tfs_read.  The inode is the one the handle     *)
(* names, whatever it has become.                                          *)

Least(a, b) == IF a < b THEN a ELSE b
Greatest(a, b) == IF a > b THEN a ELSE b

InumOf(h)   == open_file_table[h].of_inumber
OffsetOf(h) == open_file_table[h].of_offset
SizeOf(h)   == inode_table[InumOf(h)].i_size
BlockOf(h)  == inode_table[InumOf(h)].i_data_block

tfs_close(h) ==
    /\ status = "mounted"
    /\ IsOpen(h)
    /\ remove_from_open_file_table(h)
    /\ UNCHANGED <<status, inodeVars, dir_entries, blockVars, callVars>>

\* Mutation: to_write is not clipped.
ToWriteUnclipped(h, len) == len

\* to_write, clipped to the end of the block
ToWrite(h, len) == Least(len, BLOCK_SIZE - OffsetOf(h))

\* An empty file gets a block first.
WritesTo(h) == IF SizeOf(h) = 0 THEN NextBlock ELSE BlockOf(h)
HasRoom(h) == SizeOf(h) > 0 \/ CanAllocBlock

HoldsLink(b) == \E i \in Inums : /\ freeinode_ts[i] = TAKEN
                                 /\ inode_table[i].i_node_type = "T_SYMLINK"
                                 /\ inode_table[i].i_data_block = b

\* Through a handle to a file deleted since, bytes can land in the text of a
\* link, and spell any path there; elsewhere nobody reads them as a path.
TextAfterWrite(b) == IF HoldsLink(b) THEN Texts ELSE {Garbled}

\* Only an empty file is given a block: that of a deleted inode that still has
\* a size stays free, and may be given to another file.
BlocksAfterWrite(h) ==
    IF SizeOf(h) = 0 THEN Take(free_blocks, NextBlock) ELSE free_blocks

WriteAt(h, n) ==
    LET bnum == WritesTo(h)
        end  == OffsetOf(h) + n
    IN  /\ free_blocks' = BlocksAfterWrite(h)
        /\ \E path \in TextAfterWrite(bnum) :
              text' = [text EXCEPT ![bnum] = path]
        /\ inode_table' = [inode_table EXCEPT
              ![InumOf(h)].i_size = Greatest(SizeOf(h), end),
              ![InumOf(h)].i_data_block = bnum]
        /\ open_file_table' = [open_file_table EXCEPT ![h].of_offset = end]
        /\ UNCHANGED <<freeinode_ts, dir_entries>>

tfs_write(h, len) ==
    /\ status = "mounted"
    /\ IsOpen(h) /\ OffsetOf(h) < BLOCK_SIZE
    /\ HasRoom(h)
    /\ WriteAt(h, ToWrite(h, len))
    /\ UNCHANGED <<status, callVars>>

\* to_read: i_size - of_offset is unsigned and wraps around below zero.
ToRead(h, len) ==
    IF OffsetOf(h) > SizeOf(h) THEN len ELSE Least(len, SizeOf(h) - OffsetOf(h))

tfs_read(h, len) ==
    /\ status = "mounted"
    /\ IsOpen(h)
    /\ ToRead(h, len) > 0
    /\ BlockOf(h) # -1
    /\ OffsetOf(h) + ToRead(h, len) <= MaxOffset
    /\ open_file_table' = [open_file_table EXCEPT
          ![h].of_offset = OffsetOf(h) + ToRead(h, len)]
    /\ UNCHANGED <<status, inodeVars, dir_entries, blockVars, callVars>>

\* A closed handle is NULL, and its lock is taken before it is tested; a read
\* may ask for block -1, and a write past the block wraps its length around.
HandleAborts(h) ==
    /\ status = "mounted"
    /\ \/ ~IsOpen(h)
       \/ IsOpen(h) /\ OffsetOf(h) > SizeOf(h) /\ BlockOf(h) = -1
       \/ IsOpen(h) /\ OffsetOf(h) > BLOCK_SIZE /\ HasRoom(h)
    /\ abort

-----------------------------------------------------------------------------
(* tfs_unlink                                                              *)

FileIsOpen(inum) == \E h \in Handles : IsOpen(h) /\ InumOf(h) = inum

\* Mutation: the last link does not count.
LinksLeftAndOne(inum) == inode_table[inum].i_link_counter

LinksLeft(inum) == inode_table[inum].i_link_counter - 1

\* The block is freed here and again in inode_delete, to the same effect.
UnlinkSymlink(name) ==
    /\ IsSymlink(name)
    /\ clear_dir_entry(name)
    /\ inode_delete(find_in_dir(name))
    /\ UNCHANGED <<inode_table, lapses>>

UnlinkFile(name) ==
    /\ Listed(name) /\ ~IsSymlink(name)
    /\ clear_dir_entry(name)
    /\ LET inum == find_in_dir(name) IN
       /\ inode_table' =
             [inode_table EXCEPT ![inum].i_link_counter = @ - 1]
       /\ IF LinksLeft(inum) = 0
          THEN /\ inode_delete(inum)
               /\ lapses' = lapses \cup
                     (IF FileIsOpen(inum) THEN {"orphaned"} ELSE {})
          ELSE UNCHANGED <<freeinode_ts, free_blocks, lapses>>

tfs_unlink(name) ==
    /\ status = "mounted"
    /\ UnlinkSymlink(name) \/ UnlinkFile(name)
    /\ UNCHANGED <<status, text, open_file_table, copying>>

-----------------------------------------------------------------------------
(* tfs_copy_from_external_fs                                               *)

\* The source opens, and so does the destination.
CopyStarts(dest_path) ==
    /\ status = "mounted"
    /\ FreeHandles # {}
    /\ OpenExisting(dest_path, TRUE, FALSE) \/ OpenCreate(dest_path)
    /\ copying' = First(FreeHandles)
    /\ status' = "copying"

\* The next chunk.  A write that finds no block returns -1, which does not end
\* the loop and is a stuttering step.
CopyChunk(len) ==
    /\ status = "copying"
    /\ OffsetOf(copying) < BLOCK_SIZE
    /\ HasRoom(copying)
    /\ WriteAt(copying, ToWrite(copying, len))
    /\ UNCHANGED <<status, callVars>>

\* Nothing more to read, or nothing more written.
CopyEnds ==
    /\ status = "copying"
    /\ remove_from_open_file_table(copying)
    /\ copying' = -1
    /\ status' = "mounted"
    /\ UNCHANGED <<inodeVars, dir_entries, blockVars, lapses>>

-----------------------------------------------------------------------------

Next ==
    \/ tfs_init
    \/ tfs_destroy
    \/ \E name \in Names, trunc, append \in BOOLEAN :
          tfs_open(name, trunc, append)
    \/ \E name \in Names : OpenCreateUndone(name)
    \/ \E name \in Names : OpenLoops(name)
    \/ \E target, link_name \in Names : tfs_sym_link(target, link_name)
    \/ \E target, link_name \in Names : SymLinkAborts(target, link_name)
    \/ \E target, link_name \in Names : tfs_link(target, link_name)
    \/ \E target, link_name \in Names : LinkNotListed(target, link_name)
    \/ \E h \in Handles : tfs_close(h)
    \/ \E h \in Handles, len \in 1 .. MaxTransfer : tfs_write(h, len)
    \/ \E h \in Handles, len \in 1 .. MaxTransfer : tfs_read(h, len)
    \/ \E h \in Handles : HandleAborts(h)
    \/ \E name \in Names : tfs_unlink(name)
    \/ \E dest_path \in Names : CopyStarts(dest_path)
    \/ \E len \in 1 .. MaxTransfer : CopyChunk(len)
    \/ CopyEnds

Spec == Init /\ [][Next]_vars

-----------------------------------------------------------------------------

Allocated == {i \in Inums \ {ROOT_DIR_INUM} : freeinode_ts[i] = TAKEN}
EntriesOf(i) == {s \in Slots : dir_entries[s].d_inumber = i}

\* Whatever the callers do -- link a name twice, unlink open files -- and
\* whichever calls fail halfway, a used entry names an allocated inode: links
\* never outlive their inode, because the counter that tfs_link raises and
\* tfs_unlink lowers is never below the number of entries.  A listed symbolic
\* link has one entry and a block.
EntriesBacked ==
    status \in {"mounted", "copying"} =>
      /\ \A s \in SlotsUsed : dir_entries[s].d_inumber \in Allocated
      /\ \A i \in Allocated :
            Cardinality(EntriesOf(i)) <= inode_table[i].i_link_counter
      /\ \A i \in Allocated :
            inode_table[i].i_node_type = "T_SYMLINK" /\ EntriesOf(i) # {} =>
               inode_table[i].i_size > 0 /\ inode_table[i].i_data_block \in Blocks

\* The blocks of allocated inodes are allocated and each has one owner, also
\* when handles to deleted files go on writing and the block of an unlinked
\* symbolic link is freed twice.
BlocksExclusive ==
    status \in {"mounted", "copying"} =>
      LET Owners == {i \in Inums : freeinode_ts[i] = TAKEN
                                   /\ inode_table[i].i_size > 0}
          Block(i) == inode_table[i].i_data_block
      IN  /\ \A i \in Owners : free_blocks[Block(i)] = TAKEN
          /\ \A i, j \in Owners : i # j => Block(i) # Block(j)

\* As long as no link call failed halfway, the counter is the number of entries
\* and every inode is listed, so the last unlink frees it; and if no file was
\* deleted while open, every block belongs to an inode.
NothingLeaks ==
    status \in {"mounted", "copying"} /\ "spilled" \notin lapses =>
      /\ \A i \in Allocated :
            inode_table[i].i_link_counter = Cardinality(EntriesOf(i))
      /\ \A i \in Allocated : EntriesOf(i) # {}
      /\ "orphaned" \notin lapses =>
            \A b \in Blocks : free_blocks[b] = TAKEN =>
               \E i \in Inums : /\ freeinode_ts[i] = TAKEN
                                /\ inode_table[i].i_size > 0
                                /\ inode_table[i].i_data_block = b

\* Following links ends, whatever was unlinked and created again in between:
\* what verify_symlink_recursion is for.
LinksEnd == \A n \in Names : IsSymlink(n) => ~LoopsFrom(n)

\* It does as long as no link takes a listed name, no open file is deleted and
\* every link that verify_symlink_recursion follows is read as what it leads to.
\* A second entry of a name is not what it looks at, and once the first is
\* unlinked two links may lead to each other; so may they after it has taken the
\* first eight bytes of a longer target for the name of a file.
SymlinksTerminate ==
    {"relinked", "orphaned", "misread"} \cap lapses = {} => LinksEnd
=============================================================================
