----------------------------- MODULE TfsProofs ------------------------------
(***************************************************************************)
(* Safety of the TecnicoFS tables for every size of the tables and every   *)
(* order of calls.  The invariants of Tfs are inductive together, with one *)
(* strengthening: where the stale names of the directory block can be.     *)
(***************************************************************************)
EXTENDS Tfs, TLAPS

\* An unused entry that still spells a name was never used; the allocator
\* takes the first unused entry, so nothing after such an entry is used.
StaleNamesLast ==
    \A s, t \in Slots :
        ~Used(s) /\ dir_entries[s].d_name # NoName /\ s < t => ~Used(t)

IInv ==
    /\ TypeOK
    /\ DirectoryMatchesInodes
    /\ BlocksExclusive
    /\ DirectoryBlockSafe
    /\ StaleNamesLast

-----------------------------------------------------------------------------

\* The index sets hold the slot the mount fixes for the root directory.
LEMMA RootIndices == ROOT_DIR_INUM \in Inums /\ RootBlock \in Blocks /\ RootBlock # -1
BY TfsAssumption DEF ROOT_DIR_INUM, RootBlock, Inums, Blocks

\* find_in_dir and clear_dir_entry stop at the same entry.
LEMMA FindAndClearAgree ==
    ASSUME TypeOK, StaleNamesLast, NEW name \in Names,
           NEW s \in Slots, NEW t \in Slots, Finds(s, name), IsCleared(t, name)
    PROVE  s = t
<1>1. s \in Int /\ t \in Int
  BY TfsAssumption DEF Slots
<1>2. ~(s < t)
  BY DEF Finds, IsCleared
<1>3. ~(t < s)
  <2> SUFFICES ASSUME t < s PROVE FALSE
    OBVIOUS
  <2>1. dir_entries[t].d_name = name /\ ~Used(t) /\ Used(s)
    BY DEF Finds, IsCleared, Used
  <2>2. name # NoName
    BY TfsAssumption
  <2> QED
    BY <2>1, <2>2 DEF StaleNamesLast
<1> QED
  BY <1>1, <1>2, <1>3

-----------------------------------------------------------------------------

LEMMA InitIInv == Init => IInv
<1> SUFFICES ASSUME Init PROVE IInv
  OBVIOUS
<1> USE TfsAssumption, RootIndices
<1>1. TypeOK
  BY DEF Init, NoTables, TypeOK, BlankInodes, NewFile, Inode, FreeAll,
         AllocationState, FREE, BlankDirectories, DirEntry, BlankData,
         BlankOpenFiles, OpenFile
<1>2. StaleNamesLast
  BY DEF Init, NoTables, BlankDirectories, StaleNamesLast, Used
<1> QED
  BY <1>1, <1>2 DEF IInv, Init, DirectoryMatchesInodes, BlocksExclusive,
                    DirectoryBlockSafe

\* Mounting builds the tables from nothing.
LEMMA InitStep == IInv /\ tfs_init => IInv'
<1> SUFFICES ASSUME IInv, tfs_init PROVE IInv'
  OBVIOUS
<1> USE TfsAssumption, RootIndices
<1> USE DEF FreshTables
<1>1. TypeOK'
  BY DEF tfs_init, TypeOK, BlankInodes, NewFile, Inode, FreeAll, Take,
         AllocationState, FREE, TAKEN, BlankDirectories, DirEntry, BlankData,
         BlankOpenFiles, OpenFile
<1>2. \A s \in Slots : ~Used(s)'
  BY DEF tfs_init, BlankDirectories, Used
<1>3. \A i \in Inums : freeinode_ts'[i] = TAKEN <=> i = ROOT_DIR_INUM
  BY DEF tfs_init, FreeAll, Take, FREE, TAKEN
<1>4. \A i \in Inums \ {ROOT_DIR_INUM} : inode_table'[i] = NewFile
  BY DEF tfs_init, BlankInodes
<1>5. /\ inode_table'[ROOT_DIR_INUM].i_data_block = RootBlock
      /\ free_blocks'[RootBlock] = TAKEN
  BY DEF tfs_init, BlankInodes, FreeAll, Take
<1>6. DirectoryMatchesInodes'
  BY <1>2, <1>3 DEF DirectoryMatchesInodes, Used
<1>7. BlocksExclusive'
  BY <1>3, <1>5 DEF BlocksExclusive
<1>8. DirectoryBlockSafe'
  <2>1. \A h \in Handles : ~IsOpen(h)'
    BY DEF tfs_init, IsOpen, FreeAll, FREE, TAKEN
  <2> QED
    BY <1>4, <1>5, <2>1 DEF DirectoryBlockSafe, HasData, NewFile, RootBlock
<1>9. StaleNamesLast'
  BY <1>2 DEF StaleNamesLast
<1> QED
  BY <1>1, <1>6, <1>7, <1>8, <1>9 DEF IInv

LEMMA DestroyStep == IInv /\ tfs_destroy => IInv'
<1> SUFFICES ASSUME IInv, tfs_destroy PROVE IInv'
  OBVIOUS
<1> USE TfsAssumption, RootIndices
<1>1. TypeOK'
  BY DEF tfs_destroy, state_destroy, TypeOK, BlankInodes, NewFile, Inode,
         FreeAll, AllocationState, FREE, BlankDirectories, DirEntry, BlankData,
         BlankOpenFiles, OpenFile
<1>2. StaleNamesLast'
  BY DEF tfs_destroy, state_destroy, BlankDirectories, StaleNamesLast, Used
<1> QED
  BY <1>1, <1>2 DEF IInv, tfs_destroy, DirectoryMatchesInodes, BlocksExclusive,
                    DirectoryBlockSafe

\* A call that ends the process leaves the tables as they are.
LEMMA AbortStep ==
    ASSUME IInv, status # "unmounted", abort PROVE IInv'
BY DEF abort, IInv, TypeOK, DirectoryMatchesInodes, BlocksExclusive,
       DirectoryBlockSafe, StaleNamesLast, inodeVars, dirVars, blockVars,
       openVars, Used, HasData, IsOpen, InumOf

\* An inode with data names a block.
LEMMA DataHasBlock ==
    ASSUME IInv, status # "unmounted", NEW i \in Inums, HasData(i)
    PROVE  inode_table[i].i_data_block \in Blocks
BY RootIndices DEF IInv, TypeOK, Inode, DirectoryBlockSafe

-----------------------------------------------------------------------------
(* tfs_open                                                                *)

\* What a new handle can name: nothing but the file just opened.
LEMMA NewHandle ==
    ASSUME TypeOK, NEW inum \in Inums, NEW offset \in Nat,
           add_to_open_file_table(inum, offset)
    PROVE  /\ open_file_table' \in [Handles -> OpenFile]
           /\ free_open_file_entries' \in [Handles -> AllocationState]
           /\ \A h \in Handles : IsOpen(h)' =>
                 \/ InumOf(h)' = inum
                 \/ IsOpen(h) /\ InumOf(h)' = InumOf(h)
<1>1. CASE UNCHANGED openVars
  BY <1>1 DEF openVars, TypeOK, IsOpen, InumOf
<1>2. ASSUME NEW g \in Handles, IsFirstFree(g, free_open_file_entries),
             free_open_file_entries' = Take(free_open_file_entries, g),
             open_file_table' = [open_file_table EXCEPT ![g] =
                [of_inumber |-> inum, of_offset |-> offset]]
      PROVE  /\ open_file_table' \in [Handles -> OpenFile]
             /\ free_open_file_entries' \in [Handles -> AllocationState]
             /\ \A h \in Handles : IsOpen(h)' =>
                   \/ InumOf(h)' = inum
                   \/ IsOpen(h) /\ InumOf(h)' = InumOf(h)
  BY <1>2 DEF TypeOK, OpenFile, AllocationState, Take, TAKEN, FREE, IsOpen, InumOf
<1> QED
  BY <1>1, <1>2 DEF add_to_open_file_table

LEMMA OpenExistingStep ==
    ASSUME IInv, NEW name \in Names, NEW trunc \in BOOLEAN,
           NEW append \in BOOLEAN, OpenExisting(name, trunc, append)
    PROVE  IInv'
<1> USE TfsAssumption, RootIndices
<1> PICK s \in Slots :
        /\ Finds(s, name)
        /\ inode_table' = [inode_table EXCEPT ![dir_entries[s].d_inumber].i_size =
                              SizeAfterOpen(dir_entries[s].d_inumber, trunc)]
        /\ free_blocks' = IF trunc THEN BlocksWithoutDataOf(dir_entries[s].d_inumber)
                          ELSE free_blocks
        /\ add_to_open_file_table(dir_entries[s].d_inumber,
              IF append THEN SizeAfterOpen(dir_entries[s].d_inumber, trunc) ELSE 0)
  BY DEF OpenExisting
<1> DEFINE inum == dir_entries[s].d_inumber
<1>1. /\ status = "mounted"
      /\ UNCHANGED <<status, freeinode_ts, dir_entries, fs_data>>
  BY DEF OpenExisting, dirVars
<1>2. /\ inum \in Inums
      /\ inum # ROOT_DIR_INUM
      /\ freeinode_ts[inum] = TAKEN
  BY <1>1 DEF IInv, TypeOK, DirEntry, Finds, DirectoryMatchesInodes, Used
<1>3. /\ inode_table' \in [Inums -> Inode]
      /\ \A i \in Inums : i # inum => inode_table'[i] = inode_table[i]
      /\ inode_table'[inum].i_data_block = inode_table[inum].i_data_block
      /\ inode_table'[inum].i_size = SizeAfterOpen(inum, trunc)
  BY <1>2 DEF IInv, TypeOK, Inode, SizeAfterOpen
<1>4. SizeAfterOpen(inum, trunc) \in Nat
  BY <1>2 DEF IInv, TypeOK, Inode, SizeAfterOpen
<1> HIDE DEF inum
<1>5. /\ open_file_table' \in [Handles -> OpenFile]
      /\ free_open_file_entries' \in [Handles -> AllocationState]
      /\ \A h \in Handles : IsOpen(h)' =>
            \/ InumOf(h)' = inum
            \/ IsOpen(h) /\ InumOf(h)' = InumOf(h)
  <2> DEFINE offset == IF append THEN SizeAfterOpen(inum, trunc) ELSE 0
  <2>1. offset \in Nat /\ add_to_open_file_table(inum, offset)
    BY <1>4 DEF inum
  <2> HIDE DEF offset
  <2> QED
    BY <1>2, <2>1, NewHandle DEF IInv
<1>6. \/ free_blocks' = free_blocks /\ (trunc => ~HasData(inum))
      \/ /\ trunc /\ HasData(inum)
         /\ inode_table[inum].i_data_block \in Blocks
         /\ inode_table[inum].i_data_block # RootBlock
         /\ free_blocks' = Release(free_blocks, inode_table[inum].i_data_block)
  BY <1>1, <1>2 DEF inum, IInv, TypeOK, Inode, BlocksWithoutDataOf, HasData,
                    DirectoryBlockSafe
<1>7. \A i \in Inums : HasData(i)' => HasData(i) /\ (i = inum => ~trunc)
  BY <1>2, <1>3 DEF HasData, SizeAfterOpen
<1>8. TypeOK'
  BY <1>1, <1>3, <1>5, <1>6
     DEF IInv, TypeOK, Release, AllocationState, FREE
<1>9. DirectoryMatchesInodes'
  BY <1>1 DEF IInv, DirectoryMatchesInodes, Used
<1>10. BlocksExclusive'
  <2>1. \A i, j \in Inums :
          /\ freeinode_ts[i] = TAKEN /\ HasData(i)
          /\ freeinode_ts[j] = TAKEN /\ HasData(j)
          /\ i # j
          => inode_table[i].i_data_block # inode_table[j].i_data_block
    BY <1>1 DEF IInv, BlocksExclusive
  <2>2. \A i \in Inums : freeinode_ts[i] = TAKEN /\ HasData(i)
          => free_blocks[inode_table[i].i_data_block] = TAKEN
    BY <1>1 DEF IInv, BlocksExclusive
  <2>3. \A i \in Inums : inode_table'[i].i_data_block = inode_table[i].i_data_block
    BY <1>3
  <2>4. \A i \in Inums : freeinode_ts[i] = TAKEN /\ HasData(i)'
          => free_blocks'[inode_table[i].i_data_block] = TAKEN
    <3> SUFFICES ASSUME NEW i \in Inums, freeinode_ts[i] = TAKEN, HasData(i)'
                 PROVE  free_blocks'[inode_table[i].i_data_block] = TAKEN
      OBVIOUS
    <3>1. CASE free_blocks' = free_blocks
      BY <1>7, <2>2, <3>1
    <3>2. CASE free_blocks' # free_blocks
      <4>1. i # inum /\ HasData(i) /\ HasData(inum)
        BY <1>6, <1>7, <3>2
      <4>2. inode_table[i].i_data_block # inode_table[inum].i_data_block
        BY <1>2, <2>1, <4>1
      <4>3. inode_table[i].i_data_block \in Blocks
        BY <1>1, <4>1, DataHasBlock
      <4> QED
        BY <1>6, <2>2, <3>2, <4>1, <4>2, <4>3 DEF IInv, TypeOK, Release
    <3> QED
      BY <3>1, <3>2
  <2> QED
    BY <1>1, <1>7, <2>1, <2>3, <2>4 DEF BlocksExclusive
<1>11. DirectoryBlockSafe'
  <2>1. DirectoryBlockSafe
    BY DEF IInv
  <2>2. free_blocks'[RootBlock] = TAKEN
    BY <1>1, <1>6, <2>1 DEF IInv, TypeOK, DirectoryBlockSafe, Release
  <2>3. \A i \in Inums : inode_table'[i].i_data_block = inode_table[i].i_data_block
    BY <1>3
  <2>4. \A h \in Handles : IsOpen(h)' => InumOf(h)' # ROOT_DIR_INUM
    BY <1>1, <1>2, <1>5, <2>1 DEF DirectoryBlockSafe
  <2> QED
    BY <1>1, <1>7, <2>1, <2>2, <2>3, <2>4 DEF DirectoryBlockSafe
<1>12. StaleNamesLast'
  BY <1>1 DEF IInv, StaleNamesLast, Used
<1> QED
  BY <1>8, <1>9, <1>10, <1>11, <1>12 DEF IInv

\* The first free inode is not the root's, and no entry names it.
LEMMA NewInum ==
    ASSUME IInv, status = "mounted", NEW inum \in Inums,
           IsFirstFree(inum, freeinode_ts)
    PROVE  /\ inum # ROOT_DIR_INUM
           /\ freeinode_ts[inum] # TAKEN
           /\ \A s \in Slots : dir_entries[s].d_inumber # inum
BY TfsAssumption
   DEF IInv, IsFirstFree, FREE, TAKEN, DirectoryMatchesInodes, Used, Inums

\* An inode that is reset names no block: nobody's data moves.
LEMMA ResetInode ==
    ASSUME IInv, status = "mounted", UNCHANGED <<status, free_blocks>>,
           NEW inum \in Inums, inum # ROOT_DIR_INUM,
           inode_table' = [inode_table EXCEPT ![inum] = NewFile],
           \A i \in Inums : i # inum => freeinode_ts'[i] = freeinode_ts[i],
           \A h \in Handles : IsOpen(h)' => InumOf(h)' # ROOT_DIR_INUM
    PROVE  /\ inode_table' \in [Inums -> Inode]
           /\ BlocksExclusive'
           /\ DirectoryBlockSafe'
<1> USE TfsAssumption, RootIndices
<1>1. inode_table' \in [Inums -> Inode]
  BY DEF IInv, TypeOK, Inode, NewFile
<1>2. /\ \A i \in Inums : i # inum => inode_table'[i] = inode_table[i]
      /\ inode_table'[inum] = NewFile
  BY DEF IInv, TypeOK
<1>3. /\ ~HasData(inum)'
      /\ \A i \in Inums : i # inum => (HasData(i)' <=> HasData(i))
  BY <1>2 DEF HasData, NewFile
<1>4. BlocksExclusive'
  <2>1. \A i \in Inums : HasData(i)' =>
          /\ HasData(i)
          /\ freeinode_ts'[i] = freeinode_ts[i]
          /\ inode_table'[i] = inode_table[i]
    BY <1>2, <1>3
  <2> QED
    BY <2>1 DEF IInv, BlocksExclusive
<1>5. DirectoryBlockSafe'
  BY <1>2, <1>3 DEF IInv, DirectoryBlockSafe, NewFile, RootBlock
<1> QED
  BY <1>1, <1>4, <1>5

LEMMA OpenCreateStep ==
    ASSUME IInv, NEW name \in Names, OpenCreate(name)
    PROVE  IInv'
<1> USE TfsAssumption, RootIndices
<1> PICK inum \in Inums, s \in Slots :
        /\ IsFirstFree(inum, freeinode_ts)
        /\ freeinode_ts' = Take(freeinode_ts, inum)
        /\ inode_table' = [inode_table EXCEPT ![inum] = NewFile]
        /\ ~CannotList(name)
        /\ IsFirstUnused(s)
        /\ add_dir_entry(s, name, inum)
        /\ add_to_open_file_table(inum, 0)
  BY DEF OpenCreate
<1>1. status = "mounted" /\ UNCHANGED <<status, fs_data, free_blocks>>
  BY DEF OpenCreate, blockVars
<1>2. /\ inum # ROOT_DIR_INUM
      /\ freeinode_ts[inum] # TAKEN
      /\ \A t \in Slots : dir_entries[t].d_inumber # inum
  BY <1>1, NewInum
<1>3. /\ freeinode_ts' \in [Inums -> AllocationState]
      /\ \A i \in Inums : i # inum => freeinode_ts'[i] = freeinode_ts[i]
      /\ freeinode_ts'[inum] = TAKEN
  BY DEF IInv, TypeOK, Take, TAKEN, AllocationState
<1>4. /\ open_file_table' \in [Handles -> OpenFile]
      /\ free_open_file_entries' \in [Handles -> AllocationState]
      /\ \A h \in Handles : IsOpen(h)' =>
            \/ InumOf(h)' = inum
            \/ IsOpen(h) /\ InumOf(h)' = InumOf(h)
  BY NewHandle DEF IInv
<1>5. \A h \in Handles : IsOpen(h)' => InumOf(h)' # ROOT_DIR_INUM
  BY <1>1, <1>2, <1>4 DEF IInv, DirectoryBlockSafe
<1>6. /\ inode_table' \in [Inums -> Inode]
      /\ BlocksExclusive'
      /\ DirectoryBlockSafe'
  BY <1>1, <1>2, <1>3, <1>5, ResetInode
<1>7. /\ ~Used(s)
      /\ \A t \in Slots : t < s => Used(t)
  BY DEF IsFirstUnused, Used
<1>8. /\ dir_entries' \in [Slots -> DirEntry]
      /\ \A t \in Slots : t # s => dir_entries'[t] = dir_entries[t]
      /\ dir_entries'[s] = [d_name |-> name, d_inumber |-> inum]
  BY DEF IInv, TypeOK, add_dir_entry, DirEntry, ShortNames, CannotList
<1>9. /\ Used(s)'
      /\ \A t \in Slots : t # s => (Used(t)' <=> Used(t))
  BY <1>8 DEF Used, Inums
<1>10. TypeOK'
  BY <1>1, <1>3, <1>4, <1>6, <1>8 DEF IInv, TypeOK
<1>11. DirectoryMatchesInodes'
  <2>1. DirectoryMatchesInodes
    BY DEF IInv
  <2>2. name \in ShortNames /\ \A t \in Slots : Used(t) => dir_entries[t].d_name # name
    BY DEF OpenCreate, NotFound, Used, CannotList, ShortNames
  <2>3. \A t \in Slots : Used(t)' =>
          /\ dir_entries'[t].d_inumber # ROOT_DIR_INUM
          /\ freeinode_ts'[dir_entries'[t].d_inumber] = TAKEN
          /\ dir_entries'[t].d_name \in ShortNames
    <3> SUFFICES ASSUME NEW t \in Slots, t # s, Used(t)
                 PROVE  /\ dir_entries[t].d_inumber # ROOT_DIR_INUM
                        /\ freeinode_ts'[dir_entries[t].d_inumber] = TAKEN
                        /\ dir_entries[t].d_name \in ShortNames
      BY <1>2, <1>3, <1>8, <1>9, <2>2
    <3>1. dir_entries[t].d_inumber \in Inums \ {inum}
      BY <1>2 DEF IInv, TypeOK, DirEntry, Used
    <3> QED
      BY <1>1, <1>3, <2>1, <3>1 DEF DirectoryMatchesInodes
  <2>4. \A t, u \in Slots : Used(t)' /\ Used(u)' /\ t # u =>
          /\ dir_entries'[t].d_name # dir_entries'[u].d_name
          /\ dir_entries'[t].d_inumber # dir_entries'[u].d_inumber
    BY <1>1, <1>2, <1>8, <1>9, <2>1, <2>2 DEF DirectoryMatchesInodes
  <2>5. \A i \in Inums \ {ROOT_DIR_INUM} : freeinode_ts'[i] = TAKEN =>
          \E t \in Slots : dir_entries'[t].d_inumber = i
    <3> SUFFICES ASSUME NEW i \in Inums \ {ROOT_DIR_INUM},
                        freeinode_ts[i] = TAKEN
                 PROVE  \E t \in Slots : dir_entries'[t].d_inumber = i
      BY <1>3, <1>8
    <3>1. PICK t \in Slots : dir_entries[t].d_inumber = i
      BY <1>1, <2>1 DEF DirectoryMatchesInodes
    <3>2. t # s
      BY <1>7, <3>1 DEF Used, Inums
    <3> QED
      BY <1>8, <3>1, <3>2
  <2>6. freeinode_ts'[ROOT_DIR_INUM] = TAKEN
    BY <1>1, <1>2, <1>3, <2>1 DEF DirectoryMatchesInodes
  <2> QED
    BY <2>3, <2>4, <2>5, <2>6 DEF DirectoryMatchesInodes
<1>12. StaleNamesLast'
  \* an unused entry still comes after the one just taken, or had no name
  <2> SUFFICES ASSUME NEW t \in Slots, NEW u \in Slots, ~Used(t)',
                      dir_entries'[t].d_name # NoName, t < u
               PROVE  ~Used(u)'
    BY DEF StaleNamesLast
  <2>1. t # s /\ ~Used(t) /\ dir_entries[t].d_name # NoName
    BY <1>8, <1>9
  <2>2. s < t
    BY <1>7, <2>1 DEF Slots
  <2>3. u # s /\ ~Used(u)
    BY <2>1, <2>2 DEF IInv, StaleNamesLast, Slots
  <2> QED
    BY <1>9, <2>3
<1> QED
  BY <1>6, <1>10, <1>11, <1>12 DEF IInv

LEMMA OpenCreateUndoneStep ==
    ASSUME IInv, NEW name \in Names, OpenCreateUndone(name)
    PROVE  IInv'
<1> USE RootIndices
<1> PICK inum \in Inums :
        /\ IsFirstFree(inum, freeinode_ts)
        /\ inode_table' = [inode_table EXCEPT ![inum] = NewFile]
  BY DEF OpenCreateUndone
<1>1. /\ status = "mounted"
      /\ UNCHANGED <<status, freeinode_ts, dir_entries, fs_data, free_blocks,
                     open_file_table, free_open_file_entries>>
  BY DEF OpenCreateUndone, dirVars, blockVars, openVars
<1>2. inum # ROOT_DIR_INUM
  BY <1>1, NewInum
<1>3. \A h \in Handles : IsOpen(h)' => InumOf(h)' # ROOT_DIR_INUM
  BY <1>1 DEF IInv, DirectoryBlockSafe, IsOpen, InumOf
<1>4. /\ inode_table' \in [Inums -> Inode]
      /\ BlocksExclusive'
      /\ DirectoryBlockSafe'
  BY <1>1, <1>2, <1>3, ResetInode
<1>5. TypeOK'
  BY <1>1, <1>4 DEF IInv, TypeOK
<1>6. DirectoryMatchesInodes' /\ StaleNamesLast'
  BY <1>1 DEF IInv, DirectoryMatchesInodes, StaleNamesLast, Used
<1> QED
  BY <1>4, <1>5, <1>6 DEF IInv

-----------------------------------------------------------------------------

LEMMA CloseStep ==
    ASSUME IInv, NEW h \in Handles, tfs_close(h)
    PROVE  IInv'
<1>1. /\ status = "mounted"
      /\ UNCHANGED <<status, inode_table, freeinode_ts, dir_entries, fs_data,
                     free_blocks, open_file_table>>
      /\ free_open_file_entries' = Release(free_open_file_entries, h)
  BY DEF tfs_close, remove_from_open_file_table, inodeVars, dirVars, blockVars
<1>2. TypeOK'
  BY <1>1 DEF IInv, TypeOK, Release, FREE, AllocationState
<1>3. \A g \in Handles : IsOpen(g)' => IsOpen(g) /\ InumOf(g)' = InumOf(g)
  BY <1>1 DEF IInv, TypeOK, IsOpen, InumOf, Release, FREE, TAKEN
<1>4. DirectoryBlockSafe'
  BY <1>1, <1>3 DEF IInv, DirectoryBlockSafe, HasData
<1>5. DirectoryMatchesInodes' /\ BlocksExclusive' /\ StaleNamesLast'
  BY <1>1 DEF IInv, DirectoryMatchesInodes, BlocksExclusive, StaleNamesLast,
              Used, HasData
<1> QED
  BY <1>2, <1>4, <1>5 DEF IInv

LEMMA ReadStep ==
    ASSUME IInv, NEW h \in Handles, NEW len \in Lens, tfs_read(h, len)
    PROVE  IInv'
<1>1. /\ status = "mounted"
      /\ UNCHANGED <<status, inode_table, freeinode_ts, dir_entries, fs_data,
                     free_blocks, free_open_file_entries>>
      /\ open_file_table' = [open_file_table EXCEPT
            ![h].of_offset = OffsetOf(h) + ToRead(h, len)]
  BY DEF tfs_read, inodeVars, dirVars, blockVars
<1>2. OffsetOf(h) + ToRead(h, len) \in Nat
  <2>1. OffsetOf(h) \in Nat /\ InumOf(h) \in Inums /\ len \in Nat
    BY BoundsAssumption DEF IInv, TypeOK, OpenFile, OffsetOf, InumOf, Lens
  <2>2. SizeOf(h) \in Nat
    BY <2>1, TfsAssumption DEF IInv, TypeOK, Inode, SizeOf
  <2> QED
    BY <2>1, <2>2 DEF ToRead, Least
<1>3. TypeOK'
  BY <1>1, <1>2 DEF IInv, TypeOK, OpenFile
<1>4. \A g \in Handles : IsOpen(g)' => IsOpen(g) /\ InumOf(g)' = InumOf(g)
  BY <1>1 DEF IInv, TypeOK, OpenFile, IsOpen, InumOf
<1>5. DirectoryBlockSafe'
  BY <1>1, <1>4 DEF IInv, DirectoryBlockSafe, HasData
<1>6. DirectoryMatchesInodes' /\ BlocksExclusive' /\ StaleNamesLast'
  BY <1>1 DEF IInv, DirectoryMatchesInodes, BlocksExclusive, StaleNamesLast,
              Used, HasData
<1> QED
  BY <1>3, <1>5, <1>6 DEF IInv

\* A write through any handle, to a listed file or to a deleted one.
LEMMA WriteStep ==
    ASSUME IInv, NEW h \in Handles, NEW byte \in Bytes, NEW len \in Lens,
           tfs_write(h, byte, len)
    PROVE  IInv'
<1> USE TfsAssumption, RootIndices
<1> DEFINE n   == ToWrite(h, len)
           end == OffsetOf(h) + n
<1>1. /\ status = "mounted"
      /\ UNCHANGED <<status, freeinode_ts, dir_entries, free_open_file_entries>>
      /\ IsOpen(h) /\ OffsetOf(h) <= BLOCK_SIZE /\ n > 0
  BY DEF tfs_write, dirVars
\* the inode's number, whatever the next state's table says of h
<1> PICK inum \in Inums : inum = InumOf(h)
  BY DEF IInv, TypeOK, OpenFile, InumOf
<1> PICK b \in Blocks :
        /\ WritesTo(h, b)
        /\ free_blocks' =
              IF SizeOf(h) = 0 THEN Take(free_blocks, b) ELSE free_blocks
        /\ fs_data' = [fs_data EXCEPT
              ![b] = Written(fs_data[b], OffsetOf(h), n, byte)]
        /\ inode_table' = [inode_table EXCEPT ![inum] =
              [i_size |-> Greatest(SizeOf(h), end), i_data_block |-> b]]
        /\ open_file_table' = [open_file_table EXCEPT ![h].of_offset = end]
  BY DEF tfs_write
<1>2. /\ inum # ROOT_DIR_INUM
      /\ OffsetOf(h) \in Nat /\ len \in Nat
      /\ inode_table[inum] \in Inode
  BY <1>1, BoundsAssumption
     DEF IInv, TypeOK, OpenFile, InumOf, OffsetOf, DirectoryBlockSafe, Lens
<1>3. n \in Nat /\ n > 0 /\ end \in Nat /\ end > 0 /\ end <= BLOCK_SIZE
  BY <1>1, <1>2 DEF ToWrite, Least
<1>4. SizeOf(h) \in 0 .. BLOCK_SIZE
  BY <1>2 DEF Inode, SizeOf
<1>5. Greatest(SizeOf(h), end) \in 1 .. BLOCK_SIZE
  BY <1>3, <1>4 DEF Greatest
<1> HIDE DEF n, end
<1>6. /\ inode_table' \in [Inums -> Inode]
      /\ \A i \in Inums : i # inum => inode_table'[i] = inode_table[i]
      /\ inode_table'[inum].i_data_block = b
      /\ HasData(inum)'
  <2> DEFINE new == [i_size |-> Greatest(SizeOf(h), end), i_data_block |-> b]
  <2>1. new \in Inode /\ new.i_size > 0 /\ new.i_data_block = b
    BY <1>5 DEF Inode
  <2>2. inode_table' = [inode_table EXCEPT ![inum] = new]
    OBVIOUS
  <2> HIDE DEF new
  <2> QED
    BY <1>2, <2>1, <2>2 DEF IInv, TypeOK, HasData
<1>7. \A i \in Inums : i # inum => (HasData(i)' <=> HasData(i))
  BY <1>6 DEF HasData
\* the block is new, or was the inode's already
<1>8. \/ /\ ~HasData(inum)
         /\ free_blocks[b] # TAKEN
         /\ free_blocks' = Take(free_blocks, b)
      \/ /\ HasData(inum)
         /\ b = inode_table[inum].i_data_block
         /\ free_blocks' = free_blocks
  BY <1>2, <1>4 DEF WritesTo, IsFirstFree, FREE, TAKEN, HasData, SizeOf,
                    BlockOf
<1>9. b # RootBlock
  BY <1>1, <1>2, <1>8 DEF IInv, DirectoryBlockSafe
<1>10. \A c \in Blocks : free_blocks[c] = TAKEN => free_blocks'[c] = TAKEN
  BY <1>8 DEF IInv, TypeOK, Take
<1>11. TypeOK'
  <2>1. free_blocks' \in [Blocks -> AllocationState]
    BY <1>8 DEF IInv, TypeOK, Take, AllocationState, TAKEN
  <2>2. Written(fs_data[b], OffsetOf(h), n, byte) \in [Cells -> Bytes \cup {Junk}]
    BY DEF IInv, TypeOK, Written
  <2>3. fs_data' \in [Blocks -> [Cells -> Bytes \cup {Junk}]]
    BY <2>2 DEF IInv, TypeOK
  <2>4. open_file_table' \in [Handles -> OpenFile]
    BY <1>3 DEF IInv, TypeOK, OpenFile
  <2> QED
    BY <1>1, <1>6, <2>1, <2>3, <2>4 DEF IInv, TypeOK
<1>12. BlocksExclusive'
  <2>1. ASSUME NEW i \in Inums, freeinode_ts'[i] = TAKEN, HasData(i)'
        PROVE  free_blocks'[inode_table'[i].i_data_block] = TAKEN
    <3>1. CASE i = inum /\ HasData(inum)
      BY <1>1, <1>6, <1>8, <2>1, <3>1 DEF IInv, BlocksExclusive
    <3>2. CASE i = inum /\ ~HasData(inum)
      BY <1>6, <1>8, <3>2 DEF IInv, TypeOK, Take
    <3>3. CASE i # inum
      <4>1. HasData(i) /\ inode_table'[i] = inode_table[i]
        BY <1>6, <1>7, <2>1, <3>3
      <4>2. inode_table[i].i_data_block \in Blocks
        BY <1>1, <4>1, DataHasBlock
      <4>3. free_blocks[inode_table[i].i_data_block] = TAKEN
        BY <1>1, <2>1, <4>1 DEF IInv, BlocksExclusive
      <4> QED
        BY <1>10, <4>1, <4>2, <4>3
    <3> QED
      BY <3>1, <3>2, <3>3
  <2>2. ASSUME NEW i \in Inums, freeinode_ts'[i] = TAKEN, HasData(i)', i # inum,
               freeinode_ts'[inum] = TAKEN
        PROVE  inode_table'[i].i_data_block # b
    <3>1. HasData(i) /\ inode_table'[i] = inode_table[i]
      BY <1>6, <1>7, <2>2
    <3> QED
      BY <1>1, <1>2, <1>8, <2>2, <3>1 DEF IInv, BlocksExclusive
  <2>3. ASSUME NEW i \in Inums, NEW j \in Inums, i # j,
               freeinode_ts'[i] = TAKEN, HasData(i)',
               freeinode_ts'[j] = TAKEN, HasData(j)'
        PROVE  inode_table'[i].i_data_block # inode_table'[j].i_data_block
    <3>1. CASE i = inum \/ j = inum
      BY <1>6, <2>2, <2>3, <3>1
    <3>2. CASE i # inum /\ j # inum
      <4>1. /\ HasData(i) /\ inode_table'[i] = inode_table[i]
            /\ HasData(j) /\ inode_table'[j] = inode_table[j]
        BY <1>6, <1>7, <2>3, <3>2
      <4> QED
        BY <1>1, <2>3, <4>1 DEF IInv, BlocksExclusive
    <3> QED
      BY <3>1, <3>2
  <2> QED
    BY <2>1, <2>3 DEF BlocksExclusive
<1>13. DirectoryBlockSafe'
  <2>1. \A g \in Handles : IsOpen(g)' => IsOpen(g) /\ InumOf(g)' = InumOf(g)
    BY <1>1 DEF IInv, TypeOK, OpenFile, IsOpen, InumOf
  <2>2. \A i \in Inums \ {ROOT_DIR_INUM} :
          /\ inode_table'[i].i_data_block # RootBlock
          /\ HasData(i)' => inode_table'[i].i_data_block # -1
    <3>1. b # -1
      BY DEF Blocks
    <3> QED
      BY <1>1, <1>6, <1>7, <1>9, <3>1 DEF IInv, DirectoryBlockSafe
  <2>3. /\ free_blocks'[RootBlock] = TAKEN
        /\ inode_table'[ROOT_DIR_INUM].i_data_block = RootBlock
    BY <1>1, <1>2, <1>6, <1>10 DEF IInv, DirectoryBlockSafe
  <2>4. \A g \in Handles : IsOpen(g)' => InumOf(g)' # ROOT_DIR_INUM
    BY <1>1, <2>1 DEF IInv, DirectoryBlockSafe
  <2> QED
    BY <2>2, <2>3, <2>4 DEF DirectoryBlockSafe
<1>14. DirectoryMatchesInodes' /\ StaleNamesLast'
  BY <1>1 DEF IInv, DirectoryMatchesInodes, StaleNamesLast, Used
<1> QED
  BY <1>11, <1>12, <1>13, <1>14 DEF IInv

-----------------------------------------------------------------------------

\* The entry unlink clears is the one whose inode it deletes.
LEMMA UnlinkStep ==
    ASSUME IInv, NEW name \in Names, tfs_unlink(name)
    PROVE  IInv'
<1> USE TfsAssumption, RootIndices
<1> PICK s \in Slots : Finds(s, name) /\ inode_delete(dir_entries[s].d_inumber)
  BY DEF tfs_unlink
<1> DEFINE inum == dir_entries[s].d_inumber
<1>1. /\ status = "mounted"
      /\ UNCHANGED <<status, inode_table, fs_data, open_file_table,
                     free_open_file_entries>>
  BY DEF tfs_unlink, inode_delete, openVars
<1>2. clear_dir_entry(s)
  <2>1. PICK t \in Slots : IsCleared(t, name) /\ clear_dir_entry(t)
    BY DEF tfs_unlink
  <2> QED
    BY <2>1, FindAndClearAgree DEF IInv
<1>3. /\ Used(s) /\ inum \in Inums /\ inum # ROOT_DIR_INUM
      /\ freeinode_ts[inum] = TAKEN
  BY <1>1 DEF IInv, TypeOK, DirEntry, Finds, Used, DirectoryMatchesInodes
<1> HIDE DEF inum
<1>4. /\ freeinode_ts' \in [Inums -> AllocationState]
      /\ \A i \in Inums : i # inum => freeinode_ts'[i] = freeinode_ts[i]
      /\ freeinode_ts'[inum] # TAKEN
  BY <1>3 DEF inum, IInv, TypeOK, inode_delete, Release, AllocationState, FREE,
              TAKEN
<1>5. /\ dir_entries' \in [Slots -> DirEntry]
      /\ dir_entries'[s] = ClearedEntry
      /\ \A t \in Slots : t # s => dir_entries'[t] = dir_entries[t]
  BY <1>2 DEF clear_dir_entry, ClearedEntry, DirEntry, IInv, TypeOK
<1>6. /\ ~Used(s)'
      /\ \A t \in Slots : t # s => (Used(t)' <=> Used(t))
  BY <1>5 DEF Used, ClearedEntry
<1>7. \/ free_blocks' = free_blocks /\ ~HasData(inum)
      \/ /\ HasData(inum)
         /\ inode_table[inum].i_data_block # RootBlock
         /\ free_blocks' = Release(free_blocks, inode_table[inum].i_data_block)
  BY <1>1, <1>3 DEF inum, inode_delete, BlocksWithoutDataOf, HasData, IInv,
                    DirectoryBlockSafe
<1>8. TypeOK'
  BY <1>1, <1>4, <1>5, <1>7 DEF IInv, TypeOK, Release, FREE, AllocationState
<1>9. DirectoryMatchesInodes'
  <2>1. DirectoryMatchesInodes
    BY DEF IInv
  <2>2. \A t \in Slots : Used(t)' =>
          /\ dir_entries'[t].d_inumber # ROOT_DIR_INUM
          /\ freeinode_ts'[dir_entries'[t].d_inumber] = TAKEN
          /\ dir_entries'[t].d_name \in ShortNames
    <3> SUFFICES ASSUME NEW t \in Slots, t # s, Used(t)
                 PROVE  /\ dir_entries[t].d_inumber # ROOT_DIR_INUM
                        /\ freeinode_ts'[dir_entries[t].d_inumber] = TAKEN
                        /\ dir_entries[t].d_name \in ShortNames
      BY <1>5, <1>6
    <3>1. dir_entries[t].d_inumber \in Inums \ {inum}
      BY <1>1, <1>3, <2>1 DEF inum, IInv, TypeOK, DirEntry, Used,
                              DirectoryMatchesInodes
    <3> QED
      BY <1>1, <1>4, <2>1, <3>1 DEF DirectoryMatchesInodes
  <2>3. \A t, u \in Slots : Used(t)' /\ Used(u)' /\ t # u =>
          /\ dir_entries'[t].d_name # dir_entries'[u].d_name
          /\ dir_entries'[t].d_inumber # dir_entries'[u].d_inumber
    BY <1>1, <1>5, <1>6, <2>1 DEF DirectoryMatchesInodes
  <2>4. \A i \in Inums \ {ROOT_DIR_INUM} : freeinode_ts'[i] = TAKEN =>
          \E t \in Slots : dir_entries'[t].d_inumber = i
    <3> SUFFICES ASSUME NEW i \in Inums \ {ROOT_DIR_INUM},
                        freeinode_ts'[i] = TAKEN
                 PROVE  \E t \in Slots : dir_entries'[t].d_inumber = i
      OBVIOUS
    <3>1. i # inum /\ freeinode_ts[i] = TAKEN
      BY <1>4
    <3>2. PICK t \in Slots : dir_entries[t].d_inumber = i
      BY <1>1, <2>1, <3>1 DEF DirectoryMatchesInodes
    <3> QED
      BY <1>5, <3>1, <3>2 DEF inum
  <2>5. freeinode_ts'[ROOT_DIR_INUM] = TAKEN
    BY <1>1, <1>3, <1>4, <2>1 DEF DirectoryMatchesInodes
  <2> QED
    BY <2>2, <2>3, <2>4, <2>5 DEF DirectoryMatchesInodes
<1>10. BlocksExclusive'
  <2>1. \A i \in Inums : freeinode_ts'[i] = TAKEN => i # inum /\ freeinode_ts[i] = TAKEN
    BY <1>4
  <2>2. \A i \in Inums : freeinode_ts'[i] = TAKEN /\ HasData(i) =>
          free_blocks'[inode_table[i].i_data_block] = TAKEN
    <3> SUFFICES ASSUME NEW i \in Inums, freeinode_ts'[i] = TAKEN, HasData(i)
                 PROVE  free_blocks'[inode_table[i].i_data_block] = TAKEN
      OBVIOUS
    <3>1. free_blocks[inode_table[i].i_data_block] = TAKEN
      BY <1>1, <2>1 DEF IInv, BlocksExclusive
    <3>2. inode_table[i].i_data_block \in Blocks
      BY <1>1, DataHasBlock
    <3>3. HasData(inum) =>
            inode_table[i].i_data_block # inode_table[inum].i_data_block
      BY <1>1, <1>3, <2>1 DEF IInv, BlocksExclusive
    <3> QED
      BY <1>7, <3>1, <3>2, <3>3 DEF IInv, TypeOK, Release
  <2> QED
    BY <1>1, <2>1, <2>2 DEF IInv, BlocksExclusive, HasData
<1>11. DirectoryBlockSafe'
  BY <1>1, <1>7 DEF IInv, TypeOK, DirectoryBlockSafe, HasData, IsOpen, InumOf,
                    Release
<1>12. StaleNamesLast'
  BY <1>5, <1>6 DEF IInv, StaleNamesLast, ClearedEntry
<1> QED
  BY <1>8, <1>9, <1>10, <1>11, <1>12 DEF IInv

-----------------------------------------------------------------------------

\* The strengthened invariant is inductive: whatever the callers do, in
\* whatever order, with tables of whatever size.
LEMMA InductiveStep == IInv /\ [Next]_vars => IInv'
<1> SUFFICES ASSUME IInv, [Next]_vars PROVE IInv'
  OBVIOUS
<1>1. CASE UNCHANGED vars
  BY <1>1 DEF vars, inodeVars, dirVars, blockVars, openVars, IInv, TypeOK,
              DirectoryMatchesInodes, BlocksExclusive, DirectoryBlockSafe,
              StaleNamesLast, Used, HasData, IsOpen, InumOf
<1>2. CASE tfs_init
  BY <1>2, InitStep
<1>3. CASE tfs_destroy
  BY <1>3, DestroyStep
<1>4. CASE \E name \in Names, trunc, append \in BOOLEAN :
              OpenExisting(name, trunc, append)
  BY <1>4, OpenExistingStep
<1>5. CASE \E name \in Names : OpenCreate(name)
  BY <1>5, OpenCreateStep
<1>6. CASE \E name \in Names : OpenCreateUndone(name)
  BY <1>6, OpenCreateUndoneStep
<1>7. CASE \E h \in Handles : tfs_close(h)
  BY <1>7, CloseStep
<1>8. CASE \E h \in Handles, byte \in Bytes, len \in Lens : tfs_write(h, byte, len)
  BY <1>8, WriteStep
<1>9. CASE \E h \in Handles : WriteOverrun(h)
  BY <1>9, AbortStep DEF WriteOverrun
<1>10. CASE \E h \in Handles, len \in Lens : tfs_read(h, len)
  BY <1>10, ReadStep
<1>11. CASE \E h \in Handles : ReadNoBlock(h)
  BY <1>11, AbortStep DEF ReadNoBlock
<1>12. CASE \E name \in Names : tfs_unlink(name)
  BY <1>12, UnlinkStep
<1> QED
  BY <1>1, <1>2, <1>3, <1>4, <1>5, <1>6, <1>7, <1>8, <1>9, <1>10, <1>11, <1>12
     DEF Next

LEMMA InvariantIsInductive == Spec => []IInv
BY InitIInv, InductiveStep, PTL DEF Spec

\* The types of the tables (state.h) hold after every sequence of calls.
THEOREM TypeCorrect == Spec => []TypeOK
<1>1. IInv => TypeOK
  BY DEF IInv
<1> QED
  BY <1>1, InvariantIsInductive, PTL

\* tfs_open and tfs_unlink keep the entries of the root directory and the
\* allocated inodes in a bijection.
THEOREM DirectorySound == Spec => []DirectoryMatchesInodes
<1>1. IInv => DirectoryMatchesInodes
  BY DEF IInv
<1> QED
  BY <1>1, InvariantIsInductive, PTL

\* No two files that exist share a block, and none has a block that the
\* allocator could give out again.
THEOREM FilesShareNoBlock == Spec => []BlocksExclusive
<1>1. IInv => BlocksExclusive
  BY DEF IInv
<1> QED
  BY <1>1, InvariantIsInductive, PTL

\* No write of tfs_write, through a live handle or a stale one, reaches the
\* block of the root directory.
THEOREM DirectoryOutOfReach == Spec => []DirectoryBlockSafe
<1>1. IInv => DirectoryBlockSafe
  BY DEF IInv
<1> QED
  BY <1>1, InvariantIsInductive, PTL

\* tfs_unlink clears the entry of the inode it deletes, although
\* clear_dir_entry compares names in entries that are not in use.
THEOREM UnlinkSound == Spec => []UnlinkClearsWhatItFound
<1>1. IInv => UnlinkClearsWhatItFound
  BY FindAndClearAgree DEF IInv, UnlinkClearsWhatItFound
<1> QED
  BY <1>1, InvariantIsInductive, PTL
=============================================================================
