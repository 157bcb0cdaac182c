--------------------------- MODULE TfsPoliteProofs ---------------------------
(***************************************************************************)
(* What TecnicoFS owes to callers that never truncate or unlink a file     *)
(* somebody has open, for every size of the tables: no call of theirs      *)
(* aborts, no block is lost, and the tables implement the store of         *)
(* FileStore.  The invariants lean on the one TfsProofs shows for all      *)
(* callers, and on each other.                                             *)
(***************************************************************************)
EXTENDS TfsProofs, SequenceTheorems

PoliteIInv == IInv /\ HandlesInsideFiles /\ NoBlockLeaks

\* Polite callers, with the two calls that would abort where they can.
PoliteOrAbort == PoliteNext \/ \E h \in Handles : WriteOverrun(h) \/ ReadNoBlock(h)

-----------------------------------------------------------------------------

LEMMA PoliteIsNext == PoliteOrAbort => Next
BY DEF PoliteOrAbort, PoliteNext, Next

\* An open handle stands in a file that fits its block.
LEMMA HandleInPlace ==
    ASSUME PoliteIInv, NEW h \in Handles, IsOpen(h)
    PROVE  /\ InumOf(h) \in Inums /\ freeinode_ts[InumOf(h)] = TAKEN
           /\ OffsetOf(h) \in Nat /\ SizeOf(h) \in 0 .. BLOCK_SIZE
           /\ OffsetOf(h) <= SizeOf(h)
<1>1. open_file_table[h] \in OpenFile
  BY DEF PoliteIInv, IInv, TypeOK
<1>2. inode_table[InumOf(h)] \in Inode
  BY <1>1 DEF PoliteIInv, IInv, TypeOK, OpenFile, InumOf
<1> QED
  BY <1>1, <1>2 DEF PoliteIInv, HandlesInsideFiles, OpenFile, Inode, InumOf,
                    OffsetOf, SizeOf

\* block_size - of_offset of tfs_write never wraps around.
LEMMA WriteNeverOverruns ==
    ASSUME PoliteIInv, NEW h \in Handles PROVE ~WriteOverrun(h)
BY HandleInPlace, TfsAssumption DEF WriteOverrun

\* tfs_read asks for the block only of a file that has one.
LEMMA ReadFindsItsBlock ==
    ASSUME PoliteIInv, NEW h \in Handles PROVE ~ReadNoBlock(h)
<1> SUFFICES ASSUME ReadNoBlock(h) PROVE FALSE
  OBVIOUS
<1>1. /\ status = "mounted" /\ IsOpen(h) /\ BlockOf(h) = -1
      /\ ToRead(h, MaxTransfer) > 0
  BY DEF ReadNoBlock
<1>2. /\ InumOf(h) \in Inums
      /\ OffsetOf(h) \in Nat /\ SizeOf(h) \in Nat /\ OffsetOf(h) <= SizeOf(h)
  BY <1>1, HandleInPlace, TfsAssumption
<1>3. SizeOf(h) > 0
  BY <1>1, <1>2, BoundsAssumption DEF ToRead, Least
<1>4. HasData(InumOf(h))
  BY <1>3 DEF HasData, SizeOf
<1>5. BlockOf(h) \in Blocks
  BY <1>1, <1>2, <1>4, DataHasBlock DEF PoliteIInv, BlockOf
<1> QED
  BY <1>1, <1>5 DEF Blocks

-----------------------------------------------------------------------------
(* The calls, one lemma each                                               *)

LEMMA PoliteInit == Init => PoliteIInv
<1> SUFFICES ASSUME Init PROVE PoliteIInv
  OBVIOUS
<1>1. \A h \in Handles : ~IsOpen(h)
  BY DEF Init, NoTables, IsOpen, FreeAll, FREE, TAKEN
<1>2. HandlesInsideFiles
  BY <1>1 DEF Init, HandlesInsideFiles
<1>3. NoBlockLeaks
  BY DEF Init, NoBlockLeaks
<1> QED
  BY <1>2, <1>3, InitIInv DEF PoliteIInv

\* A fresh mount: the root directory has its block, nothing else has one.
LEMMA PoliteInitStep ==
    ASSUME PoliteIInv, tfs_init PROVE HandlesInsideFiles' /\ NoBlockLeaks'
<1> USE TfsAssumption, RootIndices
<1> USE DEF FreshTables
<1>1. \A h \in Handles : ~IsOpen(h)'
  BY DEF tfs_init, IsOpen, FreeAll, FREE, TAKEN
<1>2. HandlesInsideFiles'
  BY <1>1 DEF tfs_init, HandlesInsideFiles
<1>3. /\ freeinode_ts'[ROOT_DIR_INUM] = TAKEN
      /\ inode_table'[ROOT_DIR_INUM].i_size > 0
      /\ inode_table'[ROOT_DIR_INUM].i_data_block = RootBlock
  BY DEF tfs_init, FreeAll, Take, BlankInodes
<1>4. \A b \in Blocks : free_blocks'[b] = TAKEN => b = RootBlock
  BY DEF tfs_init, FreeAll, Take, FREE, TAKEN
<1> QED
  BY <1>2, <1>3, <1>4 DEF NoBlockLeaks, HasData

LEMMA PoliteDestroyStep ==
    ASSUME PoliteIInv, tfs_destroy PROVE HandlesInsideFiles' /\ NoBlockLeaks'
<1>1. \A h \in Handles : ~IsOpen(h)'
  BY DEF tfs_destroy, state_destroy, IsOpen, FreeAll, FREE, TAKEN
<1> QED
  BY <1>1 DEF tfs_destroy, HandlesInsideFiles, NoBlockLeaks

\* What a new handle can name, with its place.
LEMMA NewHandlePlace ==
    ASSUME TypeOK, NEW inum \in Inums, NEW offset \in Nat,
           add_to_open_file_table(inum, offset)
    PROVE  \A h \in Handles : IsOpen(h)' =>
              \/ InumOf(h)' = inum /\ OffsetOf(h)' = offset
              \/ /\ IsOpen(h) /\ InumOf(h)' = InumOf(h)
                 /\ OffsetOf(h)' = OffsetOf(h)
<1>1. CASE UNCHANGED openVars
  BY <1>1 DEF openVars, IsOpen, InumOf, OffsetOf
<1>2. ASSUME NEW g \in Handles, IsFirstFree(g, free_open_file_entries),
             free_open_file_entries' = Take(free_open_file_entries, g),
             open_file_table' = [open_file_table EXCEPT ![g] =
                [of_inumber |-> inum, of_offset |-> offset]]
      PROVE  \A h \in Handles : IsOpen(h)' =>
                \/ InumOf(h)' = inum /\ OffsetOf(h)' = offset
                \/ /\ IsOpen(h) /\ InumOf(h)' = InumOf(h)
                   /\ OffsetOf(h)' = OffsetOf(h)
  BY <1>2 DEF TypeOK, OpenFile, Take, TAKEN, IsOpen, InumOf, OffsetOf
<1> QED
  BY <1>1, <1>2 DEF add_to_open_file_table

\* A truncation meets no handle, and an appending handle starts at the end of
\* what the truncation left.
LEMMA PoliteOpenExistingStep ==
    ASSUME PoliteIInv, NEW name \in Names, NEW trunc \in BOOLEAN,
           NEW append \in BOOLEAN, trunc => ~FileIsOpen(name),
           OpenExisting(name, trunc, append)
    PROVE  HandlesInsideFiles' /\ NoBlockLeaks'
<1> USE TfsAssumption, RootIndices
<1> PICK s \in Slots :
        /\ Finds(s, name)
        /\ inode_table' = [inode_table EXCEPT ![dir_entries[s].d_inumber].i_size =
                              SizeAfterOpen(dir_entries[s].d_inumber, trunc)]
        /\ free_blocks' = IF trunc THEN BlocksWithoutDataOf(dir_entries[s].d_inumber)
                          ELSE free_blocks
        /\ add_to_open_file_table(dir_entries[s].d_inumber,
              IF append THEN SizeAfterOpen(dir_entries[s].d_inumber, trunc) ELSE 0)
  BY DEF OpenExisting
<1> DEFINE inum == dir_entries[s].d_inumber
<1>1. status = "mounted" /\ UNCHANGED <<status, freeinode_ts>>
  BY DEF OpenExisting
<1>2. inum \in Inums /\ freeinode_ts[inum] = TAKEN
  BY <1>1 DEF PoliteIInv, IInv, TypeOK, DirEntry, Finds, DirectoryMatchesInodes,
              Used
<1>3. trunc => \A h \in Handles : IsOpen(h) => InumOf(h) # inum
  BY DEF FileIsOpen
<1>4. SizeAfterOpen(inum, trunc) \in Nat
  BY <1>2 DEF PoliteIInv, IInv, TypeOK, Inode, SizeAfterOpen
<1>5. /\ \A i \in Inums : i # inum => inode_table'[i] = inode_table[i]
      /\ inode_table'[inum].i_size = SizeAfterOpen(inum, trunc)
      /\ inode_table'[inum].i_data_block = inode_table[inum].i_data_block
  BY <1>2 DEF PoliteIInv, IInv, TypeOK, Inode
<1> DEFINE offset == IF append THEN SizeAfterOpen(inum, trunc) ELSE 0
<1>6. add_to_open_file_table(inum, offset)
  OBVIOUS
<1>7. \/ /\ free_blocks' = free_blocks
         /\ \A i \in Inums : HasData(i) => i # inum \/ ~trunc
      \/ /\ trunc
         /\ HasData(inum)
         /\ inode_table[inum].i_data_block \in Blocks
         /\ free_blocks' = Release(free_blocks, inode_table[inum].i_data_block)
  BY <1>1, <1>2, DataHasBlock DEF PoliteIInv, BlocksWithoutDataOf, HasData
<1> HIDE DEF inum
<1>8. offset \in Nat /\ offset <= SizeAfterOpen(inum, trunc)
  BY <1>4
<1> HIDE DEF offset
<1>9. \A h \in Handles : IsOpen(h)' =>
          \/ InumOf(h)' = inum /\ OffsetOf(h)' = offset
          \/ IsOpen(h) /\ InumOf(h)' = InumOf(h) /\ OffsetOf(h)' = OffsetOf(h)
  BY <1>2, <1>6, <1>8, NewHandlePlace DEF PoliteIInv, IInv
<1>10. HandlesInsideFiles'
  <2> SUFFICES ASSUME NEW h \in Handles, IsOpen(h)'
               PROVE  /\ freeinode_ts[InumOf(h)'] = TAKEN
                      /\ OffsetOf(h)' <= inode_table'[InumOf(h)'].i_size
    BY <1>1 DEF HandlesInsideFiles, SizeOf
  <2>1. CASE InumOf(h)' = inum /\ OffsetOf(h)' = offset
    BY <1>2, <1>5, <1>8, <2>1
  <2>2. CASE /\ IsOpen(h) /\ InumOf(h)' = InumOf(h)
             /\ OffsetOf(h)' = OffsetOf(h)
    <3>1. /\ InumOf(h) \in Inums /\ freeinode_ts[InumOf(h)] = TAKEN
          /\ OffsetOf(h) <= inode_table[InumOf(h)].i_size
      BY <2>2, HandleInPlace DEF SizeOf
    <3>2. inode_table'[InumOf(h)].i_size = inode_table[InumOf(h)].i_size
      BY <1>3, <1>5, <2>2, <3>1 DEF SizeAfterOpen
    <3> QED
      BY <2>2, <3>1, <3>2
  <2> QED
    BY <1>9, <2>1, <2>2
<1>11. NoBlockLeaks'
  <2> SUFFICES ASSUME NEW b \in Blocks, free_blocks'[b] = TAKEN
               PROVE  \E i \in Inums : /\ freeinode_ts[i] = TAKEN
                                       /\ HasData(i)'
                                       /\ inode_table'[i].i_data_block = b
    BY <1>1 DEF NoBlockLeaks
  <2>1. free_blocks[b] = TAKEN
    BY <1>7 DEF PoliteIInv, IInv, TypeOK, Release, FREE, TAKEN
  <2>2. PICK i \in Inums : /\ freeinode_ts[i] = TAKEN /\ HasData(i)
                           /\ inode_table[i].i_data_block = b
    BY <1>1, <2>1 DEF PoliteIInv, NoBlockLeaks
  <2>3. i # inum \/ ~trunc
    BY <1>7, <2>2 DEF PoliteIInv, IInv, TypeOK, Release, FREE, TAKEN
  <2>4. inode_table'[i].i_size = inode_table[i].i_size
    BY <1>5, <2>3 DEF SizeAfterOpen
  <2>5. inode_table'[i].i_data_block = b
    BY <1>5, <2>2
  <2> QED
    BY <2>2, <2>4, <2>5 DEF HasData
<1> QED
  BY <1>10, <1>11

\* An inode that is reset was nobody's: no handle named it, and it held no
\* block.
LEMMA ResetMovesNobody ==
    ASSUME PoliteIInv, status = "mounted", UNCHANGED <<status, free_blocks>>,
           NEW inum \in Inums, freeinode_ts[inum] # TAKEN,
           inode_table' = [inode_table EXCEPT ![inum] = NewFile],
           \A i \in Inums : i # inum => freeinode_ts'[i] = freeinode_ts[i],
           \A h \in Handles : IsOpen(h)' =>
              \/ /\ InumOf(h)' = inum /\ OffsetOf(h)' = 0
                 /\ freeinode_ts'[inum] = TAKEN
              \/ /\ IsOpen(h) /\ InumOf(h)' = InumOf(h)
                 /\ OffsetOf(h)' = OffsetOf(h)
    PROVE  HandlesInsideFiles' /\ NoBlockLeaks'
<1>1. /\ \A i \in Inums : i # inum => inode_table'[i] = inode_table[i]
      /\ inode_table'[inum].i_size = 0
  BY DEF PoliteIInv, IInv, TypeOK, NewFile
<1>2. HandlesInsideFiles'
  <2> SUFFICES ASSUME NEW h \in Handles, IsOpen(h)'
               PROVE  /\ freeinode_ts'[InumOf(h)'] = TAKEN
                      /\ OffsetOf(h)' <= inode_table'[InumOf(h)'].i_size
    BY DEF HandlesInsideFiles, SizeOf
  <2>1. CASE /\ InumOf(h)' = inum /\ OffsetOf(h)' = 0
             /\ freeinode_ts'[inum] = TAKEN
    BY <1>1, <2>1
  <2>2. CASE /\ IsOpen(h) /\ InumOf(h)' = InumOf(h)
             /\ OffsetOf(h)' = OffsetOf(h)
    <3>1. /\ InumOf(h) \in Inums /\ freeinode_ts[InumOf(h)] = TAKEN
          /\ OffsetOf(h) <= inode_table[InumOf(h)].i_size
      BY <2>2, HandleInPlace DEF SizeOf
    <3> QED
      BY <1>1, <2>2, <3>1
  <2> QED
    BY <2>1, <2>2
<1>3. NoBlockLeaks'
  BY <1>1 DEF PoliteIInv, NoBlockLeaks, HasData
<1> QED
  BY <1>2, <1>3

LEMMA PoliteOpenCreateStep ==
    ASSUME PoliteIInv, NEW name \in Names, OpenCreate(name)
    PROVE  HandlesInsideFiles' /\ NoBlockLeaks'
<1> PICK inum \in Inums :
        /\ IsFirstFree(inum, freeinode_ts)
        /\ freeinode_ts' = Take(freeinode_ts, inum)
        /\ inode_table' = [inode_table EXCEPT ![inum] = NewFile]
        /\ add_to_open_file_table(inum, 0)
  BY DEF OpenCreate
<1>1. status = "mounted" /\ UNCHANGED <<status, free_blocks>>
  BY DEF OpenCreate, blockVars
<1>2. freeinode_ts[inum] # TAKEN
  BY <1>1, NewInum DEF PoliteIInv
<1>3. /\ \A i \in Inums : i # inum => freeinode_ts'[i] = freeinode_ts[i]
      /\ freeinode_ts'[inum] = TAKEN
  BY DEF PoliteIInv, IInv, TypeOK, Take
<1>4. \A h \in Handles : IsOpen(h)' =>
          \/ InumOf(h)' = inum /\ OffsetOf(h)' = 0
          \/ IsOpen(h) /\ InumOf(h)' = InumOf(h) /\ OffsetOf(h)' = OffsetOf(h)
  BY NewHandlePlace DEF PoliteIInv, IInv
<1> QED
  BY <1>1, <1>2, <1>3, <1>4, ResetMovesNobody

LEMMA PoliteOpenCreateUndoneStep ==
    ASSUME PoliteIInv, NEW name \in Names, OpenCreateUndone(name)
    PROVE  HandlesInsideFiles' /\ NoBlockLeaks'
<1> PICK inum \in Inums :
        /\ IsFirstFree(inum, freeinode_ts)
        /\ inode_table' = [inode_table EXCEPT ![inum] = NewFile]
  BY DEF OpenCreateUndone
<1>1. /\ status = "mounted"
      /\ UNCHANGED <<status, freeinode_ts, free_blocks, open_file_table,
                     free_open_file_entries>>
  BY DEF OpenCreateUndone, blockVars, openVars
<1>2. freeinode_ts[inum] # TAKEN
  BY <1>1, NewInum DEF PoliteIInv
<1>3. \A h \in Handles : IsOpen(h)' =>
          IsOpen(h) /\ InumOf(h)' = InumOf(h) /\ OffsetOf(h)' = OffsetOf(h)
  BY <1>1 DEF IsOpen, InumOf, OffsetOf
<1> QED
  BY <1>1, <1>2, <1>3, ResetMovesNobody

LEMMA PoliteCloseStep ==
    ASSUME PoliteIInv, NEW h \in Handles, tfs_close(h)
    PROVE  HandlesInsideFiles' /\ NoBlockLeaks'
<1>1. /\ status = "mounted"
      /\ UNCHANGED <<status, inode_table, freeinode_ts, free_blocks,
                     open_file_table>>
      /\ free_open_file_entries' = Release(free_open_file_entries, h)
  BY DEF tfs_close, remove_from_open_file_table, inodeVars, blockVars
<1>2. \A g \in Handles : IsOpen(g)' => IsOpen(g)
  BY <1>1 DEF PoliteIInv, IInv, TypeOK, IsOpen, Release, FREE, TAKEN
<1>3. HandlesInsideFiles'
  BY <1>1, <1>2 DEF PoliteIInv, HandlesInsideFiles, InumOf, OffsetOf, SizeOf
<1>4. NoBlockLeaks'
  BY <1>1 DEF PoliteIInv, NoBlockLeaks, HasData
<1> QED
  BY <1>3, <1>4

\* A read stops at the end of the file.
LEMMA PoliteReadStep ==
    ASSUME PoliteIInv, NEW h \in Handles, NEW len \in Lens, tfs_read(h, len)
    PROVE  HandlesInsideFiles' /\ NoBlockLeaks'
<1>1. /\ status = "mounted" /\ IsOpen(h)
      /\ UNCHANGED <<status, inode_table, freeinode_ts, free_blocks,
                     free_open_file_entries>>
      /\ open_file_table' = [open_file_table EXCEPT
            ![h].of_offset = OffsetOf(h) + ToRead(h, len)]
  BY DEF tfs_read, inodeVars, blockVars
<1>2. OffsetOf(h) + ToRead(h, len) <= SizeOf(h)
  BY <1>1, HandleInPlace, BoundsAssumption, TfsAssumption DEF ToRead, Least, Lens
<1>3. \A g \in Handles :
          /\ IsOpen(g)' => IsOpen(g)
          /\ InumOf(g)' = InumOf(g)
          /\ SizeOf(g)' = SizeOf(g)
          /\ OffsetOf(g)' = IF g = h THEN OffsetOf(h) + ToRead(h, len)
                            ELSE OffsetOf(g)
  BY <1>1 DEF PoliteIInv, IInv, TypeOK, OpenFile, IsOpen, InumOf, SizeOf, OffsetOf
<1>4. HandlesInsideFiles'
  BY <1>1, <1>2, <1>3 DEF PoliteIInv, HandlesInsideFiles
<1>5. NoBlockLeaks'
  BY <1>1 DEF PoliteIInv, NoBlockLeaks, HasData
<1> QED
  BY <1>4, <1>5

\* A write makes its file at least as long as the place it leaves its handle
\* at, and shortens none; a block it takes is the block of that file.
LEMMA PoliteWriteStep ==
    ASSUME PoliteIInv, NEW h \in Handles, NEW byte \in Bytes, NEW len \in Lens,
           tfs_write(h, byte, len)
    PROVE  HandlesInsideFiles' /\ NoBlockLeaks'
<1> USE TfsAssumption
<1> DEFINE end == OffsetOf(h) + ToWrite(h, len)
<1>1. /\ status = "mounted" /\ IsOpen(h) /\ ToWrite(h, len) > 0
      /\ UNCHANGED <<status, freeinode_ts, free_open_file_entries>>
  BY DEF tfs_write
<1> PICK inum \in Inums : inum = InumOf(h)
  BY <1>1, HandleInPlace
<1> PICK b \in Blocks :
        /\ WritesTo(h, b)
        /\ free_blocks' =
              IF SizeOf(h) = 0 THEN Take(free_blocks, b) ELSE free_blocks
        /\ inode_table' = [inode_table EXCEPT ![inum] =
              [i_size |-> Greatest(SizeOf(h), end), i_data_block |-> b]]
        /\ open_file_table' = [open_file_table EXCEPT ![h].of_offset = end]
  BY DEF tfs_write
<1>2. /\ freeinode_ts[inum] = TAKEN
      /\ OffsetOf(h) \in Nat /\ SizeOf(h) \in Nat
      /\ OffsetOf(h) <= SizeOf(h) /\ SizeOf(h) <= BLOCK_SIZE
  BY <1>1, HandleInPlace
<1>3. ToWrite(h, len) \in Nat
  BY <1>1, <1>2, BoundsAssumption DEF ToWrite, Least, Lens
<1>4. end \in Nat /\ end > 0
  BY <1>1, <1>2, <1>3
<1> HIDE DEF end
<1>5. /\ \A i \in Inums : i # inum => inode_table'[i] = inode_table[i]
      /\ inode_table'[inum].i_size = Greatest(SizeOf(h), end)
      /\ inode_table'[inum].i_data_block = b
  BY DEF PoliteIInv, IInv, TypeOK
<1>6. /\ Greatest(SizeOf(h), end) >= SizeOf(h)
      /\ Greatest(SizeOf(h), end) >= end
      /\ Greatest(SizeOf(h), end) \in Nat /\ Greatest(SizeOf(h), end) > 0
  BY <1>2, <1>4 DEF Greatest
<1> DEFINE size == Greatest(SizeOf(h), end)
<1> HIDE DEF size
<1>7. HandlesInsideFiles'
  <2> SUFFICES ASSUME NEW g \in Handles, IsOpen(g)'
               PROVE  /\ freeinode_ts[InumOf(g)'] = TAKEN
                      /\ OffsetOf(g)' <= inode_table'[InumOf(g)'].i_size
    BY <1>1 DEF HandlesInsideFiles, SizeOf
  <2>1. /\ IsOpen(g) /\ InumOf(g)' = InumOf(g)
        /\ OffsetOf(g)' = IF g = h THEN end ELSE OffsetOf(g)
    BY <1>1 DEF PoliteIInv, IInv, TypeOK, OpenFile, IsOpen, InumOf, OffsetOf
  <2>2. /\ InumOf(g) \in Inums /\ freeinode_ts[InumOf(g)] = TAKEN
        /\ OffsetOf(g) \in Nat /\ SizeOf(g) \in Nat
        /\ OffsetOf(g) <= SizeOf(g)
    BY <2>1, HandleInPlace
  <2>3. CASE InumOf(g) # inum
    BY <1>5, <2>1, <2>2, <2>3 DEF SizeOf
  <2>4. CASE InumOf(g) = inum
    <3>1. SizeOf(g) = SizeOf(h)
      BY <2>4 DEF SizeOf
    <3>2. OffsetOf(g)' <= Greatest(SizeOf(h), end)
      <4>1. CASE g = h
        BY <1>4, <1>6, <2>1, <4>1
      <4>2. CASE g # h
        BY <1>2, <1>6, <2>1, <2>2, <3>1, <4>2
      <4> QED
        BY <4>1, <4>2
    <3> QED
      BY <1>5, <2>1, <2>2, <2>4, <3>2
  <2> QED
    BY <2>3, <2>4
<1>8. NoBlockLeaks'
  <2> SUFFICES ASSUME NEW c \in Blocks, free_blocks'[c] = TAKEN
               PROVE  \E i \in Inums : /\ freeinode_ts[i] = TAKEN
                                       /\ HasData(i)'
                                       /\ inode_table'[i].i_data_block = c
    BY <1>1 DEF NoBlockLeaks
  <2>1. HasData(inum)'
    BY <1>5, <1>6 DEF HasData
  <2>2. CASE c = b
    BY <1>2, <1>5, <2>1, <2>2
  <2>3. CASE c # b
    <3>1. free_blocks[c] = TAKEN
      BY <2>3 DEF PoliteIInv, IInv, TypeOK, Take
    <3>2. PICK i \in Inums : /\ freeinode_ts[i] = TAKEN /\ HasData(i)
                             /\ inode_table[i].i_data_block = c
      BY <1>1, <3>1 DEF PoliteIInv, NoBlockLeaks
    <3>3. i # inum
      BY <1>2, <2>3, <3>2 DEF WritesTo, HasData, SizeOf, BlockOf
    <3> QED
      BY <1>5, <3>2, <3>3 DEF HasData
  <2> QED
    BY <2>2, <2>3
<1> QED
  BY <1>7, <1>8

\* No handle names the inode that is deleted, and the one block it held is
\* given back.
LEMMA PoliteUnlinkStep ==
    ASSUME PoliteIInv, NEW name \in Names, ~FileIsOpen(name), tfs_unlink(name)
    PROVE  HandlesInsideFiles' /\ NoBlockLeaks'
<1> PICK s \in Slots : Finds(s, name) /\ inode_delete(dir_entries[s].d_inumber)
  BY DEF tfs_unlink
<1> DEFINE inum == dir_entries[s].d_inumber
<1>1. /\ status = "mounted"
      /\ UNCHANGED <<status, inode_table, open_file_table,
                     free_open_file_entries>>
  BY DEF tfs_unlink, inode_delete, openVars
<1>2. inum \in Inums /\ freeinode_ts[inum] = TAKEN
  BY <1>1 DEF PoliteIInv, IInv, TypeOK, DirEntry, Finds, DirectoryMatchesInodes,
              Used
<1>3. \A h \in Handles : IsOpen(h) => InumOf(h) # inum
  BY DEF FileIsOpen
<1>4. /\ freeinode_ts' = Release(freeinode_ts, inum)
      /\ free_blocks' = BlocksWithoutDataOf(inum)
  BY DEF inode_delete
<1>5. HasData(inum) => /\ inode_table[inum].i_data_block \in Blocks
                       /\ free_blocks' = Release(free_blocks,
                                            inode_table[inum].i_data_block)
  BY <1>1, <1>2, <1>4, DataHasBlock
     DEF PoliteIInv, BlocksWithoutDataOf, HasData
<1>6. ~HasData(inum) => free_blocks' = free_blocks
  BY <1>4 DEF BlocksWithoutDataOf, HasData
<1> HIDE DEF inum
<1>7. \A i \in Inums : i # inum => freeinode_ts'[i] = freeinode_ts[i]
  BY <1>4 DEF PoliteIInv, IInv, TypeOK, Release
<1>8. HandlesInsideFiles'
  <2> SUFFICES ASSUME NEW h \in Handles, IsOpen(h)
               PROVE  /\ freeinode_ts'[InumOf(h)] = TAKEN
                      /\ OffsetOf(h) <= SizeOf(h)
    BY <1>1 DEF HandlesInsideFiles, IsOpen, InumOf, OffsetOf, SizeOf
  <2> QED
    BY <1>3, <1>7, HandleInPlace
<1>9. NoBlockLeaks'
  <2> SUFFICES ASSUME NEW b \in Blocks, free_blocks'[b] = TAKEN
               PROVE  \E i \in Inums : /\ freeinode_ts'[i] = TAKEN
                                       /\ HasData(i)
                                       /\ inode_table[i].i_data_block = b
    BY <1>1 DEF NoBlockLeaks, HasData
  <2>1. /\ free_blocks[b] = TAKEN
        /\ HasData(inum) => inode_table[inum].i_data_block # b
    BY <1>5, <1>6 DEF PoliteIInv, IInv, TypeOK, Release, FREE, TAKEN
  <2>2. PICK i \in Inums : /\ freeinode_ts[i] = TAKEN /\ HasData(i)
                           /\ inode_table[i].i_data_block = b
    BY <1>1, <2>1 DEF PoliteIInv, NoBlockLeaks
  <2> QED
    BY <1>7, <2>1, <2>2
<1> QED
  BY <1>8, <1>9

-----------------------------------------------------------------------------

LEMMA PoliteInductiveStep == PoliteIInv /\ [PoliteOrAbort]_vars => PoliteIInv'
<1> SUFFICES ASSUME PoliteIInv, [PoliteOrAbort]_vars PROVE PoliteIInv'
  OBVIOUS
<1>1. IInv'
  BY PoliteIsNext, InductiveStep DEF PoliteIInv
<1> SUFFICES HandlesInsideFiles' /\ NoBlockLeaks'
  BY <1>1 DEF PoliteIInv
<1>2. CASE UNCHANGED vars
  BY <1>2 DEF vars, inodeVars, blockVars, openVars, PoliteIInv,
              HandlesInsideFiles, NoBlockLeaks, HasData, IsOpen, InumOf,
              OffsetOf, SizeOf
<1>3. CASE tfs_init
  BY <1>3, PoliteInitStep
<1>4. CASE tfs_destroy
  BY <1>4, PoliteDestroyStep
<1>5. CASE \E name \in Names, trunc, append \in BOOLEAN :
              /\ trunc => ~FileIsOpen(name)
              /\ OpenExisting(name, trunc, append)
  BY <1>5, PoliteOpenExistingStep
<1>6. CASE \E name \in Names : OpenCreate(name)
  BY <1>6, PoliteOpenCreateStep
<1>7. CASE \E name \in Names : OpenCreateUndone(name)
  BY <1>7, PoliteOpenCreateUndoneStep
<1>8. CASE \E h \in Handles : tfs_close(h)
  BY <1>8, PoliteCloseStep
<1>9. CASE \E h \in Handles, byte \in Bytes, len \in Lens : tfs_write(h, byte, len)
  BY <1>9, PoliteWriteStep
<1>10. CASE \E h \in Handles, len \in Lens : tfs_read(h, len)
  BY <1>10, PoliteReadStep
<1>11. CASE \E name \in Names : ~FileIsOpen(name) /\ tfs_unlink(name)
  BY <1>11, PoliteUnlinkStep
<1>12. CASE \E h \in Handles : WriteOverrun(h) \/ ReadNoBlock(h)
  BY <1>12, WriteNeverOverruns, ReadFindsItsBlock
<1> QED
  BY <1>2, <1>3, <1>4, <1>5, <1>6, <1>7, <1>8, <1>9, <1>10, <1>11, <1>12
     DEF PoliteOrAbort, PoliteNext

LEMMA PoliteInvariant == Init /\ [][PoliteOrAbort]_vars => []PoliteIInv
BY PoliteInit, PoliteInductiveStep, PTL

\* Callers that leave open files alone never meet the unsigned subtractions of
\* tfs_write and tfs_read where they wrap around, nor data_block_get(-1): those
\* calls are among the steps here, and the process never aborts.
THEOREM PoliteCallersNeverAbort ==
    Init /\ [][PoliteOrAbort]_vars => []HandlesInsideFiles
<1>1. PoliteIInv => HandlesInsideFiles
  BY DEF PoliteIInv
<1> QED
  BY <1>1, PoliteInvariant, PTL

\* Leaving the aborting calls out of PoliteNext loses no behaviour.
THEOREM PoliteNextIsComplete == Init /\ [][PoliteOrAbort]_vars => PoliteSpec
<1>1. PoliteIInv /\ [PoliteOrAbort]_vars => [PoliteNext]_vars
  BY WriteNeverOverruns, ReadFindsItsBlock DEF PoliteOrAbort
<1> QED
  BY <1>1, PoliteInvariant, PTL DEF PoliteSpec

\* Every block such callers have allocated is the data of a file that exists.
THEOREM PoliteCallersLoseNoBlock == PoliteSpec => []NoBlockLeaks
<1>1. PoliteIInv => NoBlockLeaks
  BY DEF PoliteIInv
<1>2. [PoliteNext]_vars => [PoliteOrAbort]_vars
  BY DEF PoliteOrAbort
<1> QED
  BY <1>1, <1>2, PoliteInvariant, PTL DEF PoliteSpec

-----------------------------------------------------------------------------
(* The refinement: every call is a step of the store or leaves it alone.   *)

\* The store's variables, as the refinement mapping of Tfs has them.
Files == [n \in Listed |-> Contents(InumNamed(n))]

OpenHandles == {g \in Handles : IsOpen(g)}

Cursors ==
    [h \in OpenHandles |-> [name |-> NameOf(InumOf(h)), offset |-> OffsetOf(h)]]

NameAt(s) == dir_entries[s].d_name
InumAt(s) == dir_entries[s].d_inumber

UsedSlots == {s \in Slots : Used(s)}

\* Outside a mount no entry is used and no handle is open.
NothingMounted ==
    status = "unmounted" => UsedSlots = {} /\ OpenHandles = {}

\* The mapping without its CHOOSEs: files and handles are found through the
\* used entries, one for each name and one for each inode.
Mapped ==
    /\ Files = [n \in DOMAIN Files |-> Files[n]]
    /\ Cursors = [h \in DOMAIN Cursors |-> Cursors[h]]
    /\ DOMAIN Files = {NameAt(s) : s \in UsedSlots}
    /\ \A s \in UsedSlots : Files[NameAt(s)] = Contents(InumAt(s))
    /\ DOMAIN Cursors = OpenHandles
    /\ \A h \in OpenHandles : \E s \in UsedSlots : InumOf(h) = InumAt(s)
    /\ \A h \in OpenHandles, s \in UsedSlots : InumOf(h) = InumAt(s) =>
          Cursors[h] = [name |-> NameAt(s), offset |-> OffsetOf(h)]
    /\ \A s, t \in UsedSlots : s # t =>
          NameAt(s) # NameAt(t) /\ InumAt(s) # InumAt(t)

-----------------------------------------------------------------------------
(* Sequences and functions.                                                *)

\* The bytes of a file are a sequence as long as the file.
LEMMA FunctionIsSeq ==
    ASSUME NEW n \in Nat, NEW S, NEW f \in [1 .. n -> S]
    PROVE  f \in Seq(S) /\ Len(f) = n
<1>1. f \in Seq(S)
  BY SeqDef
<1>2. Len(f) \in Nat /\ DOMAIN f = 1 .. Len(f)
  BY <1>1, LenProperties
<1> QED
  BY <1>1, <1>2

LEMMA NoElements ==
    ASSUME NEW f, f = [x \in DOMAIN f |-> f[x]], DOMAIN f = {}
    PROVE  f = <<>>
<1>1. f \in [1 .. 0 -> {}]
  OBVIOUS
<1>2. f \in Seq({}) /\ Len(f) = 0
  BY <1>1, FunctionIsSeq
<1> QED
  BY <1>2, EmptySeq

LEMMA SameFunction ==
    ASSUME NEW f, NEW g, f = [x \in DOMAIN f |-> f[x]],
           g = [x \in DOMAIN g |-> g[x]], DOMAIN f = DOMAIN g,
           \A x \in DOMAIN f : f[x] = g[x]
    PROVE  f = g
OBVIOUS

-----------------------------------------------------------------------------
(* The mapping.                                                            *)

\* Used entries have names and inodes of their own.
LEMMA EntriesDiffer ==
    ASSUME PoliteIInv, NothingMounted, NEW s \in UsedSlots
    PROVE  /\ status = "mounted"
           /\ NameAt(s) \in Names /\ InumAt(s) \in Inums
           /\ freeinode_ts[InumAt(s)] = TAKEN
           /\ \A t \in UsedSlots : \/ t = s
                                   \/ /\ NameAt(t) # NameAt(s)
                                      /\ InumAt(t) # InumAt(s)
<1>1. status = "mounted"
  BY DEF NothingMounted, PoliteIInv, HandlesInsideFiles, IInv, TypeOK
<1> QED
  BY <1>1, TfsAssumption
     DEF PoliteIInv, IInv, TypeOK, DirEntry, ShortNames, DirectoryMatchesInodes,
         UsedSlots, Used, NameAt, InumAt

LEMMA FindsUsed ==
    ASSUME PoliteIInv, NothingMounted, NEW s, NEW n
    PROVE  Finds(s, n) <=> s \in UsedSlots /\ NameAt(s) = n
<1>1. Finds(s, n) => s \in UsedSlots /\ NameAt(s) = n
  BY DEF Finds, UsedSlots, Used, NameAt
<1>2. ASSUME s \in UsedSlots, NameAt(s) = n PROVE Finds(s, n)
  <2>1. \A t \in Slots : t < s => t \notin UsedSlots \/ NameAt(t) # n
    <3>1. \A t \in UsedSlots : t = s \/ NameAt(t) # n
      BY <1>2, EntriesDiffer
    <3>2. s \in Int
      BY <1>2, TfsAssumption DEF UsedSlots, Slots
    <3> QED
      BY <3>1, <3>2
  <2> QED
    BY <1>2, <2>1 DEF Finds, UsedSlots, Used, NameAt
<1> QED
  BY <1>1, <1>2

LEMMA InumNamedAt ==
    ASSUME PoliteIInv, NothingMounted, NEW s \in UsedSlots
    PROVE  InumNamed(NameAt(s)) = InumAt(s)
<1> DEFINE n == NameAt(s)
           found == CHOOSE t \in Slots : Finds(t, n)
<1>1. s \in Slots /\ Finds(s, n)
  BY FindsUsed DEF UsedSlots
<1>2. found \in Slots /\ Finds(found, n)
  BY <1>1
<1>3. found \in UsedSlots /\ NameAt(found) = NameAt(s)
  BY <1>2, FindsUsed
<1> HIDE DEF found
<1>4. found = s
  BY <1>3, EntriesDiffer
<1> QED
  BY <1>4 DEF InumNamed, InumAt, found

LEMMA ListedNames ==
    ASSUME PoliteIInv, NothingMounted
    PROVE  Listed = {NameAt(s) : s \in UsedSlots}
<1>1. \A n \in Listed : \E s \in UsedSlots : NameAt(s) = n
  BY FindsUsed DEF Listed
<1>2. \A s \in UsedSlots : NameAt(s) \in Listed
  BY FindsUsed, EntriesDiffer DEF Listed, UsedSlots
<1> QED
  BY <1>1, <1>2

LEMMA NameOfAt ==
    ASSUME PoliteIInv, NothingMounted, NEW s \in UsedSlots
    PROVE  NameOf(InumAt(s)) = NameAt(s)
<1> DEFINE i == InumAt(s)
           found == CHOOSE n \in Listed : InumNamed(n) = i
<1>1. NameAt(s) \in Listed /\ InumNamed(NameAt(s)) = i
  BY ListedNames, InumNamedAt
<1>2. found \in Listed /\ InumNamed(found) = i
  BY <1>1
<1> HIDE DEF found
<1>3. PICK t \in UsedSlots : found = NameAt(t)
  BY <1>2, ListedNames
<1>4. InumAt(t) = InumAt(s)
  BY <1>2, <1>3, InumNamedAt
<1>5. t = s
  BY <1>4, EntriesDiffer
<1> QED
  BY <1>3, <1>5 DEF NameOf, found

\* Every open handle names the inode of an entry.
LEMMA HandleHasEntry ==
    ASSUME PoliteIInv, NothingMounted, NEW h \in OpenHandles
    PROVE  \E s \in UsedSlots : InumOf(h) = InumAt(s)
<1>1. status # "unmounted" /\ h \in Handles /\ IsOpen(h)
  BY DEF NothingMounted, OpenHandles
<1>2. InumOf(h) \in Inums /\ freeinode_ts[InumOf(h)] = TAKEN
  BY <1>1, HandleInPlace
<1>3. InumOf(h) # ROOT_DIR_INUM
  BY <1>1 DEF PoliteIInv, IInv, DirectoryBlockSafe
<1>4. PICK s \in Slots : dir_entries[s].d_inumber = InumOf(h)
  BY <1>1, <1>2, <1>3 DEF PoliteIInv, IInv, DirectoryMatchesInodes
<1>5. InumOf(h) # -1
  BY <1>2 DEF Inums
<1> QED
  BY <1>4, <1>5 DEF UsedSlots, Used, InumAt

LEMMA MappedAlways == PoliteIInv /\ NothingMounted => Mapped
<1> SUFFICES ASSUME PoliteIInv, NothingMounted PROVE Mapped
  OBVIOUS
<1>1. DOMAIN Files = {NameAt(s) : s \in UsedSlots}
  BY ListedNames DEF Files
<1>2. ASSUME NEW s \in UsedSlots PROVE Files[NameAt(s)] = Contents(InumAt(s))
  <2>1. NameAt(s) \in Listed
    BY ListedNames
  <2> QED
    BY <2>1, InumNamedAt DEF Files
<1>3. ASSUME NEW h \in OpenHandles, NEW s \in UsedSlots, InumOf(h) = InumAt(s)
      PROVE  Cursors[h] = [name |-> NameAt(s), offset |-> OffsetOf(h)]
  BY <1>3, NameOfAt DEF Cursors
<1>4. DOMAIN Cursors = OpenHandles
  BY DEF Cursors
<1>5. /\ Files = [n \in DOMAIN Files |-> Files[n]]
      /\ Cursors = [h \in DOMAIN Cursors |-> Cursors[h]]
  BY DEF Files, Cursors
<1> QED
  BY <1>1, <1>2, <1>3, <1>4, <1>5, HandleHasEntry, EntriesDiffer DEF Mapped

-----------------------------------------------------------------------------
(* The contents of a file.                                                 *)

LEMMA ContentsIsSeq ==
    ASSUME PoliteIInv, status = "mounted", NEW i \in Inums
    PROVE  /\ Contents(i) \in Seq(Bytes \cup {Junk})
           /\ Len(Contents(i)) = inode_table[i].i_size
<1> DEFINE size == inode_table[i].i_size
           block == inode_table[i].i_data_block
<1>1. size \in Nat /\ size <= BLOCK_SIZE
  BY TfsAssumption DEF PoliteIInv, IInv, TypeOK, Inode
<1>2. size > 0 => block \in Blocks
  BY DataHasBlock DEF PoliteIInv, HasData
<1>3. ASSUME NEW k \in 1 .. size PROVE fs_data[block][k - 1] \in Bytes \cup {Junk}
  <2>1. k - 1 \in Cells /\ size > 0
    BY <1>1, TfsAssumption DEF Cells
  <2> QED
    BY <1>2, <2>1 DEF PoliteIInv, IInv, TypeOK
<1>4. Contents(i) \in [1 .. size -> Bytes \cup {Junk}]
  BY <1>3 DEF Contents
<1> QED
  BY <1>1, <1>4, FunctionIsSeq

\* The entry at slot s keeps its inode, and the inode its data.
LEMMA ContentsStay ==
    ASSUME PoliteIInv, NothingMounted, NEW s \in UsedSlots,
           InumAt(s)' = InumAt(s),
           inode_table'[InumAt(s)] = inode_table[InumAt(s)],
           HasData(InumAt(s)) => fs_data'[inode_table[InumAt(s)].i_data_block]
                                   = fs_data[inode_table[InumAt(s)].i_data_block]
    PROVE  Contents(InumAt(s))' = Contents(InumAt(s))
<1>1. inode_table[InumAt(s)].i_size \in Nat
  BY EntriesDiffer DEF PoliteIInv, IInv, TypeOK, Inode
<1>2. CASE HasData(InumAt(s))
  BY <1>2 DEF Contents
<1>3. CASE ~HasData(InumAt(s))
  <2>1. 1 .. inode_table[InumAt(s)].i_size = {}
    BY <1>1, <1>3 DEF HasData
  <2> QED
    BY <2>1 DEF Contents
<1> QED
  BY <1>2, <1>3

LEMMA ContentsEmptied ==
    ASSUME NEW s, inode_table'[InumAt(s)'].i_size = 0
    PROVE  Contents(InumAt(s))' = <<>>
<1> DEFINE after == Contents(InumAt(s))'
<1>1. DOMAIN after = {} /\ after = [k \in DOMAIN after |-> after[k]]
  BY DEF Contents
<1> HIDE DEF after
<1>2. after = <<>>
  BY <1>1, NoElements
<1> QED
  BY <1>2 DEF after

-----------------------------------------------------------------------------
(* The steps of the tables as steps of the store.                          *)

\* A call that changes neither the entries, nor the handles, nor any contents.
LEMMA StoreStays ==
    ASSUME PoliteIInv, NothingMounted, Mapped, Mapped', UNCHANGED <<status, dir_entries, openVars>>,
           \A s \in UsedSlots : Contents(InumAt(s))' = Contents(InumAt(s))
    PROVE  UNCHANGED <<status = "mounted", Files, Cursors>>
<1>1. /\ UsedSlots' = UsedSlots
      /\ \A s \in UsedSlots : NameAt(s)' = NameAt(s) /\ InumAt(s)' = InumAt(s)
      /\ OpenHandles' = OpenHandles
      /\ \A h \in OpenHandles : InumOf(h)' = InumOf(h) /\ OffsetOf(h)' = OffsetOf(h)
  BY DEF UsedSlots, Used, NameAt, InumAt, OpenHandles, IsOpen, InumOf, OffsetOf,
         openVars
<1>2. DOMAIN Files' = DOMAIN Files
  BY <1>1 DEF Mapped
<1>3. \A n \in DOMAIN Files : Files'[n] = Files[n]
  BY <1>1 DEF Mapped
<1>4. Files' = Files
  BY <1>2, <1>3, SameFunction DEF Mapped
<1>5. \A h \in OpenHandles : Cursors'[h] = Cursors[h]
  BY <1>1, EntriesDiffer DEF Mapped
<1>6. Cursors' = Cursors
  BY <1>1, <1>5, SameFunction DEF Mapped
<1> QED
  BY <1>4, <1>6

\* add_to_open_file_table: one more handle on the file, or no room for it.
LEMMA Attaches ==
    ASSUME PoliteIInv, NothingMounted, Mapped, Mapped', PoliteIInv',
           NEW s \in Slots, s \in UsedSlots', NEW offset \in Nat,
           \A t \in UsedSlots : /\ t \in UsedSlots'
                                /\ NameAt(t)' = NameAt(t)
                                /\ InumAt(t)' = InumAt(t),
           add_to_open_file_table(InumAt(s)', offset)
    PROVE  Store!Attach(NameAt(s)', offset)
<1> DEFINE inum == InumAt(s)'
           name == NameAt(s)'
<1>1. ASSUME NEW h \in OpenHandles, h \in OpenHandles',
             InumOf(h)' = InumOf(h), OffsetOf(h)' = OffsetOf(h)
      PROVE  Cursors'[h] = Cursors[h]
  <2>1. PICK t \in UsedSlots : InumOf(h) = InumAt(t)
    BY DEF Mapped
  <2>2. Cursors[h] = [name |-> NameAt(t), offset |-> OffsetOf(h)]
    BY <2>1 DEF Mapped
  <2>3. t \in UsedSlots' /\ InumOf(h)' = InumAt(t)' /\ NameAt(t)' = NameAt(t)
    BY <1>1, <2>1
  <2>4. Cursors'[h] = [name |-> NameAt(t)', offset |-> OffsetOf(h)']
    BY <1>1, <2>3 DEF Mapped
  <2> QED
    BY <1>1, <2>2, <2>3, <2>4
<1>2. CASE NoneFree(free_open_file_entries) /\ UNCHANGED openVars
  <2>1. OpenHandles = Handles /\ OpenHandles' = OpenHandles
    BY <1>2 DEF NoneFree, OpenHandles, IsOpen, openVars, PoliteIInv, IInv, TypeOK
  <2>2. \A h \in OpenHandles : InumOf(h)' = InumOf(h) /\ OffsetOf(h)' = OffsetOf(h)
    BY <1>2 DEF openVars, InumOf, OffsetOf
  <2>3. \A h \in OpenHandles : Cursors'[h] = Cursors[h]
    BY <1>1, <2>1, <2>2
  <2>4. Cursors' = Cursors /\ DOMAIN Cursors = Handles
    BY <2>1, <2>3, SameFunction DEF Mapped
  <2> QED
    BY <2>4 DEF Store!Attach, Cursors, OpenHandles
<1>3. ASSUME NEW g \in Handles, IsFirstFree(g, free_open_file_entries),
             free_open_file_entries' = Take(free_open_file_entries, g),
             open_file_table' = [open_file_table EXCEPT ![g] =
                [of_inumber |-> inum, of_offset |-> offset]]
      PROVE  Store!Attach(name, offset)
  <2>1. g \notin OpenHandles /\ OpenHandles' = OpenHandles \cup {g}
    BY <1>3 DEF IsFirstFree, Take, OpenHandles, IsOpen, PoliteIInv, IInv, TypeOK,
                FREE, TAKEN
  <2>2. /\ InumOf(g)' = inum /\ OffsetOf(g)' = offset
        /\ \A h \in OpenHandles : InumOf(h)' = InumOf(h) /\ OffsetOf(h)' = OffsetOf(h)
    BY <1>3, <2>1 DEF InumOf, OffsetOf, PoliteIInv, IInv, TypeOK, OpenHandles
  <2>3. Cursors'[g] = [name |-> name, offset |-> offset]
    BY <2>1, <2>2 DEF Mapped
  <2>4. \A h \in OpenHandles : Cursors'[h] = Cursors[h]
    BY <1>1, <2>1, <2>2
  <2> DEFINE with == Store!With(Cursors, g, [name |-> name, offset |-> offset])
  <2>5. /\ with = [h \in DOMAIN with |-> with[h]]
        /\ DOMAIN with = DOMAIN Cursors \cup {g}
        /\ \A h \in DOMAIN with : with[h] =
              IF h = g THEN [name |-> name, offset |-> offset] ELSE Cursors[h]
    BY DEF Store!With
  <2> HIDE DEF with
  <2>6. Cursors' = with
    BY <2>1, <2>3, <2>4, <2>5, SameFunction DEF Mapped
  <2>7. g \in Handles \ DOMAIN Cursors
    BY <2>1 DEF Mapped
  <2> QED
    BY <2>6, <2>7 DEF Store!Attach, with, Cursors, OpenHandles
<1> QED
  BY <1>2, <1>3 DEF add_to_open_file_table

\* What every step lemma starts from.
Related ==
    /\ PoliteIInv /\ NothingMounted /\ Mapped
    /\ PoliteIInv' /\ NothingMounted' /\ Mapped'

LEMMA MountStep == ASSUME Related, tfs_init PROVE Store!Mount
<1>1. status = "unmounted" /\ status' = "mounted"
  BY DEF tfs_init
<1>2. UsedSlots = {} /\ OpenHandles = {}
  BY <1>1 DEF Related, NothingMounted
<1>3. UsedSlots' = {} /\ OpenHandles' = {}
  BY DEF tfs_init, FreshTables, BlankDirectories, UsedSlots, Used, OpenHandles,
         IsOpen, FreeAll, FREE, TAKEN
<1>4. /\ DOMAIN Files = {} /\ DOMAIN Files' = {}
      /\ DOMAIN Cursors = {} /\ DOMAIN Cursors' = {}
  BY <1>2, <1>3 DEF Related, Mapped
<1>5. Files' = Files /\ Cursors' = Cursors
  BY <1>4, SameFunction DEF Related, Mapped
<1> QED
  BY <1>1, <1>5 DEF Store!Mount, Files, Cursors, OpenHandles

LEMMA UnmountStep == ASSUME Related, tfs_destroy PROVE Store!Unmount
<1>1. status = "mounted" /\ status' = "unmounted"
  BY DEF tfs_destroy
<1>2. UsedSlots' = {} /\ OpenHandles' = {}
  BY <1>1 DEF Related, NothingMounted
<1>3. DOMAIN Files' = {} /\ DOMAIN Cursors' = {}
  BY <1>2 DEF Related, Mapped
<1>4. Files' = <<>> /\ Cursors' = <<>>
  BY <1>3, NoElements DEF Related, Mapped
<1> QED
  BY <1>1, <1>4 DEF Store!Unmount, Files, Cursors, OpenHandles

\* A file nobody has open is in no handle's name.
LEMMA NotInUse ==
    ASSUME Mapped, NEW s \in UsedSlots,
           \A h \in OpenHandles : InumOf(h) # InumAt(s)
    PROVE  ~Store!InUse(NameAt(s))
<1> SUFFICES ASSUME NEW h \in OpenHandles, Cursors[h].name = NameAt(s)
             PROVE  FALSE
  BY DEF Store!InUse, Mapped, Cursors, OpenHandles
<1>1. PICK t \in UsedSlots : InumOf(h) = InumAt(t)
  BY DEF Mapped
<1>2. NameAt(t) = NameAt(s)
  BY <1>1 DEF Mapped
<1> QED
  BY <1>1, <1>2 DEF Mapped

LEMMA OpenStep ==
    ASSUME Related, NEW name \in Names, NEW trunc \in BOOLEAN,
           NEW append \in BOOLEAN, trunc => ~FileIsOpen(name),
           OpenExisting(name, trunc, append)
    PROVE  Store!Open(name, trunc)
<1> USE DEF Related
<1> PICK s \in Slots :
        /\ Finds(s, name)
        /\ inode_table' = [inode_table EXCEPT ![dir_entries[s].d_inumber].i_size =
                              SizeAfterOpen(dir_entries[s].d_inumber, trunc)]
        /\ add_to_open_file_table(dir_entries[s].d_inumber,
              IF append THEN SizeAfterOpen(dir_entries[s].d_inumber, trunc) ELSE 0)
  BY DEF OpenExisting
<1> DEFINE inum == InumAt(s)
           size == SizeAfterOpen(inum, trunc)
           offset == IF append THEN size ELSE 0
<1>1. status = "mounted" /\ UNCHANGED <<status, dir_entries, fs_data>>
  BY DEF OpenExisting, dirVars
<1>2. s \in UsedSlots /\ NameAt(s) = name
  BY FindsUsed
<1>3. /\ UsedSlots' = UsedSlots
      /\ \A t \in UsedSlots : NameAt(t)' = NameAt(t) /\ InumAt(t)' = InumAt(t)
  BY <1>1 DEF UsedSlots, Used, NameAt, InumAt
<1>4. inum \in Inums
  BY <1>2, EntriesDiffer
<1>5. size \in Nat
  BY <1>4 DEF PoliteIInv, IInv, TypeOK, Inode, SizeAfterOpen
<1>6. /\ \A i \in Inums : i # inum => inode_table'[i] = inode_table[i]
      /\ inode_table'[inum].i_size = size
      /\ ~trunc => inode_table'[inum] = inode_table[inum]
  BY <1>4 DEF PoliteIInv, IInv, TypeOK, Inode, SizeAfterOpen, InumAt
<1>7. add_to_open_file_table(InumAt(s)', offset)
  BY <1>2, <1>3 DEF InumAt
<1>8. Contents(InumAt(s))' = IF trunc THEN <<>> ELSE Contents(InumAt(s))
  <2>1. CASE trunc
    BY <1>2, <1>3, <1>6, <2>1, ContentsEmptied DEF SizeAfterOpen
  <2>2. CASE ~trunc
    BY <1>1, <1>2, <1>3, <1>6, <2>2, ContentsStay
  <2> QED
    BY <2>1, <2>2
<1>9. Len(Contents(InumAt(s))') = size
  <2>1. CASE trunc
    BY <1>8, <2>1, EmptySeq DEF SizeAfterOpen
  <2>2. CASE ~trunc
    BY <1>1, <1>4, <1>8, <2>2, ContentsIsSeq DEF SizeAfterOpen
  <2> QED
    BY <2>1, <2>2
<1> HIDE DEF size, inum
<1>10. offset \in Nat
  BY <1>5
<1>11. Store!Attach(NameAt(s)', offset)
  <2> HIDE DEF offset
  <2> QED
    BY <1>2, <1>3, <1>7, <1>10, Attaches
<1>12. Files' = IF trunc THEN [Files EXCEPT ![name] = <<>>] ELSE Files
  <2> DEFINE after == IF trunc THEN [Files EXCEPT ![name] = <<>>] ELSE Files
  <2>1. DOMAIN Files' = DOMAIN Files
    BY <1>3 DEF Mapped
  <2>2. \A t \in UsedSlots : t # s =>
            /\ NameAt(t) # name
            /\ Contents(InumAt(t))' = Contents(InumAt(t))
    <3> SUFFICES ASSUME NEW t \in UsedSlots, t # s
                 PROVE  /\ NameAt(t) # name
                        /\ Contents(InumAt(t))' = Contents(InumAt(t))
      OBVIOUS
    <3>1. /\ NameAt(t) # name /\ InumAt(t) # inum /\ InumAt(t) \in Inums
      BY <1>2, EntriesDiffer DEF inum
    <3> QED
      BY <1>1, <1>3, <1>6, <3>1, ContentsStay
  <2>3. \A n \in DOMAIN Files : Files'[n] = after[n]
    <3> SUFFICES ASSUME NEW t \in UsedSlots PROVE Files'[NameAt(t)] = after[NameAt(t)]
      BY DEF Mapped
    <3>1. Files'[NameAt(t)] = Contents(InumAt(t))' /\ Files[NameAt(t)] = Contents(InumAt(t))
      BY <1>3 DEF Mapped
    <3>2. NameAt(t) \in DOMAIN Files
      BY DEF Mapped
    <3>3. CASE t = s
      BY <1>2, <1>8, <3>1, <3>2, <3>3 DEF inum
    <3>4. CASE t # s
      BY <2>2, <3>1, <3>2, <3>4
    <3> QED
      BY <3>3, <3>4
  <2>4. after = [n \in DOMAIN after |-> after[n]] /\ DOMAIN after = DOMAIN Files
    BY DEF Mapped
  <2> HIDE DEF after
  <2>5. Files' = after
    BY <2>1, <2>3, <2>4, SameFunction DEF Mapped
  <2> QED
    BY <2>5 DEF after
<1>13. name \in DOMAIN Files
  BY <1>2 DEF Mapped
<1>14. trunc => ~Store!InUse(name)
  <2> SUFFICES ASSUME trunc PROVE \A h \in OpenHandles : InumOf(h) # InumAt(s)
    BY <1>2, NotInUse
  <2> QED
    BY DEF FileIsOpen, OpenHandles, InumAt
<1>15. offset \in {0, Len(Files'[name])}
  <2>1. Files'[name] = Contents(InumAt(s))'
    BY <1>2, <1>3 DEF Mapped, inum
  <2> QED
    BY <1>9, <2>1
<1>16. NameAt(s)' = name
  BY <1>2, <1>3
<1> HIDE DEF offset
<1> QED
  BY <1>1, <1>11, <1>12, <1>13, <1>14, <1>15, <1>16
     DEF Store!Open, Files, Cursors, OpenHandles

\* A new file takes an unused entry and a free inode: nobody else's change.
LEMMA CreateStep ==
    ASSUME Related, NEW name \in Names, OpenCreate(name) PROVE Store!Create(name)
<1> USE DEF Related
<1> PICK inum \in Inums, s \in Slots :
        /\ IsFirstFree(inum, freeinode_ts)
        /\ inode_table' = [inode_table EXCEPT ![inum] = NewFile]
        /\ IsFirstUnused(s)
        /\ add_dir_entry(s, name, inum)
        /\ add_to_open_file_table(inum, 0)
  BY DEF OpenCreate
<1>1. status = "mounted" /\ NotFound(name) /\ UNCHANGED <<status, fs_data>>
  BY DEF OpenCreate, blockVars
<1>2. /\ s \notin UsedSlots
      /\ UsedSlots' = UsedSlots \cup {s}
      /\ NameAt(s)' = name /\ InumAt(s)' = inum
      /\ \A t \in UsedSlots : NameAt(t)' = NameAt(t) /\ InumAt(t)' = InumAt(t)
  BY DEF IsFirstUnused, add_dir_entry, UsedSlots, Used, NameAt, InumAt, Inums,
         PoliteIInv, IInv, TypeOK
<1>3. \A t \in UsedSlots : InumAt(t) # inum /\ NameAt(t) # name
  BY <1>1, NewInum DEF PoliteIInv, UsedSlots, Used, NameAt, InumAt, NotFound
<1>4. /\ \A i \in Inums : i # inum => inode_table'[i] = inode_table[i]
      /\ inode_table'[inum].i_size = 0
  BY DEF PoliteIInv, IInv, TypeOK, NewFile
<1>5. Contents(InumAt(s))' = <<>>
  BY <1>2, <1>4, ContentsEmptied
<1>6. \A t \in UsedSlots : Contents(InumAt(t))' = Contents(InumAt(t))
  BY <1>1, <1>2, <1>3, <1>4, ContentsStay, EntriesDiffer
<1> DEFINE with == Store!With(Files, name, <<>>)
<1>7. /\ with = [n \in DOMAIN with |-> with[n]]
      /\ DOMAIN with = DOMAIN Files \cup {name}
      /\ \A n \in DOMAIN with : with[n] = IF n = name THEN <<>> ELSE Files[n]
  BY DEF Store!With
<1> HIDE DEF with
<1>8. DOMAIN Files' = DOMAIN Files \cup {name}
  BY <1>2 DEF Mapped
<1>9. Files'[name] = <<>>
  BY <1>2, <1>5 DEF Mapped
<1>10. ASSUME NEW n \in DOMAIN Files PROVE Files'[n] = with[n]
  <2>1. PICK t \in UsedSlots : n = NameAt(t)
    BY DEF Mapped
  <2>2. Files'[n] = Contents(InumAt(t))' /\ Files[n] = Contents(InumAt(t))
    BY <1>2, <2>1 DEF Mapped
  <2> QED
    BY <1>3, <1>6, <1>7, <2>1, <2>2
<1>11. Files' = with
  BY <1>7, <1>8, <1>9, <1>10, SameFunction DEF Mapped
<1>12. name \notin DOMAIN Files
  BY <1>3 DEF Mapped
<1>13. Store!Attach(name, 0)
  BY <1>2, Attaches
<1> QED
  BY <1>1, <1>11, <1>12, <1>13 DEF Store!Create, with, Files, Cursors, OpenHandles

\* A creation that fails resets an inode no file has.
LEMMA CreateUndoneStep ==
    ASSUME Related, NEW name \in Names, OpenCreateUndone(name)
    PROVE  UNCHANGED <<status = "mounted", Files, Cursors>>
<1> USE DEF Related
<1> PICK inum \in Inums :
        /\ IsFirstFree(inum, freeinode_ts)
        /\ inode_table' = [inode_table EXCEPT ![inum] = NewFile]
  BY DEF OpenCreateUndone
<1>1. status = "mounted" /\ UNCHANGED <<status, dir_entries, fs_data, openVars>>
  BY DEF OpenCreateUndone, dirVars, blockVars
<1>2. \A t \in UsedSlots : InumAt(t) # inum /\ InumAt(t)' = InumAt(t)
  BY <1>1, NewInum DEF PoliteIInv, UsedSlots, Used, InumAt
<1>3. \A i \in Inums : i # inum => inode_table'[i] = inode_table[i]
  BY DEF PoliteIInv, IInv, TypeOK
<1>4. \A t \in UsedSlots : Contents(InumAt(t))' = Contents(InumAt(t))
  BY <1>1, <1>2, <1>3, ContentsStay, EntriesDiffer
<1> QED
  BY <1>1, <1>4, StoreStays

\* A call that changes neither the entries nor any contents leaves the files.
LEMMA FilesStay ==
    ASSUME Related, UNCHANGED <<dir_entries, inode_table, fs_data>>
    PROVE  Files' = Files
<1> USE DEF Related
<1>1. /\ UsedSlots' = UsedSlots
      /\ \A s \in UsedSlots : NameAt(s)' = NameAt(s) /\ InumAt(s)' = InumAt(s)
  BY DEF UsedSlots, Used, NameAt, InumAt
<1>2. \A t \in UsedSlots : Contents(InumAt(t))' = Contents(InumAt(t))
  BY <1>1, ContentsStay, EntriesDiffer
<1>3. DOMAIN Files' = DOMAIN Files
  BY <1>1 DEF Mapped
<1>4. \A n \in DOMAIN Files : Files'[n] = Files[n]
  BY <1>1, <1>2 DEF Mapped
<1> QED
  BY <1>3, <1>4, SameFunction DEF Mapped

\* The handle that stays open where it was keeps its file and its place.
LEMMA CursorStays ==
    ASSUME Related, NEW h \in OpenHandles, h \in OpenHandles',
           InumOf(h)' = InumOf(h),
           \A t \in UsedSlots : InumAt(t) = InumOf(h) =>
               t \in UsedSlots' /\ NameAt(t)' = NameAt(t) /\ InumAt(t)' = InumAt(t)
    PROVE  /\ Cursors'[h] = [name |-> Cursors[h].name, offset |-> OffsetOf(h)']
           /\ Cursors[h].offset = OffsetOf(h)
           /\ Cursors[h] = [name |-> Cursors[h].name, offset |-> OffsetOf(h)]
<1> USE DEF Related
<1>1. PICK t \in UsedSlots : InumOf(h) = InumAt(t)
  BY DEF Mapped
<1>2. Cursors[h] = [name |-> NameAt(t), offset |-> OffsetOf(h)]
  BY <1>1 DEF Mapped
<1>3. Cursors'[h] = [name |-> NameAt(t)', offset |-> OffsetOf(h)']
  BY <1>1 DEF Mapped
<1> QED
  BY <1>1, <1>2, <1>3

LEMMA CloseStoreStep ==
    ASSUME Related, NEW h \in Handles, tfs_close(h)
    PROVE  h \in DOMAIN Cursors /\ Store!Close(h)
<1> USE DEF Related
<1>1. /\ IsOpen(h)
      /\ UNCHANGED <<status, dir_entries, inode_table, fs_data, open_file_table>>
      /\ free_open_file_entries' = Release(free_open_file_entries, h)
  BY DEF tfs_close, remove_from_open_file_table, dirVars, inodeVars, blockVars
<1>2. OpenHandles' = OpenHandles \ {h}
  BY <1>1 DEF OpenHandles, IsOpen, Release, FREE, TAKEN, PoliteIInv, IInv, TypeOK
<1>3. \A g \in OpenHandles' : Cursors'[g] = Cursors[g]
  <2> SUFFICES ASSUME NEW g \in OpenHandles' PROVE Cursors'[g] = Cursors[g]
    OBVIOUS
  <2>1. /\ UsedSlots' = UsedSlots
        /\ \A s \in UsedSlots : NameAt(s)' = NameAt(s) /\ InumAt(s)' = InumAt(s)
    BY <1>1 DEF UsedSlots, Used, NameAt, InumAt
  <2>2. g \in OpenHandles /\ InumOf(g)' = InumOf(g) /\ OffsetOf(g)' = OffsetOf(g)
    BY <1>1, <1>2 DEF InumOf, OffsetOf
  <2>3. /\ Cursors'[g] = [name |-> Cursors[g].name, offset |-> OffsetOf(g)']
        /\ Cursors[g] = [name |-> Cursors[g].name, offset |-> OffsetOf(g)]
    BY <2>1, <2>2, CursorStays
  <2> QED
    BY <2>2, <2>3
<1> DEFINE rest == Store!Only(Cursors, Handles \ {h})
<1>4. /\ rest = [g \in DOMAIN rest |-> rest[g]]
      /\ DOMAIN rest = DOMAIN Cursors \cap (Handles \ {h})
      /\ \A g \in DOMAIN rest : rest[g] = Cursors[g]
  BY DEF Store!Only
<1> HIDE DEF rest
<1>5. DOMAIN rest = OpenHandles'
  BY <1>2, <1>4 DEF Mapped, OpenHandles
<1>6. Cursors' = rest
  BY <1>3, <1>4, <1>5, SameFunction DEF Mapped
<1>7. h \in DOMAIN Cursors
  BY <1>1 DEF Mapped, OpenHandles
<1>8. Files' = Files
  BY <1>1, FilesStay
<1> QED
  BY <1>1, <1>6, <1>7, <1>8 DEF Store!Close, rest, Files, Cursors, OpenHandles

\* Where a handle stands, and the file it stands in.
LEMMA HandleFile ==
    ASSUME PoliteIInv, NothingMounted, Mapped, NEW h \in OpenHandles
    PROVE  \E t \in UsedSlots :
              /\ InumOf(h) = InumAt(t)
              /\ Cursors[h] = [name |-> NameAt(t), offset |-> OffsetOf(h)]
              /\ Files[NameAt(t)] = Contents(InumAt(t))
              /\ NameAt(t) \in DOMAIN Files
              /\ Len(Contents(InumAt(t))) = SizeOf(h)
<1>1. PICK t \in UsedSlots : InumOf(h) = InumAt(t)
  BY DEF Mapped
<1>2. InumAt(t) \in Inums /\ status = "mounted"
  BY EntriesDiffer
<1>3. Len(Contents(InumAt(t))) = SizeOf(h)
  BY <1>1, <1>2, ContentsIsSeq DEF SizeOf
<1> QED
  BY <1>1, <1>3 DEF Mapped

\* A call that moves one handle of those that are open.
LEMMA Advances ==
    ASSUME Related, NEW h \in OpenHandles, NEW n \in Nat,
           UNCHANGED dir_entries, OpenHandles' = OpenHandles,
           \A g \in OpenHandles :
              /\ InumOf(g)' = InumOf(g)
              /\ OffsetOf(g)' = IF g = h THEN OffsetOf(h) + n ELSE OffsetOf(g)
    PROVE  Store!Advance(h, n)
<1> USE DEF Related
<1>1. /\ UsedSlots' = UsedSlots
      /\ \A s \in UsedSlots : NameAt(s)' = NameAt(s) /\ InumAt(s)' = InumAt(s)
  BY DEF UsedSlots, Used, NameAt, InumAt
<1>2. \A g \in OpenHandles :
         /\ Cursors'[g] = [name |-> Cursors[g].name, offset |-> OffsetOf(g)']
         /\ Cursors[g] = [name |-> Cursors[g].name, offset |-> OffsetOf(g)]
  BY <1>1, CursorStays
<1> DEFINE moved == [Cursors EXCEPT ![h].offset = @ + n]
<1>3. /\ moved = [g \in DOMAIN moved |-> moved[g]]
      /\ DOMAIN moved = DOMAIN Cursors
      /\ \A g \in DOMAIN Cursors :
            moved[g] = IF g = h THEN [Cursors[h] EXCEPT !.offset = @ + n]
                       ELSE Cursors[g]
  BY DEF Mapped
<1> HIDE DEF moved
<1>4. [Cursors[h] EXCEPT !.offset = @ + n]
         = [name |-> Cursors[h].name, offset |-> OffsetOf(h) + n]
  <2> DEFINE c == Cursors[h]
             name == c.name
  <2>1. c = [name |-> name, offset |-> OffsetOf(h)]
    BY <1>2
  <2> HIDE DEF c, name
  <2>2. [c EXCEPT !.offset = @ + n] = [name |-> name, offset |-> OffsetOf(h) + n]
    BY <2>1
  <2> QED
    BY <2>2 DEF c, name
<1>5. \A g \in OpenHandles : Cursors'[g] = moved[g]
  BY <1>2, <1>3, <1>4 DEF Mapped
<1>6. Cursors' = moved
  BY <1>3, <1>5, SameFunction DEF Mapped
<1> QED
  BY <1>6 DEF Store!Advance, moved, Cursors, OpenHandles

LEMMA ReadStoreStep ==
    ASSUME Related, NEW h \in Handles, NEW len \in Lens, tfs_read(h, len)
    PROVE  h \in DOMAIN Cursors /\ \E n \in 1 .. BLOCK_SIZE : Store!Read(h, n)
<1> USE DEF Related
<1> DEFINE n == ToRead(h, len)
<1>1. /\ IsOpen(h) /\ n > 0
      /\ UNCHANGED <<status, dir_entries, inode_table, fs_data,
                     free_open_file_entries>>
      /\ open_file_table' = [open_file_table EXCEPT ![h].of_offset = OffsetOf(h) + n]
  BY DEF tfs_read, dirVars, inodeVars, blockVars
<1>2. /\ OffsetOf(h) \in Nat /\ SizeOf(h) \in 0 .. BLOCK_SIZE
      /\ OffsetOf(h) <= SizeOf(h) /\ h \in OpenHandles
  BY <1>1, HandleInPlace DEF OpenHandles
<1>3. n \in 1 .. BLOCK_SIZE /\ OffsetOf(h) + n <= SizeOf(h)
  BY <1>1, <1>2, TfsAssumption, BoundsAssumption DEF ToRead, Least, Lens
<1> HIDE DEF n
<1>4. /\ OpenHandles' = OpenHandles
      /\ \A g \in OpenHandles :
            /\ InumOf(g)' = InumOf(g)
            /\ OffsetOf(g)' = IF g = h THEN OffsetOf(h) + n ELSE OffsetOf(g)
  BY <1>1 DEF OpenHandles, IsOpen, InumOf, OffsetOf, PoliteIInv, IInv, TypeOK, OpenFile
<1>5. Store!Advance(h, n)
  BY <1>1, <1>2, <1>3, <1>4, Advances
<1>6. Files' = Files
  BY <1>1, FilesStay
<1>7. Cursors[h].offset + n <= Len(Files[Cursors[h].name])
  <2>1. PICK t \in UsedSlots :
           /\ Cursors[h] = [name |-> NameAt(t), offset |-> OffsetOf(h)]
           /\ Files[NameAt(t)] = Contents(InumAt(t))
           /\ Len(Contents(InumAt(t))) = SizeOf(h)
    BY <1>2, HandleFile
  <2>2. Cursors[h].offset = OffsetOf(h) /\ Cursors[h].name = NameAt(t)
    BY <2>1
  <2> QED
    BY <1>3, <2>1, <2>2
<1>8. h \in DOMAIN Cursors
  BY <1>2 DEF Mapped
<1> QED
  BY <1>1, <1>3, <1>5, <1>6, <1>7, <1>8 DEF Store!Read, Files, Cursors, OpenHandles

\* Nobody has the file open, and the entry that is cleared is the one that
\* was found.
LEMMA RemoveStep ==
    ASSUME Related, NEW name \in Names, ~FileIsOpen(name), tfs_unlink(name)
    PROVE  name \in DOMAIN Files /\ Store!Remove(name)
<1> USE DEF Related
<1> PICK s \in Slots : Finds(s, name) /\ inode_delete(InumAt(s))
  BY DEF tfs_unlink, InumAt
<1> PICK t \in Slots : IsCleared(t, name) /\ clear_dir_entry(t)
  BY DEF tfs_unlink
<1>1. /\ status = "mounted"
      /\ UNCHANGED <<status, inode_table, fs_data, openVars>>
  BY DEF tfs_unlink, inode_delete
<1>2. t = s
  BY FindAndClearAgree DEF PoliteIInv, IInv
<1>3. s \in UsedSlots /\ NameAt(s) = name
  BY FindsUsed
<1>4. /\ UsedSlots' = UsedSlots \ {s}
      /\ \A r \in UsedSlots' : NameAt(r)' = NameAt(r) /\ InumAt(r)' = InumAt(r)
  BY <1>2 DEF clear_dir_entry, ClearedEntry, UsedSlots, Used, NameAt, InumAt,
              PoliteIInv, IInv, TypeOK
<1>5. \A r \in UsedSlots' : /\ NameAt(r) # name /\ NameAt(r) \in Names
                            /\ r \in UsedSlots
  BY <1>3, <1>4, EntriesDiffer
<1>6. \A r \in UsedSlots' : Contents(InumAt(r))' = Contents(InumAt(r))
  BY <1>1, <1>4, <1>5, ContentsStay
<1> DEFINE rest == Store!Only(Files, Names \ {name})
<1>7. /\ rest = [n \in DOMAIN rest |-> rest[n]]
      /\ DOMAIN rest = DOMAIN Files \cap (Names \ {name})
      /\ \A n \in DOMAIN rest : rest[n] = Files[n]
  BY DEF Store!Only
<1> HIDE DEF rest
<1>8. DOMAIN Files' = DOMAIN rest
  <2>1. DOMAIN Files' = {NameAt(r) : r \in UsedSlots \ {s}}
    BY <1>4 DEF Mapped
  <2>2. DOMAIN Files = {NameAt(r) : r \in UsedSlots}
    BY DEF Mapped
  <2>3. \A r \in UsedSlots : NameAt(r) \in Names /\ (r # s <=> NameAt(r) # name)
    BY <1>3, EntriesDiffer
  <2> QED
    BY <1>7, <2>1, <2>2, <2>3
<1>9. \A n \in DOMAIN Files' : Files'[n] = rest[n]
  <2> SUFFICES ASSUME NEW r \in UsedSlots' PROVE Files'[NameAt(r)] = rest[NameAt(r)]
    BY <1>4 DEF Mapped
  <2>1. Files'[NameAt(r)] = Contents(InumAt(r))' /\ Files[NameAt(r)] = Contents(InumAt(r))
    BY <1>4, <1>5 DEF Mapped
  <2>2. NameAt(r) \in DOMAIN rest
    BY <1>5, <1>7 DEF Mapped
  <2> QED
    BY <1>6, <1>7, <2>1, <2>2
<1>10. Files' = rest
  BY <1>7, <1>8, <1>9, SameFunction DEF Mapped
<1>11. \A h \in OpenHandles : InumOf(h) # InumAt(s)
  BY DEF FileIsOpen, OpenHandles, InumAt
<1>12. Cursors' = Cursors
  <2>1. OpenHandles' = OpenHandles
    BY <1>1 DEF OpenHandles, IsOpen, openVars
  <2>2. \A h \in OpenHandles : Cursors'[h] = Cursors[h]
    <3> SUFFICES ASSUME NEW h \in OpenHandles PROVE Cursors'[h] = Cursors[h]
      OBVIOUS
    <3>1. InumOf(h)' = InumOf(h) /\ OffsetOf(h)' = OffsetOf(h)
      BY <1>1 DEF InumOf, OffsetOf, openVars
    <3>2. \A r \in UsedSlots : InumAt(r) = InumOf(h) =>
              r \in UsedSlots' /\ NameAt(r)' = NameAt(r) /\ InumAt(r)' = InumAt(r)
      BY <1>4, <1>11
    <3>3. /\ Cursors'[h] = [name |-> Cursors[h].name, offset |-> OffsetOf(h)']
          /\ Cursors[h] = [name |-> Cursors[h].name, offset |-> OffsetOf(h)]
      BY <2>1, <3>1, <3>2, CursorStays
    <3> QED
      BY <3>1, <3>3
  <2> QED
    BY <2>1, <2>2, SameFunction DEF Mapped
<1>13. ~Store!InUse(name)
  BY <1>3, <1>11, NotInUse
<1>14. name \in DOMAIN Files
  BY <1>3 DEF Mapped
<1> QED
  BY <1>1, <1>10, <1>12, <1>13, <1>14
     DEF Store!Remove, rest, Files, Cursors, OpenHandles

\* What tfs_write does to the tables: n bytes at the offset of the handle, in
\* the file's block or, for an empty file, a new one.
Writes(h, byte, n, t, b) ==
    /\ t \in UsedSlots /\ InumAt(t) = InumOf(h)
    /\ b \in Blocks
    /\ WritesTo(h, b)
    /\ n \in 1 .. BLOCK_SIZE /\ OffsetOf(h) + n <= BLOCK_SIZE
    /\ fs_data' = [fs_data EXCEPT ![b] = Written(fs_data[b], OffsetOf(h), n, byte)]
    /\ inode_table' = [inode_table EXCEPT ![InumAt(t)] =
          [i_size |-> Greatest(SizeOf(h), OffsetOf(h) + n), i_data_block |-> b]]
    /\ open_file_table' =
          [open_file_table EXCEPT ![h].of_offset = OffsetOf(h) + n]
    /\ UNCHANGED <<status, dir_entries, free_open_file_entries>>

LEMMA TfsWriteWrites ==
    ASSUME PoliteIInv, NothingMounted, Mapped,
           NEW h \in Handles, NEW byte \in Bytes, NEW len \in Lens,
           tfs_write(h, byte, len)
    PROVE  \E n, t, b : Writes(h, byte, n, t, b)
<1>1. IsOpen(h) /\ h \in OpenHandles
  BY DEF tfs_write, OpenHandles
<1>2. /\ OffsetOf(h) \in Nat /\ SizeOf(h) \in 0 .. BLOCK_SIZE
      /\ OffsetOf(h) <= SizeOf(h)
  BY <1>1, HandleInPlace
<1> DEFINE n == ToWrite(h, len)
<1>3. n \in 1 .. BLOCK_SIZE /\ OffsetOf(h) + n <= BLOCK_SIZE
  BY <1>2, TfsAssumption, BoundsAssumption DEF tfs_write, ToWrite, Least, Lens
<1>4. PICK t \in UsedSlots : InumOf(h) = InumAt(t)
  BY <1>1, HandleFile
<1> QED
  BY <1>3, <1>4 DEF tfs_write, Writes, dirVars

\* The bytes of the file that is written.
LEMMA ContentsWritten ==
    ASSUME PoliteIInv, NothingMounted, NEW h \in OpenHandles,
           NEW byte \in Bytes, NEW n, NEW t, NEW b, Writes(h, byte, n, t, b)
    PROVE  /\ InumAt(t)' = InumAt(t)
           /\ Contents(InumAt(t))' =
                 Store!Overwrite(Contents(InumAt(t)), OffsetOf(h), n, byte)
<1> DEFINE inum == InumAt(t)
           offset == OffsetOf(h)
           size == SizeOf(h)
           before == Contents(inum)
           after == Contents(inum)'
           over == Store!Overwrite(before, offset, n, byte)
           longer == Greatest(size, offset + n)
<1>1. /\ t \in UsedSlots /\ inum = InumOf(h) /\ inum \in Inums
      /\ status = "mounted"
  BY EntriesDiffer DEF Writes
<1>2. /\ offset \in Nat /\ size \in Nat /\ offset <= size /\ size <= BLOCK_SIZE
      /\ n \in Nat /\ n > 0 /\ offset + n <= BLOCK_SIZE /\ BLOCK_SIZE \in Nat
  BY HandleInPlace, TfsAssumption DEF Writes, OpenHandles
<1>3. before = [k \in 1 .. size |-> fs_data[BlockOf(h)][k - 1]] /\ Len(before) = size
  BY <1>1, ContentsIsSeq DEF Contents, SizeOf, BlockOf
<1>4. InumAt(t)' = inum
  BY DEF Writes, InumAt
<1>5. inode_table'[inum] = [i_size |-> longer, i_data_block |-> b] /\ b \in Blocks
  BY <1>1 DEF Writes, PoliteIInv, IInv, TypeOK
<1>6. after = [k \in 1 .. longer |-> fs_data'[b][k - 1]]
  BY <1>4, <1>5 DEF Contents
<1>7. over = [k \in 1 .. longer |->
                 IF offset < k /\ k <= offset + n THEN byte ELSE before[k]]
  BY <1>2, <1>3 DEF Store!Overwrite, Greatest
<1>8. longer \in Nat /\ longer <= BLOCK_SIZE
  BY <1>2 DEF Greatest
<1>9. \A c \in Cells : fs_data'[b][c] =
          IF offset <= c /\ c < offset + n THEN byte ELSE fs_data[b][c]
  BY DEF Writes, Written, PoliteIInv, IInv, TypeOK
<1>10. size > 0 => b = BlockOf(h)
  BY <1>2 DEF Writes, WritesTo
<1> HIDE DEF before, after, over, longer, size, offset, inum
<1>11. ASSUME NEW k \in 1 .. longer
       PROVE  fs_data'[b][k - 1] =
                 IF offset < k /\ k <= offset + n THEN byte ELSE before[k]
  <2>1. k - 1 \in Cells
    BY <1>2, <1>8 DEF Cells
  <2>2. offset <= k - 1 <=> offset < k
    BY <1>2, <1>8
  <2>3. k - 1 < offset + n <=> k <= offset + n
    BY <1>2, <1>8
  <2>4. fs_data'[b][k - 1] =
            IF offset < k /\ k <= offset + n THEN byte ELSE fs_data[b][k - 1]
    BY <1>9, <2>1, <2>2, <2>3
  <2>5. CASE offset < k /\ k <= offset + n
    BY <2>4, <2>5
  <2>6. CASE ~(offset < k /\ k <= offset + n)
    <3>1. k \in 1 .. size /\ size > 0
      BY <1>2, <1>8, <2>6 DEF Greatest, longer
    <3>2. before[k] = fs_data[b][k - 1]
      BY <1>3, <1>10, <3>1
    <3> QED
      BY <2>4, <2>6, <3>2
  <2> QED
    BY <2>5, <2>6
<1>12. after = over
  BY <1>6, <1>7, <1>11
<1> QED
  BY <1>4, <1>12 DEF after, over, before, inum, offset

\* The other files keep their bytes: they have blocks of their own.
LEMMA OthersKeepContents ==
    ASSUME PoliteIInv, NothingMounted, NEW h \in OpenHandles,
           NEW byte \in Bytes, NEW n, NEW t, NEW b, Writes(h, byte, n, t, b),
           NEW s \in UsedSlots, s # t
    PROVE  InumAt(s)' = InumAt(s) /\ Contents(InumAt(s))' = Contents(InumAt(s))
<1> DEFINE i == InumAt(s)
           j == InumAt(t)
<1>1. /\ t \in UsedSlots /\ j = InumOf(h) /\ i # j /\ i \in Inums /\ j \in Inums
      /\ freeinode_ts[i] = TAKEN /\ freeinode_ts[j] = TAKEN
      /\ status = "mounted" /\ b \in Blocks
  BY EntriesDiffer DEF Writes
<1>2. InumAt(s)' = i
  BY DEF Writes, InumAt
<1>3. inode_table'[i] = inode_table[i]
  BY <1>1 DEF Writes, PoliteIInv, IInv, TypeOK
<1>4. ASSUME HasData(i) PROVE inode_table[i].i_data_block # b
  <2>1. CASE SizeOf(h) = 0
    <3>1. free_blocks[b] # TAKEN
      BY <2>1 DEF Writes, WritesTo, IsFirstFree, FREE, TAKEN
    <3> QED
      BY <1>1, <1>4, <3>1 DEF PoliteIInv, IInv, BlocksExclusive
  <2>2. CASE SizeOf(h) # 0
    <3>1. HasData(j) /\ inode_table[j].i_data_block = b
      BY <1>1, <2>2, HandleInPlace, TfsAssumption
         DEF Writes, WritesTo, SizeOf, BlockOf, HasData, OpenHandles
    <3> QED
      BY <1>1, <1>4, <3>1 DEF PoliteIInv, IInv, BlocksExclusive
  <2> QED
    BY <2>1, <2>2
<1>5. HasData(i) => fs_data'[inode_table[i].i_data_block]
                       = fs_data[inode_table[i].i_data_block]
  BY <1>4 DEF Writes, PoliteIInv, IInv, TypeOK
<1> QED
  BY <1>2, <1>3, <1>5, ContentsStay
LEMMA WriteStoreStep ==
    ASSUME Related, NEW h \in Handles, NEW byte \in Bytes, NEW len \in Lens,
           tfs_write(h, byte, len)
    PROVE  h \in DOMAIN Cursors /\ \E n \in 1 .. BLOCK_SIZE : Store!Write(h, n, byte)
<1> USE DEF Related
<1>1. h \in OpenHandles
  BY DEF tfs_write, OpenHandles
<1> PICK n, t, b : Writes(h, byte, n, t, b)
  BY TfsWriteWrites
<1>2. /\ t \in UsedSlots /\ InumAt(t) = InumOf(h)
      /\ n \in 1 .. BLOCK_SIZE /\ OffsetOf(h) + n <= BLOCK_SIZE
  BY DEF Writes
<1>3. OffsetOf(h) \in Nat /\ n \in Nat
  BY <1>1, <1>2, HandleInPlace, TfsAssumption DEF OpenHandles
<1>4. /\ UsedSlots' = UsedSlots
      /\ \A s \in UsedSlots : NameAt(s)' = NameAt(s) /\ InumAt(s)' = InumAt(s)
  BY DEF Writes, UsedSlots, Used, NameAt, InumAt
<1>5. /\ OpenHandles' = OpenHandles
      /\ \A g \in OpenHandles :
            /\ InumOf(g)' = InumOf(g)
            /\ OffsetOf(g)' = IF g = h THEN OffsetOf(h) + n ELSE OffsetOf(g)
  BY DEF Writes, OpenHandles, IsOpen, InumOf, OffsetOf, PoliteIInv, IInv, TypeOK,
         OpenFile
<1>6. Store!Advance(h, n)
  BY <1>1, <1>3, <1>5, Advances DEF Writes
<1>7. /\ Cursors[h] = [name |-> NameAt(t), offset |-> OffsetOf(h)]
      /\ Files[NameAt(t)] = Contents(InumAt(t)) /\ NameAt(t) \in DOMAIN Files
  BY <1>1, <1>2 DEF Mapped
<1> DEFINE name == Cursors[h].name
           offset == Cursors[h].offset
           over == Store!Overwrite(Files[name], offset, n, byte)
           written == [Files EXCEPT ![name] = over]
<1>8. name = NameAt(t) /\ offset = OffsetOf(h)
  BY <1>7
<1> HIDE DEF name, offset
<1>9. /\ written = [x \in DOMAIN written |-> written[x]]
      /\ DOMAIN written = DOMAIN Files
      /\ \A x \in DOMAIN Files :
            written[x] = IF x = NameAt(t) THEN over ELSE Files[x]
  BY <1>8 DEF Mapped
<1>10. ASSUME NEW s \in UsedSlots PROVE Files'[NameAt(s)] = written[NameAt(s)]
  <2>1. /\ Files'[NameAt(s)] = Contents(InumAt(s))'
        /\ Files[NameAt(s)] = Contents(InumAt(s)) /\ NameAt(s) \in DOMAIN Files
    BY <1>4 DEF Mapped
  <2>2. CASE s = t
    BY <1>1, <1>7, <1>8, <1>9, <2>1, <2>2, ContentsWritten
  <2>3. CASE s # t
    <3>1. Contents(InumAt(s))' = Contents(InumAt(s)) /\ NameAt(s) # NameAt(t)
      BY <1>1, <1>2, <2>3, OthersKeepContents, EntriesDiffer
    <3> QED
      BY <1>9, <2>1, <3>1
  <2> QED
    BY <2>2, <2>3
<1>11. DOMAIN Files' = DOMAIN Files
  BY <1>4 DEF Mapped
<1> HIDE DEF written, over
<1>12. ASSUME NEW x \in DOMAIN Files' PROVE Files'[x] = written[x]
  <2>1. PICK s \in UsedSlots : x = NameAt(s)
    BY <1>11 DEF Mapped
  <2> QED
    BY <1>10, <2>1
<1>13. Files' = written
  BY <1>9, <1>11, <1>12, SameFunction DEF Mapped
<1>14. h \in DOMAIN Cursors
  BY <1>1 DEF Mapped
<1>15. offset + n <= BLOCK_SIZE /\ UNCHANGED status
  BY <1>2, <1>8 DEF Writes
<1>16. Files' = [Files EXCEPT ![Cursors[h].name] =
                    Store!Overwrite(@, Cursors[h].offset, n, byte)]
  BY <1>13 DEF written, over, name, offset
<1>17. Cursors[h].offset + n <= BLOCK_SIZE
  BY <1>15 DEF offset
<1>18. Store!Write(h, n, byte)
  BY <1>6, <1>15, <1>16, <1>17 DEF Store!Write, Files, Cursors, OpenHandles
<1> QED
  BY <1>2, <1>14, <1>18

-----------------------------------------------------------------------------
(* The whole system.                                                       *)

LEMMA NothingMountedInit == Init => NothingMounted
BY DEF Init, NoTables, NothingMounted, BlankDirectories, UsedSlots, Used,
       OpenHandles, IsOpen, FreeAll, FREE, TAKEN

LEMMA NothingMountedStep ==
    NothingMounted /\ [PoliteNext]_vars => NothingMounted'
<1> SUFFICES ASSUME NothingMounted, [PoliteNext]_vars, status' = "unmounted"
             PROVE  UsedSlots' = {} /\ OpenHandles' = {}
  BY DEF NothingMounted
<1>1. CASE tfs_destroy
  BY <1>1 DEF tfs_destroy, state_destroy, BlankDirectories, UsedSlots, Used,
              OpenHandles, IsOpen, FreeAll, FREE, TAKEN
<1>2. CASE UNCHANGED vars
  BY <1>2 DEF vars, dirVars, openVars, NothingMounted, UsedSlots, Used,
              OpenHandles, IsOpen
<1> QED
  BY <1>1, <1>2 DEF PoliteNext, tfs_init, OpenExisting, OpenCreate,
                    OpenCreateUndone, tfs_close, tfs_write, tfs_read, tfs_unlink

\* The tables a process starts with map to an empty store that is not mounted.
LEMMA StoreInit == Init /\ Mapped => Store!Init
<1> SUFFICES ASSUME Init, Mapped PROVE Store!Init
  OBVIOUS
<1>1. status = "unmounted" /\ UsedSlots = {} /\ OpenHandles = {}
  BY NothingMountedInit DEF NothingMounted, Init
<1>2. DOMAIN Files = {} /\ DOMAIN Cursors = {}
  BY <1>1 DEF Mapped
<1>3. Files = <<>> /\ Cursors = <<>>
  BY <1>2, NoElements DEF Mapped
<1> QED
  BY <1>1, <1>3 DEF Store!Init, Files, Cursors, OpenHandles

LEMMA StepsImplementStore ==
    Related /\ [PoliteNext]_vars => [Store!Next]_(Store!vars)
<1> SUFFICES ASSUME Related, [PoliteNext]_vars PROVE [Store!Next]_(Store!vars)
  OBVIOUS
<1>1. CASE tfs_init
  BY <1>1, MountStep DEF Store!Next
<1>2. CASE tfs_destroy
  BY <1>2, UnmountStep DEF Store!Next
<1>3. ASSUME NEW name \in Names, NEW trunc \in BOOLEAN, NEW append \in BOOLEAN,
             trunc => ~FileIsOpen(name), OpenExisting(name, trunc, append)
      PROVE  Store!Next
  BY <1>3, OpenStep DEF Store!Next
<1>4. ASSUME NEW name \in Names, OpenCreate(name) PROVE Store!Next
  BY <1>4, CreateStep DEF Store!Next
<1>5. ASSUME NEW name \in Names, OpenCreateUndone(name)
      PROVE  UNCHANGED Store!vars
  BY <1>5, CreateUndoneStep DEF Store!vars, Files, Cursors, OpenHandles
<1>6. ASSUME NEW h \in Handles, tfs_close(h) PROVE Store!Next
  BY <1>6, CloseStoreStep DEF Store!Next, Cursors, OpenHandles
<1>7. ASSUME NEW h \in Handles, NEW byte \in Bytes, NEW len \in Lens,
             tfs_write(h, byte, len)
      PROVE  Store!Next
  <2>1. h \in DOMAIN Cursors
    BY <1>7, WriteStoreStep
  <2>2. PICK n \in 1 .. BLOCK_SIZE : Store!Write(h, n, byte)
    BY <1>7, WriteStoreStep
  <2> QED
    BY <2>1, <2>2 DEF Store!Next, Cursors, OpenHandles
<1>8. ASSUME NEW h \in Handles, NEW len \in Lens, tfs_read(h, len)
      PROVE  Store!Next
  BY <1>8, ReadStoreStep DEF Store!Next, Cursors, OpenHandles
<1>9. ASSUME NEW name \in Names, ~FileIsOpen(name), tfs_unlink(name)
      PROVE  Store!Next
  BY <1>9, RemoveStep DEF Store!Next, Files
<1>10. CASE UNCHANGED vars
  <2>1. UNCHANGED <<status, dir_entries, inode_table, fs_data, openVars>>
    BY <1>10 DEF vars, inodeVars, dirVars, blockVars, openVars
  <2>2. Files' = Files
    BY <2>1, FilesStay
  <2>3. \A s \in UsedSlots : Contents(InumAt(s))' = Contents(InumAt(s))
    BY <2>1 DEF Contents, InumAt
  <2>4. UNCHANGED <<status = "mounted", Files, Cursors>>
    BY <2>1, <2>3, StoreStays DEF Related
  <2> QED
    BY <2>4 DEF Store!vars, Files, Cursors, OpenHandles
<1> QED
  BY <1>1, <1>2, <1>3, <1>4, <1>5, <1>6, <1>7, <1>8, <1>9, <1>10 DEF PoliteNext

\* What callers that leave open files alone see of the tables is a store of
\* named byte strings, whatever the sizes of the tables: each call of
\* operations.c is one step of FileStore (a write changes the bytes of one file,
\* a read moves one handle inside its file, a creation or an unlink touches no
\* other file) or, failing, none.
THEOREM TablesImplementStore == PoliteSpec => StoreSpec
<1>1. [PoliteNext]_vars => [PoliteOrAbort]_vars
  BY DEF PoliteOrAbort
<1>2. Init /\ [][PoliteNext]_vars => []PoliteIInv
  BY <1>1, PoliteInvariant, PTL
<1>3. Init /\ [][PoliteNext]_vars => []NothingMounted
  BY NothingMountedInit, NothingMountedStep, PTL
<1>4. PoliteIInv /\ NothingMounted /\ PoliteIInv' /\ NothingMounted' => Related
  BY MappedAlways, PTL DEF Related
<1>5. PoliteIInv /\ NothingMounted => Mapped
  BY MappedAlways
<1>6. Init /\ Mapped => Store!Init
  BY StoreInit
<1> QED
  BY <1>2, <1>3, <1>4, <1>5, <1>6, StepsImplementStore, PTL
     DEF PoliteSpec, StoreSpec, Store!Spec
=============================================================================
