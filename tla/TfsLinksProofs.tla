--------------------------- MODULE TfsLinksProofs ---------------------------
(***************************************************************************)
(* Proofs about TfsLinks: its types, that a used entry of the directory    *)
(* names an allocated inode, that no block has two owners, that nothing    *)
(* leaks as long as no call fails halfway, and that following symbolic     *)
(* links ends, for tables of every size and for every set of names.        *)
(***************************************************************************)
EXTENDS TfsLinks, FiniteSetTheorems, TLAPS

-----------------------------------------------------------------------------
(* The inductive invariant                                                 *)

Type(i)    == inode_table[i].i_node_type
Size(i)    == inode_table[i].i_size
Data(i)    == inode_table[i].i_data_block
Counter(i) == inode_table[i].i_link_counter

InodeType  == [i_node_type : {"T_FILE", "T_DIRECTORY", "T_SYMLINK"},
               i_size : 0 .. BLOCK_SIZE, i_data_block : Blocks \cup {-1},
               i_link_counter : Nat]
HandleType == [of_inumber : Inums \cup {-1}, of_offset : Nat]
EntryType  == [d_name : Texts \cup {NoName}, d_inumber : Inums \cup {-1}]

\* A type invariant of the tables, whatever the status.
Tables ==
    /\ inode_table \in [Inums -> InodeType]
    /\ freeinode_ts \in [Inums -> {FREE, TAKEN}]
    /\ dir_entries \in [Slots -> EntryType]
    /\ text \in [Blocks -> Texts]
    /\ free_blocks \in [Blocks -> {FREE, TAKEN}]
    /\ open_file_table \in [Handles -> HandleType]
    /\ lapses \subseteq Lapses

\* A mounted system has its root; outside a mount everything is free.
Rooted ==
    /\ status \in {"mounted", "copying"} => freeinode_ts[ROOT_DIR_INUM] = TAKEN
    /\ status \in {"unmounted", "aborted"} =>
         /\ \A i \in Inums : freeinode_ts[i] = FREE
         /\ \A bnum \in Blocks : free_blocks[bnum] = FREE

CopyOpen ==
    /\ copying \in Handles \cup {-1}
    /\ status = "copying" => copying \in Handles /\ IsOpen(copying)

\* The names tfs_init leaves in unused entries are behind every used entry, so
\* that clear_dir_entry, which takes any entry, takes the one find_in_dir found.
StaleNamesLast ==
    \A s \in SlotsUsed, t \in Slots \ SlotsUsed :
       dir_entries[t].d_name # NoName => s < t

EntriesSound ==
    \A s \in SlotsUsed :
       /\ dir_entries[s].d_name \in Texts
       /\ dir_entries[s].d_inumber \in Allocated
       /\ dir_entries[s].d_name = Garbled =>
             Type(dir_entries[s].d_inumber) # "T_SYMLINK"

\* Symbolic links are never linked to, so they have one entry.
CountersSound ==
    \A i \in Allocated :
       /\ Cardinality(EntriesOf(i)) <= Counter(i)
       /\ Type(i) = "T_SYMLINK" =>
             Counter(i) = 1 /\ (EntriesOf(i) # {} => Size(i) > 0)
       /\ "spilled" \notin lapses =>
             Counter(i) = Cardinality(EntriesOf(i)) /\ EntriesOf(i) # {}

Owners == {i \in Inums : freeinode_ts[i] = TAKEN /\ Size(i) > 0}

BlocksSound ==
    /\ \A i \in Inums : Size(i) > 0 => Data(i) \in Blocks
    /\ \A i \in Owners : free_blocks[Data(i)] = TAKEN
    /\ \A i, j \in Owners : i # j => Data(i) # Data(j)
    /\ {"spilled", "orphaned"} \cap lapses = {} =>
         \A bnum \in Blocks : free_blocks[bnum] = TAKEN =>
            \E i \in Owners : Data(i) = bnum

HandlesSound ==
    \A h \in Handles : IsOpen(h) =>
       /\ InumOf(h) \in Inums
       /\ "orphaned" \notin lapses =>
             InumOf(h) \in Allocated /\ Type(InumOf(h)) # "T_SYMLINK"

NamesOnce ==
    "relinked" \notin lapses =>
       \A s, t \in SlotsUsed :
          dir_entries[s].d_name = dir_entries[t].d_name => s = t

\* Out of any set of names some link leads, or one is no link.
LinksLeave ==
    \A C \in SUBSET Texts : C # {} =>
       \E n \in C : IsSymlink(n) => TargetOf(n) \notin C

LinksEndSound ==
    {"relinked", "orphaned", "misread"} \cap lapses = {} => LinksLeave

Sound ==
    /\ Tables /\ StaleNamesLast /\ EntriesSound /\ CountersSound
    /\ BlocksSound /\ HandlesSound /\ NamesOnce /\ LinksEndSound

Inv ==
    /\ status \in {"unmounted", "mounted", "copying", "aborted"}
    /\ Rooted /\ CopyOpen /\ Sound

-----------------------------------------------------------------------------
(* The operators                                                           *)

USE DEF InodeType, HandleType, EntryType

\* A nonempty set of numbers has a least one, and First finds it.
LEMMA FirstIsLeast ==
  ASSUME NEW S, S \subseteq Nat, S # {}
  PROVE  First(S) \in S /\ \A j \in S : First(S) <= j
<1> DEFINE Below == {0 .. x : x \in S}
           Order == StrictSubsetOrdering(Nat)
<1>1. IsWellFoundedOn(Order, FiniteSubsetsOf(Nat))
  BY FS_StrictSubsetOrderingWellFounded
<1>2. Below \subseteq FiniteSubsetsOf(Nat) /\ Below # {}
  <2>1. ASSUME NEW x \in S PROVE 0 .. x \in FiniteSubsetsOf(Nat)
    <3>1. IsFiniteSet(0 .. x)
      BY FS_Interval
    <3>2. 0 .. x \subseteq Nat
      OBVIOUS
    <3> QED BY <3>1, <3>2 DEF FiniteSubsetsOf
  <2> QED BY <2>1
<1>3. \A m, n \in Nat : m < n => <<0 .. m, 0 .. n>> \in Order
  <2> SUFFICES ASSUME NEW m \in Nat, NEW n \in Nat, m < n
               PROVE  <<0 .. m, 0 .. n>> \in Order
    OBVIOUS
  <2>1. 0 .. m \subseteq 0 .. n /\ 0 .. n \subseteq Nat
        /\ n \in 0 .. n /\ n \notin 0 .. m
    OBVIOUS
  <2> HIDE DEF Order
  <2> QED BY <2>1 DEF StrictSubsetOrdering, Order
<1> HIDE DEF Order
<1>4. PICK X \in Below : \A Y \in Below : ~(<<Y, X>> \in Order)
  BY <1>1, <1>2, WFMin
<1>5. PICK x \in S : X = 0 .. x
  BY <1>4
<1>6. \A y \in S : ~(y < x)
  BY <1>3, <1>4, <1>5
<1>7. \E y \in S : \A j \in S : y <= j
  BY <1>5, <1>6
<1> QED BY <1>7 DEF First

LEMMA Sizes ==
  /\ INODE_TABLE_SIZE \in Nat \ {0} /\ DATA_BLOCKS \in Nat \ {0}
  /\ BLOCK_SIZE \in Nat \ {0} /\ MAX_DIR_ENTRIES \in Nat \ {0}
  /\ MAX_OPEN_FILES \in Nat /\ MaxTransfer \in Nat /\ MaxOffset \in Nat
  /\ NoName \notin Texts /\ Names \subseteq Texts /\ Garbled \in Texts
  /\ Inums \subseteq Nat /\ Blocks \subseteq Nat
  /\ Slots \subseteq Nat /\ Handles \subseteq Nat
  /\ ROOT_DIR_INUM \in Inums /\ RootBlock \in Blocks
BY LinksAssumption
   DEF LinksAssumption, Texts, Inums, Blocks, Slots, Handles, ROOT_DIR_INUM,
       RootBlock

LEMMA NextInumIsFree ==
  ASSUME Tables, CanCreateInode
  PROVE  NextInum \in Inums /\ freeinode_ts[NextInum] = FREE
<1>1. FreeOf(freeinode_ts) \subseteq Inums /\ FreeOf(freeinode_ts) # {}
  BY DEF Tables, CanCreateInode, FreeOf
<1>2. First(FreeOf(freeinode_ts)) \in FreeOf(freeinode_ts)
  BY <1>1, FirstIsLeast, Sizes
<1> QED BY <1>1, <1>2 DEF NextInum, FreeOf

LEMMA NextBlockIsFree ==
  ASSUME Tables, CanAllocBlock
  PROVE  NextBlock \in Blocks /\ free_blocks[NextBlock] = FREE
<1>1. FreeOf(free_blocks) \subseteq Blocks /\ FreeOf(free_blocks) # {}
  BY DEF Tables, CanAllocBlock, FreeOf
<1>2. First(FreeOf(free_blocks)) \in FreeOf(free_blocks)
  BY <1>1, FirstIsLeast, Sizes
<1> QED BY <1>1, <1>2 DEF NextBlock, FreeOf

\* find_in_dir answers with the inode of a used entry of that name.
LEMMA FoundEntry ==
  ASSUME NEW name, Listed(name)
  PROVE  /\ First(SlotsNamed(name)) \in SlotsNamed(name)
         /\ \A s \in SlotsNamed(name) : First(SlotsNamed(name)) <= s
BY FirstIsLeast, Sizes DEF Listed, SlotsNamed, SlotsUsed

\* It is an allocated inode.
LEMMA FoundIsAllocated ==
  ASSUME EntriesSound, NEW name, Listed(name)
  PROVE  /\ find_in_dir(name) \in Allocated
         /\ find_in_dir(name) \in Inums
         /\ freeinode_ts[find_in_dir(name)] = TAKEN
         /\ find_in_dir(name) # ROOT_DIR_INUM
         /\ name \in Texts
         /\ name = Garbled => Type(find_in_dir(name)) # "T_SYMLINK"
         /\ EntriesOf(find_in_dir(name)) # {}
<1>1. First(SlotsNamed(name)) \in SlotsNamed(name)
  BY FoundEntry
<1> QED BY <1>1 DEF EntriesSound, find_in_dir, SlotsNamed, SlotsUsed, Allocated,
                    EntriesOf

LEMMA EntriesAreFinite ==
  \A i : IsFiniteSet(EntriesOf(i)) /\ Cardinality(EntriesOf(i)) \in Nat
<1>1. IsFiniteSet(Slots)
  BY FS_Interval, LinksAssumption DEF Slots, LinksAssumption
<1> QED BY <1>1, FS_Subset, FS_CardinalityType DEF EntriesOf

LEMMA OpenEndsAreTexts ==
  ASSUME NEW name, NEW last \in OpenEnds(name)
  PROVE  /\ last \in Texts
         /\ last # Garbled => ~IsSymlink(last)
BY Sizes DEF OpenEnds, ChainFrom

-----------------------------------------------------------------------------
(* What add_dir_entry and clear_dir_entry do to the directory              *)

\* slot is the one add_dir_entry fills with name and inum.
Adds(slot, name, inum) ==
    /\ slot \in Slots \ SlotsUsed
    /\ \A s \in Slots \ SlotsUsed : slot <= s
    /\ dir_entries' =
          [dir_entries EXCEPT ![slot] = [d_name |-> name, d_inumber |-> inum]]

LEMMA AddFindsASlot ==
  ASSUME NEW name, NEW inum, SlotsUsed # Slots, add_dir_entry(name, inum)
  PROVE  \E slot \in Slots : Adds(slot, name, inum)
<1>1. Slots \ SlotsUsed # {} /\ Slots \ SlotsUsed \subseteq Nat
  BY Sizes DEF SlotsUsed
<1> QED BY <1>1, FirstIsLeast DEF add_dir_entry, Adds

LEMMA AddedEntry ==
  ASSUME Tables, StaleNamesLast, NEW name, NEW inum \in Inums,
         NEW slot \in Slots, Adds(slot, name, inum)
  PROVE  /\ SlotsUsed' = SlotsUsed \cup {slot}
         /\ dir_entries'[slot] = [d_name |-> name, d_inumber |-> inum]
         /\ \A s \in SlotsUsed : dir_entries'[s] = dir_entries[s]
         /\ StaleNamesLast'
         /\ \A i \in Inums \ {inum} : EntriesOf(i)' = EntriesOf(i)
         /\ EntriesOf(inum)' = EntriesOf(inum) \cup {slot}
         /\ Cardinality(EntriesOf(inum)') = Cardinality(EntriesOf(inum)) + 1
         /\ \A n : n # name => SlotsNamed(n)' = SlotsNamed(n)
         /\ SlotsNamed(name)' = SlotsNamed(name) \cup {slot}
<1> USE DEF Tables, Adds
<1>1. \A s \in Slots : s # slot => dir_entries'[s] = dir_entries[s]
  OBVIOUS
<1>2. dir_entries'[slot] = [d_name |-> name, d_inumber |-> inum]
  OBVIOUS
<1>3. inum # -1
  BY Sizes
<1>4. SlotsUsed' = SlotsUsed \cup {slot}
  BY <1>1, <1>2, <1>3 DEF SlotsUsed
<1>5. StaleNamesLast'
  <2> SUFFICES ASSUME NEW s \in SlotsUsed', NEW t \in Slots \ SlotsUsed',
                      dir_entries'[t].d_name # NoName
               PROVE  s < t
    BY DEF StaleNamesLast
  <2>1. t \in Slots \ SlotsUsed /\ t # slot /\ dir_entries'[t] = dir_entries[t]
    BY <1>1, <1>4
  <2>2. s \in SlotsUsed => s < t
    BY <2>1 DEF StaleNamesLast
  <2>3. s = slot => s < t
    BY <2>1, Sizes
  <2> QED BY <2>2, <2>3, <1>4
<1>6. \A i \in Inums \ {inum} : EntriesOf(i)' = EntriesOf(i)
  <2> SUFFICES ASSUME NEW i \in Inums \ {inum} PROVE EntriesOf(i)' = EntriesOf(i)
    OBVIOUS
  <2>1. dir_entries[slot].d_inumber = -1 /\ i # -1
    BY Sizes DEF SlotsUsed
  <2> QED BY <2>1, <1>1, <1>2 DEF EntriesOf
<1>7. EntriesOf(inum)' = EntriesOf(inum) \cup {slot}
  BY <1>1, <1>2 DEF EntriesOf
<1>8. Cardinality(EntriesOf(inum)') = Cardinality(EntriesOf(inum)) + 1
  <2>1. slot \notin EntriesOf(inum)
    BY <1>3 DEF EntriesOf, SlotsUsed
  <2>2. PICK entries : entries = EntriesOf(inum)
    OBVIOUS
  <2>3. IsFiniteSet(entries) /\ slot \notin entries
    BY <2>1, <2>2, EntriesAreFinite
  <2>4. Cardinality(entries \cup {slot}) = Cardinality(entries) + 1
    BY <2>3, FS_AddElement
  <2> QED BY <2>2, <2>4, <1>7
<1>9. \A n : n # name => SlotsNamed(n)' = SlotsNamed(n)
  <2> SUFFICES ASSUME NEW n, n # name PROVE SlotsNamed(n)' = SlotsNamed(n)
    OBVIOUS
  <2>1. slot \notin SlotsUsed /\ SlotsUsed \subseteq Slots
    BY DEF SlotsUsed
  <2> QED BY <2>1, <1>1, <1>2, <1>4 DEF SlotsNamed
<1>10. SlotsNamed(name)' = SlotsNamed(name) \cup {slot}
  <2>1. slot \notin SlotsUsed /\ SlotsUsed \subseteq Slots
    BY DEF SlotsUsed
  <2> QED BY <2>1, <1>1, <1>2, <1>4 DEF SlotsNamed
<1>11. \A s \in SlotsUsed : dir_entries'[s] = dir_entries[s]
  BY <1>1 DEF SlotsUsed
<1> QED BY <1>2, <1>4, <1>5, <1>6, <1>7, <1>8, <1>9, <1>10, <1>11

\* slot is the one clear_dir_entry clears.
Clears(slot, name) ==
    /\ slot \in SlotsNamed(name)
    /\ dir_entries[slot].d_inumber = find_in_dir(name)
    /\ dir_entries' = [dir_entries EXCEPT ![slot] = Unused]

\* The first entry that spells the name is the first used entry that does.
LEMMA ClearFindsTheEntry ==
  ASSUME StaleNamesLast, NEW name \in Texts, Listed(name), clear_dir_entry(name)
  PROVE  \E slot \in Slots : Clears(slot, name)
<1> DEFINE Spelling == {s \in Slots : dir_entries[s].d_name = name}
           found == First(SlotsNamed(name))
           cleared == First(Spelling)
<1>1. found \in SlotsNamed(name) /\ \A s \in SlotsNamed(name) : found <= s
  BY FoundEntry
<1>2. SlotsNamed(name) \subseteq Spelling /\ Spelling \subseteq Slots
  BY DEF SlotsNamed, SlotsUsed
<1>3. cleared \in Spelling /\ \A s \in Spelling : cleared <= s
  <2> HIDE DEF Spelling
  <2>1. Spelling # {} /\ Spelling \subseteq Nat
    BY <1>1, <1>2, Sizes
  <2> QED BY <2>1, FirstIsLeast
<1>4. cleared \in SlotsUsed
  <2> SUFFICES ASSUME cleared \notin SlotsUsed PROVE FALSE
    OBVIOUS
  <2>1. cleared \in Slots \ SlotsUsed /\ dir_entries[cleared].d_name # NoName
    BY <1>3, Sizes
  <2>2. found < cleared /\ cleared <= found
    <3>1. found \in SlotsUsed
      BY <1>1 DEF SlotsNamed
    <3> HIDE DEF found, cleared
    <3> QED BY <3>1, <2>1, <1>1, <1>2, <1>3 DEF StaleNamesLast
  <2>3. found \in Nat /\ cleared \in Nat
    <3> HIDE DEF found, cleared
    <3> QED BY <1>1, <1>2, <1>3, Sizes
  <2> HIDE DEF found, cleared
  <2> QED BY <2>2, <2>3
<1>5. cleared = found
  <2>1. cleared \in SlotsNamed(name)
    BY <1>3, <1>4 DEF SlotsNamed
  <2> HIDE DEF found, cleared, Spelling
  <2> QED BY <2>1, <1>1, <1>2, <1>3, Sizes
<1>6. clear_dir_entry(name) => dir_entries' = [dir_entries EXCEPT ![cleared] = Unused]
  BY DEF clear_dir_entry
<1>7. dir_entries[found].d_inumber = find_in_dir(name)
  BY DEF find_in_dir
<1>8. found \in Slots
  BY <1>1, <1>2
<1> HIDE DEF found, cleared
<1> QED BY <1>1, <1>5, <1>6, <1>7, <1>8 DEF Clears


LEMMA ClearedEntry ==
  ASSUME Tables, StaleNamesLast, NEW name, NEW inum \in Inums,
         inum = find_in_dir(name), NEW slot \in Slots, Clears(slot, name)
  PROVE  /\ SlotsUsed' = SlotsUsed \ {slot}
         /\ \A s \in SlotsUsed' : dir_entries'[s] = dir_entries[s]
         /\ StaleNamesLast'
         /\ \A i \in Inums \ {inum} : EntriesOf(i)' = EntriesOf(i)
         /\ EntriesOf(inum)' = EntriesOf(inum) \ {slot}
         /\ slot \in EntriesOf(inum)
         /\ Cardinality(EntriesOf(inum)') = Cardinality(EntriesOf(inum)) - 1
         /\ \A n : SlotsNamed(n)' = SlotsNamed(n) \ {slot}
<1> USE DEF Tables, Clears
<1>1. \A s \in Slots : s # slot => dir_entries'[s] = dir_entries[s]
  OBVIOUS
<1>2. dir_entries'[slot] = Unused
  OBVIOUS
<1>3. slot \in SlotsUsed /\ dir_entries[slot].d_inumber = inum
  BY DEF SlotsNamed
<1>4. SlotsUsed' = SlotsUsed \ {slot}
  BY <1>1, <1>2 DEF SlotsUsed, Unused
<1>5. StaleNamesLast'
  <2> SUFFICES ASSUME NEW s \in SlotsUsed', NEW t \in Slots \ SlotsUsed',
                      dir_entries'[t].d_name # NoName
               PROVE  s < t
    BY DEF StaleNamesLast
  <2>1. t \in Slots /\ t # slot
    BY <1>2 DEF Unused
  <2>2. t \notin SlotsUsed /\ dir_entries'[t] = dir_entries[t] /\ s \in SlotsUsed
    BY <2>1, <1>1, <1>4
  <2> QED BY <2>1, <2>2 DEF StaleNamesLast
<1>6. \A i \in Inums \ {inum} : EntriesOf(i)' = EntriesOf(i)
  <2> SUFFICES ASSUME NEW i \in Inums \ {inum} PROVE EntriesOf(i)' = EntriesOf(i)
    OBVIOUS
  <2>1. i # -1
    BY Sizes
  <2> QED BY <2>1, <1>1, <1>2, <1>3 DEF EntriesOf, Unused
<1>7. EntriesOf(inum)' = EntriesOf(inum) \ {slot}
  <2>1. inum # -1
    BY Sizes
  <2> QED BY <2>1, <1>1, <1>2 DEF EntriesOf, Unused
<1>8. slot \in EntriesOf(inum)
  BY <1>3 DEF EntriesOf
<1>9. Cardinality(EntriesOf(inum)') = Cardinality(EntriesOf(inum)) - 1
  <2>1. PICK entries : entries = EntriesOf(inum)
    OBVIOUS
  <2>2. IsFiniteSet(entries) /\ slot \in entries
    BY <2>1, <1>8, EntriesAreFinite
  <2>3. Cardinality(entries \ {slot}) = Cardinality(entries) - 1
    BY <2>2, FS_RemoveElement
  <2> QED BY <2>1, <2>3, <1>7
<1>10. \A n : SlotsNamed(n)' = SlotsNamed(n) \ {slot}
  BY <1>1, <1>4 DEF SlotsNamed, SlotsUsed
<1>11. \A s \in SlotsUsed' : dir_entries'[s] = dir_entries[s]
  BY <1>1, <1>4 DEF SlotsUsed
<1> QED BY <1>4, <1>5, <1>6, <1>7, <1>8, <1>9, <1>10, <1>11

-----------------------------------------------------------------------------
(* Outside a mount                                                         *)

\* What Init sets and TablesGone sets again.
Blank ==
    /\ status \in {"unmounted", "aborted"}
    /\ inode_table = [i \in Inums |-> NewInode("T_FILE")]
    /\ freeinode_ts = [i \in Inums |-> FREE]
    /\ dir_entries = [s \in Slots |-> Unused]
    /\ text = [b \in Blocks |-> Garbled]
    /\ free_blocks = [b \in Blocks |-> FREE]
    /\ open_file_table = [h \in Handles |-> Closed]
    /\ copying = -1
    /\ lapses = {}

\* No link leads anywhere in an empty directory.
LEMMA NothingListed == SlotsUsed = {} => LinksLeave
<1> SUFFICES ASSUME SlotsUsed = {} PROVE LinksLeave
  OBVIOUS
<1>1. \A n : ~IsSymlink(n)
  BY DEF IsSymlink, Listed, SlotsNamed
<1> QED BY <1>1 DEF LinksLeave

LEMMA BlankIsSound == Blank => Inv
<1> SUFFICES ASSUME Blank PROVE Inv
  OBVIOUS
<1>1. SlotsUsed = {}
  BY DEF Blank, SlotsUsed, Unused
<1>2. Allocated = {} /\ Owners = {}
  BY DEF Blank, Allocated, Owners, FREE, TAKEN
<1>3. Tables
  <2>1. NewInode("T_FILE") \in InodeType
    BY Sizes DEF NewInode
  <2>2. Closed \in HandleType
    BY DEF Closed
  <2>3. Unused \in EntryType
    BY DEF Unused
  <2> QED BY <2>1, <2>2, <2>3, Sizes DEF Blank, Tables
<1>4. StaleNamesLast /\ EntriesSound /\ NamesOnce
  BY <1>1 DEF StaleNamesLast, EntriesSound, NamesOnce
<1>5. CountersSound
  BY <1>2 DEF CountersSound
<1>6. BlocksSound
  <2>1. \A i \in Inums : Size(i) = 0
    BY DEF Blank, Size, NewInode
  <2> QED BY <2>1, <1>2 DEF Blank, BlocksSound, FREE, TAKEN
<1>7. HandlesSound
  BY DEF Blank, HandlesSound, IsOpen
<1>8. LinksEndSound
  BY <1>1, NothingListed DEF LinksEndSound
<1>9. Rooted /\ CopyOpen
  BY DEF Blank, Rooted, CopyOpen
<1> QED BY <1>3, <1>4, <1>5, <1>6, <1>7, <1>8, <1>9 DEF Inv, Sound, Blank

LEMMA GoneIsSound ==
  ASSUME TablesGone, status' \in {"unmounted", "aborted"}
  PROVE  Inv'
<1>1. Blank'
  BY DEF TablesGone, Blank
<1> QED BY <1>1, BlankIsSound, PTL

LEMMA InitMounts ==
  ASSUME Inv, tfs_init
  PROVE  Inv'
<1> USE DEF tfs_init, callVars
<1>1. /\ Tables /\ HandlesSound /\ CopyOpen
      /\ \A i \in Inums : freeinode_ts[i] = FREE
      /\ \A bnum \in Blocks : free_blocks[bnum] = FREE
  BY DEF Inv, Sound, Rooted
<1>2. Tables'
  <2>1. dir_entries' \in [Slots -> EntryType]
    <3>1. (Names \ LongNames) \cup {NoName} \subseteq Texts \cup {NoName}
      BY Sizes
    <3> QED BY <3>1 DEF BlankDirectories
  <2>2. [i_node_type |-> "T_DIRECTORY", i_size |-> BLOCK_SIZE,
         i_data_block |-> RootBlock, i_link_counter |-> 1] \in InodeType
    BY Sizes
  <2> QED BY <1>1, <2>1, <2>2, Sizes DEF Tables, Take
<1>3. /\ freeinode_ts'[ROOT_DIR_INUM] = TAKEN
      /\ \A i \in Inums \ {ROOT_DIR_INUM} : freeinode_ts'[i] = FREE
  BY <1>1, Sizes DEF Tables, Take
<1>4. Allocated' = {} /\ Owners' = {ROOT_DIR_INUM}
  <2>1. Allocated' = {}
    BY <1>3 DEF Allocated, FREE, TAKEN
  <2>2. Size(ROOT_DIR_INUM)' > 0
    BY <1>1, Sizes DEF Tables, Size, ROOT_DIR_INUM
  <2> QED BY <1>3, <2>1, <2>2, Sizes DEF Owners, FREE, TAKEN, ROOT_DIR_INUM
<1>5. SlotsUsed' = {}
  BY DEF SlotsUsed, BlankDirectories
<1>6. StaleNamesLast' /\ EntriesSound' /\ NamesOnce'
  BY <1>5 DEF StaleNamesLast, EntriesSound, NamesOnce
<1>7. CountersSound'
  BY <1>4 DEF CountersSound
<1>8. BlocksSound'
  <2>1. Data(ROOT_DIR_INUM)' = RootBlock
    BY <1>1, Sizes DEF Tables, Data, ROOT_DIR_INUM
  <2>2. /\ free_blocks'[RootBlock] = TAKEN
        /\ \A bnum \in Blocks \ {RootBlock} : free_blocks'[bnum] = FREE
    BY <1>1, Sizes DEF Tables, Take
  <2>3. \A i \in Inums : Size(i)' > 0 => Data(i)' \in Blocks
    <3>1. \A i \in Inums : Size(i) > 0 => Data(i) \in Blocks
      BY DEF Inv, Sound, BlocksSound
    <3>2. \A i \in Inums \ {ROOT_DIR_INUM} : inode_table'[i] = inode_table[i]
      BY <1>1 DEF Tables
    <3> QED BY <2>1, <3>1, <3>2, Sizes DEF Size, Data
  <2>4. \A i \in Owners' : i = ROOT_DIR_INUM
    BY <1>4
  <2>5. \A bnum \in Blocks : free_blocks'[bnum] = TAKEN => bnum = RootBlock
    BY <2>2 DEF FREE, TAKEN
  <2>6. \A bnum \in Blocks : free_blocks'[bnum] = TAKEN =>
            \E i \in Owners' : Data(i)' = bnum
    BY <2>1, <2>5, <1>4
  <2>7. \A i \in Owners' : free_blocks'[Data(i)'] = TAKEN
    <3> SUFFICES ASSUME NEW i \in Owners' PROVE free_blocks'[Data(i)'] = TAKEN
      OBVIOUS
    <3>1. i = ROOT_DIR_INUM
      BY <2>4
    <3> QED BY <3>1, <2>1, <2>2
  <2>8. \A i, j \in Owners' : i # j => Data(i)' # Data(j)'
    BY <2>4
  <2> QED BY <2>3, <2>6, <2>7, <2>8 DEF BlocksSound
<1>9. HandlesSound'
  <2> SUFFICES ASSUME NEW h \in Handles, IsOpen(h)'
               PROVE  /\ InumOf(h)' \in Inums
                      /\ "orphaned" \notin lapses' =>
                            /\ InumOf(h)' \in Allocated'
                            /\ Type(InumOf(h))' # "T_SYMLINK"
    BY DEF HandlesSound
  <2>1. IsOpen(h) /\ InumOf(h)' = InumOf(h)
    BY DEF IsOpen, InumOf
  <2>2. Allocated = {}
    BY <1>1 DEF Allocated, FREE, TAKEN
  <2> QED BY <2>1, <2>2, <1>1 DEF HandlesSound
<1>10. LinksEndSound'
  <2>1. (SlotsUsed = {})' => LinksLeave'
    BY NothingListed, PTL
  <2> QED BY <2>1, <1>5 DEF LinksEndSound
<1>11. Rooted' /\ CopyOpen'
  BY <1>1, <1>3 DEF Rooted, CopyOpen
<1> QED BY <1>2, <1>6, <1>7, <1>8, <1>9, <1>10, <1>11 DEF Inv, Sound

-----------------------------------------------------------------------------
(* What stays true of the directory                                        *)

\* A step that makes no link and turns none elsewhere.
LEMMA LinksKept ==
  ASSUME LinksLeave,
         \A n \in Texts : IsSymlink(n)' => IsSymlink(n) /\ TargetOf(n)' = TargetOf(n)
  PROVE  LinksLeave'
<1> SUFFICES ASSUME NEW C \in SUBSET Texts, C # {}
             PROVE  \E n \in C : IsSymlink(n)' => TargetOf(n)' \notin C
  BY DEF LinksLeave
<1>1. PICK n \in C : IsSymlink(n) => TargetOf(n) \notin C
  BY DEF LinksLeave
<1> QED BY <1>1

LEMMA SameDirectory ==
  ASSUME StaleNamesLast, EntriesSound, NamesOnce, dir_entries' = dir_entries,
         lapses \subseteq lapses',
         \A i \in Allocated : i \in Allocated' /\ Type(i)' = Type(i)
  PROVE  /\ StaleNamesLast' /\ EntriesSound' /\ NamesOnce'
         /\ SlotsUsed' = SlotsUsed
         /\ \A i : EntriesOf(i)' = EntriesOf(i)
<1>1. SlotsUsed' = SlotsUsed /\ \A i : EntriesOf(i)' = EntriesOf(i)
  BY DEF SlotsUsed, EntriesOf
<1>2. StaleNamesLast' /\ NamesOnce'
  BY <1>1 DEF StaleNamesLast, NamesOnce
<1>3. EntriesSound'
  <2> SUFFICES ASSUME NEW s \in SlotsUsed
               PROVE  (/\ dir_entries[s].d_name \in Texts
                       /\ dir_entries[s].d_inumber \in Allocated
                       /\ dir_entries[s].d_name = Garbled =>
                             Type(dir_entries[s].d_inumber) # "T_SYMLINK")'
    BY <1>1 DEF EntriesSound
  <2>1. PICK i \in Allocated : i = dir_entries[s].d_inumber
    BY DEF EntriesSound
  <2>2. Type(i)' = Type(i) /\ i \in Allocated'
    OBVIOUS
  <2> QED BY <2>1, <2>2 DEF EntriesSound, Type
<1> QED BY <1>1, <1>2, <1>3

\* A name that is a link now was listed with the same inode before, and the
\* links in use spell the same path.
LEMMA LinksEndKept ==
  ASSUME EntriesSound, LinksEndSound, lapses \subseteq lapses',
         {"relinked", "orphaned"} \cap lapses' = {} =>
           /\ \A n \in Texts : IsSymlink(n)' =>
                Listed(n) /\ find_in_dir(n)' = find_in_dir(n)
           /\ \A i \in Allocated : EntriesOf(i) # {} /\ Type(i)' = "T_SYMLINK" =>
                /\ Type(i) = "T_SYMLINK"
                /\ Data(i)' = Data(i) /\ text'[Data(i)] = text[Data(i)]
  PROVE  LinksEndSound'
<1> SUFFICES ASSUME {"relinked", "orphaned", "misread"} \cap lapses' = {}
             PROVE  LinksLeave'
  BY DEF LinksEndSound
<1>1. LinksLeave
  BY DEF LinksEndSound
<1>2. \A n \in Texts : IsSymlink(n)' => IsSymlink(n) /\ TargetOf(n)' = TargetOf(n)
  <2> SUFFICES ASSUME NEW n \in Texts, IsSymlink(n)'
               PROVE  IsSymlink(n) /\ TargetOf(n)' = TargetOf(n)
    OBVIOUS
  <2>1. Listed(n) /\ find_in_dir(n)' = find_in_dir(n)
    OBVIOUS
  <2>2. PICK i \in Allocated : i = find_in_dir(n) /\ EntriesOf(i) # {}
    BY <2>1, FoundIsAllocated
  <2>3. Type(i)' = "T_SYMLINK"
    BY <2>1, <2>2 DEF IsSymlink, Type
  <2>4. /\ Type(i) = "T_SYMLINK"
        /\ Data(i)' = Data(i) /\ text'[Data(i)] = text[Data(i)]
    BY <2>2, <2>3
  <2>5. TargetOf(n) = text[Data(i)] /\ TargetOf(n)' = text'[Data(i)']
    BY <2>1, <2>2 DEF TargetOf, Data
  <2> QED BY <2>1, <2>2, <2>4, <2>5 DEF IsSymlink, Type
<1> QED BY <1>1, <1>2, LinksKept

LEMMA SameLinks ==
  ASSUME EntriesSound, LinksEndSound, dir_entries' = dir_entries,
         lapses \subseteq lapses',
         {"relinked", "orphaned"} \cap lapses' = {} =>
           \A i \in Allocated :
             /\ Type(i)' = Type(i)
             /\ Type(i) = "T_SYMLINK" /\ EntriesOf(i) # {} =>
                  Data(i)' = Data(i) /\ text'[Data(i)] = text[Data(i)]
  PROVE  LinksEndSound'
<1>1. \A n \in Texts : IsSymlink(n)' =>
         Listed(n) /\ find_in_dir(n)' = find_in_dir(n)
  BY DEF IsSymlink, Listed, SlotsNamed, SlotsUsed, find_in_dir
<1> QED BY <1>1, LinksEndKept

-----------------------------------------------------------------------------
(* Handles: tfs_close, tfs_read, CopyEnds                                  *)

\* Only the table of open files changes, and no handle is opened.
LEMMA SameTables ==
  ASSUME Sound, UNCHANGED <<inodeVars, dir_entries, blockVars, lapses>>,
         open_file_table' \in [Handles -> HandleType],
         \A h \in Handles : IsOpen(h)' => IsOpen(h) /\ InumOf(h)' = InumOf(h)
  PROVE  Sound'
<1> USE DEF inodeVars, blockVars
<1>1. Tables'
  BY DEF Sound, Tables
<1>2. Allocated' = Allocated /\ \A i : Type(i)' = Type(i)
  BY DEF Allocated, Type
<1>3. StaleNamesLast' /\ EntriesSound' /\ NamesOnce'
  BY <1>2, SameDirectory DEF Sound
<1>4. CountersSound'
  BY DEF Sound, CountersSound, Allocated, EntriesOf, Type, Counter, Size
<1>5. BlocksSound'
  BY DEF Sound, BlocksSound, Owners, Size, Data
<1>6. HandlesSound'
  BY <1>2 DEF Sound, HandlesSound
<1>7. LinksEndSound'
  <2>1. \A i : Data(i)' = Data(i)
    BY DEF Data
  <2> QED BY <1>2, <2>1, SameLinks DEF Sound
<1> QED BY <1>1, <1>3, <1>4, <1>5, <1>6, <1>7 DEF Sound

LEMMA RemovedHandle ==
  ASSUME Tables, NEW h \in Handles, remove_from_open_file_table(h)
  PROVE  /\ open_file_table' \in [Handles -> HandleType]
         /\ ~IsOpen(h)'
         /\ \A j \in Handles :
              IsOpen(j)' => IsOpen(j) /\ InumOf(j)' = InumOf(j)
<1>1. Closed \in HandleType
  BY DEF Closed
<1> QED BY <1>1 DEF Tables, remove_from_open_file_table, IsOpen, InumOf

LEMMA CloseKeeps ==
  ASSUME Inv, NEW h \in Handles, tfs_close(h)
  PROVE  Inv'
<1> USE DEF tfs_close, callVars
<1>1. Sound'
  BY RemovedHandle, SameTables DEF Inv, Sound
<1>2. Rooted' /\ CopyOpen'
  BY DEF Inv, Rooted, CopyOpen, inodeVars, blockVars
<1> QED BY <1>1, <1>2 DEF Inv

LEMMA CopyEndsKeeps ==
  ASSUME Inv, CopyEnds
  PROVE  Inv'
<1> USE DEF CopyEnds, inodeVars, blockVars
<1>1. copying \in Handles
  BY DEF Inv, CopyOpen
<1>2. Sound'
  BY <1>1, RemovedHandle, SameTables DEF Inv, Sound
<1>3. Rooted' /\ CopyOpen'
  BY DEF Inv, Rooted, CopyOpen
<1> QED BY <1>2, <1>3 DEF Inv

LEMMA ReadKeeps ==
  ASSUME Inv, NEW h \in Handles, NEW len \in 1 .. MaxTransfer, tfs_read(h, len)
  PROVE  Inv'
<1> USE DEF tfs_read, callVars
<1>1. Tables /\ IsOpen(h) /\ InumOf(h) \in Inums
  BY DEF Inv, Sound, HandlesSound
<1>2. OffsetOf(h) + ToRead(h, len) \in Nat
  <2>1. OffsetOf(h) \in Nat /\ SizeOf(h) \in Nat /\ len \in Nat
    BY <1>1, Sizes DEF Tables, OffsetOf, SizeOf
  <2> QED BY <2>1 DEF ToRead, Least
<1>3. /\ open_file_table' \in [Handles -> HandleType]
      /\ \A j \in Handles :
            open_file_table'[j].of_inumber = open_file_table[j].of_inumber
      /\ \A j \in Handles : j # h => open_file_table'[j] = open_file_table[j]
  BY <1>1, <1>2 DEF Tables
<1>4. \A j \in Handles : IsOpen(j)' => IsOpen(j) /\ InumOf(j)' = InumOf(j)
  BY <1>1, <1>3 DEF IsOpen, InumOf
<1>5. Sound'
  BY <1>3, <1>4, SameTables DEF Inv, Sound
<1>6. Rooted' /\ CopyOpen'
  BY DEF Inv, Rooted, CopyOpen, inodeVars, blockVars
<1> QED BY <1>5, <1>6 DEF Inv

-----------------------------------------------------------------------------
(* tfs_open                                                                *)

LEMMA OpenedHandle ==
  ASSUME Tables, NEW inum \in Inums, NEW offset \in Nat,
         add_to_open_file_table(inum, offset)
  PROVE  /\ open_file_table' \in [Handles -> HandleType]
         /\ \A h \in Handles : IsOpen(h)' =>
               (IsOpen(h) /\ InumOf(h)' = InumOf(h)) \/ InumOf(h)' = inum
         /\ FreeHandles # {} =>
               \A h : h = First(FreeHandles) => h \in Handles /\ IsOpen(h)'
<1>1. CASE FreeHandles = {}
  BY <1>1 DEF add_to_open_file_table, Tables, IsOpen, InumOf
<1>2. CASE FreeHandles # {}
  <2>1. First(FreeHandles) \in Handles
    BY <1>2, FirstIsLeast, Sizes DEF FreeHandles
  <2>2. PICK h \in Handles : h = First(FreeHandles)
    BY <2>1
  <2>3. open_file_table' = [open_file_table EXCEPT ![h] =
          [of_inumber |-> inum, of_offset |-> offset]]
    BY <1>2, <2>2 DEF add_to_open_file_table
  <2>4. inum # -1
    BY Sizes
  <2>5. open_file_table'[h] = [of_inumber |-> inum, of_offset |-> offset]
    BY <2>3 DEF Tables
  <2>6. IsOpen(h)' /\ InumOf(h)' = inum
    <3>1. open_file_table'[h].of_inumber = inum /\ Closed.of_inumber = -1
      BY <2>5 DEF Closed
    <3> QED BY <3>1, <2>4 DEF IsOpen, InumOf
  <2>7. \A j \in Handles : j # h => open_file_table'[j] = open_file_table[j]
    BY <2>3 DEF Tables
  <2>8. open_file_table' \in [Handles -> HandleType]
    BY <2>3 DEF Tables
  <2>9. \A j \in Handles : IsOpen(j)' =>
           (IsOpen(j) /\ InumOf(j)' = InumOf(j)) \/ InumOf(j)' = inum
    BY <2>6, <2>7 DEF IsOpen, InumOf
  <2> QED BY <2>2, <2>6, <2>8, <2>9
<1> QED BY <1>1, <1>2

\* The handles in use still name what they named, or what was opened.
LEMMA HandlesStaySound ==
  ASSUME HandlesSound, NEW inum \in Inums,
         \A h \in Handles : IsOpen(h)' =>
               (IsOpen(h) /\ InumOf(h)' = InumOf(h)) \/ InumOf(h)' = inum,
         inum \in Allocated', Type(inum)' # "T_SYMLINK",
         lapses \subseteq lapses',
         \A i \in Allocated : i \in Allocated' /\ Type(i)' = Type(i)
  PROVE  HandlesSound'
<1> SUFFICES ASSUME NEW h \in Handles, IsOpen(h)'
             PROVE  (/\ InumOf(h) \in Inums
                     /\ "orphaned" \notin lapses =>
                           /\ InumOf(h) \in Allocated
                           /\ Type(InumOf(h)) # "T_SYMLINK")'
  BY DEF HandlesSound
<1>1. CASE InumOf(h)' = inum
  BY <1>1 DEF Type
<1>2. CASE IsOpen(h) /\ InumOf(h)' = InumOf(h)
  <2>1. PICK i \in Inums : i = InumOf(h)
    BY <1>2 DEF HandlesSound
  <2>2. "orphaned" \notin lapses' => i \in Allocated /\ Type(i) # "T_SYMLINK"
    BY <1>2, <2>1 DEF HandlesSound
  <2> QED BY <1>2, <2>1, <2>2 DEF Type
<1> QED BY <1>1, <1>2

\* What OpenExisting does for the inode inum it finds
OpensInum(inum, trunc, append) ==
    /\ inum \in Allocated /\ Type(inum) # "T_SYMLINK"
    /\ inode_table' =
          [inode_table EXCEPT ![inum].i_size = SizeAfterOpen(inum, trunc)]
    /\ free_blocks' = IF trunc THEN BlocksWithoutDataOf(inum) ELSE free_blocks
    /\ add_to_open_file_table(inum, IF append THEN SizeAfterOpen(inum, trunc)
                                    ELSE 0)
    /\ UNCHANGED <<freeinode_ts, dir_entries, text, lapses>>

\* It is never a symbolic link.
LEMMA OpenFindsAFile ==
  ASSUME Sound, NEW name, NEW trunc, NEW append, OpenExisting(name, trunc, append)
  PROVE  \E inum \in Inums : OpensInum(inum, trunc, append)
<1>1. PICK last \in OpenEnds(name) :
        /\ Listed(last)
        /\ inode_table' = [inode_table EXCEPT ![find_in_dir(last)].i_size =
                              SizeAfterOpen(find_in_dir(last), trunc)]
        /\ free_blocks' = IF trunc THEN BlocksWithoutDataOf(find_in_dir(last))
                          ELSE free_blocks
        /\ add_to_open_file_table(find_in_dir(last),
              IF append THEN SizeAfterOpen(find_in_dir(last), trunc) ELSE 0)
  BY DEF OpenExisting
<1>2. find_in_dir(last) \in Allocated /\ find_in_dir(last) \in Inums
  BY <1>1, FoundIsAllocated DEF Sound
<1>3. Type(find_in_dir(last)) # "T_SYMLINK"
  <2>1. CASE last = Garbled
    BY <2>1, <1>1, FoundIsAllocated DEF Sound
  <2>2. CASE last # Garbled
    BY <2>2, <1>1, OpenEndsAreTexts DEF IsSymlink, Type
  <2> QED BY <2>1, <2>2
<1>4. UNCHANGED <<freeinode_ts, dir_entries, text, lapses>>
  BY DEF OpenExisting
<1> QED BY <1>1, <1>2, <1>3, <1>4 DEF OpensInum

\* The block of inum is given back, and nobody else's is.
LEMMA DataGivenBack ==
  ASSUME Tables, BlocksSound, NEW inum \in Inums, freeinode_ts[inum] = TAKEN,
         Owners' = Owners \ {inum}, free_blocks' = BlocksWithoutDataOf(inum),
         \A i \in Inums : /\ Size(i)' > 0 => Size(i) > 0
                          /\ Data(i)' = Data(i),
         lapses \subseteq lapses'
  PROVE  BlocksSound'
<1>1. \A i \in Inums : Size(i)' > 0 => Data(i)' \in Blocks
  BY DEF BlocksSound
<1>2. \A i \in Owners : i \in Inums /\ Data(i)' = Data(i) /\ Data(i) \in Blocks
  BY DEF Owners, BlocksSound
<1>3. \A i, j \in Owners' : i # j => Data(i)' # Data(j)'
  BY <1>2 DEF BlocksSound
<1>4. CASE Size(inum) > 0
  <2>1. inum \in Owners /\ Data(inum) \in Blocks
    BY <1>4 DEF Owners, BlocksSound
  <2>2. free_blocks' = [free_blocks EXCEPT ![Data(inum)] = FREE]
    BY <1>4 DEF BlocksWithoutDataOf, Release, Size, Data
  <2>3. \A i \in Owners' : free_blocks'[Data(i)'] = TAKEN
    <3> SUFFICES ASSUME NEW i \in Owners' PROVE free_blocks'[Data(i)'] = TAKEN
      OBVIOUS
    <3>1. i \in Owners /\ i # inum /\ Data(i)' = Data(i) /\ Data(i) \in Blocks
      BY <1>2
    <3>2. Data(i) # Data(inum) /\ free_blocks[Data(i)] = TAKEN
      BY <2>1, <3>1 DEF BlocksSound
    <3> QED BY <3>1, <3>2, <2>2 DEF Tables
  <2>4. ASSUME {"spilled", "orphaned"} \cap lapses' = {},
               NEW bnum \in Blocks, free_blocks'[bnum] = TAKEN
        PROVE  \E i \in Owners' : Data(i)' = bnum
    <3>1. bnum # Data(inum) /\ free_blocks[bnum] = TAKEN
      BY <2>1, <2>2, <2>4 DEF Tables, FREE, TAKEN
    <3>2. PICK i \in Owners : Data(i) = bnum
      BY <3>1, <2>4 DEF BlocksSound
    <3> QED BY <3>1, <3>2, <1>2
  <2> QED BY <1>1, <1>3, <2>3, <2>4 DEF BlocksSound
<1>5. CASE ~(Size(inum) > 0)
  <2>1. free_blocks' = free_blocks /\ Owners' = Owners
    BY <1>5 DEF BlocksWithoutDataOf, Size, Owners
  <2> QED BY <2>1, <1>1, <1>2, <1>3 DEF BlocksSound
<1> QED BY <1>4, <1>5

LEMMA OpenExistingKeeps ==
  ASSUME Sound, NEW inum \in Inums, NEW trunc \in BOOLEAN, NEW append \in BOOLEAN,
         OpensInum(inum, trunc, append)
  PROVE  Sound'
<1> USE DEF OpensInum
<1>1. Tables
  BY DEF Sound
<1>2. SizeAfterOpen(inum, trunc) \in 0 .. BLOCK_SIZE
  BY <1>1, Sizes DEF SizeAfterOpen, Tables
<1>3. /\ Size(inum)' = SizeAfterOpen(inum, trunc)
      /\ \A i \in Inums \ {inum} : inode_table'[i] = inode_table[i]
      /\ \A i \in Inums : /\ Type(i)' = Type(i) /\ Data(i)' = Data(i)
                          /\ Counter(i)' = Counter(i)
  BY <1>1 DEF Tables, Size, Type, Data, Counter
<1>4. \A i \in Inums \ {inum} : Size(i)' = Size(i)
  BY <1>3 DEF Size
<1>5. Allocated' = Allocated /\ Allocated \subseteq Inums
  BY DEF Allocated
<1>6. StaleNamesLast' /\ EntriesSound' /\ NamesOnce' /\ \A i : EntriesOf(i)' = EntriesOf(i)
  BY <1>3, <1>5, SameDirectory DEF Sound
<1>7. CountersSound'
  BY <1>3, <1>4, <1>5, <1>6 DEF Sound, CountersSound
<1>8. Tables'
  <2>1. free_blocks' \in [Blocks -> {FREE, TAKEN}]
    BY <1>1 DEF Tables, BlocksWithoutDataOf, Release
  <2>2. inode_table' \in [Inums -> InodeType]
    BY <1>1, <1>2, SMTT(40) DEF Tables
  <2>3. open_file_table' \in [Handles -> HandleType]
    BY <1>1, <1>2, Sizes, OpenedHandle
  <2> QED BY <1>1, <2>1, <2>2, <2>3 DEF Tables
<1>9. HandlesSound'
  <2>1. \A h \in Handles : IsOpen(h)' =>
           (IsOpen(h) /\ InumOf(h)' = InumOf(h)) \/ InumOf(h)' = inum
    BY <1>1, <1>2, Sizes, OpenedHandle
  <2> QED BY <2>1, <1>3, <1>5, HandlesStaySound DEF Sound
<1>10. LinksEndSound'
  BY <1>3, <1>5, SameLinks DEF Sound
<1>11. BlocksSound'
  <2>1. CASE ~trunc
    <3>1. \A i \in Inums : Size(i)' = Size(i) /\ Data(i)' = Data(i)
      BY <2>1, <1>3, <1>4 DEF SizeAfterOpen, Size
    <3>2. Owners' = Owners
      BY <3>1 DEF Owners
    <3> QED BY <3>1, <3>2, <2>1 DEF Sound, BlocksSound, Owners
  <2>2. CASE trunc
    <3>1. Size(inum)' = 0 /\ freeinode_ts[inum] = TAKEN
      BY <2>2, <1>3 DEF SizeAfterOpen, Allocated
    <3>2. Owners' = Owners \ {inum}
      BY <3>1, <1>4 DEF Owners
    <3>3. \A i \in Inums : /\ Size(i)' > 0 => Size(i) > 0
                           /\ Data(i)' = Data(i)
      BY <3>1, <1>3, <1>4
    <3> QED BY <2>2, <3>1, <3>2, <3>3, <1>1, DataGivenBack DEF Sound
  <2> QED BY <2>1, <2>2
<1> QED BY <1>6, <1>7, <1>8, <1>9, <1>10, <1>11 DEF Sound

-----------------------------------------------------------------------------
(* A new inode                                                             *)

\* inode_create resets the free inode n, and it is used for the first time.
Creates(n, inode) ==
    /\ n \in Inums \ {ROOT_DIR_INUM} /\ freeinode_ts[n] = FREE
    /\ freeinode_ts' = Take(freeinode_ts, n)
    /\ inode_table' = [inode_table EXCEPT ![n] = inode]

LEMMA CreatedInode ==
  ASSUME Tables, NEW n, NEW inode, Creates(n, inode)
  PROVE  /\ Allocated' = Allocated \cup {n} /\ n \notin Allocated
         /\ inode_table'[n] = inode
         /\ \A i \in Inums \ {n} : inode_table'[i] = inode_table[i]
         /\ \A i \in Allocated :
              /\ i \in Allocated' /\ i \in Inums \ {n}
              /\ Type(i)' = Type(i) /\ Counter(i)' = Counter(i)
              /\ Size(i)' = Size(i) /\ Data(i)' = Data(i)
<1> USE DEF Creates
<1>1. /\ inode_table'[n] = inode
      /\ \A i \in Inums \ {n} : inode_table'[i] = inode_table[i]
  BY DEF Tables
<1>2. Allocated' = Allocated \cup {n} /\ n \notin Allocated
  BY DEF Tables, Take, Allocated, FREE, TAKEN
<1>3. \A i \in Allocated : i \in Inums \ {n}
  BY <1>2 DEF Allocated
<1> QED BY <1>1, <1>2, <1>3 DEF Type, Counter, Size, Data

\* No entry names an inode that is free.
LEMMA FreeHasNoEntries ==
  ASSUME EntriesSound, NEW i \in Inums \ Allocated
  PROVE  EntriesOf(i) = {} /\ Cardinality(EntriesOf(i)) = 0
<1>1. EntriesOf(i) = {}
  <2>1. i # -1
    BY Sizes
  <2>2. \A s \in Slots : dir_entries[s].d_inumber = i => s \in SlotsUsed
    BY <2>1 DEF SlotsUsed
  <2> QED BY <2>2 DEF EntriesSound, EntriesOf
<1> QED BY <1>1, FS_EmptySet

LEMMA CreatedCounters ==
  ASSUME Tables, CountersSound, NEW n, NEW inode, Creates(n, inode),
         inode.i_link_counter = 1, lapses \subseteq lapses',
         \A i \in Inums \ {n} : EntriesOf(i)' = EntriesOf(i),
         Cardinality(EntriesOf(n)') \in {0, 1},
         "spilled" \notin lapses' =>
            Cardinality(EntriesOf(n)') = 1 /\ EntriesOf(n)' # {},
         EntriesOf(n)' # {} /\ inode.i_node_type = "T_SYMLINK" => inode.i_size > 0
  PROVE  CountersSound'
<1>1. /\ Allocated' = Allocated \cup {n}
      /\ inode_table'[n] = inode
      /\ \A i \in Allocated :
              /\ i \in Inums \ {n}
              /\ Type(i)' = Type(i) /\ Counter(i)' = Counter(i)
              /\ Size(i)' = Size(i)
  BY CreatedInode
<1>2. Type(n)' = inode.i_node_type /\ Size(n)' = inode.i_size
      /\ Counter(n)' = 1
  BY <1>1 DEF Type, Size, Counter
<1> SUFFICES ASSUME NEW i \in Allocated \cup {n}
             PROVE  (/\ Cardinality(EntriesOf(i)) <= Counter(i)
                     /\ Type(i) = "T_SYMLINK" =>
                          Counter(i) = 1 /\ (EntriesOf(i) # {} => Size(i) > 0)
                     /\ "spilled" \notin lapses =>
                          Counter(i) = Cardinality(EntriesOf(i))
                          /\ EntriesOf(i) # {})'
  BY <1>1 DEF CountersSound
<1>3. CASE i = n
  BY <1>2, <1>3
<1>4. CASE i \in Allocated
  BY <1>1, <1>4 DEF CountersSound
<1> QED BY <1>3, <1>4

\* Handles are left alone, and so is every inode in use.
LEMMA HandlesUntouched ==
  ASSUME HandlesSound, open_file_table' = open_file_table,
         lapses \subseteq lapses',
         \A i \in Allocated : i \in Allocated' /\ Type(i)' = Type(i)
  PROVE  HandlesSound'
<1> SUFFICES ASSUME NEW h \in Handles, IsOpen(h)'
             PROVE  (/\ InumOf(h) \in Inums
                     /\ "orphaned" \notin lapses =>
                           /\ InumOf(h) \in Allocated
                           /\ Type(InumOf(h)) # "T_SYMLINK")'
  BY DEF HandlesSound
<1>1. IsOpen(h) /\ InumOf(h)' = InumOf(h)
  BY DEF IsOpen, InumOf
<1>2. PICK i \in Inums : i = InumOf(h)
  BY <1>1 DEF HandlesSound
<1>3. "orphaned" \notin lapses' => i \in Allocated /\ Type(i) # "T_SYMLINK"
  BY <1>1, <1>2 DEF HandlesSound
<1> QED BY <1>1, <1>2, <1>3 DEF Type

\* A new entry of a name; a second one of a name counts as a lapse.
LEMMA DirectoryWithEntry ==
  ASSUME Tables, StaleNamesLast, EntriesSound, NamesOnce,
         NEW name \in Texts, NEW inum \in Inums, NEW slot \in Slots,
         Adds(slot, name, inum), inum \in Allocated',
         name = Garbled => Type(inum)' # "T_SYMLINK",
         \A i \in Allocated : i \in Allocated' /\ Type(i)' = Type(i),
         lapses \subseteq lapses', Listed(name) => "relinked" \in lapses'
  PROVE  StaleNamesLast' /\ EntriesSound' /\ NamesOnce'
<1>1. /\ SlotsUsed' = SlotsUsed \cup {slot}
      /\ dir_entries'[slot] = [d_name |-> name, d_inumber |-> inum]
      /\ \A s \in SlotsUsed : dir_entries'[s] = dir_entries[s]
      /\ StaleNamesLast'
  BY AddedEntry
<1>2. EntriesSound'
  <2> SUFFICES ASSUME NEW s \in SlotsUsed \cup {slot}
               PROVE  (/\ dir_entries[s].d_name \in Texts
                       /\ dir_entries[s].d_inumber \in Allocated
                       /\ dir_entries[s].d_name = Garbled =>
                             Type(dir_entries[s].d_inumber) # "T_SYMLINK")'
    BY <1>1 DEF EntriesSound
  <2>1. CASE s = slot
    BY <2>1, <1>1 DEF Type
  <2>2. CASE s \in SlotsUsed
    <3>1. PICK i \in Allocated : i = dir_entries[s].d_inumber
      BY <2>2 DEF EntriesSound
    <3>2. i \in Allocated' /\ Type(i)' = Type(i)
      OBVIOUS
    <3> QED BY <3>1, <3>2, <2>2, <1>1 DEF EntriesSound, Type
  <2> QED BY <2>1, <2>2
<1>3. NamesOnce'
  <2> SUFFICES ASSUME "relinked" \notin lapses',
                      NEW s \in SlotsUsed', NEW t \in SlotsUsed',
                      dir_entries'[s].d_name = dir_entries'[t].d_name
               PROVE  s = t
    BY DEF NamesOnce
  <2>1. \A u \in SlotsUsed : dir_entries[u].d_name # name
    BY DEF Listed, SlotsNamed
  <2>2. CASE s \in SlotsUsed /\ t \in SlotsUsed
    BY <2>2, <1>1 DEF NamesOnce
  <2>3. CASE ~(s \in SlotsUsed /\ t \in SlotsUsed)
    BY <2>3, <2>1, <1>1
  <2> QED BY <2>2, <2>3
<1> QED BY <1>1, <1>2, <1>3

\* What is found after a name got its only entry
LEMMA FoundAfterAdding ==
  ASSUME Tables, StaleNamesLast, NEW name, NEW inum \in Inums, NEW slot \in Slots,
         Adds(slot, name, inum)
  PROVE  /\ \A n : n # name =>
               /\ Listed(n)' => Listed(n)
               /\ Listed(n) => Listed(n)' /\ find_in_dir(n)' = find_in_dir(n)
         /\ ~Listed(name) => Listed(name)' /\ find_in_dir(name)' = inum
<1>1. \A n : n # name => SlotsNamed(n)' = SlotsNamed(n)
  BY AddedEntry
<1>2. /\ SlotsNamed(name)' = SlotsNamed(name) \cup {slot}
      /\ dir_entries'[slot] = [d_name |-> name, d_inumber |-> inum]
      /\ \A s \in SlotsUsed : dir_entries'[s] = dir_entries[s]
  BY AddedEntry
<1>3. ASSUME NEW n, n # name
      PROVE  /\ Listed(n)' => Listed(n)
             /\ Listed(n) => Listed(n)' /\ find_in_dir(n)' = find_in_dir(n)
  <2>1. SlotsNamed(n)' = SlotsNamed(n)
    BY <1>1, <1>3
  <2>2. CASE Listed(n)
    <3>1. First(SlotsNamed(n)) \in SlotsUsed
      BY <2>2, FoundEntry DEF SlotsNamed
    <3> QED BY <2>1, <2>2, <3>1, <1>2 DEF Listed, find_in_dir
  <2>3. CASE ~Listed(n)
    BY <2>1, <2>3 DEF Listed
  <2> QED BY <2>2, <2>3
<1>4. ASSUME ~Listed(name) PROVE Listed(name)' /\ find_in_dir(name)' = inum
  <2>1. SlotsNamed(name)' = {slot}
    BY <1>2, <1>4 DEF Listed
  <2>2. First({slot}) = slot
    BY FirstIsLeast, Sizes
  <2> QED BY <2>1, <2>2, <1>2 DEF Listed, find_in_dir
<1> QED BY <1>3, <1>4

-----------------------------------------------------------------------------
(* tfs_open with TFS_O_CREAT                                               *)

LEMMA OpenCreateAdds ==
  ASSUME Sound, freeinode_ts[ROOT_DIR_INUM] = TAKEN, NEW name, OpenCreate(name)
  PROVE  \E last \in Texts, slot \in Slots, inum \in Inums :
            /\ ~Listed(last) /\ Adds(slot, last, inum)
            /\ Creates(inum, NewInode("T_FILE"))
            /\ add_to_open_file_table(inum, 0)
<1>1. NextInum \in Inums /\ freeinode_ts[NextInum] = FREE
  BY NextInumIsFree DEF Sound, OpenCreate
<1>2. PICK last \in OpenEnds(name) :
        ~Listed(last) /\ ~CannotList(last) /\ add_dir_entry(last, NextInum)
  BY DEF OpenCreate
<1>3. PICK slot \in Slots : Adds(slot, last, NextInum)
  BY <1>2, AddFindsASlot DEF CannotList
<1>4. Creates(NextInum, NewInode("T_FILE"))
  BY <1>1 DEF OpenCreate, Creates, FREE, TAKEN
<1> QED BY <1>1, <1>2, <1>3, <1>4, OpenEndsAreTexts DEF OpenCreate

LEMMA OpenCreateKeeps ==
  ASSUME Sound, NEW last \in Texts, NEW slot \in Slots, NEW inum \in Inums,
         ~Listed(last), Adds(slot, last, inum), Creates(inum, NewInode("T_FILE")),
         add_to_open_file_table(inum, 0), UNCHANGED <<blockVars, lapses>>
  PROVE  Sound'
<1> DEFINE file == NewInode("T_FILE")
<1> USE DEF blockVars
<1>1. Tables /\ StaleNamesLast /\ EntriesSound /\ NamesOnce /\ CountersSound
      /\ BlocksSound /\ HandlesSound /\ LinksEndSound
  BY DEF Sound
<1>2. /\ Allocated' = Allocated \cup {inum} /\ inum \notin Allocated
      /\ inode_table'[inum] = file
      /\ \A i \in Inums \ {inum} : inode_table'[i] = inode_table[i]
      /\ \A i \in Allocated :
              /\ i \in Allocated' /\ i \in Inums \ {inum}
              /\ Type(i)' = Type(i) /\ Counter(i)' = Counter(i)
              /\ Size(i)' = Size(i) /\ Data(i)' = Data(i)
  BY <1>1, CreatedInode
<1>3. file \in InodeType
      /\ file.i_node_type = "T_FILE" /\ file.i_size = 0 /\ file.i_link_counter = 1
  BY Sizes DEF NewInode
<1> HIDE DEF file
<1>4. Type(inum)' = "T_FILE" /\ Size(inum)' = 0
  BY <1>2, <1>3 DEF Type, Size
<1>5. StaleNamesLast' /\ EntriesSound' /\ NamesOnce'
  <2>1. Type(inum)' # "T_SYMLINK" /\ inum \in Allocated'
    BY <1>2, <1>4
  <2> QED BY <1>1, <1>2, <2>1, DirectoryWithEntry
<1>6. /\ \A i \in Inums \ {inum} : EntriesOf(i)' = EntriesOf(i)
      /\ EntriesOf(inum)' = EntriesOf(inum) \cup {slot}
      /\ Cardinality(EntriesOf(inum)') = Cardinality(EntriesOf(inum)) + 1
      /\ dir_entries'[slot] = [d_name |-> last, d_inumber |-> inum]
  BY <1>1, AddedEntry
<1>7. CountersSound'
  <2>1. Cardinality(EntriesOf(inum)) = 0
    BY <1>1, <1>2, FreeHasNoEntries
  <2>2. Cardinality(EntriesOf(inum)') = 1 /\ EntriesOf(inum)' # {}
    BY <2>1, <1>6
  <2>3. Creates(inum, file)
    BY DEF file
  <2> QED BY <1>1, <1>3, <1>6, <2>2, <2>3, CreatedCounters
<1>8. Tables'
  <2>1. open_file_table' \in [Handles -> HandleType]
    BY <1>1, OpenedHandle
  <2>2. dir_entries' \in [Slots -> EntryType]
    BY <1>1 DEF Tables, Adds
  <2>3. inode_table' \in [Inums -> InodeType]
    BY <1>1, <1>3 DEF Tables, Creates, file
  <2>4. freeinode_ts' \in [Inums -> {FREE, TAKEN}]
    BY <1>1 DEF Tables, Creates, Take
  <2> QED BY <1>1, <2>1, <2>2, <2>3, <2>4 DEF Tables
<1>9. HandlesSound'
  <2>1. \A h \in Handles : IsOpen(h)' =>
           (IsOpen(h) /\ InumOf(h)' = InumOf(h)) \/ InumOf(h)' = inum
    BY <1>1, OpenedHandle
  <2> QED BY <2>1, <1>1, <1>2, <1>4, HandlesStaySound
<1>10. LinksEndSound'
  <2>1. \A n \in Texts : IsSymlink(n)' =>
           Listed(n) /\ find_in_dir(n)' = find_in_dir(n)
    <3> SUFFICES ASSUME NEW n \in Texts, IsSymlink(n)'
                 PROVE  Listed(n) /\ find_in_dir(n)' = find_in_dir(n)
      OBVIOUS
    <3>1. find_in_dir(last)' = inum
      BY <1>1, FoundAfterAdding
    <3>2. n # last
      BY <3>1, <1>4 DEF IsSymlink, Type
    <3> QED BY <3>2, <1>1, FoundAfterAdding DEF IsSymlink
  <2>2. \A i \in Allocated : Type(i)' = Type(i) /\ Data(i)' = Data(i)
    BY <1>2
  <2> QED BY <1>1, <2>1, <2>2, LinksEndKept
<1>11. BlocksSound'
  <2>1. \A i \in Inums \ {inum} : Size(i)' = Size(i) /\ Data(i)' = Data(i)
    BY <1>2 DEF Size, Data
  <2>2. \A i \in Inums \ {inum} : freeinode_ts'[i] = freeinode_ts[i]
    BY <1>1 DEF Tables, Creates, Take
  <2>3. Owners' = Owners
    BY <2>1, <2>2, <1>4 DEF Owners, Creates, FREE, TAKEN
  <2>4. inum \notin Owners /\ Owners \subseteq Inums
    BY DEF Owners, Creates, FREE, TAKEN
  <2>5. \A i \in Inums : Size(i)' > 0 => Data(i)' \in Blocks
    BY <1>1, <1>4, <2>1 DEF BlocksSound
  <2>6. \A i \in Owners : Data(i)' = Data(i)
    BY <2>1, <2>4
  <2> QED BY <1>1, <2>3, <2>5, <2>6 DEF BlocksSound
<1> QED BY <1>5, <1>7, <1>8, <1>9, <1>10, <1>11 DEF Sound

LEMMA UndoneKeeps ==
  ASSUME Inv, NEW name \in Names, OpenCreateUndone(name)
  PROVE  Inv'
<1> USE DEF OpenCreateUndone, blockVars, callVars
<1>1. Tables /\ StaleNamesLast /\ EntriesSound /\ NamesOnce /\ CountersSound
      /\ BlocksSound /\ HandlesSound /\ LinksEndSound
  BY DEF Inv, Sound
<1>2. PICK n \in Inums : n = NextInum /\ freeinode_ts[n] = FREE
  BY <1>1, NextInumIsFree
<1>3. inode_table' = [inode_table EXCEPT ![n] = NewInode("T_FILE")]
  BY <1>2
<1>4. /\ NewInode("T_FILE") \in InodeType
      /\ NewInode("T_FILE").i_size = 0
  BY Sizes DEF NewInode
<1>5. Tables'
  <2>1. inode_table' \in [Inums -> InodeType]
    <3> DEFINE file == NewInode("T_FILE")
    <3>1. file \in InodeType /\ inode_table' = [inode_table EXCEPT ![n] = file]
      BY <1>3, <1>4
    <3> HIDE DEF file
    <3> QED BY <1>1, <3>1 DEF Tables
  <2> QED BY <1>1, <2>1 DEF Tables
<1>6. \A i \in Inums : freeinode_ts[i] = TAKEN => inode_table'[i] = inode_table[i]
  BY <1>1, <1>2, <1>3 DEF Tables, FREE, TAKEN
<1>7. Allocated' = Allocated /\ \A i \in Allocated :
         /\ Type(i)' = Type(i) /\ Counter(i)' = Counter(i)
         /\ Size(i)' = Size(i) /\ Data(i)' = Data(i)
  BY <1>6 DEF Allocated, Type, Counter, Size, Data
<1>8. StaleNamesLast' /\ EntriesSound' /\ NamesOnce'
      /\ \A i : EntriesOf(i)' = EntriesOf(i)
  BY <1>1, <1>7, SameDirectory
<1>9. CountersSound'
  BY <1>1, <1>7, <1>8 DEF CountersSound
<1>10. BlocksSound'
  <2>1. Owners' = Owners /\ \A i \in Owners : Data(i)' = Data(i)
    BY <1>6 DEF Owners, Size, Data
  <2>2. Size(n)' = 0 /\ \A i \in Inums \ {n} : inode_table'[i] = inode_table[i]
    BY <1>1, <1>3, <1>4 DEF Tables, Size
  <2>3. \A i \in Inums : Size(i)' > 0 => Data(i)' \in Blocks
    BY <1>1, <2>2 DEF BlocksSound, Size, Data
  <2> QED BY <1>1, <2>1, <2>3 DEF BlocksSound
<1>11. HandlesSound'
  BY <1>1, <1>7, HandlesUntouched
<1>12. LinksEndSound'
  BY <1>1, <1>7, SameLinks
<1>13. Rooted' /\ CopyOpen'
  BY DEF Inv, Rooted, CopyOpen, IsOpen
<1> QED BY <1>5, <1>8, <1>9, <1>10, <1>11, <1>12, <1>13 DEF Inv, Sound

-----------------------------------------------------------------------------
(* tfs_sym_link                                                            *)

LEMMA CreatedTables ==
  ASSUME Tables, NEW n, NEW inode \in InodeType, Creates(n, inode)
  PROVE  inode_table' \in [Inums -> InodeType]
         /\ freeinode_ts' \in [Inums -> {FREE, TAKEN}]
BY DEF Tables, Creates, Take

\* The new link owns the block that held nothing.
LEMMA LinkBlockTaken ==
  ASSUME Tables, BlocksSound, NEW n, NEW inode, NEW bnum \in Blocks,
         Creates(n, inode), inode.i_size = TextSize, inode.i_data_block = bnum,
         free_blocks[bnum] = FREE, free_blocks' = Take(free_blocks, bnum),
         lapses \subseteq lapses'
  PROVE  BlocksSound'
<1>1. /\ inode_table'[n] = inode
      /\ \A i \in Inums \ {n} : inode_table'[i] = inode_table[i]
  BY CreatedInode
<1>2. /\ Size(n)' = TextSize /\ Data(n)' = bnum /\ n \in Inums
      /\ \A i \in Inums \ {n} : Size(i)' = Size(i) /\ Data(i)' = Data(i)
  BY <1>1 DEF Size, Data, Creates
<1>3. freeinode_ts'[n] = TAKEN
      /\ \A i \in Inums \ {n} : freeinode_ts'[i] = freeinode_ts[i]
  BY DEF Creates, Take, Tables
<1>4. Owners' = Owners \cup {n} /\ n \notin Owners
  BY <1>2, <1>3 DEF Owners, Creates, FREE, TAKEN, TextSize
<1>5. /\ free_blocks'[bnum] = TAKEN
      /\ \A blk \in Blocks \ {bnum} : free_blocks'[blk] = free_blocks[blk]
  BY DEF Take, Tables
<1>6. \A i \in Owners : /\ i \in Inums \ {n} /\ Data(i)' = Data(i)
                        /\ Data(i) \in Blocks \ {bnum}
  BY <1>2, <1>4 DEF Owners, BlocksSound, FREE, TAKEN
<1>7. \A i \in Inums : Size(i)' > 0 => Data(i)' \in Blocks
  BY <1>2 DEF BlocksSound
<1>8. \A i \in Owners' : free_blocks'[Data(i)'] = TAKEN
  <2> SUFFICES ASSUME NEW i \in Owners \cup {n}
               PROVE  free_blocks'[Data(i)'] = TAKEN
    BY <1>4
  <2>1. CASE i = n
    BY <2>1, <1>2, <1>5
  <2>2. CASE i \in Owners
    BY <2>2, <1>5, <1>6 DEF BlocksSound
  <2> QED BY <2>1, <2>2
<1>9. \A i, j \in Owners' : i # j => Data(i)' # Data(j)'
  BY <1>2, <1>4, <1>6 DEF BlocksSound
<1>10. ASSUME {"spilled", "orphaned"} \cap lapses' = {},
              NEW blk \in Blocks, free_blocks'[blk] = TAKEN
       PROVE  \E i \in Owners' : Data(i)' = blk
  <2>1. CASE blk = bnum
    BY <2>1, <1>2, <1>4
  <2>2. CASE blk # bnum
    <3>1. PICK i \in Owners : Data(i) = blk
      BY <2>2, <1>5, <1>10 DEF BlocksSound
    <3> QED BY <3>1, <1>4, <1>6
  <2> QED BY <2>1, <2>2
<1> QED BY <1>7, <1>8, <1>9, <1>10 DEF BlocksSound

\* The texts of the links in use are not in a free block.
LEMMA TextsInUse ==
  ASSUME BlocksSound, CountersSound, NEW i \in Allocated,
         Type(i) = "T_SYMLINK", EntriesOf(i) # {}
  PROVE  i \in Owners /\ Data(i) \in Blocks /\ free_blocks[Data(i)] = TAKEN
BY DEF BlocksSound, CountersSound, Owners, Allocated

\* A new link closes no ring: verify_symlink_recursion, which read every link as
\* what it leads to, came to a name that is no link without passing the new one.
LEMMA NewLinkLeaves ==
  ASSUME LinksLeave, NEW target \in Names, NEW link_name,
         NEW read \in Readings,
         verify_symlink_recursion(target, link_name, read),
         Misreading(target, read) = {},
         IsSymlink(link_name)' => TargetOf(link_name)' = target,
         \A n \in Texts \ {link_name} : IsSymlink(n)' =>
            IsSymlink(n) /\ TargetOf(n)' = TargetOf(n)
  PROVE  LinksLeave'
<1> DEFINE chain == ReadChain(target, read)
<1> SUFFICES ASSUME NEW C \in SUBSET Texts, C # {},
                    \A n \in C : IsSymlink(n)' /\ TargetOf(n)' \in C
             PROVE  FALSE
  BY DEF LinksLeave
<1>1. \A n \in C \ {link_name} : IsSymlink(n) /\ TargetOf(n) \in C
  OBVIOUS
<1>2. CASE link_name \notin C
  BY <1>1, <1>2 DEF LinksLeave
<1>3. CASE link_name \in C
  <2> DEFINE seen == C \cap chain
  <2>1. target \in chain /\ chain \subseteq Names
    BY DEF ReadChain
  <2>2. \A n \in chain : IsSymlink(n) => read[n] \in chain
    <3> SUFFICES ASSUME NEW n \in chain, IsSymlink(n),
                        NEW D \in SUBSET Names, target \in D,
                        \A m \in D : IsSymlink(m) => read[m] \in D
                 PROVE  read[n] \in D /\ read[n] \in Names
      BY DEF ReadChain, Readings
    <3>1. n \in D
      BY DEF ReadChain
    <3> QED BY <3>1
  <2>3. \A n \in chain : IsSymlink(n) => read[n] = TargetOf(n)
    BY DEF Misreading
  <2>4. \A n \in chain : n # link_name
    BY DEF verify_symlink_recursion
  <2>5. target \in seen
    BY <1>3, <2>1
  <2>6. \A n \in seen : IsSymlink(n) /\ read[n] \in seen
    BY <1>1, <2>2, <2>3, <2>4
  <2>7. chain \subseteq seen
    BY <2>1, <2>5, <2>6 DEF ReadChain
  <2>8. PICK n \in chain : ~IsSymlink(n)
    BY DEF verify_symlink_recursion
  <2> QED BY <2>6, <2>7, <2>8
<1> QED BY <1>2, <1>3

LEMMA NewSymlinkIs ==
  ASSUME NEW bnum \in Blocks
  PROVE  /\ NewSymlink(bnum) \in InodeType
         /\ NewSymlink(bnum).i_node_type = "T_SYMLINK"
         /\ NewSymlink(bnum).i_size = TextSize
         /\ NewSymlink(bnum).i_data_block = bnum
         /\ NewSymlink(bnum).i_link_counter = 1
         /\ TextSize > 0
<1> DEFINE reset == NewInode("T_SYMLINK")
           link  == NewSymlink(bnum)
<1>1. /\ reset \in InodeType /\ reset.i_node_type = "T_SYMLINK"
      /\ reset.i_link_counter = 1
  BY Sizes DEF NewInode
<1>2. link = [reset EXCEPT !.i_size = 1, !.i_data_block = bnum]
  BY DEF NewSymlink, TextSize
<1> HIDE DEF reset, link
<1>3. 1 \in 0 .. BLOCK_SIZE
  BY Sizes
<1>4. link \in InodeType
  BY <1>1, <1>2, <1>3
<1>5. link.i_node_type = "T_SYMLINK" /\ link.i_link_counter = 1
  BY <1>1, <1>2
<1>6. link.i_size = 1 /\ link.i_data_block = bnum
  BY <1>1, <1>2
<1> QED BY <1>4, <1>5, <1>6 DEF TextSize, link

LEMMA SymLinkListedKeeps ==
  ASSUME Sound, NEW target \in Names, NEW link_name \in Names,
         NEW n \in Inums, NEW bnum \in Blocks, NEW slot \in Slots,
         NEW read \in Readings, verify_symlink_recursion(target, link_name, read),
         Creates(n, NewSymlink(bnum)), Adds(slot, link_name, n),
         free_blocks[bnum] = FREE, free_blocks' = Take(free_blocks, bnum),
         text' = [text EXCEPT ![bnum] = target],
         lapses' = lapses \cup Relinking(link_name) \cup Misreading(target, read),
         open_file_table' = open_file_table
  PROVE  Sound'
<1> DEFINE link == NewSymlink(bnum)
<1>1. Tables /\ StaleNamesLast /\ EntriesSound /\ NamesOnce /\ CountersSound
      /\ BlocksSound /\ HandlesSound /\ LinksEndSound
  BY DEF Sound
<1>2. /\ Allocated' = Allocated \cup {n} /\ n \notin Allocated
      /\ inode_table'[n] = link
      /\ \A i \in Allocated :
              /\ i \in Allocated' /\ i \in Inums \ {n}
              /\ Type(i)' = Type(i) /\ Data(i)' = Data(i)
  BY <1>1, CreatedInode
<1>3. /\ link \in InodeType /\ link.i_node_type = "T_SYMLINK"
      /\ link.i_size = TextSize /\ link.i_data_block = bnum
      /\ link.i_link_counter = 1 /\ TextSize > 0
      /\ Creates(n, link)
  BY NewSymlinkIs
<1> HIDE DEF link
<1>4. lapses \subseteq lapses' /\ lapses' \subseteq Lapses
      /\ (Listed(link_name) => "relinked" \in lapses')
      /\ (Misreading(target, read) # {} => "misread" \in lapses')
  BY <1>1 DEF Tables, Relinking, Misreading, Lapses
<1>5. /\ link_name \in Texts /\ target \in Texts
      /\ link_name # Garbled
  BY Sizes, LinksAssumption DEF LinksAssumption
<1>6. StaleNamesLast' /\ EntriesSound' /\ NamesOnce'
  BY <1>1, <1>2, <1>4, <1>5, DirectoryWithEntry
<1>7. /\ \A i \in Inums \ {n} : EntriesOf(i)' = EntriesOf(i)
      /\ EntriesOf(n)' = EntriesOf(n) \cup {slot}
      /\ Cardinality(EntriesOf(n)') = Cardinality(EntriesOf(n)) + 1
      /\ dir_entries'[slot] = [d_name |-> link_name, d_inumber |-> n]
  BY <1>1, AddedEntry
<1>8. CountersSound'
  <2>1. Cardinality(EntriesOf(n)') = 1 /\ EntriesOf(n)' # {}
    BY <1>1, <1>2, <1>7, FreeHasNoEntries
  <2> QED BY <2>1, <1>1, <1>3, <1>4, <1>7, CreatedCounters
<1>9. Tables'
  <2>1. inode_table' \in [Inums -> InodeType]
        /\ freeinode_ts' \in [Inums -> {FREE, TAKEN}]
    BY <1>1, <1>3, CreatedTables
  <2>2. dir_entries' \in [Slots -> EntryType]
    BY <1>1, <1>5 DEF Tables, Adds
  <2>3. free_blocks' \in [Blocks -> {FREE, TAKEN}] /\ text' \in [Blocks -> Texts]
    BY <1>1, <1>5 DEF Tables, Take
  <2> QED BY <1>1, <1>4, <2>1, <2>2, <2>3 DEF Tables
<1>10. HandlesSound'
  BY <1>1, <1>2, <1>4, HandlesUntouched
<1>11. BlocksSound'
  BY <1>1, <1>3, <1>4, LinkBlockTaken
<1>12. LinksEndSound'
  <2> SUFFICES ASSUME {"relinked", "orphaned", "misread"} \cap lapses' = {}
               PROVE  LinksLeave'
    BY DEF LinksEndSound
  <2>1. LinksLeave /\ ~Listed(link_name) /\ Misreading(target, read) = {}
    BY <1>1, <1>4 DEF LinksEndSound
  <2>2. find_in_dir(link_name)' = n
    BY <2>1, <1>1, FoundAfterAdding
  <2>3. TargetOf(link_name)' = target
    <3>1. TargetOf(link_name)' = text'[inode_table'[n].i_data_block]
      BY <2>2 DEF TargetOf
    <3> QED BY <3>1, <1>1, <1>2, <1>3 DEF Tables
  <2>4. ASSUME NEW m \in Texts \ {link_name}, IsSymlink(m)'
        PROVE  IsSymlink(m) /\ TargetOf(m)' = TargetOf(m)
    <3>1. Listed(m) /\ find_in_dir(m)' = find_in_dir(m)
      BY <2>4, <1>1, FoundAfterAdding DEF IsSymlink
    <3>2. PICK i \in Allocated : i = find_in_dir(m) /\ EntriesOf(i) # {}
      BY <3>1, <1>1, FoundIsAllocated
    <3>3. Type(i)' = "T_SYMLINK"
      BY <3>1, <3>2, <2>4 DEF IsSymlink, Type
    <3>4. Type(i) = "T_SYMLINK" /\ Data(i)' = Data(i)
      BY <3>3, <1>2
    <3>5. Data(i) \in Blocks /\ free_blocks[Data(i)] = TAKEN
      BY <3>2, <3>4, <1>1, TextsInUse
    <3>6. text'[Data(i)] = text[Data(i)]
      BY <3>5, <1>1 DEF Tables, FREE, TAKEN
    <3>7. TargetOf(m) = text[Data(i)] /\ TargetOf(m)' = text'[Data(i)']
      BY <3>1, <3>2 DEF TargetOf, Data
    <3> QED BY <3>1, <3>2, <3>4, <3>6, <3>7 DEF IsSymlink, Type
  <2> QED BY <2>1, <2>3, <2>4, <1>1, <1>5, NewLinkLeaves
<1> QED BY <1>6, <1>8, <1>9, <1>10, <1>11, <1>12 DEF Sound

\* The inode stays behind, without an entry: with a block or, if there was
\* none, without one.
LEMMA SymLinkSpilledKeeps ==
  ASSUME Sound, NEW target \in Names, NEW n \in Inums,
         \/ \E bnum \in Blocks :
               /\ Creates(n, NewSymlink(bnum))
               /\ free_blocks[bnum] = FREE /\ free_blocks' = Take(free_blocks, bnum)
               /\ text' = [text EXCEPT ![bnum] = target]
         \/ Creates(n, NewInode("T_SYMLINK")) /\ UNCHANGED blockVars,
         lapses' = lapses \cup {"spilled"},
         UNCHANGED <<dir_entries, open_file_table>>
  PROVE  Sound'
<1>1. Tables /\ StaleNamesLast /\ EntriesSound /\ NamesOnce /\ CountersSound
      /\ BlocksSound /\ HandlesSound /\ LinksEndSound
  BY DEF Sound
<1>2. PICK inode \in InodeType :
        /\ Creates(n, inode) /\ inode.i_link_counter = 1
        /\ inode.i_node_type = "T_SYMLINK"
  <2>1. CASE \E bnum \in Blocks : Creates(n, NewSymlink(bnum))
    BY <2>1, NewSymlinkIs
  <2>2. CASE Creates(n, NewInode("T_SYMLINK"))
    <3>1. NewInode("T_SYMLINK") \in InodeType
          /\ NewInode("T_SYMLINK").i_link_counter = 1
          /\ NewInode("T_SYMLINK").i_node_type = "T_SYMLINK"
      BY Sizes DEF NewInode
    <3> QED BY <2>2, <3>1
  <2> QED BY <2>1, <2>2
<1>3. /\ Allocated' = Allocated \cup {n} /\ n \notin Allocated
      /\ \A i \in Allocated :
              /\ i \in Allocated' /\ i \in Inums \ {n}
              /\ Type(i)' = Type(i) /\ Data(i)' = Data(i)
  BY <1>1, <1>2, CreatedInode
<1>4. lapses \subseteq lapses' /\ lapses' \subseteq Lapses /\ "spilled" \in lapses'
  BY <1>1 DEF Tables, Lapses
<1>5. StaleNamesLast' /\ EntriesSound' /\ NamesOnce'
      /\ \A i : EntriesOf(i)' = EntriesOf(i)
  BY <1>1, <1>3, <1>4, SameDirectory
<1>6. CountersSound'
  <2>1. Cardinality(EntriesOf(n)') = 0 /\ EntriesOf(n)' = {}
    BY <1>1, <1>3, <1>5, FreeHasNoEntries
  <2> QED BY <2>1, <1>1, <1>2, <1>4, <1>5, CreatedCounters
<1>7. Tables'
  <2>1. inode_table' \in [Inums -> InodeType]
        /\ freeinode_ts' \in [Inums -> {FREE, TAKEN}]
    BY <1>1, <1>2, CreatedTables
  <2>2. free_blocks' \in [Blocks -> {FREE, TAKEN}] /\ text' \in [Blocks -> Texts]
    BY <1>1, Sizes DEF Tables, Take, blockVars
  <2> QED BY <1>1, <1>4, <2>1, <2>2 DEF Tables
<1>8. HandlesSound'
  BY <1>1, <1>3, <1>4, HandlesUntouched
<1>9. ASSUME NEW i \in Allocated, Type(i) = "T_SYMLINK", EntriesOf(i) # {}
      PROVE  text'[Data(i)] = text[Data(i)]
  <2>1. Data(i) \in Blocks /\ free_blocks[Data(i)] = TAKEN
    BY <1>1, <1>9, TextsInUse
  <2> QED BY <2>1, <1>1 DEF Tables, blockVars, FREE, TAKEN
<1>10. LinksEndSound'
  BY <1>1, <1>3, <1>4, <1>9, SameLinks
<1>11. BlocksSound'
  <2>1. CASE \E bnum \in Blocks :
               /\ Creates(n, NewSymlink(bnum))
               /\ free_blocks[bnum] = FREE /\ free_blocks' = Take(free_blocks, bnum)
    BY <2>1, <1>1, <1>4, NewSymlinkIs, LinkBlockTaken
  <2>2. CASE Creates(n, NewInode("T_SYMLINK")) /\ UNCHANGED blockVars
    <3>1. /\ inode_table'[n] = NewInode("T_SYMLINK")
          /\ \A i \in Inums \ {n} : inode_table'[i] = inode_table[i]
      BY <2>2, <1>1, CreatedInode
    <3>2. /\ Size(n)' = 0
          /\ \A i \in Inums \ {n} : Size(i)' = Size(i) /\ Data(i)' = Data(i)
      BY <3>1 DEF Size, Data, NewInode
    <3>3. \A i \in Inums \ {n} : freeinode_ts'[i] = freeinode_ts[i]
      BY <2>2, <1>1 DEF Tables, Creates, Take
    <3>4. Owners' = Owners /\ n \notin Owners
      BY <2>2, <3>2, <3>3 DEF Owners, Creates, FREE, TAKEN
    <3>5. \A i \in Owners : i \in Inums \ {n} /\ Data(i)' = Data(i)
      BY <3>2, <3>4 DEF Owners
    <3>6. \A i \in Inums : Size(i)' > 0 => Data(i)' \in Blocks
      BY <1>1, <3>2 DEF BlocksSound
    <3> QED BY <2>2, <1>1, <1>4, <3>4, <3>5, <3>6 DEF BlocksSound, blockVars
  <2> QED BY <2>1, <2>2
<1> QED BY <1>5, <1>6, <1>7, <1>8, <1>10, <1>11 DEF Sound

LEMMA SymLinkKeeps ==
  ASSUME Inv, NEW target \in Names, NEW link_name \in Names,
         tfs_sym_link(target, link_name)
  PROVE  Inv'
<1>1. NextInum \in Inums /\ freeinode_ts[NextInum] = FREE
  BY NextInumIsFree DEF Inv, Sound, tfs_sym_link
<1>2. PICK n \in Inums : n = NextInum
  BY <1>1
<1>3. n # ROOT_DIR_INUM /\ freeinode_ts[n] = FREE
  BY <1>1, <1>2 DEF Inv, Rooted, tfs_sym_link, FREE, TAKEN
<1>4. \A inode : inode_table' = [inode_table EXCEPT ![NextInum] = inode] =>
         Creates(n, inode)
  BY <1>2, <1>3 DEF Creates, tfs_sym_link
<1>5. SymLinkBlock(target) => \E bnum \in Blocks :
        /\ Creates(n, NewSymlink(bnum))
        /\ free_blocks[bnum] = FREE /\ free_blocks' = Take(free_blocks, bnum)
        /\ text' = [text EXCEPT ![bnum] = target]
  BY <1>4, NextBlockIsFree DEF SymLinkBlock, Inv, Sound
<1>6. Sound'
  <2> PICK read \in Readings :
        /\ verify_symlink_recursion(target, link_name, read)
        /\ \/ SymLinkListed(target, link_name, read)
           \/ SymLinkNotListed(target, link_name)
           \/ SymLinkNoBlock
    BY DEF tfs_sym_link
  <2>1. CASE SymLinkListed(target, link_name, read)
    <3>1. PICK slot \in Slots : Adds(slot, link_name, n)
      BY <2>1, <1>2, AddFindsASlot DEF SymLinkListed, CannotList
    <3> QED BY <3>1, <2>1, <1>5, SymLinkListedKeeps
            DEF SymLinkListed, tfs_sym_link, Inv
  <2>2. CASE SymLinkNotListed(target, link_name)
    BY <2>2, <1>5, SymLinkSpilledKeeps DEF SymLinkNotListed, tfs_sym_link, Inv
  <2>3. CASE SymLinkNoBlock
    BY <2>3, <1>4, SymLinkSpilledKeeps DEF SymLinkNoBlock, tfs_sym_link, Inv
  <2> QED BY <2>1, <2>2, <2>3
<1>7. freeinode_ts'[ROOT_DIR_INUM] = TAKEN
  BY <1>2, <1>3 DEF Inv, Rooted, Sound, Tables, tfs_sym_link, Take
<1>8. Rooted' /\ CopyOpen'
  BY <1>7 DEF Inv, Rooted, CopyOpen, tfs_sym_link, IsOpen
<1> QED BY <1>6, <1>8 DEF Inv, tfs_sym_link

-----------------------------------------------------------------------------
(* tfs_link                                                                *)

LEMMA SameBlocks ==
  ASSUME BlocksSound, UNCHANGED <<freeinode_ts, free_blocks>>,
         \A i \in Inums : Size(i)' = Size(i) /\ Data(i)' = Data(i),
         lapses \subseteq lapses'
  PROVE  BlocksSound'
<1>1. Owners' = Owners /\ \A i \in Owners : i \in Inums
  BY DEF Owners
<1> QED BY <1>1 DEF BlocksSound

LEMMA LinkMore ==
  ASSUME Tables, NEW inum \in Inums, inode_table' = WithLinkMore(inum)
  PROVE  /\ inode_table' \in [Inums -> InodeType]
         /\ \A i \in Inums : /\ Type(i)' = Type(i) /\ Size(i)' = Size(i)
                             /\ Data(i)' = Data(i)
         /\ \A i \in Inums \ {inum} : Counter(i)' = Counter(i)
         /\ Counter(inum)' = Counter(inum) + 1 /\ Counter(inum) \in Nat
<1>1. inode_table' = [inode_table EXCEPT
         ![inum].i_link_counter = inode_table[inum].i_link_counter + 1]
  BY DEF WithLinkMore
<1> QED BY <1>1 DEF Tables, Type, Size, Data, Counter

LEMMA LinkListedKeeps ==
  ASSUME Sound, NEW link_name \in Names, NEW inum \in Inums, NEW slot \in Slots,
         inum \in Allocated, Type(inum) # "T_SYMLINK",
         Adds(slot, link_name, inum), inode_table' = WithLinkMore(inum),
         lapses' = lapses \cup Relinking(link_name),
         UNCHANGED <<freeinode_ts, blockVars, open_file_table>>
  PROVE  Sound'
<1> USE DEF blockVars
<1>1. Tables /\ StaleNamesLast /\ EntriesSound /\ NamesOnce /\ CountersSound
      /\ BlocksSound /\ HandlesSound /\ LinksEndSound
  BY DEF Sound
<1>2. /\ inode_table' \in [Inums -> InodeType]
      /\ \A i \in Inums : /\ Type(i)' = Type(i) /\ Size(i)' = Size(i)
                          /\ Data(i)' = Data(i)
      /\ \A i \in Inums \ {inum} : Counter(i)' = Counter(i)
      /\ Counter(inum)' = Counter(inum) + 1 /\ Counter(inum) \in Nat
  BY <1>1, LinkMore
<1>3. Allocated' = Allocated /\ Allocated \subseteq Inums
  BY DEF Allocated
<1>4. lapses \subseteq lapses' /\ lapses' \subseteq Lapses
      /\ (Listed(link_name) => "relinked" \in lapses')
  BY <1>1 DEF Tables, Relinking, Lapses
<1>5. link_name \in Texts /\ link_name # Garbled
  BY Sizes, LinksAssumption DEF LinksAssumption
<1>6. StaleNamesLast' /\ EntriesSound' /\ NamesOnce'
  BY <1>1, <1>2, <1>3, <1>4, <1>5, DirectoryWithEntry
<1>7. /\ \A i \in Inums \ {inum} : EntriesOf(i)' = EntriesOf(i)
      /\ EntriesOf(inum)' = EntriesOf(inum) \cup {slot}
      /\ Cardinality(EntriesOf(inum)') = Cardinality(EntriesOf(inum)) + 1
      /\ dir_entries'[slot] = [d_name |-> link_name, d_inumber |-> inum]
  BY <1>1, AddedEntry
<1>8. CountersSound'
  <2> SUFFICES ASSUME NEW i \in Allocated
               PROVE  (/\ Cardinality(EntriesOf(i)) <= Counter(i)
                       /\ Type(i) = "T_SYMLINK" =>
                            Counter(i) = 1 /\ (EntriesOf(i) # {} => Size(i) > 0)
                       /\ "spilled" \notin lapses =>
                            Counter(i) = Cardinality(EntriesOf(i))
                            /\ EntriesOf(i) # {})'
    BY <1>3 DEF CountersSound
  <2>1. CASE i = inum
    <3>1. Cardinality(EntriesOf(i)) \in Nat
      BY EntriesAreFinite
    <3> QED BY <2>1, <3>1, <1>1, <1>2, <1>4, <1>7 DEF CountersSound
  <2>2. CASE i # inum
    BY <2>2, <1>1, <1>2, <1>3, <1>4, <1>7 DEF CountersSound
  <2> QED BY <2>1, <2>2
<1>9. Tables'
  <2>1. dir_entries' \in [Slots -> EntryType]
    BY <1>1, <1>5 DEF Tables, Adds
  <2> QED BY <1>1, <1>2, <1>4, <2>1 DEF Tables
<1>10. HandlesSound'
  BY <1>1, <1>2, <1>3, <1>4, HandlesUntouched
<1>11. BlocksSound'
  BY <1>1, <1>2, <1>4, SameBlocks
<1>12. LinksEndSound'
  <2> SUFFICES ASSUME {"relinked", "orphaned"} \cap lapses' = {}
               PROVE  /\ \A n \in Texts : IsSymlink(n)' =>
                           Listed(n) /\ find_in_dir(n)' = find_in_dir(n)
                      /\ \A i \in Allocated :
                           EntriesOf(i) # {} /\ Type(i)' = "T_SYMLINK" =>
                             /\ Type(i) = "T_SYMLINK"
                             /\ Data(i)' = Data(i) /\ text'[Data(i)] = text[Data(i)]
    BY <1>1, <1>4, LinksEndKept
  <2>1. ~Listed(link_name)
    BY <1>4
  <2>2. ASSUME NEW n \in Texts, IsSymlink(n)'
        PROVE  Listed(n) /\ find_in_dir(n)' = find_in_dir(n)
    <3>1. find_in_dir(link_name)' = inum
      BY <2>1, <1>1, FoundAfterAdding
    <3>2. Type(inum)' # "T_SYMLINK"
      BY <1>2
    <3>3. n # link_name
      BY <2>2, <3>1, <3>2 DEF IsSymlink, Type
    <3> QED BY <2>2, <3>3, <1>1, FoundAfterAdding DEF IsSymlink
  <2> QED BY <2>2, <1>2, <1>3
<1> QED BY <1>6, <1>8, <1>9, <1>10, <1>11, <1>12 DEF Sound

LEMMA LinkSpilledKeeps ==
  ASSUME Sound, NEW inum \in Inums,
         inum \in Allocated, Type(inum) # "T_SYMLINK",
         inode_table' = WithLinkMore(inum), lapses' = lapses \cup {"spilled"},
         UNCHANGED <<freeinode_ts, dir_entries, blockVars, open_file_table>>
  PROVE  Sound'
<1> USE DEF blockVars
<1>1. Tables /\ StaleNamesLast /\ EntriesSound /\ NamesOnce /\ CountersSound
      /\ BlocksSound /\ HandlesSound /\ LinksEndSound
  BY DEF Sound
<1>2. /\ inode_table' \in [Inums -> InodeType]
      /\ \A i \in Inums : /\ Type(i)' = Type(i) /\ Size(i)' = Size(i)
                          /\ Data(i)' = Data(i)
      /\ \A i \in Inums \ {inum} : Counter(i)' = Counter(i)
      /\ Counter(inum)' = Counter(inum) + 1 /\ Counter(inum) \in Nat
  BY <1>1, LinkMore
<1>3. Allocated' = Allocated /\ Allocated \subseteq Inums
  BY DEF Allocated
<1>4. lapses \subseteq lapses' /\ lapses' \subseteq Lapses /\ "spilled" \in lapses'
  BY <1>1 DEF Tables, Lapses
<1>5. StaleNamesLast' /\ EntriesSound' /\ NamesOnce'
      /\ \A i : EntriesOf(i)' = EntriesOf(i)
  BY <1>1, <1>2, <1>3, <1>4, SameDirectory
<1>6. CountersSound'
  <2> SUFFICES ASSUME NEW i \in Allocated
               PROVE  (/\ Cardinality(EntriesOf(i)) <= Counter(i)
                       /\ Type(i) = "T_SYMLINK" =>
                            Counter(i) = 1 /\ (EntriesOf(i) # {} => Size(i) > 0))'
    BY <1>3, <1>4 DEF CountersSound
  <2>1. Cardinality(EntriesOf(i)) \in Nat
    BY EntriesAreFinite
  <2>2. CASE i = inum
    BY <2>1, <2>2, <1>1, <1>2, <1>5 DEF CountersSound
  <2>3. CASE i # inum
    BY <2>3, <1>1, <1>2, <1>3, <1>5 DEF CountersSound
  <2> QED BY <2>2, <2>3
<1>7. Tables'
  BY <1>1, <1>2, <1>4 DEF Tables
<1>8. HandlesSound'
  BY <1>1, <1>2, <1>3, <1>4, HandlesUntouched
<1>9. BlocksSound'
  BY <1>1, <1>2, <1>4, SameBlocks
<1>10. LinksEndSound'
  BY <1>1, <1>2, <1>3, <1>4, SameLinks
<1> QED BY <1>5, <1>6, <1>7, <1>8, <1>9, <1>10 DEF Sound

LEMMA LinkKeeps ==
  ASSUME Inv, NEW target \in Names, NEW link_name \in Names,
         tfs_link(target, link_name) \/ LinkNotListed(target, link_name)
  PROVE  Inv'
<1> USE DEF tfs_link, LinkNotListed, blockVars
<1>1. PICK inum \in Inums : inum = find_in_dir(target) /\ inum \in Allocated
  BY FoundIsAllocated DEF Inv, Sound
<1>2. Type(inum) # "T_SYMLINK"
  BY <1>1 DEF IsSymlink, Type
<1>3. inode_table' = WithLinkMore(inum)
  BY <1>1
<1>4. Sound'
  <2>1. CASE tfs_link(target, link_name)
    <3>1. PICK slot \in Slots : Adds(slot, link_name, inum)
      BY <2>1, <1>1, AddFindsASlot DEF CannotList
    <3> QED BY <2>1, <3>1, <1>1, <1>2, <1>3, LinkListedKeeps DEF Inv
  <2>2. CASE LinkNotListed(target, link_name)
    BY <2>2, <1>1, <1>2, <1>3, LinkSpilledKeeps DEF Inv
  <2> QED BY <2>1, <2>2
<1>5. Rooted' /\ CopyOpen'
  BY DEF Inv, Rooted, CopyOpen, IsOpen
<1> QED BY <1>4, <1>5 DEF Inv

-----------------------------------------------------------------------------
(* tfs_write and CopyChunk                                                 *)

LEMMA WriteKeeps ==
  ASSUME Sound, NEW h \in Handles, NEW len \in 1 .. MaxTransfer,
         IsOpen(h), OffsetOf(h) < BLOCK_SIZE, HasRoom(h),
         WriteAt(h, ToWrite(h, len)), lapses' = lapses
  PROVE  Sound' /\ \A j \in Handles : IsOpen(j) => IsOpen(j)'
<1>1. Tables /\ StaleNamesLast /\ EntriesSound /\ NamesOnce /\ CountersSound
      /\ BlocksSound /\ HandlesSound /\ LinksEndSound
  BY DEF Sound
<1>2. PICK inum \in Inums : inum = InumOf(h)
  BY <1>1 DEF HandlesSound
<1>3. PICK end : end = OffsetOf(h) + ToWrite(h, len)
  OBVIOUS
<1>4. end \in 1 .. BLOCK_SIZE
  <2>1. OffsetOf(h) \in Nat /\ len \in Nat \ {0}
    BY <1>1, Sizes DEF Tables, OffsetOf
  <2> QED BY <2>1, <1>3, Sizes DEF ToWrite, Least
<1>5. SizeOf(h) = Size(inum) /\ BlockOf(h) = Data(inum) /\ Size(inum) \in 0 .. BLOCK_SIZE
  BY <1>1, <1>2 DEF SizeOf, BlockOf, Size, Data, Tables
<1>6. PICK bnum \in Blocks :
        /\ bnum = WritesTo(h)
        /\ Size(inum) > 0 => bnum = Data(inum)
        /\ ~(Size(inum) > 0) => free_blocks[bnum] = FREE
  <2>1. CASE Size(inum) > 0
    BY <2>1, <1>1, <1>5 DEF WritesTo, BlocksSound
  <2>2. CASE ~(Size(inum) > 0)
    <3>1. Size(inum) = 0 /\ CanAllocBlock
      BY <2>2, <1>5, Sizes DEF HasRoom
    <3> QED BY <3>1, <2>2, <1>1, <1>5, NextBlockIsFree DEF WritesTo
  <2> QED BY <2>1, <2>2
<1>7. PICK size : size = Greatest(SizeOf(h), end)
  OBVIOUS
<1>8. size \in 1 .. BLOCK_SIZE /\ size >= Size(inum)
  BY <1>4, <1>5, <1>7, Sizes DEF Greatest
<1>9. /\ free_blocks' = IF Size(inum) = 0 THEN Take(free_blocks, bnum)
                       ELSE free_blocks
      /\ inode_table' = [inode_table EXCEPT ![inum].i_size = size,
                                            ![inum].i_data_block = bnum]
      /\ open_file_table' = [open_file_table EXCEPT ![h].of_offset = end]
      /\ UNCHANGED <<freeinode_ts, dir_entries>>
  BY <1>2, <1>3, <1>5, <1>6, <1>7 DEF WriteAt, BlocksAfterWrite, WritesTo
<1>10. PICK path \in Texts : text' = [text EXCEPT ![bnum] = path]
  BY <1>6, Sizes DEF WriteAt, TextAfterWrite
<1>11. /\ inode_table' \in [Inums -> InodeType]
       /\ \A i \in Inums : Type(i)' = Type(i) /\ Counter(i)' = Counter(i)
       /\ \A i \in Inums \ {inum} : Size(i)' = Size(i) /\ Data(i)' = Data(i)
       /\ Size(inum)' = size /\ Data(inum)' = bnum
  <2>1. inode_table'[inum] =
          [inode_table[inum] EXCEPT !.i_size = size, !.i_data_block = bnum]
        /\ \A i \in Inums \ {inum} : inode_table'[i] = inode_table[i]
    BY <1>1, <1>9 DEF Tables
  <2>2. inode_table[inum] \in InodeType /\ size \in 0 .. BLOCK_SIZE
    BY <1>1, <1>8, Sizes DEF Tables
  <2>3. inode_table' \in [Inums -> InodeType]
    BY <1>1, <1>9, <2>2 DEF Tables
  <2>4. /\ inode_table'[inum].i_node_type = inode_table[inum].i_node_type
        /\ inode_table'[inum].i_link_counter = inode_table[inum].i_link_counter
        /\ inode_table'[inum].i_size = size
        /\ inode_table'[inum].i_data_block = bnum
    BY <2>1, <2>2
  <2> QED BY <2>1, <2>3, <2>4 DEF Type, Counter, Size, Data
<1>12. Tables'
  <2>1. open_file_table' \in [Handles -> HandleType]
    BY <1>1, <1>4, <1>9, Sizes, SMTT(40) DEF Tables
  <2> QED BY <1>1, <1>9, <1>10, <1>11, <2>1 DEF Tables, Take
<1>13. Allocated' = Allocated /\ Allocated \subseteq Inums
  BY <1>9 DEF Allocated
<1>14. StaleNamesLast' /\ EntriesSound' /\ NamesOnce'
       /\ \A i : EntriesOf(i)' = EntriesOf(i)
  BY <1>1, <1>9, <1>11, <1>13, SameDirectory
<1>15. CountersSound'
  <2>1. \A i \in Inums : Size(i) > 0 => Size(i)' > 0
    BY <1>8, <1>11, Sizes
  <2> QED BY <2>1, <1>1, <1>11, <1>13, <1>14 DEF CountersSound
<1>16. (\A j \in Handles : IsOpen(j) => IsOpen(j)')
       /\ \A j \in Handles : IsOpen(j)' => IsOpen(j) /\ InumOf(j)' = InumOf(j)
  <2>1. \A j \in Handles : j # h => open_file_table'[j] = open_file_table[j]
    BY <1>1, <1>9 DEF Tables
  <2>2. open_file_table'[h].of_inumber = inum
    BY <1>1, <1>2, <1>9 DEF Tables, InumOf
  <2>3. inum # -1 /\ Closed.of_inumber = -1
    BY Sizes DEF Closed
  <2>4. IsOpen(h)' /\ InumOf(h)' = inum
    BY <2>2, <2>3 DEF IsOpen, InumOf
  <2> QED BY <2>1, <2>4, <1>2 DEF IsOpen, InumOf
<1>17. HandlesSound'
  <2> SUFFICES ASSUME NEW j \in Handles, IsOpen(j)'
               PROVE  (/\ InumOf(j) \in Inums
                       /\ "orphaned" \notin lapses =>
                             /\ InumOf(j) \in Allocated
                             /\ Type(InumOf(j)) # "T_SYMLINK")'
    BY DEF HandlesSound
  <2>1. PICK i \in Inums : i = InumOf(j)
    BY <1>1, <1>16 DEF HandlesSound
  <2>2. InumOf(j)' = i /\ Type(i)' = Type(i)
    BY <2>1, <1>11, <1>16
  <2> QED BY <2>1, <2>2, <1>1, <1>13, <1>16 DEF HandlesSound, Type
<1>18. ASSUME NEW i \in Owners, i # inum, freeinode_ts[inum] = TAKEN
       PROVE  Data(i) # bnum
  <2>1. CASE Size(inum) > 0
    BY <2>1, <1>1, <1>6, <1>18 DEF Owners, BlocksSound
  <2>2. CASE ~(Size(inum) > 0)
    BY <2>2, <1>1, <1>6 DEF BlocksSound, FREE, TAKEN
  <2> QED BY <2>1, <2>2
<1>19. LinksEndSound'
  <2> SUFFICES ASSUME "orphaned" \notin lapses, NEW i \in Allocated,
                      Type(i) = "T_SYMLINK", EntriesOf(i) # {}
               PROVE  Data(i)' = Data(i) /\ text'[Data(i)] = text[Data(i)]
    BY <1>1, <1>9, <1>11, <1>13, SameLinks
  <2>1. inum \in Allocated /\ Type(inum) # "T_SYMLINK"
    BY <1>1, <1>2 DEF HandlesSound
  <2>2. i # inum /\ i \in Owners /\ Data(i) \in Blocks
    BY <2>1, <1>1, TextsInUse
  <2>3. Data(i) # bnum
    BY <2>1, <2>2, <1>18 DEF Allocated
  <2> QED BY <2>2, <2>3, <1>1, <1>10, <1>11 DEF Tables, Owners
<1>20. BlocksSound'
  <2>1. \A i \in Inums : Size(i)' > 0 => Data(i)' \in Blocks
    BY <1>1, <1>11 DEF BlocksSound
  <2>2. /\ freeinode_ts[inum] = TAKEN => free_blocks'[bnum] = TAKEN
        /\ \A blk \in Blocks : free_blocks[blk] = TAKEN => free_blocks'[blk] = TAKEN
        /\ \A blk \in Blocks \ {bnum} : free_blocks'[blk] = free_blocks[blk]
    <3>1. free_blocks' \in [Blocks -> {FREE, TAKEN}] /\ bnum \in Blocks
      BY <1>12 DEF Tables
    <3>2. CASE Size(inum) = 0
      BY <3>2, <3>1, <1>1, <1>9 DEF Tables, Take
    <3>3. CASE Size(inum) # 0
      <4>1. freeinode_ts[inum] = TAKEN => inum \in Owners /\ bnum = Data(inum)
        BY <3>3, <1>5, <1>6, Sizes DEF Owners
      <4>2. free_blocks' = free_blocks
        BY <3>3, <1>9
      <4> QED BY <4>1, <4>2, <1>1 DEF BlocksSound
    <3> QED BY <3>2, <3>3
  <2>3. \A i \in Owners : Data(i) \in Blocks /\ i \in Inums
    BY <1>1 DEF Owners, BlocksSound
  <2>4. CASE freeinode_ts[inum] = TAKEN
    <3>1. Owners' = Owners \cup {inum}
      BY <2>4, <1>8, <1>9, <1>11 DEF Owners
    <3>2. \A i \in Owners \ {inum} : Data(i)' = Data(i) /\ Data(i) # bnum
      BY <2>3, <2>4, <1>11, <1>18
    <3>3. \A i \in Owners' : free_blocks'[Data(i)'] = TAKEN
      <4> SUFFICES ASSUME NEW i \in Owners'
                   PROVE  free_blocks'[Data(i)'] = TAKEN
        OBVIOUS
      <4>1. CASE i = inum
        BY <4>1, <2>2, <2>4, <1>11
      <4>2. CASE i # inum
        BY <4>2, <3>1, <3>2, <2>2, <2>3, <1>1 DEF BlocksSound
      <4> QED BY <4>1, <4>2
    <3>4. \A i, j \in Owners' : i # j => Data(i)' # Data(j)'
      BY <3>1, <3>2, <1>1, <1>11 DEF BlocksSound
    <3>5. ASSUME {"spilled", "orphaned"} \cap lapses' = {},
                 NEW blk \in Blocks, free_blocks'[blk] = TAKEN
          PROVE  \E i \in Owners' : Data(i)' = blk
      <4>1. CASE blk = bnum
        BY <4>1, <3>1, <1>11
      <4>2. CASE blk # bnum
        <5>1. PICK i \in Owners : Data(i) = blk
          BY <4>2, <3>5, <2>2, <1>1 DEF BlocksSound
        <5>2. i # inum
          BY <5>1, <4>2, <1>6 DEF Owners
        <5> QED BY <5>1, <5>2, <3>1, <3>2
      <4> QED BY <4>1, <4>2
    <3> QED BY <2>1, <3>3, <3>4, <3>5 DEF BlocksSound
  <2>5. CASE freeinode_ts[inum] # TAKEN
    <3>1. Owners' = Owners /\ inum \notin Owners
      BY <2>5, <1>9, <1>11 DEF Owners
    <3>2. \A i \in Owners : Data(i)' = Data(i)
      BY <3>1, <2>3, <1>11
    <3>3. "orphaned" \in lapses
      BY <2>5, <1>1, <1>2 DEF HandlesSound, Allocated
    <3> QED BY <3>1, <3>2, <3>3, <2>1, <2>2, <2>3, <1>1 DEF BlocksSound
  <2> QED BY <2>4, <2>5
<1> QED BY <1>12, <1>14, <1>15, <1>16, <1>17, <1>19, <1>20 DEF Sound

LEMMA WriteCallsKeep ==
  ASSUME Inv, NEW len \in 1 .. MaxTransfer,
         (\E h \in Handles : tfs_write(h, len)) \/ CopyChunk(len)
  PROVE  Inv'
<1> USE DEF callVars
<1>1. PICK h \in Handles :
        /\ status \in {"mounted", "copying"}
        /\ IsOpen(h) /\ OffsetOf(h) < BLOCK_SIZE /\ HasRoom(h)
        /\ WriteAt(h, ToWrite(h, len))
        /\ UNCHANGED <<status, callVars>>
  <2>1. CASE CopyChunk(len)
    BY <2>1 DEF CopyChunk, Inv, CopyOpen
  <2>2. CASE \E h \in Handles : tfs_write(h, len)
    BY <2>2 DEF tfs_write
  <2> QED BY <2>1, <2>2
<1>2. Sound' /\ \A j \in Handles : IsOpen(j) => IsOpen(j)'
  BY <1>1, WriteKeeps DEF Inv
<1>3. freeinode_ts' = freeinode_ts
  BY <1>1 DEF WriteAt
<1>4. Rooted'
  BY <1>1, <1>3 DEF Inv, Rooted
<1>5. CopyOpen'
  BY <1>1, <1>2 DEF Inv, CopyOpen
<1> QED BY <1>1, <1>2, <1>4, <1>5 DEF Inv

-----------------------------------------------------------------------------
(* tfs_unlink                                                              *)

\* The directory without an entry: the inode it named is still allocated, or
\* that entry was its last.
LEMMA DirectoryWithoutEntry ==
  ASSUME Tables, StaleNamesLast, EntriesSound, NamesOnce,
         NEW name, NEW inum \in Inums, inum = find_in_dir(name),
         NEW slot \in Slots, Clears(slot, name), lapses \subseteq lapses',
         \A i \in Inums : Type(i)' = Type(i),
         \A i \in Allocated : i \in Allocated' \/ EntriesOf(i)' = {}
  PROVE  StaleNamesLast' /\ EntriesSound' /\ NamesOnce'
<1>1. /\ SlotsUsed' = SlotsUsed \ {slot}
      /\ \A s \in SlotsUsed' : dir_entries'[s] = dir_entries[s]
      /\ StaleNamesLast'
  BY ClearedEntry
<1>2. EntriesSound'
  <2> SUFFICES ASSUME NEW s \in SlotsUsed'
               PROVE  (/\ dir_entries[s].d_name \in Texts
                       /\ dir_entries[s].d_inumber \in Allocated
                       /\ dir_entries[s].d_name = Garbled =>
                             Type(dir_entries[s].d_inumber) # "T_SYMLINK")'
    BY DEF EntriesSound
  <2>1. s \in SlotsUsed /\ s \in Slots /\ dir_entries'[s] = dir_entries[s]
    BY <1>1 DEF SlotsUsed
  <2>2. PICK i \in Allocated : i = dir_entries[s].d_inumber
    BY <2>1 DEF EntriesSound
  <2>3. s \in EntriesOf(i)'
    BY <2>1, <2>2 DEF EntriesOf
  <2>4. i \in Allocated' /\ Type(i)' = Type(i)
    BY <2>3 DEF Allocated
  <2> QED BY <2>1, <2>2, <2>4 DEF EntriesSound, Type
<1>3. NamesOnce'
  BY <1>1 DEF NamesOnce
<1> QED BY <1>1, <1>2, <1>3

\* A link listed after the call was listed before, with the same inode.
LEMMA FoundAfterClearing ==
  ASSUME Tables, StaleNamesLast, NamesOnce, "relinked" \notin lapses,
         NEW name, NEW inum \in Inums, inum = find_in_dir(name),
         NEW slot \in Slots, Clears(slot, name), NEW n, Listed(n)'
  PROVE  Listed(n) /\ find_in_dir(n)' = find_in_dir(n)
<1>1. /\ SlotsUsed' = SlotsUsed \ {slot}
      /\ \A s \in SlotsUsed' : dir_entries'[s] = dir_entries[s]
      /\ SlotsNamed(n)' = SlotsNamed(n) \ {slot}
  BY ClearedEntry
<1>2. SlotsNamed(name) = {slot}
  BY DEF NamesOnce, Clears, SlotsNamed
<1>3. n # name /\ slot \notin SlotsNamed(n)
  BY <1>1, <1>2 DEF Listed, SlotsNamed, Clears
<1>4. Listed(n) /\ SlotsNamed(n)' = SlotsNamed(n)
  BY <1>1, <1>3 DEF Listed
<1>5. First(SlotsNamed(n)) \in SlotsUsed \ {slot}
  BY <1>3, <1>4, FoundEntry DEF SlotsNamed
<1> QED BY <1>1, <1>4, <1>5 DEF find_in_dir

\* inode_delete: the block is given back and the inode is free.
LEMMA DeletedBlocks ==
  ASSUME Tables, BlocksSound, NEW inum \in Allocated, inode_delete(inum),
         \A i \in Inums : Size(i)' = Size(i) /\ Data(i)' = Data(i),
         lapses \subseteq lapses'
  PROVE  BlocksSound' /\ Allocated' = Allocated \ {inum}
<1>1. inum \in Inums /\ freeinode_ts[inum] = TAKEN
  BY DEF Allocated
<1>2. /\ freeinode_ts'[inum] = FREE
      /\ \A i \in Inums \ {inum} : freeinode_ts'[i] = freeinode_ts[i]
  BY <1>1 DEF Tables, inode_delete, Release
<1>3. Owners' = Owners \ {inum} /\ Allocated' = Allocated \ {inum}
  BY <1>2 DEF Owners, Allocated, FREE, TAKEN
<1>4. free_blocks' = BlocksWithoutDataOf(inum)
  BY DEF inode_delete
<1> QED BY <1>1, <1>3, <1>4, DataGivenBack

LEMMA DeletedTables ==
  ASSUME Tables, inode_table' \in [Inums -> InodeType], NEW inum, NEW slot,
         dir_entries' = [dir_entries EXCEPT ![slot] = Unused],
         inode_delete(inum) \/ UNCHANGED <<freeinode_ts, free_blocks>>,
         UNCHANGED <<text, open_file_table>>, lapses' \subseteq Lapses
  PROVE  Tables'
<1>1. Unused \in EntryType
  BY DEF Unused
<1>2. freeinode_ts' \in [Inums -> {FREE, TAKEN}]
      /\ free_blocks' \in [Blocks -> {FREE, TAKEN}]
  BY DEF Tables, inode_delete, Release, BlocksWithoutDataOf
<1> QED BY <1>1, <1>2 DEF Tables

LEMMA UnlinkSymlinkKeeps ==
  ASSUME Sound, NEW name \in Names, UnlinkSymlink(name),
         UNCHANGED <<text, open_file_table>>
  PROVE  Sound'
<1>1. Tables /\ StaleNamesLast /\ EntriesSound /\ NamesOnce /\ CountersSound
      /\ BlocksSound /\ HandlesSound /\ LinksEndSound
  BY DEF Sound
<1>2. Listed(name) /\ name \in Texts
  BY Sizes DEF UnlinkSymlink, IsSymlink
<1>3. PICK inum \in Inums : inum = find_in_dir(name) /\ inum \in Allocated
  BY <1>1, <1>2, FoundIsAllocated
<1>4. PICK slot \in Slots : Clears(slot, name)
  BY <1>1, <1>2, ClearFindsTheEntry DEF UnlinkSymlink
<1>5. inode_delete(inum) /\ inode_table' = inode_table /\ lapses' = lapses
  BY <1>3 DEF UnlinkSymlink
<1>6. Type(inum) = "T_SYMLINK"
  BY <1>3 DEF UnlinkSymlink, IsSymlink, Type
<1>7. \A i : /\ Type(i)' = Type(i) /\ Size(i)' = Size(i)
             /\ Data(i)' = Data(i) /\ Counter(i)' = Counter(i)
  BY <1>5 DEF Type, Size, Data, Counter
<1>8. BlocksSound' /\ Allocated' = Allocated \ {inum}
  BY <1>1, <1>3, <1>5, <1>7, DeletedBlocks
<1>9. /\ \A i \in Inums \ {inum} : EntriesOf(i)' = EntriesOf(i)
      /\ EntriesOf(inum)' = EntriesOf(inum) \ {slot}
      /\ slot \in EntriesOf(inum)
      /\ Cardinality(EntriesOf(inum)') = Cardinality(EntriesOf(inum)) - 1
  BY <1>1, <1>3, <1>4, ClearedEntry
\* The link had one entry.
<1>10. EntriesOf(inum)' = {}
  <2>1. Cardinality(EntriesOf(inum)) <= 1
    BY <1>1, <1>3, <1>6 DEF CountersSound
  <2>2. IsFiniteSet(EntriesOf(inum)) /\ Cardinality(EntriesOf(inum)) \in Nat
    BY EntriesAreFinite
  <2>3. IsFiniteSet(EntriesOf(inum)') /\ Cardinality(EntriesOf(inum)') \in Nat
    BY <2>2, <1>9, FS_RemoveElement, FS_CardinalityType
  <2>4. Cardinality(EntriesOf(inum)') = 0
    BY <2>1, <2>2, <2>3, <1>9
  <2> QED BY <2>3, <2>4, FS_EmptySet
<1>11. StaleNamesLast' /\ EntriesSound' /\ NamesOnce'
  BY <1>1, <1>3, <1>4, <1>5, <1>7, <1>8, <1>10, DirectoryWithoutEntry
<1>12. CountersSound'
  <2>1. \A i \in Allocated' : i \in Allocated /\ i \in Inums \ {inum}
    BY <1>8 DEF Allocated
  <2> QED BY <2>1, <1>1, <1>5, <1>7, <1>9 DEF CountersSound
<1>13. Tables'
  BY <1>1, <1>4, <1>5, DeletedTables DEF Clears, Tables
<1>14. HandlesSound'
  <2>1. \A h \in Handles : IsOpen(h)' = IsOpen(h) /\ InumOf(h)' = InumOf(h)
    BY DEF IsOpen, InumOf
  <2> QED BY <2>1, <1>1, <1>5, <1>6, <1>7, <1>8 DEF HandlesSound
<1>15. LinksEndSound'
  <2> SUFFICES ASSUME {"relinked", "orphaned"} \cap lapses' = {},
                      NEW n \in Texts, IsSymlink(n)'
               PROVE  Listed(n) /\ find_in_dir(n)' = find_in_dir(n)
    BY <1>1, <1>5, <1>7, LinksEndKept
  <2>1. "relinked" \notin lapses /\ Listed(n)'
    BY <1>5 DEF IsSymlink
  <2> QED BY <2>1, <1>1, <1>3, <1>4, FoundAfterClearing
<1> QED BY <1>8, <1>11, <1>12, <1>13, <1>14, <1>15 DEF Sound

LEMMA UnlinkFileKeeps ==
  ASSUME Sound, NEW name \in Names, UnlinkFile(name),
         UNCHANGED <<text, open_file_table>>
  PROVE  Sound'
<1>1. Tables /\ StaleNamesLast /\ EntriesSound /\ NamesOnce /\ CountersSound
      /\ BlocksSound /\ HandlesSound /\ LinksEndSound
  BY DEF Sound
<1>2. Listed(name) /\ name \in Texts
  BY Sizes DEF UnlinkFile
<1>3. PICK inum \in Inums : inum = find_in_dir(name) /\ inum \in Allocated
  BY <1>1, <1>2, FoundIsAllocated
<1>4. PICK slot \in Slots : Clears(slot, name)
  BY <1>1, <1>2, ClearFindsTheEntry DEF UnlinkFile
<1>5. /\ inode_table' = [inode_table EXCEPT
            ![inum].i_link_counter = inode_table[inum].i_link_counter - 1]
      /\ \/ /\ LinksLeft(inum) = 0 /\ inode_delete(inum)
            /\ lapses' = lapses \cup
                  (IF FileIsOpen(inum) THEN {"orphaned"} ELSE {})
         \/ /\ LinksLeft(inum) # 0
            /\ UNCHANGED <<freeinode_ts, free_blocks, lapses>>
  BY <1>3 DEF UnlinkFile
<1>6. Type(inum) # "T_SYMLINK"
  BY <1>3 DEF UnlinkFile, IsSymlink, Type
<1>7. lapses \subseteq lapses' /\ lapses' \subseteq Lapses
  BY <1>1, <1>5 DEF Tables, Lapses
<1>8. /\ \A i \in Inums \ {inum} : EntriesOf(i)' = EntriesOf(i)
      /\ EntriesOf(inum)' = EntriesOf(inum) \ {slot}
      /\ slot \in EntriesOf(inum)
      /\ Cardinality(EntriesOf(inum)') = Cardinality(EntriesOf(inum)) - 1
  BY <1>1, <1>3, <1>4, ClearedEntry
<1>9. /\ Cardinality(EntriesOf(inum)) \in Nat /\ Cardinality(EntriesOf(inum)') \in Nat
      /\ Cardinality(EntriesOf(inum)') = 0 <=> EntriesOf(inum)' = {}
      /\ Cardinality(EntriesOf(inum)) <= Counter(inum)
      /\ Counter(inum) \in Nat /\ Counter(inum) - 1 \in Nat
  <2>1. IsFiniteSet(EntriesOf(inum)) /\ Cardinality(EntriesOf(inum)) \in Nat
    BY EntriesAreFinite
  <2>2. IsFiniteSet(EntriesOf(inum)') /\ Cardinality(EntriesOf(inum)') \in Nat
    BY <2>1, <1>8, FS_RemoveElement, FS_CardinalityType
  <2>3. Cardinality(EntriesOf(inum)) <= Counter(inum) /\ Counter(inum) \in Nat
    BY <1>1, <1>3 DEF CountersSound, Tables, Counter
  <2>4. Cardinality(EntriesOf(inum)') = 0 <=> EntriesOf(inum)' = {}
    BY <2>2, FS_EmptySet
  <2> QED BY <2>1, <2>2, <2>3, <2>4, <1>8
<1>10. /\ inode_table' \in [Inums -> InodeType]
       /\ \A i \in Inums : /\ Type(i)' = Type(i) /\ Size(i)' = Size(i)
                           /\ Data(i)' = Data(i)
       /\ \A i \in Inums \ {inum} : Counter(i)' = Counter(i)
       /\ Counter(inum)' = Counter(inum) - 1
  <2>1. inode_table[inum].i_link_counter - 1 \in Nat
    BY <1>9 DEF Counter
  <2> QED BY <2>1, <1>1, <1>5 DEF Tables, Type, Size, Data, Counter
<1>11. LinksLeft(inum) = Counter(inum) - 1
  BY DEF LinksLeft, Counter
<1>12. CASE LinksLeft(inum) = 0
  <2>1. inode_delete(inum)
        /\ ("orphaned" \notin lapses' => ~FileIsOpen(inum))
    BY <1>5, <1>12
  <2>2. BlocksSound' /\ Allocated' = Allocated \ {inum}
    BY <2>1, <1>1, <1>3, <1>7, <1>10, DeletedBlocks
  \* The counter was 1, and so was the number of entries.
  <2>3. EntriesOf(inum)' = {}
    BY <1>8, <1>9, <1>11, <1>12
  <2>4. StaleNamesLast' /\ EntriesSound' /\ NamesOnce'
    BY <2>2, <2>3, <1>1, <1>3, <1>4, <1>7, <1>10, DirectoryWithoutEntry
  <2>5. CountersSound'
    <3>1. \A i \in Allocated' : i \in Allocated /\ i \in Inums \ {inum}
      BY <2>2 DEF Allocated
    <3> QED BY <3>1, <1>1, <1>7, <1>8, <1>10 DEF CountersSound
  <2>6. Tables'
    BY <2>1, <1>1, <1>4, <1>7, <1>10, DeletedTables DEF Clears
  <2>7. HandlesSound'
    <3> SUFFICES ASSUME NEW h \in Handles, IsOpen(h)'
                 PROVE  (/\ InumOf(h) \in Inums
                         /\ "orphaned" \notin lapses =>
                               /\ InumOf(h) \in Allocated
                               /\ Type(InumOf(h)) # "T_SYMLINK")'
      BY DEF HandlesSound
    <3>1. IsOpen(h) /\ InumOf(h)' = InumOf(h)
      BY DEF IsOpen, InumOf
    <3>2. PICK i \in Inums : i = InumOf(h)
      BY <3>1, <1>1 DEF HandlesSound
    <3>3. "orphaned" \notin lapses' =>
             i \in Allocated \ {inum} /\ Type(i) # "T_SYMLINK"
      BY <3>1, <3>2, <2>1, <1>1, <1>7 DEF HandlesSound, FileIsOpen
    <3>4. Type(i)' = Type(i)
      BY <1>10
    <3> QED BY <3>1, <3>2, <3>3, <3>4, <2>2 DEF Type
  <2>8. LinksEndSound'
    <3> SUFFICES ASSUME {"relinked", "orphaned"} \cap lapses' = {},
                        NEW n \in Texts, IsSymlink(n)'
                 PROVE  Listed(n) /\ find_in_dir(n)' = find_in_dir(n)
      BY <1>1, <1>7, <1>10, LinksEndKept DEF Allocated
    <3>1. "relinked" \notin lapses /\ Listed(n)'
      BY <1>7 DEF IsSymlink
    <3> QED BY <3>1, <1>1, <1>3, <1>4, FoundAfterClearing
  <2> QED BY <2>2, <2>4, <2>5, <2>6, <2>7, <2>8 DEF Sound
<1>13. CASE LinksLeft(inum) # 0
  <2>1. UNCHANGED <<freeinode_ts, free_blocks, lapses>>
    BY <1>5, <1>13
  <2>2. Allocated' = Allocated /\ Allocated \subseteq Inums
    BY <2>1 DEF Allocated
  <2>3. BlocksSound'
    BY <2>1, <1>1, <1>10, SameBlocks
  <2>4. StaleNamesLast' /\ EntriesSound' /\ NamesOnce'
    BY <2>2, <1>1, <1>3, <1>4, <1>7, <1>10, DirectoryWithoutEntry
  <2>5. CountersSound'
    <3> SUFFICES ASSUME NEW i \in Allocated
                 PROVE  (/\ Cardinality(EntriesOf(i)) <= Counter(i)
                         /\ Type(i) = "T_SYMLINK" =>
                              Counter(i) = 1 /\ (EntriesOf(i) # {} => Size(i) > 0)
                         /\ "spilled" \notin lapses =>
                              Counter(i) = Cardinality(EntriesOf(i))
                              /\ EntriesOf(i) # {})'
      BY <2>2 DEF CountersSound
    <3>1. CASE i = inum
      BY <3>1, <2>1, <1>1, <1>6, <1>8, <1>9, <1>10, <1>11, <1>13
         DEF CountersSound
    <3>2. CASE i # inum
      BY <3>2, <2>1, <2>2, <1>1, <1>8, <1>10 DEF CountersSound
    <3> QED BY <3>1, <3>2
  <2>6. Tables'
    BY <2>1, <1>1, <1>4, <1>7, <1>10, DeletedTables DEF Clears
  <2>7. HandlesSound'
    BY <2>2, <1>1, <1>7, <1>10, HandlesUntouched
  <2>8. LinksEndSound'
    <3> SUFFICES ASSUME {"relinked", "orphaned"} \cap lapses' = {},
                        NEW n \in Texts, IsSymlink(n)'
                 PROVE  Listed(n) /\ find_in_dir(n)' = find_in_dir(n)
      BY <1>1, <1>7, <1>10, LinksEndKept DEF Allocated
    <3>1. "relinked" \notin lapses /\ Listed(n)'
      BY <1>7 DEF IsSymlink
    <3> QED BY <3>1, <1>1, <1>3, <1>4, FoundAfterClearing
  <2> QED BY <2>3, <2>4, <2>5, <2>6, <2>7, <2>8 DEF Sound
<1> QED BY <1>12, <1>13

LEMMA UnlinkKeeps ==
  ASSUME Inv, NEW name \in Names, tfs_unlink(name)
  PROVE  Inv'
<1> USE DEF tfs_unlink
<1>1. Sound'
  BY UnlinkSymlinkKeeps, UnlinkFileKeeps DEF Inv
<1>2. PICK inum \in Inums : inum = find_in_dir(name) /\ inum # ROOT_DIR_INUM
  BY FoundIsAllocated
     DEF Inv, Sound, UnlinkSymlink, UnlinkFile, IsSymlink
<1>3. freeinode_ts'[ROOT_DIR_INUM] = TAKEN
  <2>1. \/ freeinode_ts' = Release(freeinode_ts, inum)
        \/ freeinode_ts' = freeinode_ts
    BY <1>2 DEF UnlinkSymlink, UnlinkFile, inode_delete
  <2>2. freeinode_ts[ROOT_DIR_INUM] = TAKEN
        /\ freeinode_ts \in [Inums -> {FREE, TAKEN}]
    BY DEF Inv, Rooted, Sound, Tables
  <2> QED BY <2>1, <2>2, <1>2, Sizes DEF Release
<1>4. Rooted' /\ CopyOpen'
  BY <1>3 DEF Inv, Rooted, CopyOpen, IsOpen
<1> QED BY <1>1, <1>4 DEF Inv

-----------------------------------------------------------------------------
(* tfs_open and the start of a copy                                        *)

LEMMA OpensKeep ==
  ASSUME Inv, status = "mounted", NEW name \in Names,
         NEW trunc \in BOOLEAN, NEW append \in BOOLEAN,
         OpenExisting(name, trunc, append) \/ OpenCreate(name)
  PROVE  /\ Sound' /\ freeinode_ts'[ROOT_DIR_INUM] = TAKEN
         /\ FreeHandles # {} =>
              \A h : h = First(FreeHandles) => h \in Handles /\ IsOpen(h)'
<1>1. Sound /\ Tables /\ freeinode_ts[ROOT_DIR_INUM] = TAKEN
  BY DEF Inv, Rooted, Sound
<1>2. CASE OpenExisting(name, trunc, append)
  <2>1. PICK inum \in Inums : OpensInum(inum, trunc, append)
    BY <1>1, <1>2, OpenFindsAFile
  <2>2. SizeAfterOpen(inum, trunc) \in Nat
    BY <1>1, Sizes DEF SizeAfterOpen, Tables
  <2>3. PICK offset \in Nat : add_to_open_file_table(inum, offset)
    BY <2>1, <2>2 DEF OpensInum
  <2>4. Sound'
    BY <1>1, <2>1, OpenExistingKeeps
  <2> QED BY <1>1, <2>1, <2>3, <2>4, OpenedHandle DEF OpensInum
<1>3. CASE OpenCreate(name)
  <2>1. PICK last \in Texts, slot \in Slots, inum \in Inums :
            /\ ~Listed(last) /\ Adds(slot, last, inum)
            /\ Creates(inum, NewInode("T_FILE"))
            /\ add_to_open_file_table(inum, 0)
    BY <1>1, <1>3, OpenCreateAdds
  <2>2. Sound'
    BY <1>1, <1>3, <2>1, OpenCreateKeeps DEF OpenCreate
  <2>3. freeinode_ts'[ROOT_DIR_INUM] = TAKEN
    BY <1>1, <2>1 DEF Creates, Take, Tables
  <2> QED BY <1>1, <2>1, <2>2, <2>3, OpenedHandle
<1> QED BY <1>2, <1>3

LEMMA OpenKeeps ==
  ASSUME Inv, NEW name \in Names, NEW trunc \in BOOLEAN, NEW append \in BOOLEAN,
         tfs_open(name, trunc, append)
  PROVE  Inv'
<1> USE DEF tfs_open
<1>1. Sound' /\ freeinode_ts'[ROOT_DIR_INUM] = TAKEN
  BY OpensKeep
<1> QED BY <1>1 DEF Inv, Rooted, CopyOpen

LEMMA CopyStartsKeeps ==
  ASSUME Inv, NEW dest_path \in Names, CopyStarts(dest_path)
  PROVE  Inv'
<1> USE DEF CopyStarts
<1>1. Sound' /\ freeinode_ts'[ROOT_DIR_INUM] = TAKEN
  BY OpensKeep
<1>2. copying' \in Handles /\ IsOpen(copying)'
  <2>1. PICK h \in Handles : h = First(FreeHandles) /\ IsOpen(h)'
    <3>1. First(FreeHandles) \in Handles
      BY FirstIsLeast, Sizes DEF FreeHandles
    <3> QED BY <3>1, OpensKeep
  <2> QED BY <2>1 DEF IsOpen
<1> QED BY <1>1, <1>2 DEF Inv, Rooted, CopyOpen

-----------------------------------------------------------------------------
(* The theorems                                                            *)

LEMMA InvStarts == Init => Inv
<1>1. Init => Blank
  BY DEF Init, Blank
<1> QED BY <1>1, BlankIsSound

LEMMA InvStays == Inv /\ [Next]_vars => Inv'
<1> SUFFICES ASSUME Inv, [Next]_vars PROVE Inv'
  OBVIOUS
<1>1. CASE tfs_init
  BY <1>1, InitMounts
<1>2. CASE tfs_destroy
  BY <1>2, GoneIsSound DEF tfs_destroy
<1>3. CASE abort
  BY <1>3, GoneIsSound DEF abort
<1>4. CASE \E name \in Names, trunc, append \in BOOLEAN :
             tfs_open(name, trunc, append)
  BY <1>4, OpenKeeps
<1>5. CASE \E name \in Names : OpenCreateUndone(name)
  BY <1>5, UndoneKeeps
<1>6. CASE \E target, link_name \in Names : tfs_sym_link(target, link_name)
  BY <1>6, SymLinkKeeps
<1>7. CASE \E target, link_name \in Names :
             tfs_link(target, link_name) \/ LinkNotListed(target, link_name)
  BY <1>7, LinkKeeps
<1>8. CASE \E h \in Handles : tfs_close(h)
  BY <1>8, CloseKeeps
<1>9. CASE \E len \in 1 .. MaxTransfer :
             (\E h \in Handles : tfs_write(h, len)) \/ CopyChunk(len)
  BY <1>9, WriteCallsKeep
<1>10. CASE \E h \in Handles, len \in 1 .. MaxTransfer : tfs_read(h, len)
  BY <1>10, ReadKeeps
<1>11. CASE \E name \in Names : tfs_unlink(name)
  BY <1>11, UnlinkKeeps
<1>12. CASE \E dest_path \in Names : CopyStarts(dest_path)
  BY <1>12, CopyStartsKeeps
<1>13. CASE CopyEnds
  BY <1>13, CopyEndsKeeps
<1>14. CASE UNCHANGED vars
  <2> USE <1>14 DEF vars, inodeVars, blockVars, callVars
  <2>1. open_file_table' \in [Handles -> HandleType]
        /\ \A h \in Handles : IsOpen(h)' => IsOpen(h) /\ InumOf(h)' = InumOf(h)
    BY DEF Inv, Sound, Tables, IsOpen, InumOf
  <2>2. Sound'
    BY <2>1, SameTables DEF Inv
  <2> QED BY <2>2 DEF Inv, Rooted, CopyOpen, IsOpen
<1> QED
  BY <1>1, <1>2, <1>3, <1>4, <1>5, <1>6, <1>7, <1>8, <1>9, <1>10, <1>11, <1>12,
     <1>13, <1>14
     DEF Next, OpenLoops, SymLinkAborts, HandleAborts

LEMMA InvHolds == Spec => []Inv
BY InvStarts, InvStays, PTL DEF Spec

\* The tables keep their shape: an inode's counter never drops below zero
\* (UnlinkFile), its size stays within a block (WriteAt), and a used entry
\* has a name of the callers or of a link's text.
THEOREM LinksTypes == Spec => []TypeOK
<1>1. Inv => TypeOK
  BY DEF Inv, CopyOpen, Sound, Tables, TypeOK
<1> QED BY <1>1, InvHolds, PTL

\* A used entry names an allocated inode, whatever is linked, unlinked or left
\* halfway: the counter that tfs_link raises and tfs_unlink lowers covers the
\* entries, and a listed symbolic link has a block.
THEOREM EntriesKeepTheirInodes == Spec => []EntriesBacked
<1>1. Inv => EntriesBacked
  BY DEF Inv, Sound, EntriesSound, CountersSound, BlocksSound, EntriesBacked,
         Type, Size, Data, Counter, Allocated
<1> QED BY <1>1, InvHolds, PTL

\* No block is owned twice, also when handles to deleted files go on writing
\* (WriteAt) and when tfs_unlink gives the block of a link back twice.
THEOREM BlocksHaveOneOwner == Spec => []BlocksExclusive
<1>1. Inv => BlocksExclusive
  BY DEF Inv, Sound, BlocksSound, BlocksExclusive, Owners, Size, Data
<1> QED BY <1>1, InvHolds, PTL

\* Every inode is listed and every block owned, as long as no link call failed
\* halfway and, for the blocks, no open file was deleted.
THEOREM TablesDoNotLeak == Spec => []NothingLeaks
<1>1. Inv => NothingLeaks
  BY DEF Inv, Sound, CountersSound, BlocksSound, NothingLeaks, Owners, Size,
         Data, Counter
<1> QED BY <1>1, InvHolds, PTL

\* A chain of links ends at a name that is no link: verify_symlink_recursion
\* looks at the chain once, when the link is made, and if it read every link of
\* it as what it leads to, the chain still ends after files and links of it were
\* unlinked and their names used again.
THEOREM ChainsEnd == Spec => []SymlinksTerminate
<1>1. ASSUME Inv, LinksLeave, NEW n \in Names, IsSymlink(n), LoopsFrom(n)
      PROVE  FALSE
  <2> DEFINE chain == ChainFrom(n)
  <2>1. n \in chain /\ chain \subseteq Texts /\ \A m \in chain : IsSymlink(m)
    BY <1>1, Sizes DEF ChainFrom, LoopsFrom
  <2>2. ASSUME NEW m \in chain PROVE TargetOf(m) \in chain
    <3>1. IsSymlink(m) /\ Listed(m)
      BY <2>1 DEF IsSymlink
    <3>2. PICK i \in Allocated : i = find_in_dir(m) /\ EntriesOf(i) # {}
      BY <3>1, <1>1, FoundIsAllocated DEF Inv, Sound
    <3>3. Type(i) = "T_SYMLINK"
      BY <3>1, <3>2 DEF IsSymlink, Type
    <3>4. Data(i) \in Blocks
      BY <3>2, <3>3, <1>1, TextsInUse DEF Inv, Sound
    <3>5. TargetOf(m) \in Texts
      BY <3>2, <3>4, <1>1 DEF Inv, Sound, Tables, TargetOf, Data
    <3> QED BY <3>1, <3>5 DEF ChainFrom, FollowsLinks
  <2> HIDE DEF chain
  <2> QED BY <2>1, <2>2, <1>1 DEF LinksLeave
<1>2. Inv => SymlinksTerminate
  BY <1>1 DEF Inv, Sound, LinksEndSound, SymlinksTerminate, LinksEnd
<1> QED BY <1>2, InvHolds, PTL
=============================================================================
