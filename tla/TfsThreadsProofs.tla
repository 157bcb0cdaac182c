-------------------------- MODULE TfsThreadsProofs --------------------------
(***************************************************************************)
(* Proofs about TfsThreads: as long as no two Unsafe calls ran at once and *)
(* entry 0 of the directory was not filled under a lookup, no assertion    *)
(* fails and the tables are sound whenever no call is under way, and       *)
(* appends are kept, for every number of threads and of calls and for      *)
(* tables of every size.                                                   *)
(***************************************************************************)
EXTENDS TfsThreads, TfsLinksProofs

-----------------------------------------------------------------------------
(* The inductive invariant                                                 *)

Steps ==
    {"idle", "lookup", "looking", "readLock", "truncate", "freeData", "resetSize", "addOpen",
     "allocInode", "initInode", "linkBlock", "writeLock", "addPick", "addStore",
     "addName", "clearPick", "clearStore", "lower", "storeCounter", "testCounter",
     "freeBlock", "delete", "freeInode"}

CallType ==
    [kind : Kinds \cup {"none"}, name : Texts \cup {NoName},
     target : Names \cup {NoName}, creat : BOOLEAN, inum : Inums \cup {-1},
     slot : Slots \cup {-1}, offset : Nat, count : Nat]

ThreadTypes ==
    /\ pc \in [Threads -> Steps]
    /\ call \in [Threads -> CallType]
    /\ handle \in [Threads -> Handles \cup {-1}]
    /\ readers \in [Inums -> SUBSET Threads]
    /\ writer \in [Inums -> Threads \cup {NoThread}]

Truncating == {"truncate", "freeData", "resetSize"}
Clearing   == {"clearPick", "clearStore"}
Lowering   == {"lower", "storeCounter", "testCounter", "freeBlock"}
Deleting   == {"delete", "freeInode"}
Adding     == {"addPick", "addStore"}
Filling    == Adding \cup {"addName"}
Looking    == {"lookup", "looking"}

\* The steps of each kind of call
KindFits(t) ==
    LET kind == call[t].kind IN
    /\ pc[t] = "idle" <=> kind = "none"
    /\ kind = "append"   => pc[t] \in {"readLock", "addOpen"} \cup Looking
    /\ kind = "truncate" => pc[t] \in {"readLock", "addOpen"} \cup Truncating \cup Looking
    /\ kind = "create"   => pc[t] \in {"allocInode", "initInode", "addOpen"}
                                        \cup Filling \cup Deleting
    /\ kind = "symlink"  => pc[t] \in {"looking", "allocInode", "initInode", "linkBlock"}
                                        \cup Filling
    /\ kind = "link"     => pc[t] \in {"looking", "writeLock"} \cup Filling
    /\ kind = "unlink"   => pc[t] \in {"looking", "readLock"} \cup Clearing \cup Lowering
                                        \cup Deleting

KindsApart ==
    \A t, u \in Threads :
       t # u /\ ~Idle(t) /\ ~Idle(u) => {call[t].kind, call[u].kind} \notin Unsafe

\* t goes on with an inode it found, of which there are entries.
Found(t) ==
    pc[t] \in {"readLock", "writeLock", "addName", "addOpen"} \cup Truncating \cup Clearing

\* t makes an inode that no entry names yet.
Making(t) == /\ call[t].kind \in {"create", "symlink"}
             /\ pc[t] \in {"initInode", "linkBlock"} \cup Adding \cup Deleting

\* t is about to change the entries of its inode, the counter, or both.
Changing(t) == pc[t] \in {"initInode", "linkBlock"} \cup Adding \cup Lowering \cup Deleting

InHand(i) == \E t \in Threads : Changing(t) /\ call[t].inum = i

\* The counter is one ahead of the entries.
Ahead(i) ==
    /\ Cardinality(EntriesOf(i)) + 1 <= Counter(i)
    /\ "spilled" \notin lapses => Counter(i) = Cardinality(EntriesOf(i)) + 1

Counted(i) ==
    /\ Cardinality(EntriesOf(i)) <= Counter(i)
    /\ "spilled" \notin lapses => Counter(i) = Cardinality(EntriesOf(i))

Settled(i) ==
    /\ Counted(i)
    /\ Type(i) = "T_SYMLINK" => Counter(i) = 1 /\ (EntriesOf(i) # {} => Size(i) > 0)
    /\ "spilled" \notin lapses => EntriesOf(i) # {}

CountersApart == \A i \in Allocated : ~InHand(i) => Settled(i)

Isnt(i, type) == Type(i) # type

\* What t looks for: tfs_sym_link for a name that is listed
PlanOfLooking(t) ==
    pc[t] \in Looking =>
       /\ call[t].name \in Texts
       /\ call[t].creat => call[t].kind \in {"append", "truncate"}
       /\ call[t].kind = "symlink" => Listed(call[t].target)

\* What t knows of the inode in hand
PlanOfOpen(t) ==
    LET i == call[t].inum IN
    /\ Found(t) => i \in Allocated /\ EntriesOf(i) # {}
    /\ pc[t] \in Truncating => Isnt(i, "T_SYMLINK") /\ t \in readers[i]
    /\ pc[t] = "freeData" => Size(i) > 0

PlanOfMaking(t) ==
    LET i == call[t].inum IN
    Making(t) =>
       /\ i \in Allocated /\ EntriesOf(i) = {}
       /\ pc[t] # "initInode" =>
            /\ Counter(i) = 1
            /\ Type(i) = IF call[t].kind = "symlink" THEN "T_SYMLINK" ELSE "T_FILE"
       /\ pc[t] = "linkBlock" /\ "orphaned" \notin lapses => Size(i) = 0
       /\ call[t].kind = "symlink" /\ pc[t] \in Adding => Size(i) > 0

PlanOfAdding(t) ==
    LET i == call[t].inum IN
    /\ call[t].kind = "link" /\ pc[t] \in Adding =>
         i \in Allocated /\ EntriesOf(i) # {} /\ Isnt(i, "T_SYMLINK") /\ Ahead(i)
    /\ pc[t] = "addStore" =>
         /\ call[t].slot \in Slots \ SlotsUsed
         /\ \A s \in Slots \ SlotsUsed : call[t].slot <= s
    /\ pc[t] = "addName" => call[t].slot \in SlotsUsed
    /\ call[t].kind \in {"link", "symlink"} => call[t].name \in Names
    /\ call[t].kind = "create" => call[t].name \in Texts
    /\ call[t].kind = "symlink" => call[t].target \in Names

PlanOfUnlink(t) ==
    LET i == call[t].inum IN
    call[t].kind = "unlink" /\ pc[t] # "looking" =>
       /\ i \in Allocated
       /\ pc[t] \in {"readLock"} \cup Clearing =>
            call[t].name \in Texts /\ Listed(call[t].name) /\ i = find_in_dir(call[t].name)
       /\ pc[t] = "clearStore" =>
            /\ call[t].slot \in SlotsNamed(call[t].name)
            /\ dir_entries[call[t].slot].d_inumber = i
       /\ pc[t] \in {"lower", "storeCounter"} => Isnt(i, "T_SYMLINK") /\ Ahead(i)
       /\ pc[t] = "storeCounter" => call[t].count = Counter(i) - 1
       /\ pc[t] = "testCounter" =>
            Isnt(i, "T_SYMLINK") /\ Counted(i) /\ call[t].count = Counter(i)
       /\ pc[t] = "freeBlock" => Type(i) = "T_SYMLINK"
       /\ pc[t] \in {"freeBlock"} \cup Deleting => EntriesOf(i) = {}
       /\ pc[t] = "delete" /\ Type(i) = "T_SYMLINK" /\ Size(i) > 0 =>
            free_blocks[Data(i)] = FREE

Plan(t) ==
    /\ PlanOfLooking(t) /\ PlanOfOpen(t) /\ PlanOfMaking(t) /\ PlanOfAdding(t)
    /\ PlanOfUnlink(t)

\* The block of inode i is not yet, or no longer, its own.
SparedBy(t, i) ==
    /\ call[t].inum = i
    /\ \/ pc[t] \in {"initInode", "resetSize", "freeInode"}
       \/ pc[t] = "delete" /\ Type(i) = "T_SYMLINK"

Spared(i) == \E t \in Threads : SparedBy(t, i)

BlockOwners == {i \in Owners : ~Spared(i)}

BlocksApart ==
    /\ \A i \in Inums : Size(i) > 0 => Data(i) \in Blocks
    /\ \A i \in BlockOwners : free_blocks[Data(i)] = TAKEN
    /\ \A i, j \in BlockOwners : i # j => Data(i) # Data(j)
    /\ {"spilled", "orphaned"} \cap lapses = {} =>
         \A bnum \in Blocks : free_blocks[bnum] = TAKEN =>
            \E i \in BlockOwners : Data(i) = bnum

HandlesApart ==
    /\ \A h \in Handles : IsOpen(h) =>
         /\ InumOf(h) \in Inums
         /\ "orphaned" \notin lapses =>
              /\ InumOf(h) \in Allocated
              /\ \A t \in Threads : Making(t) => call[t].inum # InumOf(h)
    /\ \A t \in Threads : handle[t] # -1 => IsOpen(handle[t])
    /\ \A t, u \in Threads : t # u /\ handle[t] # -1 => handle[t] # handle[u]

DirectoryApart ==
    /\ \A s \in Slots \ SlotsUsed : dir_entries[s].d_name = NoName
    /\ \A s \in SlotsUsed : dir_entries[s].d_inumber \in Allocated

\* One thread has a file open at a time, and nobody writes behind its offset.
AppendsApart ==
    ~shared /\ "orphaned" \notin lapses =>
       /\ "overwritten" \notin lapses
       /\ \A t, u \in Threads : HasFile(t) /\ HasFile(u) => t = u
       /\ \A t \in Threads : handle[t] # -1 => SizeOf(handle[t]) <= OffsetOf(handle[t])
       /\ \A t \in Threads : pc[t] = "addOpen" => Size(call[t].inum) <= call[t].offset
       /\ \A t \in Threads : call[t].kind = "create" /\ pc[t] \in Filling =>
                                Size(call[t].inum) = 0

Apart ==
    /\ status = "mounted" /\ freeinode_ts[ROOT_DIR_INUM] = TAKEN
    /\ Tables /\ ThreadTypes
    /\ \A t \in Threads : KindFits(t)
    /\ \A t \in Threads : Plan(t)
    /\ KindsApart /\ DirectoryApart /\ CountersApart /\ BlocksApart /\ HandlesApart
    /\ AppendsApart

ThreadsInv == apart => Apart

\* A lookup under way has the lock of entry 0.
LooksAlone == apart => \A t \in Threads : pc[t] = "looking" => dirLock = t

-----------------------------------------------------------------------------
(* Who else is under way                                                   *)

\* What a step does to the thread that takes it
Moves(t, step, c) ==
    /\ pc' = [pc EXCEPT ![t] = step]
    /\ call' = [call EXCEPT ![t] = c]

LEMMA Moved ==
  ASSUME ThreadTypes, NEW t \in Threads, NEW step \in Steps, NEW c \in CallType,
         Moves(t, step, c)
  PROVE  /\ pc'[t] = step /\ call'[t] = c
         /\ \A u \in Threads : u # t => pc'[u] = pc[u] /\ call'[u] = call[u]
         /\ pc' \in [Threads -> Steps] /\ call' \in [Threads -> CallType]
BY DEF ThreadTypes, Moves

\* The pairs that Unsafe holds
LEMMA UnsafePairs ==
  /\ \A kind \in Kinds \cup {"write"} :
        {"unlink", kind} \in Unsafe /\ {kind, "unlink"} \in Unsafe
  /\ \A kind, other \in Adders : {kind, other} \in Unsafe
  /\ {"truncate", "truncate"} \in Unsafe
<1>1. \A x, y : {x, y} = {y, x} /\ {x, x} = {x}
  OBVIOUS
<1>2. \A kind \in Kinds \cup {"write"} : {"unlink", kind} \in Unsafe
  BY DEF Unsafe
<1>3. \A kind, other \in Adders : {kind, other} \in Unsafe
  BY DEF Unsafe
<1>4. {"truncate"} \in Unsafe
  BY DEF Unsafe
<1>5. \A kind \in Kinds \cup {"write"} : {kind, "unlink"} \in Unsafe
  BY <1>1, <1>2, Zenon
<1>6. {"truncate", "truncate"} \in Unsafe
  BY <1>1, <1>4, Zenon
<1> QED BY <1>2, <1>3, <1>5, <1>6

LEMMA KindsOf ==
  ASSUME ThreadTypes, NEW u \in Threads
  PROVE  /\ call[u].kind \in Kinds \cup {"none"} /\ pc[u] \in Steps
         /\ call[u] \in CallType
BY DEF ThreadTypes, CallType

\* Whoever changes entries or counters is the only one who does.
LEMMA OneChanger ==
  ASSUME ThreadTypes, KindsApart, \A v \in Threads : KindFits(v),
         NEW t \in Threads, NEW u \in Threads, t # u,
         call[t].kind \in Adders \cup {"unlink"}
  PROVE  /\ call[u].kind \in {"none", "append", "truncate"}
         /\ call[t].kind = "unlink" => call[u].kind = "none"
<1>1. call[u].kind \in Kinds \cup {"none"} /\ call[t].kind \in Kinds
  <2>1. call[u].kind \in Kinds \cup {"none"}
    BY KindsOf
  <2>2. call[t].kind \in Kinds
    BY DEF Adders, Kinds, Opens
  <2> QED BY <2>1, <2>2
<1>2. pc[t] # "idle" /\ (pc[u] = "idle" <=> call[u].kind = "none")
  BY DEF KindFits, Adders
<1>3. call[u].kind # "none" => {call[t].kind, call[u].kind} \notin Unsafe
  BY <1>2 DEF KindsApart, Idle
<1>4. call[t].kind = "unlink" => call[u].kind = "none"
  BY <1>1, <1>3, UnsafePairs
<1>5. call[t].kind \in Adders => call[u].kind \notin Adders \cup {"unlink"}
  <2> SUFFICES ASSUME call[t].kind \in Adders, call[u].kind \in Adders \cup {"unlink"}
               PROVE  FALSE
    OBVIOUS
  <2>1. {call[t].kind, call[u].kind} \notin Unsafe
    BY <1>3 DEF Adders
  <2> QED BY <2>1, <1>1, UnsafePairs
<1>6. call[t].kind \in Adders => call[u].kind \in {"none", "append", "truncate"}
  BY <1>1, <1>5 DEF Kinds, Adders, Opens
<1>7. call[t].kind = "unlink" \/ call[t].kind \in Adders
  OBVIOUS
<1>8. "unlink" \notin Adders
  BY DEF Adders
<1> QED BY <1>4, <1>6, <1>7, <1>8

\* The steps of the others then
LEMMA OnlyOpens ==
  ASSUME NEW u \in Threads, KindFits(u),
         call[u].kind \in {"none", "append", "truncate"}
  PROVE  /\ ~Changing(u) /\ ~Making(u)
         /\ pc[u] \in {"idle", "readLock", "addOpen"} \cup Truncating \cup Looking
<1> USE DEF KindFits, Truncating, Looking
<1>1. CASE call[u].kind = "none"
  BY <1>1 DEF Changing, Making, Adding, Lowering, Deleting
<1>2. CASE call[u].kind = "append"
  BY <1>2 DEF Changing, Making, Adding, Lowering, Deleting
<1>3. CASE call[u].kind = "truncate"
  BY <1>3 DEF Changing, Making, Adding, Lowering, Deleting
<1> QED BY <1>1, <1>2, <1>3

\* A call that goes on, or ends, stays apart from the others.
LEMMA KindsKept ==
  ASSUME KindsApart, NEW t \in Threads,
         \A u \in Threads : u # t => pc'[u] = pc[u] /\ call'[u] = call[u],
         pc'[t] = "idle" \/ (pc[t] # "idle" /\ call'[t].kind = call[t].kind)
  PROVE  KindsApart'
<1> SUFFICES ASSUME NEW v \in Threads, NEW u \in Threads, v # u,
                    pc'[v] # "idle", pc'[u] # "idle"
             PROVE  {call'[v].kind, call'[u].kind} \notin Unsafe
  BY DEF KindsApart, Idle
<1>1. pc[v] # "idle" /\ call'[v].kind = call[v].kind
  BY Zenon
<1>2. pc[u] # "idle" /\ call'[u].kind = call[u].kind
  BY Zenon
<1> QED BY <1>1, <1>2, Zenon DEF KindsApart, Idle

\* So does one that starts or looks a name up again while apart stays TRUE.
LEMMA KindsLooked ==
  ASSUME KindsApart, NEW t \in Threads, NEW kind,
         \A u \in Threads : u # t => pc'[u] = pc[u] /\ call'[u] = call[u],
         pc'[t] = "idle" \/ call'[t].kind = kind, Overlap(t, kind), apart'
  PROVE  KindsApart'
<1>1. \A u \in Threads : u # t /\ pc[u] # "idle" => {kind, call[u].kind} \notin Unsafe
  BY DEF Overlap, OtherCalls, Idle
<1>2. \A x, y : {x, y} = {y, x}
  OBVIOUS
<1> SUFFICES ASSUME NEW v \in Threads, NEW u \in Threads, v # u,
                    pc'[v] # "idle", pc'[u] # "idle"
             PROVE  {call'[v].kind, call'[u].kind} \notin Unsafe
  BY DEF KindsApart, Idle
<1>3. CASE v = t
  BY <1>1, <1>3, Zenon
<1>4. CASE u = t
  BY <1>1, <1>2, <1>4, Zenon
<1>5. CASE v # t /\ u # t
  BY <1>5, Zenon DEF KindsApart, Idle
<1> QED BY <1>3, <1>4, <1>5

-----------------------------------------------------------------------------
(* What a step leaves alone                                                *)

\* A thread that does not move keeps its plan when the directory stays.
LEMMA PlanKept ==
  ASSUME NEW u \in Threads, Plan(u), pc'[u] = pc[u], call'[u] = call[u],
         UNCHANGED <<dir_entries, freeinode_ts>>,
         lapses \subseteq lapses', "spilled" \in lapses' => "spilled" \in lapses,
         call[u].inum \in Inums =>
            /\ Type(call[u].inum)' = Type(call[u].inum)
            /\ Counter(call[u].inum)' = Counter(call[u].inum)
            /\ (pc[u] = "freeData" \/ Making(u)) /\ Size(call[u].inum) > 0 =>
                 Size(call[u].inum)' > 0
            /\ pc[u] = "linkBlock" /\ Making(u) /\ Size(call[u].inum) = 0 =>
                 Size(call[u].inum)' = 0 \/ "orphaned" \in lapses'
            /\ u \in readers[call[u].inum] => u \in readers'[call[u].inum],
         call[u].kind = "unlink" => UNCHANGED <<inode_table, free_blocks>>
  PROVE  Plan(u)'
<1>1. /\ SlotsUsed' = SlotsUsed /\ Allocated' = Allocated
      /\ \A i : EntriesOf(i)' = EntriesOf(i)
      /\ \A n : SlotsNamed(n)' = SlotsNamed(n) /\ find_in_dir(n)' = find_in_dir(n)
      /\ \A n : Listed(n)' <=> Listed(n)
  BY DEF SlotsUsed, Allocated, EntriesOf, SlotsNamed, find_in_dir, Listed
<1>2. PICK i : i = call[u].inum
  OBVIOUS
<1>3. PICK j : j = call'[u].inum /\ j = i
  BY <1>2
<1>4. i \in Allocated => i \in Inums
  BY DEF Allocated
<1>5. i \in Inums =>
         /\ Type(i)' = Type(i) /\ Counter(i)' = Counter(i)
         /\ (pc[u] = "freeData" \/ Making(u)) /\ Size(i) > 0 => Size(i)' > 0
         /\ pc[u] = "linkBlock" /\ Making(u) /\ Size(i) = 0 =>
              Size(i)' = 0 \/ "orphaned" \in lapses'
         /\ u \in readers[i] => u \in readers'[i]
  BY <1>2
<1>6. (Found(u)' <=> Found(u)) /\ (Making(u)' <=> Making(u))
  BY DEF Found, Making
<1>7. i \in Inums => (Isnt(i, "T_SYMLINK")' <=> Isnt(i, "T_SYMLINK"))
                     /\ (Ahead(i)' <=> Ahead(i)) /\ (Counted(i)' <=> Counted(i))
  BY <1>1, <1>5 DEF Isnt, Ahead, Counted
<1>8. PlanOfOpen(u)'
  <2>1. Found(u) => i \in Allocated /\ EntriesOf(i) # {}
    BY <1>2 DEF Plan, PlanOfOpen
  <2>2. pc[u] \in Truncating => Isnt(i, "T_SYMLINK") /\ u \in readers[i] /\ Found(u)
    BY <1>2 DEF Plan, PlanOfOpen, Found
  <2>3. pc[u] = "freeData" => Size(i) > 0 /\ Found(u)
    BY <1>2 DEF Plan, PlanOfOpen, Found, Truncating
  <2>4. Found(u) => i \in Allocated' /\ EntriesOf(i)' # {}
    BY <2>1, <1>1
  <2>5. pc[u] \in Truncating => Isnt(i, "T_SYMLINK")' /\ u \in readers'[i]
    BY <2>1, <2>2, <1>4, <1>5, <1>7
  <2>6. pc[u] = "freeData" => Size(i)' > 0
    BY <2>1, <2>3, <1>4, <1>5
  <2> QED BY <2>4, <2>5, <2>6, <1>2, <1>6 DEF PlanOfOpen
<1>9. PlanOfMaking(u)'
  <2> SUFFICES ASSUME Making(u) PROVE PlanOfMaking(u)'
    BY <1>6 DEF PlanOfMaking
  <2>1. /\ i \in Allocated /\ EntriesOf(i) = {}
        /\ pc[u] # "initInode" =>
             /\ Counter(i) = 1
             /\ Type(i) = IF call[u].kind = "symlink" THEN "T_SYMLINK" ELSE "T_FILE"
        /\ pc[u] = "linkBlock" /\ "orphaned" \notin lapses => Size(i) = 0
        /\ call[u].kind = "symlink" /\ pc[u] \in Adding => Size(i) > 0
    BY <1>2 DEF Plan, PlanOfMaking
  <2>2. /\ i \in Allocated' /\ EntriesOf(i)' = {}
        /\ pc[u] # "initInode" =>
             /\ Counter(i)' = 1
             /\ Type(i)' = IF call[u].kind = "symlink" THEN "T_SYMLINK" ELSE "T_FILE"
        /\ pc[u] = "linkBlock" /\ "orphaned" \notin lapses' => Size(i)' = 0
        /\ call[u].kind = "symlink" /\ pc[u] \in Adding => Size(i)' > 0
    BY <2>1, <1>1, <1>4, <1>5
  <2> QED BY <2>2, <1>2 DEF PlanOfMaking
<1>10. PlanOfAdding(u)'
  <2>1. call[u].kind = "link" /\ pc[u] \in Adding =>
          i \in Allocated' /\ EntriesOf(i)' # {} /\ Isnt(i, "T_SYMLINK")' /\ Ahead(i)'
    BY <1>1, <1>2, <1>4, <1>7 DEF Plan, PlanOfAdding
  <2> QED BY <2>1, <1>1, <1>2 DEF Plan, PlanOfAdding
<1>11. PlanOfUnlink(u)'
  <2> SUFFICES ASSUME call[u].kind = "unlink", pc[u] # "looking" PROVE PlanOfUnlink(u)'
    BY DEF PlanOfUnlink
  <2>1. Data(i)' = Data(i) /\ Size(i)' = Size(i) /\ Type(i)' = Type(i)
        /\ Counter(i)' = Counter(i)
        /\ free_blocks' = free_blocks
    BY DEF Data, Size, Type, Counter
  <2>2. i \in Allocated
    BY <1>2 DEF Plan, PlanOfUnlink
  <2>3. (Isnt(i, "T_SYMLINK")' <=> Isnt(i, "T_SYMLINK"))
        /\ (Ahead(i)' <=> Ahead(i)) /\ (Counted(i)' <=> Counted(i))
    BY <2>2, <1>4, <1>7
  <2> QED BY <2>1, <2>2, <2>3, <1>1, <1>2 DEF Plan, PlanOfUnlink
<1>12. PlanOfLooking(u)'
  BY <1>1 DEF Plan, PlanOfLooking
<1> QED BY <1>8, <1>9, <1>10, <1>11, <1>12 DEF Plan

\* One that opens a file keeps its plan while its inode stays listed.
LEMMA PlanOfOpener ==
  ASSUME NEW u \in Threads, Plan(u), KindFits(u), pc'[u] = pc[u], call'[u] = call[u],
         call[u].kind \in {"none", "append", "truncate"},
         \A i \in Allocated : EntriesOf(i) # {} /\ Found(u) /\ i = call[u].inum =>
            /\ i \in Allocated' /\ EntriesOf(i)' # {}
            /\ Type(i)' = Type(i)
            /\ Size(i) > 0 => Size(i)' > 0
            /\ u \in readers[i] => u \in readers'[i]
  PROVE  Plan(u)'
<1>1. PICK i : i = call[u].inum
  OBVIOUS
<1>2. Found(u) => i \in Allocated /\ EntriesOf(i) # {}
  BY <1>1 DEF Plan, PlanOfOpen
<1>3. Found(u) =>
         /\ i \in Allocated' /\ EntriesOf(i)' # {}
         /\ Type(i)' = Type(i)
         /\ Size(i) > 0 => Size(i)' > 0
         /\ u \in readers[i] => u \in readers'[i]
  BY <1>1, <1>2
<1>4. pc[u] \in Truncating \/ pc[u] = "freeData" => Found(u)
  BY DEF Truncating, Found
<1>5. (Found(u)' <=> Found(u)) /\ ~Making(u)'
  BY DEF Found, Making
<1>6. PlanOfOpen(u)'
  BY <1>1, <1>3, <1>4, <1>5 DEF Plan, PlanOfOpen, Isnt
<1>7. PlanOfMaking(u)' /\ PlanOfUnlink(u)'
  BY <1>5 DEF PlanOfMaking, PlanOfUnlink
<1>8. pc[u] \notin {"addStore", "addName"}
  BY OnlyOpens DEF Truncating, Looking
<1>9. PlanOfAdding(u)'
  BY <1>8 DEF PlanOfAdding
<1>10. PlanOfLooking(u)'
  BY DEF Plan, PlanOfLooking
<1> QED BY <1>6, <1>7, <1>9, <1>10 DEF Plan

\* Inodes other than i0 keep what their settling is about.
LEMMA CountersKept ==
  ASSUME CountersApart, lapses \subseteq lapses', NEW i0,
         \A i \in Allocated' : i # i0 =>
            /\ i \in Allocated
            /\ EntriesOf(i)' = EntriesOf(i)
            /\ Counter(i)' = Counter(i) /\ Type(i)' = Type(i)
            /\ Type(i) = "T_SYMLINK" /\ Size(i) > 0 => Size(i)' > 0
            /\ InHand(i) => InHand(i)',
         \A i \in Allocated' : i = i0 /\ ~InHand(i)' => Settled(i)'
  PROVE  CountersApart'
<1> SUFFICES ASSUME NEW i \in Allocated', ~InHand(i)', i # i0
             PROVE  Settled(i)'
  BY DEF CountersApart
<1>1. Settled(i)
  BY DEF CountersApart
<1>2. /\ EntriesOf(i)' = EntriesOf(i)
      /\ Counter(i)' = Counter(i) /\ Type(i)' = Type(i)
      /\ Type(i) = "T_SYMLINK" /\ Size(i) > 0 => Size(i)' > 0
  OBVIOUS
<1>3. "spilled" \notin lapses' => "spilled" \notin lapses
  OBVIOUS
<1> QED BY <1>1, <1>2, <1>3 DEF Settled, Counted

LEMMA InHandKept ==
  ASSUME NEW t \in Threads, NEW i,
         \A u \in Threads : u # t => pc'[u] = pc[u] /\ call'[u] = call[u],
         ~Changing(t) \/ call[t].inum # i \/ (Changing(t)' /\ call'[t].inum = i),
         InHand(i)
  PROVE  InHand(i)'
BY DEF InHand, Changing

\* An inode is spared by who moves, or was by another.
LEMMA SparedKept ==
  ASSUME NEW t \in Threads, NEW i,
         \A u \in Threads : u # t => pc'[u] = pc[u] /\ call'[u] = call[u],
         \A u \in Threads : u # t /\ pc[u] = "delete" => Type(i)' = Type(i)
  PROVE  /\ Spared(i)' <=>
              SparedBy(t, i)' \/ \E u \in Threads : u # t /\ SparedBy(u, i)
         /\ ~SparedBy(t, i)' /\ ~SparedBy(t, i) => (Spared(i)' <=> Spared(i))
<1>1. \A u \in Threads : u # t => (SparedBy(u, i)' <=> SparedBy(u, i))
  BY DEF SparedBy
<1> QED BY <1>1 DEF Spared

\* The same blocks have the same owners.
LEMMA BlocksKept ==
  ASSUME BlocksApart, lapses \subseteq lapses', free_blocks' = free_blocks,
         BlockOwners' = BlockOwners,
         \A i \in Inums : Size(i)' > 0 => Data(i)' \in Blocks,
         \A i \in BlockOwners : Data(i)' = Data(i)
  PROVE  BlocksApart'
<1>1. \A i \in BlockOwners' : free_blocks'[Data(i)'] = TAKEN
  BY DEF BlocksApart
<1>2. \A i, j \in BlockOwners' : i # j => Data(i)' # Data(j)'
  BY DEF BlocksApart
<1>3. ASSUME {"spilled", "orphaned"} \cap lapses' = {},
             NEW bnum \in Blocks, free_blocks'[bnum] = TAKEN
      PROVE  \E i \in BlockOwners' : Data(i)' = bnum
  <2>1. PICK i \in BlockOwners : Data(i) = bnum
    BY <1>3 DEF BlocksApart
  <2> QED BY <2>1
<1> QED BY <1>1, <1>2, <1>3 DEF BlocksApart

\* The block of i is given back, and i is no owner any more.
LEMMA BlockGivenBack ==
  ASSUME Tables, BlocksApart, lapses \subseteq lapses', NEW i0 \in BlockOwners,
         free_blocks' = Release(free_blocks, Data(i0)),
         BlockOwners' = BlockOwners \ {i0},
         \A i \in Inums : Size(i)' > 0 => Data(i)' \in Blocks,
         \A i \in BlockOwners : Data(i)' = Data(i)
  PROVE  BlocksApart'
<1>1. \A i \in BlockOwners : i \in Inums /\ Size(i) > 0 /\ Data(i) \in Blocks
  BY DEF BlockOwners, Owners, BlocksApart
<1>2. free_blocks' = [free_blocks EXCEPT ![Data(i0)] = FREE]
  BY DEF Release
<1>3. \A i \in BlockOwners' : free_blocks'[Data(i)'] = TAKEN
  <2> SUFFICES ASSUME NEW i \in BlockOwners, i # i0
               PROVE  free_blocks'[Data(i)] = TAKEN
    OBVIOUS
  <2>1. Data(i) # Data(i0) /\ free_blocks[Data(i)] = TAKEN /\ Data(i) \in Blocks
    BY <1>1 DEF BlocksApart
  <2> QED BY <2>1, <1>2 DEF Tables
<1>4. \A i, j \in BlockOwners' : i # j => Data(i)' # Data(j)'
  BY DEF BlocksApart
<1>5. ASSUME {"spilled", "orphaned"} \cap lapses' = {},
             NEW bnum \in Blocks, free_blocks'[bnum] = TAKEN
      PROVE  \E i \in BlockOwners' : Data(i)' = bnum
  <2>1. Data(i0) \in Blocks
    BY <1>1
  <2>2. bnum # Data(i0) /\ free_blocks[bnum] = TAKEN
    BY <2>1, <1>2, <1>5 DEF Tables, FREE, TAKEN
  <2>3. PICK i \in BlockOwners : Data(i) = bnum
    BY <2>2, <1>5 DEF BlocksApart
  <2> QED BY <2>2, <2>3
<1> QED BY <1>3, <1>4, <1>5 DEF BlocksApart

\* A free block becomes the block of i0, or of nobody once a file was orphaned.
LEMMA BlockTaken ==
  ASSUME Tables, BlocksApart, lapses \subseteq lapses', NEW i0 \in Inums,
         NEW b0 \in Blocks, free_blocks[b0] = FREE,
         free_blocks' = Take(free_blocks, b0),
         Data(i0)' = b0, i0 \notin BlockOwners \/ "orphaned" \in lapses',
         \/ BlockOwners' = BlockOwners \cup {i0}
         \/ BlockOwners' = BlockOwners /\ "orphaned" \in lapses',
         \A i \in Inums : i # i0 => Data(i)' = Data(i)
                                    /\ (Size(i)' > 0 => Size(i) > 0)
  PROVE  BlocksApart'
<1>1. \A i \in BlockOwners : i \in Inums /\ Size(i) > 0 /\ Data(i) \in Blocks
  BY DEF BlockOwners, Owners, BlocksApart
<1>2. free_blocks' = [free_blocks EXCEPT ![b0] = TAKEN]
  BY DEF Take
<1>3. \A i \in BlockOwners : i # i0 => Data(i)' = Data(i) /\ Data(i) # b0
                                       /\ free_blocks'[Data(i)] = TAKEN
  BY <1>1, <1>2 DEF BlocksApart, Tables, FREE, TAKEN
<1>4. free_blocks'[b0] = TAKEN
  BY <1>2 DEF Tables
<1>5. \A i \in BlockOwners' : i \in BlockOwners \/ i = i0
  OBVIOUS
<1>6. \A i \in BlockOwners' : free_blocks'[Data(i)'] = TAKEN
  <2> SUFFICES ASSUME NEW i \in BlockOwners' PROVE free_blocks'[Data(i)'] = TAKEN
    OBVIOUS
  <2>1. i # i0 => free_blocks'[Data(i)'] = TAKEN
    BY <1>3, <1>5
  <2>2. i = i0 => free_blocks'[Data(i)'] = TAKEN
    <3>1. ASSUME i = i0 PROVE Data(i)' = Data(i0)'
      BY <3>1 DEF Data
    <3> QED BY <3>1, <1>4
  <2> QED BY <2>1, <2>2
<1>7. \A i, j \in BlockOwners' : i # j => Data(i)' # Data(j)'
  <2> SUFFICES ASSUME NEW i \in BlockOwners', NEW j \in BlockOwners', i # j
               PROVE  Data(i)' # Data(j)'
    OBVIOUS
  <2>1. CASE i # i0 /\ j # i0
    BY <2>1, <1>3, <1>5 DEF BlocksApart
  <2>2. CASE i = i0
    BY <2>2, <1>3, <1>5 DEF Data
  <2>3. CASE j = i0
    BY <2>3, <1>3, <1>5 DEF Data
  <2> QED BY <2>1, <2>2, <2>3
<1>8. \A i \in Inums : Size(i)' > 0 => Data(i)' \in Blocks
  <2> SUFFICES ASSUME NEW i \in Inums, Size(i)' > 0 PROVE Data(i)' \in Blocks
    OBVIOUS
  <2>1. i = i0 => Data(i)' = b0
    BY DEF Data
  <2>2. i # i0 => Data(i)' \in Blocks
    BY DEF BlocksApart
  <2> QED BY <2>1, <2>2
<1>9. ASSUME {"spilled", "orphaned"} \cap lapses' = {},
             NEW bnum \in Blocks, free_blocks'[bnum] = TAKEN
      PROVE  \E i \in BlockOwners' : Data(i)' = bnum
  <2>1. i0 \in BlockOwners' /\ i0 \notin BlockOwners
        /\ \A i \in BlockOwners : i \in BlockOwners'
    BY <1>9
  <2>2. bnum = b0 => \E i \in BlockOwners' : Data(i)' = bnum
    BY <2>1
  <2>3. bnum # b0 => free_blocks[bnum] = TAKEN
    BY <1>2, <1>9 DEF Tables
  <2>4. bnum # b0 => \E i \in BlockOwners : Data(i) = bnum
    BY <2>3, <1>9 DEF BlocksApart
  <2> QED BY <2>1, <2>2, <2>4, <1>3
<1> QED BY <1>6, <1>7, <1>8, <1>9 DEF BlocksApart

LEMMA HandlesKept ==
  ASSUME HandlesApart, lapses \subseteq lapses',
         UNCHANGED <<open_file_table, handle>>,
         "orphaned" \notin lapses' => \A i \in Allocated : FileIsOpen(i) => i \in Allocated',
         \A u \in Threads : Making(u)' =>
            \/ Making(u) /\ call'[u].inum = call[u].inum
            \/ call'[u].inum \notin Allocated
  PROVE  HandlesApart'
<1>1. \A h : (IsOpen(h)' <=> IsOpen(h)) /\ InumOf(h)' = InumOf(h)
  BY DEF IsOpen, InumOf
<1>2. ASSUME NEW h \in Handles, IsOpen(h)'
      PROVE  /\ InumOf(h)' \in Inums
             /\ "orphaned" \notin lapses' =>
                  /\ InumOf(h)' \in Allocated'
                  /\ \A u \in Threads : Making(u)' => call'[u].inum # InumOf(h)'
  <2>1. IsOpen(h) /\ InumOf(h) \in Inums
    BY <1>1, <1>2 DEF HandlesApart
  <2>2. ASSUME "orphaned" \notin lapses'
        PROVE  /\ InumOf(h) \in Allocated'
               /\ \A u \in Threads : Making(u)' => call'[u].inum # InumOf(h)
    <3>1. InumOf(h) \in Allocated /\ \A u \in Threads : Making(u) => call[u].inum # InumOf(h)
      BY <2>1, <2>2 DEF HandlesApart
    <3>2. FileIsOpen(InumOf(h))
      BY <2>1 DEF FileIsOpen
    <3> QED BY <3>1, <3>2, <2>2
  <2> QED BY <2>1, <2>2, <1>1
<1>3. \A u \in Threads : handle'[u] # -1 => IsOpen(handle[u])'
  BY DEF HandlesApart, IsOpen
<1>4. \A u, v \in Threads : u # v /\ handle'[u] # -1 => handle'[u] # handle'[v]
  BY DEF HandlesApart
<1> QED BY <1>2, <1>3, <1>4 DEF HandlesApart

\* Files that are open do not grow, and those who open them find what is there.
LEMMA AppendsSame ==
  ASSUME Apart, lapses \subseteq lapses', shared' = shared,
         "overwritten" \in lapses' => "overwritten" \in lapses,
         UNCHANGED <<open_file_table, handle>>, NEW t \in Threads,
         \A u \in Threads : u # t => pc'[u] = pc[u] /\ call'[u] = call[u],
         HasFile(t)' => HasFile(t),
         \A i \in Inums :
            \/ Size(i)' = Size(i) \/ Size(i)' = 0
            \/ Making(t) /\ call[t].inum = i,
         ~shared /\ "orphaned" \notin lapses /\ pc'[t] = "addOpen" =>
            Size(call[t].inum)' <= call'[t].offset,
         ~shared /\ "orphaned" \notin lapses
            /\ call'[t].kind = "create" /\ pc'[t] \in Filling =>
            Size(call[t].inum)' = 0
  PROVE  AppendsApart'
<1> SUFFICES ASSUME ~shared, "orphaned" \notin lapses,
                    ~shared', "orphaned" \notin lapses'
             PROVE  AppendsApart'
  BY DEF AppendsApart
<1>1. /\ "overwritten" \notin lapses
      /\ \A u, v \in Threads : HasFile(u) /\ HasFile(v) => u = v
      /\ \A u \in Threads : handle[u] # -1 => SizeOf(handle[u]) <= OffsetOf(handle[u])
      /\ \A u \in Threads : pc[u] = "addOpen" => Size(call[u].inum) <= call[u].offset
      /\ \A u \in Threads : call[u].kind = "create" /\ pc[u] \in Filling =>
                               Size(call[u].inum) = 0
  BY DEF Apart, AppendsApart
<1>2. \A u \in Threads : HasFile(u)' => HasFile(u)
  BY DEF HasFile
<1>3. ASSUME NEW u \in Threads, handle'[u] # -1
      PROVE  SizeOf(handle[u])' <= OffsetOf(handle[u])'
  <2>1. handle[u] \in Handles /\ IsOpen(handle[u])
    BY <1>3 DEF Apart, ThreadTypes, HandlesApart
  <2>2. PICK i \in Inums : i = InumOf(handle[u])
    BY <2>1 DEF Apart, HandlesApart
  <2>3. ~(Making(t) /\ call[t].inum = i)
    BY <2>1, <2>2 DEF Apart, HandlesApart
  <2>4. Size(i) = SizeOf(handle[u]) /\ Size(i)' = SizeOf(handle[u])'
        /\ OffsetOf(handle[u])' = OffsetOf(handle[u])
    BY <2>2 DEF Size, SizeOf, InumOf, OffsetOf
  <2>5. OffsetOf(handle[u]) \in Nat
    BY <2>1 DEF Apart, Tables, HandleType, OffsetOf
  <2>6. Size(i) <= OffsetOf(handle[u])
    BY <1>1, <1>3, <2>4
  <2>7. Size(i)' = Size(i) \/ Size(i)' = 0
    BY <2>3
  <2>8. Size(i)' <= OffsetOf(handle[u])
    BY <2>5, <2>6, <2>7
  <2> QED BY <2>4, <2>8
<1>4. ASSUME NEW u \in Threads, u # t, pc[u] = "addOpen"
      PROVE  Size(call[u].inum)' <= call[u].offset
  <2>1. PICK i \in Allocated : i = call[u].inum /\ EntriesOf(i) # {}
    BY <1>4 DEF Apart, Plan, PlanOfOpen, Found
  <2>2. ~(Making(t) /\ call[t].inum = i)
    BY <2>1 DEF Apart, Plan, PlanOfMaking
  <2>3. Size(i)' = Size(i) \/ Size(i)' = 0
    BY <2>1, <2>2 DEF Allocated
  <2>4. Size(i) <= call[u].offset /\ call[u].offset \in Nat
    BY <1>1, <1>4, <2>1 DEF Apart, ThreadTypes, CallType
  <2>5. call'[u] = call[u]
    BY <1>4
  <2> QED BY <2>1, <2>3, <2>4, <2>5 DEF Size
<1>5. ASSUME NEW u \in Threads, u # t, call[u].kind = "create", pc[u] \in Filling
      PROVE  Size(call[u].inum)' = 0
  <2>1. Making(u) \/ Found(u)
    BY <1>5 DEF Making, Found, Filling
  <2>2. PICK i \in Allocated : i = call[u].inum
    BY <2>1 DEF Apart, Plan, PlanOfMaking, PlanOfOpen
  <2>3. ~Making(t)
    <3>1. call[t].kind \in {"none", "append", "truncate"}
      BY <1>5, OneChanger DEF Apart, Adders
    <3> QED BY <3>1, OnlyOpens DEF Apart
  <2>4. Size(i)' = Size(i) \/ Size(i)' = 0
    BY <2>2, <2>3 DEF Allocated
  <2>5. call'[u] = call[u]
    BY <1>5
  <2> QED BY <1>1, <1>5, <2>2, <2>4, <2>5 DEF Size
<1>6. \A u \in Threads : pc'[u] = "addOpen" => Size(call[u].inum)' <= call'[u].offset
  <2> SUFFICES ASSUME NEW u \in Threads, pc'[u] = "addOpen"
               PROVE  Size(call[u].inum)' <= call'[u].offset
    OBVIOUS
  <2>1. CASE u = t
    BY <2>1
  <2>2. CASE u # t
    <3>1. Size(call[u].inum)' <= call[u].offset
      BY <2>2, <1>4
    <3> QED BY <2>2, <3>1 DEF Size
  <2> QED BY <2>1, <2>2
<1>7. \A u \in Threads : call'[u].kind = "create" /\ pc'[u] \in Filling =>
                            Size(call[u].inum)' = 0
  <2> SUFFICES ASSUME NEW u \in Threads, call'[u].kind = "create", pc'[u] \in Filling
               PROVE  Size(call[u].inum)' = 0
    OBVIOUS
  <2>1. CASE u = t
    BY <2>1
  <2>2. CASE u # t
    <3>1. Size(call[u].inum)' = 0
      BY <2>2, <1>5
    <3> QED BY <2>2, <3>1 DEF Size
  <2> QED BY <2>1, <2>2
<1> QED BY <1>1, <1>2, <1>3, <1>6, <1>7 DEF AppendsApart

\* What the locks of the others need
LocksKept(t) ==
    /\ readers' \in [Inums -> SUBSET Threads]
    /\ writer' \in [Inums -> Threads \cup {NoThread}]
    /\ \A i \in Inums, u \in Threads : u # t /\ u \in readers[i] => u \in readers'[i]

\* A step of t that changes no table
LEMMA TablesStay ==
  ASSUME Apart, NEW t \in Threads, NEW step \in Steps, NEW c \in CallType,
         Moves(t, step, c),
         UNCHANGED <<status, inodeVars, dir_entries, blockVars, open_file_table,
                     lapses, handle>>,
         LocksKept(t), KindFits(t)', Plan(t)', KindsApart', AppendsApart',
         \A i \in Inums : ~SparedBy(t, i) /\ ~SparedBy(t, i)',
         Making(t)' => Making(t) /\ c.inum = call[t].inum,
         Changing(t) =>
            \/ Changing(t)' /\ c.inum = call[t].inum
            \/ \A i \in Allocated : i = call[t].inum => Settled(i)
  PROVE  Apart'
<1> USE DEF inodeVars, blockVars
<1>1. /\ pc'[t] = step /\ call'[t] = c
      /\ \A u \in Threads : u # t => pc'[u] = pc[u] /\ call'[u] = call[u]
      /\ pc' \in [Threads -> Steps] /\ call' \in [Threads -> CallType]
  BY Moved DEF Apart
<1>2. /\ \A i : Type(i)' = Type(i) /\ Counter(i)' = Counter(i)
               /\ Size(i)' = Size(i) /\ Data(i)' = Data(i)
      /\ \A i : EntriesOf(i)' = EntriesOf(i)
      /\ Allocated' = Allocated /\ Owners' = Owners /\ SlotsUsed' = SlotsUsed
  BY DEF Type, Counter, Size, Data, EntriesOf, Allocated, Owners, SlotsUsed
<1>3. Tables' /\ ThreadTypes'
  BY <1>1 DEF Apart, Tables, ThreadTypes, LocksKept
<1>4. \A u \in Threads : KindFits(u)'
  BY <1>1 DEF Apart, KindFits
<1>5. \A u \in Threads : Plan(u)'
  <2> SUFFICES ASSUME NEW u \in Threads, u # t PROVE Plan(u)'
    OBVIOUS
  <2>1. PICK i : i = call[u].inum /\ i = call'[u].inum
    BY <1>1
  <2>2. i \in Inums => (u \in readers[i] => u \in readers'[i])
    BY DEF LocksKept
  <2>3. call[u].inum \in Inums =>
            /\ Type(call[u].inum)' = Type(call[u].inum)
            /\ Counter(call[u].inum)' = Counter(call[u].inum)
            /\ Size(call[u].inum) > 0 => Size(call[u].inum)' > 0
            /\ pc[u] = "linkBlock" /\ Making(u) /\ Size(call[u].inum) = 0 =>
                 Size(call[u].inum)' = 0 \/ "orphaned" \in lapses'
            /\ u \in readers[call[u].inum] => u \in readers'[call[u].inum]
    BY <2>1, <2>2, <1>2
  <2> QED BY <1>1, <2>3, PlanKept DEF Apart
<1>6. DirectoryApart'
  BY <1>2 DEF Apart, DirectoryApart
<1>7. CountersApart'
  <2>1. PICK i0 : i0 = call[t].inum
    OBVIOUS
  <2>2. \A i : i # i0 /\ InHand(i) => InHand(i)'
    BY <1>1, <2>1, InHandKept
  <2>3. ASSUME NEW i \in Allocated, i = i0, ~InHand(i)'
        PROVE  Settled(i)'
    <3>1. CASE ~InHand(i)
      <4>1. Settled(i)
        BY <3>1 DEF Apart, CountersApart
      <4> QED BY <4>1, <1>2 DEF Settled, Counted
    <3>2. CASE InHand(i)
      <4>1. Changing(t) /\ ~(Changing(t)' /\ c.inum = call[t].inum)
        BY <3>2, <2>1, <2>3, <1>1, InHandKept
      <4>2. Settled(i)
        BY <4>1, <2>1, <2>3
      <4> QED BY <4>2, <1>2 DEF Settled, Counted
    <3> QED BY <3>1, <3>2
  <2> QED BY <2>2, <2>3, <1>2, CountersKept DEF Apart
<1>8. BlocksApart'
  <2>1. \A i \in Inums : Spared(i)' <=> Spared(i)
    BY <1>1, <1>2, SparedKept
  <2>2. BlockOwners' = BlockOwners
    BY <2>1, <1>2 DEF BlockOwners, Owners
  <2> QED BY <2>2, <1>2, BlocksKept DEF Apart, BlocksApart
<1>9. HandlesApart'
  <2>1. \A u \in Threads : Making(u)' => Making(u) /\ call'[u].inum = call[u].inum
    BY <1>1 DEF Making
  <2> QED BY <2>1, <1>2, HandlesKept DEF Apart
<1> QED BY <1>3, <1>4, <1>5, <1>6, <1>7, <1>8, <1>9 DEF Apart

-----------------------------------------------------------------------------
(* tfs_lookup, and the calls that begin                                    *)

\* What comes of a lookup: an inode with an entry, a file to create, or nothing.
Outcome(kind, step, d) ==
    \/ /\ d.kind = kind /\ d.inum \in Allocated /\ EntriesOf(d.inum) # {}
       /\ \/ kind \in {"append", "truncate"} /\ step = "readLock"
          \/ /\ kind = "unlink" /\ step = "readLock"
             /\ d.name \in Texts /\ Listed(d.name) /\ d.inum = find_in_dir(d.name)
          \/ kind = "link" /\ step = "writeLock" /\ d.name \in Names
          \/ kind = "symlink" /\ step = "allocInode" /\ d.name \in Names /\ d.target \in Names
    \/ kind = "create" /\ d.kind = kind /\ step = "allocInode" /\ d.name \in Texts
    \/ step = "idle" /\ d = NoCall

LEMMA FoundIsThere ==
  ASSUME DirectoryApart, NEW name, Listed(name)
  PROVE  /\ find_in_dir(name) \in Allocated
         /\ find_in_dir(name) \in Inums
         /\ EntriesOf(find_in_dir(name)) # {}
<1>1. First(SlotsNamed(name)) \in SlotsNamed(name)
  BY FoundEntry
<1> QED BY <1>1 DEF DirectoryApart, find_in_dir, SlotsNamed, SlotsUsed, Allocated, EntriesOf

LEMMA NoCallType == NoCall \in CallType /\ NoCall.kind = "none" /\ NoCall.offset = 0
BY Sizes DEF NoCall, CallType

LEMMA LookedUp ==
  ASSUME Apart, NEW t \in Threads, FindInDir(t)
  PROVE  /\ UNCHANGED <<status, handle, calls>>
         /\ KindFound(t) \in Kinds
         /\ KindFound(t) = call[t].kind \/ {KindFound(t), call[t].kind} \subseteq Opens
         /\ \E step \in Steps, d \in CallType :
               Moves(t, step, d) /\ Outcome(KindFound(t), step, d)
<1>1. PICK c, kind, sought : c = call[t] /\ kind = KindFound(t) /\ sought = Sought(t)
  OBVIOUS
<1>2. pc[t] = "looking" /\ c \in CallType
  BY <1>1, KindsOf DEF FindInDir, At, Apart
<1>3. c.kind \in {"append", "truncate", "link", "symlink", "unlink"}
  BY <1>1, <1>2, KindsOf DEF Apart, KindFits, Kinds, Opens, Adding, Filling, Deleting
<1>4. /\ c.name \in Texts
      /\ c.creat => c.kind \in {"append", "truncate"}
      /\ c.kind = "symlink" => Listed(c.target) /\ c.target \in Names
      /\ c.kind \in {"link", "symlink"} => c.name \in Names
  BY <1>1, <1>2 DEF Apart, Plan, PlanOfLooking, PlanOfAdding, Looking
<1>5. /\ kind \in {"append", "truncate", "create", "link", "symlink", "unlink"}
      /\ kind = c.kind \/ {kind, c.kind} \subseteq Opens
      /\ Listed(sought) => kind = c.kind
  BY <1>1, <1>3, <1>4 DEF KindFound, Opens
<1>6. /\ c.kind \in {"append", "truncate", "unlink"} => sought = c.name
      /\ c.kind = "symlink" => Listed(sought)
  BY <1>1, <1>4 DEF Sought
<1>7. \/ /\ Listed(sought)
         /\ call' = [call EXCEPT ![t] = [c EXCEPT !.inum = find_in_dir(sought)]]
         /\ pc' = [pc EXCEPT ![t] = StepFound(t)]
         /\ UNCHANGED <<status, handle, calls>>
      \/ /\ ~Listed(sought) /\ kind = "create"
         /\ call' = [call EXCEPT ![t] = [c EXCEPT !.kind = "create"]]
         /\ pc' = [pc EXCEPT ![t] = "allocInode"]
         /\ UNCHANGED <<status, handle, calls>>
      \/ ~Listed(sought) /\ kind = "symlink"
      \/ /\ ~Listed(sought) /\ kind # "create"
         /\ call' = [call EXCEPT ![t] = NoCall]
         /\ pc' = [pc EXCEPT ![t] = "idle"]
         /\ UNCHANGED <<status, handle, calls>>
  <2>1. [call EXCEPT ![t] = [@ EXCEPT !.inum = find_in_dir(sought)]]
          = [call EXCEPT ![t] = [c EXCEPT !.inum = find_in_dir(sought)]]
        /\ [call EXCEPT ![t] = [@ EXCEPT !["kind"] = "create"]]
          = [call EXCEPT ![t] = [c EXCEPT !.kind = "create"]]
    BY <1>1
  <2> QED BY <2>1, <1>1 DEF FindInDir, GoTo, Set, Return
<1>8. CASE Listed(sought)
  <2>1. PICK n : n = find_in_dir(sought)
    OBVIOUS
  <2>2. n \in Allocated /\ n \in Inums /\ EntriesOf(n) # {}
    BY <1>8, <2>1, FoundIsThere DEF Apart
  <2>3. PICK d : d = [c EXCEPT !.inum = n]
    OBVIOUS
  <2>4. /\ d \in CallType /\ d.kind = c.kind /\ d.inum = n /\ d.name = c.name
        /\ d.target = c.target
    BY <1>2, <2>2, <2>3 DEF CallType
  <2>5. PICK step : step = StepFound(t)
    OBVIOUS
  <2>6. Moves(t, step, d) /\ UNCHANGED <<status, handle, calls>>
    BY <1>7, <1>8, <2>1, <2>3, <2>5 DEF Moves
  <2>7. kind = c.kind
    BY <1>5, <1>8
  <2>8. /\ c.kind \in {"append", "truncate", "unlink"} => step = "readLock"
        /\ c.kind = "link" => step = "writeLock"
        /\ c.kind = "symlink" => step = "allocInode"
    BY <1>1, <2>5 DEF StepFound
  <2>9. c.kind = "unlink" => Listed(d.name) /\ d.inum = find_in_dir(d.name)
    BY <1>6, <1>8, <2>1, <2>4
  <2>10. Outcome(kind, step, d)
    BY <1>3, <1>4, <2>2, <2>4, <2>7, <2>8, <2>9 DEF Outcome
  <2>11. step \in Steps
    BY <1>3, <2>8 DEF Steps
  <2> QED BY <1>1, <1>3, <1>5, <2>4, <2>6, <2>10, <2>11 DEF Kinds, Opens
<1>9. CASE ~Listed(sought) /\ kind = "create"
  <2>1. PICK d : d = [c EXCEPT !.kind = "create"]
    OBVIOUS
  <2>2. d \in CallType /\ d.kind = kind /\ d.name = c.name /\ d.name \in Texts
    BY <1>2, <1>4, <1>9, <2>1 DEF CallType, Kinds, Opens
  <2>3. Moves(t, "allocInode", d) /\ UNCHANGED <<status, handle, calls>>
    BY <1>7, <1>9, <2>1 DEF Moves
  <2>4. Outcome(kind, "allocInode", d) /\ "allocInode" \in Steps
    BY <1>9, <2>2 DEF Outcome, Steps
  <2> QED BY <1>1, <1>5, <1>9, <2>2, <2>3, <2>4 DEF Kinds, Opens
<1>10. CASE ~Listed(sought) /\ kind # "create"
  <2>1. kind # "symlink"
    BY <1>3, <1>5, <1>6, <1>10 DEF Opens
  <2>2. Moves(t, "idle", NoCall) /\ UNCHANGED <<status, handle, calls>>
    BY <1>7, <1>10, <2>1 DEF Moves
  <2>3. Outcome(kind, "idle", NoCall) /\ "idle" \in Steps
    BY DEF Outcome, Steps
  <2> QED BY <1>1, <1>5, <2>2, <2>3, NoCallType DEF Kinds, Opens
<1> QED BY <1>8, <1>9, <1>10

\* The plan of one that has just looked up
LEMMA PlanOfLooked ==
  ASSUME NEW t \in Threads, NEW kind \in Kinds, NEW step \in Steps, NEW d \in CallType,
         Outcome(kind, step, d), pc'[t] = step, call'[t] = d,
         UNCHANGED <<inode_table, freeinode_ts, dir_entries>>
  PROVE  KindFits(t)' /\ Plan(t)' /\ ~Making(t)' /\ ~Changing(t)'
         /\ step \in {"idle", "readLock", "writeLock", "allocInode"}
<1>1. step \in {"idle", "readLock", "writeLock", "allocInode"}
  BY DEF Outcome
<1>2. /\ Allocated' = Allocated
      /\ \A i : EntriesOf(i)' = EntriesOf(i)
      /\ \A n : (Listed(n)' <=> Listed(n)) /\ find_in_dir(n)' = find_in_dir(n)
  BY DEF Allocated, EntriesOf, Listed, SlotsNamed, SlotsUsed, find_in_dir
<1>3. KindFits(t)'
  <2>1. d = NoCall => d.kind = "none"
    BY NoCallType
  <2> QED BY <2>1 DEF KindFits, Outcome, Truncating, Looking
<1>4. ~Making(t)' /\ ~Changing(t)'
  BY <1>1 DEF Making, Changing, Adding, Lowering, Deleting
<1>5. PlanOfOpen(t)'
  <2>1. Found(t)' => d.inum \in Allocated /\ EntriesOf(d.inum) # {}
    BY DEF Found, Outcome, Truncating, Clearing
  <2>2. step \notin Truncating /\ step # "freeData"
    BY <1>1 DEF Truncating
  <2> QED BY <2>1, <2>2, <1>2 DEF PlanOfOpen
<1>6. PlanOfMaking(t)'
  BY <1>4 DEF PlanOfMaking
<1>7. PlanOfAdding(t)'
  <2>1. step \notin Adding /\ step \notin {"addStore", "addName"}
    BY <1>1 DEF Adding
  <2>2. d = NoCall => d.kind = "none"
    BY NoCallType
  <2>3. /\ d.kind \in {"link", "symlink"} => d.name \in Names
        /\ d.kind = "symlink" => d.target \in Names
        /\ d.kind = "create" => d.name \in Texts
    BY <2>2 DEF Outcome
  <2> QED BY <2>1, <2>3 DEF PlanOfAdding
<1>8. PlanOfUnlink(t)'
  <2> SUFFICES ASSUME d.kind = "unlink" PROVE PlanOfUnlink(t)'
    BY DEF PlanOfUnlink
  <2>1. d # NoCall
    BY NoCallType
  <2>2. d.inum \in Allocated /\ step = "readLock"
        /\ d.name \in Texts /\ Listed(d.name) /\ d.inum = find_in_dir(d.name)
    BY <2>1 DEF Outcome
  <2> QED BY <2>2, <1>2 DEF PlanOfUnlink, Deleting, Clearing
<1>9. PlanOfLooking(t)'
  BY <1>1 DEF PlanOfLooking, Looking
<1> QED BY <1>1, <1>3, <1>4, <1>5, <1>6, <1>7, <1>8, <1>9 DEF Plan

LEMMA FindInDirKeeps ==
  ASSUME Apart, apart', NEW t \in Threads, FindInDir(t)
  PROVE  Apart'
<1> USE DEF inodeVars, blockVars, inodeLocks, callVars
<1>1. pc[t] = "looking"
  BY DEF FindInDir, At
<1>2. PICK kind \in Kinds, step \in Steps, d \in CallType :
        /\ kind = KindFound(t)
        /\ kind = call[t].kind \/ {kind, call[t].kind} \subseteq Opens
        /\ Moves(t, step, d) /\ Outcome(kind, step, d)
        /\ UNCHANGED <<status, handle>>
  BY LookedUp
<1>3. /\ pc'[t] = step /\ call'[t] = d
      /\ \A u \in Threads : u # t => pc'[u] = pc[u] /\ call'[u] = call[u]
  BY <1>2, Moved DEF Apart
<1>4. UNCHANGED <<inode_table, freeinode_ts, dir_entries, text, free_blocks, open_file_table,
                  lapses, readers, writer, shared>>
      /\ Overlap(t, kind)
  BY <1>2 DEF FindInDir
<1>5. KindFits(t)' /\ Plan(t)' /\ ~Making(t)' /\ ~Changing(t)'
      /\ step \in {"idle", "readLock", "writeLock", "allocInode"}
  BY <1>2, <1>3, <1>4, PlanOfLooked
<1>6. ~Changing(t)
  BY <1>1 DEF Changing, Adding, Lowering, Deleting
<1>7. step = "idle" \/ d.kind = kind
  BY <1>2 DEF Outcome
<1>8. KindsApart'
  BY <1>3, <1>4, <1>7, KindsLooked DEF Apart
<1>9. \A i \in Inums : ~SparedBy(t, i) /\ ~SparedBy(t, i)'
  BY <1>1, <1>3, <1>5 DEF SparedBy
<1>10. LocksKept(t)
  BY <1>4 DEF LocksKept, Apart, ThreadTypes
<1>11. AppendsApart'
  <2>1. step = "idle" => d.kind \notin Opens
    BY <1>3, <1>5, NoCallType DEF KindFits, Opens
  <2>2. HasFile(t)' => HasFile(t)
    BY <2>1, <1>2, <1>3, <1>7 DEF HasFile
  <2>3. \A i \in Inums : Size(i)' = Size(i)
    BY <1>4 DEF Size
  <2>4. pc'[t] # "addOpen" /\ pc'[t] \notin Filling
    BY <1>3, <1>5 DEF Filling, Adding
  <2> QED BY <1>2, <1>3, <1>4, <2>2, <2>3, <2>4, AppendsSame
<1> QED BY <1>2, <1>4, <1>5, <1>6, <1>8, <1>9, <1>10, <1>11, TablesStay

\* A thread that begins to look a name up, or is about to look up another.
LEMMA LookupKeeps ==
  ASSUME Apart, NEW t \in Threads, NEW c \in CallType, NEW step \in Looking,
         Moves(t, step, c), c.name \in Texts,
         c.kind \in {"append", "truncate", "link", "symlink", "unlink"},
         step = "lookup" \/ c.creat => c.kind \in {"append", "truncate"},
         c.kind = "symlink" => c.target \in Names /\ Listed(c.target),
         c.kind \in {"link", "symlink"} => c.name \in Names,
         KindsApart', pc[t] \in {"idle", "lookup", "readLock"},
         pc[t] = "readLock" => call[t].kind \in {"append", "truncate"},
         UNCHANGED <<status, inodeVars, dir_entries, blockVars, open_file_table,
                     lapses, handle, inodeLocks>>,
         ~shared' => ~shared,
         ~shared' /\ "orphaned" \notin lapses /\ c.kind \in Opens =>
            \A u \in Threads : u # t => ~HasFile(u)
  PROVE  Apart'
<1> USE DEF inodeVars, blockVars, inodeLocks
<1>1. step \in Steps /\ step \in {"lookup", "looking"}
  BY DEF Steps, Looking
<1>2. /\ pc'[t] = step /\ call'[t] = c
      /\ \A u \in Threads : u # t => pc'[u] = pc[u] /\ call'[u] = call[u]
  BY <1>1, Moved DEF Apart
<1>3. ~Making(t)' /\ ~Changing(t)' /\ ~Changing(t) /\ ~Found(t)'
  BY <1>1, <1>2 DEF Making, Changing, Found, Adding, Lowering, Deleting, Truncating, Clearing
<1>4. KindFits(t)'
  BY <1>1, <1>2 DEF KindFits, Looking
<1>5. Plan(t)'
  <2>1. c.kind = "symlink" => Listed(c.target)'
    BY DEF Listed, SlotsNamed, SlotsUsed
  <2>2. PlanOfLooking(t)'
    BY <2>1, <1>2 DEF PlanOfLooking
  <2>3. PlanOfOpen(t)' /\ PlanOfMaking(t)'
    BY <1>1, <1>2, <1>3 DEF PlanOfOpen, PlanOfMaking, Truncating
  <2>4. PlanOfAdding(t)' /\ PlanOfUnlink(t)'
    BY <1>1, <1>2 DEF PlanOfAdding, PlanOfUnlink, Adding
  <2> QED BY <2>2, <2>3, <2>4 DEF Plan
<1>6. \A i \in Inums : ~SparedBy(t, i) /\ ~SparedBy(t, i)'
  BY <1>1, <1>2 DEF SparedBy
<1>7. LocksKept(t)
  BY DEF LocksKept, Apart, ThreadTypes
<1>8. AppendsApart'
  <2> SUFFICES ASSUME ~shared', "orphaned" \notin lapses
               PROVE  AppendsApart'
    BY DEF AppendsApart
  <2>1. ~shared
    OBVIOUS
  <2>2. /\ "overwritten" \notin lapses
        /\ \A u, v \in Threads : HasFile(u) /\ HasFile(v) => u = v
        /\ \A u \in Threads : handle[u] # -1 => SizeOf(handle[u]) <= OffsetOf(handle[u])
        /\ \A u \in Threads : pc[u] = "addOpen" => Size(call[u].inum) <= call[u].offset
        /\ \A u \in Threads : call[u].kind = "create" /\ pc[u] \in Filling =>
                                 Size(call[u].inum) = 0
    BY <2>1 DEF Apart, AppendsApart
  <2>3. \A u \in Threads : u # t => (HasFile(u)' <=> HasFile(u))
    BY <1>2 DEF HasFile
  <2>4. HasFile(t)' => HasFile(t) \/ c.kind \in Opens
    BY <1>2 DEF HasFile
  <2>5. \A u, v \in Threads : HasFile(u)' /\ HasFile(v)' => u = v
    <3> SUFFICES ASSUME NEW u \in Threads, NEW v \in Threads, HasFile(u)', HasFile(v)',
                        u # v
                 PROVE  FALSE
      OBVIOUS
    <3>1. CASE c.kind \in Opens
      BY <3>1, <2>3
    <3>2. CASE c.kind \notin Opens
      BY <3>2, <2>2, <2>3, <2>4
    <3> QED BY <3>1, <3>2
  <2>6. \A u \in Threads : handle'[u] # -1 => SizeOf(handle[u])' <= OffsetOf(handle[u])'
    BY <2>2 DEF SizeOf, OffsetOf, InumOf
  <2>7. \A u \in Threads : pc'[u] = "addOpen" => Size(call[u].inum)' <= call'[u].offset
    BY <1>1, <1>2, <2>2 DEF Size
  <2>8. \A u \in Threads : call'[u].kind = "create" /\ pc'[u] \in Filling =>
                              Size(call[u].inum)' = 0
    <3>1. step \notin Filling
      BY <1>1 DEF Filling, Adding
    <3> QED BY <3>1, <1>2, <2>2 DEF Size
  <2> QED BY <2>2, <2>5, <2>6, <2>7, <2>8 DEF AppendsApart
<1> QED BY <1>1, <1>3, <1>4, <1>5, <1>6, <1>7, <1>8, TablesStay

\* A call begins with a lookup.
LEMMA CallKeeps ==
  ASSUME Apart, apart', NEW t \in Threads, NEW c \in CallType, Lookup(t, c), pc[t] = "idle",
         Overlap(t, c.kind), c.name \in Names,
         c.kind \in {"append", "truncate", "link", "symlink", "unlink"},
         c.creat => c.kind \in {"append", "truncate"},
         c.kind = "symlink" => c.target \in Names /\ Listed(c.target),
         UNCHANGED <<tfsVars, handle, inodeLocks>>,
         IF c.kind \in Opens
         THEN shared' = (shared \/ \E u \in Threads \ {t} : HasFile(u))
         ELSE shared' = shared
  PROVE  Apart'
<1>1. Moves(t, "looking", c) /\ "looking" \in Steps /\ "looking" \in Looking
  BY DEF Lookup, Moves, GoTo, Steps, Looking
<1>2. /\ call'[t] = c
      /\ \A u \in Threads : u # t => pc'[u] = pc[u] /\ call'[u] = call[u]
  BY <1>1, Moved DEF Apart
<1>3. KindsApart'
  BY <1>2, KindsLooked DEF Apart
<1>4. c.name \in Texts
  BY Sizes
<1>5. ~shared' => ~shared
  BY DEF Opens
<1>6. ~shared' /\ c.kind \in Opens => \A u \in Threads : u # t => ~HasFile(u)
  OBVIOUS
<1> QED BY <1>1, <1>3, <1>4, <1>5, <1>6, LookupKeeps DEF tfsVars, callVars

LEMMA CallOpenKeeps ==
  ASSUME Apart, apart', NEW t \in Threads, NEW kind \in Opens, NEW name \in Names,
         CallOpen(t, kind, name)
  PROVE  Apart'
<1>1. PICK looked : looked = IF kind = "create" THEN "append" ELSE kind
  OBVIOUS
<1>2. PICK c : c = [NoCall EXCEPT !.kind = looked, !.name = name, !.creat = (kind = "create")]
  OBVIOUS
<1>3. looked \in {"append", "truncate"} /\ looked \in Opens
  BY <1>1 DEF Opens
<1>4. c \in CallType /\ c.name = name /\ c.kind = looked
  BY <1>2, <1>3, NoCallType, Sizes DEF CallType, NoCall, Kinds
<1>5. Lookup(t, c) /\ pc[t] = "idle" /\ Overlap(t, looked)
  BY <1>1, <1>2 DEF CallOpen, CanCall, At
<1>6. shared' = (shared \/ \E u \in Threads \ {t} : HasFile(u))
      /\ UNCHANGED <<tfsVars, handle, inodeLocks>>
  BY DEF CallOpen
<1> QED BY <1>3, <1>4, <1>5, <1>6, CallKeeps

LEMMA CallUnlinkKeeps ==
  ASSUME Apart, apart', NEW t \in Threads, NEW name \in Names, CallUnlink(t, name)
  PROVE  Apart'
<1>1. PICK c : c = [NoCall EXCEPT !.kind = "unlink", !.name = name]
  OBVIOUS
<1>2. c \in CallType /\ c.name = name /\ c.kind = "unlink" /\ ~c.creat /\ c.kind \notin Opens
  BY <1>1, NoCallType, Sizes DEF CallType, NoCall, Kinds, Opens
<1>3. /\ Lookup(t, c) /\ pc[t] = "idle" /\ Overlap(t, "unlink") /\ shared' = shared
      /\ UNCHANGED <<tfsVars, handle, inodeLocks>>
  BY <1>1 DEF CallUnlink, CanCall, At
<1> QED BY <1>2, <1>3, CallKeeps

LEMMA CallLinkKeeps ==
  ASSUME Apart, apart', NEW t \in Threads, NEW target \in Names, NEW name \in Names,
         CallLink(t, target, name)
  PROVE  Apart'
<1>1. PICK c : c = [NoCall EXCEPT !.kind = "link", !.name = name, !.target = target]
  OBVIOUS
<1>2. c \in CallType /\ c.name = name /\ c.kind = "link" /\ ~c.creat /\ c.kind \notin Opens
  BY <1>1, NoCallType, Sizes DEF CallType, NoCall, Kinds, Opens
<1>3. /\ Lookup(t, c) /\ pc[t] = "idle" /\ Overlap(t, "link") /\ shared' = shared
      /\ UNCHANGED <<tfsVars, handle, inodeLocks>>
  BY <1>1 DEF CallLink, CanCall, At
<1> QED BY <1>2, <1>3, CallKeeps

LEMMA CallSymLinkKeeps ==
  ASSUME Apart, apart', NEW t \in Threads, NEW target \in Names, NEW name \in Names,
         CallSymLink(t, target, name)
  PROVE  Apart'
<1>1. PICK c : c = [NoCall EXCEPT !.kind = "symlink", !.name = name, !.target = target]
  OBVIOUS
<1>2. c \in CallType /\ c.name = name /\ c.kind = "symlink" /\ c.target = target /\ ~c.creat
      /\ c.kind \notin Opens
  BY <1>1, NoCallType, Sizes DEF CallType, NoCall, Kinds, Opens
<1>3. /\ Lookup(t, c) /\ pc[t] = "idle" /\ Overlap(t, "symlink") /\ shared' = shared
      /\ Listed(target) /\ UNCHANGED <<tfsVars, handle, inodeLocks>>
  BY <1>1 DEF CallSymLink, CanCall, At
<1> QED BY <1>2, <1>3, CallKeeps

LEMMA LookAgainKeeps ==
  ASSUME Apart, NEW t \in Threads, LookAgain(t)
  PROVE  Apart'
<1> USE DEF LookAgain, pastVars, tfsVars, callVars
<1>1. pc[t] = "lookup" /\ call[t] \in CallType
  BY KindsOf DEF At, Apart
<1>2. call[t].kind \in {"append", "truncate"} /\ call[t].kind \in Opens
  BY <1>1, KindsOf DEF Apart, KindFits, Kinds, Opens, Adding, Filling, Deleting, Clearing,
                       Lowering
<1>3. call[t].name \in Texts
  BY <1>1 DEF Apart, Plan, PlanOfLooking, Looking
<1>4. Moves(t, "looking", call[t]) /\ "looking" \in Steps /\ "looking" \in Looking
  BY DEF Lookup, Moves, GoTo, Steps, Looking
<1>5. /\ call'[t] = call[t] /\ pc'[t] = "looking"
      /\ \A u \in Threads : u # t => pc'[u] = pc[u] /\ call'[u] = call[u]
  BY <1>1, <1>4, Moved DEF Apart
<1>6. KindsApart'
  BY <1>1, <1>5, KindsKept DEF Apart
<1>7. ~shared' /\ "orphaned" \notin lapses => \A u \in Threads : u # t => ~HasFile(u)
  BY <1>2 DEF Apart, AppendsApart, HasFile
<1> QED BY <1>1, <1>2, <1>3, <1>4, <1>6, <1>7, LookupKeeps

\* An inode that was found and is a symbolic link has its block.
LEMMA FoundIsSettled ==
  ASSUME Apart, NEW t \in Threads, NEW i \in Allocated, i = call[t].inum, Found(t),
         Type(i) = "T_SYMLINK"
  PROVE  Size(i) > 0 /\ Data(i) \in Blocks
<1>1. EntriesOf(i) # {} /\ i \in Inums
  BY DEF Apart, Plan, PlanOfOpen, Allocated
<1>2. ASSUME NEW u \in Threads, Changing(u), call[u].inum = i
      PROVE  FALSE
  <2>1. ~Making(u)
    BY <1>1, <1>2 DEF Apart, Plan, PlanOfMaking
  <2>2. KindFits(u) /\ call[u].kind \in Kinds \cup {"none"}
    BY KindsOf DEF Apart
  <2>3. call[u].kind \in {"link", "unlink"}
    BY <2>1, <2>2, <1>2 DEF KindFits, Making, Changing, Adding, Lowering, Deleting,
                            Truncating, Kinds, Opens, Filling, Looking
  <2>4. CASE call[u].kind = "link"
    <3>1. pc[u] \in Adding
      BY <2>2, <2>4, <1>2 DEF KindFits, Changing, Adding, Lowering, Deleting, Filling, Looking
    <3> QED BY <3>1, <2>4, <1>2 DEF Apart, Plan, PlanOfAdding, Isnt
  <2>5. CASE call[u].kind = "unlink"
    <3>1. CASE u = t
      BY <3>1, <1>2 DEF Found, Changing, Adding, Lowering, Deleting, Clearing, Truncating
    <3>2. CASE u # t
      <4>1. call[t].kind = "none"
        BY <3>2, <2>5, OneChanger DEF Apart
      <4>2. pc[t] = "idle"
        BY <4>1 DEF Apart, KindFits
      <4> QED BY <4>2 DEF Found, Truncating, Clearing
    <3> QED BY <3>1, <3>2
  <2> QED BY <2>3, <2>4, <2>5
<1>3. Settled(i)
  BY <1>2 DEF Apart, CountersApart, InHand
<1> QED BY <1>1, <1>3 DEF Settled, Apart, BlocksApart

LEMMA FollowLinkKeeps ==
  ASSUME Apart, NEW t \in Threads, FollowLink(t)
  PROVE  Apart'
<1> USE DEF FollowLink, callVars, pastVars, lockVars
<1>1. PICK i : i = call[t].inum
  OBVIOUS
<1>2. pc[t] = "readLock" /\ call[t].kind \in Opens /\ Type(i) = "T_SYMLINK"
  BY <1>1 DEF At, InodeOf, Type
<1>3. call[t].kind \in {"append", "truncate"} /\ call[t] \in CallType
  BY <1>2, KindsOf DEF Apart, KindFits, Opens, Adding, Filling, Deleting
<1>4. i \in Allocated /\ Found(t)
  BY <1>1, <1>2 DEF Apart, Plan, PlanOfOpen, Found
<1>5. Data(i) \in Blocks /\ Data(i) # -1
  BY <1>1, <1>2, <1>4, FoundIsSettled, Sizes
<1>6. PICK path \in {text[Data(i)], Garbled} : Set(t, "name", path)
  BY <1>1, <1>5 DEF InodeOf, Data
<1>7. GoTo(t, "lookup") /\ UNCHANGED status
  BY <1>1, <1>5 DEF InodeOf, Data
<1>8. path \in Texts
  BY <1>5, Sizes DEF Apart, Tables
<1>9. PICK c : c = [call[t] EXCEPT !.name = path]
  OBVIOUS
<1>10. c \in CallType /\ c.name = path /\ c.kind = call[t].kind
  BY <1>3, <1>8, <1>9 DEF CallType
<1>11. Moves(t, "lookup", c) /\ "lookup" \in Steps /\ "lookup" \in Looking
  BY <1>6, <1>7, <1>9 DEF Set, GoTo, Moves, Steps, Looking
<1>12. /\ call'[t] = c
       /\ \A u \in Threads : u # t => pc'[u] = pc[u] /\ call'[u] = call[u]
  BY <1>10, <1>11, Moved DEF Apart
<1>13. KindsApart'
  BY <1>2, <1>10, <1>12, KindsKept DEF Apart
<1>14. ~shared' /\ "orphaned" \notin lapses => \A u \in Threads : u # t => ~HasFile(u)
  BY <1>2 DEF Apart, AppendsApart, HasFile
<1> QED BY <1>2, <1>3, <1>7, <1>8, <1>10, <1>11, <1>13, <1>14, LookupKeeps

LEMMA StepMoves ==
  ASSUME ThreadTypes, NEW t \in Threads, NEW step, GoTo(t, step), call' = call
  PROVE  Moves(t, step, call[t])
BY DEF ThreadTypes, GoTo, Moves

LEMMA FieldMoves ==
  ASSUME NEW t \in Threads, NEW step, NEW c, GoTo(t, step),
         call' = [call EXCEPT ![t] = c]
  PROVE  Moves(t, step, c)
BY DEF GoTo, Moves

LEMMA LockSteps ==
  ASSUME Apart, NEW t \in Threads
  PROVE  /\ UNCHANGED lockVars => LocksKept(t) /\ readers' = readers
         /\ ReadLocked(t) => LocksKept(t)
         /\ ReadLocked(t) /\ call[t].inum \in Inums => t \in readers'[call[t].inum]
         /\ WriteLocked(t) => LocksKept(t)
         /\ Unlocked(t) => LocksKept(t)
<1> USE DEF Apart, ThreadTypes, LocksKept, InumOfCall
<1>1. UNCHANGED lockVars => LocksKept(t) /\ readers' = readers
  BY DEF lockVars, inodeLocks
<1> DEFINE i0 == call[t].inum
<1>2. ReadLocked(t) => LocksKept(t)
  <2> SUFFICES ASSUME ReadLocked(t) PROVE LocksKept(t)
    OBVIOUS
  <2>1. writer' = writer /\ readers' = [readers EXCEPT ![i0] = @ \cup {t}]
    BY DEF ReadLocked
  <2> HIDE DEF i0
  <2>2. \A i \in Inums : readers'[i] = readers[i] \/ readers'[i] = readers[i] \cup {t}
    BY <2>1
  <2>3. readers' \in [Inums -> SUBSET Threads]
    BY <2>1
  <2> QED BY <2>1, <2>2, <2>3
<1>3. ReadLocked(t) /\ call[t].inum \in Inums => t \in readers'[call[t].inum]
  BY DEF ReadLocked
<1>4. WriteLocked(t) => LocksKept(t)
  BY DEF WriteLocked
<1>5. Unlocked(t) => LocksKept(t)
  <2> SUFFICES ASSUME Unlocked(t) PROVE LocksKept(t)
    OBVIOUS
  <2>1. /\ readers' = [readers EXCEPT ![i0] = @ \ {t}]
        /\ writer' = [writer EXCEPT ![i0] = IF @ = t THEN NoThread ELSE @]
    BY DEF Unlocked
  <2> HIDE DEF i0
  <2>2. \A i \in Inums : readers'[i] = readers[i] \/ readers'[i] = readers[i] \ {t}
    BY <2>1
  <2>3. readers' \in [Inums -> SUBSET Threads]
    BY <2>1
  <2>4. writer' \in [Inums -> Threads \cup {NoThread}]
    BY <2>1
  <2> QED BY <2>2, <2>3, <2>4
<1> QED BY <1>1, <1>2, <1>3, <1>4, <1>5

-----------------------------------------------------------------------------
(* The other steps that change no table                                    *)

LEMMA OpenFileKeeps ==
  ASSUME Apart, NEW t \in Threads, OpenFile(t)
  PROVE  Apart'
<1> USE DEF OpenFile, tfsVars, inodeVars, blockVars, callVars, pastVars
<1>1. PICK i : i = call[t].inum
  OBVIOUS
<1>2. pc[t] = "readLock" /\ call[t].kind \in Opens /\ Type(i) # "T_SYMLINK"
  BY <1>1 DEF At, InodeOf, Type
<1>3. call[t].kind \in {"append", "truncate"}
  BY <1>2 DEF Apart, KindFits, Opens, Adding, Deleting, Filling, Looking
<1>4. i \in Allocated /\ EntriesOf(i) # {} /\ i \in Inums
  BY <1>1, <1>2 DEF Apart, Plan, PlanOfOpen, Found, Allocated
<1>5. call[t] \in CallType
  BY KindsOf DEF Apart
<1>6. PICK step \in Steps, c \in CallType :
        /\ Moves(t, step, c) /\ c.kind = call[t].kind /\ c.inum = i
        /\ LocksKept(t)
        /\ \/ step = "truncate" /\ c.kind = "truncate" /\ t \in readers'[i]
           \/ step = "addOpen" /\ c.offset = Size(i)
  <2>1. CASE call[t].kind = "truncate"
    <3>1. Moves(t, "truncate", call[t]) /\ ReadLocked(t)
      BY <2>1, StepMoves DEF Apart
    <3>2. "truncate" \in Steps
      BY DEF Steps
    <3> QED BY <3>1, <3>2, <2>1, <1>1, <1>4, <1>5, LockSteps
  <2>2. CASE call[t].kind # "truncate"
    <3>1. PICK c : c = [call[t] EXCEPT !.offset = Size(i)]
      OBVIOUS
    <3>2. Size(i) \in Nat
      BY <1>4, Sizes DEF Apart, Tables, InodeType, Size
    <3>3. c \in CallType /\ c.kind = call[t].kind /\ c.inum = i /\ c.offset = Size(i)
      BY <3>1, <3>2, <1>1, <1>5 DEF CallType
    <3>4. Moves(t, "addOpen", c) /\ UNCHANGED lockVars
      BY <2>2, <3>1, <1>1 DEF Set, GoTo, Moves, InodeOf, Size
    <3>5. "addOpen" \in Steps
      BY DEF Steps
    <3> QED BY <3>3, <3>4, <3>5, LockSteps
  <2> QED BY <2>1, <2>2
<1>7. /\ pc'[t] = step /\ call'[t] = c
      /\ \A u \in Threads : u # t => pc'[u] = pc[u] /\ call'[u] = call[u]
  BY <1>6, Moved DEF Apart
<1>8. KindFits(t)' /\ ~Making(t)' /\ ~Changing(t) /\ Found(t)'
  BY <1>2, <1>3, <1>6, <1>7 DEF KindFits, Making, Changing, Found, Truncating, Adding,
                               Lowering, Deleting
<1>9. KindsApart'
  BY <1>2, <1>6, <1>7, KindsKept DEF Apart
<1>10. Plan(t)'
  <2>1. i \in Allocated' /\ EntriesOf(i)' # {} /\ Isnt(i, "T_SYMLINK")'
    BY <1>2, <1>4 DEF Allocated, EntriesOf, Isnt, Type
  <2>2. PlanOfOpen(t)'
    BY <2>1, <1>6, <1>7, <1>8 DEF PlanOfOpen, Truncating
  <2>3. PlanOfMaking(t)' /\ PlanOfAdding(t)' /\ PlanOfUnlink(t)'
    BY <1>3, <1>6, <1>7, <1>8 DEF PlanOfMaking, PlanOfAdding, PlanOfUnlink
  <2> QED BY <2>2, <2>3, <1>2, <1>3, <1>4, <1>6, <1>7, <1>8 DEF Plan, PlanOfLooking, Looking
<1>11. \A j \in Inums : ~SparedBy(t, j) /\ ~SparedBy(t, j)'
  BY <1>2, <1>6, <1>7 DEF SparedBy
<1>12. AppendsApart'
  <2>1. HasFile(t)' => HasFile(t)
    BY <1>2 DEF HasFile
  <2>2. \A j \in Inums : Size(j)' = Size(j)
    BY DEF Size
  <2>3. pc'[t] = "addOpen" => Size(call[t].inum)' <= call'[t].offset
    <3>1. Size(i) \in Nat /\ Size(i)' = Size(i)
      BY <1>4, Sizes DEF Apart, Tables, InodeType, Size
    <3> QED BY <3>1, <1>6, <1>7 DEF Size
  <2>4. pc'[t] \notin Filling
    BY <1>6, <1>7 DEF Adding, Filling
  <2> QED BY <1>7, <2>1, <2>2, <2>3, <2>4, AppendsSame
<1> QED BY <1>6, <1>7, <1>8, <1>9, <1>10, <1>11, <1>12, TablesStay

LEMMA TestSizeKeeps ==
  ASSUME Apart, NEW t \in Threads, TestSize(t)
  PROVE  Apart'
<1> USE DEF TestSize, tfsVars, inodeVars, blockVars, callVars, threadVars, pastVars
<1>1. PICK i : i = call[t].inum
  OBVIOUS
<1>2. pc[t] = "truncate"
  BY DEF At
<1>3. call[t].kind = "truncate"
  BY <1>2, KindsOf DEF Apart, KindFits, Kinds, Opens, Adding, Deleting, Clearing, Lowering, Filling, Looking
<1>4. i \in Allocated /\ EntriesOf(i) # {} /\ i \in Inums /\ Isnt(i, "T_SYMLINK")
      /\ t \in readers[i]
  BY <1>1, <1>2 DEF Apart, Plan, PlanOfOpen, Found, Truncating, Allocated
<1>5. call[t] \in CallType
  BY KindsOf DEF Apart
<1>6. PICK step \in Steps :
        /\ Moves(t, step, call[t]) /\ LocksKept(t)
        /\ \/ step = "freeData" /\ Size(i) > 0 /\ t \in readers'[i]
           \/ step = "addOpen" /\ Size(i) = 0
  <2>1. CASE Size(i) > 0
    <3>1. GoTo(t, "freeData") /\ UNCHANGED lockVars
      BY <2>1, <1>1 DEF InodeOf, Size
    <3>2. Moves(t, "freeData", call[t])
      BY <3>1, StepMoves DEF Apart
    <3>3. "freeData" \in Steps
      BY DEF Steps
    <3> QED BY <3>1, <3>2, <3>3, <2>1, <1>4, LockSteps
  <2>2. CASE ~(Size(i) > 0)
    <3>1. GoTo(t, "addOpen") /\ Unlocked(t)
      BY <2>2, <1>1 DEF InodeOf, Size
    <3>2. Moves(t, "addOpen", call[t])
      BY <3>1, StepMoves DEF Apart
    <3>3. "addOpen" \in Steps
      BY DEF Steps
    <3>4. Size(i) = 0
      <4>1. Size(i) \in Nat
        BY <1>4, Sizes DEF Apart, Tables, InodeType, Size
      <4> QED BY <4>1, <2>2
    <3> QED BY <3>1, <3>2, <3>3, <3>4, LockSteps
  <2> QED BY <2>1, <2>2
<1>7. /\ pc'[t] = step /\ call'[t] = call[t]
      /\ \A u \in Threads : u # t => pc'[u] = pc[u] /\ call'[u] = call[u]
  BY <1>5, <1>6, Moved DEF Apart
<1>8. KindFits(t)' /\ ~Making(t)' /\ ~Changing(t) /\ Found(t)'
  BY <1>2, <1>3, <1>6, <1>7 DEF KindFits, Making, Changing, Found, Truncating, Adding,
                               Lowering, Deleting
<1>9. KindsApart'
  BY <1>2, <1>6, <1>7, KindsKept DEF Apart
<1>10. Plan(t)'
  <2>1. i \in Allocated' /\ EntriesOf(i)' # {} /\ Isnt(i, "T_SYMLINK")' /\ Size(i)' = Size(i)
    BY <1>2, <1>4 DEF Allocated, EntriesOf, Isnt, Type, Size
  <2>2. PlanOfOpen(t)'
    BY <2>1, <1>1, <1>6, <1>7, <1>8 DEF PlanOfOpen, Truncating
  <2>3. PlanOfMaking(t)' /\ PlanOfAdding(t)' /\ PlanOfUnlink(t)'
    BY <1>3, <1>6, <1>7, <1>8 DEF PlanOfMaking, PlanOfAdding, PlanOfUnlink
  <2> QED BY <2>2, <2>3, <1>1, <1>2, <1>3, <1>4, <1>6, <1>7, <1>8 DEF Plan, PlanOfLooking, Looking
<1>11. \A j \in Inums : ~SparedBy(t, j) /\ ~SparedBy(t, j)'
  BY <1>2, <1>6, <1>7 DEF SparedBy
<1>12. AppendsApart'
  <2>1. HasFile(t)' => HasFile(t)
    BY <1>7 DEF HasFile
  <2>2. \A j \in Inums : Size(j)' = Size(j)
    BY DEF Size
  <2>3. pc'[t] = "addOpen" => Size(call[t].inum)' <= call'[t].offset
    <3>1. call[t].offset \in Nat
      BY <1>5 DEF CallType
    <3> QED BY <3>1, <1>1, <1>6, <1>7 DEF Size
  <2>4. pc'[t] \notin Filling
    BY <1>6, <1>7 DEF Adding, Filling
  <2> QED BY <1>7, <2>1, <2>2, <2>3, <2>4, AppendsSame
<1> QED BY <1>5, <1>6, <1>7, <1>8, <1>9, <1>10, <1>11, <1>12, TablesStay

\* A step within tfs_unlink; its thread is the only one under way.
LEMMA UnlinkGoesOn ==
  ASSUME Apart, NEW t \in Threads, NEW step \in Steps, NEW c \in CallType,
         Moves(t, step, c), call[t].kind = "unlink",
         \/ step \in {"clearPick", "clearStore", "storeCounter", "delete"}
            /\ c.kind = "unlink" /\ c.inum = call[t].inum
         \/ step = "idle" /\ c = NoCall
            /\ \A i \in Allocated : i = call[t].inum => Settled(i),
         pc[t] \in {"readLock", "clearPick", "lower", "testCounter"},
         step = "storeCounter" => pc[t] = "lower",
         step = "delete" => pc[t] = "testCounter",
         step \in Clearing => pc[t] \in {"readLock", "clearPick"},
         step = "delete" => \A i \in Allocated : i = c.inum => Type(i) # "T_SYMLINK",
         UNCHANGED <<status, inodeVars, dir_entries, blockVars, open_file_table,
                     lapses, handle, shared>>,
         LocksKept(t), PlanOfUnlink(t)'
  PROVE  Apart'
<1> USE DEF inodeVars, blockVars
<1>1. /\ pc'[t] = step /\ call'[t] = c
      /\ \A u \in Threads : u # t => pc'[u] = pc[u] /\ call'[u] = call[u]
  BY Moved DEF Apart
<1>2. PICK i : i = call[t].inum
  OBVIOUS
<1>3. i \in Allocated /\ i \in Inums
  BY <1>2 DEF Apart, Plan, PlanOfUnlink, Allocated
<1>4. c.kind \in {"unlink", "none"} /\ (c.kind = "unlink" => c.inum = i)
      /\ (c.kind = "none" <=> step = "idle")
  BY <1>2, NoCallType
<1>5. KindFits(t)'
  BY <1>1, <1>4 DEF KindFits, Clearing, Lowering, Deleting
<1>6. ~Making(t)'
  BY <1>1, <1>4 DEF Making
<1>7. KindsApart'
  <2>1. pc[t] # "idle"
    OBVIOUS
  <2> QED BY <2>1, <1>1, <1>4, KindsKept DEF Apart
<1>8. Plan(t)'
  <2>1. Found(t)' => Found(t) /\ c.inum = i
    BY <1>1, <1>4 DEF Found, Truncating, Clearing
  <2>2. Found(t)' => (i \in Allocated /\ EntriesOf(i) # {})'
    BY <2>1, <1>2, <1>3 DEF Apart, Plan, PlanOfOpen, Allocated, EntriesOf
  <2>3. pc'[t] \notin Truncating /\ pc'[t] # "freeData"
    BY <1>1 DEF Truncating, Clearing
  <2>4. PlanOfOpen(t)'
    BY <1>1, <2>1, <2>2, <2>3 DEF PlanOfOpen
  <2>5. PlanOfMaking(t)'
    BY <1>6 DEF PlanOfMaking
  <2>6. PlanOfAdding(t)'
    BY <1>1, <1>4 DEF PlanOfAdding, Clearing, Deleting
  <2> QED BY <2>4, <2>5, <2>6, <1>1, <1>4, <1>6 DEF Plan, PlanOfLooking, Looking
<1>9. \A j \in Inums : ~SparedBy(t, j) /\ ~SparedBy(t, j)'
  <2>1. step = "delete" => Type(i) # "T_SYMLINK" /\ Type(i)' = Type(i)
    BY <1>3, <1>4 DEF Type
  <2> QED BY <2>1, <1>1, <1>4 DEF SparedBy
<1>10. AppendsApart'
  <2>1. HasFile(t)' => HasFile(t)
    BY <1>1, <1>4 DEF HasFile, Opens
  <2>2. \A j \in Inums : Size(j)' = Size(j)
    BY DEF Size
  <2>3. pc'[t] # "addOpen" /\ pc'[t] \notin Filling
    BY <1>1 DEF Filling, Adding
  <2> QED BY <1>1, <2>1, <2>2, <2>3, AppendsSame
<1>11. Changing(t) =>
         \/ Changing(t)' /\ c.inum = call[t].inum
         \/ \A j \in Allocated : j = call[t].inum => Settled(j)
  BY <1>1 DEF Changing, Adding, Lowering, Deleting, Clearing
<1> QED BY <1>5, <1>6, <1>7, <1>8, <1>9, <1>10, <1>11, TablesStay

\* The directory and the inodes as they were, for a plan to be read again
LEMMA SameForPlans ==
  ASSUME UNCHANGED <<inode_table, freeinode_ts, dir_entries, lapses>>
  PROVE  /\ \A i : /\ Type(i)' = Type(i) /\ Counter(i)' = Counter(i)
                   /\ Size(i)' = Size(i) /\ Data(i)' = Data(i)
                   /\ EntriesOf(i)' = EntriesOf(i)
                   /\ (Ahead(i)' <=> Ahead(i)) /\ (Counted(i)' <=> Counted(i))
                   /\ (Settled(i)' <=> Settled(i))
                   /\ (Isnt(i, "T_SYMLINK")' <=> Isnt(i, "T_SYMLINK"))
         /\ \A n : /\ (Listed(n)' <=> Listed(n)) /\ find_in_dir(n)' = find_in_dir(n)
                   /\ SlotsNamed(n)' = SlotsNamed(n)
         /\ Allocated' = Allocated /\ SlotsUsed' = SlotsUsed
<1>1. /\ \A i : /\ Type(i)' = Type(i) /\ Counter(i)' = Counter(i)
                /\ Size(i)' = Size(i) /\ Data(i)' = Data(i)
                /\ EntriesOf(i)' = EntriesOf(i)
  BY DEF Type, Counter, Size, Data, EntriesOf
<1>2. \A i : (Ahead(i)' <=> Ahead(i)) /\ (Counted(i)' <=> Counted(i))
  BY <1>1 DEF Ahead, Counted
<1>3. \A i : (Settled(i)' <=> Settled(i)) /\ (Isnt(i, "T_SYMLINK")' <=> Isnt(i, "T_SYMLINK"))
  BY <1>1, <1>2 DEF Settled, Isnt
<1>4. \A n : /\ (Listed(n)' <=> Listed(n)) /\ find_in_dir(n)' = find_in_dir(n)
             /\ SlotsNamed(n)' = SlotsNamed(n)
  BY DEF Listed, find_in_dir, SlotsNamed, SlotsUsed
<1>5. Allocated' = Allocated /\ SlotsUsed' = SlotsUsed
  BY DEF Allocated, SlotsUsed
<1> QED BY <1>1, <1>2, <1>3, <1>4, <1>5

\* The inode that a thread is about to unlink
LEMMA UnlinkHolds ==
  ASSUME Apart, NEW t \in Threads, NEW i, i = call[t].inum, call[t].kind = "unlink",
         pc[t] # "looking"
  PROVE  /\ i \in Allocated /\ i \in Inums /\ call[t] \in CallType
         /\ call[t].name \in Texts \cup {NoName}
         /\ \A u \in Threads : u # t => pc[u] = "idle" /\ call[u].kind = "none"
<1>1. i \in Allocated /\ i \in Inums
  BY DEF Apart, Plan, PlanOfUnlink, Allocated
<1>2. call[t] \in CallType /\ call[t].name \in Texts \cup {NoName}
  BY KindsOf DEF Apart, CallType
<1>3. \A u \in Threads : u # t => call[u].kind = "none"
  BY OneChanger DEF Apart
<1> QED BY <1>1, <1>2, <1>3 DEF Apart, KindFits

LEMMA LockToUnlinkKeeps ==
  ASSUME Apart, NEW t \in Threads, LockToUnlink(t)
  PROVE  Apart'
<1> USE DEF LockToUnlink, tfsVars, callVars, threadVars, pastVars, inodeVars
<1>1. PICK i : i = call[t].inum
  OBVIOUS
<1>2. pc[t] = "readLock" /\ call[t].kind = "unlink"
  BY DEF At
<1>3. i \in Allocated /\ call[t] \in CallType
  BY <1>1, <1>2, UnlinkHolds
<1>4. Moves(t, "clearPick", call[t]) /\ LocksKept(t) /\ "clearPick" \in Steps
  BY StepMoves, LockSteps DEF Apart, Steps
<1>5. pc'[t] = "clearPick" /\ call'[t] = call[t]
  BY <1>3, <1>4, Moved DEF Apart
<1>6. call[t].name \in Texts /\ Listed(call[t].name) /\ i = find_in_dir(call[t].name)
  BY <1>1, <1>2 DEF Apart, Plan, PlanOfUnlink
<1>7. PlanOfUnlink(t)'
  BY <1>1, <1>2, <1>3, <1>5, <1>6, SameForPlans DEF PlanOfUnlink, Clearing, Deleting
<1> QED BY <1>2, <1>3, <1>4, <1>7, UnlinkGoesOn DEF Clearing

\* The first entry that spells the name is a used one.
LEMMA SpelledIsUsed ==
  ASSUME DirectoryApart, NEW name \in Texts
  PROVE  {s \in Slots : dir_entries[s].d_name = name} = SlotsNamed(name)
BY Sizes DEF DirectoryApart, SlotsNamed, SlotsUsed

LEMMA ClearPickKeeps ==
  ASSUME Apart, NEW t \in Threads, ClearPick(t)
  PROVE  Apart'
<1> USE DEF ClearPick, tfsVars, callVars, pastVars, inodeVars
<1>1. PICK i : i = call[t].inum
  OBVIOUS
<1>2. pc[t] = "clearPick"
  BY DEF At
<1>3. call[t].kind = "unlink"
  BY <1>2, KindsOf DEF Apart, KindFits, Kinds, Opens, Adding, Deleting, Truncating, Filling, Looking
<1>4. i \in Allocated /\ call[t] \in CallType
  BY <1>1, <1>2, <1>3, UnlinkHolds
<1>5. PICK name : name = call[t].name /\ Listed(name) /\ i = find_in_dir(name)
  BY <1>1, <1>2, <1>3 DEF Apart, Plan, PlanOfUnlink, Clearing
<1>6. name \in Texts
  BY <1>1, <1>2, <1>3, <1>5 DEF Apart, Plan, PlanOfUnlink, Clearing
<1>7. PICK slot : slot = First(SlotsNamed(name))
  OBVIOUS
<1>8. slot \in SlotsNamed(name) /\ dir_entries[slot].d_inumber = i /\ slot \in Slots
  BY <1>5, <1>7, FoundEntry DEF find_in_dir, SlotsNamed, SlotsUsed
<1>9. PICK c : c = [call[t] EXCEPT !.slot = slot]
  OBVIOUS
<1>10. c \in CallType /\ c.kind = "unlink" /\ c.inum = i /\ c.slot = slot /\ c.name = name
  BY <1>1, <1>3, <1>4, <1>5, <1>8, <1>9 DEF CallType
<1>11. Moves(t, "clearStore", c) /\ UNCHANGED lockVars
  <2>1. {s \in Slots : dir_entries[s].d_name = call[t].name} = SlotsNamed(name)
    BY <1>5, <1>6, SpelledIsUsed DEF Apart
  <2>2. Set(t, "slot", slot) /\ GoTo(t, "clearStore") /\ UNCHANGED lockVars
    BY <2>1, <1>7, <1>8
  <2> QED BY <2>2, <1>9 DEF Set, GoTo, Moves
<1>12. "clearStore" \in Steps /\ LocksKept(t)
  BY <1>11, LockSteps DEF Steps
<1>13. pc'[t] = "clearStore" /\ call'[t] = c
  BY <1>10, <1>11, <1>12, Moved DEF Apart
<1>14. PlanOfUnlink(t)'
  BY <1>4, <1>5, <1>6, <1>8, <1>10, <1>13, SameForPlans DEF PlanOfUnlink, Clearing, Deleting
<1> QED BY <1>1, <1>2, <1>3, <1>10, <1>11, <1>12, <1>14, UnlinkGoesOn DEF Clearing

LEMMA LoadCounterKeeps ==
  ASSUME Apart, NEW t \in Threads, LoadCounter(t)
  PROVE  Apart'
<1> USE DEF LoadCounter, tfsVars, callVars, pastVars, inodeVars
<1>1. PICK i : i = call[t].inum
  OBVIOUS
<1>2. pc[t] = "lower"
  BY DEF At
<1>3. call[t].kind = "unlink"
  BY <1>2, KindsOf DEF Apart, KindFits, Kinds, Opens, Adding, Deleting, Truncating, Filling, Looking
<1>4. i \in Allocated /\ i \in Inums /\ call[t] \in CallType
  BY <1>1, <1>2, <1>3, UnlinkHolds
<1>5. Isnt(i, "T_SYMLINK") /\ Ahead(i)
  BY <1>1, <1>2, <1>3 DEF Apart, Plan, PlanOfUnlink
<1>6. Counter(i) - 1 \in Nat
  <2>1. Counter(i) \in Nat
    BY <1>4 DEF Apart, Tables, InodeType, Counter
  <2> QED BY <2>1, <1>5, EntriesAreFinite DEF Ahead
<1>7. PICK c : c = [call[t] EXCEPT !.count = Counter(i) - 1]
  OBVIOUS
<1>8. c \in CallType /\ c.kind = "unlink" /\ c.inum = i /\ c.count = Counter(i) - 1
  BY <1>1, <1>3, <1>4, <1>6, <1>7 DEF CallType
<1>9. Moves(t, "storeCounter", c) /\ LocksKept(t) /\ "storeCounter" \in Steps
  BY <1>1, <1>7, LockSteps DEF Set, GoTo, Moves, InodeOf, Counter, Steps
<1>10. pc'[t] = "storeCounter" /\ call'[t] = c
  BY <1>8, <1>9, Moved DEF Apart
<1>11. PlanOfUnlink(t)'
  BY <1>4, <1>5, <1>8, <1>10, SameForPlans DEF PlanOfUnlink, Deleting, Clearing
<1> QED BY <1>1, <1>2, <1>3, <1>8, <1>9, <1>11, UnlinkGoesOn DEF Clearing

LEMMA TestCounterKeeps ==
  ASSUME Apart, NEW t \in Threads, TestCounter(t)
  PROVE  Apart'
<1> USE DEF TestCounter, tfsVars, callVars, pastVars, inodeVars, threadVars
<1>1. PICK i : i = call[t].inum
  OBVIOUS
<1>2. pc[t] = "testCounter"
  BY DEF At
<1>3. call[t].kind = "unlink"
  BY <1>2, KindsOf DEF Apart, KindFits, Kinds, Opens, Adding, Deleting, Truncating, Filling, Looking
<1>4. i \in Allocated /\ i \in Inums /\ call[t] \in CallType
  BY <1>1, <1>2, <1>3, UnlinkHolds
<1>5. Isnt(i, "T_SYMLINK") /\ Counted(i) /\ call[t].count = Counter(i)
  BY <1>1, <1>2, <1>3 DEF Apart, Plan, PlanOfUnlink
<1>6. IsFiniteSet(EntriesOf(i)) /\ Cardinality(EntriesOf(i)) \in Nat /\ Counter(i) \in Nat
  BY <1>4, EntriesAreFinite DEF Apart, Tables, InodeType, Counter
<1>7. {call[t].count, InodeOf(t).i_link_counter} = {Counter(i)}
  BY <1>1, <1>5 DEF InodeOf, Counter
<1>8. CASE 0 \in {call[t].count, InodeOf(t).i_link_counter} /\ GoTo(t, "delete")
           /\ UNCHANGED <<threadVars, lockVars>>
  <2>1. Counter(i) = 0
    BY <1>7, <1>8
  <2>2. EntriesOf(i) = {}
    <3>1. Cardinality(EntriesOf(i)) = 0
      BY <2>1, <1>5, <1>6 DEF Counted
    <3> QED BY <3>1, <1>6, FS_EmptySet
  <2>3. Moves(t, "delete", call[t]) /\ LocksKept(t) /\ "delete" \in Steps
    BY <1>8, StepMoves, LockSteps DEF Apart, Steps
  <2>4. pc'[t] = "delete" /\ call'[t] = call[t]
    BY <1>4, <2>3, Moved DEF Apart
  <2>5. Isnt(i, "T_SYMLINK")'
    BY <1>5, SameForPlans
  <2>6. PlanOfUnlink(t)'
    BY <1>1, <1>3, <1>4, <2>2, <2>4, <2>5, SameForPlans DEF PlanOfUnlink, Deleting, Clearing, Isnt
  <2>7. \A j \in Allocated : j = call[t].inum => Type(j) # "T_SYMLINK"
    BY <1>1, <1>5 DEF Isnt
  <2>8. UNCHANGED <<status, inodeVars, dir_entries, blockVars, open_file_table, lapses,
                    handle, shared>>
    BY <1>8
  <2>9. call[t].kind = "unlink" /\ "delete" \notin Clearing
    BY <1>3 DEF Clearing
  <2> QED BY <1>1, <1>2, <1>4, <2>3, <2>6, <2>7, <2>8, <2>9, UnlinkGoesOn
<1>9. CASE /\ {call[t].count, InodeOf(t).i_link_counter} # {0}
           /\ Unlocked(t) /\ Return(t)
  <2>1. Counter(i) # 0
    BY <1>7, <1>9
  <2>2. Settled(i)
    <3>1. "spilled" \notin lapses => EntriesOf(i) # {}
      BY <2>1, <1>5, <1>6, FS_EmptySet DEF Counted
    <3> QED BY <3>1, <1>5 DEF Settled, Isnt
  <2>3. Moves(t, "idle", NoCall) /\ LocksKept(t) /\ "idle" \in Steps /\ handle' = handle
    BY <1>9, LockSteps DEF Return, GoTo, Moves, Steps
  <2>4. pc'[t] = "idle" /\ call'[t] = NoCall
    BY <2>3, NoCallType, Moved DEF Apart
  <2>5. PlanOfUnlink(t)'
    BY <2>4, NoCallType DEF PlanOfUnlink
  <2> QED BY <1>1, <1>2, <1>3, <2>2, <2>3, <2>5, NoCallType, UnlinkGoesOn DEF Clearing
<1> QED BY <1>8, <1>9

\* What is left of a step's proof is about tables and plans.
LEMMA OthersStay ==
  ASSUME Apart, NEW t \in Threads, NEW step \in Steps, NEW c \in CallType,
         Moves(t, step, c), LocksKept(t), handle' \in [Threads -> Handles \cup {-1}],
         KindFits(t)',
         step = "idle" \/ (pc[t] # "idle" /\ c.kind = call[t].kind)
  PROVE  /\ ThreadTypes' /\ KindsApart' /\ \A u \in Threads : KindFits(u)'
         /\ pc'[t] = step /\ call'[t] = c
         /\ \A u \in Threads : u # t => pc'[u] = pc[u] /\ call'[u] = call[u]
<1>1. /\ pc'[t] = step /\ call'[t] = c
      /\ \A u \in Threads : u # t => pc'[u] = pc[u] /\ call'[u] = call[u]
      /\ pc' \in [Threads -> Steps] /\ call' \in [Threads -> CallType]
  BY Moved DEF Apart
<1>2. ThreadTypes'
  BY <1>1 DEF ThreadTypes, LocksKept
<1>3. KindsApart'
  BY <1>1, KindsKept DEF Apart
<1>4. \A u \in Threads : KindFits(u)'
  BY <1>1 DEF Apart, KindFits
<1> QED BY <1>1, <1>2, <1>3, <1>4

\* While t adds an entry the others only open files.
LEMMA OpenersStay ==
  ASSUME Apart, NEW t \in Threads, call[t].kind \in Adders, LocksKept(t),
         \A u \in Threads : u # t => pc'[u] = pc[u] /\ call'[u] = call[u],
         \A i \in Allocated : EntriesOf(i) # {} =>
            /\ i \in Allocated' /\ EntriesOf(i)' # {}
            /\ Type(i)' = Type(i) /\ (Size(i) > 0 => Size(i)' > 0)
  PROVE  \A u \in Threads : u # t =>
            /\ Plan(u)' /\ ~Changing(u) /\ ~Making(u) /\ pc[u] # "delete"
            /\ call[u].kind \in {"none", "append", "truncate"}
<1> SUFFICES ASSUME NEW u \in Threads, u # t
             PROVE  /\ Plan(u)' /\ ~Changing(u) /\ ~Making(u) /\ pc[u] # "delete"
                    /\ call[u].kind \in {"none", "append", "truncate"}
  OBVIOUS
<1>1. call[u].kind \in {"none", "append", "truncate"}
  BY OneChanger DEF Apart
<1>2. /\ ~Changing(u) /\ ~Making(u)
      /\ pc[u] \in {"idle", "readLock", "addOpen"} \cup Truncating \cup Looking
  BY <1>1, OnlyOpens DEF Apart
<1>3. \A i \in Inums : u \in readers[i] => u \in readers'[i]
  BY DEF LocksKept
<1>4. Plan(u)'
  BY <1>1, <1>3, PlanOfOpener DEF Apart, Allocated
<1> QED BY <1>1, <1>2, <1>4 DEF Truncating, Looking

\* While t unlinks the others do nothing.
LEMMA IdlersStay ==
  ASSUME Apart, NEW t \in Threads, call[t].kind = "unlink", pc[t] # "looking",
         \A u \in Threads : u # t => pc'[u] = pc[u] /\ call'[u] = call[u]
  PROVE  \A u \in Threads : u # t =>
            /\ Plan(u)' /\ ~Changing(u) /\ ~Making(u) /\ pc[u] = "idle"
            /\ call[u].kind = "none"
<1> SUFFICES ASSUME NEW u \in Threads, u # t
             PROVE  /\ Plan(u)' /\ ~Changing(u) /\ ~Making(u) /\ pc[u] = "idle"
                    /\ call[u].kind = "none"
  OBVIOUS
<1>1. pc[u] = "idle" /\ call[u].kind = "none"
  BY UnlinkHolds
<1>2. ~Found(u) /\ ~Changing(u) /\ ~Making(u)
  BY <1>1 DEF Found, Changing, Making, Truncating, Clearing, Adding, Lowering, Deleting
<1>3. Plan(u)'
  BY <1>1, <1>2, PlanOfOpener DEF Apart
<1> QED BY <1>1, <1>2, <1>3

\* A link call that gives up halfway is what "spilled" tells.
LEMMA SpilledKeeps ==
  ASSUME Apart, NEW t \in Threads, pc[t] \in {"linkBlock", "addPick"},
         call[t].kind \in {"link", "symlink"}, Return(t), LocksKept(t), Lapse("spilled"),
         UNCHANGED <<status, inodeVars, dir_entries, blockVars, open_file_table, shared>>
  PROVE  Apart'
<1> USE DEF inodeVars, blockVars
<1>1. PICK i : i = call[t].inum
  OBVIOUS
<1>2. Moves(t, "idle", NoCall) /\ handle' = handle /\ "idle" \in Steps
      /\ NoCall \in CallType /\ NoCall.kind = "none"
  BY NoCallType DEF Return, GoTo, Moves, Steps
<1>3. pc'[t] = "idle" /\ call'[t] = NoCall
  BY <1>2, Moved DEF Apart
<1>4. /\ ~Making(t)' /\ ~Changing(t)' /\ ~Found(t)' /\ Changing(t)
  BY <1>3 DEF Making, Changing, Found, Truncating, Clearing, Adding, Lowering, Deleting
<1>5. KindFits(t)'
  BY <1>2, <1>3 DEF KindFits
<1>6. /\ ThreadTypes' /\ KindsApart' /\ \A u \in Threads : KindFits(u)'
      /\ \A u \in Threads : u # t => pc'[u] = pc[u] /\ call'[u] = call[u]
  <2>1. handle' \in [Threads -> Handles \cup {-1}]
    BY <1>2 DEF Apart, ThreadTypes
  <2> QED BY <1>2, <1>5, <2>1, OthersStay
<1>7. /\ \A j : Type(j)' = Type(j) /\ Counter(j)' = Counter(j)
                /\ Size(j)' = Size(j) /\ Data(j)' = Data(j)
      /\ \A j : EntriesOf(j)' = EntriesOf(j)
      /\ Allocated' = Allocated /\ Owners' = Owners /\ SlotsUsed' = SlotsUsed
  BY DEF Type, Counter, Size, Data, EntriesOf, Allocated, Owners, SlotsUsed
<1>8. "spilled" \in lapses' /\ lapses \subseteq lapses' /\ Tables'
      /\ \A what : what # "spilled" => (what \in lapses' <=> what \in lapses)
  BY DEF Apart, Tables, Lapse, Lapses
<1>9. call[t].kind \in Adders
  BY DEF Adders
<1>10. \A u \in Threads : u # t => Plan(u)'
  BY <1>6, <1>7, <1>9, OpenersStay
<1>11. Plan(t)'
  <2>1. PlanOfOpen(t)' /\ PlanOfMaking(t)'
    BY <1>3, <1>4 DEF PlanOfOpen, PlanOfMaking, Truncating
  <2>2. PlanOfAdding(t)' /\ PlanOfUnlink(t)'
    BY <1>2, <1>3 DEF PlanOfAdding, PlanOfUnlink, Adding
  <2> QED BY <2>1, <2>2, <1>2, <1>3, <1>4 DEF Plan, PlanOfLooking, Looking
<1>12. DirectoryApart'
  BY <1>7 DEF Apart, DirectoryApart
<1>13. CountersApart'
  <2>1. \A j : j # i /\ InHand(j) => InHand(j)'
    BY <1>1, <1>6, InHandKept
  <2>2. ASSUME NEW j \in Allocated, j = i PROVE Settled(j)'
    <3>1. /\ Cardinality(EntriesOf(j)) <= Counter(j)
          /\ Type(j) = "T_SYMLINK" => Counter(j) = 1 /\ EntriesOf(j) = {}
      <4>1. CASE call[t].kind = "symlink"
        <5>1. Making(t)
          BY <4>1 DEF Making, Adding
        <5>2. Counter(j) = 1 /\ EntriesOf(j) = {}
          BY <5>1, <1>1, <2>2 DEF Apart, Plan, PlanOfMaking
        <5> QED BY <5>2, FS_EmptySet
      <4>2. CASE call[t].kind = "link"
        <5>1. pc[t] \in Adding
          BY <4>2 DEF Apart, KindFits, Adding, Filling, Looking
        <5>2. Isnt(j, "T_SYMLINK") /\ Ahead(j)
          BY <4>2, <5>1, <1>1, <2>2 DEF Apart, Plan, PlanOfAdding
        <5>3. Cardinality(EntriesOf(j)) \in Nat /\ Counter(j) \in Nat
          BY EntriesAreFinite DEF Apart, Tables, InodeType, Counter, Allocated
        <5> QED BY <5>2, <5>3 DEF Ahead, Isnt
      <4> QED BY <4>1, <4>2
    <3> QED BY <3>1, <1>7, <1>8 DEF Settled, Counted
  <2> QED BY <2>1, <2>2, <1>7, <1>8, CountersKept DEF Apart
<1>14. BlocksApart'
  <2>1. \A j \in Inums : ~SparedBy(t, j) /\ ~SparedBy(t, j)'
    BY <1>3 DEF SparedBy
  <2>2. \A j \in Inums : Spared(j)' <=> Spared(j)
    BY <2>1, <1>6, <1>7, SparedKept
  <2>3. BlockOwners' = BlockOwners
    BY <2>2, <1>7 DEF BlockOwners, Owners
  <2> QED BY <2>3, <1>7, <1>8, BlocksKept DEF Apart, BlocksApart
<1>15. HandlesApart'
  <2>1. \A u \in Threads : Making(u)' => Making(u) /\ call'[u].inum = call[u].inum
    BY <1>4, <1>6 DEF Making
  <2> QED BY <2>1, <1>2, <1>7, <1>8, HandlesKept DEF Apart
<1>16. AppendsApart'
  <2>1. ~HasFile(t)' \/ HasFile(t)
    BY <1>2, <1>3 DEF HasFile, Opens
  <2>2. pc'[t] # "addOpen" /\ pc'[t] \notin Filling
    BY <1>3 DEF Adding, Filling
  <2> QED BY <2>1, <2>2, <1>2, <1>6, <1>7, <1>8, AppendsSame
<1>17. status' = "mounted" /\ freeinode_ts'[ROOT_DIR_INUM] = TAKEN
  BY DEF Apart
<1> QED BY <1>6, <1>8, <1>10, <1>11, <1>12, <1>13, <1>14, <1>15, <1>16, <1>17 DEF Apart

LEMMA AddPickKeeps ==
  ASSUME Apart, NEW t \in Threads, AddPick(t)
  PROVE  Apart'
<1> USE DEF AddPick, inodeVars, blockVars, threadVars, pastVars
<1>1. PICK i : i = call[t].inum
  OBVIOUS
<1>2. pc[t] = "addPick"
  BY DEF At
<1>3. call[t].kind \in Adders
  BY <1>2, KindsOf DEF Apart, KindFits, Kinds, Opens, Adders, Truncating, Clearing,
                       Lowering, Deleting, Filling, Looking
<1>4. i \in Allocated /\ i \in Inums
  <2>1. call[t].kind # "link" => Making(t)
    BY <1>2, <1>3 DEF Making, Adders, Adding
  <2> QED BY <2>1, <1>1, <1>2 DEF Apart, Plan, PlanOfMaking, PlanOfAdding, Adding, Allocated
<1>5. call[t] \in CallType
  BY KindsOf DEF Apart
<1>6. CASE /\ ~CannotList(call[t].name)
           /\ Set(t, "slot", First(Slots \ SlotsUsed)) /\ GoTo(t, "addStore")
           /\ UNCHANGED <<handle, calls, lockVars, lapses>>
  <2>1. PICK slot : slot = First(Slots \ SlotsUsed)
    OBVIOUS
  <2>2. slot \in Slots \ SlotsUsed /\ \A s \in Slots \ SlotsUsed : slot <= s
    <3>1. Slots \ SlotsUsed # {} /\ Slots \ SlotsUsed \subseteq Nat
      BY <1>6, Sizes DEF CannotList, SlotsUsed
    <3> QED BY <2>1, <3>1, FirstIsLeast
  <2>3. PICK c : c = [call[t] EXCEPT !.slot = slot]
    OBVIOUS
  <2>4. /\ c \in CallType /\ c.kind = call[t].kind /\ c.inum = i /\ c.slot = slot
        /\ c.name = call[t].name /\ c.target = call[t].target
    BY <1>1, <1>5, <2>2, <2>3 DEF CallType
  <2>5. Moves(t, "addStore", c) /\ LocksKept(t) /\ "addStore" \in Steps
    BY <1>6, <2>1, <2>3, LockSteps DEF Set, GoTo, Moves, Steps
  <2>6. /\ pc'[t] = "addStore" /\ call'[t] = c
        /\ \A u \in Threads : u # t => pc'[u] = pc[u] /\ call'[u] = call[u]
    BY <2>4, <2>5, Moved DEF Apart
  <2>7. KindFits(t)'
    BY <1>2, <2>4, <2>6 DEF Apart, KindFits, Adding, Truncating, Clearing, Lowering, Deleting, Filling, Looking
  <2>8. KindsApart'
    BY <1>2, <2>4, <2>6, KindsKept DEF Apart
  <2>9. UNCHANGED <<inode_table, freeinode_ts, dir_entries, lapses>>
    BY <1>6
  <2>10. (Making(t)' <=> Making(t)) /\ Changing(t)' /\ ~Found(t)'
    BY <1>2, <2>4, <2>6 DEF Making, Changing, Found, Truncating, Clearing, Adding
  <2>11. Plan(t)'
    <3>1. PlanOfOpen(t)'
      BY <2>6, <2>10 DEF PlanOfOpen, Truncating
    <3>2. PlanOfMaking(t)'
      <4> SUFFICES ASSUME Making(t) PROVE PlanOfMaking(t)'
        BY <2>10 DEF PlanOfMaking
      <4>1. /\ EntriesOf(i) = {} /\ Counter(i) = 1
            /\ Type(i) = IF call[t].kind = "symlink" THEN "T_SYMLINK" ELSE "T_FILE"
            /\ call[t].kind = "symlink" => Size(i) > 0
        BY <1>1, <1>2 DEF Apart, Plan, PlanOfMaking, Adding
      <4> QED BY <4>1, <1>4, <2>4, <2>6, <2>9, SameForPlans DEF PlanOfMaking
    <3>3. PlanOfAdding(t)'
      <4>1. call[t].kind = "link" => EntriesOf(i) # {} /\ Isnt(i, "T_SYMLINK") /\ Ahead(i)
        BY <1>1, <1>2 DEF Apart, Plan, PlanOfAdding, Adding
      <4>2. /\ call[t].kind \in {"link", "symlink"} => call[t].name \in Names
            /\ call[t].kind = "create" => call[t].name \in Texts
            /\ call[t].kind = "symlink" => call[t].target \in Names
        BY DEF Apart, Plan, PlanOfAdding
      <4> QED BY <4>1, <4>2, <1>4, <2>2, <2>4, <2>6, <2>9, SameForPlans DEF PlanOfAdding
    <3>4. PlanOfUnlink(t)'
      BY <1>3, <2>4, <2>6 DEF PlanOfUnlink, Adders
    <3> QED BY <3>1, <3>2, <3>3, <3>4, <1>1, <1>2, <1>3, <2>4, <2>6 DEF Plan, PlanOfLooking, Looking
  <2>12. \A j \in Inums : ~SparedBy(t, j) /\ ~SparedBy(t, j)'
    BY <1>2, <2>6 DEF SparedBy
  <2>13. AppendsApart'
    <3>1. HasFile(t)' => HasFile(t)
      BY <1>6, <2>4, <2>6 DEF HasFile
    <3>2. \A j : Size(j)' = Size(j)
      BY <2>9, SameForPlans
    <3>3. ~shared /\ "orphaned" \notin lapses /\ call'[t].kind = "create" /\ pc'[t] \in Filling =>
             Size(call[t].inum)' = 0
      <4>1. ~shared /\ "orphaned" \notin lapses /\ call[t].kind = "create" => Size(i) = 0
        BY <1>1, <1>2 DEF Apart, AppendsApart, Adding, Filling, Looking
      <4> QED BY <4>1, <3>2, <1>1, <2>4, <2>6 DEF Size
    <3>4. shared' = shared
      OBVIOUS
    <3> QED BY <1>6, <2>6, <3>1, <3>2, <3>3, <3>4, AppendsSame
  <2> QED BY <1>1, <1>6, <2>4, <2>5, <2>7, <2>8, <2>10, <2>11, <2>12, <2>13, TablesStay
<1>7. CASE /\ call[t].kind = "create" /\ GoTo(t, "delete")
           /\ UNCHANGED <<threadVars, lockVars, lapses>>
  <2>1. Moves(t, "delete", call[t]) /\ LocksKept(t) /\ "delete" \in Steps
    BY <1>7, StepMoves, LockSteps DEF Apart, Steps
  <2>2. /\ pc'[t] = "delete" /\ call'[t] = call[t]
        /\ \A u \in Threads : u # t => pc'[u] = pc[u] /\ call'[u] = call[u]
    BY <1>5, <2>1, Moved DEF Apart
  <2>3. KindFits(t)'
    BY <1>7, <2>2 DEF KindFits, Adding, Truncating, Clearing, Lowering, Deleting
  <2>4. KindsApart'
    BY <1>2, <2>2, KindsKept DEF Apart
  <2>5. UNCHANGED <<inode_table, freeinode_ts, dir_entries, lapses>>
    BY <1>7
  <2>6. Making(t)' /\ Making(t) /\ Changing(t)' /\ ~Found(t)'
    BY <1>2, <1>7, <2>2 DEF Making, Changing, Found, Truncating, Clearing, Adding, Deleting
  <2>7. EntriesOf(i) = {} /\ Counter(i) = 1 /\ Type(i) = "T_FILE"
    BY <1>1, <1>2, <1>7, <2>6 DEF Apart, Plan, PlanOfMaking
  <2>8. Plan(t)'
    <3>1. PlanOfOpen(t)'
      BY <2>2, <2>6 DEF PlanOfOpen, Truncating
    <3>2. PlanOfMaking(t)'
      BY <1>1, <1>4, <1>7, <2>2, <2>5, <2>7, SameForPlans DEF PlanOfMaking
    <3>3. PlanOfAdding(t)'
      BY <1>7, <2>2 DEF PlanOfAdding, Adding, Apart, Plan
    <3>4. PlanOfUnlink(t)'
      BY <1>7, <2>2 DEF PlanOfUnlink
    <3> QED BY <3>1, <3>2, <3>3, <3>4, <1>1, <1>4, <1>7, <2>2, <2>5, <2>6, <2>7 DEF Plan, PlanOfLooking, Looking
  <2>9. \A j \in Inums : ~SparedBy(t, j) /\ ~SparedBy(t, j)'
    <3>1. Type(i)' = "T_FILE"
      BY <2>5, <2>7, SameForPlans
    <3> QED BY <3>1, <1>1, <1>2, <2>2 DEF SparedBy
  <2>10. AppendsApart'
    <3>1. HasFile(t)' => HasFile(t)
      BY <1>7, <2>2 DEF HasFile
    <3>2. \A j : Size(j)' = Size(j)
      BY <2>5, SameForPlans
    <3>3. pc'[t] # "addOpen" /\ pc'[t] \notin Filling
      BY <2>2 DEF Adding, Filling
    <3>4. shared' = shared /\ handle' = handle
      BY <1>7
    <3> QED BY <2>2, <2>5, <3>1, <3>2, <3>3, <3>4, AppendsSame
  <2> QED BY <1>1, <1>5, <1>7, <2>1, <2>2, <2>3, <2>4, <2>6, <2>8, <2>9, <2>10, TablesStay
<1>8. CASE call[t].kind # "create" /\ Unlocked(t) /\ Return(t) /\ Lapse("spilled")
  <2>1. call[t].kind \in {"link", "symlink"}
    BY <1>3, <1>8 DEF Adders
  <2>2. LocksKept(t)
    BY <1>8, LockSteps
  <2> QED BY <1>2, <1>8, <2>1, <2>2, SpilledKeeps
<1> QED BY <1>6, <1>7, <1>8

-----------------------------------------------------------------------------
(* Truncation, and the entry of the open file                              *)

\* Nobody else truncates, deletes or makes the inode of a truncation.
LEMMA TruncatesAlone ==
  ASSUME Apart, NEW t \in Threads, pc[t] \in Truncating, NEW i, i = call[t].inum
  PROVE  /\ call[t].kind = "truncate" /\ call[t] \in CallType
         /\ i \in Allocated /\ i \in Inums /\ EntriesOf(i) # {}
         /\ Type(i) # "T_SYMLINK" /\ t \in readers[i]
         /\ ~Changing(t) /\ ~Making(t)
         /\ \A u \in Threads : u # t => call[u].kind \notin {"unlink", "truncate"}
         /\ \A u \in Threads : u # t => ~SparedBy(u, i)
         /\ \A u \in Threads : Making(u) => call[u].inum # i
<1>1. call[t].kind = "truncate"
  BY KindsOf DEF Apart, KindFits, Kinds, Opens, Adding, Deleting, Clearing, Lowering,
                 Truncating, Filling, Looking
<1>2. i \in Allocated /\ i \in Inums /\ EntriesOf(i) # {}
      /\ Type(i) # "T_SYMLINK" /\ t \in readers[i]
  BY DEF Apart, Plan, PlanOfOpen, Found, Allocated, Isnt
<1>3. \A u \in Threads : u # t => call[u].kind \notin {"unlink", "truncate"}
  <2> SUFFICES ASSUME NEW u \in Threads, u # t
               PROVE  call[u].kind \notin {"unlink", "truncate"}
    OBVIOUS
  <2>1. call[u].kind # "unlink"
    BY <1>1, OneChanger DEF Apart
  <2>2. call[u].kind # "truncate"
    <3>1. call[u].kind = "truncate" => pc[u] # "idle"
      BY DEF Apart, KindFits
    <3>2. pc[t] # "idle"
      BY DEF Truncating
    <3>3. call[u].kind = "truncate" => {call[t].kind, call[u].kind} \notin Unsafe
      BY <3>1, <3>2 DEF Apart, KindsApart, Idle
    <3> QED BY <3>3, <1>1, UnsafePairs
  <2> QED BY <2>1, <2>2
<1>4. \A u \in Threads : Making(u) => call[u].inum # i
  BY <1>2 DEF Apart, Plan, PlanOfMaking
<1>5. \A u \in Threads : u # t => ~SparedBy(u, i)
  <2> SUFFICES ASSUME NEW u \in Threads, u # t, SparedBy(u, i) PROVE FALSE
    OBVIOUS
  <2>1. call[u].inum = i /\ pc[u] \in {"initInode", "resetSize", "freeInode"}
    BY <1>2 DEF SparedBy
  <2>2. call[u].kind \in {"create", "symlink"}
    BY <2>1, <1>3, KindsOf DEF Apart, KindFits, Kinds, Opens, Adding, Deleting, Clearing,
                               Lowering, Truncating, Filling, Looking
  <2>3. pc[u] # "resetSize"
    BY <2>2 DEF Apart, KindFits, Adding, Deleting, Filling, Looking
  <2>4. Making(u)
    BY <2>1, <2>2, <2>3 DEF Making, Deleting
  <2> QED BY <2>1, <2>4, <1>4
<1>6. ~Changing(t) /\ ~Making(t)
  BY <1>1 DEF Changing, Making, Truncating, Adding, Lowering, Deleting
<1>7. call[t] \in CallType
  BY KindsOf DEF Apart
<1> QED BY <1>1, <1>2, <1>3, <1>4, <1>5, <1>6, <1>7

LEMMA FreeDataKeeps ==
  ASSUME Apart, NEW t \in Threads, FreeData(t)
  PROVE  Apart'
<1> USE DEF FreeData, inodeVars, callVars, threadVars, pastVars
<1>1. PICK i : i = call[t].inum
  OBVIOUS
<1>2. pc[t] = "freeData" /\ pc[t] \in Truncating
  BY DEF At, Truncating
<1>3. /\ call[t].kind = "truncate" /\ call[t] \in CallType
      /\ i \in Allocated /\ i \in Inums /\ EntriesOf(i) # {}
      /\ Type(i) # "T_SYMLINK" /\ t \in readers[i]
      /\ ~Changing(t) /\ ~Making(t)
      /\ \A u \in Threads : u # t => call[u].kind \notin {"unlink", "truncate"}
      /\ \A u \in Threads : u # t => ~SparedBy(u, i)
  BY <1>1, <1>2, TruncatesAlone
<1>4. Moves(t, "resetSize", call[t]) /\ "resetSize" \in Steps /\ LocksKept(t)
      /\ readers' = readers
  BY StepMoves, LockSteps DEF Apart, Steps
<1>5. pc'[t] = "resetSize" /\ call'[t] = call[t]
  BY <1>3, <1>4, Moved DEF Apart
<1>6. KindFits(t)'
  BY <1>3, <1>5 DEF KindFits, Truncating, Adding, Deleting, Clearing, Lowering
<1>7. /\ ThreadTypes' /\ KindsApart' /\ \A u \in Threads : KindFits(u)'
      /\ \A u \in Threads : u # t => pc'[u] = pc[u] /\ call'[u] = call[u]
  <2>1. handle' \in [Threads -> Handles \cup {-1}]
    BY DEF Apart, ThreadTypes
  <2> QED BY <1>2, <1>3, <1>4, <1>6, <2>1, OthersStay
<1>8. UNCHANGED <<inode_table, freeinode_ts, dir_entries, lapses>>
  OBVIOUS
<1>9. /\ \A j : /\ Type(j)' = Type(j) /\ Counter(j)' = Counter(j)
                /\ Size(j)' = Size(j) /\ Data(j)' = Data(j)
                /\ EntriesOf(j)' = EntriesOf(j)
      /\ Allocated' = Allocated /\ SlotsUsed' = SlotsUsed
  BY <1>8, SameForPlans
<1>10. free_blocks' = Release(free_blocks, Data(i))
  BY <1>1 DEF InodeOf, Data
<1>11. Size(i) > 0 /\ Data(i) \in Blocks
  BY <1>1, <1>2, <1>3 DEF Apart, Plan, PlanOfOpen, BlocksApart
<1>12. Tables'
  BY <1>10, <1>11 DEF Apart, Tables, Release
<1>13. \A u \in Threads : u # t => Plan(u)'
  BY <1>3, <1>4, <1>7, <1>9, PlanKept DEF Apart
<1>14. Plan(t)'
  <2>1. PlanOfOpen(t)'
    BY <1>1, <1>3, <1>4, <1>5, <1>9 DEF PlanOfOpen, Truncating, Isnt
  <2>2. PlanOfMaking(t)' /\ PlanOfAdding(t)' /\ PlanOfUnlink(t)'
    BY <1>3, <1>5 DEF PlanOfMaking, PlanOfAdding, PlanOfUnlink, Adding, Making
  <2> QED BY <2>1, <2>2, <1>1, <1>3, <1>4, <1>5, <1>9 DEF Plan, PlanOfLooking, Looking
<1>15. DirectoryApart'
  BY <1>9 DEF Apart, DirectoryApart
<1>16. CountersApart'
  <2>1. \A j : InHand(j) => InHand(j)'
    BY <1>3, <1>7, InHandKept
  <2>2. -1 \notin Allocated'
    BY <1>9, Sizes DEF Allocated
  <2> QED BY <2>1, <2>2, <1>9, CountersKept DEF Apart
<1>17. BlocksApart'
  <2>1. \A j : ~SparedBy(t, j)
    BY <1>2 DEF SparedBy
  <2>2. SparedBy(t, i)' /\ \A j : j # i => ~SparedBy(t, j)'
    BY <1>1, <1>5 DEF SparedBy
  <2>3. ~Spared(i) /\ Spared(i)' /\ \A j : j # i => (Spared(j)' <=> Spared(j))
    BY <2>1, <2>2, <1>3, <1>7, <1>9, SparedKept DEF Spared
  <2>4. Owners' = Owners /\ i \in Owners
    BY <1>3, <1>9, <1>11 DEF Owners, Allocated
  <2>5. BlockOwners' = BlockOwners \ {i} /\ i \in BlockOwners
    BY <2>3, <2>4 DEF BlockOwners
  <2> QED BY <2>5, <1>9, <1>10, BlockGivenBack DEF Apart, BlocksApart
<1>18. HandlesApart'
  <2>1. \A u \in Threads : Making(u)' => Making(u) /\ call'[u].inum = call[u].inum
    BY <1>3, <1>5, <1>7 DEF Making
  <2> QED BY <2>1, <1>9, HandlesKept DEF Apart
<1>19. AppendsApart'
  <2>1. HasFile(t)' => HasFile(t)
    BY <1>5 DEF HasFile
  <2>2. pc'[t] # "addOpen" /\ pc'[t] \notin Filling
    BY <1>5 DEF Adding, Filling
  <2> QED BY <2>1, <2>2, <1>7, <1>9, AppendsSame
<1>20. status' = "mounted" /\ freeinode_ts'[ROOT_DIR_INUM] = TAKEN
  BY DEF Apart
<1> QED BY <1>7, <1>12, <1>13, <1>14, <1>15, <1>16, <1>17, <1>18, <1>19, <1>20 DEF Apart

LEMMA ResetSizeKeeps ==
  ASSUME Apart, NEW t \in Threads, ResetSize(t)
  PROVE  Apart'
<1> USE DEF ResetSize, blockVars, callVars, threadVars, pastVars
<1>1. PICK i : i = call[t].inum
  OBVIOUS
<1>2. pc[t] = "resetSize" /\ pc[t] \in Truncating
  BY DEF At, Truncating
<1>3. /\ call[t].kind = "truncate" /\ call[t] \in CallType
      /\ i \in Allocated /\ i \in Inums /\ EntriesOf(i) # {}
      /\ Type(i) # "T_SYMLINK" /\ t \in readers[i]
      /\ ~Changing(t) /\ ~Making(t)
      /\ \A u \in Threads : u # t => call[u].kind \notin {"unlink", "truncate"}
      /\ \A u \in Threads : Making(u) => call[u].inum # i
  BY <1>1, <1>2, TruncatesAlone
<1>4. Moves(t, "addOpen", call[t]) /\ "addOpen" \in Steps /\ LocksKept(t)
  BY StepMoves, LockSteps DEF Apart, Steps
<1>5. pc'[t] = "addOpen" /\ call'[t] = call[t]
  BY <1>3, <1>4, Moved DEF Apart
<1>6. KindFits(t)'
  BY <1>3, <1>5 DEF KindFits, Truncating, Adding, Deleting, Clearing, Lowering
<1>7. /\ ThreadTypes' /\ KindsApart' /\ \A u \in Threads : KindFits(u)'
      /\ \A u \in Threads : u # t => pc'[u] = pc[u] /\ call'[u] = call[u]
  <2>1. handle' \in [Threads -> Handles \cup {-1}]
    BY DEF Apart, ThreadTypes
  <2> QED BY <1>2, <1>3, <1>4, <1>6, <2>1, OthersStay
<1>8. inode_table' = [inode_table EXCEPT ![i] = [@ EXCEPT !.i_size = 0]]
  BY <1>1 DEF SetInode, InumOfCall
<1>9. /\ inode_table' \in [Inums -> InodeType]
      /\ \A j \in Inums : /\ Type(j)' = Type(j) /\ Counter(j)' = Counter(j)
                          /\ Data(j)' = Data(j)
                          /\ j # i => Size(j)' = Size(j)
      /\ Size(i)' = 0
  <2>1. inode_table \in [Inums -> InodeType]
    BY DEF Apart, Tables
  <2>2. [inode_table[i] EXCEPT !.i_size = 0] \in InodeType
    BY <1>3, <2>1, Sizes DEF InodeType
  <2>3. inode_table' \in [Inums -> InodeType]
    BY <1>8, <2>1, <2>2
  <2>4. \A j \in Inums : j # i => inode_table'[j] = inode_table[j]
    BY <1>8, <2>1
  <2>5. inode_table'[i] = [inode_table[i] EXCEPT !.i_size = 0]
    BY <1>3, <1>8, <2>1
  <2>6. /\ Type(i)' = Type(i) /\ Counter(i)' = Counter(i) /\ Data(i)' = Data(i)
        /\ Size(i)' = 0
    BY <1>3, <2>1, <2>5 DEF InodeType, Type, Counter, Data, Size
  <2> QED BY <2>3, <2>4, <2>6 DEF Type, Counter, Data, Size
<1>10. /\ \A j : EntriesOf(j)' = EntriesOf(j)
       /\ Allocated' = Allocated /\ SlotsUsed' = SlotsUsed
  BY DEF EntriesOf, Allocated, SlotsUsed
<1>11. Tables'
  BY <1>9 DEF Apart, Tables
<1>12. \A u \in Threads : u # t => Plan(u)'
  <2> SUFFICES ASSUME NEW u \in Threads, u # t PROVE Plan(u)'
    OBVIOUS
  <2>1. \A j \in Inums : u \in readers[j] => u \in readers'[j]
    BY <1>4 DEF LocksKept
  <2>2. (pc[u] = "freeData" \/ Making(u)) => call[u].inum # i
    <3>1. pc[u] # "freeData"
      <4>1. ASSUME pc[u] = "freeData" PROVE FALSE
        <5>1. pc[u] \in Truncating
          BY <4>1 DEF Truncating
        <5> QED BY <5>1, <1>3, TruncatesAlone
      <4> QED BY <4>1
    <3> QED BY <3>1, <1>3
  <2>3. PICK j : j = call[u].inum
    OBVIOUS
  <2>4. j \in Inums =>
           /\ Type(j)' = Type(j) /\ Counter(j)' = Counter(j)
           /\ (pc[u] = "freeData" \/ Making(u)) /\ Size(j) > 0 => Size(j)' > 0
           /\ pc[u] = "linkBlock" /\ Making(u) /\ Size(j) = 0 =>
                Size(j)' = 0 \/ "orphaned" \in lapses'
           /\ u \in readers[j] => u \in readers'[j]
    BY <1>9, <2>1, <2>2, <2>3
  <2>5. call[u].inum \in Inums =>
            /\ Type(call[u].inum)' = Type(call[u].inum)
            /\ Counter(call[u].inum)' = Counter(call[u].inum)
            /\ (pc[u] = "freeData" \/ Making(u)) /\ Size(call[u].inum) > 0 =>
                 Size(call[u].inum)' > 0
            /\ pc[u] = "linkBlock" /\ Making(u) /\ Size(call[u].inum) = 0 =>
                 Size(call[u].inum)' = 0 \/ "orphaned" \in lapses'
            /\ u \in readers[call[u].inum] => u \in readers'[call[u].inum]
    BY <1>7, <2>3, <2>4 DEF Type, Counter, Size
  <2> QED BY <1>3, <1>7, <2>5, PlanKept DEF Apart
<1>13. Plan(t)'
  <2>1. PlanOfOpen(t)'
    BY <1>1, <1>3, <1>5, <1>10 DEF PlanOfOpen, Truncating
  <2>2. PlanOfMaking(t)' /\ PlanOfAdding(t)' /\ PlanOfUnlink(t)'
    BY <1>3, <1>5 DEF PlanOfMaking, PlanOfAdding, PlanOfUnlink, Adding, Making
  <2> QED BY <2>1, <2>2, <1>1, <1>3, <1>5, <1>10 DEF Plan, PlanOfLooking, Looking
<1>14. DirectoryApart'
  BY <1>9, <1>10 DEF Apart, DirectoryApart
<1>15. CountersApart'
  <2>1. \A j : InHand(j) => InHand(j)'
    BY <1>3, <1>7, InHandKept
  <2>2. -1 \notin Allocated' /\ Allocated' \subseteq Inums
    BY <1>10, Sizes DEF Allocated
  <2>3. \A j \in Allocated : Type(j) = "T_SYMLINK" /\ Size(j) > 0 => Size(j)' > 0
    BY <1>3, <1>9 DEF Allocated
  <2> QED BY <2>1, <2>2, <2>3, <1>9, <1>10, CountersKept DEF Apart
<1>16. BlocksApart'
  <2>1. \A j : j # i => ~SparedBy(t, j) /\ ~SparedBy(t, j)'
    BY <1>1, <1>5 DEF SparedBy
  <2>2. Spared(i)
    BY <1>1, <1>2 DEF SparedBy, Spared
  <2>3. \A j \in Inums : j # i => (Spared(j)' <=> Spared(j))
    BY <2>1, <1>7, <1>9, SparedKept
  <2>4. \A j \in Inums : j \in BlockOwners' <=> j \in BlockOwners
    <3>1. i \notin BlockOwners /\ i \notin BlockOwners'
      BY <2>2, <1>9 DEF BlockOwners, Owners
    <3>2. \A j \in Inums : j # i => (j \in Owners' <=> j \in Owners)
      BY <1>9 DEF Owners
    <3> QED BY <3>1, <3>2, <2>3 DEF BlockOwners, Owners
  <2>5. BlockOwners' = BlockOwners
    BY <2>4 DEF BlockOwners, Owners
  <2>6. \A j \in Inums : Size(j)' > 0 => Data(j)' \in Blocks
    BY <1>9 DEF Apart, BlocksApart
  <2>7. \A j \in BlockOwners : Data(j)' = Data(j)
    BY <1>9 DEF BlockOwners, Owners
  <2> QED BY <2>5, <2>6, <2>7, BlocksKept DEF Apart
<1>17. HandlesApart'
  <2>1. \A u \in Threads : Making(u)' => Making(u) /\ call'[u].inum = call[u].inum
    BY <1>3, <1>5, <1>7 DEF Making
  <2> QED BY <2>1, <1>10, HandlesKept DEF Apart
<1>18. AppendsApart'
  <2>1. HasFile(t)' => HasFile(t)
    BY <1>5 DEF HasFile
  <2>2. Size(call[t].inum)' <= call'[t].offset
    <3>1. call[t].offset \in Nat
      BY <1>3 DEF CallType
    <3>2. Size(call[t].inum)' = 0
      BY <1>1, <1>5, <1>9 DEF Size
    <3> QED BY <3>1, <3>2, <1>5
  <2>3. pc'[t] \notin Filling
    BY <1>5 DEF Adding, Filling
  <2>4. \A j \in Inums : Size(j)' = Size(j) \/ Size(j)' = 0
    BY <1>9
  <2> QED BY <2>1, <2>2, <2>3, <2>4, <1>7, AppendsSame
<1>19. status' = "mounted" /\ freeinode_ts'[ROOT_DIR_INUM] = TAKEN
  BY DEF Apart
<1> QED BY <1>7, <1>11, <1>12, <1>13, <1>14, <1>15, <1>16, <1>17, <1>18, <1>19 DEF Apart

\* The entry that add_to_open_file_table fills, when there is one
LEMMA FilledHandle ==
  ASSUME Tables, NEW inum \in Inums, NEW offset \in Nat,
         add_to_open_file_table(inum, offset), FreeHandles # {}
  PROVE  \E h \in Handles :
            /\ h = First(FreeHandles) /\ ~IsOpen(h) /\ h # -1
            /\ IsOpen(h)' /\ InumOf(h)' = inum /\ OffsetOf(h)' = offset
            /\ \A j \in Handles \ {h} : /\ IsOpen(j)' <=> IsOpen(j)
                                        /\ InumOf(j)' = InumOf(j)
                                        /\ OffsetOf(j)' = OffsetOf(j)
<1>1. First(FreeHandles) \in FreeHandles
  BY FirstIsLeast, Sizes DEF FreeHandles
<1>2. PICK h \in FreeHandles : h = First(FreeHandles)
  BY <1>1
<1>3. h \in Handles /\ ~IsOpen(h) /\ h # -1
  BY Sizes DEF FreeHandles
<1>4. open_file_table' = [open_file_table EXCEPT ![h] =
         [of_inumber |-> inum, of_offset |-> offset]]
  BY <1>2 DEF add_to_open_file_table
<1>5. open_file_table'[h] = [of_inumber |-> inum, of_offset |-> offset]
  BY <1>3, <1>4 DEF Tables
<1>6. open_file_table'[h].of_inumber = inum /\ open_file_table'[h].of_offset = offset
      /\ inum # -1 /\ Closed.of_inumber = -1
  BY <1>5, Sizes DEF Closed
<1>7. IsOpen(h)' /\ InumOf(h)' = inum /\ OffsetOf(h)' = offset
  BY <1>6 DEF IsOpen, InumOf, OffsetOf
<1>8. \A j \in Handles \ {h} : open_file_table'[j] = open_file_table[j]
  BY <1>4 DEF Tables
<1>9. \A j \in Handles \ {h} : /\ IsOpen(j)' <=> IsOpen(j)
                               /\ InumOf(j)' = InumOf(j)
                               /\ OffsetOf(j)' = OffsetOf(j)
  BY <1>8 DEF IsOpen, InumOf, OffsetOf
<1> QED BY <1>2, <1>3, <1>7, <1>9

LEMMA AddOpenKeeps ==
  ASSUME Apart, NEW t \in Threads, AddOpen(t)
  PROVE  Apart'
<1> USE DEF AddOpen, inodeVars, blockVars, callVars, pastVars
<1>1. PICK i : i = call[t].inum
  OBVIOUS
<1>2. pc[t] = "addOpen"
  BY DEF At
<1>3. call[t] \in CallType /\ call[t].kind \in Opens
  BY <1>2, KindsOf DEF Apart, KindFits, Kinds, Opens, Adding, Deleting, Clearing, Lowering, Filling, Looking
<1>4. i \in Allocated /\ i \in Inums /\ EntriesOf(i) # {}
  BY <1>1, <1>2 DEF Apart, Plan, PlanOfOpen, Found, Allocated
<1>5. PICK offset \in Nat : offset = call[t].offset
  BY <1>3 DEF CallType
<1>6. Moves(t, "idle", NoCall) /\ "idle" \in Steps /\ LocksKept(t) /\ readers' = readers
      /\ NoCall \in CallType /\ NoCall.kind = "none"
  BY NoCallType, LockSteps DEF GoTo, Moves, Steps
<1>7. pc'[t] = "idle" /\ call'[t] = NoCall
  BY <1>6, Moved DEF Apart
<1>8. add_to_open_file_table(i, offset)
  BY <1>1, <1>5 DEF InumOfCall
<1>9. PICK h \in Handles \cup {-1} :
        /\ handle' = [handle EXCEPT ![t] = h]
        /\ h # -1 => ~IsOpen(h) /\ IsOpen(h)' /\ InumOf(h)' = i /\ OffsetOf(h)' = offset
        /\ \A j \in Handles \ {h} : /\ IsOpen(j)' <=> IsOpen(j)
                                    /\ InumOf(j)' = InumOf(j)
                                    /\ OffsetOf(j)' = OffsetOf(j)
  <2>1. CASE FreeHandles = {}
    <3>1. open_file_table' = open_file_table /\ handle' = [handle EXCEPT ![t] = -1]
      BY <2>1, <1>8 DEF add_to_open_file_table
    <3> QED BY <3>1 DEF IsOpen, InumOf, OffsetOf
  <2>2. CASE FreeHandles # {}
    <3>1. PICK h \in Handles :
            /\ h = First(FreeHandles) /\ ~IsOpen(h) /\ h # -1
            /\ IsOpen(h)' /\ InumOf(h)' = i /\ OffsetOf(h)' = offset
            /\ \A j \in Handles \ {h} : /\ IsOpen(j)' <=> IsOpen(j)
                                        /\ InumOf(j)' = InumOf(j)
                                        /\ OffsetOf(j)' = OffsetOf(j)
      BY <2>2, <1>4, <1>8, FilledHandle DEF Apart
    <3>2. handle' = [handle EXCEPT ![t] = h]
      BY <2>2, <3>1
    <3> QED BY <3>1, <3>2
  <2> QED BY <2>1, <2>2
<1>10. /\ handle' \in [Threads -> Handles \cup {-1}]
       /\ handle'[t] = h /\ \A u \in Threads : u # t => handle'[u] = handle[u]
  BY <1>9 DEF Apart, ThreadTypes
<1>11. KindFits(t)'
  BY <1>6, <1>7 DEF KindFits
<1>12. /\ ThreadTypes' /\ KindsApart' /\ \A u \in Threads : KindFits(u)'
       /\ \A u \in Threads : u # t => pc'[u] = pc[u] /\ call'[u] = call[u]
  BY <1>6, <1>10, <1>11, OthersStay
<1>13. UNCHANGED <<inode_table, freeinode_ts, dir_entries, lapses, free_blocks>>
  OBVIOUS
<1>14. /\ \A j : /\ Type(j)' = Type(j) /\ Counter(j)' = Counter(j)
                 /\ Size(j)' = Size(j) /\ Data(j)' = Data(j)
                 /\ EntriesOf(j)' = EntriesOf(j)
       /\ Allocated' = Allocated /\ SlotsUsed' = SlotsUsed
  BY <1>13, SameForPlans
<1>15. Tables'
  <2>1. open_file_table' \in [Handles -> HandleType]
    BY <1>4, <1>8, OpenedHandle DEF Apart
  <2> QED BY <2>1 DEF Apart, Tables
<1>16. \A u \in Threads : u # t => Plan(u)'
  BY <1>6, <1>12, <1>13, <1>14, PlanKept DEF Apart
<1>17. ~Making(t)' /\ ~Changing(t)' /\ ~Found(t)' /\ ~Changing(t)
  BY <1>2, <1>7 DEF Making, Changing, Found, Truncating, Clearing, Adding, Lowering, Deleting
<1>18. Plan(t)'
  <2>1. PlanOfOpen(t)' /\ PlanOfMaking(t)'
    BY <1>7, <1>17 DEF PlanOfOpen, PlanOfMaking, Truncating
  <2>2. PlanOfAdding(t)' /\ PlanOfUnlink(t)'
    BY <1>6, <1>7 DEF PlanOfAdding, PlanOfUnlink, Adding
  <2> QED BY <2>1, <2>2, <1>6, <1>7, <1>17 DEF Plan, PlanOfLooking, Looking
<1>19. DirectoryApart'
  BY <1>14 DEF Apart, DirectoryApart
<1>20. CountersApart'
  <2>1. \A j : InHand(j) => InHand(j)'
    BY <1>12, <1>17, InHandKept
  <2>2. -1 \notin Allocated'
    BY <1>14, Sizes DEF Allocated
  <2> QED BY <2>1, <2>2, <1>14, CountersKept DEF Apart
<1>21. BlocksApart'
  <2>1. \A j : ~SparedBy(t, j) /\ ~SparedBy(t, j)'
    BY <1>2, <1>7 DEF SparedBy
  <2>2. \A j : Spared(j)' <=> Spared(j)
    BY <2>1, <1>12, <1>14, SparedKept
  <2>3. BlockOwners' = BlockOwners
    BY <2>2, <1>14 DEF BlockOwners, Owners
  <2> QED BY <2>3, <1>14, BlocksKept DEF Apart, BlocksApart
<1>22. HandlesApart'
  <2>1. \A u \in Threads : Making(u)' => Making(u) /\ call'[u].inum = call[u].inum
    BY <1>12, <1>17 DEF Making
  <2>2. ASSUME NEW j \in Handles, IsOpen(j)'
        PROVE  /\ InumOf(j)' \in Inums
               /\ "orphaned" \notin lapses' =>
                    /\ InumOf(j)' \in Allocated'
                    /\ \A u \in Threads : Making(u)' => call'[u].inum # InumOf(j)'
    <3>1. CASE j = h
      <4>1. InumOf(j)' = i
        BY <3>1, <1>9, Sizes
      <4>2. \A u \in Threads : Making(u) => call[u].inum # i
        BY <1>4 DEF Apart, Plan, PlanOfMaking
      <4> QED BY <4>1, <4>2, <2>1, <1>4, <1>14
    <3>2. CASE j # h
      <4>1. IsOpen(j) /\ InumOf(j)' = InumOf(j)
        BY <3>2, <2>2, <1>9
      <4> QED BY <4>1, <2>1, <1>14 DEF Apart, HandlesApart
    <3> QED BY <3>1, <3>2
  <2>3. \A u \in Threads : u # t /\ handle[u] # -1 =>
           handle[u] \in Handles /\ IsOpen(handle[u]) /\ handle[u] # h
    <3> SUFFICES ASSUME NEW u \in Threads, u # t, handle[u] # -1
                 PROVE  handle[u] \in Handles /\ IsOpen(handle[u]) /\ handle[u] # h
      OBVIOUS
    <3>1. handle[u] \in Handles /\ IsOpen(handle[u])
      BY DEF Apart, ThreadTypes, HandlesApart
    <3> QED BY <3>1, <1>9
  <2>4. \A u \in Threads : handle'[u] # -1 => IsOpen(handle[u])'
    <3> SUFFICES ASSUME NEW u \in Threads, handle'[u] # -1 PROVE IsOpen(handle[u])'
      OBVIOUS
    <3>1. CASE u = t
      BY <3>1, <1>9, <1>10 DEF IsOpen
    <3>2. CASE u # t
      <4>1. PICK j \in Handles \ {h} : j = handle[u] /\ IsOpen(j) /\ j = handle'[u]
        BY <3>2, <2>3, <1>10
      <4>2. IsOpen(j)'
        BY <4>1, <1>9
      <4> QED BY <4>1, <4>2 DEF IsOpen
    <3> QED BY <3>1, <3>2
  <2>5. \A u, v \in Threads : u # v /\ handle'[u] # -1 => handle'[u] # handle'[v]
    BY <2>3, <1>10 DEF Apart, HandlesApart
  <2> QED BY <2>2, <2>4, <2>5 DEF HandlesApart
<1>23. AppendsApart'
  <2> SUFFICES ASSUME ~shared, "orphaned" \notin lapses
               PROVE  AppendsApart'
    BY DEF AppendsApart
  <2>1. /\ "overwritten" \notin lapses
        /\ \A u, v \in Threads : HasFile(u) /\ HasFile(v) => u = v
        /\ \A u \in Threads : pc[u] = "addOpen" => Size(call[u].inum) <= call[u].offset
        /\ \A u \in Threads : call[u].kind = "create" /\ pc[u] \in Filling =>
                                 Size(call[u].inum) = 0
    BY DEF Apart, AppendsApart
  <2>2. HasFile(t)
    BY <1>3 DEF HasFile
  <2>3. \A u \in Threads : u # t => (HasFile(u)' <=> HasFile(u))
    BY <1>10, <1>12 DEF HasFile
  <2>4. \A u, v \in Threads : HasFile(u)' /\ HasFile(v)' => u = v
    BY <2>1, <2>2, <2>3
  <2>5. \A u \in Threads : handle'[u] # -1 => u = t
    BY <2>2, <2>4, <2>1, <2>3 DEF HasFile
  <2>6. handle'[t] # -1 => SizeOf(handle[t])' <= OffsetOf(handle[t])'
    <3> SUFFICES ASSUME h # -1 PROVE SizeOf(handle[t])' <= OffsetOf(handle[t])'
      BY <1>10
    <3>1. InumOf(h)' = i /\ OffsetOf(h)' = offset
      BY <1>9
    <3>2. Size(i) <= offset /\ Size(i)' = Size(i)
      BY <2>1, <1>1, <1>2, <1>5, <1>14
    <3>3. SizeOf(h)' = Size(i)'
      BY <3>1 DEF SizeOf, Size, InumOf
    <3>4. SizeOf(h)' <= OffsetOf(h)'
      BY <3>1, <3>2, <3>3
    <3> QED BY <3>4, <1>10 DEF SizeOf, OffsetOf, InumOf
  <2>7. \A u \in Threads : pc'[u] = "addOpen" => Size(call[u].inum)' <= call'[u].offset
    BY <2>1, <1>7, <1>12, <1>13 DEF Size
  <2>8. \A u \in Threads : call'[u].kind = "create" /\ pc'[u] \in Filling =>
                              Size(call[u].inum)' = 0
    <3>1. pc'[t] \notin Filling
      BY <1>7 DEF Adding, Filling
    <3> QED BY <3>1, <2>1, <1>12, <1>13 DEF Size
  <2> QED BY <2>1, <2>4, <2>5, <2>6, <2>7, <2>8, <1>13 DEF AppendsApart
<1>24. status' = "mounted" /\ freeinode_ts'[ROOT_DIR_INUM] = TAKEN
  BY DEF Apart
<1> QED BY <1>12, <1>15, <1>16, <1>18, <1>19, <1>20, <1>21, <1>22, <1>23, <1>24 DEF Apart

-----------------------------------------------------------------------------
(* New inodes                                                              *)

\* A call that ends and leaves the tables alone
LEMMA ReturnKeeps ==
  ASSUME Apart, NEW t \in Threads, pc[t] # "idle", Return(t), LocksKept(t),
         UNCHANGED <<status, inodeVars, dir_entries, blockVars, open_file_table,
                     lapses, shared>>,
         ~Changing(t), \A i \in Inums : ~SparedBy(t, i)
  PROVE  Apart'
<1> USE DEF inodeVars, blockVars
<1>1. Moves(t, "idle", NoCall) /\ handle' = handle /\ "idle" \in Steps
      /\ NoCall \in CallType /\ NoCall.kind = "none"
  BY NoCallType DEF Return, GoTo, Moves, Steps
<1>2. /\ pc'[t] = "idle" /\ call'[t] = NoCall
      /\ \A u \in Threads : u # t => pc'[u] = pc[u] /\ call'[u] = call[u]
  BY <1>1, Moved DEF Apart
<1>3. /\ ~Making(t)' /\ ~Changing(t)' /\ ~Found(t)'
  BY <1>2 DEF Making, Changing, Found, Truncating, Clearing, Adding, Lowering, Deleting
<1>4. KindFits(t)'
  BY <1>1, <1>2 DEF KindFits
<1>5. KindsApart'
  BY <1>2, KindsKept DEF Apart
<1>6. Plan(t)'
  <2>1. PlanOfOpen(t)' /\ PlanOfMaking(t)'
    BY <1>2, <1>3 DEF PlanOfOpen, PlanOfMaking, Truncating
  <2>2. PlanOfAdding(t)' /\ PlanOfUnlink(t)'
    BY <1>1, <1>2 DEF PlanOfAdding, PlanOfUnlink, Adding
  <2> QED BY <2>1, <2>2, <1>1, <1>2, <1>3 DEF Plan, PlanOfLooking, Looking
<1>7. \A i \in Inums : ~SparedBy(t, i)'
  BY <1>2 DEF SparedBy
<1>8. AppendsApart'
  <2>1. HasFile(t)' => HasFile(t)
    BY <1>1, <1>2 DEF HasFile, Opens
  <2>2. pc'[t] # "addOpen" /\ pc'[t] \notin Filling
    BY <1>2 DEF Adding, Filling
  <2>3. \A i \in Inums : Size(i)' = Size(i)
    BY DEF Size
  <2> QED BY <1>1, <1>2, <2>1, <2>2, <2>3, AppendsSame
<1> QED BY <1>1, <1>3, <1>4, <1>5, <1>6, <1>7, <1>8, TablesStay

LEMMA AllocInodeKeeps ==
  ASSUME Apart, NEW t \in Threads, AllocInode(t)
  PROVE  Apart'
<1> USE DEF AllocInode, blockVars, callVars, pastVars
<1>1. pc[t] = "allocInode"
  BY DEF At
<1>2. call[t] \in CallType /\ call[t].kind \in {"create", "symlink"}
  BY <1>1, KindsOf DEF Apart, KindFits, Kinds, Opens, Adding, Deleting, Clearing, Lowering,
                       Truncating, Filling, Looking
<1>3. ~Changing(t) /\ ~Making(t) /\ \A j : ~SparedBy(t, j)
  BY <1>1 DEF Making, Changing, SparedBy, Adding, Lowering, Deleting
<1>4. CASE CanCreateInode
  <2>1. PICK n \in Inums : n = NextInum /\ freeinode_ts[n] = FREE /\ n # ROOT_DIR_INUM
    BY <1>4, NextInumIsFree DEF Apart, FREE, TAKEN
  <2>2. freeinode_ts' = [freeinode_ts EXCEPT ![n] = TAKEN]
    BY <1>4, <2>1 DEF Take
  <2>3. n \notin Allocated /\ EntriesOf(n) = {}
    <3>1. n \notin Allocated
      BY <2>1 DEF Allocated, FREE, TAKEN
    <3>2. n # -1
      BY Sizes
    <3> QED BY <3>1, <3>2 DEF Apart, DirectoryApart, EntriesOf, SlotsUsed
  <2>4. PICK c : c = [call[t] EXCEPT !.inum = n]
    OBVIOUS
  <2>5. /\ c \in CallType /\ c.kind = call[t].kind /\ c.inum = n
        /\ c.name = call[t].name /\ c.target = call[t].target
    BY <1>2, <2>4 DEF CallType
  <2>6. Moves(t, "initInode", c) /\ LocksKept(t) /\ "initInode" \in Steps /\ handle' = handle
    BY <1>4, <2>1, <2>4, LockSteps DEF Set, GoTo, Moves, Steps
  <2>7. pc'[t] = "initInode" /\ call'[t] = c
    BY <2>5, <2>6, Moved DEF Apart
  <2>8. KindFits(t)'
    BY <1>2, <2>5, <2>7 DEF KindFits
  <2>9. /\ ThreadTypes' /\ KindsApart' /\ \A u \in Threads : KindFits(u)'
        /\ \A u \in Threads : u # t => pc'[u] = pc[u] /\ call'[u] = call[u]
    <3>1. handle' \in [Threads -> Handles \cup {-1}]
      BY <2>6 DEF Apart, ThreadTypes
    <3> QED BY <1>1, <2>5, <2>6, <2>8, <3>1, OthersStay
  <2>10. /\ \A j : /\ Type(j)' = Type(j) /\ Counter(j)' = Counter(j)
                   /\ Size(j)' = Size(j) /\ Data(j)' = Data(j)
                   /\ EntriesOf(j)' = EntriesOf(j)
         /\ SlotsUsed' = SlotsUsed
    BY DEF Type, Counter, Size, Data, EntriesOf, SlotsUsed
  <2>11. /\ Allocated' = Allocated \cup {n}
         /\ \A j \in Inums : j # n => freeinode_ts'[j] = freeinode_ts[j]
    BY <2>1, <2>2 DEF Apart, Tables, Allocated
  <2>12. Tables'
    BY <2>1, <2>2 DEF Apart, Tables
  <2>13. \A u \in Threads : u # t => Plan(u)' /\ ~Making(u)
    BY <1>2, <2>6, <2>9, <2>10, <2>11, OpenersStay DEF Adders
  <2>14. Making(t)' /\ Changing(t)' /\ ~Found(t)'
    BY <1>2, <2>5, <2>7 DEF Making, Changing, Found, Truncating, Clearing
  <2>15. Plan(t)'
    <3>1. PlanOfOpen(t)'
      BY <2>7, <2>14 DEF PlanOfOpen, Truncating
    <3>2. PlanOfMaking(t)'
      BY <2>3, <2>5, <2>7, <2>10, <2>11 DEF PlanOfMaking, Adding
    <3>3. PlanOfAdding(t)'
      BY <1>2, <2>5, <2>7 DEF Apart, Plan, PlanOfAdding, Adding
    <3>4. PlanOfUnlink(t)'
      BY <1>2, <2>5, <2>7 DEF PlanOfUnlink
    <3> QED BY <3>1, <3>2, <3>3, <3>4, <1>2, <2>3, <2>5, <2>7, <2>10, <2>11, <2>14 DEF Plan, PlanOfLooking, Looking
  <2>16. DirectoryApart'
    BY <2>10, <2>11 DEF Apart, DirectoryApart
  <2>17. CountersApart'
    <3>1. \A j : InHand(j) => InHand(j)'
      BY <1>3, <2>9, InHandKept
    <3>2. InHand(n)'
      BY <2>5, <2>7, <2>14 DEF InHand
    <3> QED BY <3>1, <3>2, <2>10, <2>11, CountersKept DEF Apart
  <2>18. BlocksApart'
    <3>1. SparedBy(t, n)' /\ \A j : j # n => ~SparedBy(t, j)'
      BY <2>5, <2>7 DEF SparedBy
    <3>2. Spared(n)' /\ \A j : j # n => (Spared(j)' <=> Spared(j))
      BY <1>3, <2>9, <2>10, <3>1, SparedKept
    <3>3. n \notin Owners /\ \A j \in Inums : j # n => (j \in Owners' <=> j \in Owners)
      BY <2>1, <2>10, <2>11 DEF Owners, FREE, TAKEN
    <3>4. BlockOwners' = BlockOwners
      BY <3>2, <3>3 DEF BlockOwners, Owners
    <3> QED BY <3>4, <2>10, BlocksKept DEF Apart, BlocksApart
  <2>19. HandlesApart'
    <3>1. \A u \in Threads : Making(u)' => u = t
      BY <2>9, <2>13 DEF Making
    <3> QED BY <3>1, <2>3, <2>5, <2>6, <2>7, <2>11, HandlesKept DEF Apart
  <2>20. AppendsApart'
    <3>1. HasFile(t)' => HasFile(t)
      BY <2>5, <2>6, <2>7 DEF HasFile
    <3>2. pc'[t] # "addOpen" /\ pc'[t] \notin Filling
      BY <2>7 DEF Adding, Filling
    <3> QED BY <3>1, <3>2, <2>6, <2>9, <2>10, AppendsSame
  <2>21. status' = "mounted" /\ freeinode_ts'[ROOT_DIR_INUM] = TAKEN
    BY <2>1, <2>11, Sizes DEF Apart
  <2> QED BY <2>9, <2>12, <2>13, <2>15, <2>16, <2>17, <2>18, <2>19, <2>20, <2>21 DEF Apart
<1>5. CASE ~CanCreateInode
  <2>1. Return(t) /\ UNCHANGED freeinode_ts
    BY <1>5
  <2>2. LocksKept(t)
    BY LockSteps
  <2>3. UNCHANGED inodeVars
    BY <2>1 DEF inodeVars
  <2> QED BY <1>1, <1>3, <2>1, <2>2, <2>3, ReturnKeeps
<1> QED BY <1>4, <1>5

LEMMA InitInodeKeeps ==
  ASSUME Apart, NEW t \in Threads, InitInode(t)
  PROVE  Apart'
<1> USE DEF InitInode, blockVars, callVars, threadVars, pastVars
<1>1. PICK i : i = call[t].inum
  OBVIOUS
<1>2. pc[t] = "initInode"
  BY DEF At
<1>3. call[t] \in CallType /\ call[t].kind \in {"create", "symlink"}
  BY <1>2, KindsOf DEF Apart, KindFits, Kinds, Opens, Adding, Deleting, Clearing, Lowering,
                       Truncating, Filling, Looking
<1>4. Making(t) /\ Changing(t)
  BY <1>2, <1>3 DEF Making, Changing
<1>5. i \in Allocated /\ i \in Inums /\ EntriesOf(i) = {}
  BY <1>1, <1>4 DEF Apart, Plan, PlanOfMaking, Allocated
<1>6. PICK type \in {"T_FILE", "T_SYMLINK"}, step \in Steps :
        /\ type = IF call[t].kind = "symlink" THEN "T_SYMLINK" ELSE "T_FILE"
        /\ step = IF call[t].kind = "symlink" THEN "linkBlock" ELSE "addPick"
  BY DEF Steps
<1>7. inode_table' = [inode_table EXCEPT ![i] = NewInode(type)]
  BY <1>1, <1>6 DEF InumOfCall
<1>8. /\ inode_table' \in [Inums -> InodeType]
      /\ \A j \in Inums : j # i =>
            /\ Type(j)' = Type(j) /\ Counter(j)' = Counter(j)
            /\ Data(j)' = Data(j) /\ Size(j)' = Size(j)
      /\ Type(i)' = type /\ Counter(i)' = 1 /\ Size(i)' = 0
  <2>1. NewInode(type) \in InodeType
    BY Sizes DEF NewInode, InodeType
  <2>2. inode_table' \in [Inums -> InodeType] /\ inode_table'[i] = NewInode(type)
        /\ \A j \in Inums : j # i => inode_table'[j] = inode_table[j]
    BY <1>5, <1>7, <2>1 DEF Apart, Tables
  <2> QED BY <2>2 DEF NewInode, Type, Counter, Data, Size
<1>9. Moves(t, step, call[t]) /\ LocksKept(t)
  BY <1>6, StepMoves, LockSteps DEF Apart
<1>10. pc'[t] = step /\ call'[t] = call[t]
  BY <1>3, <1>9, Moved DEF Apart
<1>11. KindFits(t)'
  BY <1>3, <1>6, <1>10 DEF KindFits, Adding, Filling, Looking
<1>12. /\ ThreadTypes' /\ KindsApart' /\ \A u \in Threads : KindFits(u)'
       /\ \A u \in Threads : u # t => pc'[u] = pc[u] /\ call'[u] = call[u]
  <2>1. handle' \in [Threads -> Handles \cup {-1}]
    BY DEF Apart, ThreadTypes
  <2> QED BY <1>2, <1>3, <1>9, <1>11, <2>1, OthersStay
<1>13. /\ \A j : EntriesOf(j)' = EntriesOf(j)
       /\ Allocated' = Allocated /\ SlotsUsed' = SlotsUsed
  BY DEF EntriesOf, Allocated, SlotsUsed
<1>14. Tables'
  BY <1>8 DEF Apart, Tables
<1>15. \A j \in Allocated : j \in Inums /\ (EntriesOf(j) # {} => j # i)
  BY <1>5 DEF Allocated
<1>16. \A u \in Threads : u # t => Plan(u)' /\ ~Making(u) /\ pc[u] # "delete"
  BY <1>3, <1>8, <1>9, <1>12, <1>13, <1>15, OpenersStay DEF Adders
<1>17. Making(t)' /\ Changing(t)' /\ ~Found(t)'
  BY <1>3, <1>6, <1>10 DEF Making, Changing, Found, Adding, Truncating, Clearing
<1>18. Plan(t)'
  <2>1. PlanOfOpen(t)'
    BY <1>6, <1>10, <1>17 DEF PlanOfOpen, Truncating
  <2>2. PlanOfMaking(t)'
    BY <1>1, <1>5, <1>6, <1>8, <1>10, <1>13 DEF PlanOfMaking, Adding
  <2>3. PlanOfAdding(t)'
    BY <1>3, <1>6, <1>10 DEF Apart, Plan, PlanOfAdding, Adding
  <2>4. PlanOfUnlink(t)'
    BY <1>3, <1>10 DEF PlanOfUnlink
  <2> QED BY <2>1, <2>2, <2>3, <2>4, <1>1, <1>3, <1>5, <1>6, <1>8, <1>10, <1>13, <1>17 DEF Plan, PlanOfLooking, Looking
<1>19. DirectoryApart'
  BY <1>13 DEF Apart, DirectoryApart
<1>20. CountersApart'
  <2>1. \A j : j # i /\ InHand(j) => InHand(j)'
    BY <1>1, <1>12, InHandKept
  <2>2. InHand(i)'
    BY <1>1, <1>10, <1>17 DEF InHand
  <2> QED BY <2>1, <2>2, <1>8, <1>13, <1>15, CountersKept DEF Apart
<1>21. BlocksApart'
  <2>1. SparedBy(t, i) /\ \A j : j # i => ~SparedBy(t, j)
    BY <1>1, <1>2 DEF SparedBy
  <2>2. \A j : ~SparedBy(t, j)'
    BY <1>6, <1>10 DEF SparedBy
  <2>3. \A j \in Inums : j # i => (Spared(j)' <=> Spared(j))
    BY <2>1, <2>2, <1>12, <1>16, SparedKept
  <2>4. i \notin BlockOwners /\ i \notin Owners'
    BY <2>1, <1>8 DEF BlockOwners, Owners, Spared
  <2>5. \A j \in Inums : j # i => (j \in Owners' <=> j \in Owners)
    BY <1>8 DEF Owners
  <2>6. BlockOwners' = BlockOwners
    BY <2>3, <2>4, <2>5 DEF BlockOwners, Owners
  <2>7. \A j \in Inums : Size(j)' > 0 => Data(j)' \in Blocks
    BY <1>8 DEF Apart, BlocksApart
  <2>8. \A j \in BlockOwners : Data(j)' = Data(j)
    BY <2>4, <1>8 DEF BlockOwners, Owners
  <2> QED BY <2>6, <2>7, <2>8, BlocksKept DEF Apart
<1>22. HandlesApart'
  <2>1. \A u \in Threads : Making(u)' => Making(u) /\ call'[u].inum = call[u].inum
    BY <1>4, <1>10, <1>12 DEF Making
  <2> QED BY <2>1, <1>13, HandlesKept DEF Apart
<1>23. AppendsApart'
  <2>1. HasFile(t)' => HasFile(t)
    BY <1>10 DEF HasFile
  <2>2. Size(call[t].inum)' = 0
    BY <1>1, <1>8, <1>10 DEF Size
  <2>3. pc'[t] # "addOpen"
    BY <1>6, <1>10
  <2> QED BY <2>1, <2>2, <2>3, <1>1, <1>4, <1>8, <1>12, AppendsSame
<1>24. status' = "mounted" /\ freeinode_ts'[ROOT_DIR_INUM] = TAKEN
  BY DEF Apart
<1> QED BY <1>12, <1>14, <1>16, <1>18, <1>19, <1>20, <1>21, <1>22, <1>23, <1>24 DEF Apart

\* What a step that adds an entry, or is about to, starts from
LEMMA AddsAlone ==
  ASSUME Apart, NEW t \in Threads, call[t].kind \in Adders
  PROVE  /\ \A u \in Threads : u # t => ~Changing(u) /\ ~Making(u) /\ pc[u] # "delete"
         /\ \A i \in Allocated : EntriesOf(i) = {} =>
               \A u \in Threads : u # t => ~SparedBy(u, i)
<1>1. \A u \in Threads : u # t =>
        /\ ~Changing(u) /\ ~Making(u)
        /\ pc[u] \in {"idle", "readLock", "addOpen"} \cup Truncating \cup Looking
  BY OneChanger, OnlyOpens DEF Apart
<1>2. \A u \in Threads : u # t => pc[u] # "delete"
  BY <1>1 DEF Truncating, Looking
<1>3. ASSUME NEW i \in Allocated, EntriesOf(i) = {}, NEW u \in Threads, u # t, SparedBy(u, i)
      PROVE  FALSE
  <2>1. pc[u] = "resetSize" /\ call[u].inum = i
    BY <1>1, <1>3 DEF SparedBy, Truncating, Looking
  <2>2. Found(u)
    BY <2>1 DEF Found, Truncating
  <2> QED BY <2>1, <2>2, <1>3 DEF Apart, Plan, PlanOfOpen
<1> QED BY <1>1, <1>2, <1>3

LEMMA LinkBlockKeeps ==
  ASSUME Apart, NEW t \in Threads, LinkBlock(t)
  PROVE  Apart'
<1> USE DEF LinkBlock, pastVars
<1>1. PICK i : i = call[t].inum
  OBVIOUS
<1>2. pc[t] = "linkBlock"
  BY DEF At
<1>3. call[t] \in CallType /\ call[t].kind = "symlink"
  BY <1>2, KindsOf DEF Apart, KindFits, Kinds, Opens, Adding, Deleting, Clearing, Lowering,
                       Truncating, Filling, Looking
<1>4. Making(t) /\ Changing(t)
  BY <1>2, <1>3 DEF Making, Changing
<1>5. /\ i \in Allocated /\ i \in Inums /\ EntriesOf(i) = {} /\ Counter(i) = 1
      /\ Type(i) = "T_SYMLINK" /\ ("orphaned" \notin lapses => Size(i) = 0)
  BY <1>1, <1>2, <1>3, <1>4 DEF Apart, Plan, PlanOfMaking, Allocated
<1>6. CASE ~CanAllocBlock
  <2>1. Return(t) /\ Lapse("spilled") /\ LocksKept(t)
        /\ UNCHANGED <<status, inodeVars, dir_entries, blockVars, open_file_table, shared>>
    BY <1>6, LockSteps DEF inodeVars
  <2> QED BY <1>2, <1>3, <2>1, SpilledKeeps
<1>7. CASE CanAllocBlock
  <2>1. PICK b \in Blocks : b = NextBlock /\ free_blocks[b] = FREE
    BY <1>7, NextBlockIsFree DEF Apart
  <2>2. /\ free_blocks' = Take(free_blocks, b)
        /\ text' = [text EXCEPT ![b] = call[t].target]
        /\ inode_table' = [inode_table EXCEPT ![i].i_size = TextSize, ![i].i_data_block = b]
        /\ WriteLocked(t) /\ GoTo(t, "addPick") /\ UNCHANGED threadVars
        /\ lapses' = lapses
    BY <1>1, <1>7, <2>1 DEF InumOfCall
  <2>3. /\ inode_table' \in [Inums -> InodeType]
        /\ \A j \in Inums : j # i =>
              /\ Type(j)' = Type(j) /\ Counter(j)' = Counter(j)
              /\ Data(j)' = Data(j) /\ Size(j)' = Size(j)
        /\ Type(i)' = Type(i) /\ Counter(i)' = 1 /\ Size(i)' = 1 /\ Data(i)' = b
    <3>1. inode_table \in [Inums -> InodeType] /\ inode_table[i] \in InodeType
      BY <1>5 DEF Apart, Tables
    <3>2. [inode_table[i] EXCEPT !.i_size = TextSize, !.i_data_block = b] \in InodeType
      <4>1. TextSize \in 0 .. BLOCK_SIZE /\ b \in Blocks \cup {-1}
        BY Sizes DEF TextSize
      <4> QED BY <3>1, <4>1 DEF InodeType
    <3>3. inode_table'[i] = [inode_table[i] EXCEPT !.i_size = TextSize, !.i_data_block = b]
      BY <1>5, <2>2, <3>1 DEF InodeType
    <3>4. \A j \in Inums : j # i => inode_table'[j] = inode_table[j]
      BY <2>2, <3>1
    <3>5. inode_table' \in [Inums -> InodeType]
      <4>1. DOMAIN inode_table' = Inums /\ inode_table' = [j \in Inums |-> inode_table'[j]]
        BY <2>2, <3>1
      <4> QED BY <4>1, <3>1, <3>2, <3>3, <3>4
    <3>6. Type(i)' = Type(i) /\ Counter(i)' = Counter(i) /\ Size(i)' = 1 /\ Data(i)' = b
      BY <3>1, <3>3 DEF InodeType, Type, Counter, Size, Data, TextSize
    <3> QED BY <1>5, <3>4, <3>5, <3>6 DEF Type, Counter, Size, Data
  <2>4. Moves(t, "addPick", call[t]) /\ LocksKept(t) /\ "addPick" \in Steps /\ handle' = handle
    BY <2>2, StepMoves, LockSteps DEF Apart, Steps, threadVars
  <2>5. pc'[t] = "addPick" /\ call'[t] = call[t]
    BY <1>3, <2>4, Moved DEF Apart
  <2>6. KindFits(t)'
    BY <1>3, <2>5 DEF KindFits, Adding, Filling, Looking
  <2>7. /\ ThreadTypes' /\ KindsApart' /\ \A u \in Threads : KindFits(u)'
        /\ \A u \in Threads : u # t => pc'[u] = pc[u] /\ call'[u] = call[u]
    <3>1. handle' \in [Threads -> Handles \cup {-1}]
      BY <2>4 DEF Apart, ThreadTypes
    <3> QED BY <1>2, <1>3, <2>4, <2>6, <3>1, OthersStay
  <2>8. /\ \A j : EntriesOf(j)' = EntriesOf(j)
        /\ Allocated' = Allocated /\ SlotsUsed' = SlotsUsed
    BY DEF EntriesOf, Allocated, SlotsUsed
  <2>9. call[t].target \in Names /\ call[t].name \in Names
    BY <1>3 DEF Apart, Plan, PlanOfAdding
  <2>10. Tables'
    BY <2>1, <2>2, <2>3, <2>9, Sizes DEF Apart, Tables, Take
  <2>11. \A j \in Allocated : j \in Inums /\ (EntriesOf(j) # {} => j # i)
    BY <1>5 DEF Allocated
  <2>12. \A u \in Threads : u # t => Plan(u)' /\ ~Making(u) /\ pc[u] # "delete"
    BY <1>3, <2>3, <2>4, <2>7, <2>8, <2>11, OpenersStay DEF Adders
  <2>13. Making(t)' /\ Changing(t)' /\ ~Found(t)'
    BY <1>3, <2>5 DEF Making, Changing, Found, Adding, Truncating, Clearing
  <2>14. Plan(t)'
    <3>1. PlanOfOpen(t)'
      BY <2>5, <2>13 DEF PlanOfOpen, Truncating
    <3>2. PlanOfMaking(t)'
      BY <1>1, <1>3, <1>5, <2>3, <2>5, <2>8 DEF PlanOfMaking
    <3>3. PlanOfAdding(t)'
      BY <1>3, <2>5, <2>9 DEF PlanOfAdding
    <3>4. PlanOfUnlink(t)'
      BY <1>3, <2>5 DEF PlanOfUnlink
    <3> QED BY <3>1, <3>2, <3>3, <3>4, <1>1, <1>3, <1>5, <2>3, <2>5, <2>8, <2>9, <2>13 DEF Plan, PlanOfLooking, Looking
  <2>15. DirectoryApart'
    BY <2>8 DEF Apart, DirectoryApart
  <2>16. CountersApart'
    <3>1. \A j : j # i /\ InHand(j) => InHand(j)'
      BY <1>1, <2>7, InHandKept
    <3>2. InHand(i)'
      BY <1>1, <2>5, <2>13 DEF InHand
    <3> QED BY <3>1, <3>2, <2>2, <2>3, <2>8, <2>11, CountersKept DEF Apart
  <2>17. BlocksApart'
    <3>1. \A j : ~SparedBy(t, j) /\ ~SparedBy(t, j)'
      BY <1>2, <2>5 DEF SparedBy
    <3>2. \A j \in Inums : Spared(j)' <=> Spared(j)
      BY <2>7, <2>12, <3>1, SparedKept
    <3>3. ~Spared(i)
      <4>1. \A u \in Threads : u # t => ~SparedBy(u, i)
        BY <1>3, <1>5, AddsAlone DEF Adders
      <4> QED BY <4>1, <3>1 DEF Spared
    <3>4. i \in Owners' /\ \A j \in Inums : j # i => (j \in Owners' <=> j \in Owners)
      BY <1>5, <2>3, <2>8 DEF Owners, Allocated
    <3>5. BlockOwners' = BlockOwners \cup {i}
      BY <1>5, <3>2, <3>3, <3>4 DEF BlockOwners, Owners
    <3>6. i \notin BlockOwners \/ "orphaned" \in lapses'
      BY <1>5, <2>2 DEF BlockOwners, Owners
    <3>7. /\ lapses \subseteq lapses' /\ Data(i)' = b
          /\ \A j \in Inums : j # i => Data(j)' = Data(j) /\ (Size(j)' > 0 => Size(j) > 0)
      BY <2>2, <2>3
    <3> QED BY <1>5, <2>1, <2>2, <3>5, <3>6, <3>7, BlockTaken DEF Apart
  <2>18. HandlesApart'
    <3>1. \A u \in Threads : Making(u)' => Making(u) /\ call'[u].inum = call[u].inum
      BY <1>4, <2>5, <2>7 DEF Making
    <3> QED BY <3>1, <2>2, <2>4, <2>8, HandlesKept DEF Apart
  <2>19. AppendsApart'
    <3>1. HasFile(t)' => HasFile(t)
      BY <2>4, <2>5 DEF HasFile
    <3>2. pc'[t] # "addOpen" /\ call'[t].kind # "create"
      BY <1>3, <2>5
    <3> QED BY <1>1, <1>4, <2>2, <2>3, <2>4, <2>7, <3>1, <3>2, AppendsSame
  <2>20. status' = "mounted" /\ freeinode_ts'[ROOT_DIR_INUM] = TAKEN
    BY DEF Apart
  <2> QED BY <2>7, <2>10, <2>12, <2>14, <2>15, <2>16, <2>17, <2>18, <2>19, <2>20 DEF Apart
<1> QED BY <1>6, <1>7

LEMMA RaiseCounterKeeps ==
  ASSUME Apart, NEW t \in Threads, RaiseCounter(t)
  PROVE  Apart'
<1> USE DEF RaiseCounter, blockVars, callVars, pastVars
<1>1. PICK i : i = call[t].inum
  OBVIOUS
<1>2. pc[t] = "writeLock"
  BY DEF At
<1>3. call[t] \in CallType /\ call[t].kind = "link"
  BY <1>2, KindsOf DEF Apart, KindFits, Kinds, Opens, Adding, Deleting, Clearing, Lowering,
                       Truncating, Filling, Looking
<1>4. i \in Allocated /\ i \in Inums /\ EntriesOf(i) # {}
  BY <1>1, <1>2 DEF Apart, Plan, PlanOfOpen, Found, Allocated
<1>5. ~Changing(t) /\ ~Making(t) /\ \A j : ~SparedBy(t, j)
  BY <1>2 DEF Making, Changing, SparedBy, Adding, Lowering, Deleting
<1>6. CASE Type(i) = "T_SYMLINK"
  <2>1. Return(t) /\ LocksKept(t) /\ UNCHANGED inode_table
    BY <1>1, <1>6, LockSteps DEF InodeOf, Type
  <2>2. UNCHANGED inodeVars
    BY <2>1 DEF inodeVars
  <2> QED BY <1>2, <1>5, <2>1, <2>2, ReturnKeeps
<1>7. CASE Type(i) # "T_SYMLINK"
  <2>1. /\ SetInode(t, "i_link_counter", InodeOf(t).i_link_counter + 1)
        /\ WriteLocked(t) /\ GoTo(t, "addPick") /\ UNCHANGED threadVars
    BY <1>1, <1>7 DEF InodeOf, Type
  <2>2. inode_table' = [inode_table EXCEPT ![i] = [@ EXCEPT !.i_link_counter = Counter(i) + 1]]
    BY <1>1, <2>1 DEF SetInode, InumOfCall, InodeOf, Counter
  <2>3. /\ inode_table' \in [Inums -> InodeType]
        /\ \A j \in Inums : /\ Type(j)' = Type(j) /\ Size(j)' = Size(j) /\ Data(j)' = Data(j)
                            /\ j # i => Counter(j)' = Counter(j)
        /\ Counter(i)' = Counter(i) + 1
    <3>1. inode_table \in [Inums -> InodeType] /\ Counter(i) \in Nat
      BY <1>4 DEF Apart, Tables, InodeType, Counter
    <3>2. [inode_table[i] EXCEPT !.i_link_counter = Counter(i) + 1] \in InodeType
      BY <1>4, <3>1 DEF InodeType
    <3>3. inode_table' \in [Inums -> InodeType]
      BY <2>2, <3>1, <3>2
    <3>4. \A j \in Inums : j # i => inode_table'[j] = inode_table[j]
      BY <2>2, <3>1
    <3>5. inode_table'[i] = [inode_table[i] EXCEPT !.i_link_counter = Counter(i) + 1]
      BY <1>4, <2>2, <3>1
    <3>6. PICK n : n = Counter(i) + 1
      OBVIOUS
    <3>7. /\ Type(i)' = Type(i) /\ Size(i)' = Size(i) /\ Data(i)' = Data(i)
          /\ Counter(i)' = n
      BY <1>4, <3>1, <3>5, <3>6 DEF InodeType, Type, Counter, Data, Size
    <3> QED BY <3>3, <3>4, <3>6, <3>7 DEF Type, Counter, Data, Size
  <2>4. Moves(t, "addPick", call[t]) /\ LocksKept(t) /\ "addPick" \in Steps /\ handle' = handle
    BY <2>1, StepMoves, LockSteps DEF Apart, Steps, threadVars
  <2>5. pc'[t] = "addPick" /\ call'[t] = call[t]
    BY <1>3, <2>4, Moved DEF Apart
  <2>6. KindFits(t)'
    BY <1>3, <2>5 DEF KindFits, Adding, Filling, Looking
  <2>7. /\ ThreadTypes' /\ KindsApart' /\ \A u \in Threads : KindFits(u)'
        /\ \A u \in Threads : u # t => pc'[u] = pc[u] /\ call'[u] = call[u]
    <3>1. handle' \in [Threads -> Handles \cup {-1}]
      BY <2>4 DEF Apart, ThreadTypes
    <3> QED BY <1>2, <1>3, <2>4, <2>6, <3>1, OthersStay
  <2>8. /\ \A j : EntriesOf(j)' = EntriesOf(j)
        /\ Allocated' = Allocated /\ SlotsUsed' = SlotsUsed
    BY DEF EntriesOf, Allocated, SlotsUsed
  <2>9. Tables'
    BY <2>3 DEF Apart, Tables
  <2>10. \A j \in Allocated : j \in Inums
    BY DEF Allocated
  <2>11. \A u \in Threads : u # t => Plan(u)' /\ ~Making(u) /\ ~Changing(u)
    BY <1>3, <2>3, <2>4, <2>7, <2>8, <2>10, OpenersStay DEF Adders
  <2>12. ~Making(t)' /\ Changing(t)' /\ ~Found(t)'
    BY <1>3, <2>5 DEF Making, Changing, Found, Adding, Truncating, Clearing
  <2>13. Ahead(i)'
    <3>1. ~InHand(i)
      BY <1>5, <2>11 DEF InHand
    <3>2. Counted(i)
      BY <1>4, <3>1 DEF Apart, CountersApart, Settled
    <3>3. Counter(i) \in Nat /\ Cardinality(EntriesOf(i)) \in Nat
      BY <1>4, EntriesAreFinite DEF Apart, Tables, InodeType, Counter
    <3> QED BY <3>2, <3>3, <2>3, <2>8 DEF Counted, Ahead
  <2>14. Plan(t)'
    <3>1. PlanOfOpen(t)' /\ PlanOfMaking(t)'
      BY <2>5, <2>12 DEF PlanOfOpen, PlanOfMaking, Truncating
    <3>2. call[t].name \in Names
      BY <1>3 DEF Apart, Plan, PlanOfAdding
    <3>3. Isnt(i, "T_SYMLINK")'
      BY <1>4, <1>7, <2>3 DEF Isnt
    <3>4. PlanOfAdding(t)'
      BY <1>1, <1>3, <1>4, <2>5, <2>8, <2>13, <3>2, <3>3 DEF PlanOfAdding
    <3>5. PlanOfUnlink(t)'
      BY <1>3, <2>5 DEF PlanOfUnlink
    <3> QED BY <3>1, <3>4, <3>5, <1>1, <1>3, <1>4, <1>7, <2>3, <2>5, <2>8, <2>13 DEF Plan, PlanOfLooking, Looking
  <2>15. DirectoryApart'
    BY <2>8 DEF Apart, DirectoryApart
  <2>16. CountersApart'
    <3>1. \A j : InHand(j) => InHand(j)'
      BY <1>5, <2>7, InHandKept
    <3>2. InHand(i)'
      BY <1>1, <2>5, <2>12 DEF InHand
    <3> QED BY <3>1, <3>2, <2>3, <2>8, <2>10, CountersKept DEF Apart
  <2>17. BlocksApart'
    <3>1. \A j : ~SparedBy(t, j) /\ ~SparedBy(t, j)'
      BY <1>2, <2>5 DEF SparedBy
    <3>2. \A j \in Inums : Spared(j)' <=> Spared(j)
      BY <2>3, <2>7, <3>1, SparedKept
    <3>3. BlockOwners' = BlockOwners
      BY <3>2, <2>3 DEF BlockOwners, Owners
    <3>4. \A j \in BlockOwners : j \in Inums
      BY DEF BlockOwners, Owners
    <3> QED BY <3>3, <3>4, <2>3, BlocksKept DEF Apart, BlocksApart
  <2>18. HandlesApart'
    <3>1. \A u \in Threads : Making(u)' => Making(u) /\ call'[u].inum = call[u].inum
      BY <2>7, <2>12 DEF Making
    <3> QED BY <3>1, <2>4, <2>8, HandlesKept DEF Apart
  <2>19. AppendsApart'
    <3>1. HasFile(t)' => HasFile(t)
      BY <2>4, <2>5 DEF HasFile
    <3>2. pc'[t] # "addOpen" /\ call'[t].kind # "create"
      BY <1>3, <2>5
    <3> QED BY <2>3, <2>4, <2>7, <3>1, <3>2, AppendsSame
  <2>20. status' = "mounted" /\ freeinode_ts'[ROOT_DIR_INUM] = TAKEN
    BY DEF Apart
  <2> QED BY <2>7, <2>9, <2>11, <2>14, <2>15, <2>16, <2>17, <2>18, <2>19, <2>20 DEF Apart
<1> QED BY <1>6, <1>7

LEMMA AddStoreKeeps ==
  ASSUME Apart, NEW t \in Threads, AddStore(t)
  PROVE  Apart'
<1> USE DEF AddStore, inodeVars, blockVars, callVars, threadVars, inodeLocks
<1>1. PICK i, slot : i = call[t].inum /\ slot = call[t].slot
  OBVIOUS
<1>2. pc[t] = "addStore"
  BY DEF At
<1>3. call[t] \in CallType /\ call[t].kind \in Adders
  BY <1>2, KindsOf DEF Apart, KindFits, Kinds, Opens, Adders, Deleting, Clearing, Lowering,
                       Truncating, Looking
<1>4. Making(t) <=> call[t].kind # "link"
  BY <1>2, <1>3 DEF Making, Adders, Adding
<1>5. Making(t) => /\ i \in Allocated /\ EntriesOf(i) = {} /\ Counter(i) = 1
                   /\ Type(i) = IF call[t].kind = "symlink" THEN "T_SYMLINK" ELSE "T_FILE"
                   /\ call[t].kind = "symlink" => Size(i) > 0
  BY <1>1, <1>2 DEF Apart, Plan, PlanOfMaking, Adding
<1>6. call[t].kind = "link" =>
        i \in Allocated /\ EntriesOf(i) # {} /\ Type(i) # "T_SYMLINK" /\ Ahead(i)
  BY <1>1, <1>2 DEF Apart, Plan, PlanOfAdding, Adding, Isnt
<1>7. i \in Allocated /\ i \in Inums
  BY <1>4, <1>5, <1>6 DEF Allocated
<1>8. /\ slot \in Slots \ SlotsUsed
      /\ \A s \in Slots \ SlotsUsed : slot <= s
      /\ dir_entries[slot] \in EntryType /\ dir_entries[slot].d_name = NoName
  BY <1>1, <1>2 DEF Apart, Plan, PlanOfAdding, DirectoryApart, Tables
<1>9. Adds(slot, NoName, i)
  <2>1. [dir_entries[slot] EXCEPT !.d_inumber = i] = [d_name |-> NoName, d_inumber |-> i]
    BY <1>8 DEF EntryType
  <2>2. dir_entries' =
          [dir_entries EXCEPT ![slot] = [dir_entries[slot] EXCEPT !.d_inumber = i]]
    BY <1>1 DEF InumOfCall
  <2> QED BY <1>8, <2>1, <2>2 DEF Adds
<1>10. /\ SlotsUsed' = SlotsUsed \cup {slot}
       /\ dir_entries'[slot] = [d_name |-> NoName, d_inumber |-> i]
       /\ \A s \in SlotsUsed : dir_entries'[s] = dir_entries[s]
       /\ \A j \in Inums \ {i} : EntriesOf(j)' = EntriesOf(j)
       /\ EntriesOf(i)' = EntriesOf(i) \cup {slot}
       /\ Cardinality(EntriesOf(i)') = Cardinality(EntriesOf(i)) + 1
  <2>1. StaleNamesLast
    BY DEF Apart, DirectoryApart, StaleNamesLast
  <2> QED BY <2>1, <1>7, <1>8, <1>9, AddedEntry DEF Apart
<1>11. /\ \A s \in Slots : s # slot => dir_entries'[s] = dir_entries[s]
       /\ dir_entries' \in [Slots -> EntryType]
  <2>1. [d_name |-> NoName, d_inumber |-> i] \in EntryType
    BY <1>7 DEF EntryType
  <2> QED BY <1>9, <2>1 DEF Apart, Tables, Adds
<1>12. Moves(t, "addName", call[t]) /\ LocksKept(t) /\ handle' = handle /\ "addName" \in Steps
  BY StepMoves DEF Apart, ThreadTypes, LocksKept, Steps
<1>13. pc'[t] = "addName" /\ call'[t] = call[t]
  BY <1>3, <1>12, Moved DEF Apart
<1>14. KindFits(t)'
  BY <1>3, <1>13 DEF KindFits, Adders, Filling
<1>15. /\ ThreadTypes' /\ KindsApart' /\ \A u \in Threads : KindFits(u)'
       /\ \A u \in Threads : u # t => pc'[u] = pc[u] /\ call'[u] = call[u]
  <2>1. handle' \in [Threads -> Handles \cup {-1}]
    BY <1>12 DEF Apart, ThreadTypes
  <2> QED BY <1>2, <1>3, <1>12, <1>14, <2>1, OthersStay
<1>16. /\ \A j : Type(j)' = Type(j) /\ Counter(j)' = Counter(j)
                 /\ Size(j)' = Size(j) /\ Data(j)' = Data(j)
       /\ Allocated' = Allocated /\ Owners' = Owners
  BY DEF Type, Counter, Size, Data, Allocated, Owners
<1>17. Tables'
  BY <1>11 DEF Apart, Tables
<1>18. \A j \in Allocated : j \in Inums /\ (EntriesOf(j) # {} => EntriesOf(j)' # {})
  BY <1>10 DEF Allocated
<1>19. \A u \in Threads : u # t => Plan(u)' /\ ~Making(u) /\ pc[u] # "delete"
  BY <1>3, <1>12, <1>15, <1>16, <1>18, OpenersStay
<1>20. ~Making(t)' /\ ~Changing(t)' /\ pc'[t] \notin Truncating \cup Looking \cup Adding
  BY <1>13 DEF Making, Changing, Adding, Truncating, Lowering, Deleting, Looking
<1>21. Plan(t)'
  <2>1. EntriesOf(i)' # {}
    BY <1>10
  <2>2. PlanOfOpen(t)'
    BY <1>1, <1>7, <1>13, <1>16, <1>20, <2>1 DEF PlanOfOpen
  <2>3. PlanOfMaking(t)' /\ PlanOfLooking(t)'
    BY <1>20 DEF PlanOfMaking, PlanOfLooking
  <2>4. PlanOfAdding(t)'
    BY <1>1, <1>10, <1>13, <1>20 DEF Apart, Plan, PlanOfAdding
  <2>5. PlanOfUnlink(t)'
    BY <1>3, <1>13 DEF PlanOfUnlink, Adders
  <2> QED BY <2>2, <2>3, <2>4, <2>5 DEF Plan
<1>22. DirectoryApart'
  <2>1. \A s \in Slots \ SlotsUsed' : dir_entries'[s].d_name = NoName
    BY <1>10, <1>11 DEF Apart, DirectoryApart
  <2>2. ASSUME NEW s \in SlotsUsed' PROVE dir_entries'[s].d_inumber \in Allocated
    <3>1. CASE s \in SlotsUsed
      BY <3>1, <1>10 DEF Apart, DirectoryApart
    <3>2. CASE s = slot
      BY <3>2, <1>7, <1>10
    <3> QED BY <3>1, <3>2, <1>10
  <2> QED BY <2>1, <2>2, <1>16 DEF DirectoryApart
<1>23. CountersApart'
  <2>1. \A j : j # i /\ InHand(j) => InHand(j)'
    BY <1>1, <1>15, InHandKept
  <2>2. Settled(i)'
    <3>1. Counter(i) \in Nat /\ Cardinality(EntriesOf(i)) \in Nat
      BY <1>7, EntriesAreFinite DEF Apart, Tables, InodeType, Counter
    <3>2. Making(t) => Cardinality(EntriesOf(i)) = 0
      BY <1>5, FS_EmptySet
    <3>3. Counted(i)'
      <4>1. CASE Making(t)
        BY <4>1, <3>2, <1>5, <1>10, <1>16 DEF Counted
      <4>2. CASE ~Making(t)
        BY <4>2, <3>1, <1>4, <1>6, <1>10, <1>16 DEF Counted, Ahead
      <4> QED BY <4>1, <4>2
    <3>4. EntriesOf(i)' # {}
      BY <1>10
    <3>5. Type(i) = "T_SYMLINK" => Counter(i) = 1 /\ Size(i) > 0
      BY <1>4, <1>5, <1>6
    <3> QED BY <3>3, <3>4, <3>5, <1>16 DEF Settled
  <2> QED BY <2>1, <2>2, <1>10, <1>16, <1>18, CountersKept DEF Apart
<1>24. BlocksApart'
  <2>1. \A j : ~SparedBy(t, j) /\ ~SparedBy(t, j)'
    BY <1>2, <1>13 DEF SparedBy
  <2>2. \A j : Spared(j)' <=> Spared(j)
    BY <2>1, <1>15, <1>16, SparedKept
  <2>3. BlockOwners' = BlockOwners
    BY <2>2, <1>16 DEF BlockOwners, Owners
  <2> QED BY <2>3, <1>16, BlocksKept DEF Apart, BlocksApart
<1>25. HandlesApart'
  <2>1. \A u \in Threads : Making(u)' => Making(u) /\ call'[u].inum = call[u].inum
    BY <1>15, <1>20 DEF Making
  <2> QED BY <2>1, <1>12, <1>16, HandlesKept DEF Apart
<1>26. AppendsApart'
  <2>1. HasFile(t)' => HasFile(t)
    BY <1>12, <1>13 DEF HasFile
  <2>2. ~shared /\ "orphaned" \notin lapses /\ call[t].kind = "create" =>
           Size(call[t].inum)' = 0
    <3>1. ~shared /\ "orphaned" \notin lapses /\ call[t].kind = "create" => Size(i) = 0
      BY <1>1, <1>2 DEF Apart, AppendsApart, Adding, Filling
    <3> QED BY <1>1, <1>13, <1>16, <3>1 DEF Size
  <2> QED BY <2>1, <2>2, <1>12, <1>13, <1>15, <1>16, AppendsSame
<1>27. status' = "mounted" /\ freeinode_ts'[ROOT_DIR_INUM] = TAKEN
  BY DEF Apart
<1> QED BY <1>15, <1>17, <1>19, <1>21, <1>22, <1>23, <1>24, <1>25, <1>26, <1>27 DEF Apart

LEMMA AddNameKeeps ==
  ASSUME Apart, NEW t \in Threads, AddName(t)
  PROVE  Apart'
<1> USE DEF AddName, inodeVars, blockVars, callVars, pastVars
<1>1. PICK i, slot, name : i = call[t].inum /\ slot = call[t].slot /\ name = call[t].name
  OBVIOUS
<1>2. pc[t] = "addName"
  BY DEF At
<1>3. call[t] \in CallType /\ call[t].kind \in Adders
  BY <1>2, KindsOf DEF Apart, KindFits, Kinds, Opens, Adders, Deleting, Clearing, Lowering,
                       Truncating, Looking
<1>4. ~Making(t) /\ ~Changing(t)
  BY <1>2 DEF Making, Changing, Adding, Lowering, Deleting
<1>5. i \in Allocated /\ i \in Inums /\ EntriesOf(i) # {} /\ slot \in SlotsUsed
  BY <1>1, <1>2 DEF Apart, Plan, PlanOfOpen, PlanOfAdding, Found, Allocated
<1>6. name \in Texts
  <2>1. /\ call[t].kind \in {"link", "symlink"} => name \in Names
        /\ call[t].kind = "create" => name \in Texts
    BY <1>1 DEF Apart, Plan, PlanOfAdding
  <2> QED BY <1>3, <2>1, Sizes DEF Adders
<1>7. dir_entries' = [dir_entries EXCEPT ![slot] = [@ EXCEPT !.d_name = name]]
  BY <1>1
<1>8. /\ dir_entries' \in [Slots -> EntryType]
      /\ \A s \in Slots : dir_entries'[s].d_inumber = dir_entries[s].d_inumber
      /\ \A s \in Slots : s # slot => dir_entries'[s] = dir_entries[s]
  <2>1. dir_entries \in [Slots -> EntryType] /\ slot \in Slots
    BY <1>5 DEF Apart, Tables, SlotsUsed
  <2>2. [dir_entries[slot] EXCEPT !.d_name = name] \in EntryType
        /\ [dir_entries[slot] EXCEPT !.d_name = name].d_inumber = dir_entries[slot].d_inumber
    BY <1>6, <2>1 DEF EntryType
  <2> QED BY <1>7, <2>1, <2>2
<1>9. SlotsUsed' = SlotsUsed /\ \A j : EntriesOf(j)' = EntriesOf(j)
  <2>1. SlotsUsed' = SlotsUsed
    BY <1>8 DEF SlotsUsed
  <2> QED BY <2>1, <1>8 DEF EntriesOf, SlotsUsed
<1>10. PICK step \in Steps, c \in CallType :
         /\ Moves(t, step, c) /\ LocksKept(t) /\ handle' = handle
         /\ \/ call[t].kind = "create" /\ step = "addOpen" /\ c = call[t]
            \/ step = "idle" /\ c = NoCall
  <2>1. CASE call[t].kind = "create"
    <3>1. GoTo(t, "addOpen") /\ UNCHANGED <<threadVars, lockVars>>
      BY <2>1
    <3>2. Moves(t, "addOpen", call[t]) /\ LocksKept(t) /\ handle' = handle
          /\ "addOpen" \in Steps
      BY <3>1, StepMoves, LockSteps DEF Apart, threadVars, Steps
    <3> QED BY <1>3, <2>1, <3>2
  <2>2. CASE call[t].kind # "create"
    <3>1. Return(t) /\ Unlocked(t)
      BY <2>2
    <3>2. Moves(t, "idle", NoCall) /\ LocksKept(t) /\ handle' = handle /\ "idle" \in Steps
      BY <3>1, LockSteps DEF Return, GoTo, Moves, Steps
    <3> QED BY <3>2, NoCallType
  <2> QED BY <2>1, <2>2
<1>11. pc'[t] = step /\ call'[t] = c
  BY <1>10, Moved DEF Apart
<1>12. KindFits(t)'
  BY <1>10, <1>11, NoCallType DEF KindFits
<1>13. /\ ThreadTypes' /\ KindsApart' /\ \A u \in Threads : KindFits(u)'
       /\ \A u \in Threads : u # t => pc'[u] = pc[u] /\ call'[u] = call[u]
  <2>1. handle' \in [Threads -> Handles \cup {-1}]
    BY <1>10 DEF Apart, ThreadTypes
  <2> QED BY <1>2, <1>10, <1>12, <2>1, OthersStay
<1>14. /\ \A j : Type(j)' = Type(j) /\ Counter(j)' = Counter(j)
                 /\ Size(j)' = Size(j) /\ Data(j)' = Data(j)
       /\ Allocated' = Allocated /\ Owners' = Owners
  BY DEF Type, Counter, Size, Data, Allocated, Owners
<1>15. Tables'
  BY <1>8 DEF Apart, Tables
<1>16. \A u \in Threads : u # t => Plan(u)'
  BY <1>3, <1>9, <1>10, <1>13, <1>14, OpenersStay
<1>17. ~Making(t)' /\ ~Changing(t)'
       /\ pc'[t] \notin Truncating \cup Looking \cup Filling
  BY <1>10, <1>11 DEF Making, Changing, Adding, Truncating, Lowering, Deleting, Looking, Filling
<1>18. Plan(t)'
  <2>1. Found(t)' => c = call[t]
    BY <1>10, <1>11 DEF Found, Truncating, Clearing
  <2>2. PlanOfOpen(t)'
    BY <1>1, <1>5, <1>9, <1>11, <1>14, <1>17, <2>1 DEF PlanOfOpen, Truncating
  <2>3. PlanOfMaking(t)' /\ PlanOfLooking(t)'
    BY <1>17 DEF PlanOfMaking, PlanOfLooking
  <2>4. PlanOfAdding(t)'
    BY <1>1, <1>6, <1>10, <1>11, <1>17, NoCallType DEF PlanOfAdding, Adding, Filling
  <2>5. PlanOfUnlink(t)'
    BY <1>10, <1>11, NoCallType DEF PlanOfUnlink
  <2> QED BY <2>2, <2>3, <2>4, <2>5 DEF Plan
<1>19. DirectoryApart'
  <2>1. \A s \in Slots \ SlotsUsed : dir_entries'[s].d_name = NoName
    BY <1>5, <1>8 DEF Apart, DirectoryApart
  <2>2. \A s \in SlotsUsed : dir_entries'[s].d_inumber \in Allocated
    BY <1>8 DEF Apart, DirectoryApart, SlotsUsed
  <2> QED BY <2>1, <2>2, <1>9, <1>14 DEF DirectoryApart
<1>20. CountersApart'
  <2>1. \A j : InHand(j) => InHand(j)'
    BY <1>4, <1>13, InHandKept
  <2>2. \A j \in Allocated : Settled(j) => Settled(j)'
    BY <1>9, <1>14 DEF Settled, Counted
  <2> QED BY <2>1, <2>2, <1>14 DEF Apart, CountersApart
<1>21. BlocksApart'
  <2>1. \A j : ~SparedBy(t, j) /\ ~SparedBy(t, j)'
    BY <1>2, <1>10, <1>11 DEF SparedBy
  <2>2. \A j : Spared(j)' <=> Spared(j)
    BY <2>1, <1>13, <1>14, SparedKept
  <2>3. BlockOwners' = BlockOwners
    BY <2>2, <1>14 DEF BlockOwners, Owners
  <2> QED BY <2>3, <1>14, BlocksKept DEF Apart, BlocksApart
<1>22. HandlesApart'
  <2>1. \A u \in Threads : Making(u)' => Making(u) /\ call'[u].inum = call[u].inum
    BY <1>13, <1>17 DEF Making
  <2> QED BY <2>1, <1>10, <1>14, HandlesKept DEF Apart
<1>23. AppendsApart'
  <2>1. HasFile(t)' => HasFile(t)
    BY <1>10, <1>11, NoCallType DEF HasFile, Opens
  <2>2. ~shared /\ "orphaned" \notin lapses /\ pc'[t] = "addOpen" =>
           Size(call[t].inum)' <= call'[t].offset
    <3> SUFFICES ASSUME ~shared, "orphaned" \notin lapses, step = "addOpen"
                 PROVE  Size(call[t].inum)' <= call'[t].offset
      BY <1>11
    <3>1. c = call[t] /\ call[t].kind = "create"
      BY <1>10
    <3>2. Size(i) = 0
      BY <1>1, <1>2, <3>1 DEF Apart, AppendsApart, Filling
    <3>3. call[t].offset \in Nat
      BY <1>3 DEF CallType
    <3> QED BY <1>1, <1>11, <1>14, <3>1, <3>2, <3>3 DEF Size
  <2> QED BY <2>1, <2>2, <1>10, <1>13, <1>14, <1>17, AppendsSame
<1>24. status' = "mounted" /\ freeinode_ts'[ROOT_DIR_INUM] = TAKEN
  BY DEF Apart
<1> QED BY <1>13, <1>15, <1>16, <1>18, <1>19, <1>20, <1>21, <1>22, <1>23, <1>24 DEF Apart

-----------------------------------------------------------------------------
(* Unlinking and deletion                                                  *)

\* What is left of the proof of a step in which t, that unlinks, goes on
LEMMA UnlinkSteps ==
  ASSUME Apart, NEW t \in Threads, call[t].kind = "unlink", pc[t] # "looking",
         NEW step \in Steps, GoTo(t, step), UNCHANGED <<threadVars, lockVars, shared>>,
         step \in Lowering \cup Deleting
  PROVE  /\ call[t] \in CallType /\ pc'[t] = step /\ call'[t] = call[t] /\ handle' = handle
         /\ \A u \in Threads : u # t => pc'[u] = pc[u] /\ call'[u] = call[u]
         /\ ThreadTypes' /\ KindsApart' /\ \A u \in Threads : KindFits(u)'
         /\ \A u \in Threads : u # t => Plan(u)' /\ ~Changing(u) /\ ~Making(u) /\ pc[u] = "idle"
         /\ ~Making(t)' /\ Changing(t)'
         /\ PlanOfUnlink(t)' => Plan(t)'
         /\ HasFile(t)' => HasFile(t)
         /\ pc'[t] # "addOpen" /\ call'[t].kind # "create"
<1> USE DEF threadVars
<1>1. call[t] \in CallType /\ pc[t] # "idle"
  BY KindsOf DEF Apart, KindFits
<1>2. Moves(t, step, call[t]) /\ LocksKept(t) /\ handle' = handle
  BY StepMoves, LockSteps DEF Apart
<1>3. pc'[t] = step /\ call'[t] = call[t]
  BY <1>1, <1>2, Moved DEF Apart
<1>4. KindFits(t)'
  BY <1>3 DEF KindFits, Lowering, Deleting
<1>5. /\ ThreadTypes' /\ KindsApart' /\ \A u \in Threads : KindFits(u)'
      /\ \A u \in Threads : u # t => pc'[u] = pc[u] /\ call'[u] = call[u]
  <2>1. handle' \in [Threads -> Handles \cup {-1}]
    BY <1>2 DEF Apart, ThreadTypes
  <2> QED BY <1>1, <1>2, <1>4, <2>1, OthersStay
<1>6. \A u \in Threads : u # t => Plan(u)' /\ ~Changing(u) /\ ~Making(u) /\ pc[u] = "idle"
  BY <1>5, IdlersStay
<1>7. ~Making(t)' /\ Changing(t)' /\ ~Found(t)'
  BY <1>3 DEF Making, Changing, Found, Lowering, Deleting, Truncating, Clearing
<1>8. PlanOfUnlink(t)' => Plan(t)'
  <2>1. PlanOfOpen(t)' /\ PlanOfMaking(t)' /\ PlanOfAdding(t)'
    BY <1>3, <1>7 DEF PlanOfOpen, PlanOfMaking, PlanOfAdding, Truncating, Lowering, Deleting,
                      Adding
  <2>2. step \notin Looking
    BY DEF Lowering, Deleting, Looking
  <2> QED BY <2>1, <2>2, <1>3 DEF Plan, PlanOfLooking
<1>9. (HasFile(t)' => HasFile(t)) /\ pc'[t] # "addOpen" /\ call'[t].kind # "create"
  BY <1>2, <1>3 DEF HasFile, Lowering, Deleting
<1> QED BY <1>1, <1>2, <1>3, <1>5, <1>6, <1>7, <1>8, <1>9

LEMMA ClearStoreKeeps ==
  ASSUME Apart, NEW t \in Threads, ClearStore(t)
  PROVE  Apart'
<1> USE DEF ClearStore, inodeVars, blockVars, callVars, pastVars
<1>1. PICK i, slot, name : i = call[t].inum /\ slot = call[t].slot /\ name = call[t].name
  OBVIOUS
<1>2. pc[t] = "clearStore"
  BY DEF At
<1>3. call[t].kind = "unlink"
  BY <1>2, KindsOf DEF Apart, KindFits, Kinds, Opens, Adding, Deleting, Truncating, Filling, Looking
<1>4. i \in Allocated /\ i \in Inums
  BY <1>1, <1>2, <1>3, UnlinkHolds
<1>5. /\ Listed(name) /\ i = find_in_dir(name) /\ slot \in SlotsNamed(name)
      /\ dir_entries[slot].d_inumber = i
  BY <1>1, <1>2, <1>3 DEF Apart, Plan, PlanOfUnlink, Clearing
<1>6. slot \in Slots /\ Clears(slot, name)
  BY <1>1, <1>5 DEF Clears, SlotsNamed, SlotsUsed
<1>7. /\ SlotsUsed' = SlotsUsed \ {slot}
      /\ \A s \in SlotsUsed' : dir_entries'[s] = dir_entries[s]
      /\ \A j \in Inums \ {i} : EntriesOf(j)' = EntriesOf(j)
      /\ EntriesOf(i)' = EntriesOf(i) \ {slot} /\ slot \in EntriesOf(i)
      /\ Cardinality(EntriesOf(i)') = Cardinality(EntriesOf(i)) - 1
  <2>1. StaleNamesLast
    BY DEF Apart, DirectoryApart, StaleNamesLast
  <2> QED BY <2>1, <1>4, <1>5, <1>6, ClearedEntry DEF Apart
<1>8. /\ dir_entries'[slot] = Unused
      /\ \A s \in Slots : s # slot => dir_entries'[s] = dir_entries[s]
      /\ dir_entries' \in [Slots -> EntryType]
  <2>1. Unused \in EntryType
    BY DEF Unused, EntryType
  <2> QED BY <2>1, <1>6 DEF Clears, Apart, Tables
<1>9. /\ \A j : Type(j)' = Type(j) /\ Counter(j)' = Counter(j)
                /\ Size(j)' = Size(j) /\ Data(j)' = Data(j)
      /\ Allocated' = Allocated /\ Owners' = Owners
  BY DEF Type, Counter, Size, Data, Allocated, Owners
<1>10. PICK step \in Steps :
         /\ step = IF Type(i) = "T_SYMLINK" THEN "freeBlock" ELSE "lower"
         /\ GoTo(t, step)
  BY <1>1 DEF AfterClearing, InodeOf, Type, Steps
<1>11. step \in Lowering
  BY <1>10 DEF Lowering
<1>12. /\ pc'[t] = step /\ call'[t] = call[t] /\ handle' = handle
       /\ \A u \in Threads : u # t => pc'[u] = pc[u] /\ call'[u] = call[u]
       /\ ThreadTypes' /\ KindsApart' /\ \A u \in Threads : KindFits(u)'
       /\ \A u \in Threads : u # t => Plan(u)' /\ ~Changing(u) /\ ~Making(u) /\ pc[u] = "idle"
       /\ ~Making(t)' /\ Changing(t)'
       /\ PlanOfUnlink(t)' => Plan(t)'
       /\ HasFile(t)' => HasFile(t)
       /\ pc'[t] # "addOpen" /\ call'[t].kind # "create"
  BY <1>2, <1>3, <1>10, <1>11, UnlinkSteps
<1>13. Settled(i)
  <2>1. ~Changing(t)
    BY <1>2 DEF Changing, Adding, Lowering, Deleting
  <2>2. ~InHand(i)
    BY <2>1, <1>12 DEF InHand
  <2> QED BY <2>2, <1>4 DEF Apart, CountersApart
<1>14. Cardinality(EntriesOf(i)) \in Nat /\ Counter(i) \in Nat
       /\ IsFiniteSet(EntriesOf(i)') /\ Cardinality(EntriesOf(i)') \in Nat
  <2>1. IsFiniteSet(EntriesOf(i)) /\ Cardinality(EntriesOf(i)) \in Nat /\ Counter(i) \in Nat
    BY <1>4, EntriesAreFinite DEF Apart, Tables, InodeType, Counter
  <2>2. IsFiniteSet(EntriesOf(i)')
    BY <2>1, <1>7, FS_Subset
  <2> QED BY <2>1, <2>2, FS_CardinalityType
<1>15. PlanOfUnlink(t)'
  <2>1. Type(i) = "T_SYMLINK" => EntriesOf(i)' = {}
    <3>1. Type(i) = "T_SYMLINK" => Cardinality(EntriesOf(i)') = 0
      BY <1>7, <1>13, <1>14 DEF Settled, Counted
    <3> QED BY <3>1, <1>14, FS_EmptySet
  <2>2. Type(i) # "T_SYMLINK" => Isnt(i, "T_SYMLINK")' /\ Ahead(i)'
    <3>1. Ahead(i)'
      BY <1>7, <1>9, <1>13, <1>14 DEF Settled, Counted, Ahead
    <3> QED BY <3>1, <1>9 DEF Isnt
  <2> QED BY <2>1, <2>2, <1>1, <1>4, <1>9, <1>10, <1>12 DEF PlanOfUnlink, Clearing, Deleting
<1>16. Tables'
  BY <1>8 DEF Apart, Tables
<1>17. DirectoryApart'
  <2>1. \A s \in Slots \ SlotsUsed' : dir_entries'[s].d_name = NoName
    BY <1>7, <1>8 DEF Apart, DirectoryApart, Unused
  <2>2. \A s \in SlotsUsed' : dir_entries'[s].d_inumber \in Allocated'
    BY <1>7, <1>9 DEF Apart, DirectoryApart
  <2> QED BY <2>1, <2>2 DEF DirectoryApart
<1>18. CountersApart'
  <2>1. \A j : j # i /\ InHand(j) => InHand(j)'
    BY <1>1, <1>12, InHandKept
  <2>2. InHand(i)'
    BY <1>1, <1>12 DEF InHand
  <2>3. \A j \in Allocated : j \in Inums
    BY DEF Allocated
  <2> QED BY <2>1, <2>2, <2>3, <1>7, <1>9, CountersKept DEF Apart
<1>19. BlocksApart'
  <2>1. \A j : ~SparedBy(t, j) /\ ~SparedBy(t, j)'
    BY <1>2, <1>10, <1>12 DEF SparedBy
  <2>2. \A j : Spared(j)' <=> Spared(j)
    BY <2>1, <1>9, <1>12, SparedKept
  <2>3. BlockOwners' = BlockOwners
    BY <2>2, <1>9 DEF BlockOwners, Owners
  <2> QED BY <2>3, <1>9, BlocksKept DEF Apart, BlocksApart
<1>20. HandlesApart'
  <2>1. \A u \in Threads : ~Making(u)'
    BY <1>12 DEF Making
  <2> QED BY <2>1, <1>9, <1>12, HandlesKept DEF Apart
<1>21. AppendsApart'
  BY <1>9, <1>12, AppendsSame
<1>22. status' = "mounted" /\ freeinode_ts'[ROOT_DIR_INUM] = TAKEN
  BY DEF Apart
<1> QED BY <1>12, <1>15, <1>16, <1>17, <1>18, <1>19, <1>20, <1>21, <1>22 DEF Apart

LEMMA StoreCounterKeeps ==
  ASSUME Apart, NEW t \in Threads, StoreCounter(t)
  PROVE  Apart'
<1> USE DEF StoreCounter, blockVars, callVars, pastVars
<1>1. PICK i, count : i = call[t].inum /\ count = call[t].count
  OBVIOUS
<1>2. pc[t] = "storeCounter"
  BY DEF At
<1>3. call[t].kind = "unlink"
  BY <1>2, KindsOf DEF Apart, KindFits, Kinds, Opens, Adding, Deleting, Truncating, Filling, Looking
<1>4. i \in Allocated /\ i \in Inums /\ count \in Nat
  BY <1>1, <1>2, <1>3, UnlinkHolds DEF CallType
<1>5. Isnt(i, "T_SYMLINK") /\ Ahead(i) /\ count = Counter(i) - 1
  BY <1>1, <1>2, <1>3 DEF Apart, Plan, PlanOfUnlink
<1>6. inode_table' = [inode_table EXCEPT ![i] = [@ EXCEPT !.i_link_counter = count]]
  BY <1>1 DEF SetInode, InumOfCall
<1>7. /\ inode_table' \in [Inums -> InodeType]
      /\ \A j \in Inums : /\ Type(j)' = Type(j) /\ Size(j)' = Size(j) /\ Data(j)' = Data(j)
                          /\ j # i => Counter(j)' = Counter(j)
      /\ Counter(i)' = count
  <2>1. inode_table \in [Inums -> InodeType]
    BY DEF Apart, Tables
  <2>2. [inode_table[i] EXCEPT !.i_link_counter = count] \in InodeType
    BY <1>4, <2>1 DEF InodeType
  <2>3. inode_table' \in [Inums -> InodeType]
    BY <1>6, <2>1, <2>2
  <2>4. \A j \in Inums : j # i => inode_table'[j] = inode_table[j]
    BY <1>6, <2>1
  <2>5. inode_table'[i] = [inode_table[i] EXCEPT !.i_link_counter = count]
    BY <1>4, <1>6, <2>1
  <2>6. /\ Type(i)' = Type(i) /\ Size(i)' = Size(i) /\ Data(i)' = Data(i)
        /\ Counter(i)' = count
    BY <1>4, <2>1, <2>5 DEF InodeType, Type, Counter, Data, Size
  <2> QED BY <2>3, <2>4, <2>6 DEF Type, Counter, Data, Size
<1>8. "testCounter" \in Steps /\ "testCounter" \in Lowering
  BY DEF Steps, Lowering
<1>9. /\ pc'[t] = "testCounter" /\ call'[t] = call[t] /\ handle' = handle
      /\ \A u \in Threads : u # t => pc'[u] = pc[u] /\ call'[u] = call[u]
      /\ ThreadTypes' /\ KindsApart' /\ \A u \in Threads : KindFits(u)'
      /\ \A u \in Threads : u # t => Plan(u)' /\ ~Changing(u) /\ ~Making(u) /\ pc[u] = "idle"
      /\ ~Making(t)' /\ Changing(t)'
      /\ PlanOfUnlink(t)' => Plan(t)'
      /\ HasFile(t)' => HasFile(t)
      /\ pc'[t] # "addOpen" /\ call'[t].kind # "create"
  BY <1>2, <1>3, <1>8, UnlinkSteps
<1>10. /\ \A j : EntriesOf(j)' = EntriesOf(j)
       /\ Allocated' = Allocated /\ SlotsUsed' = SlotsUsed
       /\ \A j \in Allocated : j \in Inums
  BY DEF EntriesOf, Allocated, SlotsUsed
<1>11. Tables'
  BY <1>7 DEF Apart, Tables
<1>12. PlanOfUnlink(t)'
  <2>1. Counted(i)'
    <3>1. Cardinality(EntriesOf(i)) \in Nat /\ Counter(i) \in Nat
      BY <1>4, EntriesAreFinite DEF Apart, Tables, InodeType, Counter
    <3> QED BY <3>1, <1>5, <1>7, <1>10 DEF Ahead, Counted
  <2>2. Isnt(i, "T_SYMLINK")'
    BY <1>4, <1>5, <1>7 DEF Isnt
  <2> QED BY <2>1, <2>2, <1>1, <1>4, <1>7, <1>9, <1>10 DEF PlanOfUnlink, Clearing, Deleting
<1>13. DirectoryApart'
  BY <1>10 DEF Apart, DirectoryApart
<1>14. CountersApart'
  <2>1. \A j : j # i /\ InHand(j) => InHand(j)'
    BY <1>1, <1>9, InHandKept
  <2>2. InHand(i)'
    BY <1>1, <1>9 DEF InHand
  <2> QED BY <2>1, <2>2, <1>7, <1>10, CountersKept DEF Apart
<1>15. BlocksApart'
  <2>1. \A j : ~SparedBy(t, j) /\ ~SparedBy(t, j)'
    BY <1>2, <1>9 DEF SparedBy
  <2>2. \A j \in Inums : Spared(j)' <=> Spared(j)
    BY <2>1, <1>7, <1>9, SparedKept
  <2>3. BlockOwners' = BlockOwners
    BY <2>2, <1>7 DEF BlockOwners, Owners
  <2>4. \A j \in BlockOwners : j \in Inums
    BY DEF BlockOwners, Owners
  <2> QED BY <2>3, <2>4, <1>7, BlocksKept DEF Apart, BlocksApart
<1>16. HandlesApart'
  <2>1. \A u \in Threads : ~Making(u)'
    BY <1>9 DEF Making
  <2> QED BY <2>1, <1>9, <1>10, HandlesKept DEF Apart
<1>17. AppendsApart'
  BY <1>7, <1>9, AppendsSame
<1>18. status' = "mounted" /\ freeinode_ts'[ROOT_DIR_INUM] = TAKEN
  BY DEF Apart
<1> QED BY <1>9, <1>11, <1>12, <1>13, <1>14, <1>15, <1>16, <1>17, <1>18 DEF Apart

\* What BlocksWithoutDataOf gives back is the block of an owner, or nothing.
LEMMA BlockWithout ==
  ASSUME Tables, BlocksApart, lapses' = lapses, inode_table' = inode_table,
         freeinode_ts' = freeinode_ts, NEW i \in Inums, freeinode_ts[i] = TAKEN,
         ~Spared(i), Spared(i)',
         \A j \in Inums : j # i => (Spared(j)' <=> Spared(j)),
         free_blocks' = BlocksWithoutDataOf(i)
  PROVE  /\ BlocksApart' /\ free_blocks' \in [Blocks -> {FREE, TAKEN}]
         /\ Size(i) > 0 => free_blocks'[Data(i)] = FREE
<1>1. \A j : Size(j)' = Size(j) /\ Data(j)' = Data(j)
  BY DEF Size, Data
<1>2. Owners' = Owners
  BY <1>1 DEF Owners
<1>3. BlockOwners' = BlockOwners \ {i}
  BY <1>2 DEF BlockOwners, Owners
<1>4. CASE Size(i) > 0
  <2>1. free_blocks' = Release(free_blocks, Data(i))
    BY <1>4 DEF BlocksWithoutDataOf, Size, Data
  <2>2. i \in BlockOwners /\ Data(i) \in Blocks
    BY <1>4 DEF BlockOwners, Owners, BlocksApart
  <2>3. BlocksApart'
    BY <2>1, <2>2, <1>1, <1>3, BlockGivenBack DEF BlocksApart
  <2> QED BY <2>1, <2>2, <2>3 DEF Release, Tables
<1>5. CASE ~(Size(i) > 0)
  <2>1. free_blocks' = free_blocks
    BY <1>5 DEF BlocksWithoutDataOf, Size
  <2>2. BlockOwners' = BlockOwners
    BY <1>3, <1>5 DEF BlockOwners, Owners
  <2>3. BlocksApart'
    BY <2>1, <2>2, <1>1, BlocksKept DEF BlocksApart
  <2> QED BY <1>5, <2>1, <2>3 DEF Tables
<1> QED BY <1>4, <1>5

LEMMA FreeBlockKeeps ==
  ASSUME Apart, NEW t \in Threads, FreeBlock(t)
  PROVE  Apart'
<1> USE DEF FreeBlock, inodeVars, callVars, pastVars
<1>1. PICK i : i = call[t].inum
  OBVIOUS
<1>2. pc[t] = "freeBlock"
  BY DEF At
<1>3. call[t].kind = "unlink"
  BY <1>2, KindsOf DEF Apart, KindFits, Kinds, Opens, Adding, Deleting, Truncating, Filling, Looking
<1>4. i \in Allocated /\ i \in Inums
  BY <1>1, <1>2, <1>3, UnlinkHolds
<1>5. Type(i) = "T_SYMLINK" /\ EntriesOf(i) = {}
  BY <1>1, <1>2, <1>3 DEF Apart, Plan, PlanOfUnlink
<1>6. "delete" \in Steps /\ "delete" \in Deleting
  BY DEF Steps, Deleting
<1>7. /\ pc'[t] = "delete" /\ call'[t] = call[t] /\ handle' = handle
      /\ \A u \in Threads : u # t => pc'[u] = pc[u] /\ call'[u] = call[u]
      /\ ThreadTypes' /\ KindsApart' /\ \A u \in Threads : KindFits(u)'
      /\ \A u \in Threads : u # t => Plan(u)' /\ ~Changing(u) /\ ~Making(u) /\ pc[u] = "idle"
      /\ ~Making(t)' /\ Changing(t)'
      /\ PlanOfUnlink(t)' => Plan(t)'
      /\ HasFile(t)' => HasFile(t)
      /\ pc'[t] # "addOpen" /\ call'[t].kind # "create"
  BY <1>2, <1>3, <1>6, UnlinkSteps
<1>8. UNCHANGED <<inode_table, freeinode_ts, dir_entries, lapses>>
  OBVIOUS
<1>9. /\ \A j : /\ Type(j)' = Type(j) /\ Counter(j)' = Counter(j)
                /\ Size(j)' = Size(j) /\ Data(j)' = Data(j)
                /\ EntriesOf(j)' = EntriesOf(j)
      /\ Allocated' = Allocated /\ SlotsUsed' = SlotsUsed
  BY <1>8, SameForPlans
<1>10. /\ BlocksApart' /\ free_blocks' \in [Blocks -> {FREE, TAKEN}]
       /\ Size(i) > 0 => free_blocks'[Data(i)] = FREE
  <2>1. \A j : ~SparedBy(t, j)
    BY <1>2 DEF SparedBy
  <2>2. SparedBy(t, i)' /\ \A j : j # i => ~SparedBy(t, j)'
    BY <1>1, <1>5, <1>7, <1>9 DEF SparedBy
  <2>3. \A u \in Threads : u # t => ~SparedBy(u, i)
    BY <1>7 DEF SparedBy
  <2>4. ~Spared(i) /\ Spared(i)'
    BY <2>1, <2>2, <2>3 DEF Spared
  <2>5. \A j : j # i => (Spared(j)' <=> Spared(j))
    BY <2>1, <2>2, <1>7, <1>9, SparedKept
  <2>6. freeinode_ts[i] = TAKEN /\ free_blocks' = BlocksWithoutDataOf(i)
    BY <1>1, <1>4 DEF Allocated, InumOfCall
  <2> QED BY <1>4, <1>8, <2>4, <2>5, <2>6, BlockWithout DEF Apart
<1>11. Tables'
  BY <1>10 DEF Apart, Tables
<1>12. PlanOfUnlink(t)'
  <2>1. PICK bnum : bnum = Data(i) /\ bnum = Data(i)'
    BY <1>9
  <2>2. Size(i)' > 0 => free_blocks'[bnum] = FREE
    BY <2>1, <1>9, <1>10
  <2> QED BY <2>1, <2>2, <1>1, <1>4, <1>5, <1>7, <1>9 DEF PlanOfUnlink, Clearing
<1>13. DirectoryApart'
  BY <1>9 DEF Apart, DirectoryApart
<1>14. CountersApart'
  <2>1. \A j : j # i /\ InHand(j) => InHand(j)'
    BY <1>1, <1>7, InHandKept
  <2>2. InHand(i)'
    BY <1>1, <1>7 DEF InHand
  <2> QED BY <2>1, <2>2, <1>9, CountersKept DEF Apart
<1>15. HandlesApart'
  <2>1. \A u \in Threads : ~Making(u)'
    BY <1>7 DEF Making
  <2> QED BY <2>1, <1>7, <1>9, HandlesKept DEF Apart
<1>16. AppendsApart'
  BY <1>7, <1>9, AppendsSame
<1>17. status' = "mounted" /\ freeinode_ts'[ROOT_DIR_INUM] = TAKEN
  BY DEF Apart
<1> QED BY <1>7, <1>10, <1>11, <1>12, <1>13, <1>14, <1>15, <1>16, <1>17 DEF Apart

\* The inode that a thread is about to delete
LEMMA DeletesAlone ==
  ASSUME Apart, NEW t \in Threads, pc[t] \in Deleting, NEW i, i = call[t].inum
  PROVE  /\ call[t] \in CallType /\ call[t].kind \in {"create", "unlink"}
         /\ call[t].kind = "create" => Making(t) /\ Type(i) = "T_FILE" /\ Counter(i) = 1
         /\ i \in Allocated /\ i \in Inums /\ EntriesOf(i) = {} /\ Changing(t)
         /\ \A u \in Threads : u # t =>
               ~Changing(u) /\ ~Making(u) /\ pc[u] # "delete" /\ ~SparedBy(u, i)
<1>1. call[t] \in CallType /\ call[t].kind \in {"create", "unlink"}
  BY KindsOf DEF Apart, KindFits, Kinds, Opens, Adding, Deleting, Truncating, Filling, Looking
<1>2. call[t].kind = "create" => Making(t)
  BY DEF Making
<1>3. i \in Allocated /\ i \in Inums /\ EntriesOf(i) = {}
      /\ (call[t].kind = "create" => Type(i) = "T_FILE" /\ Counter(i) = 1)
  <2>1. CASE call[t].kind = "create"
    BY <2>1, <1>2 DEF Apart, Plan, PlanOfMaking, Allocated, Deleting
  <2>2. CASE call[t].kind = "unlink"
    BY <2>2 DEF Apart, Plan, PlanOfUnlink, Allocated, Deleting
  <2> QED BY <1>1, <2>1, <2>2
<1>4. CASE call[t].kind = "create"
  <2>1. \A u \in Threads : u # t =>
           ~Changing(u) /\ ~Making(u) /\ pc[u] # "delete" /\ ~SparedBy(u, i)
    BY <1>3, <1>4, AddsAlone DEF Adders
  <2> QED BY <1>1, <1>2, <1>3, <2>1 DEF Changing
<1>5. CASE call[t].kind = "unlink"
  <2>1. \A u \in Threads : u # t => pc[u] = "idle"
    BY <1>5, UnlinkHolds DEF Deleting
  <2>2. \A u \in Threads : u # t =>
           ~Changing(u) /\ ~Making(u) /\ pc[u] # "delete" /\ ~SparedBy(u, i)
    BY <2>1 DEF Changing, Making, SparedBy, Adding, Lowering, Deleting
  <2> QED BY <1>1, <1>2, <1>3, <2>2 DEF Changing
<1> QED BY <1>1, <1>4, <1>5

LEMMA DeleteBlockKeeps ==
  ASSUME Apart, NEW t \in Threads, DeleteBlock(t)
  PROVE  Apart'
<1> USE DEF DeleteBlock, inodeVars, callVars, threadVars, pastVars
<1>1. PICK i : i = call[t].inum
  OBVIOUS
<1>2. pc[t] = "delete" /\ pc[t] \in Deleting
  BY DEF At, Deleting
<1>3. /\ call[t] \in CallType /\ call[t].kind \in {"create", "unlink"}
      /\ call[t].kind = "create" => Making(t) /\ Type(i) = "T_FILE" /\ Counter(i) = 1
      /\ i \in Allocated /\ i \in Inums /\ EntriesOf(i) = {} /\ Changing(t)
      /\ \A u \in Threads : u # t =>
            ~Changing(u) /\ ~Making(u) /\ pc[u] # "delete" /\ ~SparedBy(u, i)
  BY <1>1, <1>2, DeletesAlone
<1>4. /\ free_blocks' = BlocksWithoutDataOf(i)
      /\ GoTo(t, "freeInode") /\ UNCHANGED status
  BY <1>1, <1>3 DEF Allocated, InumOfCall
<1>5. Moves(t, "freeInode", call[t]) /\ "freeInode" \in Steps /\ LocksKept(t)
  BY <1>4, StepMoves, LockSteps DEF Apart, Steps
<1>6. pc'[t] = "freeInode" /\ call'[t] = call[t]
  BY <1>3, <1>5, Moved DEF Apart
<1>7. KindFits(t)'
  BY <1>3, <1>6 DEF KindFits, Deleting
<1>8. /\ ThreadTypes' /\ KindsApart' /\ \A u \in Threads : KindFits(u)'
      /\ \A u \in Threads : u # t => pc'[u] = pc[u] /\ call'[u] = call[u]
  <2>1. handle' \in [Threads -> Handles \cup {-1}]
    BY DEF Apart, ThreadTypes
  <2> QED BY <1>2, <1>3, <1>5, <1>7, <2>1, OthersStay
<1>9. UNCHANGED <<inode_table, freeinode_ts, dir_entries, lapses>>
  OBVIOUS
<1>10. /\ \A j : /\ Type(j)' = Type(j) /\ Counter(j)' = Counter(j)
                 /\ Size(j)' = Size(j) /\ Data(j)' = Data(j)
                 /\ EntriesOf(j)' = EntriesOf(j)
       /\ Allocated' = Allocated /\ SlotsUsed' = SlotsUsed
  BY <1>9, SameForPlans
<1>11. SparedBy(t, i)' /\ \A j : j # i => ~SparedBy(t, j) /\ ~SparedBy(t, j)'
  BY <1>1, <1>6 DEF SparedBy
<1>12. Spared(i)' /\ \A j : j # i => (Spared(j)' <=> Spared(j))
  BY <1>3, <1>8, <1>11, SparedKept DEF Spared
<1>13. BlocksApart' /\ free_blocks' \in [Blocks -> {FREE, TAKEN}]
  <2>1. CASE SparedBy(t, i)
    <3>1. call[t].kind = "unlink" /\ Type(i) = "T_SYMLINK" /\ Spared(i)
      BY <2>1, <1>2, <1>3 DEF SparedBy, Spared
    <3>2. free_blocks' = free_blocks
      <4>1. Size(i) > 0 => free_blocks[Data(i)] = FREE /\ Data(i) \in Blocks
        BY <3>1, <1>1, <1>2, <1>3 DEF Apart, Plan, PlanOfUnlink, BlocksApart
      <4>2. free_blocks \in [Blocks -> {FREE, TAKEN}]
        BY DEF Apart, Tables
      <4>3. PICK bnum : bnum = Data(i)
        OBVIOUS
      <4>4. Size(i) > 0 => free_blocks' = [free_blocks EXCEPT ![bnum] = FREE]
        BY <4>3, <1>4 DEF BlocksWithoutDataOf, Release, Size, Data
      <4>5. ~(Size(i) > 0) => free_blocks' = free_blocks
        BY <1>4 DEF BlocksWithoutDataOf, Size
      <4>6. Size(i) > 0 => free_blocks' = free_blocks
        BY <4>1, <4>2, <4>3, <4>4
      <4> QED BY <4>5, <4>6
    <3>3. Owners' = Owners
      BY <1>10 DEF Owners
    <3>4. BlockOwners' = BlockOwners
      BY <3>1, <3>3, <1>12 DEF BlockOwners, Owners
    <3> QED BY <3>2, <3>4, <1>10, BlocksKept DEF Apart, BlocksApart, Tables
  <2>2. CASE ~SparedBy(t, i)
    <3>1. ~Spared(i)
      BY <2>2, <1>3 DEF Spared
    <3>2. freeinode_ts[i] = TAKEN
      BY <1>3 DEF Allocated
    <3> QED BY <3>1, <3>2, <1>3, <1>4, <1>9, <1>12, BlockWithout DEF Apart
  <2> QED BY <2>1, <2>2
<1>14. Tables'
  BY <1>13 DEF Apart, Tables
<1>15. \A u \in Threads : u # t => Plan(u)'
  <2>1. CASE call[t].kind = "create"
    BY <2>1, <1>5, <1>8, <1>10, OpenersStay DEF Adders
  <2>2. CASE call[t].kind = "unlink"
    BY <2>2, <1>2, <1>8, IdlersStay
  <2> QED BY <1>3, <2>1, <2>2
<1>16. (Making(t)' <=> Making(t)) /\ Changing(t)' /\ ~Found(t)'
  BY <1>2, <1>6 DEF Making, Changing, Found, Deleting, Truncating, Clearing
<1>17. Plan(t)'
  <2>1. PlanOfOpen(t)'
    BY <1>6, <1>16 DEF PlanOfOpen, Truncating
  <2>2. PlanOfMaking(t)'
    <3>1. Making(t) => call[t].kind = "create"
      BY <1>3 DEF Making
    <3> QED BY <3>1, <1>1, <1>3, <1>6, <1>10, <1>16 DEF PlanOfMaking
  <2>3. PlanOfAdding(t)'
    BY <1>3, <1>6 DEF Apart, Plan, PlanOfAdding, Adding
  <2>4. PlanOfUnlink(t)'
    BY <1>1, <1>3, <1>6, <1>10 DEF PlanOfUnlink, Clearing, Deleting
  <2> QED BY <2>1, <2>2, <2>3, <2>4, <1>1, <1>3, <1>6, <1>10 DEF Plan, PlanOfLooking, Looking
<1>18. DirectoryApart'
  BY <1>10 DEF Apart, DirectoryApart
<1>19. CountersApart'
  <2>1. \A j : j # i /\ InHand(j) => InHand(j)'
    BY <1>1, <1>8, InHandKept
  <2>2. InHand(i)'
    BY <1>1, <1>6, <1>16 DEF InHand
  <2> QED BY <2>1, <2>2, <1>10, CountersKept DEF Apart
<1>20. HandlesApart'
  <2>1. \A u \in Threads : Making(u)' => Making(u) /\ call'[u].inum = call[u].inum
    BY <1>6, <1>8, <1>16 DEF Making
  <2> QED BY <2>1, <1>10, HandlesKept DEF Apart
<1>21. AppendsApart'
  <2>1. HasFile(t)' => HasFile(t)
    BY <1>6 DEF HasFile
  <2>2. pc'[t] # "addOpen" /\ pc'[t] \notin Filling
    BY <1>6 DEF Adding, Filling
  <2> QED BY <2>1, <2>2, <1>8, <1>10, AppendsSame
<1>22. status' = "mounted" /\ freeinode_ts'[ROOT_DIR_INUM] = TAKEN
  BY <1>4 DEF Apart
<1> QED BY <1>8, <1>13, <1>14, <1>15, <1>17, <1>18, <1>19, <1>20, <1>21, <1>22 DEF Apart

LEMMA FreeInodeKeeps ==
  ASSUME Apart, NEW t \in Threads, FreeInode(t)
  PROVE  Apart'
<1> USE DEF FreeInode, blockVars, pastVars
<1>1. PICK i : i = call[t].inum
  OBVIOUS
<1>2. pc[t] = "freeInode" /\ pc[t] \in Deleting
  BY DEF At, Deleting
<1>3. /\ call[t] \in CallType /\ call[t].kind \in {"create", "unlink"}
      /\ i \in Allocated /\ i \in Inums /\ EntriesOf(i) = {} /\ Changing(t)
      /\ \A u \in Threads : u # t =>
            ~Changing(u) /\ ~Making(u) /\ pc[u] # "delete" /\ ~SparedBy(u, i)
  BY <1>1, <1>2, DeletesAlone
<1>4. Moves(t, "idle", NoCall) /\ handle' = handle /\ "idle" \in Steps /\ LocksKept(t)
      /\ NoCall \in CallType /\ NoCall.kind = "none"
  BY NoCallType, LockSteps DEF Return, GoTo, Moves, Steps
<1>5. pc'[t] = "idle" /\ call'[t] = NoCall
  BY <1>4, Moved DEF Apart
<1>6. KindFits(t)'
  BY <1>4, <1>5 DEF KindFits
<1>7. /\ ThreadTypes' /\ KindsApart' /\ \A u \in Threads : KindFits(u)'
      /\ \A u \in Threads : u # t => pc'[u] = pc[u] /\ call'[u] = call[u]
  <2>1. handle' \in [Threads -> Handles \cup {-1}]
    BY <1>4 DEF Apart, ThreadTypes
  <2> QED BY <1>4, <1>6, <2>1, OthersStay
<1>8. /\ \A j : /\ Type(j)' = Type(j) /\ Counter(j)' = Counter(j)
                /\ Size(j)' = Size(j) /\ Data(j)' = Data(j)
                /\ EntriesOf(j)' = EntriesOf(j)
      /\ SlotsUsed' = SlotsUsed
  BY DEF Type, Counter, Size, Data, EntriesOf, SlotsUsed
<1>9. freeinode_ts' = [freeinode_ts EXCEPT ![i] = FREE]
  BY <1>1 DEF Release, InumOfCall
<1>10. /\ freeinode_ts'[i] = FREE /\ freeinode_ts' \in [Inums -> {FREE, TAKEN}]
       /\ \A j \in Inums : j # i => freeinode_ts'[j] = freeinode_ts[j]
  BY <1>3, <1>9 DEF Apart, Tables
<1>11. Allocated' = Allocated \ {i}
  BY <1>10 DEF Allocated, FREE, TAKEN
<1>12. /\ lapses \subseteq lapses' /\ lapses' \subseteq lapses \cup {"orphaned"}
       /\ FileIsOpen(i) => "orphaned" \in lapses'
  BY <1>1 DEF Lapse, InumOfCall
<1>13. Tables'
  BY <1>10, <1>12 DEF Apart, Tables, Lapses
<1>14. \A j \in Allocated : EntriesOf(j) # {} => j \in Allocated' /\ j # i
  BY <1>3, <1>11
<1>15. \A u \in Threads : u # t => Plan(u)'
  <2>1. CASE call[t].kind = "create"
    BY <2>1, <1>4, <1>7, <1>8, <1>14, OpenersStay DEF Adders
  <2>2. CASE call[t].kind = "unlink"
    BY <2>2, <1>2, <1>7, IdlersStay
  <2> QED BY <1>3, <2>1, <2>2
<1>16. ~Making(t)' /\ ~Changing(t)' /\ ~Found(t)'
  BY <1>5 DEF Making, Changing, Found, Truncating, Clearing, Adding, Lowering, Deleting
<1>17. Plan(t)'
  <2>1. PlanOfOpen(t)' /\ PlanOfMaking(t)'
    BY <1>5, <1>16 DEF PlanOfOpen, PlanOfMaking, Truncating
  <2>2. PlanOfAdding(t)' /\ PlanOfUnlink(t)'
    BY <1>4, <1>5 DEF PlanOfAdding, PlanOfUnlink, Adding
  <2> QED BY <2>1, <2>2, <1>4, <1>5, <1>16 DEF Plan, PlanOfLooking, Looking
<1>18. DirectoryApart'
  <2>1. \A s \in SlotsUsed : dir_entries[s].d_inumber # i
    BY <1>3 DEF EntriesOf, SlotsUsed
  <2> QED BY <2>1, <1>8, <1>11 DEF Apart, DirectoryApart
<1>19. CountersApart'
  <2>1. \A j : j # i /\ InHand(j) => InHand(j)'
    BY <1>1, <1>7, InHandKept
  <2>2. i \notin Allocated'
    BY <1>11
  <2> QED BY <2>1, <2>2, <1>8, <1>11, <1>12, CountersKept DEF Apart
<1>20. BlocksApart'
  <2>1. SparedBy(t, i) /\ \A j : j # i => ~SparedBy(t, j)
    BY <1>1, <1>2 DEF SparedBy
  <2>2. \A j : ~SparedBy(t, j)'
    BY <1>5 DEF SparedBy
  <2>3. \A j : j # i => (Spared(j)' <=> Spared(j))
    BY <2>1, <2>2, <1>7, <1>8, SparedKept
  <2>4. i \notin BlockOwners /\ i \notin Owners'
    BY <2>1, <1>10 DEF BlockOwners, Owners, Spared, FREE, TAKEN
  <2>5. \A j \in Inums : j # i => (j \in Owners' <=> j \in Owners)
    BY <1>8, <1>10 DEF Owners
  <2>6. BlockOwners' = BlockOwners
    BY <2>3, <2>4, <2>5 DEF BlockOwners, Owners
  <2> QED BY <2>6, <1>8, <1>12, BlocksKept DEF Apart, BlocksApart
<1>21. HandlesApart'
  <2>1. \A u \in Threads : ~Making(u)'
    BY <1>3, <1>7, <1>16 DEF Making
  <2> QED BY <2>1, <1>4, <1>11, <1>12, HandlesKept DEF Apart
<1>22. AppendsApart'
  <2>1. HasFile(t)' => HasFile(t)
    BY <1>4, <1>5 DEF HasFile, Opens
  <2>2. pc'[t] # "addOpen" /\ pc'[t] \notin Filling
    BY <1>5 DEF Adding, Filling
  <2>3. "overwritten" \in lapses' => "overwritten" \in lapses
    BY <1>12
  <2> QED BY <2>1, <2>2, <2>3, <1>4, <1>7, <1>8, <1>12, AppendsSame
<1>23. status' = "mounted" /\ freeinode_ts'[ROOT_DIR_INUM] = TAKEN
  <2>1. i # ROOT_DIR_INUM
    BY <1>3 DEF Allocated
  <2> QED BY <2>1, <1>10, Sizes DEF Apart
<1> QED BY <1>7, <1>13, <1>15, <1>17, <1>18, <1>19, <1>20, <1>21, <1>22, <1>23 DEF Apart

-----------------------------------------------------------------------------
(* tfs_write and tfs_close                                                 *)

\* A call made between the steps of the others changes none of theirs.
LEMMA CallsStay ==
  ASSUME Apart, UNCHANGED <<pc, call, lockVars>>,
         handle' \in [Threads -> Handles \cup {-1}]
  PROVE  /\ ThreadTypes' /\ KindsApart' /\ \A u \in Threads : KindFits(u)'
         /\ \A u \in Threads : (Making(u)' <=> Making(u)) /\ (Changing(u)' <=> Changing(u))
         /\ \A i : InHand(i)' <=> InHand(i)
<1>1. ThreadTypes'
  BY DEF Apart, ThreadTypes, lockVars, inodeLocks
<1>2. KindsApart' /\ \A u \in Threads : KindFits(u)'
  BY DEF Apart, KindsApart, KindFits, Idle
<1>3. \A u \in Threads : (Making(u)' <=> Making(u)) /\ (Changing(u)' <=> Changing(u))
  BY DEF Making, Changing
<1>4. \A i : InHand(i)' <=> InHand(i)
  BY <1>3 DEF InHand
<1> QED BY <1>1, <1>2, <1>3, <1>4

\* What a write that nobody's lock holds up writes to
LEMMA WritesAlone ==
  ASSUME Apart, apart', NEW t \in Threads, Write(t)
  PROVE  /\ pc[t] = "idle" /\ handle[t] \in Handles /\ IsOpen(handle[t])
         /\ InumOf(handle[t]) \in Inums
         /\ \A u \in Threads : call[u].kind # "unlink"
         /\ "orphaned" \notin lapses =>
               /\ InumOf(handle[t]) \in Allocated /\ ~Spared(InumOf(handle[t]))
               /\ \A u \in Threads : Making(u) => call[u].inum # InumOf(handle[t])
<1> USE DEF Write
<1>1. pc[t] = "idle"
  BY DEF CanCall, At
<1>2. handle[t] \in Handles /\ IsOpen(handle[t])
  BY DEF Apart, ThreadTypes, HandlesApart
<1>3. PICK i \in Inums : i = InumOf(handle[t])
  BY <1>2 DEF Apart, HandlesApart
<1>4. \A u \in Threads : call[u].kind # "unlink"
  <2> SUFFICES ASSUME NEW u \in Threads, call[u].kind = "unlink" PROVE FALSE
    OBVIOUS
  <2>1. u # t /\ pc[u] # "idle"
    BY <1>1 DEF Apart, KindFits
  <2>2. call[u].kind \in OtherCalls(t)
    BY <2>1 DEF OtherCalls, Idle
  <2>3. {"write", "unlink"} \notin Unsafe
    BY <2>2 DEF Overlap
  <2> QED BY <2>3, UnsafePairs
<1>5. ASSUME "orphaned" \notin lapses
      PROVE  /\ i \in Allocated /\ ~Spared(i)
             /\ \A u \in Threads : Making(u) => call[u].inum # i
  <2>1. i \in Allocated /\ \A u \in Threads : Making(u) => call[u].inum # i
    BY <1>2, <1>3, <1>5 DEF Apart, HandlesApart
  <2>2. ASSUME NEW u \in Threads, SparedBy(u, i) PROVE FALSE
    <3>1. call[u].inum = i /\ ~Making(u)
      BY <2>1, <2>2 DEF SparedBy
    <3>2. CASE pc[u] = "resetSize"
      <4>1. u \in readers[i]
        BY <3>1, <3>2 DEF Apart, Plan, PlanOfOpen, Truncating
      <4> QED BY <4>1, <1>3 DEF Unheld
    <3>3. CASE pc[u] # "resetSize"
      <4>1. pc[u] \in {"initInode", "freeInode", "delete"}
        BY <2>2, <3>3 DEF SparedBy
      <4>2. KindFits(u) /\ call[u].kind \in Kinds \cup {"none"}
        BY KindsOf DEF Apart
      <4>3. call[u].kind \in {"create", "symlink", "unlink"}
        BY <4>1, <4>2 DEF KindFits, Kinds, Opens, Truncating, Adding, Filling, Looking
      <4> QED BY <4>1, <4>3, <3>1, <1>4 DEF Making, Deleting
    <3> QED BY <3>2, <3>3
  <2> QED BY <2>1, <2>2 DEF Spared
<1> QED BY <1>1, <1>2, <1>3, <1>4, <1>5

\* What it leaves behind: the byte is at the offset, and the file as long.
LEMMA WrittenTables ==
  ASSUME Apart, NEW h \in Handles, IsOpen(h), OffsetOf(h) < BLOCK_SIZE, HasRoom(h),
         WriteAt(h, ToWrite(h, 1)), lapses' \subseteq Lapses,
         NEW i \in Inums, i = InumOf(h)
  PROVE  /\ Tables' /\ UNCHANGED <<freeinode_ts, dir_entries>>
         /\ \A j \in Inums : Type(j)' = Type(j) /\ Counter(j)' = Counter(j)
         /\ \A j \in Inums \ {i} : Size(j)' = Size(j) /\ Data(j)' = Data(j)
         /\ \A j \in Inums : Size(j) > 0 => Size(j)' > 0
         /\ Size(i)' > 0
         /\ Size(i) <= OffsetOf(h) => Size(i)' <= OffsetOf(h)'
         /\ \A j \in Handles : (IsOpen(j)' <=> IsOpen(j)) /\ InumOf(j)' = InumOf(j)
         /\ \E bnum \in Blocks :
              /\ Data(i)' = bnum
              /\ \/ /\ Size(i) > 0 /\ bnum = Data(i)
                    /\ free_blocks' = free_blocks
                 \/ /\ Size(i) = 0 /\ free_blocks[bnum] = FREE
                    /\ free_blocks' = Take(free_blocks, bnum)
<1>1. Tables /\ \A j \in Inums : Size(j) > 0 => Data(j) \in Blocks
  BY DEF Apart, BlocksApart
<1>2. PICK end : end = OffsetOf(h) + ToWrite(h, 1)
  OBVIOUS
<1>3. OffsetOf(h) \in Nat
  BY <1>1 DEF Tables, OffsetOf, HandleType
<1>4. end \in 1 .. BLOCK_SIZE /\ end = OffsetOf(h) + 1
  BY <1>2, <1>3, Sizes DEF ToWrite, Least
<1>5. SizeOf(h) = Size(i) /\ BlockOf(h) = Data(i) /\ Size(i) \in 0 .. BLOCK_SIZE
  BY <1>1 DEF SizeOf, BlockOf, Size, Data, Tables, InodeType
<1>6. PICK bnum \in Blocks :
        /\ bnum = WritesTo(h)
        /\ \/ /\ Size(i) > 0 /\ bnum = Data(i)
              /\ free_blocks' = free_blocks
           \/ /\ Size(i) = 0 /\ free_blocks[bnum] = FREE
              /\ free_blocks' = Take(free_blocks, bnum)
  <2>1. CASE Size(i) > 0
    <3>1. free_blocks' = free_blocks
      BY <2>1, <1>5 DEF WriteAt, BlocksAfterWrite
    <3> QED BY <2>1, <3>1, <1>1, <1>5 DEF WritesTo
  <2>2. CASE ~(Size(i) > 0)
    <3>1. Size(i) = 0 /\ CanAllocBlock
      BY <2>2, <1>5, Sizes DEF HasRoom
    <3>2. free_blocks' = Take(free_blocks, NextBlock)
      BY <3>1, <1>5 DEF WriteAt, BlocksAfterWrite
    <3> QED BY <3>1, <3>2, <1>1, <1>5, NextBlockIsFree DEF WritesTo
  <2> QED BY <2>1, <2>2
<1>7. PICK size : size = Greatest(SizeOf(h), end)
  OBVIOUS
<1>8. size \in 1 .. BLOCK_SIZE /\ (Size(i) <= OffsetOf(h) => size = end)
  BY <1>3, <1>4, <1>5, <1>7, Sizes DEF Greatest
<1>9. /\ inode_table' = [inode_table EXCEPT ![i].i_size = size, ![i].i_data_block = bnum]
      /\ open_file_table' = [open_file_table EXCEPT ![h].of_offset = end]
      /\ UNCHANGED <<freeinode_ts, dir_entries>>
  BY <1>2, <1>6, <1>7 DEF WriteAt
<1>10. PICK path \in Texts : text' = [text EXCEPT ![bnum] = path]
  BY <1>6, Sizes DEF WriteAt, TextAfterWrite
<1>11. inode_table[i] \in InodeType /\ size \in 0 .. BLOCK_SIZE /\ bnum \in Blocks \cup {-1}
  BY <1>1, <1>8, Sizes DEF Tables
<1>12. inode_table'[i] = [inode_table[i] EXCEPT !.i_size = size, !.i_data_block = bnum]
       /\ \A j \in Inums \ {i} : inode_table'[j] = inode_table[j]
  BY <1>1, <1>9 DEF Tables, InodeType
<1>13. inode_table' \in [Inums -> InodeType]
  <2>1. [inode_table[i] EXCEPT !.i_size = size, !.i_data_block = bnum] \in InodeType
    BY <1>11 DEF InodeType
  <2>2. DOMAIN inode_table' = Inums /\ inode_table' = [j \in Inums |-> inode_table'[j]]
    BY <1>1, <1>9 DEF Tables
  <2> QED BY <2>1, <2>2, <1>1, <1>12 DEF Tables
<1>14. /\ Type(i)' = Type(i) /\ Counter(i)' = Counter(i)
       /\ Size(i)' = size /\ Data(i)' = bnum
  BY <1>11, <1>12 DEF InodeType, Type, Counter, Size, Data
<1>15. \A j \in Inums \ {i} : /\ Type(j)' = Type(j) /\ Counter(j)' = Counter(j)
                              /\ Size(j)' = Size(j) /\ Data(j)' = Data(j)
  BY <1>12 DEF Type, Counter, Size, Data
<1>16. Size(i)' > 0
  BY <1>8, <1>14, Sizes
<1>17. open_file_table' \in [Handles -> HandleType]
       /\ open_file_table'[h].of_offset = end /\ open_file_table'[h].of_inumber = i
       /\ \A j \in Handles \ {h} : open_file_table'[j] = open_file_table[j]
  <2>1. end \in Nat
    BY <1>4, Sizes
  <2> QED BY <2>1, <1>1, <1>9 DEF Tables, HandleType, InumOf
<1>18. \A j \in Handles : (IsOpen(j)' <=> IsOpen(j)) /\ InumOf(j)' = InumOf(j)
  <2>1. i # -1 /\ Closed.of_inumber = -1
    BY Sizes DEF Closed
  <2>2. IsOpen(h)' /\ InumOf(h)' = i
    BY <2>1, <1>17 DEF IsOpen, InumOf
  <2> QED BY <2>2, <1>17 DEF IsOpen, InumOf
<1>19. Size(i) <= OffsetOf(h) => Size(i)' <= OffsetOf(h)'
  <2>1. OffsetOf(h)' = end
    BY <1>17 DEF OffsetOf
  <2> QED BY <2>1, <1>4, <1>8, <1>14, Sizes
<1>20. Tables'
  <2>1. free_blocks' \in [Blocks -> {FREE, TAKEN}]
    BY <1>1, <1>6 DEF Tables, Take
  <2>2. text' \in [Blocks -> Texts]
    BY <1>1, <1>10 DEF Tables
  <2> QED BY <2>1, <2>2, <1>1, <1>9, <1>13, <1>17 DEF Tables
<1> QED BY <1>6, <1>9, <1>14, <1>15, <1>16, <1>18, <1>19, <1>20

LEMMA ThreadWriteKeeps ==
  ASSUME Apart, apart', NEW t \in Threads, Write(t)
  PROVE  Apart'
<1>1. UNCHANGED <<status, pc, call, handle, lockVars, shared>>
  BY DEF Write
<1>2. PICK h \in Handles : h = handle[t] /\ IsOpen(h)
  BY WritesAlone
<1>3. PICK i \in Inums : i = InumOf(h)
  BY <1>2, WritesAlone
<1>4. /\ pc[t] = "idle" /\ \A u \in Threads : call[u].kind # "unlink"
      /\ "orphaned" \notin lapses =>
            /\ i \in Allocated /\ ~Spared(i)
            /\ \A u \in Threads : Making(u) => call[u].inum # i
  BY <1>2, <1>3, WritesAlone
<1>5. /\ lapses \subseteq lapses' /\ lapses' \subseteq Lapses
      /\ "spilled" \in lapses' <=> "spilled" \in lapses
      /\ "orphaned" \in lapses' <=> "orphaned" \in lapses
      /\ SizeOf(h) <= OffsetOf(h) => lapses' = lapses
  <2>1. IF OffsetOf(h) < SizeOf(h) THEN lapses' = lapses \cup {"overwritten"}
                                   ELSE lapses' = lapses
    BY <1>2 DEF Write, Lapse
  <2>2. lapses \subseteq Lapses /\ "overwritten" \in Lapses
    BY DEF Apart, Tables, Lapses
  <2>3. OffsetOf(h) \in Nat /\ SizeOf(h) \in Nat
    <3>1. OffsetOf(h) \in Nat
      BY DEF Apart, Tables, OffsetOf, HandleType
    <3>2. inode_table[i] \in InodeType
      BY DEF Apart, Tables
    <3> QED BY <3>1, <3>2, <1>3, Sizes DEF SizeOf, InodeType
  <2> QED BY <2>1, <2>2, <2>3
<1>6. OffsetOf(h) < BLOCK_SIZE /\ HasRoom(h) /\ WriteAt(h, ToWrite(h, 1))
  BY <1>2 DEF Write
<1>7. /\ Tables' /\ UNCHANGED <<freeinode_ts, dir_entries>>
      /\ \A j \in Inums : Type(j)' = Type(j) /\ Counter(j)' = Counter(j)
      /\ \A j \in Inums \ {i} : Size(j)' = Size(j) /\ Data(j)' = Data(j)
      /\ \A j \in Inums : Size(j) > 0 => Size(j)' > 0
      /\ Size(i)' > 0
      /\ Size(i) <= OffsetOf(h) => Size(i)' <= OffsetOf(h)'
      /\ \A j \in Handles : (IsOpen(j)' <=> IsOpen(j)) /\ InumOf(j)' = InumOf(j)
  BY <1>2, <1>3, <1>5, <1>6, WrittenTables
<1>8. PICK bnum \in Blocks :
         /\ Data(i)' = bnum
         /\ \/ /\ Size(i) > 0 /\ bnum = Data(i)
               /\ free_blocks' = free_blocks
            \/ /\ Size(i) = 0 /\ free_blocks[bnum] = FREE
               /\ free_blocks' = Take(free_blocks, bnum)
  BY <1>2, <1>3, <1>5, <1>6, WrittenTables
<1>9. /\ ThreadTypes' /\ KindsApart' /\ \A u \in Threads : KindFits(u)'
      /\ \A u \in Threads : Making(u)' <=> Making(u)
      /\ \A j : InHand(j)' <=> InHand(j)
  <2>1. handle' \in [Threads -> Handles \cup {-1}]
    BY <1>1 DEF Apart, ThreadTypes
  <2> QED BY <2>1, <1>1, CallsStay
<1>10. /\ Allocated' = Allocated /\ SlotsUsed' = SlotsUsed
       /\ \A j : EntriesOf(j)' = EntriesOf(j)
       /\ \A j \in Allocated : j \in Inums
  BY <1>7 DEF Allocated, SlotsUsed, EntriesOf
<1>11. \A u \in Threads : Plan(u)'
  <2> SUFFICES ASSUME NEW u \in Threads PROVE Plan(u)'
    OBVIOUS
  <2>1. PICK j : j = call[u].inum
    OBVIOUS
  <2>2. readers' = readers /\ pc'[u] = pc[u] /\ call'[u] = call[u]
    BY <1>1 DEF lockVars, inodeLocks
  <2>3. Making(u) /\ Size(j) = 0 /\ j \in Inums =>
           Size(j)' = 0 \/ "orphaned" \in lapses'
    BY <2>1, <1>4, <1>5, <1>7
  <2>4. call[u].inum \in Inums =>
            /\ Type(call[u].inum)' = Type(call[u].inum)
            /\ Counter(call[u].inum)' = Counter(call[u].inum)
            /\ Size(call[u].inum) > 0 => Size(call[u].inum)' > 0
            /\ pc[u] = "linkBlock" /\ Making(u) /\ Size(call[u].inum) = 0 =>
                 Size(call[u].inum)' = 0 \/ "orphaned" \in lapses'
            /\ u \in readers[call[u].inum] => u \in readers'[call[u].inum]
    BY <2>1, <2>2, <2>3, <1>1, <1>7
  <2>5. Plan(u) /\ call[u].kind # "unlink"
    BY <1>4 DEF Apart
  <2> QED BY <2>2, <2>4, <2>5, <1>5, <1>7, PlanKept
<1>12. DirectoryApart'
  BY <1>7, <1>10 DEF Apart, DirectoryApart
<1>13. CountersApart'
  <2>1. -1 \notin Allocated'
    BY <1>10, Sizes
  <2> QED BY <2>1, <1>5, <1>7, <1>9, <1>10, CountersKept DEF Apart
<1>14. BlocksApart'
  <2>1. \A j \in Inums : Spared(j)' <=> Spared(j)
    BY <1>1, <1>7 DEF Spared, SparedBy
  <2>2. \A j \in Inums \ {i} : j \in BlockOwners' <=> j \in BlockOwners
    BY <2>1, <1>7 DEF BlockOwners, Owners
  <2>3. BlockOwners' \subseteq Inums /\ BlockOwners \subseteq Inums
    BY DEF BlockOwners, Owners
  <2>4. i \in BlockOwners => i \in BlockOwners' /\ Size(i) > 0
    BY <2>1, <1>7 DEF BlockOwners, Owners
  <2>5. "orphaned" \notin lapses => i \in BlockOwners'
    BY <2>1, <1>4, <1>7 DEF BlockOwners, Owners, Allocated
  <2>6. CASE Size(i) = 0
    <3>1. /\ i \notin BlockOwners /\ bnum \in Blocks /\ free_blocks[bnum] = FREE
          /\ free_blocks' = Take(free_blocks, bnum)
      BY <2>4, <2>6, <1>8
    <3>2. \/ BlockOwners' = BlockOwners \cup {i}
          \/ BlockOwners' = BlockOwners /\ "orphaned" \in lapses'
      <4>1. CASE i \in BlockOwners'
        BY <4>1, <2>2, <2>3
      <4>2. CASE i \notin BlockOwners'
        BY <4>2, <2>2, <2>3, <2>5, <3>1, <1>5
      <4> QED BY <4>1, <4>2
    <3>3. \A j \in Inums : j # i => Data(j)' = Data(j) /\ (Size(j)' > 0 => Size(j) > 0)
      BY <1>7
    <3> QED BY <3>1, <3>2, <3>3, <1>5, <1>8, BlockTaken DEF Apart
  <2>7. CASE Size(i) # 0
    <3>1. Size(i) > 0 /\ bnum = Data(i) /\ free_blocks' = free_blocks
      BY <2>7, <1>8
    <3>2. BlockOwners' = BlockOwners
      <4>1. i \in BlockOwners' => i \in BlockOwners
        BY <2>1, <3>1, <1>7 DEF BlockOwners, Owners
      <4> QED BY <4>1, <2>2, <2>3, <2>4
    <3>3. \A j \in Inums : Data(j)' = Data(j) /\ (Size(j)' > 0 => Size(j) > 0)
      BY <3>1, <1>7, <1>8
    <3>4. \A j \in Inums : Size(j)' > 0 => Data(j)' \in Blocks
      BY <3>3 DEF Apart, BlocksApart
    <3> QED BY <3>1, <3>2, <3>3, <3>4, <2>3, <1>5, BlocksKept DEF Apart
  <2> QED BY <2>6, <2>7
<1>15. HandlesApart'
  <2>1. \A j \in Handles : IsOpen(j) =>
          /\ InumOf(j) \in Inums
          /\ "orphaned" \notin lapses =>
               /\ InumOf(j) \in Allocated
               /\ \A u \in Threads : Making(u) => call[u].inum # InumOf(j)
    BY DEF Apart, HandlesApart
  <2>2. \A j \in Handles : IsOpen(j)' =>
          /\ InumOf(j)' \in Inums
          /\ "orphaned" \notin lapses' =>
               /\ InumOf(j)' \in Allocated'
               /\ \A u \in Threads : Making(u)' => call'[u].inum # InumOf(j)'
    BY <2>1, <1>1, <1>5, <1>7, <1>9, <1>10
  <2>3. \A u \in Threads : handle'[u] # -1 => IsOpen(handle[u])'
    <3> SUFFICES ASSUME NEW u \in Threads, handle[u] # -1 PROVE IsOpen(handle[u])'
      BY <1>1
    <3>1. PICK j \in Handles : j = handle[u] /\ j = handle'[u] /\ IsOpen(j)
      BY <1>1 DEF Apart, ThreadTypes, HandlesApart
    <3>2. IsOpen(j)'
      BY <3>1, <1>7
    <3> QED BY <3>1, <3>2 DEF IsOpen
  <2>4. \A u, v \in Threads : u # v /\ handle'[u] # -1 => handle'[u] # handle'[v]
    BY <1>1 DEF Apart, HandlesApart
  <2> QED BY <2>2, <2>3, <2>4 DEF HandlesApart
<1>16. AppendsApart'
  <2> SUFFICES ASSUME ~shared, "orphaned" \notin lapses
               PROVE  AppendsApart'
    BY <1>1, <1>5 DEF AppendsApart
  <2>1. /\ "overwritten" \notin lapses
        /\ \A u, v \in Threads : HasFile(u) /\ HasFile(v) => u = v
        /\ \A u \in Threads : handle[u] # -1 => SizeOf(handle[u]) <= OffsetOf(handle[u])
    BY DEF Apart, AppendsApart
  <2>2. \A u \in Threads : HasFile(u) => u = t
    <3>1. HasFile(t)
      BY DEF HasFile, Write
    <3> QED BY <3>1, <2>1
  <2>3. SizeOf(h) <= OffsetOf(h)
    BY <2>1, <1>2 DEF Write
  <2>4. Size(i) <= OffsetOf(h)
    BY <2>3, <1>3 DEF SizeOf, Size
  <2>5. Size(i)' <= OffsetOf(h)' /\ "overwritten" \notin lapses'
    BY <2>1, <2>3, <2>4, <1>5, <1>7
  <2>6. \A u, v \in Threads : HasFile(u)' /\ HasFile(v)' => u = v
    BY <2>1, <1>1 DEF HasFile
  <2>7. ASSUME NEW u \in Threads, handle'[u] # -1
        PROVE  SizeOf(handle[u])' <= OffsetOf(handle[u])'
    <3>1. u = t
      BY <2>2, <2>7, <1>1 DEF HasFile
    <3>2. handle'[u] = h
      BY <3>1, <1>1, <1>2
    <3>3. InumOf(h)' = i
      BY <1>3, <1>7
    <3>4. SizeOf(h)' = Size(i)'
      BY <3>3 DEF SizeOf, Size, InumOf
    <3> QED BY <3>2, <3>4, <2>5 DEF SizeOf, OffsetOf, InumOf
  <2>8. \A u \in Threads : pc[u] = "idle" \/ call[u].kind \notin Opens
    BY <2>2, <1>4 DEF HasFile
  <2>9. \A u \in Threads : pc[u] # "addOpen" /\ (call[u].kind = "create" => pc[u] = "idle")
    <3> SUFFICES ASSUME NEW u \in Threads
                 PROVE  pc[u] # "addOpen" /\ (call[u].kind = "create" => pc[u] = "idle")
      OBVIOUS
    <3>1. KindFits(u) /\ call[u].kind \in Kinds \cup {"none"}
      BY KindsOf DEF Apart
    <3>2. call[u].kind = "create" => pc[u] = "idle"
      BY <2>8 DEF Opens
    <3>3. ASSUME pc[u] = "addOpen" PROVE FALSE
      <4>1. call[u].kind \in Opens
        BY <3>1, <3>3 DEF KindFits, Kinds, Opens, Adding, Deleting, Clearing, Lowering, Filling, Looking
      <4> QED BY <4>1, <3>3, <2>8
    <3> QED BY <3>2, <3>3
  <2>10. \A u \in Threads : pc'[u] # "addOpen" /\ (call'[u].kind = "create" => pc'[u] \notin Filling)
    BY <2>9, <1>1 DEF Adding, Filling
  <2> QED BY <2>5, <2>6, <2>7, <2>10 DEF AppendsApart
<1>17. status' = "mounted" /\ freeinode_ts'[ROOT_DIR_INUM] = TAKEN
  BY <1>1, <1>7 DEF Apart
<1> QED BY <1>7, <1>9, <1>11, <1>12, <1>13, <1>14, <1>15, <1>16, <1>17 DEF Apart

\* When nothing but open file entries changes, the rest stays apart.
LEMMA OnlyHandles ==
  ASSUME Apart, UNCHANGED <<status, inodeVars, dir_entries, blockVars, lapses, pc, call,
                            lockVars>>,
         open_file_table' \in [Handles -> HandleType],
         handle' \in [Threads -> Handles \cup {-1}], HandlesApart', AppendsApart'
  PROVE  Apart'
<1> USE DEF inodeVars, blockVars
<1>1. /\ ThreadTypes' /\ KindsApart' /\ \A u \in Threads : KindFits(u)'
      /\ \A j : InHand(j)' <=> InHand(j)
  BY CallsStay
<1>2. /\ \A j : /\ Type(j)' = Type(j) /\ Counter(j)' = Counter(j)
                /\ Size(j)' = Size(j) /\ Data(j)' = Data(j)
                /\ EntriesOf(j)' = EntriesOf(j)
      /\ Allocated' = Allocated /\ SlotsUsed' = SlotsUsed
  BY SameForPlans
<1>3. Tables'
  BY DEF Apart, Tables
<1>4. \A u \in Threads : Plan(u)'
  <2> SUFFICES ASSUME NEW u \in Threads PROVE Plan(u)'
    OBVIOUS
  <2>1. readers' = readers /\ pc'[u] = pc[u] /\ call'[u] = call[u]
        /\ UNCHANGED <<dir_entries, freeinode_ts, inode_table, free_blocks, lapses>>
    BY DEF lockVars, inodeLocks
  <2>2. Plan(u)
    BY DEF Apart
  <2> QED BY <2>1, <2>2, <1>2, PlanKept
<1>5. DirectoryApart'
  BY <1>2 DEF Apart, DirectoryApart
<1>6. CountersApart'
  <2>1. -1 \notin Allocated'
    BY <1>2, Sizes DEF Allocated
  <2> QED BY <2>1, <1>1, <1>2, CountersKept DEF Apart
<1>7. BlocksApart'
  <2>1. \A j : Spared(j)' <=> Spared(j)
    BY <1>2 DEF Spared, SparedBy
  <2>2. BlockOwners' = BlockOwners
    BY <2>1, <1>2 DEF BlockOwners, Owners
  <2> QED BY <2>2, <1>2, BlocksKept DEF Apart, BlocksApart
<1>8. status' = "mounted" /\ freeinode_ts'[ROOT_DIR_INUM] = TAKEN
  BY DEF Apart
<1> QED BY <1>1, <1>3, <1>4, <1>5, <1>6, <1>7, <1>8 DEF Apart

LEMMA ThreadCloseKeeps ==
  ASSUME Apart, NEW t \in Threads, Close(t)
  PROVE  Apart'
<1> USE DEF Close, inodeVars, blockVars, callVars, pastVars
<1>1. PICK h \in Handles : h = handle[t] /\ h # -1
  BY DEF Apart, ThreadTypes
<1>2. /\ handle' \in [Threads -> Handles \cup {-1}]
      /\ handle'[t] = -1 /\ \A u \in Threads : u # t => handle'[u] = handle[u]
  BY DEF Apart, ThreadTypes
<1>3. /\ open_file_table' \in [Handles -> HandleType]
      /\ \A j \in Handles : IsOpen(j)' => IsOpen(j) /\ InumOf(j)' = InumOf(j)
  BY <1>1, RemovedHandle DEF Apart
<1>4. \A j \in Handles \ {h} : open_file_table'[j] = open_file_table[j]
  BY <1>1 DEF Apart, Tables, remove_from_open_file_table
<1>5. /\ Allocated' = Allocated
      /\ \A u \in Threads : Making(u)' <=> Making(u)
  BY <1>2, CallsStay DEF Allocated
<1>6. \A u \in Threads : handle'[u] # -1 =>
         /\ u # t /\ handle'[u] = handle[u]
         /\ handle[u] \in Handles \ {h} /\ IsOpen(handle[u])
  BY <1>1, <1>2 DEF Apart, ThreadTypes, HandlesApart
<1>7. HandlesApart'
  <2>1. \A j \in Handles : IsOpen(j) =>
          /\ InumOf(j) \in Inums
          /\ "orphaned" \notin lapses =>
               /\ InumOf(j) \in Allocated
               /\ \A u \in Threads : Making(u) => call[u].inum # InumOf(j)
    BY DEF Apart, HandlesApart
  <2>2. \A j \in Handles : IsOpen(j)' =>
          /\ InumOf(j)' \in Inums
          /\ "orphaned" \notin lapses' =>
               /\ InumOf(j)' \in Allocated'
               /\ \A u \in Threads : Making(u)' => call'[u].inum # InumOf(j)'
    BY <2>1, <1>3, <1>5
  <2>3. \A u \in Threads : handle'[u] # -1 => IsOpen(handle[u])'
    BY <1>4, <1>6 DEF IsOpen
  <2>4. \A u, v \in Threads : u # v /\ handle'[u] # -1 => handle'[u] # handle'[v]
    BY <1>2, <1>6 DEF Apart, HandlesApart
  <2> QED BY <2>2, <2>3, <2>4 DEF HandlesApart
<1>8. AppendsApart'
  <2> SUFFICES ASSUME ~shared, "orphaned" \notin lapses
               PROVE  AppendsApart'
    BY DEF AppendsApart
  <2>1. /\ "overwritten" \notin lapses
        /\ \A u, v \in Threads : HasFile(u) /\ HasFile(v) => u = v
        /\ \A u \in Threads : handle[u] # -1 => SizeOf(handle[u]) <= OffsetOf(handle[u])
        /\ \A u \in Threads : pc[u] = "addOpen" => Size(call[u].inum) <= call[u].offset
        /\ \A u \in Threads : call[u].kind = "create" /\ pc[u] \in Filling =>
                                 Size(call[u].inum) = 0
    BY DEF Apart, AppendsApart
  <2>2. \A u \in Threads : HasFile(u)' => HasFile(u)
    BY <1>6 DEF HasFile
  <2>3. \A u \in Threads : handle'[u] = -1
    <3>1. HasFile(t)
      BY DEF HasFile
    <3>2. \A u \in Threads : u # t => handle[u] = -1
      BY <3>1, <2>1 DEF HasFile
    <3> QED BY <3>2, <1>2
  <2>4. \A u \in Threads : pc'[u] = "addOpen" => Size(call[u].inum)' <= call'[u].offset
    BY <2>1 DEF Size
  <2>5. \A u \in Threads : call'[u].kind = "create" /\ pc'[u] \in Filling =>
                              Size(call[u].inum)' = 0
    BY <2>1 DEF Size
  <2> QED BY <2>1, <2>2, <2>3, <2>4, <2>5 DEF AppendsApart
<1> QED BY <1>2, <1>3, <1>7, <1>8, OnlyHandles

\* Nothing happens.
LEMMA StutterKeeps ==
  ASSUME Apart, UNCHANGED allVars
  PROVE  Apart'
<1> USE DEF allVars, tfsVars, threadVars, pastVars, callVars
<1>1. HandlesApart'
  BY DEF Apart, HandlesApart, IsOpen, InumOf, Making, Allocated, inodeVars
<1>2. AppendsApart'
  BY DEF Apart, AppendsApart, HasFile, SizeOf, OffsetOf, InumOf, Size, inodeVars
<1>3. open_file_table' \in [Handles -> HandleType] /\ handle' \in [Threads -> Handles \cup {-1}]
  BY DEF Apart, Tables, ThreadTypes
<1> QED BY <1>1, <1>2, <1>3, OnlyHandles

-----------------------------------------------------------------------------
(* The initial states                                                      *)

FilledInode(type, size, bnum) ==
    [NewInode(type) EXCEPT !.i_size = size, !.i_data_block = bnum]

LEMMA InodeWithData ==
  ASSUME NEW type \in {"T_FILE", "T_SYMLINK"}, NEW size \in 0 .. BLOCK_SIZE,
         NEW bnum \in Blocks \cup {-1}, NEW r, r = FilledInode(type, size, bnum)
  PROVE  /\ r \in InodeType /\ r.i_node_type = type /\ r.i_size = size
         /\ r.i_data_block = bnum /\ r.i_link_counter = 1
<1>1. PICK blank : blank = NewInode(type)
  OBVIOUS
<1>2. blank \in InodeType /\ blank.i_node_type = type /\ blank.i_link_counter = 1
  <2>1. 0 \in 0 .. BLOCK_SIZE
    BY Sizes
  <2> QED BY <1>1, <2>1 DEF NewInode, InodeType
<1>3. r = [blank EXCEPT !.i_size = size, !.i_data_block = bnum]
  BY <1>1 DEF FilledInode
<1> QED BY <1>2, <1>3 DEF InodeType

\* The inodes as the tests set them up: root, a file, perhaps a link to it
LEMMA InodesAtStart ==
  ASSUME NEW size \in {0, 1}, NEW link \in {"none", "hard", "symbolic"},
         inode_table = [i \in Inums |->
            CASE i = ROOT_DIR_INUM -> [i_node_type |-> "T_DIRECTORY", i_size |-> BLOCK_SIZE,
                                       i_data_block |-> RootBlock, i_link_counter |-> 1]
              [] i = 1 -> [File(size, IF size = 1 THEN 1 ELSE -1) EXCEPT
                              !.i_link_counter = IF link = "hard" THEN 2 ELSE 1]
              [] i = 2 /\ link = "symbolic" -> NewSymlink(2)
              [] OTHER -> NewInode("T_FILE")]
  PROVE  /\ {0, 1, 2} \subseteq Inums /\ {0, 1, 2} \subseteq Blocks /\ {0, 1} \subseteq Slots
         /\ inode_table \in [Inums -> InodeType]
         /\ Size(0) = BLOCK_SIZE /\ Data(0) = 0
         /\ Type(1) = "T_FILE" /\ Size(1) = size /\ (size = 1 => Data(1) = 1)
         /\ Counter(1) = IF link = "hard" THEN 2 ELSE 1
         /\ link = "symbolic" =>
               Type(2) = "T_SYMLINK" /\ Size(2) = 1 /\ Data(2) = 2 /\ Counter(2) = 1
         /\ \A i \in Inums : i \notin {0, 1} /\ ~(i = 2 /\ link = "symbolic") => Size(i) = 0
<1>1. {0, 1, 2} \subseteq Inums /\ {0, 1, 2} \subseteq Blocks /\ {0, 1} \subseteq Slots
  BY Sizes, ThreadsAssumption, SMTT(40) DEF ThreadsAssumption, Inums, Blocks, Slots
<1>2. inode_table[0] = [i_node_type |-> "T_DIRECTORY", i_size |-> BLOCK_SIZE,
                        i_data_block |-> 0, i_link_counter |-> 1]
  BY <1>1 DEF ROOT_DIR_INUM, RootBlock
<1>3. size \in 0 .. BLOCK_SIZE /\ 0 \in 0 .. BLOCK_SIZE /\ BLOCK_SIZE \in 0 .. BLOCK_SIZE
      /\ TextSize \in 0 .. BLOCK_SIZE /\ TextSize = 1
  BY Sizes DEF TextSize
<1>4. PICK bnum : bnum = IF size = 1 THEN 1 ELSE -1
  OBVIOUS
<1>5. bnum \in Blocks \cup {-1}
  BY <1>1, <1>4
<1>6. PICK file : file = FilledInode("T_FILE", size, bnum)
  OBVIOUS
<1>7. /\ file \in InodeType /\ file.i_node_type = "T_FILE"
      /\ file.i_size = size /\ file.i_data_block = bnum
  BY <1>3, <1>5, <1>6, InodeWithData
<1>8. inode_table[1] = [file EXCEPT !.i_link_counter = IF link = "hard" THEN 2 ELSE 1]
  BY <1>1, <1>4, <1>6 DEF ROOT_DIR_INUM, File, FilledInode
<1>9. /\ inode_table[1] \in InodeType /\ inode_table[1].i_node_type = "T_FILE"
      /\ inode_table[1].i_size = size /\ inode_table[1].i_data_block = bnum
      /\ inode_table[1].i_link_counter = IF link = "hard" THEN 2 ELSE 1
  BY <1>7, <1>8 DEF InodeType
<1>10. link = "symbolic" =>
         /\ inode_table[2] \in InodeType /\ inode_table[2].i_node_type = "T_SYMLINK"
         /\ inode_table[2].i_size = 1 /\ inode_table[2].i_data_block = 2
         /\ inode_table[2].i_link_counter = 1
  <2>1. PICK b2 \in Blocks \cup {-1} : b2 = 2
    BY <1>1
  <2>2. PICK r : r = FilledInode("T_SYMLINK", TextSize, b2)
    OBVIOUS
  <2>3. /\ r \in InodeType /\ r.i_node_type = "T_SYMLINK" /\ r.i_size = 1
        /\ r.i_data_block = 2 /\ r.i_link_counter = 1
    BY <1>3, <2>1, <2>2, InodeWithData
  <2>4. link = "symbolic" => inode_table[2] = r
    BY <1>1, <2>1, <2>2 DEF ROOT_DIR_INUM, NewSymlink, FilledInode
  <2> QED BY <2>3, <2>4
<1>11. \A i \in Inums : i \notin {0, 1} /\ ~(i = 2 /\ link = "symbolic") =>
         inode_table[i] = [i_node_type |-> "T_FILE", i_size |-> 0,
                           i_data_block |-> -1, i_link_counter |-> 1]
  BY DEF ROOT_DIR_INUM, NewInode
<1>12. inode_table \in [Inums -> InodeType]
  <2>1. \A i \in Inums : inode_table[i] \in InodeType
    <3> SUFFICES ASSUME NEW i \in Inums PROVE inode_table[i] \in InodeType
      OBVIOUS
    <3>1. CASE i = 0
      <4>1. 0 \in Blocks \cup {-1}
        BY <1>1
      <4> QED BY <3>1, <4>1, <1>2, <1>3 DEF InodeType
    <3>2. CASE i = 1
      BY <3>2, <1>9
    <3>3. CASE i = 2 /\ link = "symbolic"
      BY <3>3, <1>10
    <3>4. CASE i \notin {0, 1} /\ ~(i = 2 /\ link = "symbolic")
      BY <3>4, <1>11, <1>3 DEF InodeType
    <3> QED BY <3>1, <3>2, <3>3, <3>4
  <2> QED BY <2>1
<1>13. Size(0) = BLOCK_SIZE /\ Data(0) = 0
  BY <1>2 DEF Size, Data
<1>14. /\ Type(1) = "T_FILE" /\ Size(1) = size /\ (size = 1 => Data(1) = 1)
       /\ Counter(1) = IF link = "hard" THEN 2 ELSE 1
  BY <1>4, <1>9 DEF Type, Size, Data, Counter
<1>15. link = "symbolic" =>
          Type(2) = "T_SYMLINK" /\ Size(2) = 1 /\ Data(2) = 2 /\ Counter(2) = 1
  BY <1>10 DEF Type, Size, Data, Counter
<1>16. \A i \in Inums : i \notin {0, 1} /\ ~(i = 2 /\ link = "symbolic") => Size(i) = 0
  BY <1>11 DEF Size
<1> QED BY <1>1, <1>12, <1>13, <1>14, <1>15, <1>16

LEMMA InitIsApart ==
  ASSUME ThreadsInit
  PROVE  Apart
<1>1. PICK x \in Names \ LongNames, y \in Names \ LongNames,
           link \in {"none", "hard", "symbolic"}, size \in {0, 1} :
      /\ x # y
      /\ status = "mounted"
      /\ inode_table = [i \in Inums |->
            CASE i = ROOT_DIR_INUM -> [i_node_type |-> "T_DIRECTORY", i_size |-> BLOCK_SIZE,
                                       i_data_block |-> RootBlock, i_link_counter |-> 1]
              [] i = 1 -> [File(size, IF size = 1 THEN 1 ELSE -1) EXCEPT
                              !.i_link_counter = IF link = "hard" THEN 2 ELSE 1]
              [] i = 2 /\ link = "symbolic" -> NewSymlink(2)
              [] OTHER -> NewInode("T_FILE")]
      /\ freeinode_ts = [i \in Inums |->
            IF i \in {0, 1} \/ (i = 2 /\ link = "symbolic") THEN TAKEN ELSE FREE]
      /\ dir_entries = [s \in Slots |->
            CASE s = 0 -> [d_name |-> x, d_inumber |-> 1]
              [] s = 1 /\ link = "hard"     -> [d_name |-> y, d_inumber |-> 1]
              [] s = 1 /\ link = "symbolic" -> [d_name |-> y, d_inumber |-> 2]
              [] OTHER -> Unused]
      /\ text = [b \in Blocks |-> IF b = 2 /\ link = "symbolic" THEN x ELSE Garbled]
      /\ free_blocks = [b \in Blocks |->
            IF b = 0 \/ (b = 1 /\ size = 1) \/ (b = 2 /\ link = "symbolic")
            THEN TAKEN ELSE FREE]
      /\ open_file_table = [h \in Handles |-> Closed]
      /\ copying = -1 /\ lapses = {}
      /\ pc = [t \in Threads |-> "idle"]
      /\ call = [t \in Threads |-> NoCall]
      /\ handle = [t \in Threads |-> -1]
      /\ calls = [t \in Threads |-> 0]
      /\ readers = [i \in Inums |-> {}]
      /\ writer = [i \in Inums |-> NoThread]
      /\ dirLock = NoThread
      /\ apart = TRUE /\ shared = FALSE
  BY DEF ThreadsInit
<1>2. /\ {0, 1, 2} \subseteq Inums /\ {0, 1, 2} \subseteq Blocks /\ {0, 1} \subseteq Slots
      /\ inode_table \in [Inums -> InodeType]
      /\ Size(0) = BLOCK_SIZE /\ Data(0) = 0
      /\ Type(1) = "T_FILE" /\ Size(1) = size /\ (size = 1 => Data(1) = 1)
      /\ Counter(1) = IF link = "hard" THEN 2 ELSE 1
      /\ link = "symbolic" =>
            Type(2) = "T_SYMLINK" /\ Size(2) = 1 /\ Data(2) = 2 /\ Counter(2) = 1
      /\ \A i \in Inums : i \notin {0, 1} /\ ~(i = 2 /\ link = "symbolic") => Size(i) = 0
  BY <1>1, InodesAtStart
<1>3. /\ dir_entries[0] = [d_name |-> x, d_inumber |-> 1]
      /\ link = "hard" => dir_entries[1] = [d_name |-> y, d_inumber |-> 1]
      /\ link = "symbolic" => dir_entries[1] = [d_name |-> y, d_inumber |-> 2]
      /\ \A s \in Slots : s # 0 /\ (s = 1 => link = "none") => dir_entries[s] = Unused
  BY <1>1, <1>2
<1>4. \A s \in Slots : s # 0 /\ s # 1 => dir_entries[s] = Unused
  BY <1>3
<1>5. x \in Names /\ y \in Names /\ x \in Texts /\ y \in Texts /\ x # Garbled /\ y # Garbled
      /\ x # NoName /\ y # NoName
  BY <1>1, Sizes, LinksAssumption DEF LinksAssumption
<1>6. SlotsUsed = (IF link = "none" THEN {0} ELSE {0, 1})
  BY <1>2, <1>3, <1>4 DEF SlotsUsed, Unused
<1>7. /\ freeinode_ts[0] = TAKEN /\ freeinode_ts[1] = TAKEN
      /\ link = "symbolic" => freeinode_ts[2] = TAKEN
      /\ \A i \in Inums : freeinode_ts[i] = TAKEN =>
                             i \in {0, 1} \/ (i = 2 /\ link = "symbolic")
  BY <1>1, <1>2 DEF FREE, TAKEN
<1>8. Allocated = (IF link = "symbolic" THEN {1, 2} ELSE {1})
  BY <1>2, <1>7 DEF Allocated, ROOT_DIR_INUM
<1>9. /\ EntriesOf(1) = (IF link = "hard" THEN {0, 1} ELSE {0})
      /\ link = "symbolic" => EntriesOf(2) = {1}
  BY <1>2, <1>3, <1>4 DEF EntriesOf, Unused
<1>10. \A t \in Threads : pc[t] = "idle" /\ call[t] = NoCall /\ handle[t] = -1
  BY <1>1
<1>11. Tables
  <2>1. dir_entries \in [Slots -> EntryType]
    <3>1. \A s \in Slots : dir_entries[s] \in EntryType
      <4>1. Unused \in EntryType /\ 1 \in Inums \cup {-1} /\ 2 \in Inums \cup {-1}
        BY <1>2 DEF Unused, EntryType
      <4>2. [d_name |-> x, d_inumber |-> 1] \in EntryType
            /\ [d_name |-> y, d_inumber |-> 1] \in EntryType
            /\ [d_name |-> y, d_inumber |-> 2] \in EntryType
        BY <4>1, <1>5 DEF EntryType
      <4> QED BY <4>1, <4>2, <1>1, <1>3, <1>4
    <3> QED BY <3>1, <1>1
  <2>2. open_file_table \in [Handles -> HandleType]
    BY <1>1 DEF Closed, HandleType
  <2>3. freeinode_ts \in [Inums -> {FREE, TAKEN}] /\ free_blocks \in [Blocks -> {FREE, TAKEN}]
    BY <1>1
  <2>4. text \in [Blocks -> Texts]
    BY <1>1, <1>5, Sizes
  <2> QED BY <2>1, <2>2, <2>3, <2>4, <1>1, <1>2 DEF Tables
<1>12. ThreadTypes
  <2>1. pc \in [Threads -> Steps] /\ call \in [Threads -> CallType]
    BY <1>1, NoCallType DEF Steps
  <2> QED BY <2>1, <1>1 DEF ThreadTypes
<1>13. NoCall.kind = "none"
  BY NoCallType
<1>14. \A t \in Threads : KindFits(t)
  BY <1>10, <1>13 DEF KindFits
<1>15. \A t \in Threads : ~Making(t) /\ ~Changing(t) /\ ~Found(t)
  BY <1>10 DEF Making, Changing, Found, Adding, Lowering, Deleting, Truncating, Clearing
<1>16. \A t \in Threads : Plan(t)
  <2> SUFFICES ASSUME NEW t \in Threads PROVE Plan(t)
    OBVIOUS
  <2>1. PlanOfOpen(t) /\ PlanOfMaking(t)
    BY <1>10, <1>15 DEF PlanOfOpen, PlanOfMaking, Truncating
  <2>2. PlanOfAdding(t) /\ PlanOfUnlink(t)
    BY <1>10, <1>13 DEF PlanOfAdding, PlanOfUnlink, Adding
  <2> QED BY <2>1, <2>2, <1>10, <1>13, <1>15 DEF Plan, PlanOfLooking, Looking
<1>17. KindsApart
  BY <1>10 DEF KindsApart, Idle
<1>18. DirectoryApart
  <2>1. \A s \in Slots \ SlotsUsed : dir_entries[s].d_name = NoName
    BY <1>3, <1>4, <1>6 DEF Unused
  <2>2. \A s \in SlotsUsed : dir_entries[s].d_inumber \in Allocated
    BY <1>3, <1>6, <1>8
  <2> QED BY <2>1, <2>2 DEF DirectoryApart
<1>19. CountersApart
  <2>1. Cardinality({0}) = 1 /\ Cardinality({1}) = 1
    BY FS_Singleton
  <2>2. Cardinality({0, 1}) = 2
    <3>1. PICK S : S = {0}
      OBVIOUS
    <3>2. {0, 1} = S \cup {1} /\ 1 \notin S
      BY <3>1
    <3>3. IsFiniteSet(S) /\ Cardinality(S) = 1
      BY <3>1, FS_Singleton
    <3>4. Cardinality(S \cup {1}) = 1 + 1
      BY <3>2, <3>3, FS_AddElement
    <3> QED BY <3>2, <3>4
  <2>3. Settled(1)
    BY <2>1, <2>2, <1>2, <1>9 DEF Settled, Counted
  <2>4. link = "symbolic" => Settled(2)
    BY <2>1, <1>2, <1>9 DEF Settled, Counted
  <2> QED BY <2>3, <2>4, <1>8 DEF CountersApart
<1>20. BlocksApart
  <2>1. \A i \in Inums : Size(i) > 0 =>
           /\ i = 0 \/ (i = 1 /\ size = 1) \/ (i = 2 /\ link = "symbolic")
           /\ Data(i) = i /\ i \in Blocks
    <3> SUFFICES ASSUME NEW i \in Inums, Size(i) > 0
                 PROVE  /\ i = 0 \/ (i = 1 /\ size = 1) \/ (i = 2 /\ link = "symbolic")
                        /\ Data(i) = i /\ i \in Blocks
      OBVIOUS
    <3>1. i \in {0, 1} \/ (i = 2 /\ link = "symbolic")
      BY <1>2
    <3>2. i = 1 => size = 1
      BY <1>2
    <3> QED BY <3>1, <3>2, <1>2
  <2>2. \A i : ~Spared(i)
    BY <1>10 DEF Spared, SparedBy
  <2>3. \A i \in BlockOwners : i \in Inums /\ Size(i) > 0
    BY DEF BlockOwners, Owners
  <2>4. \A i \in BlockOwners : free_blocks[Data(i)] = TAKEN
    BY <2>1, <2>3, <1>1
  <2>5. \A i, j \in BlockOwners : i # j => Data(i) # Data(j)
    BY <2>1, <2>3
  <2>6. ASSUME NEW b \in Blocks, free_blocks[b] = TAKEN
        PROVE  \E i \in BlockOwners : Data(i) = b
    <3>1. b = 0 \/ (b = 1 /\ size = 1) \/ (b = 2 /\ link = "symbolic")
      BY <2>6, <1>1 DEF FREE, TAKEN
    <3>2. BLOCK_SIZE > 0
      BY Sizes
    <3>3. b \in Inums /\ freeinode_ts[b] = TAKEN /\ Size(b) > 0 /\ Data(b) = b
      BY <3>1, <3>2, <1>2, <1>7
    <3>4. b \in BlockOwners
      BY <3>3, <2>2 DEF BlockOwners, Owners
    <3> QED BY <3>3, <3>4
  <2> QED BY <2>1, <2>4, <2>5, <2>6 DEF BlocksApart
<1>21. HandlesApart
  BY <1>1, <1>10 DEF HandlesApart, IsOpen
<1>22. AppendsApart
  BY <1>1, <1>10, <1>13 DEF AppendsApart, HasFile, Opens, Adding, Filling
<1>23. status = "mounted" /\ freeinode_ts[ROOT_DIR_INUM] = TAKEN
  BY <1>1, <1>7 DEF ROOT_DIR_INUM
<1> QED BY <1>11, <1>12, <1>14, <1>16, <1>17, <1>18, <1>19, <1>20, <1>21, <1>22, <1>23
        DEF Apart

-----------------------------------------------------------------------------
(* Every step                                                              *)

\* Calls that once overlapped stay on record.
LEMMA ApartBefore ==
  ASSUME ThreadsNext, apart'
  PROVE  apart
<1>1. ASSUME NEW t \in Threads, Calling(t) PROVE apart
  BY <1>1 DEF Calling, CallOpen, CallUnlink, CallLink, CallSymLink, Overlap
<1>2. ASSUME NEW t \in Threads, InLookup(t) \/ InOpen(t) PROVE apart
  <2>1. CASE InLookup(t)
    BY <2>1 DEF InLookup, FindInDir, UnlockUndefined, Overlap, pastVars
  <2>2. CASE InOpen(t)
    BY <2>2 DEF InOpen, FollowLink, LookAgain, OpenFile, TestSize, FreeData, ResetSize,
                AddOpen, pastVars
  <2> QED BY <1>2, <2>1, <2>2
<1>3. ASSUME NEW t \in Threads, InCreation(t) PROVE apart
  <2>1. AddStore(t) => apart
    BY DEF AddStore
  <2> QED BY <1>3, <2>1 DEF InCreation, AllocInode, InitInode, LinkBlock, RaiseCounter,
                            AddPick, AddName, pastVars
<1>4. ASSUME NEW t \in Threads, InUnlink(t) PROVE apart
  BY <1>4 DEF InUnlink, LockToUnlink, ClearPick, ClearStore, LoadCounter, StoreCounter,
              TestCounter, FreeBlock, DeleteBlock, FreeInode, pastVars
<1>5. ASSUME NEW t \in Threads, Write(t) \/ Close(t) PROVE apart
  BY <1>5 DEF Write, Close, Overlap, pastVars
<1>6. Ended => apart
  BY DEF Ended, allVars, pastVars
<1> QED BY <1>1, <1>2, <1>3, <1>4, <1>5, <1>6 DEF ThreadsNext

LEMMA CallingKeeps ==
  ASSUME Apart, apart', NEW t \in Threads, Calling(t)
  PROVE  Apart'
<1>1. CASE \E kind \in Opens, name \in Names : CallOpen(t, kind, name)
  BY <1>1, CallOpenKeeps
<1>2. CASE \E name \in Names : CallUnlink(t, name)
  BY <1>2, CallUnlinkKeeps
<1>3. CASE \E target, name \in Names : CallLink(t, target, name)
  BY <1>3, CallLinkKeeps
<1>4. CASE \E target, name \in Names : CallSymLink(t, target, name)
  BY <1>4, CallSymLinkKeeps
<1> QED BY <1>1, <1>2, <1>3, <1>4 DEF Calling

LEMMA InOpenKeeps ==
  ASSUME Apart, NEW t \in Threads, InOpen(t)
  PROVE  Apart'
BY FollowLinkKeeps, LookAgainKeeps, OpenFileKeeps, TestSizeKeeps, FreeDataKeeps, ResetSizeKeeps, AddOpenKeeps
   DEF InOpen

LEMMA InCreationKeeps ==
  ASSUME Apart, NEW t \in Threads, InCreation(t)
  PROVE  Apart'
BY AllocInodeKeeps, InitInodeKeeps, LinkBlockKeeps, RaiseCounterKeeps, AddPickKeeps,
   AddStoreKeeps, AddNameKeeps
   DEF InCreation

LEMMA InUnlinkKeeps ==
  ASSUME Apart, NEW t \in Threads, InUnlink(t)
  PROVE  Apart'
BY LockToUnlinkKeeps, ClearPickKeeps, ClearStoreKeeps, LoadCounterKeeps, StoreCounterKeeps,
   TestCounterKeeps, FreeBlockKeeps, DeleteBlockKeeps, FreeInodeKeeps
   DEF InUnlink

\* Nor does a step that is no lookup's take or give back the lock of entry 0.
LEMMA LooksAside ==
  ASSUME pc \in [Threads -> Steps], NEW t \in Threads,
         InOpen(t) \/ InCreation(t) \/ InUnlink(t) \/ Write(t) \/ Close(t),
         ~LookAgain(t), ~AddStore(t)
  PROVE  /\ dirLock' = dirLock
         /\ \A u \in Threads : pc'[u] = "looking" => pc[u] = "looking"
<1> DEFINE Aside == /\ dirLock' = dirLock
                    /\ \A u \in Threads : pc'[u] = "looking" => pc[u] = "looking"
<1> USE DEF GoTo, lockVars, ReadLocked, WriteLocked, Unlocked, Return
<1>1. CASE InOpen(t)
  <2>1. FollowLink(t) => Aside
    BY DEF FollowLink
  <2>2. OpenFile(t) => Aside
    BY DEF OpenFile
  <2>3. TestSize(t) \/ FreeData(t) \/ ResetSize(t) \/ AddOpen(t) => Aside
    BY DEF TestSize, FreeData, ResetSize, AddOpen
  <2> QED BY <1>1, <2>1, <2>2, <2>3 DEF InOpen
<1>2. CASE InCreation(t)
  <2>1. AllocInode(t) \/ InitInode(t) => Aside
    BY DEF AllocInode, InitInode
  <2>2. LinkBlock(t) \/ RaiseCounter(t) => Aside
    BY DEF LinkBlock, RaiseCounter
  <2>3. AddPick(t) \/ AddName(t) => Aside
    BY DEF AddPick, AddName
  <2> QED BY <1>2, <2>1, <2>2, <2>3 DEF InCreation
<1>3. CASE InUnlink(t)
  <2>1. LockToUnlink(t) \/ ClearPick(t) \/ ClearStore(t) => Aside
    BY DEF LockToUnlink, ClearPick, ClearStore, AfterClearing
  <2>2. LoadCounter(t) \/ StoreCounter(t) \/ TestCounter(t) => Aside
    BY DEF LoadCounter, StoreCounter, TestCounter
  <2>3. FreeBlock(t) \/ DeleteBlock(t) \/ FreeInode(t) => Aside
    BY DEF FreeBlock, DeleteBlock, FreeInode
  <2> QED BY <1>3, <2>1, <2>2, <2>3 DEF InUnlink
<1>4. CASE Write(t) \/ Close(t)
  BY <1>4 DEF Write, Close
<1> QED BY <1>1, <1>2, <1>3, <1>4

\* A lookup begins while nobody has the lock, and ends when it gives it back;
\* entry 0 is not filled under one, or the calls were not apart.
LEMMA LooksAloneStays == ThreadsInv /\ LooksAlone /\ [ThreadsNext]_allVars => LooksAlone'
<1> SUFFICES ASSUME ThreadsInv, LooksAlone, [ThreadsNext]_allVars, apart'
             PROVE  \A u \in Threads : pc'[u] = "looking" => dirLock' = u
  BY DEF LooksAlone
<1>1. CASE ThreadsNext
  <2>1. apart /\ Apart
    BY <1>1, ApartBefore DEF ThreadsInv
  <2>2. /\ \A u \in Threads : pc[u] = "looking" => dirLock = u
        /\ \A u \in Threads : u # NoThread
    BY <2>1, ThreadsAssumption DEF LooksAlone, ThreadsAssumption
  <2>3. pc \in [Threads -> Steps]
    BY <2>1 DEF Apart, ThreadTypes
  <2>4. ASSUME NEW t \in Threads, NEW c, Lookup(t, c)
        PROVE  \A u \in Threads : pc'[u] = "looking" => dirLock' = u
    BY <2>2, <2>3, <2>4 DEF Lookup, GoTo
  <2>5. ASSUME NEW t \in Threads, Calling(t) \/ LookAgain(t)
        PROVE  \E c : Lookup(t, c)
    BY <2>5 DEF Calling, CallOpen, CallUnlink, CallLink, CallSymLink, LookAgain
  <2>6. ASSUME NEW t \in Threads, FindInDir(t)
        PROVE  \A u \in Threads : pc'[u] = "looking" => dirLock' = u
    <3>1. PICK step \in Steps : pc' = [pc EXCEPT ![t] = step] /\ step # "looking"
      BY <2>1, <2>6, LookedUp DEF Moves, Outcome
    <3>2. \A u \in Threads : u # t => pc[u] # "looking"
      BY <2>2, <2>6 DEF FindInDir, At
    <3> QED BY <3>1, <3>2, <2>3
  <2>7. ASSUME NEW t \in Threads, UnlockUndefined(t) PROVE FALSE
    BY <2>2, <2>7 DEF UnlockUndefined, At
  <2>8. ASSUME NEW t \in Threads, AddStore(t)
        PROVE  \A u \in Threads : pc'[u] = "looking" => dirLock' = u
    <3>1. dirLock' = dirLock
      BY <2>8 DEF AddStore
    <3> QED BY <3>1, <2>2, <2>3, <2>8 DEF AddStore, GoTo
  <2>9. ASSUME NEW t \in Threads, ~LookAgain(t), ~AddStore(t),
               InOpen(t) \/ InCreation(t) \/ InUnlink(t) \/ Write(t) \/ Close(t)
        PROVE  \A u \in Threads : pc'[u] = "looking" => dirLock' = u
    BY <2>2, <2>3, <2>9, LooksAside
  <2>10. Ended => UNCHANGED <<pc, dirLock>>
    BY DEF Ended, allVars, lockVars
  <2> QED BY <1>1, <2>2, <2>4, <2>5, <2>6, <2>7, <2>8, <2>9, <2>10 DEF ThreadsNext, InLookup
<1>2. CASE UNCHANGED allVars
  BY <1>2 DEF LooksAlone, allVars, pastVars, lockVars
<1> QED BY <1>1, <1>2

LEMMA ThreadsInvStays == ThreadsInv /\ LooksAlone /\ [ThreadsNext]_allVars => ThreadsInv'
<1> SUFFICES ASSUME ThreadsInv, LooksAlone, [ThreadsNext]_allVars, apart'
             PROVE  Apart'
  BY DEF ThreadsInv
<1>1. CASE ThreadsNext
  <2>1. apart /\ Apart
    BY <1>1, ApartBefore DEF ThreadsInv
  <2>2. ASSUME NEW t \in Threads,
               \/ Calling(t) \/ InLookup(t) \/ InOpen(t) \/ InCreation(t) \/ InUnlink(t)
               \/ Write(t) \/ Close(t)
        PROVE  Apart'
    <3>1. CASE Calling(t)
      BY <3>1, <2>1, CallingKeeps
    <3>2. CASE InLookup(t)
      <4>1. ~UnlockUndefined(t)
        BY <2>1 DEF UnlockUndefined, At, LooksAlone
      <4> QED BY <3>2, <4>1, <2>1, FindInDirKeeps DEF InLookup
    <3>3. CASE InOpen(t)
      BY <3>3, <2>1, InOpenKeeps
    <3>4. CASE InCreation(t)
      BY <3>4, <2>1, InCreationKeeps
    <3>5. CASE InUnlink(t)
      BY <3>5, <2>1, InUnlinkKeeps
    <3>6. CASE Write(t)
      BY <3>6, <2>1, ThreadWriteKeeps
    <3>7. CASE Close(t)
      BY <3>7, <2>1, ThreadCloseKeeps
    <3> QED BY <2>2, <3>1, <3>2, <3>3, <3>4, <3>5, <3>6, <3>7
  <2>3. CASE Ended
    BY <2>1, <2>3, StutterKeeps DEF Ended
  <2> QED BY <1>1, <2>2, <2>3 DEF ThreadsNext
<1>2. CASE UNCHANGED allVars
  <2>1. Apart
    BY <1>2 DEF ThreadsInv, allVars, pastVars
  <2> QED BY <1>2, <2>1, StutterKeeps
<1> QED BY <1>1, <1>2

LEMMA ThreadsInvHolds == ThreadsSpec => []ThreadsInv
<1>1. ThreadsInit => ThreadsInv /\ LooksAlone
  BY InitIsApart DEF ThreadsInv, LooksAlone, ThreadsInit
<1> QED BY <1>1, ThreadsInvStays, LooksAloneStays, PTL DEF ThreadsSpec

-----------------------------------------------------------------------------
(* What it is for                                                          *)

\* Once no call is under way, no inode is in hand and no block spared.
LEMMA QuietTablesAreSound ==
  ASSUME Apart, Quiescent
  PROVE  EntriesBacked /\ BlocksExclusive /\ NothingLeaks
<1>1. \A t \in Threads : pc[t] = "idle"
  BY DEF Quiescent, Idle
<1>2. \A i : ~InHand(i) /\ ~Spared(i)
  BY <1>1 DEF InHand, Changing, Adding, Lowering, Deleting, Spared, SparedBy
<1>3. \A i \in Allocated : Settled(i) /\ i \in Inums
  BY <1>2 DEF Apart, CountersApart, Allocated
<1>4. BlockOwners = Owners
  BY <1>2 DEF BlockOwners
<1>5. EntriesBacked
  <2>1. \A s \in SlotsUsed : dir_entries[s].d_inumber \in Allocated
    BY DEF Apart, DirectoryApart
  <2>2. \A i \in Allocated : Cardinality(EntriesOf(i)) <= inode_table[i].i_link_counter
    BY <1>3 DEF Settled, Counted, Counter
  <2>3. \A i \in Allocated :
           inode_table[i].i_node_type = "T_SYMLINK" /\ EntriesOf(i) # {} =>
              inode_table[i].i_size > 0 /\ inode_table[i].i_data_block \in Blocks
    BY <1>3 DEF Settled, Type, Size, Data, Apart, BlocksApart
  <2> QED BY <2>1, <2>2, <2>3 DEF EntriesBacked
<1>6. BlocksExclusive
  BY <1>4 DEF Apart, BlocksApart, BlocksExclusive, Owners, Size, Data
<1>7. NothingLeaks
  <2>1. "spilled" \notin lapses =>
          /\ \A i \in Allocated :
                inode_table[i].i_link_counter = Cardinality(EntriesOf(i))
          /\ \A i \in Allocated : EntriesOf(i) # {}
    BY <1>3 DEF Settled, Counted, Counter
  <2>2. "spilled" \notin lapses /\ "orphaned" \notin lapses =>
           \A b \in Blocks : free_blocks[b] = TAKEN =>
              \E i \in Inums : /\ freeinode_ts[i] = TAKEN
                               /\ inode_table[i].i_size > 0
                               /\ inode_table[i].i_data_block = b
    BY <1>4 DEF Apart, BlocksApart, Owners, Size, Data
  <2> QED BY <2>1, <2>2 DEF NothingLeaks
<1> QED BY <1>5, <1>6, <1>7

\* Threads that call anything but the Unsafe pairs at the same time never fail
\* an assertion, and leave the tables as one caller would, as long as nobody
\* fills entry 0 of the directory, and so initialises its lock, while a lookup
\* holds it: apart from that the locks of the inodes and the mutexes of the
\* tables are enough for tfs_open, tfs_write and tfs_close next to at most one
\* call that truncates and one that creates or links, and for a tfs_unlink
\* that runs alone.
THEOREM CallsApartAreSafe == ThreadsSpec => []SafeApart
<1>1. ThreadsInv => SafeApart
  BY QuietTablesAreSound DEF ThreadsInv, Apart, SafeApart
<1> QED BY <1>1, ThreadsInvHolds, PTL

\* A tfs_write behind tfs_open with TFS_O_APPEND never lands on what was
\* written before, as long as one thread has a file open at a time and none
\* is deleted while it is open.
THEOREM AppendsAreKept == ThreadsSpec => []AppendsKept
<1>1. ThreadsInv => AppendsKept
  BY DEF ThreadsInv, Apart, AppendsApart, AppendsKept
<1> QED BY <1>1, ThreadsInvHolds, PTL
=============================================================================
