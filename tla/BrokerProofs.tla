---------------------------- MODULE BrokerProofs ----------------------------
(***************************************************************************)
(* Safety of the message broker for every number of workers, boxes and     *)
(* requests: what its workers do to the tables of TecnicoFS, to the list   *)
(* of boxes and to each other's handles.                                   *)
(***************************************************************************)
EXTENDS Broker, FiniteSetTheorems, FunctionTheorems, TLAPS

-----------------------------------------------------------------------------
(* The tables.  Every step of the broker is a call of TecnicoFS, leaves    *)
(* the tables alone, or ends the process, so the invariant TfsProofs       *)
(* proves for callers in any order holds for these callers too.            *)

TP == INSTANCE TfsProofs WITH Bytes <- Names, Junk <- NoName, LongNames <- {},
                              MaxTransfer <- BLOCK_SIZE

\* T and TP are two instances of one text: the definitions of the one are those
\* of the other, and only have to be unfolded to see it.
LEMMA SameInit == T!Init => TP!Init
BY SMTT(40) DEF T!Init, TP!Init, T!NoTables, TP!NoTables, T!BlankInodes, TP!BlankInodes,
       T!NewFile, TP!NewFile, T!FreeAll, TP!FreeAll, T!BlankDirectories,
       TP!BlankDirectories, T!BlankData, TP!BlankData, T!BlankOpenFiles,
       TP!BlankOpenFiles, T!ROOT_DIR_INUM, TP!ROOT_DIR_INUM, T!Inums, TP!Inums,
       T!Blocks, TP!Blocks, T!Handles, TP!Handles, T!Slots, TP!Slots, T!Cells,
       TP!Cells, T!FREE, TP!FREE

LEMMA SameMount == T!tfs_init => TP!tfs_init
BY DEF T!tfs_init, TP!tfs_init, T!FreshTables, TP!FreshTables, T!BlankInodes,
       TP!BlankInodes, T!NewFile, TP!NewFile, T!FreeAll, TP!FreeAll, T!Take,
       TP!Take, T!BlankDirectories, TP!BlankDirectories, T!BlankData,
       TP!BlankData, T!BlankOpenFiles, TP!BlankOpenFiles, T!ROOT_DIR_INUM,
       TP!ROOT_DIR_INUM, T!RootBlock, TP!RootBlock, T!Inums, TP!Inums,
       T!Blocks, TP!Blocks, T!Handles, TP!Handles, T!Slots, TP!Slots, T!Cells,
       TP!Cells, T!FREE, TP!FREE, T!TAKEN, TP!TAKEN, T!ShortNames, TP!ShortNames

LEMMA SameOpen ==
    /\ \A name, trunc, append :
          T!OpenExisting(name, trunc, append) => TP!OpenExisting(name, trunc, append)
    /\ \A name : T!OpenCreate(name) => TP!OpenCreate(name)
    /\ \A name : T!OpenCreateUndone(name) => TP!OpenCreateUndone(name)
<1> USE DEF T!Finds, TP!Finds, T!Slots, TP!Slots, T!Inums, TP!Inums, T!Handles,
            TP!Handles, T!add_to_open_file_table, TP!add_to_open_file_table,
            T!IsFirstFree, TP!IsFirstFree, T!NoneFree, TP!NoneFree, T!Take,
            TP!Take, T!FREE, TP!FREE, T!TAKEN, TP!TAKEN, T!openVars,
            TP!openVars, T!dirVars, TP!dirVars, T!blockVars, TP!blockVars
<1>1. ASSUME NEW name, NEW trunc, NEW append, T!OpenExisting(name, trunc, append)
      PROVE  TP!OpenExisting(name, trunc, append)
  BY <1>1 DEF T!OpenExisting, TP!OpenExisting, T!SizeAfterOpen,
              TP!SizeAfterOpen, T!BlocksWithoutDataOf, TP!BlocksWithoutDataOf,
              T!Release, TP!Release
<1> USE DEF T!NotFound, TP!NotFound, T!NewFile, TP!NewFile, T!CannotList,
            TP!CannotList, T!DirectoryFull, TP!DirectoryFull
<1>2. ASSUME NEW name, T!OpenCreate(name) PROVE TP!OpenCreate(name)
  BY <1>2 DEF T!OpenCreate, TP!OpenCreate, T!IsFirstUnused, TP!IsFirstUnused,
              T!add_dir_entry, TP!add_dir_entry
<1>3. ASSUME NEW name, T!OpenCreateUndone(name) PROVE TP!OpenCreateUndone(name)
  BY <1>3 DEF T!OpenCreateUndone, TP!OpenCreateUndone
<1> QED
  BY <1>1, <1>2, <1>3

LEMMA SameUse ==
    /\ \A h : T!tfs_close(h) => TP!tfs_close(h)
    /\ \A h, byte, len : T!tfs_write(h, byte, len) => TP!tfs_write(h, byte, len)
    /\ \A h, len : T!tfs_read(h, len) => TP!tfs_read(h, len)
    /\ \A h : T!ReadNoBlock(h) => TP!ReadNoBlock(h)
<1> USE DEF T!IsOpen, TP!IsOpen, T!TAKEN, TP!TAKEN, T!FREE, TP!FREE, T!dirVars,
            TP!dirVars, T!inodeVars, TP!inodeVars, T!blockVars, TP!blockVars
<1>1. ASSUME NEW h, T!tfs_close(h) PROVE TP!tfs_close(h)
  BY <1>1 DEF T!tfs_close, TP!tfs_close, T!remove_from_open_file_table,
              TP!remove_from_open_file_table, T!Release, TP!Release
<1> USE DEF T!InumOf, TP!InumOf, T!OffsetOf, TP!OffsetOf, T!SizeOf, TP!SizeOf,
            T!BlockOf, TP!BlockOf, T!Least, TP!Least
<1>2. ASSUME NEW h, NEW byte, NEW len, T!tfs_write(h, byte, len)
      PROVE  TP!tfs_write(h, byte, len)
  BY <1>2 DEF T!tfs_write, TP!tfs_write, T!ToWrite, TP!ToWrite, T!WritesTo,
              TP!WritesTo, T!IsFirstFree, TP!IsFirstFree, T!Take, TP!Take,
              T!Written, TP!Written, T!Greatest, TP!Greatest, T!Blocks,
              TP!Blocks, T!Cells, TP!Cells
<1> USE DEF T!ToRead, TP!ToRead
<1>3. ASSUME NEW h, NEW len, T!tfs_read(h, len) PROVE TP!tfs_read(h, len)
  BY <1>3 DEF T!tfs_read, TP!tfs_read
<1>4. ASSUME NEW h, T!ReadNoBlock(h) PROVE TP!ReadNoBlock(h)
  BY <1>4 DEF T!ReadNoBlock, TP!ReadNoBlock, T!abort, TP!abort, T!openVars,
              TP!openVars
<1> QED
  BY <1>1, <1>2, <1>3, <1>4

LEMMA SameUnlink == \A name : T!tfs_unlink(name) => TP!tfs_unlink(name)
BY DEF T!tfs_unlink, TP!tfs_unlink, T!Finds, TP!Finds, T!Slots, TP!Slots,
       T!IsCleared, TP!IsCleared, T!clear_dir_entry, TP!clear_dir_entry,
       T!ClearedEntry, TP!ClearedEntry, T!inode_delete, TP!inode_delete,
       T!BlocksWithoutDataOf, TP!BlocksWithoutDataOf, T!Release, TP!Release,
       T!FREE, TP!FREE, T!openVars, TP!openVars

\* What a step of the broker does to the tables: a call, and none unmounts them.
TfsStep ==
    \/ TP!Next /\ status' # "unmounted"
    \/ UNCHANGED tfsVars
    \/ status' = "killed" /\ UNCHANGED tableVars

TablesSound == TP!IInv \/ status = "killed"

LEMMA TablesFit == TP!TfsAssumption /\ TP!BoundsAssumption
BY BrokerAssumption DEF TP!TfsAssumption, TP!BoundsAssumption

LEMMA TablesStaySound ==
    ASSUME TablesSound, TfsStep, status = "killed" => UNCHANGED tfsVars
    PROVE  TablesSound'
<1>1. CASE status' = "killed" \/ status = "killed"
  BY <1>1 DEF TablesSound, tfsVars
<1>2. CASE status' # "killed" /\ status # "killed"
  <2>1. TP!IInv /\ [TP!Next]_(TP!vars)
    BY <1>2 DEF TablesSound, TfsStep, tfsVars, tableVars, TP!vars, TP!inodeVars,
                TP!dirVars, TP!blockVars, TP!openVars
  <2> QED
    BY <2>1, TP!InductiveStep, TablesFit DEF TablesSound
<1> QED
  BY <1>1, <1>2

LEMMA TypesOfTables == TP!IInv => T!TypeOK
BY DEF TP!IInv, TP!TypeOK, T!TypeOK, TP!Inums, T!Inums, TP!Blocks, T!Blocks,
       TP!Handles, T!Handles, TP!Slots, T!Slots, TP!Cells, T!Cells,
       TP!AllocationState, T!AllocationState, TP!FREE, T!FREE, TP!TAKEN,
       T!TAKEN, TP!Inode, T!Inode, TP!DirEntry, T!DirEntry, TP!OpenFile,
       T!OpenFile, TP!ShortNames, T!ShortNames

LEMMA SameHandles == T!Handles = TP!Handles
BY DEF T!Handles, TP!Handles

\* The calls the workers make.
LEMMA OpenCalls ==
    ASSUME NEW name \in Names, NEW append \in BOOLEAN, NEW h, open(name, append, h)
    PROVE  TfsStep
BY SameOpen DEF open, TfsStep, TP!Next, T!OpenExisting

LEMMA CreateCalls ==
    ASSUME NEW name \in Names, NEW h, openCreating(name, h) PROVE TfsStep
BY SameOpen DEF openCreating, TfsStep, TP!Next, T!OpenExisting, T!OpenCreate,
                T!OpenCreateUndone

LEMMA CloseCalls == ASSUME NEW h \in Handles, close(h) PROVE TfsStep
BY SameUse, SameHandles DEF close, Handles, TfsStep, TP!Next, T!tfs_close

LEMMA WriteCalls ==
    ASSUME NEW h \in Handles, NEW name \in Names, write(h, name) PROVE TfsStep
<1>1. 1 \in TP!Lens
  BY BrokerAssumption DEF TP!Lens
<1> QED
  BY <1>1, SameUse, SameHandles DEF write, Handles, TfsStep, TP!Next, T!tfs_write

LEMMA ReadCalls ==
    ASSUME NEW h \in T!Handles, T!tfs_read(h, BLOCK_SIZE) \/ T!ReadNoBlock(h)
    PROVE  TfsStep
<1>1. BLOCK_SIZE \in TP!Lens
  BY BrokerAssumption DEF TP!Lens
<1> QED
  BY <1>1, SameUse, SameHandles DEF TfsStep, TP!Next, T!tfs_read,
                                    T!ReadNoBlock, T!abort

LEMMA UnlinkCalls ==
    ASSUME NEW name \in Names, T!tfs_unlink(name) PROVE TfsStep
BY SameUnlink DEF TfsStep, TP!Next, T!tfs_unlink

LEMMA MountCalls == T!tfs_init => TfsStep
BY SameMount DEF TfsStep, TP!Next, T!tfs_init

LEMMA WriteFailsCalls == WriteFails => TfsStep
BY DEF WriteFails, TfsStep

-----------------------------------------------------------------------------
(* Types, and what the locals of a session hold where it uses them.        *)

Places == {"idle"} \cup PublisherSteps \cup SubscriberSteps \cup ManagerSteps
             \cup ListSteps

Types ==
    /\ boxes \in [Slots -> Box]
    /\ active_boxes \in Int
    /\ pc \in [Workers -> Places]
    /\ job \in [Workers -> Job]
    /\ queued \in 0 .. arrived /\ arrived \in 0 .. MaxRequests
    /\ lapses \subseteq Lapses /\ undisturbed \subseteq Workers

\* Past the first statement of connect_publisher or connect_subscriber: the
\* session has a place in the list.
Placed == (PublisherSteps \cup SubscriberSteps) \ {"pubFind", "subFind"}

Fits(place, locals) ==
    /\ place \in PublisherSteps \cup SubscriberSteps \cup ManagerSteps =>
          locals.name \in Names
    /\ place \in Placed \cup {"createName", "createPublishers",
                              "createSubscribers", "listRead", "listClose",
                              "listSend"} =>
          locals.index \in Slots
    /\ place \in ManagerSteps => locals.index \in Slots \cup {-1}
    /\ place = "listRead" => locals.fh # -1

LocalsFit == \A w \in Workers : Fits(pc[w], job[w])

\* Nobody works before main has mounted the file system.
NobodyEarly ==
    status = "unmounted" => \A w \in Workers : pc[w] = "idle" /\ job[w] = NoJob

\* One worker moves; a broadcast wakes others.
PcMoves(w, place) ==
    /\ pc' \in [Workers -> Places]
    /\ pc'[w] = place
    /\ \A v \in Workers \ {w} :
          pc'[v] = pc[v] \/ (pc[v] = "subWaiting" /\ pc'[v] = "subProbe")

JobMoves(w, locals) ==
    /\ job' \in [Workers -> Job]
    /\ job'[w] = locals
    /\ \A v \in Workers \ {w} : job'[v] = job[v]

\* The locals of w stay the same but for its handles.
JobKeeps(w) ==
    /\ JobMoves(w, job'[w])
    /\ job'[w].name = job[w].name /\ job'[w].index = job[w].index

LEMMA MovesTo ==
    ASSUME NEW w
    PROVE  /\ \A place : PcMoves(w, place) => pc'[w] = place
           /\ \A locals : JobMoves(w, locals) => job'[w] = locals
           /\ JobKeeps(w) => /\ JobMoves(w, job'[w])
                             /\ job'[w].name = job[w].name
                             /\ job'[w].index = job[w].index
BY DEF PcMoves, JobMoves, JobKeeps

LEMMA GoToMoves ==
    ASSUME Types, NEW w \in Workers, NEW place \in Places, GoTo(w, place)
    PROVE  PcMoves(w, place)
BY DEF Types, GoTo, PcMoves

LEMMA PcStays == ASSUME Types, NEW w \in Workers, pc' = pc PROVE PcMoves(w, pc[w])
BY DEF Types, PcMoves

LEMMA BroadcastMoves ==
    ASSUME Types, NEW w \in Workers, NEW place \in Places \ {"subWaiting"},
           GoToAndBroadcast(w, place)
    PROVE  PcMoves(w, place)
BY DEF Types, GoToAndBroadcast, Woken, PcMoves, Places, SubscriberSteps

LEMMA RememberKeeps ==
    ASSUME Types, NEW w \in Workers
    PROVE  /\ job' = job => JobKeeps(w)
           /\ \A h \in Handles :
                 Remember(w, "fh", h) => JobKeeps(w) /\ job'[w].fh = h
           /\ \A h \in Handles : Remember(w, "aux", h) => JobKeeps(w)
           /\ \A n \in Int : Remember(w, "count", n) => JobKeeps(w)
BY DEF Types, Remember, JobMoves, Job, JobKeeps

LEMMA IndexMoves ==
    ASSUME Types, NEW w \in Workers, NEW i \in Slots \cup {-1, MAX_DIR_ENTRIES},
           Remember(w, "index", i)
    PROVE  JobMoves(w, job'[w]) /\ job'[w].index = i /\ job'[w].name = job[w].name
BY DEF Types, Remember, JobMoves, Job

\* What is loaded of the counts is a number.
LEMMA CountsAreNumbers ==
    ASSUME Types, LocalsFit, NEW w \in Workers, pc[w] \in Placed
    PROVE  /\ job[w].index \in Slots
           /\ boxes[job[w].index].publishers \in Int
           /\ boxes[job[w].index].subscribers \in Int
BY DEF Types, LocalsFit, Fits, Box

\* The locals of list_boxes: a box it has opened, and the next one.
LEMMA LocalsOfOpened ==
    ASSUME Types, NEW w \in Workers, NEW h \in Handles, NEW last \in BOOLEAN,
           job' = [job EXCEPT ![w].fh = h, ![w].last = last]
    PROVE  JobKeeps(w) /\ job'[w].fh = h /\ job'[w].aux = job[w].aux
BY ZenonT(60) DEF Types, JobMoves, JobKeeps, Job

LEMMA ListingOpens ==
    ASSUME Types, NEW w \in Workers, NEW h \in Handles,
           job' = [job EXCEPT ![w].fh = h, ![w].last = job[w].last \/ IsLast(w)]
    PROVE  JobKeeps(w) /\ job'[w].fh = h /\ job'[w].aux = job[w].aux
<1> DEFINE last == job[w].last \/ IsLast(w)
<1>1. last \in BOOLEAN /\ job' = [job EXCEPT ![w].fh = h, ![w].last = last]
  OBVIOUS
<1> HIDE DEF last
<1> QED
  BY <1>1, LocalsOfOpened

LEMMA ListingAdvances ==
    ASSUME Types, NEW w \in Workers, job[w].index \in Slots,
           job' = [job EXCEPT ![w].index = @ + 1, ![w].boxes_listed = @ + 1]
    PROVE  JobMoves(w, job'[w])
<1>1. job[w].index + 1 \in Slots \cup {-1, MAX_DIR_ENTRIES}
  BY BrokerAssumption DEF Slots
<1> QED
  BY <1>1 DEF Types, JobMoves, Job

LEMMA ReturnMoves ==
    ASSUME Types, NEW w \in Workers
    PROVE  /\ job' = [job EXCEPT ![w] = NoJob] => JobMoves(w, NoJob)
           /\ Return(w) => PcMoves(w, "idle") /\ JobMoves(w, NoJob)
<1>1. NoJob \in Job
  BY DEF NoJob, Job, Handles
<1>2. Return(w) => PcMoves(w, "idle")
  BY GoToMoves DEF Return, Places
<1> QED
  BY <1>1, <1>2 DEF Types, Return, JobMoves

-----------------------------------------------------------------------------
(* Most steps disturb neither the list nor anybody's place in it.          *)

Publishing == PublisherSteps \ {"pubFind", "pubTest", "pubCount", "pubStore"}
Subscribed == SubscriberSteps \ {"subFind", "subCount", "subStore"}
Finders == (PublisherSteps \ {"pubFind"}) \cup {"removeTest", "removeBox"}
Asking  == {"pubCount", "pubStore"}

Moves(w) ==
    PcMoves(w, pc'[w]) /\ JobMoves(w, job'[w]) /\ Fits(pc'[w], job'[w])

KeepsPlace(w) == job'[w].name = job[w].name /\ job'[w].index = job[w].index

Calm(w) ==
    /\ boxes' = boxes /\ lapses' = lapses
    /\ Moves(w)
    /\ pc'[w] \in Finders \cup Subscribed => KeepsPlace(w)
    /\ pc'[w] \in Finders => pc[w] \in Finders
    /\ pc'[w] \in Asking => pc[w] \in Asking
    /\ pc'[w] = "removeTest" => pc[w] = "removeTest"
    /\ pc'[w] = "removeBox" => pc[w] = "removeBox"
    /\ pc'[w] \in Publishing <=> pc[w] \in Publishing
    /\ pc'[w] \in Subscribed <=> pc[w] \in Subscribed

LEMMA SessionCalm ==
    ASSUME Types, LocalsFit, NEW w \in Workers,
           \/ PubRead(w) \/ PubOpenBox(w) \/ PubWrite(w) \/ PubCloseBox(w)
           \/ SubOpenBox(w) \/ SubOpenPipe(w) \/ SubProbe(w) \/ SubProbed(w)
           \/ SubRead(w) \/ SubWait(w) \/ SpuriousWakeup(w) \/ SubSend(w)
           \/ SubGone(w)
           \/ PubCount(w) \/ PubLeave(w) \/ SubCount(w) \/ SubLeave(w)
    PROVE  Calm(w)
<1> USE GoToMoves, BroadcastMoves, RememberKeeps, MovesTo
    DEF Places, Placed, Publishing, Subscribed, Finders, Asking, PublisherSteps,
        SubscriberSteps, ManagerSteps, ListSteps, LocalsFit, Fits,
        Calm, Moves, KeepsPlace, At, Step, OthersUnchanged, listVars, sessionVars,
        aroundVars, historyVars, Handles
<1>1. CASE PubRead(w)
  BY <1>1 DEF PubRead
<1>2. CASE PubOpenBox(w)
  BY <1>2 DEF PubOpenBox
<1>3. CASE PubWrite(w)
  BY <1>3 DEF PubWrite
<1>4. CASE PubCloseBox(w)
  BY <1>4 DEF PubCloseBox
<1>5. CASE SubOpenBox(w)
  BY <1>5 DEF SubOpenBox
<1>6. CASE SubOpenPipe(w)
  BY <1>6 DEF SubOpenPipe
<1>7. CASE SubProbe(w)
  BY <1>7 DEF SubProbe
<1>8. CASE SubProbed(w)
  BY <1>8 DEF SubProbed
<1>9. CASE SubRead(w)
  <2>1. \/ GoTo(w, "subLeave") /\ Remember(w, "fh", -1)
        \/ GoTo(w, "subGone") /\ job' = job
        \/ GoTo(w, "subEmpty") /\ job' = job
        \/ GoTo(w, "subSend") /\ job' = job
        \/ pc' = pc /\ job' = job
    BY <1>9 DEF SubRead
  <2>2. pc[w] = "subRead" /\ boxes' = boxes /\ lapses' = lapses
    BY <1>9 DEF SubRead
  <2> QED
    BY <2>1, <2>2, PcStays
<1>10. CASE SubWait(w)
  BY <1>10 DEF SubWait
<1>11. CASE SpuriousWakeup(w)
  BY <1>11 DEF SpuriousWakeup
<1>12. CASE SubSend(w)
  BY <1>12 DEF SubSend
<1>13. CASE SubGone(w)
  BY <1>13 DEF SubGone
<1>14. CASE PubCount(w)
  BY <1>14, CountsAreNumbers DEF PubCount
<1>15. CASE PubLeave(w)
  BY <1>15, CountsAreNumbers DEF PubLeave
<1>16. CASE SubCount(w)
  BY <1>16, CountsAreNumbers DEF SubCount
<1>17. CASE SubLeave(w)
  BY <1>17, CountsAreNumbers DEF SubLeave
<1> QED
  BY <1>1, <1>2, <1>3, <1>4, <1>5, <1>6, <1>7, <1>8, <1>9, <1>10, <1>11, <1>12,
     <1>13, <1>14, <1>15, <1>16, <1>17

LEMMA ManagerCalm ==
    ASSUME Types, LocalsFit, NEW w \in Workers,
           \/ CreateFind(w) \/ CreateBox(w) \/ CreateReply(w) \/ CreateClose(w)
           \/ RemoveBox(w) \/ RemoveReply(w)
           \/ ListFind(w) \/ ListNext(w) \/ ListRead(w) \/ ListClose(w)
           \/ ListSend(w)
           \/ CreateList(w) \/ CreateActive(w) \/ CreateActivated(w)
           \/ RemoveActive(w) \/ RemoveActivated(w)
    PROVE  Calm(w)
<1> USE GoToMoves, ReturnMoves, RememberKeeps, MovesTo
    DEF Places, Placed, Publishing, Subscribed, Finders, Asking, PublisherSteps,
        SubscriberSteps, ManagerSteps, ListSteps, LocalsFit, Fits,
        Calm, Moves, KeepsPlace, At, Step, NoJob, OthersUnchanged, listVars,
        sessionVars, aroundVars, historyVars, Handles
<1>1. CASE CreateFind(w)
  BY <1>1 DEF CreateFind
<1>2. CASE CreateBox(w)
  BY <1>2 DEF CreateBox
<1>3. CASE CreateReply(w)
  BY <1>3 DEF CreateReply
<1>4. CASE CreateClose(w)
  BY <1>4 DEF CreateClose
<1>5. CASE RemoveBox(w)
  BY <1>5 DEF RemoveBox
<1>6. CASE RemoveReply(w)
  <2>1. \/ GoToAndBroadcast(w, "idle") /\ job' = [job EXCEPT ![w] = NoJob]
        \/ Return(w)
    BY <1>6 DEF RemoveReply, GoToAndBroadcast
  <2>2. pc[w] = "removeReply" /\ boxes' = boxes /\ lapses' = lapses
    BY <1>6 DEF RemoveReply
  <2> QED
    BY <2>1, <2>2, BroadcastMoves
<1>7. CASE ListFind(w)
  <2>1. Return(w) \/ (GoTo(w, "listNext") /\ Remember(w, "index", 0))
    BY <1>7 DEF ListFind
  <2>2. pc[w] = "listFind" /\ boxes' = boxes /\ lapses' = lapses
    BY <1>7 DEF ListFind
  <2>3. 0 \in Slots \cup {-1, MAX_DIR_ENTRIES}
    BY BrokerAssumption DEF Slots
  <2> QED
    BY <2>1, <2>2, <2>3, IndexMoves
<1>8. CASE ListNext(w)
  <2>1. \/ Return(w)
        \/ /\ job[w].index \in Slots
           /\ Remember(w, "index", job[w].index + 1) /\ pc' = pc
        \/ /\ GoTo(w, "listRead") /\ job[w].index \in Slots
           /\ \E h \in Handles \ {-1} :
                 job' = [job EXCEPT
                            ![w].fh = h, ![w].last = job[w].last \/ IsLast(w)]
    BY <1>8 DEF ListNext
  <2>2. pc[w] = "listNext" /\ boxes' = boxes /\ lapses' = lapses
    BY <1>8 DEF ListNext
  <2>3. job[w].index \in Slots =>
            job[w].index + 1 \in Slots \cup {-1, MAX_DIR_ENTRIES}
    BY BrokerAssumption DEF Slots
  <2>5. CASE Return(w)
    BY <2>2, <2>5
  <2>6. CASE /\ job[w].index \in Slots
             /\ Remember(w, "index", job[w].index + 1) /\ pc' = pc
    BY <2>2, <2>3, <2>6, IndexMoves, PcStays
  <2>7. CASE /\ GoTo(w, "listRead") /\ job[w].index \in Slots
             /\ \E h \in Handles \ {-1} :
                   job' = [job EXCEPT
                      ![w].fh = h, ![w].last = job[w].last \/ IsLast(w)]
    <3>1. JobKeeps(w) /\ job'[w].fh # -1
      BY <2>7, ListingOpens, ZenonT(60)
    <3> QED
      BY <2>2, <2>7, <3>1, ZenonT(60)
  <2> QED
    BY <2>1, <2>5, <2>6, <2>7
<1>9. CASE ListRead(w)
  BY <1>9 DEF ListRead
<1>10. CASE ListClose(w)
  BY <1>10 DEF ListClose
<1>11. CASE ListSend(w)
  <2>1. \/ Return(w)
        \/ /\ GoTo(w, "listNext")
           /\ job' = [job EXCEPT ![w].index = @ + 1,
                                 ![w].boxes_listed = @ + 1]
    BY <1>11 DEF ListSend
  <2>2. pc[w] = "listSend" /\ boxes' = boxes /\ lapses' = lapses
    BY <1>11 DEF ListSend
  <2> QED
    BY <2>1, <2>2, ListingAdvances
<1>12. CASE CreateList(w)
  <2>1. PICK i \in Slots \cup {-1} :
           /\ Remember(w, "index", i)
           /\ GoTo(w, IF i = -1 THEN "createReply" ELSE "createName")
    BY <1>12 DEF CreateList
  <2>2. pc[w] = "createList" /\ boxes' = boxes /\ lapses' = lapses
    BY <1>12 DEF CreateList
  <2> QED
    BY <2>1, <2>2, IndexMoves
<1>13. CASE CreateActive(w) \/ RemoveActive(w)
  <2>1. /\ \/ Step(w, "createActive", "createActivated")
           \/ Step(w, "removeActive", "removeActivated")
        /\ Remember(w, "count", active_boxes) /\ boxes' = boxes /\ lapses' = lapses
    BY <1>13 DEF CreateActive, RemoveActive, LoadActive
  <2>2. active_boxes \in Int
    BY DEF Types
  <2> QED
    BY <2>1, <2>2
<1>14. CASE CreateActivated(w)
  <2>1. /\ Step(w, "createActivated", "createReply")
        /\ Remember(w, "count", 0) /\ boxes' = boxes /\ lapses' = lapses
    BY <1>14 DEF CreateActivated, StoreActive
  <2> QED
    BY <2>1
<1>15. CASE RemoveActivated(w)
  <2>1. /\ At(w, "removeActivated") /\ GoToAndBroadcast(w, "removeReply")
        /\ Remember(w, "count", 0) /\ boxes' = boxes /\ lapses' = lapses
    BY <1>15 DEF RemoveActivated, StoreActive
  <2> QED
    BY <2>1, BroadcastMoves
<1> QED
  BY <1>1, <1>2, <1>3, <1>4, <1>5, <1>6, <1>7, <1>8, <1>9, <1>10, <1>11, <1>12,
     <1>13, <1>14, <1>15

-----------------------------------------------------------------------------
(* What a step does to the list, to the places in it and to the counts.    *)

\* What moves beside w: nobody's place in the list.
LEMMA OthersKeepTheirPlaces ==
    ASSUME NEW w \in Workers, PcMoves(w, pc'[w]), JobMoves(w, job'[w]),
           NEW v \in Workers \ {w}
    PROVE  /\ job'[v] = job[v]
           /\ pc'[v] \in Finders <=> pc[v] \in Finders
           /\ pc'[v] \in Asking <=> pc[v] \in Asking
           /\ pc'[v] \in Publishing <=> pc[v] \in Publishing
           /\ pc'[v] \in Subscribed <=> pc[v] \in Subscribed
           /\ pc'[v] = "removeTest" <=> pc[v] = "removeTest"
           /\ pc'[v] = "removeBox" <=> pc[v] = "removeBox"
           /\ Fits(pc[v], job[v]) => Fits(pc'[v], job'[v])
BY DEF PcMoves, JobMoves, Placed, Finders, Asking, Publishing, Subscribed,
       PublisherSteps, SubscriberSteps, ManagerSteps, Fits

\* The names of the list: none changes, or one place gets a name, or loses it,
\* and what goes wrong is known.
Naming ==
    \/ \A i \in Slots : boxes'[i].box_name = boxes[i].box_name
    \/ \E i \in Slots, name \in Names \cup {NoName} :
          /\ boxes'[i].box_name = name
          /\ \A j \in Slots \ {i} : boxes'[j].box_name = boxes[j].box_name
          /\ "removed" \notin lapses' => \A v \in Workers : ~HasFound(v, i)
          /\ \/ name = NoName
             \/ "doubled" \notin lapses' =>
                   \A j \in Slots : boxes[j].box_name # name

\* Who counts on a place has had it, or found it just now.
Finding(w) ==
    pc'[w] \in Finders =>
        \/ pc[w] \in Finders /\ KeepsPlace(w)
        \/ /\ pc'[w] \in {"pubTest", "removeTest"} /\ UNCHANGED boxes
           /\ IsBoxIndex(job'[w].index, job'[w].name)

\* Who is about to be counted, or to unlink a box, has read a count of zero.
ReadsZero(w) == job[w].index # -1 => boxes[job[w].index].publishers < 1

Testing(w) ==
    /\ pc'[w] \in Asking =>
          \/ pc[w] \in Asking /\ KeepsPlace(w)
          \/ /\ pc[w] = "pubTest" /\ KeepsPlace(w) /\ ReadsZero(w)
             /\ job[w].index \in Slots
    /\ pc'[w] = "removeTest" =>
          \/ pc[w] = "removeTest" /\ KeepsPlace(w)
          \/ IsBoxIndex(job'[w].index, job'[w].name) /\ UNCHANGED boxes
    /\ pc'[w] = "removeBox" =>
          \/ pc[w] = "removeBox" /\ KeepsPlace(w)
          \/ /\ pc[w] = "removeTest" /\ KeepsPlace(w) /\ ReadsZero(w)
             /\ job[w].index \in Slots \cup {-1}

\* Who is counted as a publisher was before, or nobody else had asked.
Publishes(w) ==
    pc'[w] \in Publishing =>
        \/ pc[w] \in Publishing /\ KeepsPlace(w)
        \/ /\ pc[w] = "pubStore" /\ KeepsPlace(w)
           /\ "raced" \notin lapses' =>
                 \A v \in Workers \ {w} : ~HasAsked(v, w)

\* The counts before, n, and after, m: a store is lost, nobody comes or goes,
\* a session ends and stays counted, w comes, or w goes.
Counting(w, steps, n, m, lost) ==
    \/ lost \in lapses'
    \/ /\ \A i \in Slots : m[i] = n[i]
       /\ pc'[w] \in steps => pc[w] \in steps /\ KeepsPlace(w)
       /\ pc[w] \in steps => pc'[w] \in steps \/ "uncounted" \in lapses'
    \/ /\ pc[w] \notin steps /\ pc'[w] \in steps /\ KeepsPlace(w)
       /\ \A i \in Slots : m[i] = n[i] + (IF i = job[w].index THEN 1 ELSE 0)
    \/ /\ pc[w] \in steps /\ pc'[w] \notin steps
       /\ \A i \in Slots : m[i] = n[i] - (IF i = job[w].index THEN 1 ELSE 0)

PublishersOf == [i \in Slots |-> boxes[i].publishers]
SubscribersOf == [i \in Slots |-> boxes[i].subscribers]

Counts(w) ==
    /\ Counting(w, Publishing, PublishersOf, PublishersOf', "lostPublishers")
    /\ Counting(w, Subscribed, SubscribersOf, SubscribersOf', "lostSubscribers")

Effect(w) ==
    /\ boxes' \in [Slots -> Box]
    /\ lapses \subseteq lapses' /\ lapses' \subseteq Lapses
    /\ Moves(w) /\ Naming /\ Finding(w) /\ Testing(w) /\ Publishes(w) /\ Counts(w)

LEMMA CalmEffect == ASSUME Types, NEW w, Calm(w) PROVE Effect(w)
<1>1. Naming /\ Finding(w) /\ Testing(w) /\ Publishes(w)
  BY DEF Calm, Naming, Finding, Testing, Publishes, Finders, Asking, Publishing,
         PublisherSteps
<1>2. Counts(w)
  BY DEF Calm, Counts, Counting, PublishersOf, SubscribersOf, Finders, Publishing,
         PublisherSteps
<1> QED
  BY <1>1, <1>2 DEF Calm, Effect, Types

\* The fields of a place one by one.
LEMMA FieldChanges ==
    ASSUME Types, NEW i \in Slots
    PROVE  /\ \A n \in Int :
                 [boxes EXCEPT ![i].publishers = n] \in [Slots -> Box]
           /\ \A n \in Int :
                 [boxes EXCEPT ![i].subscribers = n] \in [Slots -> Box]
           /\ \A name \in Names \cup {NoName} :
                 [boxes EXCEPT ![i].box_name = name] \in [Slots -> Box]
BY DEF Types, Box

\* A step that leaves list and lapses alone, and one that changes a place.
LEMMA QuietEffect ==
    ASSUME Types, NEW w, UNCHANGED <<boxes, lapses>>, Moves(w), Finding(w), Testing(w),
           pc[w] \notin Publishing \cup Subscribed,
           pc'[w] \notin Publishing \cup Subscribed
    PROVE  Effect(w)
<1>1. Naming /\ Publishes(w)
  BY DEF Naming, Publishes
<1>2. Counts(w)
  BY DEF Counts, Counting, PublishersOf, SubscribersOf
<1> QED
  BY <1>1, <1>2 DEF Effect, Types

LEMMA FoundIndex ==
    ASSUME NEW i \in Slots \cup {-1}, NEW name, IsBoxIndex(i, name)
    PROVE  /\ i \in Slots => boxes[i].box_name = name
           /\ i = -1 => i \notin Slots /\ \A j \in Slots : boxes[j].box_name # name
BY BrokerAssumption DEF IsBoxIndex, Slots

LEMMA FindEffects ==
    ASSUME Types, LocalsFit, NEW w \in Workers, PubFind(w) \/ SubFind(w) \/ RemoveFind(w)
    PROVE  Effect(w)
<1> USE GoToMoves, ReturnMoves, MovesTo
    DEF Places, Placed, Publishing, Subscribed, Finders, Asking, PublisherSteps,
        SubscriberSteps, ManagerSteps, ListSteps, LocalsFit, Fits, NoJob, Moves
<1>1. /\ pc[w] \in {"pubFind", "subFind", "removeFind"} /\ UNCHANGED <<boxes, lapses>>
      /\ PubFind(w) => pc[w] = "pubFind"
      /\ SubFind(w) => pc[w] = "subFind"
      /\ RemoveFind(w) => pc[w] = "removeFind"
  BY DEF PubFind, SubFind, RemoveFind, At, OthersUnchanged, listVars, aroundVars,
         historyVars
<1>2. CASE Return(w)
  <2>1. Moves(w) /\ pc'[w] = "idle"
    BY <1>2
  <2>2. Finding(w) /\ Testing(w)
    BY <2>1 DEF Finding, Testing
  <2> QED
    BY <1>1, <2>1, <2>2, QuietEffect
<1>3. ASSUME NEW i \in Slots \cup {-1}, IsBoxIndex(i, job[w].name),
             Remember(w, "index", i), NEW to \in {"pubTest", "subCount", "removeTest"},
             GoTo(w, to), i = -1 => to = "removeTest",
             job[w].name \in Names
      PROVE  Effect(w)
  <2>1. /\ JobMoves(w, job'[w]) /\ job'[w].index = i
        /\ job'[w].name = job[w].name
    BY <1>3, IndexMoves
  <2>2. PcMoves(w, to) /\ pc'[w] = to
    BY <1>3
  <2>3. Moves(w)
    BY <1>3, <2>1, <2>2
  <2>4. IsBoxIndex(job'[w].index, job'[w].name)
    BY <1>3, <2>1
  <2>5. Finding(w) /\ Testing(w)
    BY <1>1, <2>2, <2>4 DEF Finding, Testing
  <2> QED
    BY <1>1, <2>2, <2>3, <2>5, QuietEffect
<1>4. job[w].name \in Names
  BY <1>1
<1>5. CASE PubFind(w)
  BY <1>2, <1>3, <1>4, <1>5 DEF PubFind
<1>6. CASE SubFind(w)
  BY <1>2, <1>3, <1>4, <1>6 DEF SubFind
<1>7. CASE RemoveFind(w)
  BY <1>2, <1>3, <1>4, <1>7 DEF RemoveFind
<1> QED
  BY <1>5, <1>6, <1>7

LEMMA TestEffects ==
    ASSUME Types, LocalsFit, NEW w \in Workers, PubTest(w) \/ RemoveTest(w)
    PROVE  Effect(w)
<1> USE GoToMoves, ReturnMoves, RememberKeeps, MovesTo
    DEF Places, Placed, Publishing, Subscribed, Finders, Asking, PublisherSteps,
        SubscriberSteps, ManagerSteps, ListSteps, LocalsFit, Fits, NoJob, Moves,
        KeepsPlace
<1>1. /\ pc[w] \in {"pubTest", "removeTest"} /\ UNCHANGED <<boxes, lapses>>
      /\ PubTest(w) => pc[w] = "pubTest" /\ job[w].index \in Slots
      /\ RemoveTest(w) => pc[w] = "removeTest" /\ job[w].index \in Slots \cup {-1}
  BY DEF PubTest, RemoveTest, At, OthersUnchanged, listVars, aroundVars, historyVars
<1>2. CASE Return(w)
  <2>1. Moves(w) /\ pc'[w] = "idle"
    BY <1>2
  <2>2. Finding(w) /\ Testing(w)
    BY <2>1 DEF Finding, Testing
  <2> QED
    BY <1>1, <2>1, <2>2, QuietEffect
<1>3. ASSUME UNCHANGED job, ReadsZero(w), NEW to,
             \/ pc[w] = "pubTest" /\ to = "pubCount" /\ job[w].index \in Slots
             \/ /\ pc[w] = "removeTest" /\ to = "removeBox"
                /\ job[w].index \in Slots \cup {-1},
             GoTo(w, to)
      PROVE  Effect(w)
  <2>1. KeepsPlace(w) /\ JobMoves(w, job'[w])
    BY <1>3
  <2>2. PcMoves(w, to) /\ pc'[w] = to
    BY <1>3
  <2>3. Moves(w)
    BY <1>3, <2>1, <2>2
  <2>4. Finding(w) /\ Testing(w)
    BY <1>3, <2>1, <2>2 DEF Finding, Testing
  <2> QED
    BY <1>1, <1>3, <2>2, <2>3, <2>4, QuietEffect
<1>4. CASE PubTest(w)
  <2>1. boxes[job[w].index].publishers \in Int
    BY <1>1, <1>4 DEF Types, Box
  <2> QED
    BY <1>1, <1>2, <1>3, <1>4, <2>1 DEF PubTest, ReadsZero
<1>5. CASE RemoveTest(w)
  BY <1>1, <1>2, <1>3, <1>5 DEF RemoveTest, ReadsZero
<1> QED
  BY <1>4, <1>5

\* A store to a count: it is the count that was loaded, changed by one, or
\* another's store is lost.
StoresPublishers(w, n) ==
    /\ boxes' = [boxes EXCEPT ![job[w].index].publishers = job[w].count + n]
    /\ LosesPublishers(job[w].index, job[w].count) \subseteq lapses'

StoresSubscribers(w, n) ==
    /\ boxes' = [boxes EXCEPT ![job[w].index].subscribers = job[w].count + n]
    /\ LosesSubscribers(job[w].index, job[w].count) \subseteq lapses'

LEMMA StoredCounts ==
    ASSUME Types, NEW w \in Workers, NEW n \in Int, job[w].index \in Slots
    PROVE  /\ StoresPublishers(w, n) =>
                 /\ boxes' \in [Slots -> Box] /\ Naming
                 /\ SubscribersOf' = SubscribersOf
                 /\ \/ "lostPublishers" \in lapses'
                    \/ \A i \in Slots : PublishersOf'[i] = PublishersOf[i]
                                           + (IF i = job[w].index THEN n ELSE 0)
           /\ StoresSubscribers(w, n) =>
                 /\ boxes' \in [Slots -> Box] /\ Naming
                 /\ PublishersOf' = PublishersOf
                 /\ \/ "lostSubscribers" \in lapses'
                    \/ \A i \in Slots : SubscribersOf'[i] = SubscribersOf[i]
                                           + (IF i = job[w].index THEN n ELSE 0)
<1> DEFINE k == job[w].index
           c == job[w].count + n
<1>1. c \in Int /\ boxes \in [Slots -> Box]
  BY DEF Types, Job
<1>2. ASSUME StoresPublishers(w, n)
      PROVE  /\ boxes' \in [Slots -> Box] /\ Naming
             /\ SubscribersOf' = SubscribersOf
             /\ \/ "lostPublishers" \in lapses'
                \/ \A i \in Slots : PublishersOf'[i] = PublishersOf[i]
                                       + (IF i = k THEN n ELSE 0)
  <2>1. boxes' = [boxes EXCEPT ![k].publishers = c]
    BY <1>2 DEF StoresPublishers
  <2>2. \A i \in Slots : /\ boxes'[i].box_name = boxes[i].box_name
                         /\ boxes'[i].subscribers = boxes[i].subscribers
                         /\ i # k => boxes'[i].publishers = boxes[i].publishers
    BY <1>1, <2>1 DEF Box
  <2>3. boxes'[k].publishers = c
    BY <1>1, <2>1 DEF Box
  <2>4. "lostPublishers" \in lapses' \/ boxes[k].publishers = job[w].count
    BY <1>2 DEF StoresPublishers, LosesPublishers
  <2>5. boxes' \in [Slots -> Box]
    BY <1>1, <2>1, FieldChanges
  <2>6. \A i \in Slots : boxes[i].publishers \in Int
    BY <1>1 DEF Box
  <2> HIDE DEF k
  <2> QED
    BY <2>2, <2>3, <2>4, <2>5, <2>6 DEF Naming, SubscribersOf, PublishersOf
<1>3. ASSUME StoresSubscribers(w, n)
      PROVE  /\ boxes' \in [Slots -> Box] /\ Naming
             /\ PublishersOf' = PublishersOf
             /\ \/ "lostSubscribers" \in lapses'
                \/ \A i \in Slots : SubscribersOf'[i] = SubscribersOf[i]
                                       + (IF i = k THEN n ELSE 0)
  <2>1. boxes' = [boxes EXCEPT ![k].subscribers = c]
    BY <1>3 DEF StoresSubscribers
  <2>2. \A i \in Slots : /\ boxes'[i].box_name = boxes[i].box_name
                         /\ boxes'[i].publishers = boxes[i].publishers
                         /\ i # k => boxes'[i].subscribers = boxes[i].subscribers
    BY <1>1, <2>1 DEF Box
  <2>3. boxes'[k].subscribers = c
    BY <1>1, <2>1 DEF Box
  <2>4. "lostSubscribers" \in lapses' \/ boxes[k].subscribers = job[w].count
    BY <1>3 DEF StoresSubscribers, LosesSubscribers
  <2>5. boxes' \in [Slots -> Box]
    BY <1>1, <2>1, FieldChanges
  <2>6. \A i \in Slots : boxes[i].subscribers \in Int
    BY <1>1 DEF Box
  <2> HIDE DEF k
  <2> QED
    BY <2>2, <2>3, <2>4, <2>5, <2>6 DEF Naming, SubscribersOf, PublishersOf
<1> QED
  BY <1>2, <1>3

LEMMA StoreEffects ==
    ASSUME Types, LocalsFit, NEW w \in Workers,
           PubStore(w) \/ PubLeft(w) \/ SubStore(w) \/ SubLeft(w)
    PROVE  Effect(w)
<1> USE DEF Places, Placed, Publishing, Subscribed, Finders, Asking, PublisherSteps,
            SubscriberSteps, ManagerSteps, ListSteps
<1>1. /\ PubStore(w) => pc[w] = "pubStore"
      /\ PubLeft(w) => pc[w] = "pubLeft"
      /\ SubStore(w) => pc[w] = "subStore"
      /\ SubLeft(w) => pc[w] = "subLeft"
  BY DEF PubStore, PubLeft, SubStore, SubLeft, Step, At
<1>2. job[w].index \in Slots /\ job[w].name \in Names
  BY <1>1 DEF LocalsFit, Fits
<1>3. 1 \in Int /\ -1 \in Int /\ job[w].count \in Int
  BY DEF Types, Job
<1>4. lapses \subseteq lapses' /\ lapses' \subseteq Lapses
  BY DEF Types, Lapses, PubStore, PubLeft, SubStore, SubLeft, Lapse, Races,
         LosesPublishers, LosesSubscribers
<1>5. CASE PubStore(w)
  <2>1. StoresPublishers(w, 1)
    BY <1>5 DEF PubStore, Lapse, StoresPublishers
  <2>2. /\ boxes' \in [Slots -> Box] /\ Naming /\ SubscribersOf' = SubscribersOf
        /\ \/ "lostPublishers" \in lapses'
           \/ \A i \in Slots : PublishersOf'[i] = PublishersOf[i]
                                  + (IF i = job[w].index THEN 1 ELSE 0)
    BY <1>2, <1>3, <2>1, StoredCounts
  <2>3. /\ KeepsPlace(w) /\ JobMoves(w, job'[w])
        /\ pc'[w] = "pubRead" /\ PcMoves(w, pc'[w])
    BY <1>5, GoToMoves, RememberKeeps, MovesTo DEF PubStore, Step, KeepsPlace
  <2>4. Moves(w)
    BY <1>2, <2>3 DEF Moves, Fits, KeepsPlace
  <2>5. "raced" \notin lapses' => \A v \in Workers \ {w} : ~HasAsked(v, w)
    BY <1>5 DEF PubStore, Lapse, Races
  <2>6. Finding(w) /\ Testing(w) /\ Publishes(w)
    BY <1>1, <1>5, <2>3, <2>5 DEF Finding, Testing, Publishes
  <2>7. Counts(w)
    BY <1>1, <1>5, <2>2, <2>3 DEF Counts, Counting
  <2> QED
    BY <1>4, <2>2, <2>4, <2>6, <2>7 DEF Effect
<1>6. CASE PubLeft(w)
  <2>1. StoresPublishers(w, -1)
    BY <1>3, <1>6 DEF PubLeft, Lapse, StoresPublishers
  <2>2. /\ boxes' \in [Slots -> Box] /\ Naming /\ SubscribersOf' = SubscribersOf
        /\ \/ "lostPublishers" \in lapses'
           \/ \A i \in Slots : PublishersOf'[i] = PublishersOf[i]
                                  + (IF i = job[w].index THEN -1 ELSE 0)
    BY <1>2, <1>3, <2>1, StoredCounts
  <2>3. PcMoves(w, "idle") /\ JobMoves(w, NoJob)
    BY <1>6, ReturnMoves DEF PubLeft
  <2>4. Moves(w) /\ pc'[w] = "idle"
    BY <2>3, MovesTo DEF Moves, Fits
  <2>5. Finding(w) /\ Testing(w) /\ Publishes(w)
    BY <2>4 DEF Finding, Testing, Publishes
  <2>6. \A i \in Slots : PublishersOf[i] \in Int
    BY DEF PublishersOf, Types, Box
  <2>7. \/ "lostPublishers" \in lapses'
        \/ \A i \in Slots : PublishersOf'[i] = PublishersOf[i]
                               - (IF i = job[w].index THEN 1 ELSE 0)
    BY <2>2, <2>6
  <2>8. Counts(w)
    BY <1>1, <1>6, <2>2, <2>4, <2>7 DEF Counts, Counting
  <2> QED
    BY <1>4, <2>2, <2>4, <2>5, <2>8 DEF Effect
<1>7. CASE SubStore(w)
  <2>1. StoresSubscribers(w, 1)
    BY <1>7 DEF SubStore, Lapse, StoresSubscribers
  <2>2. /\ boxes' \in [Slots -> Box] /\ Naming /\ PublishersOf' = PublishersOf
        /\ \/ "lostSubscribers" \in lapses'
           \/ \A i \in Slots : SubscribersOf'[i] = SubscribersOf[i]
                                  + (IF i = job[w].index THEN 1 ELSE 0)
    BY <1>2, <1>3, <2>1, StoredCounts
  <2>3. /\ KeepsPlace(w) /\ JobMoves(w, job'[w])
        /\ pc'[w] = "subOpenBox" /\ PcMoves(w, pc'[w])
    BY <1>7, GoToMoves, RememberKeeps, MovesTo DEF SubStore, Step, KeepsPlace
  <2>4. Moves(w)
    BY <1>2, <2>3 DEF Moves, Fits, KeepsPlace
  <2>5. Finding(w) /\ Testing(w) /\ Publishes(w)
    BY <2>3 DEF Finding, Testing, Publishes
  <2>6. Counts(w)
    BY <1>1, <1>7, <2>2, <2>3 DEF Counts, Counting
  <2> QED
    BY <1>4, <2>2, <2>4, <2>5, <2>6 DEF Effect
<1>8. CASE SubLeft(w)
  <2>1. StoresSubscribers(w, -1)
    BY <1>3, <1>8 DEF SubLeft, Lapse, StoresSubscribers
  <2>2. /\ boxes' \in [Slots -> Box] /\ Naming /\ PublishersOf' = PublishersOf
        /\ \/ "lostSubscribers" \in lapses'
           \/ \A i \in Slots : SubscribersOf'[i] = SubscribersOf[i]
                                  + (IF i = job[w].index THEN -1 ELSE 0)
    BY <1>2, <1>3, <2>1, StoredCounts
  <2>3. PcMoves(w, "idle") /\ JobMoves(w, NoJob)
    BY <1>8, ReturnMoves DEF SubLeft
  <2>4. Moves(w) /\ pc'[w] = "idle"
    BY <2>3, MovesTo DEF Moves, Fits
  <2>5. Finding(w) /\ Testing(w) /\ Publishes(w)
    BY <2>4 DEF Finding, Testing, Publishes
  <2>6. \A i \in Slots : SubscribersOf[i] \in Int
    BY DEF SubscribersOf, Types, Box
  <2>7. \/ "lostSubscribers" \in lapses'
        \/ \A i \in Slots : SubscribersOf'[i] = SubscribersOf[i]
                               - (IF i = job[w].index THEN 1 ELSE 0)
    BY <2>2, <2>6
  <2>8. Counts(w)
    BY <1>1, <1>8, <2>2, <2>4, <2>7 DEF Counts, Counting
  <2> QED
    BY <1>4, <2>2, <2>4, <2>5, <2>8 DEF Effect
<1> QED
  BY <1>5, <1>6, <1>7, <1>8

LEMMA BreakEffects ==
    ASSUME Types, NEW w \in Workers, PubBreak(w) \/ SubBreak(w)
    PROVE  Effect(w)
<1>1. /\ PcMoves(w, "idle") /\ JobMoves(w, NoJob) /\ boxes' = boxes
      /\ lapses' = lapses \cup {"uncounted"}
  BY ReturnMoves DEF PubBreak, SubBreak, Lapse, listVars
<1>2. Moves(w) /\ pc'[w] = "idle"
  BY <1>1, MovesTo DEF Moves, Fits, Placed, PublisherSteps, SubscriberSteps,
                       ManagerSteps
<1>3. Naming /\ Finding(w) /\ Testing(w) /\ Publishes(w)
  BY <1>1, <1>2 DEF Naming, Finding, Testing, Publishes, Finders, Asking,
                    Publishing, PublisherSteps
<1>4. Counts(w)
  BY <1>1, <1>2 DEF Counts, Counting, PublishersOf, SubscribersOf, Publishing,
                    Subscribed, PublisherSteps, SubscriberSteps
<1> QED
  BY <1>1, <1>2, <1>3, <1>4 DEF Effect, Types, Lapses

\* A manager's stores into the list.
Managed == ManagerSteps \ {"removeTest", "removeBox"}

LEMMA ManagedEffect ==
    ASSUME NEW w \in Workers, boxes' \in [Slots -> Box],
           lapses \subseteq lapses', lapses' \subseteq Lapses, Moves(w),
           pc[w] \in Managed, pc'[w] \in Managed, Naming,
           "lostPublishers" \in lapses' \/ PublishersOf' = PublishersOf,
           "lostSubscribers" \in lapses' \/ SubscribersOf' = SubscribersOf
    PROVE  Effect(w)
<1> USE DEF Managed, ManagerSteps, PublisherSteps, SubscriberSteps, Finders, Asking,
            Publishing, Subscribed
<1>1. Finding(w) /\ Testing(w) /\ Publishes(w)
  BY DEF Finding, Testing, Publishes
<1>2. Counts(w)
  BY DEF Counts, Counting
<1> QED
  BY <1>1, <1>2 DEF Effect

LEMMA NamedEffects ==
    ASSUME Types, LocalsFit, NEW w \in Workers, CreateName(w) \/ RemoveList(w)
    PROVE  Effect(w)
<1> USE DEF Managed, Places, Placed, ManagerSteps, PublisherSteps, SubscriberSteps,
            ListSteps
<1> DEFINE i == job[w].index
<1>1. /\ CreateName(w) => pc[w] = "createName" /\ pc'[w] = "createPublishers"
      /\ RemoveList(w) => pc[w] = "removeList" /\ pc'[w] = "removePublishers"
      /\ PcMoves(w, pc'[w]) /\ JobMoves(w, job'[w]) /\ job' = job
  BY GoToMoves, MovesTo, RememberKeeps DEF CreateName, RemoveList, Step, At
<1>2. /\ job[w].name \in Names /\ i \in Slots \cup {-1}
      /\ CreateName(w) => i \in Slots
  BY <1>1 DEF LocalsFit, Fits
<1>3. Moves(w)
  BY <1>1, <1>2 DEF Moves, Fits
<1>4. lapses \subseteq lapses' /\ lapses' \subseteq Lapses
  BY DEF Types, Lapses, CreateName, RemoveList, Lapse, TakesAway, Doubles
<1>5. ASSUME i \in Slots, NEW name \in Names \cup {NoName},
             boxes' = [boxes EXCEPT ![i].box_name = name], TakesAway(i) \subseteq lapses',
             name = NoName \/ Doubles(name) \subseteq lapses'
      PROVE  Effect(w)
  <2>1. boxes' \in [Slots -> Box]
    BY <1>5, FieldChanges
  <2>2. /\ boxes'[i].box_name = name
        /\ \A j \in Slots \ {i} : boxes'[j].box_name = boxes[j].box_name
        /\ \A j \in Slots : /\ boxes'[j].publishers = boxes[j].publishers
                            /\ boxes'[j].subscribers = boxes[j].subscribers
    BY <1>5 DEF Types, Box
  <2>3. /\ "removed" \notin lapses' => \A v \in Workers : ~HasFound(v, i)
        /\ \/ name = NoName
           \/ "doubled" \notin lapses' => \A j \in Slots : boxes[j].box_name # name
    BY <1>5 DEF TakesAway, Doubles
  <2> HIDE DEF i
  <2>4. Naming
    BY <1>5, <2>2, <2>3 DEF Naming
  <2>5. PublishersOf' = PublishersOf /\ SubscribersOf' = SubscribersOf
    BY <2>2 DEF PublishersOf, SubscribersOf
  <2> QED
    BY <1>1, <1>3, <1>4, <2>1, <2>4, <2>5, ManagedEffect
<1>6. CASE CreateName(w)
  BY <1>2, <1>5, <1>6 DEF CreateName, Lapse
<1>7. CASE RemoveList(w) /\ i # -1
  BY <1>2, <1>5, <1>7 DEF RemoveList, Lapse
<1>8. CASE RemoveList(w) /\ i = -1
  <2>1. boxes' = boxes
    BY <1>8 DEF RemoveList
  <2>2. Naming /\ PublishersOf' = PublishersOf /\ SubscribersOf' = SubscribersOf
    BY <2>1 DEF Naming, PublishersOf, SubscribersOf
  <2> QED
    BY <1>1, <1>3, <1>4, <1>8, <2>1, <2>2, ManagedEffect DEF Types
<1> QED
  BY <1>6, <1>7, <1>8

Clears(w) ==
    \/ CreatePublishers(w) \/ RemovePublishers(w)
    \/ CreateSubscribers(w) \/ RemoveSubscribers(w)

LEMMA ClearEffects ==
    ASSUME Types, LocalsFit, NEW w \in Workers, Clears(w)
    PROVE  Effect(w)
<1> USE DEF Managed, Places, Placed, ManagerSteps, PublisherSteps, SubscriberSteps,
            ListSteps
<1> DEFINE i == job[w].index
<1>1. PICK from \in Managed, to \in Managed \cap {"createSubscribers", "createActive",
                                         "removeSubscribers", "removeActive"} :
         /\ ClearPublishers(w, from, to) \/ ClearSubscribers(w, from, to)
         /\ \/ from = "createPublishers" /\ to = "createSubscribers"
            \/ to # "createSubscribers"
  BY DEF Clears, CreatePublishers, RemovePublishers, CreateSubscribers,
         RemoveSubscribers
<1>2. /\ pc[w] = from /\ pc'[w] = to
      /\ PcMoves(w, pc'[w]) /\ JobMoves(w, job'[w]) /\ job' = job
  BY <1>1, GoToMoves, MovesTo, RememberKeeps DEF ClearPublishers, ClearSubscribers,
                                                 Step, At
<1>3. /\ job[w].name \in Names /\ i \in Slots \cup {-1}
      /\ from = "createPublishers" => i \in Slots
  BY <1>2 DEF LocalsFit, Fits
<1>4. Moves(w)
  BY <1>1, <1>2, <1>3 DEF Moves, Fits
<1>5. CASE i = -1
  <2>1. UNCHANGED <<boxes, lapses>>
    BY <1>1, <1>5 DEF ClearPublishers, ClearSubscribers
  <2>2. Naming /\ PublishersOf' = PublishersOf /\ SubscribersOf' = SubscribersOf
    BY <2>1 DEF Naming, PublishersOf, SubscribersOf
  <2> QED
    BY <1>2, <1>4, <2>1, <2>2, ManagedEffect DEF Types
<1>6. CASE i \in Slots /\ ClearPublishers(w, from, to)
  <2>1. i # -1
    BY <1>6, BrokerAssumption DEF Slots
  <2>2. /\ boxes' = [boxes EXCEPT ![i].publishers = 0]
        /\ lapses' = lapses \cup LosesPublishers(i, 0)
    BY <1>6, <2>1 DEF ClearPublishers, Lapse
  <2>3. boxes' \in [Slots -> Box] /\ lapses' \subseteq Lapses
    BY <1>6, <2>2, FieldChanges DEF Types, Lapses, LosesPublishers
  <2>4. /\ \A j \in Slots : /\ boxes'[j].box_name = boxes[j].box_name
                            /\ boxes'[j].subscribers = boxes[j].subscribers
                            /\ j # i => boxes'[j].publishers = boxes[j].publishers
        /\ boxes'[i].publishers = 0
    BY <1>6, <2>2 DEF Types, Box
  <2>5. "lostPublishers" \in lapses' \/ boxes[i].publishers = 0
    BY <2>2 DEF LosesPublishers
  <2> HIDE DEF i
  <2>6. /\ Naming /\ SubscribersOf' = SubscribersOf
        /\ "lostPublishers" \in lapses' \/ PublishersOf' = PublishersOf
    BY <2>4, <2>5 DEF Naming, PublishersOf, SubscribersOf
  <2> QED
    BY <1>2, <1>4, <2>2, <2>3, <2>6, ManagedEffect
<1>7. CASE i \in Slots /\ ClearSubscribers(w, from, to)
  <2>1. i # -1
    BY <1>7, BrokerAssumption DEF Slots
  <2>2. /\ boxes' = [boxes EXCEPT ![i].subscribers = 0]
        /\ lapses' = lapses \cup LosesSubscribers(i, 0)
    BY <1>7, <2>1 DEF ClearSubscribers, Lapse
  <2>3. boxes' \in [Slots -> Box] /\ lapses' \subseteq Lapses
    BY <1>7, <2>2, FieldChanges DEF Types, Lapses, LosesSubscribers
  <2>4. /\ \A j \in Slots : /\ boxes'[j].box_name = boxes[j].box_name
                            /\ boxes'[j].publishers = boxes[j].publishers
                            /\ j # i => boxes'[j].subscribers = boxes[j].subscribers
        /\ boxes'[i].subscribers = 0
    BY <1>7, <2>2 DEF Types, Box
  <2>5. "lostSubscribers" \in lapses' \/ boxes[i].subscribers = 0
    BY <2>2 DEF LosesSubscribers
  <2> HIDE DEF i
  <2>6. /\ Naming /\ PublishersOf' = PublishersOf
        /\ "lostSubscribers" \in lapses' \/ SubscribersOf' = SubscribersOf
    BY <2>4, <2>5 DEF Naming, PublishersOf, SubscribersOf
  <2> QED
    BY <1>2, <1>4, <2>2, <2>3, <2>6, ManagedEffect
<1> QED
  BY <1>1, <1>3, <1>5, <1>6, <1>7

\* main moves nobody, but a broadcast of its own wakes.
LEMMA AloneCalm ==
    ASSUME Types, LocalsFit, UNCHANGED <<boxes, lapses, job>>, NEW w \in Workers,
           pc' = pc \/ pc' = Woken(pc)
    PROVE  Calm(w)
<1>1. PcMoves(w, pc'[w])
  BY DEF Types, PcMoves, Woken, Places, SubscriberSteps
<1>2. JobMoves(w, job'[w])
  BY DEF Types, JobMoves
<1>3. pc'[w] = pc[w] \/ (pc[w] = "subWaiting" /\ pc'[w] = "subProbe")
  BY DEF Types, Woken
<1> QED
  BY <1>1, <1>2, <1>3 DEF Calm, Moves, KeepsPlace, LocalsFit, Fits, Placed, Finders,
                          Asking, Publishing, Subscribed, PublisherSteps,
                          SubscriberSteps, ManagerSteps

LEMMA AcceptCalm ==
    ASSUME Types, LocalsFit, NEW w \in Workers, NEW step \in FirstSteps,
           NEW name \in Names, Accept(w, step, name)
    PROVE  Calm(w)
<1> USE DEF FirstSteps, Places, Placed, Publishing, Subscribed, Finders, Asking,
            PublisherSteps, SubscriberSteps, ManagerSteps, ListSteps
<1> DEFINE locals == [NoJob EXCEPT !.name = IF step = "listFind" THEN NoName ELSE name]
<1>1. PcMoves(w, step)
  BY BroadcastMoves DEF Accept
<1>2. locals \in Job /\ (step # "listFind" => locals.name \in Names)
      /\ locals.index = -1
  <2>1. NoJob \in Job
    BY DEF NoJob, Job, Handles
  <2> QED
    BY <2>1 DEF NoJob, Job
<1>3. job' = [job EXCEPT ![w] = locals]
  BY DEF Accept
<1> HIDE DEF locals
<1>4. JobMoves(w, locals)
  BY <1>2, <1>3 DEF Types, JobMoves
<1>5. pc[w] = "idle" /\ UNCHANGED <<boxes, lapses>>
  BY DEF Accept, At, listVars
<1> QED
  BY <1>1, <1>2, <1>4, <1>5, MovesTo DEF Calm, Moves, Fits

LEMMA WorkerStep ==
    ASSUME Types, LocalsFit, NEW w \in Workers, Running(w) \/ Waiting(w)
    PROVE  Effect(w)
BY SessionCalm, ManagerCalm, CalmEffect, FindEffects, TestEffects, StoreEffects,
   BreakEffects, NamedEffects, ClearEffects DEF Running, Waiting, Clears

LEMMA EveryStep ==
    ASSUME Types, LocalsFit, [Next]_vars
    PROVE  \E w \in Workers : Effect(w)
<1>1. PICK w \in Workers : TRUE
  BY BrokerAssumption
<1>2. CASE Mount \/ Arrive \/ UNCHANGED vars
  <2>1. UNCHANGED <<boxes, lapses, job>> /\ (pc' = pc \/ pc' = Woken(pc))
    BY <1>2 DEF Mount, Arrive, vars, listVars, sessionVars, aroundVars, historyVars
  <2> QED
    BY <1>1, <2>1, AloneCalm, CalmEffect
<1>3. CASE \E v \in Workers, step \in FirstSteps, name \in Names :
              Accept(v, step, name)
  BY <1>3, AcceptCalm, CalmEffect
<1>4. CASE \E v \in Workers : Running(v) \/ Waiting(v)
  BY <1>4, WorkerStep
<1> QED
  BY <1>2, <1>3, <1>4 DEF Next

-----------------------------------------------------------------------------
(* Every step of the broker is a step of the tables.                       *)

\* The steps that only load and store counts and places of the list.
Tells(w) ==
    \/ PubTest(w) \/ PubCount(w) \/ PubStore(w) \/ PubLeave(w) \/ PubLeft(w)
    \/ SubCount(w) \/ SubStore(w) \/ SubLeave(w) \/ SubLeft(w)

Lists(w) ==
    \/ CreateList(w) \/ CreateName(w) \/ CreateActive(w) \/ CreateActivated(w)
    \/ RemoveList(w) \/ RemoveActive(w) \/ RemoveActivated(w) \/ Clears(w)

\* Those that store a count of a place.
Stores(w) == PubStore(w) \/ PubLeft(w) \/ SubStore(w) \/ SubLeft(w)

LEMMA TellingSteps ==
    ASSUME NEW w \in Workers, Tells(w)
    PROVE  /\ status = "mounted" /\ (UNCHANGED boxes \/ Stores(w))
           /\ UNCHANGED <<tfsVars, active_boxes, arrived, queued, overlapped,
                          undisturbed>>
           /\ job' = job \/ Return(w) \/ (\E n : Remember(w, "count", n))
<1> USE DEF At, Step, OthersUnchanged, StoreUnchanged, listVars, aroundVars, historyVars,
            Stores
<1>1. CASE PubTest(w)
  BY <1>1 DEF PubTest
<1>2. CASE PubCount(w) \/ PubLeave(w) \/ SubCount(w) \/ SubLeave(w)
  BY <1>2 DEF PubCount, PubLeave, SubCount, SubLeave
<1>3. CASE PubStore(w)
  BY <1>3 DEF PubStore
<1>4. CASE SubStore(w)
  BY <1>4 DEF SubStore
<1>5. CASE PubLeft(w) \/ SubLeft(w)
  BY <1>5 DEF PubLeft, SubLeft
<1> QED
  BY <1>1, <1>2, <1>3, <1>4, <1>5 DEF Tells

LEMMA ListingSteps ==
    ASSUME NEW w \in Workers, Lists(w)
    PROVE  /\ status = "mounted"
           /\ UNCHANGED boxes \/ CreateName(w) \/ RemoveList(w) \/ Clears(w)
           /\ UNCHANGED active_boxes \/ CreateActivated(w) \/ RemoveActivated(w)
           /\ UNCHANGED <<tfsVars, arrived, queued, overlapped, undisturbed>>
           /\ \/ job' = job \/ (\E n : Remember(w, "count", n))
              \/ \E i : Remember(w, "index", i)
           /\ UNCHANGED active_boxes \/ StoreActive(w, 1) \/ StoreActive(w, -1)
<1> USE DEF At, Step, OthersUnchanged, StoreUnchanged, listVars, aroundVars, historyVars
<1>1. CASE CreateList(w)
  BY <1>1 DEF CreateList
<1>2. CASE CreateName(w) \/ RemoveList(w)
  BY <1>2 DEF CreateName, RemoveList
<1>3. CASE CreateActive(w) \/ RemoveActive(w)
  BY <1>3 DEF CreateActive, RemoveActive, LoadActive
<1>4. CASE CreateActivated(w) \/ RemoveActivated(w)
  BY <1>4 DEF CreateActivated, RemoveActivated, StoreActive
<1>5. CASE Clears(w)
  BY <1>5 DEF Clears, CreatePublishers, RemovePublishers, CreateSubscribers,
              RemoveSubscribers, ClearPublishers, ClearSubscribers
<1> QED
  BY <1>1, <1>2, <1>3, <1>4, <1>5 DEF Lists

\* Which call, if any: the steps that touch no table, and those that do.
LEMMA QuietSteps ==
    ASSUME NEW w \in Workers,
           \/ Tells(w) \/ Lists(w)
           \/ PubFind(w) \/ PubRead(w) \/ PubBreak(w)
           \/ SubFind(w) \/ SubOpenPipe(w) \/ SubWait(w) \/ SpuriousWakeup(w)
           \/ SubSend(w) \/ RemoveFind(w)
    PROVE  TfsStep
BY TellingSteps, ListingSteps DEF TfsStep, PubFind, PubRead, PubBreak, SubFind,
       SubOpenPipe, SubWait, SpuriousWakeup, SubSend, RemoveFind

LEMMA ReplySteps ==
    ASSUME NEW w \in Workers,
           CreateFind(w) \/ CreateReply(w) \/ RemoveTest(w) \/ RemoveReply(w)
           \/ ListFind(w) \/ ListSend(w)
    PROVE  TfsStep
<1>1. UNCHANGED tfsVars => TfsStep
  BY DEF TfsStep
<1> QED
  BY <1>1, WriteFailsCalls DEF CreateFind, CreateReply, RemoveTest, RemoveReply,
                               ListFind, ListSend

LEMMA CallSteps ==
    ASSUME Types, LocalsFit, NEW w \in Workers,
           \/ PubOpenBox(w) \/ PubWrite(w) \/ PubCloseBox(w)
           \/ SubOpenBox(w) \/ SubBreak(w) \/ SubProbe(w) \/ SubProbed(w)
           \/ SubRead(w) \/ SubGone(w)
           \/ CreateBox(w) \/ CreateClose(w) \/ RemoveBox(w)
           \/ ListNext(w) \/ ListRead(w) \/ ListClose(w)
    PROVE  TfsStep
<1> USE DEF PublisherSteps, SubscriberSteps, ManagerSteps, LocalsFit, Fits
<1>1. /\ job[w].fh \in Handles /\ job[w].aux \in Handles
      /\ \A h \in Handles : h # -1 => h \in T!Handles
  BY DEF Types, Job, Handles
<1>2. UNCHANGED tfsVars => TfsStep
  BY DEF TfsStep
<1>3. CASE PubOpenBox(w) \/ SubOpenBox(w) \/ SubProbe(w)
  <2>1. job[w].name \in Names
    BY <1>3 DEF PubOpenBox, SubOpenBox, SubProbe, Step, At
  <2> QED
    BY <1>3, <2>1, OpenCalls DEF PubOpenBox, SubOpenBox, SubProbe
<1>4. CASE \/ PubCloseBox(w) \/ SubBreak(w) \/ SubProbed(w) \/ SubGone(w)
           \/ CreateClose(w) \/ ListClose(w)
  BY <1>1, <1>4, CloseCalls DEF PubCloseBox, SubBreak, SubProbed, SubGone,
                                CreateClose, ListClose
<1>5. CASE PubWrite(w)
  <2>1. job[w].name \in Names
    BY <1>5 DEF PubWrite, Step, At
  <2> QED
    BY <1>1, <1>5, <2>1, WriteCalls DEF PubWrite
<1>6. CASE SubRead(w)
  BY <1>1, <1>2, <1>6, ReadCalls DEF SubRead
<1>7. CASE CreateBox(w)
  <2>1. job[w].name \in Names
    BY <1>7 DEF CreateBox, Step, At
  <2> QED
    BY <1>7, <2>1, CreateCalls DEF CreateBox
<1>8. CASE RemoveBox(w)
  <2>1. job[w].name \in Names
    BY <1>8 DEF RemoveBox, At
  <2> QED
    BY <1>2, <1>8, <2>1, UnlinkCalls DEF RemoveBox
<1>9. CASE ListNext(w)
  <2>1. \A i \in Slots : IsListed(i) => boxes[i].box_name \in Names
    BY DEF Types, Box, IsListed
  <2> QED
    BY <1>2, <1>9, <2>1, OpenCalls DEF ListNext
<1>10. CASE ListRead(w)
  <2>1. job[w].fh # -1
    BY <1>10 DEF ListRead, Step, At
  <2> QED
    BY <1>1, <1>2, <1>10, <2>1, ReadCalls DEF ListRead
<1> QED
  BY <1>3, <1>4, <1>5, <1>6, <1>7, <1>8, <1>9, <1>10

\* Nobody but main writes main's variables, and nobody works on tables that
\* are not mounted.
LEMMA WorkersRun ==
    ASSUME NEW w \in Workers, Running(w) \/ Waiting(w)
    PROVE  /\ status = "mounted"
           /\ UNCHANGED <<arrived, queued, overlapped, undisturbed>>
           /\ UNCHANGED active_boxes \/ StoreActive(w, 1) \/ StoreActive(w, -1)
           /\ \/ UNCHANGED boxes
              \/ Stores(w) \/ CreateName(w) \/ RemoveList(w) \/ Clears(w)
           /\ UNCHANGED active_boxes \/ CreateActivated(w) \/ RemoveActivated(w)
<1> USE DEF At, Step, OthersUnchanged, listVars, sessionVars, aroundVars, historyVars
<1>1. CASE PubFind(w)
  BY <1>1 DEF PubFind
<1>2. CASE PubRead(w)
  BY <1>2 DEF PubRead
<1>3. CASE PubBreak(w)
  BY <1>3 DEF PubBreak
<1>4. CASE PubOpenBox(w)
  BY <1>4 DEF PubOpenBox
<1>5. CASE PubWrite(w)
  BY <1>5 DEF PubWrite
<1>6. CASE PubCloseBox(w)
  BY <1>6 DEF PubCloseBox
<1>7. CASE SubFind(w)
  BY <1>7 DEF SubFind
<1>8. CASE SubOpenBox(w)
  BY <1>8 DEF SubOpenBox
<1>9. CASE SubOpenPipe(w)
  BY <1>9 DEF SubOpenPipe
<1>10. CASE SubBreak(w)
  BY <1>10 DEF SubBreak
<1>11. CASE SubProbe(w)
  BY <1>11 DEF SubProbe
<1>12. CASE SubProbed(w)
  BY <1>12 DEF SubProbed
<1>13. CASE SubRead(w)
  BY <1>13 DEF SubRead
<1>14. CASE SubWait(w)
  BY <1>14 DEF SubWait
<1>15. CASE SpuriousWakeup(w)
  BY <1>15 DEF SpuriousWakeup
<1>16. CASE SubSend(w)
  BY <1>16 DEF SubSend
<1>17. CASE SubGone(w)
  BY <1>17 DEF SubGone
<1>18. CASE CreateFind(w)
  BY <1>18 DEF CreateFind
<1>19. CASE CreateBox(w)
  BY <1>19 DEF CreateBox
<1>20. CASE CreateReply(w)
  BY <1>20 DEF CreateReply
<1>21. CASE CreateClose(w)
  BY <1>21 DEF CreateClose
<1>22. CASE RemoveFind(w)
  BY <1>22 DEF RemoveFind
<1>23. CASE RemoveBox(w)
  BY <1>23 DEF RemoveBox
<1>24. CASE RemoveReply(w)
  BY <1>24 DEF RemoveReply
<1>25. CASE ListFind(w)
  BY <1>25 DEF ListFind
<1>26. CASE ListNext(w)
  BY <1>26 DEF ListNext
<1>27. CASE ListRead(w)
  BY <1>27 DEF ListRead
<1>28. CASE ListClose(w)
  BY <1>28 DEF ListClose
<1>29. CASE ListSend(w)
  BY <1>29 DEF ListSend
<1>30. CASE RemoveTest(w)
  BY <1>30 DEF RemoveTest
<1>31. CASE Tells(w) \/ Lists(w)
  BY <1>31, TellingSteps, ListingSteps
<1> QED
  BY <1>1, <1>2, <1>3, <1>4, <1>5, <1>6, <1>7, <1>8, <1>9, <1>10, <1>11,
     <1>12, <1>13, <1>14, <1>15, <1>16, <1>17, <1>18, <1>19, <1>20, <1>21,
     <1>22, <1>23, <1>24, <1>25, <1>26, <1>27, <1>28, <1>29, <1>30, <1>31
  DEF Running, Waiting, Tells, Lists, Clears

LEMMA StepsCall ==
    ASSUME Types, LocalsFit, [Next]_vars
    PROVE  TfsStep /\ (status = "killed" => UNCHANGED tfsVars)
<1>1. CASE UNCHANGED vars
  BY <1>1 DEF vars, TfsStep
<1>2. CASE Mount
  BY <1>2, MountCalls DEF Mount, T!tfs_init
<1>3. CASE \/ Arrive
           \/ \E w \in Workers, step \in FirstSteps, name \in Names :
                 Accept(w, step, name)
  BY <1>3 DEF Arrive, Accept, TfsStep
<1>4. CASE \E w \in Workers : Running(w) \/ Waiting(w)
  BY <1>4, QuietSteps, ReplySteps, CallSteps, WorkersRun
     DEF Running, Waiting, Tells, Lists, Clears
<1> QED
  BY <1>1, <1>2, <1>3, <1>4 DEF Next

-----------------------------------------------------------------------------
(* Types.                                                                  *)

LEMMA EffectMoves ==
    ASSUME NEW w \in Workers, Effect(w)
    PROVE  PcMoves(w, pc'[w]) /\ JobMoves(w, job'[w]) /\ Fits(pc'[w], job'[w])
BY DEF Effect, Moves

LEMMA MainKeepsTypes ==
    ASSUME Types, [Next]_vars
    PROVE  /\ active_boxes' \in Int
           /\ queued' \in 0 .. arrived' /\ arrived' \in 0 .. MaxRequests
           /\ undisturbed' \subseteq Workers
<1> USE DEF Types, listVars, sessionVars, aroundVars, historyVars
<1> USE BrokerAssumption
<1>1. CASE Mount \/ UNCHANGED vars
  BY <1>1 DEF Mount, vars
<1>2. CASE Arrive
  BY <1>2 DEF Arrive
<1>3. ASSUME NEW w \in Workers, NEW step, NEW name, Accept(w, step, name)
      PROVE  /\ active_boxes' \in Int
             /\ queued' \in 0 .. arrived' /\ arrived' \in 0 .. MaxRequests
             /\ undisturbed' \subseteq Workers
  BY <1>3 DEF Accept
<1>4. ASSUME NEW w \in Workers, Running(w) \/ Waiting(w)
      PROVE  /\ active_boxes' \in Int
             /\ queued' \in 0 .. arrived' /\ arrived' \in 0 .. MaxRequests
             /\ undisturbed' \subseteq Workers
  <2>1. job[w].count \in Int
    BY DEF Job
  <2> QED
    BY <1>4, <2>1, WorkersRun DEF StoreActive
<1> QED
  BY <1>1, <1>2, <1>3, <1>4 DEF Next

LEMMA TypesKept ==
    ASSUME Types, LocalsFit, [Next]_vars
    PROVE  Types' /\ LocalsFit'
<1>1. PICK w \in Workers : Effect(w)
  BY EveryStep
<1>2. PcMoves(w, pc'[w]) /\ JobMoves(w, job'[w]) /\ Fits(pc'[w], job'[w])
  BY <1>1, EffectMoves
<1>3. Types'
  BY <1>1, <1>2, MainKeepsTypes DEF Types, Effect, PcMoves, JobMoves
<1>4. ASSUME NEW v \in Workers \ {w} PROVE Fits(pc'[v], job'[v])
  BY <1>2, OthersKeepTheirPlaces DEF LocalsFit
<1>5. LocalsFit'
  BY <1>2, <1>4 DEF LocalsFit, Fits
<1> QED
  BY <1>3, <1>5

\* Before the mount nobody has anything to do, and nothing is unmounted.
LEMMA NothingUnmounts ==
    ASSUME Types, LocalsFit, [Next]_vars, status' = "unmounted"
    PROVE  UNCHANGED vars
<1>1. status = "unmounted"
  BY StepsCall DEF TfsStep, tfsVars
<1> QED
  BY <1>1, WorkersRun DEF Next, Mount, T!tfs_init, Arrive, Accept, At

LEMMA NobodyEarlyKept ==
    ASSUME Types, LocalsFit, NobodyEarly, [Next]_vars
    PROVE  NobodyEarly'
<1> SUFFICES ASSUME status' = "unmounted" PROVE NobodyEarly'
  BY DEF NobodyEarly
<1>1. UNCHANGED vars
  BY NothingUnmounts
<1> QED
  BY <1>1 DEF NobodyEarly, vars, tfsVars, sessionVars

\* What holds of the broker whatever its clients do.
Sound == Types /\ LocalsFit /\ NobodyEarly /\ TablesSound

LEMMA InitSound == Init => Sound
<1> SUFFICES ASSUME Init PROVE Sound
  OBVIOUS
<1>1. T!Init => TP!IInv
  BY SameInit, TP!InitIInv, TablesFit
<1>2. Types
  BY BrokerAssumption DEF Init, Types, Box, EmptyBox, Places, Job, NoJob, Handles
<1>3. LocalsFit
  BY DEF Init, LocalsFit, Fits, Placed, PublisherSteps, SubscriberSteps,
         ManagerSteps
<1> QED
  BY <1>1, <1>2, <1>3 DEF Init, Sound, TablesSound, NobodyEarly

LEMMA SoundKept == Sound /\ [Next]_vars => Sound'
<1> SUFFICES ASSUME Sound, [Next]_vars PROVE Sound'
  OBVIOUS
<1>1. Types' /\ LocalsFit' /\ NobodyEarly'
  BY TypesKept, NobodyEarlyKept DEF Sound
<1>2. TablesSound'
  BY StepsCall, TablesStaySound DEF Sound
<1> QED
  BY <1>1, <1>2 DEF Sound

LEMMA BrokerIsSound == Spec => []Sound
BY InitSound, SoundKept, PTL DEF Spec

\* The types of the broker's variables, the tables of TecnicoFS included: no
\* worker leaves the list of boxes, the open file table or the block of the
\* directory, whatever its clients send (mbroker.c, state.h).
THEOREM BrokerTypes == Spec => []TypeOK
<1>1. Sound => TypeOK
  BY TypesOfTables DEF Sound, Types, TablesSound, TypeOK, Places
<1> QED
  BY <1>1, BrokerIsSound, PTL

\* The tables the workers share stay sound while the process lives: the used
\* entries of the directory match the allocated inodes, no two files share a
\* block, and the block of the directory is nobody else's, although boxes are
\* removed while subscribers have them open (state.c, operations.c).
THEOREM BrokerTables ==
    Spec => [](status # "killed" => /\ T!DirectoryMatchesInodes
                                    /\ T!BlocksExclusive
                                    /\ T!DirectoryBlockSafe)
<1> USE DEF T!HasData, TP!HasData, T!Used, TP!Used, T!Slots, TP!Slots, T!Inums,
            TP!Inums, T!ROOT_DIR_INUM, TP!ROOT_DIR_INUM, T!TAKEN, TP!TAKEN
<1>1. TP!DirectoryMatchesInodes => T!DirectoryMatchesInodes
  BY DEF TP!DirectoryMatchesInodes, T!DirectoryMatchesInodes, T!ShortNames,
         TP!ShortNames
<1>2. TP!BlocksExclusive => T!BlocksExclusive
  BY DEF TP!BlocksExclusive, T!BlocksExclusive
<1>3. TP!DirectoryBlockSafe => T!DirectoryBlockSafe
  BY DEF TP!DirectoryBlockSafe, T!DirectoryBlockSafe, T!Handles, TP!Handles,
         T!RootBlock, TP!RootBlock, T!IsOpen, TP!IsOpen, T!InumOf, TP!InumOf
<1>4. Sound => (status # "killed" => /\ T!DirectoryMatchesInodes
                                     /\ T!BlocksExclusive
                                     /\ T!DirectoryBlockSafe)
  BY <1>1, <1>2, <1>3 DEF Sound, TablesSound, TP!IInv
<1> QED
  BY <1>4, BrokerIsSound, PTL

-----------------------------------------------------------------------------
(* The list of boxes and the sessions that have a place in it.  Each part  *)
(* needs the ones before it, and each is lost with the lapses it names:    *)
(* once a box loses its place under somebody who has found it there, the   *)
(* place may get another name.                                             *)

\* Who has found a box finds its name there.
PlacesNamed ==
    "removed" \notin lapses =>
        \A w \in Workers :
            pc[w] \in Finders /\ job[w].index \in Slots =>
                boxes[job[w].index].box_name = job[w].name

\* No name is listed twice.
ListedOnce ==
    "doubled" \notin lapses =>
        \A i, j \in Slots :
            i # j /\ boxes[i].box_name = boxes[j].box_name
            => boxes[i].box_name = NoName

\* No session is missing in the count, whatever pipes broke.
CountsCover ==
    "lostPublishers" \notin lapses =>
        \A i \in Slots :
            boxes[i].publishers >= Cardinality(Counted(i, Publishing))

\* A place has one publisher, and none while somebody is about to be counted.
PublisherAlone ==
    lapses \cap {"raced", "lostPublishers"} = {} =>
        \A v, w \in Workers :
            /\ v # w /\ pc[v] \in Publishing /\ pc[w] \in Publishing
               => job[v].index # job[w].index
            /\ pc[v] \in Asking /\ pc[w] \in Publishing
               => job[v].index # job[w].index

\* Nobody is about to unlink the box of a publisher, or has failed to find it.
NotBeingRemoved ==
    lapses \cap {"raced", "lostPublishers", "removed", "doubled"} = {} =>
        \A v, w \in Workers :
            /\ \/ pc[v] = "removeBox"
               \/ pc[v] = "removeTest" /\ job[v].index = -1
            /\ pc[w] \in Publishing
            => job[v].name # job[w].name

\* What a step does for anybody: who had a place keeps it.
LEMMA ForAll ==
    ASSUME Types, NEW w \in Workers, Effect(w), NEW v \in Workers
    PROVE  /\ Finding(v) /\ Testing(v)
           /\ v # w => /\ KeepsPlace(v)
                       /\ pc'[v] \in Finders <=> pc[v] \in Finders
                       /\ pc'[v] \in Asking <=> pc[v] \in Asking
                       /\ pc'[v] \in Publishing <=> pc[v] \in Publishing
                       /\ pc'[v] = "removeTest" <=> pc[v] = "removeTest"
                       /\ pc'[v] = "removeBox" <=> pc[v] = "removeBox"
           /\ pc'[v] \in Publishing =>
                 \/ pc[v] \in Publishing /\ KeepsPlace(v)
                 \/ v = w /\ Publishes(w)
<1>1. CASE v # w
  <2>1. v \in Workers \ {w} /\ PcMoves(w, pc'[w]) /\ JobMoves(w, job'[w])
    BY <1>1, EffectMoves
  <2>2. /\ job'[v] = job[v]
        /\ pc'[v] \in Finders <=> pc[v] \in Finders
        /\ pc'[v] \in Asking <=> pc[v] \in Asking
        /\ pc'[v] \in Publishing <=> pc[v] \in Publishing
        /\ pc'[v] = "removeTest" <=> pc[v] = "removeTest"
        /\ pc'[v] = "removeBox" <=> pc[v] = "removeBox"
    BY <2>1, OthersKeepTheirPlaces
  <2>3. Finding(v) /\ KeepsPlace(v)
    BY <2>2 DEF KeepsPlace, Finding
  <2>4. Testing(v)
    BY <2>2, <2>3 DEF Testing
  <2> QED
    BY <1>1, <2>2, <2>3, <2>4, Zenon
<1>2. CASE v = w
  BY <1>2 DEF Effect
<1> QED
  BY <1>1, <1>2

LEMMA LapsesStay == ASSUME NEW w, Effect(w) PROVE lapses \subseteq lapses'
BY DEF Effect

\* Who is counted as a publisher, or about to be, has a place.
LEMMA PublishersFind ==
    ASSUME Types, LocalsFit, NEW v \in Workers, pc[v] \in Publishing \cup Asking
    PROVE  /\ pc[v] \in Finders /\ job[v].index \in Slots
           /\ job[v].name \in Names /\ job[v].name # NoName
BY BrokerAssumption DEF LocalsFit, Fits, Placed, Publishing, Asking, Finders,
                        PublisherSteps, SubscriberSteps

LEMMA PlacesNamedKept ==
    ASSUME Types, LocalsFit, PlacesNamed, NEW w \in Workers, Effect(w)
    PROVE  PlacesNamed'
<1> SUFFICES ASSUME "removed" \notin lapses', NEW v \in Workers, pc'[v] \in Finders,
                    job'[v].index \in Slots
             PROVE  boxes'[job'[v].index].box_name = job'[v].name
  BY DEF PlacesNamed, Finders
<1>1. CASE pc[v] \in Finders /\ KeepsPlace(v)
  <2>1. boxes[job[v].index].box_name = job[v].name
    BY <1>1, LapsesStay DEF PlacesNamed, KeepsPlace
  <2>2. \/ \A i \in Slots : boxes'[i].box_name = boxes[i].box_name
        \/ \E i \in Slots :
              /\ \A j \in Slots \ {i} : boxes'[j].box_name = boxes[j].box_name
              /\ ~HasFound(v, i)
    BY DEF Effect, Naming
  <2> QED
    BY <1>1, <2>1, <2>2 DEF HasFound, Finders, KeepsPlace
<1>2. CASE UNCHANGED boxes /\ IsBoxIndex(job'[v].index, job'[v].name)
  BY <1>2, FoundIndex
<1> QED
  BY <1>1, <1>2, ForAll DEF Finding

LEMMA ListedOnceKept ==
    ASSUME Types, ListedOnce, NEW w \in Workers, Effect(w)
    PROVE  ListedOnce'
<1> SUFFICES ASSUME "doubled" \notin lapses', NEW i \in Slots, NEW j \in Slots,
                    i # j, boxes'[i].box_name = boxes'[j].box_name
             PROVE  boxes'[i].box_name = NoName
  BY DEF ListedOnce
<1>1. \A k, l \in Slots : k # l /\ boxes[k].box_name = boxes[l].box_name
                          => boxes[k].box_name = NoName
  BY LapsesStay DEF ListedOnce
<1>2. CASE \A k \in Slots : boxes'[k].box_name = boxes[k].box_name
  BY <1>1, <1>2
<1>3. CASE \E k \in Slots :
              /\ \A l \in Slots \ {k} : boxes'[l].box_name = boxes[l].box_name
              /\ \/ boxes'[k].box_name = NoName
                 \/ \A l \in Slots : boxes[l].box_name # boxes'[k].box_name
  BY <1>1, <1>3
<1> QED
  BY <1>2, <1>3 DEF Effect, Naming

\* Who is counted at a place after a step: who was, but for the worker that
\* took the step.
LEMMA CountedAfter ==
    ASSUME NEW w \in Workers, Moves(w), NEW i, NEW steps \in {Publishing, Subscribed}
    PROVE  Counted(i, steps)' =
              (Counted(i, steps) \ {w})
              \cup {v \in {w} : pc'[w] \in steps /\ job'[w].index = i}
<1>1. \A v \in Workers \ {w} :
         /\ job'[v] = job[v]
         /\ pc'[v] \in Publishing <=> pc[v] \in Publishing
         /\ pc'[v] \in Subscribed <=> pc[v] \in Subscribed
  BY OthersKeepTheirPlaces DEF Moves
<1>2. Counted(i, steps)' = {v \in Workers : pc'[v] \in steps /\ job'[v].index = i}
  BY DEF Counted
<1> QED
  BY <1>1, <1>2 DEF Counted

LEMMA Numbers ==
    ASSUME NEW w \in Workers, NEW i, NEW steps
    PROVE  LET C == Counted(i, steps) IN
           /\ Cardinality(C) \in Nat
           /\ w \notin C => Cardinality(C \cup {w}) = Cardinality(C) + 1
           /\ w \in C => Cardinality(C \ {w}) = Cardinality(C) - 1
           /\ Cardinality(C) = 0 <=> C = {}
           /\ \A v : v \in C /\ w \in C /\ v # w => Cardinality(C) > 1
           /\ (\A u, v \in C : u = v) => Cardinality(C) <= 1
<1> DEFINE C == Counted(i, steps)
<1>1. IsFiniteSet(C)
  BY FS_Subset, BrokerAssumption DEF Counted
<1> HIDE DEF C
<1>2. Cardinality(C) \in Nat
  BY <1>1, FS_CardinalityType
<1>3. w \notin C => Cardinality(C \cup {w}) = Cardinality(C) + 1
  BY <1>1, FS_AddElement
<1>4. w \in C => Cardinality(C \ {w}) = Cardinality(C) - 1
  BY <1>1, FS_RemoveElement
<1>5. Cardinality(C) = 0 <=> C = {}
  BY <1>1, FS_EmptySet
<1>6. ASSUME NEW v, v \in C, w \in C, v # w PROVE Cardinality(C) > 1
  <2>1. IsFiniteSet(C \ {w}) /\ C \ {w} # {}
    BY <1>1, <1>6, FS_RemoveElement
  <2>2. Cardinality(C \ {w}) \in Nat /\ Cardinality(C \ {w}) # 0
    BY <2>1, FS_CardinalityType, FS_EmptySet
  <2> QED
    BY <1>2, <1>4, <1>6, <2>2
<1>7. ASSUME \A u, v \in C : u = v PROVE Cardinality(C) <= 1
  <2>1. CASE C = {}
    BY <1>5, <2>1
  <2>2. CASE C # {}
    <3>1. PICK v : C = {v}
      BY <1>7, <2>2
    <3> QED
      BY <3>1, FS_Singleton
  <2> QED
    BY <2>1, <2>2
<1> QED
  BY <1>2, <1>3, <1>4, <1>5, <1>6, <1>7 DEF C

\* A count that is no smaller than the sessions, or is their number, stays so.
LEMMA CountKept ==
    ASSUME Types, LocalsFit, NEW w \in Workers, Moves(w),
           NEW steps \in {Publishing, Subscribed}, NEW n, NEW m, NEW lost,
           \A i \in Slots : n[i] \in Int,
           Counting(w, steps, n, m, lost), lost \notin lapses', NEW i \in Slots
    PROVE  LET C == Counted(i, steps) IN
           /\ n[i] >= Cardinality(C) => m[i] >= Cardinality(C')
           /\ "uncounted" \notin lapses' /\ n[i] = Cardinality(C)
              => m[i] = Cardinality(C')
<1> DEFINE C == Counted(i, steps)
           here == job[w].index = i
<1>1. C' = (C \ {w}) \cup {v \in {w} : pc'[w] \in steps /\ job'[w].index = i}
  BY CountedAfter
<1>2. w \in C <=> pc[w] \in steps /\ here
  BY DEF Counted
<1>3. /\ Cardinality(C) \in Nat
      /\ w \notin C => Cardinality(C \cup {w}) = Cardinality(C) + 1
      /\ w \in C => Cardinality(C \ {w}) = Cardinality(C) - 1
  BY Numbers
<1>4. /\ pc'[w] \notin steps => C' = C \ {w}
      /\ pc'[w] \in steps /\ KeepsPlace(w) =>
            C' = IF here THEN C \cup {w} ELSE C \ {w}
  BY <1>1 DEF KeepsPlace
<1>5. n[i] \in Int
  OBVIOUS
<1> HIDE DEF C, here
<1>6. CASE /\ m[i] = n[i]
           /\ pc'[w] \in steps => pc[w] \in steps /\ KeepsPlace(w)
           /\ pc[w] \in steps => pc'[w] \in steps \/ "uncounted" \in lapses'
  <2>1. C' = C \/ (w \in C /\ C' = C \ {w} /\ "uncounted" \in lapses')
    BY <1>2, <1>4, <1>6
  <2>2. CASE C' = C
    <3> HIDE DEF C
    <3>1. Cardinality(C') = Cardinality(C) /\ m[i] = n[i]
      BY <1>6, <2>2, Zenon
    <3> QED
      BY <3>1, Zenon DEF C
  <2>3. CASE w \in C /\ C' = C \ {w} /\ "uncounted" \in lapses'
    <3>1. Cardinality(C') = Cardinality(C) - 1 /\ Cardinality(C) \in Nat /\ m[i] = n[i]
      BY <1>3, <1>6, <2>3
    <3> QED
      BY <1>5, <2>3, <3>1 DEF C
  <2> QED
    BY <2>1, <2>2, <2>3, Zenon
<1>7. CASE /\ pc[w] \notin steps /\ pc'[w] \in steps /\ KeepsPlace(w)
           /\ m[i] = n[i] + (IF here THEN 1 ELSE 0)
  <2>1. w \notin C /\ C' = IF here THEN C \cup {w} ELSE C
    BY <1>2, <1>4, <1>7
  <2> QED
    BY <1>3, <1>5, <1>7, <2>1 DEF C
<1>8. CASE /\ pc[w] \in steps /\ pc'[w] \notin steps
           /\ m[i] = n[i] - (IF here THEN 1 ELSE 0)
  <2>1. IF here THEN w \in C /\ C' = C \ {w} ELSE C' = C
    BY <1>2, <1>4, <1>8
  <2>2. CASE here
    <3>1. /\ Cardinality(C') = Cardinality(C) - 1 /\ Cardinality(C) \in Nat
          /\ m[i] = n[i] - 1
      BY <1>3, <1>8, <2>1, <2>2
    <3> QED
      BY <1>5, <3>1 DEF C
  <2>3. CASE ~here
    <3>1. C' = C /\ m[i] = n[i]
      BY <1>5, <1>8, <2>1, <2>3
    <3>2. Cardinality(C') = Cardinality(C)
      BY <3>1, Zenon
    <3> QED
      BY <3>1, <3>2, Zenon DEF C
  <2> QED
    BY <2>2, <2>3
<1> QED
  BY <1>6, <1>7, <1>8 DEF Counting, here

LEMMA CountsKept ==
    ASSUME Types, LocalsFit, CountsCover, CountsMatchSessions,
           NEW w \in Workers, Effect(w)
    PROVE  CountsCover' /\ CountsMatchSessions'
<1>1. /\ \A i \in Slots : PublishersOf[i] \in Int /\ SubscribersOf[i] \in Int
      /\ \A i \in Slots : /\ PublishersOf[i] = boxes[i].publishers
                          /\ SubscribersOf[i] = boxes[i].subscribers
      /\ \A i \in Slots : /\ PublishersOf'[i] = boxes'[i].publishers
                          /\ SubscribersOf'[i] = boxes'[i].subscribers
  BY DEF PublishersOf, SubscribersOf, Types, Box
<1>2. Moves(w) /\ Counts(w)
  BY DEF Effect
<1>3. ASSUME "lostPublishers" \notin lapses', NEW i \in Slots
      PROVE  LET C == Counted(i, Publishing) IN
             /\ boxes[i].publishers >= Cardinality(C)
                => boxes'[i].publishers >= Cardinality(C')
             /\ "uncounted" \notin lapses' /\ boxes[i].publishers = Cardinality(C)
                => boxes'[i].publishers = Cardinality(C')
  <2>1. Counting(w, Publishing, PublishersOf, PublishersOf', "lostPublishers")
    BY <1>2 DEF Counts
  <2>2. LET C == Counted(i, Publishing) IN
        /\ PublishersOf[i] >= Cardinality(C) => PublishersOf'[i] >= Cardinality(C')
        /\ "uncounted" \notin lapses' /\ PublishersOf[i] = Cardinality(C)
           => PublishersOf'[i] = Cardinality(C')
    BY <1>1, <1>2, <1>3, <2>1, CountKept
  <2> QED
    BY <1>1, <2>2
<1>4. ASSUME "lostSubscribers" \notin lapses', "uncounted" \notin lapses',
             NEW i \in Slots, boxes[i].subscribers = Cardinality(Counted(i, Subscribed))
      PROVE  boxes'[i].subscribers = Cardinality(Counted(i, Subscribed)')
  <2>1. Counting(w, Subscribed, SubscribersOf, SubscribersOf', "lostSubscribers")
    BY <1>2 DEF Counts
  <2>2. LET C == Counted(i, Subscribed) IN
        "uncounted" \notin lapses' /\ SubscribersOf[i] = Cardinality(C)
           => SubscribersOf'[i] = Cardinality(C')
    BY <1>1, <1>2, <1>4, <2>1, CountKept
  <2> QED
    BY <1>1, <1>4, <2>2
<1>5. CountsCover'
  <2> SUFFICES ASSUME "lostPublishers" \notin lapses', NEW i \in Slots
               PROVE  boxes'[i].publishers >= Cardinality(Counted(i, Publishing)')
    BY DEF CountsCover, Publishing
  <2> QED
    BY <1>3, LapsesStay DEF CountsCover
<1>6. CountsMatchSessions'
  <2> SUFFICES ASSUME "uncounted" \notin lapses', NEW i \in Slots
               PROVE  /\ "lostPublishers" \notin lapses' =>
                           boxes'[i].publishers = Cardinality(Counted(i, Publishing)')
                      /\ "lostSubscribers" \notin lapses' =>
                           boxes'[i].subscribers = Cardinality(Counted(i, Subscribed)')
    BY DEF CountsMatchSessions, CountedPublishers, CountedSubscribers, Publishing,
           Subscribed
  <2>1. /\ "lostPublishers" \notin lapses' =>
             boxes[i].publishers = Cardinality(Counted(i, Publishing))
        /\ "lostSubscribers" \notin lapses' =>
             boxes[i].subscribers = Cardinality(Counted(i, Subscribed))
    BY LapsesStay DEF CountsMatchSessions, CountedPublishers, CountedSubscribers,
                      Publishing, Subscribed
  <2> QED
    BY <1>3, <1>4, <2>1
<1> QED
  BY <1>5, <1>6

\* A count of zero says that nobody is there.
LEMMA ZeroIsNobody ==
    ASSUME Types, CountsCover, "lostPublishers" \notin lapses,
           NEW i \in Slots, boxes[i].publishers < 1,
           NEW v \in Workers, pc[v] \in Publishing
    PROVE  job[v].index # i
<1>1. Cardinality(Counted(i, Publishing)) \in Nat
  BY Numbers
<1>2. boxes[i].publishers \in Int /\ boxes[i].publishers >= Cardinality(Counted(i, Publishing))
  BY DEF CountsCover, Types, Box
<1>3. Cardinality(Counted(i, Publishing)) = 0
  BY <1>1, <1>2
<1>4. Counted(i, Publishing) = {}
  BY <1>3, Numbers
<1> QED
  BY <1>4 DEF Counted

LEMMA PublisherAloneKept ==
    ASSUME Types, LocalsFit, CountsCover, PublisherAlone, NEW w \in Workers, Effect(w)
    PROVE  PublisherAlone'
<1> SUFFICES ASSUME lapses' \cap {"raced", "lostPublishers"} = {},
                    NEW u \in Workers, NEW v \in Workers, pc'[v] \in Publishing,
                    pc'[u] \in Asking \/ (u # v /\ pc'[u] \in Publishing)
             PROVE  job'[u].index # job'[v].index
  BY DEF PublisherAlone, Publishing, Asking
<1>1. /\ lapses \cap {"raced", "lostPublishers"} = {}
      /\ "raced" \notin lapses' /\ "lostPublishers" \notin lapses
  BY LapsesStay
<1>2. Publishes(w)
  BY DEF Effect
<1>3. Publishing \cap Asking = {} /\ "pubStore" \in Asking
  BY DEF Publishing, Asking, PublisherSteps
<1>4. \A x \in Workers :
         pc'[x] \in Publishing =>
            \/ pc[x] \in Publishing /\ KeepsPlace(x)
            \/ /\ x = w /\ pc[x] \in Asking /\ KeepsPlace(x)
               /\ \A y \in Workers \ {w} : ~HasAsked(y, w)
  BY <1>1, <1>2, <1>3, ForAll DEF Publishes
<1>5. \A x \in Workers :
         pc'[x] \in Asking =>
            \/ pc[x] \in Asking /\ KeepsPlace(x)
            \/ /\ x = w /\ KeepsPlace(x) /\ job[x].index \in Slots
               /\ job[x].index # -1 => boxes[job[x].index].publishers < 1
  <2>1. ASSUME NEW x \in Workers, pc'[x] \in Asking, x # w
        PROVE  pc[x] \in Asking /\ KeepsPlace(x)
    BY <2>1, ForAll
  <2>2. Testing(w)
    BY DEF Effect
  <2> QED
    BY <2>1, <2>2 DEF Testing, ReadsZero
<1>6. \A x \in Workers : KeepsPlace(x) => job'[x].index = job[x].index
  BY DEF KeepsPlace
<1>7. \A y \in Workers \ {w} : pc[y] \in Asking /\ ~HasAsked(y, w)
                               => job[y].index # job[w].index
  BY DEF HasAsked, Asking
<1>8. \A x, y \in Workers :
         /\ x # y /\ pc[x] \in Publishing /\ pc[y] \in Publishing
            => job[x].index # job[y].index
         /\ pc[x] \in Asking /\ pc[y] \in Publishing
            => job[x].index # job[y].index
  BY <1>1 DEF PublisherAlone
<1>9. CASE pc'[u] \in Asking
  <2>1. u # v
    BY <1>3, <1>9
  <2>2. CASE pc[u] \in Asking /\ KeepsPlace(u)
    BY <1>4, <1>6, <1>7, <1>8, <2>1, <2>2
  <2>3. CASE /\ u = w /\ KeepsPlace(u) /\ job[u].index \in Slots
             /\ job[u].index # -1 => boxes[job[u].index].publishers < 1
    <3>1. pc[v] \in Publishing /\ KeepsPlace(v)
      BY <1>4, <2>1, <2>3
    <3>2. job[u].index # -1
      BY <2>3, BrokerAssumption DEF Slots
    <3> QED
      BY <1>1, <1>6, <2>3, <3>1, <3>2, ZeroIsNobody
  <2> QED
    BY <1>5, <1>9, <2>2, <2>3
<1>10. CASE u # v /\ pc'[u] \in Publishing
  BY <1>4, <1>6, <1>8, <1>10
<1> QED
  BY <1>9, <1>10

LEMMA NotBeingRemovedKept ==
    ASSUME Types, LocalsFit, PlacesNamed, ListedOnce, CountsCover, NotBeingRemoved,
           NEW w \in Workers, Effect(w)
    PROVE  NotBeingRemoved'
<1> DEFINE removing(x) == \/ pc[x] = "removeBox"
                          \/ pc[x] = "removeTest" /\ job[x].index = -1
<1> SUFFICES ASSUME lapses' \cap {"raced", "lostPublishers", "removed", "doubled"} = {},
                    NEW u \in Workers, NEW v \in Workers,
                    \/ pc'[u] = "removeBox"
                    \/ pc'[u] = "removeTest" /\ job'[u].index = -1,
                    pc'[v] \in Publishing
             PROVE  job'[u].name # job'[v].name
  BY DEF NotBeingRemoved, Publishing
<1>1. /\ lapses \cap {"raced", "lostPublishers", "removed", "doubled"} = {}
      /\ "raced" \notin lapses' /\ "lostPublishers" \notin lapses
      /\ "removed" \notin lapses /\ "doubled" \notin lapses
  BY LapsesStay
<1>2. \/ pc[v] \in Publishing /\ KeepsPlace(v)
      \/ /\ v = w /\ pc[v] = "pubStore" /\ KeepsPlace(v)
         /\ \A y \in Workers \ {w} : ~HasAsked(y, w)
  <2>1. Publishes(w)
    BY DEF Effect
  <2> QED
    BY <1>1, <2>1, ForAll DEF Publishes
<1>3. \/ removing(u) /\ KeepsPlace(u)
      \/ /\ pc[u] = "removeTest" /\ KeepsPlace(u) /\ job[u].index \in Slots
         /\ boxes[job[u].index].publishers < 1
      \/ job'[u].index = -1 /\ IsBoxIndex(-1, job'[u].name) /\ UNCHANGED boxes
  <2>1. CASE u # w
    BY <2>1, ForAll DEF KeepsPlace
  <2>2. CASE u = w
    <3>1. Testing(w)
      BY DEF Effect
    <3>2. \A i \in Slots : i # -1
      BY BrokerAssumption DEF Slots
    <3> QED
      BY <2>2, <3>1, <3>2 DEF Testing, ReadsZero, KeepsPlace
  <2> QED
    BY <2>1, <2>2
<1>4. \A x \in Workers : KeepsPlace(x) => job'[x].name = job[x].name
  BY DEF KeepsPlace
<1>5. pc[v] \in Finders /\ job[v].index \in Slots /\ job[v].name # NoName
  BY <1>2, PublishersFind DEF Asking
<1>6. boxes[job[v].index].box_name = job[v].name
  BY <1>1, <1>5 DEF PlacesNamed
<1>7. CASE removing(u) /\ KeepsPlace(u)
  <2>1. CASE pc[v] \in Publishing /\ KeepsPlace(v)
    BY <1>1, <1>4, <1>7, <2>1 DEF NotBeingRemoved
  <2>2. CASE /\ v = w /\ pc[v] = "pubStore" /\ KeepsPlace(v)
             /\ \A y \in Workers \ {w} : ~HasAsked(y, w)
    BY <1>4, <1>7, <2>2 DEF HasAsked
  <2> QED
    BY <1>2, <2>1, <2>2
<1>8. CASE /\ pc[u] = "removeTest" /\ KeepsPlace(u) /\ job[u].index \in Slots
           /\ boxes[job[u].index].publishers < 1
  <2>1. boxes[job[u].index].box_name = job[u].name
    BY <1>1, <1>8 DEF PlacesNamed, Finders
  <2>2. CASE pc[v] \in Publishing /\ KeepsPlace(v)
    <3>1. job[v].index # job[u].index
      BY <1>1, <1>8, <2>2, ZeroIsNobody
    <3> QED
      BY <1>1, <1>4, <1>5, <1>6, <1>8, <2>1, <2>2, <3>1 DEF ListedOnce
  <2>3. CASE v = w /\ pc[v] = "pubStore"
    <3>1. u # w /\ pc'[u] # "removeBox" /\ job'[u].index # -1
      BY <1>8, <2>3, ForAll, BrokerAssumption DEF KeepsPlace, Slots
    <3> QED
      BY <3>1
  <2> QED
    BY <1>2, <2>2, <2>3
<1>9. CASE job'[u].index = -1 /\ IsBoxIndex(-1, job'[u].name) /\ UNCHANGED boxes
  <2>1. \A j \in Slots : boxes[j].box_name # job'[u].name
    BY <1>9, FoundIndex
  <2> QED
    BY <1>2, <1>4, <1>5, <1>6, <2>1
<1> QED
  BY <1>3, <1>7, <1>8, <1>9

\* All of it is kept together.
Sessions == PlacesNamed /\ ListedOnce /\ CountsCover /\ CountsMatchSessions
              /\ PublisherAlone /\ NotBeingRemoved

LEMMA InitSessions == Init => Sessions
<1> SUFFICES ASSUME Init PROVE Sessions
  OBVIOUS
<1>1. \A w \in Workers : /\ pc[w] \notin Finders \cup Asking \cup Publishing \cup Subscribed
                         /\ pc[w] # "removeBox" /\ pc[w] # "removeTest"
  BY DEF Init, Finders, Asking, Publishing, Subscribed, PublisherSteps,
         SubscriberSteps
<1>2. \A i \in Slots : boxes[i] = EmptyBox
  BY DEF Init
<1>3. \A i \in Slots : /\ Counted(i, Publishing) = {}
                       /\ Counted(i, Subscribed) = {}
  BY <1>1 DEF Counted
<1>4. \A i \in Slots :
         /\ boxes[i].publishers = 0 /\ boxes[i].subscribers = 0
         /\ Cardinality(Counted(i, Publishing)) = 0
         /\ Cardinality(Counted(i, Subscribed)) = 0
         /\ CountedPublishers(i) = Counted(i, Publishing)
         /\ CountedSubscribers(i) = Counted(i, Subscribed)
  BY <1>2, <1>3, FS_EmptySet DEF EmptyBox, CountedPublishers,
     CountedSubscribers, Publishing, Subscribed
<1>5. CountsMatchSessions
  BY <1>4, Zenon DEF CountsMatchSessions
<1>6. CountsCover
  BY <1>4 DEF CountsCover
<1> QED
  BY <1>1, <1>2, <1>5, <1>6 DEF Sessions, PlacesNamed, ListedOnce, PublisherAlone,
                          NotBeingRemoved, EmptyBox

LEMMA SessionsKept == Sound /\ Sessions /\ [Next]_vars => Sessions'
<1> SUFFICES ASSUME Sound, Sessions, [Next]_vars PROVE Sessions'
  OBVIOUS
<1>1. PICK w \in Workers : Effect(w)
  BY EveryStep DEF Sound
<1> QED
  BY <1>1, PlacesNamedKept, ListedOnceKept, PublisherAloneKept,
     NotBeingRemovedKept, CountsKept DEF Sound, Sessions

LEMMA SessionsHold == Spec => []Sessions
BY InitSessions, SessionsKept, BrokerIsSound, PTL DEF Spec

\* The counts of a place of the list are the sessions it has, through all the
\* ways into and out of connect_publisher and connect_subscriber, for any number
\* of workers: what makes them differ is a broken pipe, or a store of ++, -- or
\* a manager's over another one (mbroker.c:114-245, :298-300, :373-375).
THEOREM CountsAreSessions == Spec => []CountsMatchSessions
<1>1. Sessions => CountsMatchSessions
  BY DEF Sessions
<1> QED
  BY <1>1, SessionsHold, PTL

\* A place of the list has at most one publisher's session, as long as the
\* unlocked test and increment of two requests do not interleave, and no store
\* to the count is lost (mbroker.c:107-114).
THEOREM PublishersAreAlone == Spec => []OnePublisher
<1>1. Sessions => OnePublisher
  <2> SUFFICES ASSUME Sessions, lapses \cap {"raced", "lostPublishers"} = {},
                      NEW i \in Slots
               PROVE  Cardinality(Counted(i, Publishing)) <= 1
    BY DEF OnePublisher, CountedPublishers, Publishing
  <2>1. \A u, v \in Counted(i, Publishing) : u = v
    BY DEF Sessions, PublisherAlone, Counted
  <2>2. PICK w \in Workers : TRUE
    BY BrokerAssumption
  <2> QED
    BY <2>1, Numbers
<1> QED
  BY <1>1, SessionsHold, PTL

-----------------------------------------------------------------------------
(* The directory.  Only create_box and remove_box change it.               *)

LEMMA CallsKeepDirectory ==
    /\ \A name, append, h : open(name, append, h) => dir_entries' = dir_entries
    /\ \A h : close(h) => dir_entries' = dir_entries
    /\ \A h, name : write(h, name) => dir_entries' = dir_entries
    /\ \A h, len : T!tfs_read(h, len) => dir_entries' = dir_entries
    /\ \A h : T!ReadNoBlock(h) => dir_entries' = dir_entries
    /\ WriteFails => dir_entries' = dir_entries
    /\ UNCHANGED tfsVars => dir_entries' = dir_entries
<1> USE DEF tfsVars, tableVars, T!dirVars
<1>1. ASSUME NEW name, NEW append, NEW h, open(name, append, h)
      PROVE  dir_entries' = dir_entries
  BY <1>1 DEF open, T!OpenExisting
<1>2. \A h : close(h) => dir_entries' = dir_entries
  BY DEF close, T!tfs_close
<1>3. \A h, name : write(h, name) => dir_entries' = dir_entries
  BY DEF write, T!tfs_write
<1>4. \A h, len : T!tfs_read(h, len) => dir_entries' = dir_entries
  BY DEF T!tfs_read
<1>5. \A h : T!ReadNoBlock(h) => dir_entries' = dir_entries
  BY DEF T!ReadNoBlock, T!abort
<1> QED
  BY <1>1, <1>2, <1>3, <1>4, <1>5 DEF WriteFails

LEMMA DirectoryChanges ==
    ASSUME NEW w \in Workers, Running(w) \/ Waiting(w)
    PROVE  dir_entries' = dir_entries \/ CreateBox(w) \/ RemoveBox(w)
<1> USE CallsKeepDirectory
<1>1. CASE PubFind(w)
  BY <1>1 DEF PubFind
<1>2. CASE PubRead(w)
  BY <1>2 DEF PubRead
<1>3. CASE PubBreak(w)
  BY <1>3 DEF PubBreak
<1>4. CASE PubOpenBox(w)
  BY <1>4 DEF PubOpenBox
<1>5. CASE PubWrite(w)
  BY <1>5 DEF PubWrite
<1>6. CASE PubCloseBox(w)
  BY <1>6 DEF PubCloseBox
<1>7. CASE SubFind(w)
  BY <1>7 DEF SubFind
<1>8. CASE SubOpenBox(w)
  BY <1>8 DEF SubOpenBox
<1>9. CASE SubOpenPipe(w)
  BY <1>9 DEF SubOpenPipe
<1>10. CASE SubBreak(w)
  BY <1>10 DEF SubBreak
<1>11. CASE SubProbe(w)
  BY <1>11 DEF SubProbe
<1>12. CASE SubProbed(w)
  BY <1>12 DEF SubProbed
<1>13. CASE SubRead(w)
  BY <1>13 DEF SubRead
<1>14. CASE SubWait(w)
  BY <1>14 DEF SubWait
<1>15. CASE SpuriousWakeup(w)
  BY <1>15 DEF SpuriousWakeup
<1>16. CASE SubSend(w)
  BY <1>16 DEF SubSend
<1>17. CASE SubGone(w)
  BY <1>17 DEF SubGone
<1>18. CASE CreateFind(w)
  BY <1>18 DEF CreateFind
<1>19. CASE CreateReply(w)
  BY <1>19 DEF CreateReply
<1>20. CASE CreateClose(w)
  BY <1>20 DEF CreateClose
<1>21. CASE RemoveFind(w)
  BY <1>21 DEF RemoveFind
<1>22. CASE RemoveReply(w)
  BY <1>22 DEF RemoveReply
<1>23. CASE ListFind(w)
  BY <1>23 DEF ListFind
<1>24. CASE ListNext(w)
  BY <1>24 DEF ListNext
<1>25. CASE ListRead(w)
  BY <1>25 DEF ListRead
<1>26. CASE ListClose(w)
  BY <1>26 DEF ListClose
<1>27. CASE ListSend(w)
  BY <1>27 DEF ListSend
<1>28. CASE RemoveTest(w)
  BY <1>28 DEF RemoveTest
<1>29. CASE Tells(w) \/ Lists(w)
  BY <1>29, TellingSteps, ListingSteps
<1> QED
  BY <1>1, <1>2, <1>3, <1>4, <1>5, <1>6, <1>7, <1>8, <1>9, <1>10, <1>11,
     <1>12, <1>13, <1>14, <1>15, <1>16, <1>17, <1>18, <1>19, <1>20, <1>21,
     <1>22, <1>23, <1>24, <1>25, <1>26, <1>27, <1>28, <1>29
  DEF Running, Waiting, Tells, Lists, Clears

\* A name disappears from the directory by being unlinked.
LEMMA FilesStay ==
    ASSUME Sound, [Next]_vars, status = "mounted", NEW name,
           ~T!NotFound(name), T!NotFound(name)'
    PROVE  \E v \in Workers : pc[v] = "removeBox" /\ job[v].name = name
<1>1. dir_entries \in [T!Slots -> T!DirEntry]
  BY TypesOfTables DEF Sound, TablesSound, T!TypeOK
<1>2. PICK s \in T!Slots : /\ dir_entries[s].d_inumber # -1
                           /\ dir_entries[s].d_name = name
  BY DEF T!NotFound
<1>3. /\ dir_entries' # dir_entries
      /\ dir_entries'[s].d_inumber = -1 \/ dir_entries'[s].d_name # name
  BY <1>2 DEF T!NotFound
<1>4. PICK w \in Workers : CreateBox(w) \/ RemoveBox(w)
  <2>1. ~Mount /\ ~UNCHANGED vars
    BY <1>3 DEF Mount, T!tfs_init, vars, tfsVars, tableVars
  <2>2. ~Arrive /\ \A w, step, n : ~Accept(w, step, n)
    BY <1>3, CallsKeepDirectory DEF Arrive, Accept
  <2> QED
    BY <1>3, <2>1, <2>2, DirectoryChanges DEF Next
<1>5. CASE CreateBox(w)
  <2>1. PICK h \in Handles : openCreating(job[w].name, h)
    BY <1>5 DEF CreateBox
  <2>2. T!OpenCreate(job[w].name)
    BY <1>3, <2>1 DEF openCreating, T!OpenExisting, T!OpenCreateUndone, T!dirVars
  <2>3. PICK inum \in T!Inums, t \in T!Slots :
          T!IsFirstUnused(t) /\ T!add_dir_entry(t, job[w].name, inum)
    BY <2>2 DEF T!OpenCreate
  <2>4. dir_entries'[s] = dir_entries[s]
    BY <1>1, <1>2, <2>3 DEF T!IsFirstUnused, T!add_dir_entry
  <2> QED
    BY <1>2, <1>3, <2>4
<1>6. CASE RemoveBox(w)
  <2>1. pc[w] = "removeBox" /\ T!tfs_unlink(job[w].name)
    BY <1>3, <1>6, CallsKeepDirectory DEF RemoveBox, At
  <2>2. PICK t \in T!Slots : T!IsCleared(t, job[w].name) /\ T!clear_dir_entry(t)
    BY <2>1 DEF T!tfs_unlink
  <2>3. t = s
    BY <1>1, <1>2, <1>3, <2>2 DEF T!clear_dir_entry
  <2> QED
    BY <1>2, <2>1, <2>2, <2>3 DEF T!IsCleared
<1> QED
  BY <1>4, <1>5, <1>6

\* No box with a publisher is removed (mbroker.c:326), as long as no publisher
\* is counted behind the removal's back, no count of publishers is lost, no box
\* loses its place in the list to somebody who found it there, and none is
\* listed twice.
THEOREM NoneRemovedUnderAPublisher == Spec => RemovedWithoutPublisher
<1> DEFINE Keeps == \A w \in Workers, name \in Names :
                       /\ InPublisherSession(w) /\ job[w].name = name
                       /\ ~T!NotFound(name)
                       /\ lapses \cap {"raced", "lostPublishers", "removed", "doubled"} = {}
                       => ~T!NotFound(name)'
<1>1. Sound /\ Sessions /\ [Next]_vars => [Keeps]_vars
  <2> SUFFICES ASSUME Sound, Sessions, [Next]_vars, NEW w \in Workers,
                      NEW name \in Names, pc[w] \in Publishing, job[w].name = name,
                      ~T!NotFound(name),
                      lapses \cap {"raced", "lostPublishers", "removed", "doubled"} = {},
                      T!NotFound(name)'
               PROVE  UNCHANGED vars
    BY DEF InPublisherSession, Publishing
  <2>1. pc[w] # "idle"
    BY DEF Publishing, PublisherSteps
  <2>2. status # "unmounted"
    BY <2>1 DEF Sound, NobodyEarly
  <2>3. CASE status = "mounted"
    BY <2>3, FilesStay DEF Sessions, NotBeingRemoved
  <2>4. CASE status # "mounted"
    BY <2>2, <2>4, WorkersRun DEF Next, Mount, T!tfs_init, Arrive, Accept, At
  <2> QED
    BY <2>3, <2>4
<1>2. Spec => [][Keeps]_vars
  BY <1>1, BrokerIsSound, SessionsHold, PTL DEF Spec
<1> QED
  BY <1>2 DEF RemovedWithoutPublisher

-----------------------------------------------------------------------------
(* The handles.  A worker's two handles are open, different from each      *)
(* other and nobody else's; what changes them is opening the first free    *)
(* one and closing one of its own, and forgetting it.                      *)

HandlesApart ==
    status = "mounted" =>
      /\ \A w \in Workers : \A h \in Held(w) : T!IsOpen(h)
      /\ \A v, w \in Workers : v # w => Held(v) \cap Held(w) = {}
      /\ \A w \in Workers : job[w].fh # -1 => job[w].fh # job[w].aux

\* What a call does to the open file table: the handle it returns was free and
\* is taken, the handle it closes becomes free, or nothing happens.
GivesHandle(h) ==
    IF h = -1 THEN UNCHANGED free_open_file_entries
    ELSE /\ h \in T!Handles /\ free_open_file_entries[h] = T!FREE
         /\ free_open_file_entries' =
               [free_open_file_entries EXCEPT ![h] = T!TAKEN]

TakesHandle(h) ==
    \/ UNCHANGED free_open_file_entries
    \/ /\ h # -1
       /\ free_open_file_entries' = [free_open_file_entries EXCEPT ![h] = T!FREE]

LEMMA FirstFreeIsOne ==
    ASSUME free_open_file_entries \in [T!Handles -> T!AllocationState],
           NEW g, NEW h, T!IsFirstFree(g, free_open_file_entries),
           T!IsFirstFree(h, free_open_file_entries)
    PROVE  g = h
<1>1. g \in Int /\ h \in Int
  BY BrokerAssumption DEF T!IsFirstFree, T!Handles
<1>2. ~(g < h) /\ ~(h < g)
  BY DEF T!IsFirstFree, T!FREE, T!TAKEN
<1> QED
  BY <1>1, <1>2

LEMMA NewHandle ==
    ASSUME free_open_file_entries \in [T!Handles -> T!AllocationState],
           NEW inum, NEW offset, NEW h, T!add_to_open_file_table(inum, offset),
           IsNewHandle(h)
    PROVE  GivesHandle(h)
<1>0. -1 \notin T!Handles
  BY BrokerAssumption DEF T!Handles
<1>1. CASE \E g \in T!Handles :
              /\ T!IsFirstFree(g, free_open_file_entries)
              /\ free_open_file_entries' = T!Take(free_open_file_entries, g)
  <2>1. PICK g \in T!Handles :
              /\ T!IsFirstFree(g, free_open_file_entries)
              /\ free_open_file_entries' = T!Take(free_open_file_entries, g)
    BY <1>1
  <2>2. ~T!NoneFree(free_open_file_entries)
    BY <2>1 DEF T!NoneFree, T!IsFirstFree, T!FREE, T!TAKEN
  <2>3. h = g
    BY <2>1, <2>2, FirstFreeIsOne DEF IsNewHandle
  <2> QED
    BY <1>0, <2>1, <2>3 DEF GivesHandle, T!IsFirstFree, T!Take
<1>2. CASE /\ T!NoneFree(free_open_file_entries)
           /\ UNCHANGED free_open_file_entries
  <2>1. ~T!IsFirstFree(h, free_open_file_entries)
    BY <1>2 DEF T!NoneFree, T!IsFirstFree, T!FREE, T!TAKEN
  <2> QED
    BY <1>2, <2>1 DEF IsNewHandle, GivesHandle
<1> QED
  BY <1>1, <1>2 DEF T!add_to_open_file_table, T!openVars

LEMMA HandlesOfCalls ==
    ASSUME free_open_file_entries \in [T!Handles -> T!AllocationState]
    PROVE  /\ \A name, append, h : open(name, append, h) => GivesHandle(h)
           /\ \A name, h : openCreating(name, h) => GivesHandle(h)
           /\ \A h : close(h) => TakesHandle(h)
           /\ \A h, name : write(h, name) => UNCHANGED free_open_file_entries
           /\ \A h, len : T!tfs_read(h, len) => UNCHANGED free_open_file_entries
           /\ \A h : T!ReadNoBlock(h) => UNCHANGED free_open_file_entries
           /\ WriteFails => UNCHANGED free_open_file_entries
           /\ UNCHANGED tfsVars => UNCHANGED free_open_file_entries
<1> USE DEF tfsVars, tableVars
<1>1. ASSUME NEW name, NEW append, NEW h, open(name, append, h)
      PROVE  GivesHandle(h)
  <2>1. CASE T!NotFound(name) /\ h = -1 /\ UNCHANGED tfsVars
    BY <2>1 DEF GivesHandle
  <2>2. CASE T!OpenExisting(name, FALSE, append) /\ IsNewHandle(h)
    <3>1. PICK inum, offset : T!add_to_open_file_table(inum, offset)
      BY <2>2 DEF T!OpenExisting
    <3> QED
      BY <2>2, <3>1, NewHandle
  <2> QED
    BY <1>1, <2>1, <2>2 DEF open
<1>2. ASSUME NEW name, NEW h, openCreating(name, h) PROVE GivesHandle(h)
  <2>1. CASE T!OpenCreateUndone(name) /\ h = -1
    BY <2>1 DEF GivesHandle, T!OpenCreateUndone, T!openVars
  <2>2. CASE /\ T!OpenExisting(name, FALSE, FALSE) \/ T!OpenCreate(name)
             /\ IsNewHandle(h)
    <3>1. PICK inum, offset : T!add_to_open_file_table(inum, offset)
      BY <2>2 DEF T!OpenExisting, T!OpenCreate
    <3> QED
      BY <2>2, <3>1, NewHandle
  <2> QED
    BY <1>2, <2>1, <2>2 DEF openCreating
<1>3. \A h : close(h) => TakesHandle(h)
  BY DEF close, TakesHandle, T!tfs_close, T!remove_from_open_file_table, T!Release
<1>4. \A h, name : write(h, name) => UNCHANGED free_open_file_entries
  BY DEF write, T!tfs_write
<1>5. \A h, len : T!tfs_read(h, len) => UNCHANGED free_open_file_entries
  BY DEF T!tfs_read
<1>6. \A h : T!ReadNoBlock(h) => UNCHANGED free_open_file_entries
  BY DEF T!ReadNoBlock, T!abort, T!openVars
<1> QED
  BY <1>1, <1>2, <1>3, <1>4, <1>5, <1>6 DEF WriteFails

\* What happens to a worker's handles meanwhile.
LEMMA LocalHandles ==
    ASSUME Types, NEW w \in Workers
    PROVE  /\ \A h : Remember(w, "fh", h) => job'[w].fh = h /\ job'[w].aux = job[w].aux
           /\ \A h : Remember(w, "aux", h) => job'[w].aux = h /\ job'[w].fh = job[w].fh
           /\ \A i : Remember(w, "index", i) \/ Remember(w, "count", i) =>
                 job'[w].fh = job[w].fh /\ job'[w].aux = job[w].aux
           /\ Return(w) => job'[w].fh = -1 /\ job'[w].aux = -1
           /\ job' = [job EXCEPT ![w] = NoJob] => job'[w].fh = -1 /\ job'[w].aux = -1
           /\ job' = [job EXCEPT ![w].index = @ + 1, ![w].boxes_listed = @ + 1]
                 => job'[w].fh = job[w].fh /\ job'[w].aux = job[w].aux
BY SMTT(40) DEF Types, Remember, Return, NoJob, Job

HandlesMove(w) ==
    \/ /\ UNCHANGED free_open_file_entries
       /\ job'[w].fh \in {job[w].fh, -1} /\ job'[w].aux \in {job[w].aux, -1}
    \/ \E h \in Handles :
          /\ GivesHandle(h)
          /\ \/ job'[w].fh = h /\ job'[w].aux = job[w].aux
             \/ job'[w].aux = h /\ job'[w].fh = job[w].fh
    \/ /\ TakesHandle(job[w].fh)
       /\ job'[w].fh = -1 /\ job'[w].aux \in {job[w].aux, -1}
    \/ /\ TakesHandle(job[w].aux)
       /\ job'[w].aux = -1 /\ job'[w].fh \in {job[w].fh, -1}

LEMMA HandlesOfStep ==
    ASSUME Types, free_open_file_entries \in [T!Handles -> T!AllocationState],
           NEW w \in Workers, Running(w) \/ Waiting(w)
    PROVE  HandlesMove(w)
<1> USE LocalHandles, HandlesOfCalls DEF HandlesMove
<1>1. CASE PubFind(w)
  BY <1>1 DEF PubFind, sessionVars
<1>2. CASE PubRead(w)
  BY <1>2 DEF PubRead, sessionVars
<1>3. CASE PubBreak(w)
  BY <1>3 DEF PubBreak, sessionVars
<1>4. CASE PubOpenBox(w)
  BY <1>4 DEF PubOpenBox, sessionVars
<1>5. CASE PubWrite(w)
  BY <1>5 DEF PubWrite, sessionVars
<1>6. CASE PubCloseBox(w)
  BY <1>6 DEF PubCloseBox, sessionVars
<1>7. CASE SubFind(w)
  BY <1>7 DEF SubFind, sessionVars
<1>8. CASE SubOpenBox(w)
  BY <1>8 DEF SubOpenBox, sessionVars
<1>9. CASE SubOpenPipe(w)
  BY <1>9 DEF SubOpenPipe, sessionVars
<1>10. CASE SubBreak(w)
  BY <1>10 DEF SubBreak, sessionVars
<1>11. CASE SubProbe(w)
  BY <1>11 DEF SubProbe, sessionVars
<1>12. CASE SubProbed(w)
  BY <1>12 DEF SubProbed, sessionVars
<1>13. CASE SubRead(w)
  BY <1>13 DEF SubRead, sessionVars
<1>14. CASE SubWait(w)
  BY <1>14 DEF SubWait, sessionVars
<1>15. CASE SpuriousWakeup(w)
  BY <1>15 DEF SpuriousWakeup, sessionVars
<1>16. CASE SubSend(w)
  BY <1>16 DEF SubSend, sessionVars
<1>17. CASE SubGone(w)
  BY <1>17 DEF SubGone, sessionVars
<1>18. CASE CreateFind(w)
  BY <1>18 DEF CreateFind, sessionVars
<1>19. CASE CreateBox(w)
  BY <1>19 DEF CreateBox, sessionVars
<1>20. CASE CreateReply(w)
  BY <1>20 DEF CreateReply, sessionVars
<1>21. CASE CreateClose(w)
  BY <1>21 DEF CreateClose, sessionVars
<1>22. CASE RemoveFind(w)
  BY <1>22 DEF RemoveFind, sessionVars
<1>23. CASE RemoveBox(w)
  BY <1>23 DEF RemoveBox, sessionVars, T!tfs_unlink, T!openVars
<1>24. CASE RemoveReply(w)
  BY <1>24 DEF RemoveReply
<1>25. CASE ListFind(w)
  BY <1>25 DEF ListFind, sessionVars
<1>26. CASE ListNext(w)
  <2>1. \/ Return(w) /\ UNCHANGED free_open_file_entries
        \/ Remember(w, "index", job[w].index + 1) /\ UNCHANGED free_open_file_entries
        \/ \E h \in Handles :
              /\ GivesHandle(h)
              /\ IF h = -1 THEN Return(w)
                 ELSE job' = [job EXCEPT ![w].fh = h,
                                         ![w].last = job[w].last \/ IsLast(w)]
    BY <1>26 DEF ListNext
  <2>2. \A h \in Handles :
           job' = [job EXCEPT ![w].fh = h, ![w].last = job[w].last \/ IsLast(w)]
           => job'[w].fh = h /\ job'[w].aux = job[w].aux
    BY ListingOpens
  <2> QED
    BY <2>1, <2>2 DEF GivesHandle
<1>27. CASE ListRead(w)
  BY <1>27 DEF ListRead, sessionVars
<1>28. CASE ListClose(w)
  BY <1>28 DEF ListClose, sessionVars
<1>29. CASE ListSend(w)
  BY <1>29 DEF ListSend, sessionVars
<1>30. CASE RemoveTest(w)
  BY <1>30 DEF RemoveTest, sessionVars
<1>31. CASE Tells(w) \/ Lists(w)
  BY <1>31, TellingSteps, ListingSteps
<1> QED
  BY <1>1, <1>2, <1>3, <1>4, <1>5, <1>6, <1>7, <1>8, <1>9, <1>10, <1>11,
     <1>12, <1>13, <1>14, <1>15, <1>16, <1>17, <1>18, <1>19, <1>20, <1>21,
     <1>22, <1>23, <1>24, <1>25, <1>26, <1>27, <1>28, <1>29, <1>30, <1>31
  DEF Running, Waiting, Tells, Lists, Clears

\* A handle that is given was free, so nobody held it; a handle that is closed
\* was one worker's, once.
LEMMA MoveKeepsApart ==
    ASSUME Types, free_open_file_entries \in [T!Handles -> T!AllocationState],
           status = "mounted", HandlesApart, NEW w \in Workers, HandlesMove(w),
           \A v \in Workers \ {w} : job'[v] = job[v]
    PROVE  HandlesApart'
<1> DEFINE fh(v) == job[v].fh
           aux(v) == job[v].aux
           open1(h) == free_open_file_entries'[h] = T!TAKEN
           free == free_open_file_entries
<1>1. /\ -1 \notin T!Handles /\ T!FREE # T!TAKEN
      /\ \A v \in Workers : /\ fh(v) # -1 => fh(v) \in T!Handles
                            /\ aux(v) # -1 => aux(v) \in T!Handles
  BY BrokerAssumption, SMTT(40) DEF T!Handles, T!FREE, T!TAKEN, Types, Job, Handles
<1>2. /\ \A v \in Workers : /\ fh(v) # -1 => free[fh(v)] = T!TAKEN
                            /\ aux(v) # -1 => free[aux(v)] = T!TAKEN
                            /\ fh(v) # -1 => fh(v) # aux(v)
      /\ \A u, v \in Workers : u # v =>
            /\ fh(u) # -1 => fh(u) # fh(v) /\ fh(u) # aux(v)
            /\ aux(u) # -1 => aux(u) # fh(v) /\ aux(u) # aux(v)
  BY DEF HandlesApart, Held, T!IsOpen
<1> SUFFICES
      /\ \A v \in Workers : /\ job'[v].fh # -1 => open1(job'[v].fh)
                            /\ job'[v].aux # -1 => open1(job'[v].aux)
                            /\ job'[v].fh # -1 => job'[v].fh # job'[v].aux
      /\ \A u, v \in Workers : u # v =>
            /\ job'[u].fh # -1 => job'[u].fh # job'[v].fh /\ job'[u].fh # job'[v].aux
            /\ job'[u].aux # -1 => job'[u].aux # job'[v].fh /\ job'[u].aux # job'[v].aux
  BY DEF HandlesApart, Held, T!IsOpen
<1>3. CASE /\ free' = free
           /\ job'[w].fh \in {fh(w), -1} /\ job'[w].aux \in {aux(w), -1}
  BY <1>2, <1>3
<1>4. ASSUME NEW h \in Handles \ {-1}, GivesHandle(h)
      PROVE  /\ h \in T!Handles /\ open1(h)
             /\ \A g \in T!Handles : free[g] = T!TAKEN => open1(g) /\ g # h
  BY <1>1, <1>4 DEF GivesHandle, Handles
<1>5. CASE \E h \in Handles :
              /\ GivesHandle(h)
              /\ \/ job'[w].fh = h /\ job'[w].aux = aux(w)
                 \/ job'[w].aux = h /\ job'[w].fh = fh(w)
  <2>1. PICK h \in Handles :
              /\ GivesHandle(h)
              /\ \/ job'[w].fh = h /\ job'[w].aux = aux(w)
                 \/ job'[w].aux = h /\ job'[w].fh = fh(w)
    BY <1>5
  <2>2. CASE h = -1
    BY <1>2, <2>1, <2>2 DEF GivesHandle
  <2>3. CASE h # -1
    <3>1. /\ open1(h)
          /\ \A v \in Workers : /\ fh(v) # -1 => open1(fh(v)) /\ fh(v) # h
                                /\ aux(v) # -1 => open1(aux(v)) /\ aux(v) # h
      BY <1>1, <1>2, <1>4, <2>1, <2>3
    <3> HIDE DEF open1
    <3> QED
      BY <1>2, <2>1, <2>3, <3>1
  <2> QED
    BY <2>2, <2>3
<1>6. ASSUME NEW h, TakesHandle(h)
      PROVE  \A g \in T!Handles : free[g] = T!TAKEN /\ g # h => open1(g)
  BY <1>6 DEF TakesHandle
<1>7. CASE /\ TakesHandle(fh(w))
           /\ job'[w].fh = -1 /\ job'[w].aux \in {aux(w), -1}
  <2>1. \A v \in Workers : /\ v # w /\ fh(v) # -1 => open1(fh(v))
                           /\ aux(v) # -1 => open1(aux(v))
    BY <1>1, <1>2, <1>6, <1>7
  <2> HIDE DEF open1
  <2> QED
    BY <1>2, <1>7, <2>1
<1>8. CASE /\ TakesHandle(aux(w))
           /\ job'[w].aux = -1 /\ job'[w].fh \in {fh(w), -1}
  <2>1. \A v \in Workers : /\ fh(v) # -1 => open1(fh(v))
                           /\ v # w /\ aux(v) # -1 => open1(aux(v))
    BY <1>1, <1>2, <1>6, <1>8
  <2> HIDE DEF open1
  <2> QED
    BY <1>2, <1>8, <2>1
<1> QED
  BY <1>3, <1>5, <1>7, <1>8 DEF HandlesMove

LEMMA HandlesKept == Sound /\ HandlesApart /\ [Next]_vars => HandlesApart'
<1> SUFFICES ASSUME Sound, HandlesApart, [Next]_vars, status' = "mounted"
             PROVE  HandlesApart'
  BY DEF HandlesApart
<1>1. Types /\ LocalsFit /\ NobodyEarly
  BY DEF Sound
<1>2. CASE UNCHANGED vars \/ Arrive
  BY <1>2 DEF HandlesApart, Held, vars, sessionVars, tfsVars, tableVars, T!IsOpen,
              Arrive
<1>3. CASE Mount
  <2>1. \A w \in Workers : job'[w] = NoJob
    BY <1>1, <1>3 DEF Mount, T!tfs_init, sessionVars, NobodyEarly
  <2> QED
    BY <2>1 DEF HandlesApart, Held, NoJob
<1>4. status = "mounted" =>
          free_open_file_entries \in [T!Handles -> T!AllocationState]
  BY TypesOfTables DEF Sound, TablesSound, T!TypeOK
<1>5. ASSUME NEW w \in Workers, NEW step \in FirstSteps, NEW name \in Names,
             Accept(w, step, name)
      PROVE  HandlesApart'
  <2> DEFINE locals == [NoJob EXCEPT !.name = IF step = "listFind" THEN NoName ELSE name]
  <2>1. locals.fh = -1 /\ locals.aux = -1
    BY DEF NoJob
  <2>2. job' = [job EXCEPT ![w] = locals]
    BY <1>5 DEF Accept
  <2> HIDE DEF locals
  <2>3. UNCHANGED free_open_file_entries /\ status = "mounted"
    BY <1>5 DEF Accept, At, tfsVars, tableVars
  <2>4. HandlesMove(w) /\ \A v \in Workers \ {w} : job'[v] = job[v]
    BY <1>1, <2>1, <2>2, <2>3 DEF Types, HandlesMove
  <2> QED
    BY <1>1, <1>4, <2>3, <2>4, MoveKeepsApart
<1>6. ASSUME NEW w \in Workers, Running(w) \/ Waiting(w)
      PROVE  HandlesApart'
  <2>1. status = "mounted"
    BY <1>6, WorkersRun
  <2>2. HandlesMove(w)
    BY <1>1, <1>4, <1>6, <2>1, HandlesOfStep
  <2>3. \A v \in Workers \ {w} : job'[v] = job[v]
    BY <1>1, <1>6, WorkerStep, EffectMoves, OthersKeepTheirPlaces
  <2> QED
    BY <1>1, <1>4, <2>1, <2>2, <2>3, MoveKeepsApart
<1> QED
  BY <1>2, <1>3, <1>5, <1>6 DEF Next

\* Through all the ways out of a session no handle is closed twice and none is
\* used after it was closed and given to another worker (mbroker.c:92-389).
THEOREM HandlesAreOwned == Spec => []HandlesOwned
<1>1. Init => HandlesApart
  BY DEF Init, T!Init, HandlesApart
<1>2. HandlesApart => HandlesOwned
  BY DEF HandlesApart, HandlesOwned
<1> QED
  BY <1>1, <1>2, HandlesKept, BrokerIsSound, PTL DEF Spec

-----------------------------------------------------------------------------
(* The list of boxes against the directory, and what list_boxes says of    *)
(* it.                                                                     *)
(*                                                                         *)
(* As long as no two manager requests are served at once, the list and the *)
(* directory agree but for the one box a manager has in hand, and          *)
(* active_boxes is their number but for the one it has not counted.  That  *)
(* create_box lists its box even when tfs_open returned -1 does no harm:   *)
(* the list and the root directory have equally many places, so a creation *)
(* that finds no entry finds no place in the list either.                  *)

Managing(w) == pc[w] \in ManagerSteps

Found(name) == ~T!NotFound(name)

\* A manager is between its change of the directory and that of the list.
Holding == {"createList", "createName", "removeList"}

InHand(name) == \E w \in Workers : pc[w] \in Holding /\ job[w].name = name

\* It has changed the list and not yet active_boxes.
Adding == {"createPublishers", "createSubscribers", "createActive", "createActivated"}
Taking == {"removePublishers", "removeSubscribers", "removeActive", "removeActivated"}

OneManager == \A v, w \in Workers : Managing(v) /\ Managing(w) => v = w

NamesDiffer ==
    \A i, j \in Slots : i # j /\ IsListed(i) => boxes[i].box_name # boxes[j].box_name

NumberListed == Cardinality(ListedIn(Slots))

ActiveBoxesCounts ==
    /\ (\A w \in Workers : pc[w] \notin Adding \cup Taking)
       => active_boxes = NumberListed
    /\ \A w \in Workers : /\ pc[w] \in Adding => active_boxes = NumberListed - 1
                          /\ pc[w] \in Taking => active_boxes = NumberListed + 1

StoreAgrees ==
    \A name \in Names : InHand(name) \/ (Found(name) <=> name \in Listed)

\* What a manager knows of its box at each step: nobody else changes the list.
Plan(w) ==
    LET name == job[w].name
        i == job[w].index
    IN  /\ pc[w] \in {"createBox", "createList", "createName"} => name \notin Listed
        /\ pc[w] = "createList" => (Found(name) <=> \E k \in Slots : ~IsListed(k))
        /\ pc[w] = "createName" => Found(name) /\ i \in Slots /\ ~IsListed(i)
        /\ pc[w] \in {"removeTest", "removeBox"} =>
              IF i = -1 THEN name \notin Listed
              ELSE i \in Slots /\ boxes[i].box_name = name
        /\ pc[w] = "removeList" =>
              ~Found(name) /\ i \in Slots /\ boxes[i].box_name = name
        /\ pc[w] \in {"createActivated", "removeActivated"} =>
              job[w].count = active_boxes

ListHolds ==
    /\ OneManager /\ NamesDiffer /\ ActiveBoxesCounts /\ StoreAgrees
    /\ \A w \in Workers : Plan(w)

ListSound == status = "mounted" /\ ~overlapped => ListHolds

EmptyEarly ==
    status = "unmounted" =>
        /\ \A i \in Slots : ~IsListed(i)
        /\ active_boxes = 0

-----------------------------------------------------------------------------
(* What a step does to the list and the directory.                         *)

ListKept ==
    /\ \A i \in Slots : boxes'[i].box_name = boxes[i].box_name
    /\ active_boxes' = active_boxes /\ dir_entries' = dir_entries

\* Where the plans are made, carried out and forgotten.
Planned == {"createBox", "removeTest", "removeBox"} \cup Holding \cup Adding \cup Taking

Harmless(w) ==
    /\ ListKept
    /\ pc'[w] \in ManagerSteps => pc[w] \in ManagerSteps
    /\ pc'[w] \in ListSteps => pc[w] \in ListSteps
    /\ pc'[w] \notin Planned /\ pc[w] \notin Holding \cup Adding \cup Taking

PlansCreation(w) ==
    /\ ListKept /\ job' = job
    /\ pc[w] = "createFind" /\ pc'[w] = "createBox" /\ job[w].name \notin Listed

MakesFile(w) ==
    /\ \A i \in Slots : boxes'[i].box_name = boxes[i].box_name
    /\ active_boxes' = active_boxes
    /\ pc[w] = "createBox" /\ pc'[w] = "createList" /\ job'[w].name = job[w].name
    /\ \E h \in Handles : openCreating(job[w].name, h)

FindsRoom(w) ==
    /\ ListKept /\ job'[w].name = job[w].name
    /\ pc[w] = "createList"
    /\ \/ /\ pc'[w] = "createName"
          /\ job'[w].index \in Slots /\ ~IsListed(job'[w].index)
       \/ pc'[w] = "createReply" /\ \A i \in Slots : IsListed(i)

\* Only the name of place i changes.
Renames(i, name) ==
    /\ boxes'[i].box_name = name
    /\ \A j \in Slots \ {i} : boxes'[j].box_name = boxes[j].box_name

FillsPlace(w) ==
    /\ dir_entries' = dir_entries /\ job' = job /\ active_boxes' = active_boxes
    /\ pc[w] = "createName" /\ pc'[w] = "createPublishers"
    /\ Renames(job[w].index, job[w].name)

FindsPlace(w) ==
    /\ ListKept /\ job'[w].name = job[w].name
    /\ LET i == job'[w].index IN
       \/ /\ pc[w] = "removeFind" /\ pc'[w] = "removeTest"
          /\ IF i = -1 THEN job[w].name \notin Listed
             ELSE i \in Slots /\ boxes[i].box_name = job[w].name
       \/ pc[w] = "removeTest" /\ pc'[w] = "removeBox" /\ i = job[w].index

Unlinks(w) ==
    /\ \A i \in Slots : boxes'[i].box_name = boxes[i].box_name
    /\ active_boxes' = active_boxes /\ job' = job
    /\ pc[w] = "removeBox"
    /\ \/ pc'[w] = "removeList" /\ T!tfs_unlink(job[w].name)
       \/ pc'[w] = "removeReply" /\ dir_entries' = dir_entries

EmptiesPlace(w) ==
    /\ dir_entries' = dir_entries /\ job' = job /\ active_boxes' = active_boxes
    /\ pc[w] = "removeList" /\ pc'[w] = "removePublishers"
    /\ job[w].index \in Slots => Renames(job[w].index, NoName)

\* The counts of the place are cleared and active_boxes is loaded.
Settles(w) ==
    /\ ListKept /\ job'[w].name = job[w].name
    /\ \/ pc[w] \in Adding /\ pc'[w] \in Adding
       \/ pc[w] \in Taking /\ pc'[w] \in Taking
    /\ pc'[w] \in {"createActivated", "removeActivated"} =>
          job'[w].count = active_boxes

StoresActive(w) ==
    /\ \A i \in Slots : boxes'[i].box_name = boxes[i].box_name
    /\ dir_entries' = dir_entries
    /\ \/ /\ pc[w] = "createActivated" /\ pc'[w] = "createReply"
          /\ active_boxes' = job[w].count + 1
       \/ /\ pc[w] = "removeActivated" /\ pc'[w] = "removeReply"
          /\ active_boxes' = job[w].count - 1

ManagerEffect(w) ==
    \/ Harmless(w)
    \/ PlansCreation(w) \/ MakesFile(w) \/ FindsRoom(w) \/ FillsPlace(w)
    \/ FindsPlace(w) \/ Unlinks(w) \/ EmptiesPlace(w)
    \/ Settles(w) \/ StoresActive(w)

LEMMA NamesStay ==
    ASSUME Types, NEW w \in Workers, Running(w) \/ Waiting(w),
           pc[w] \notin {"createName", "removeList"}
    PROVE  \A i \in Slots : boxes'[i].box_name = boxes[i].box_name
<1>1. ~CreateName(w) /\ ~RemoveList(w)
  BY DEF CreateName, RemoveList, Step, At
<1>2. CASE UNCHANGED boxes
  BY <1>2
<1>3. CASE Stores(w)
  BY <1>3 DEF Types, Box, Stores, PubStore, PubLeft, SubStore, SubLeft
<1>4. CASE Clears(w)
  BY <1>4 DEF Types, Box, Clears, CreatePublishers, RemovePublishers,
              CreateSubscribers, RemoveSubscribers, ClearPublishers,
              ClearSubscribers
<1> QED
  BY <1>1, <1>2, <1>3, <1>4, WorkersRun

LEMMA ListStays ==
    ASSUME Types, NEW w \in Workers, Running(w) \/ Waiting(w),
           pc[w] \notin {"createBox", "createName", "createActivated",
                        "removeBox", "removeList", "removeActivated"}
    PROVE  ListKept
<1>1. ~CreateBox(w) /\ ~RemoveBox(w)
  BY DEF CreateBox, RemoveBox, Step, At
<1>2. ~CreateActivated(w) /\ ~RemoveActivated(w)
  BY DEF CreateActivated, RemoveActivated, Step, At
<1>3. active_boxes' = active_boxes
  BY <1>2, WorkersRun
<1> QED
  BY <1>1, <1>3, NamesStay, DirectoryChanges DEF ListKept

\* The sessions of publishers, subscribers and listings.
OthersSteps == PublisherSteps \cup SubscriberSteps \cup ListSteps \cup {"idle"}

LEMMA OtherSessions ==
    ASSUME Types, NEW w \in Workers,
           \/ PubFind(w) \/ Tells(w) \/ PubRead(w) \/ PubBreak(w)
           \/ PubOpenBox(w) \/ PubWrite(w) \/ PubCloseBox(w)
           \/ SubFind(w) \/ SubOpenBox(w) \/ SubOpenPipe(w) \/ SubBreak(w)
           \/ SubProbe(w) \/ SubProbed(w) \/ SubRead(w) \/ SubWait(w)
           \/ SpuriousWakeup(w) \/ SubSend(w) \/ SubGone(w)
           \/ ListFind(w) \/ ListNext(w) \/ ListRead(w) \/ ListClose(w)
           \/ ListSend(w)
    PROVE  /\ pc[w] \in OthersSteps /\ pc'[w] \in OthersSteps
           /\ pc'[w] \in ListSteps => pc[w] \in ListSteps
<1> USE DEF Types, GoTo, GoToAndBroadcast, Woken, Step, At, Return, OthersSteps,
            PublisherSteps, SubscriberSteps, ListSteps
<1>1. CASE PubFind(w)
  BY <1>1 DEF PubFind
<1>2. CASE Tells(w)
  BY <1>2 DEF Tells, PubTest, PubCount, PubStore, PubLeave, PubLeft, SubCount,
              SubStore, SubLeave, SubLeft
<1>3. CASE PubRead(w)
  BY <1>3 DEF PubRead
<1>4. CASE PubBreak(w)
  BY <1>4 DEF PubBreak
<1>5. CASE PubOpenBox(w)
  BY <1>5 DEF PubOpenBox
<1>6. CASE PubWrite(w)
  BY <1>6 DEF PubWrite
<1>7. CASE PubCloseBox(w)
  BY <1>7 DEF PubCloseBox
<1>9. CASE SubFind(w)
  BY <1>9 DEF SubFind
<1>10. CASE SubOpenBox(w)
  BY <1>10 DEF SubOpenBox
<1>11. CASE SubOpenPipe(w)
  BY <1>11 DEF SubOpenPipe
<1>12. CASE SubBreak(w)
  BY <1>12 DEF SubBreak
<1>13. CASE SubProbe(w)
  BY <1>13 DEF SubProbe
<1>14. CASE SubProbed(w)
  BY <1>14 DEF SubProbed
<1>15. CASE SubRead(w)
  BY <1>15 DEF SubRead
<1>16. CASE SubWait(w)
  BY <1>16 DEF SubWait
<1>17. CASE SpuriousWakeup(w)
  BY <1>17 DEF SpuriousWakeup
<1>18. CASE SubSend(w)
  BY <1>18 DEF SubSend
<1>19. CASE SubGone(w)
  BY <1>19 DEF SubGone
<1>21. CASE ListFind(w)
  BY <1>21 DEF ListFind
<1>22. CASE ListNext(w)
  BY <1>22 DEF ListNext
<1>23. CASE ListRead(w)
  BY <1>23 DEF ListRead
<1>24. CASE ListClose(w)
  BY <1>24 DEF ListClose
<1>25. CASE ListSend(w)
  BY <1>25 DEF ListSend
<1> QED
  BY <1>1, <1>2, <1>3, <1>4, <1>5, <1>6, <1>7, <1>9, <1>10, <1>11, <1>12, <1>13,
     <1>14, <1>15, <1>16, <1>17, <1>18, <1>19, <1>21, <1>22, <1>23, <1>24, <1>25

LEMMA IndexOfName ==
    ASSUME NEW i \in Slots \cup {-1}, NEW name \in Names, IsBoxIndex(i, name)
    PROVE  /\ i = -1 => name \notin Listed
           /\ i # -1 => i \in Slots /\ boxes[i].box_name = name
<1>1. -1 \notin Slots
  BY BrokerAssumption DEF Slots
<1> QED
  BY <1>1, BrokerAssumption DEF IsBoxIndex, Listed

\* What is the same in every step of a manager.
LEMMA ManagerGoes ==
    ASSUME Types, LocalsFit, NEW w \in Workers
    PROVE  /\ pc[w] \in ManagerSteps => job[w].name \in Names
           /\ \A place : GoTo(w, place) => pc'[w] = place
           /\ \A place : GoToAndBroadcast(w, place) /\ place # "subWaiting"
                 => pc'[w] = place
BY DEF Types, LocalsFit, Fits, GoTo, GoToAndBroadcast, Woken

LEMMA CreationSteps ==
    ASSUME Types, LocalsFit, NEW w \in Workers,
           CreateFind(w) \/ CreateBox(w) \/ CreateList(w) \/ CreateName(w)
           \/ CreateReply(w) \/ CreateClose(w)
    PROVE  ManagerEffect(w)
<1> USE ManagerGoes
<1>1. Running(w) \/ Waiting(w)
  BY DEF Running, Waiting
<1>2. CASE CreateFind(w)
  <2>1. pc[w] = "createFind" /\ ListKept
    BY <1>1, <1>2, ListStays DEF CreateFind, At
  <2>2. CASE pc'[w] = "idle"
    BY <2>1, <2>2 DEF ManagerEffect, Harmless, Planned, Holding, Adding, Taking,
                      ManagerSteps, ListSteps
  <2>3. CASE IsBoxIndex(-1, job[w].name) /\ pc'[w] = "createBox" /\ job' = job
    <3>1. job[w].name \notin Listed
      BY <2>1, <2>3, IndexOfName DEF ManagerSteps
    <3> QED
      BY <2>1, <2>3, <3>1 DEF ManagerEffect, PlansCreation
  <2> QED
    BY <1>2, <2>2, <2>3 DEF CreateFind, Return
<1>3. CASE CreateBox(w)
  <2>1. pc[w] = "createBox" /\ pc'[w] = "createList"
    BY <1>3 DEF CreateBox, Step, At
  <2>2. PICK h \in Handles : openCreating(job[w].name, h) /\ Remember(w, "fh", h)
    BY <1>3 DEF CreateBox
  <2>3. job'[w].name = job[w].name
    BY <2>2, RememberKeeps DEF JobKeeps
  <2>4. active_boxes' = active_boxes
    BY <1>3 DEF CreateBox, OthersUnchanged, listVars
  <2> QED
    BY <1>1, <2>1, <2>2, <2>3, <2>4, NamesStay DEF ManagerEffect, MakesFile
<1>4. CASE CreateList(w)
  <2>1. pc[w] = "createList" /\ ListKept
    BY <1>1, <1>4, ListStays DEF CreateList, At
  <2>2. PICK i \in Slots \cup {-1} :
           /\ IsBoxIndex(i, NoName)
           /\ Remember(w, "index", i)
           /\ GoTo(w, IF i = -1 THEN "createReply" ELSE "createName")
    BY <1>4 DEF CreateList
  <2>3. job'[w].index = i /\ job'[w].name = job[w].name
    BY <2>2, IndexMoves
  <2>4. CASE i = -1
    <3>1. \A j \in Slots : IsListed(j)
      BY <2>2, <2>4, BrokerAssumption DEF IsBoxIndex, Slots, IsListed
    <3>2. pc'[w] = "createReply"
      BY <2>2, <2>4
    <3> QED
      BY <2>1, <2>3, <3>1, <3>2 DEF ManagerEffect, FindsRoom
  <2>5. CASE i # -1
    <3>1. i \in Slots /\ ~IsListed(i)
      BY <2>2, <2>5 DEF IsBoxIndex, IsListed
    <3>2. pc'[w] = "createName"
      BY <2>2, <2>5
    <3> QED
      BY <2>1, <2>3, <3>1, <3>2 DEF ManagerEffect, FindsRoom
  <2> QED
    BY <2>4, <2>5
<1>5. CASE CreateName(w)
  <2>1. /\ pc[w] = "createName" /\ pc'[w] = "createPublishers" /\ job' = job
        /\ dir_entries' = dir_entries /\ active_boxes' = active_boxes
        /\ boxes' = [boxes EXCEPT ![job[w].index].box_name = job[w].name]
    BY <1>5 DEF CreateName, Step, At, StoreUnchanged, tfsVars, tableVars
  <2>2. job[w].index \in Slots
    BY <2>1 DEF LocalsFit, Fits
  <2>3. Renames(job[w].index, job[w].name)
    BY <2>1, <2>2 DEF Types, Box, Renames
  <2> QED
    BY <2>1, <2>3 DEF ManagerEffect, FillsPlace
<1>6. CASE CreateReply(w) \/ CreateClose(w)
  <2>1. pc[w] \in {"createReply", "createClose"}
        /\ pc'[w] \in {"idle", "createClose"}
    BY <1>6 DEF CreateReply, CreateClose, Return, At
  <2>2. ListKept
    BY <1>1, <2>1, ListStays
  <2> QED
    BY <2>1, <2>2 DEF ManagerEffect, Harmless, Planned, Holding, Adding, Taking,
                      ManagerSteps, ListSteps
<1> QED
  BY <1>2, <1>3, <1>4, <1>5, <1>6

LEMMA RemovalSteps ==
    ASSUME Types, LocalsFit, NEW w \in Workers,
           RemoveFind(w) \/ RemoveTest(w) \/ RemoveBox(w) \/ RemoveList(w)
           \/ RemoveReply(w)
    PROVE  ManagerEffect(w)
<1> USE ManagerGoes
<1>1. Running(w) \/ Waiting(w)
  BY DEF Running, Waiting
<1>2. CASE RemoveFind(w)
  <2>1. pc[w] = "removeFind" /\ ListKept
    BY <1>1, <1>2, ListStays DEF RemoveFind, At
  <2>2. CASE pc'[w] = "idle"
    BY <2>1, <2>2 DEF ManagerEffect, Harmless, Planned, Holding, Adding, Taking,
                      ManagerSteps, ListSteps
  <2>3. ASSUME NEW i \in Slots \cup {-1}, IsBoxIndex(i, job[w].name),
               Remember(w, "index", i), pc'[w] = "removeTest"
        PROVE  ManagerEffect(w)
    <3>1. job'[w].index = i /\ job'[w].name = job[w].name
      BY <2>3, IndexMoves
    <3>2. IF i = -1 THEN job[w].name \notin Listed
          ELSE i \in Slots /\ boxes[i].box_name = job[w].name
      BY <2>1, <2>3, IndexOfName DEF ManagerSteps
    <3> QED
      BY <2>1, <2>3, <3>1, <3>2 DEF ManagerEffect, FindsPlace
  <2> QED
    BY <1>2, <2>2, <2>3 DEF RemoveFind, Return
<1>3. CASE RemoveTest(w)
  <2>1. pc[w] = "removeTest" /\ ListKept
    BY <1>1, <1>3, ListStays DEF RemoveTest, At
  <2>2. pc'[w] = "idle" \/ (pc'[w] = "removeBox" /\ job' = job)
    BY <1>3 DEF RemoveTest, Return
  <2>3. CASE pc'[w] = "idle"
    BY <2>1, <2>3 DEF ManagerEffect, Harmless, Planned, Holding, Adding, Taking,
                      ManagerSteps, ListSteps
  <2>4. CASE pc'[w] = "removeBox" /\ job' = job
    BY <2>1, <2>4 DEF ManagerEffect, FindsPlace
  <2> QED
    BY <2>2, <2>3, <2>4
<1>4. CASE RemoveBox(w)
  <2>1. pc[w] = "removeBox" /\ job' = job /\ active_boxes' = active_boxes
    BY <1>4 DEF RemoveBox, At, sessionVars, listVars
  <2>2. \/ pc'[w] = "removeList" /\ T!tfs_unlink(job[w].name)
        \/ pc'[w] = "removeReply" /\ dir_entries' = dir_entries
    BY <1>4 DEF RemoveBox, tfsVars, tableVars
  <2> QED
    BY <1>1, <2>1, <2>2, NamesStay DEF ManagerEffect, Unlinks
<1>5. CASE RemoveList(w)
  <2>1. /\ pc[w] = "removeList" /\ pc'[w] = "removePublishers" /\ job' = job
        /\ active_boxes' = active_boxes /\ dir_entries' = dir_entries
    BY <1>5 DEF RemoveList, Step, At, StoreUnchanged, tfsVars, tableVars
  <2>2. job[w].index \in Slots => Renames(job[w].index, NoName)
    <3> SUFFICES ASSUME job[w].index \in Slots PROVE Renames(job[w].index, NoName)
      OBVIOUS
    <3>1. job[w].index # -1
      BY BrokerAssumption DEF Slots
    <3>2. boxes' = [boxes EXCEPT ![job[w].index].box_name = NoName]
      BY <1>5, <3>1 DEF RemoveList
    <3> QED
      BY <3>2 DEF Types, Box, Renames
  <2> QED
    BY <2>1, <2>2 DEF ManagerEffect, EmptiesPlace
<1>6. CASE RemoveReply(w)
  <2>1. pc[w] = "removeReply" /\ pc'[w] = "idle"
    BY <1>6 DEF RemoveReply, Return, At, Woken, Types
  <2>2. ListKept
    BY <1>1, <2>1, ListStays
  <2> QED
    BY <2>1, <2>2 DEF ManagerEffect, Harmless, Planned, Holding, Adding, Taking,
                      ManagerSteps, ListSteps
<1> QED
  BY <1>2, <1>3, <1>4, <1>5, <1>6

LEMMA ActiveSteps ==
    ASSUME Types, LocalsFit, NEW w \in Workers,
           CreateActive(w) \/ CreateActivated(w) \/ RemoveActive(w)
           \/ RemoveActivated(w) \/ Clears(w)
    PROVE  ManagerEffect(w)
<1> USE ManagerGoes
<1>1. Running(w) \/ Waiting(w)
  BY DEF Running, Waiting, Clears
<1>2. CASE Clears(w)
  <2>1. /\ job' = job
        /\ \/ /\ pc[w] \in {"createPublishers", "createSubscribers"}
              /\ pc'[w] \in {"createSubscribers", "createActive"}
           \/ /\ pc[w] \in {"removePublishers", "removeSubscribers"}
              /\ pc'[w] \in {"removeSubscribers", "removeActive"}
    BY <1>2 DEF Clears, CreatePublishers, RemovePublishers, CreateSubscribers,
                RemoveSubscribers, ClearPublishers, ClearSubscribers, Step, At
  <2>2. ListKept
    BY <1>1, <2>1, ListStays
  <2> QED
    BY <2>1, <2>2 DEF ManagerEffect, Settles, Adding, Taking
<1>3. CASE CreateActive(w) \/ RemoveActive(w)
  <2>1. /\ Remember(w, "count", active_boxes)
        /\ \/ pc[w] = "createActive" /\ pc'[w] = "createActivated"
           \/ pc[w] = "removeActive" /\ pc'[w] = "removeActivated"
    BY <1>3 DEF CreateActive, RemoveActive, LoadActive, Step, At
  <2>2. job'[w].name = job[w].name /\ job'[w].count = active_boxes
    BY <2>1 DEF Remember, Types, Job
  <2>3. ListKept
    BY <1>1, <2>1, ListStays
  <2> QED
    BY <2>1, <2>2, <2>3 DEF ManagerEffect, Settles, Adding, Taking
<1>4. CASE CreateActivated(w) \/ RemoveActivated(w)
  <2>1. /\ dir_entries' = dir_entries /\ boxes' = boxes
        /\ \/ /\ pc[w] = "createActivated" /\ pc'[w] = "createReply"
              /\ active_boxes' = job[w].count + 1
           \/ /\ pc[w] = "removeActivated" /\ pc'[w] = "removeReply"
              /\ active_boxes' = job[w].count + -1
    BY <1>4 DEF CreateActivated, RemoveActivated, StoreActive, Step, At, tfsVars,
                tableVars
  <2>2. job[w].count + -1 = job[w].count - 1
    BY DEF Types, Job
  <2> QED
    BY <2>1, <2>2 DEF ManagerEffect, StoresActive
<1> QED
  BY <1>2, <1>3, <1>4

LEMMA EveryManagerEffect ==
    ASSUME Types, LocalsFit, NEW w \in Workers, Running(w) \/ Waiting(w)
    PROVE  ManagerEffect(w)
<1>1. CASE /\ pc[w] \in OthersSteps /\ pc'[w] \in OthersSteps
           /\ pc'[w] \in ListSteps => pc[w] \in ListSteps
  <2>1. /\ pc[w] \notin ManagerSteps /\ pc'[w] \notin ManagerSteps
        /\ Planned \subseteq ManagerSteps
    BY <1>1 DEF OthersSteps, PublisherSteps, SubscriberSteps, ListSteps,
                ManagerSteps, Planned, Holding, Adding, Taking
  <2> QED
    BY <1>1, <2>1, ListStays DEF ManagerEffect, Harmless, Planned, Holding,
                                 Adding, Taking
<1> QED
  BY <1>1, OtherSessions, CreationSteps, RemovalSteps, ActiveSteps
     DEF Running, Waiting, Tells, Clears

-----------------------------------------------------------------------------
(* The directory as a set of names, and the list as one.                   *)

Used(s) == dir_entries[s].d_inumber # -1

LEMMA Directory ==
    ASSUME Sound, status = "mounted"
    PROVE  /\ T!Slots = Slots
           /\ dir_entries \in [Slots -> T!DirEntry]
           /\ \A s \in Slots : Used(s) => dir_entries[s].d_name \in Names
           /\ \A s, t \in Slots : Used(s) /\ Used(t) /\ s # t =>
                 dir_entries[s].d_name # dir_entries[t].d_name
<1>1. TP!IInv
  BY DEF Sound, TablesSound
<1>2. T!TypeOK
  BY <1>1, TypesOfTables
<1>3. TP!DirectoryMatchesInodes /\ TP!Slots = Slots /\ T!Slots = Slots
  BY <1>1 DEF TP!IInv, TP!Slots, T!Slots, Slots
<1> QED
  BY <1>2, <1>3 DEF T!TypeOK, TP!DirectoryMatchesInodes, TP!Used, Used,
                    TP!ShortNames

LEMMA FoundIsUsed ==
    ASSUME NEW name, T!Slots = Slots
    PROVE  Found(name) <=> \E s \in Slots : Used(s) /\ dir_entries[s].d_name = name
BY DEF Found, T!NotFound, Used

\* One thing for each of another: as many of the one as of the other.
LEMMA OneEach ==
    ASSUME NEW S, NEW U, IsFiniteSet(S), NEW f \in [S -> U],
           \A a, b \in S : f[a] = f[b] => a = b, \A u \in U : \E a \in S : f[a] = u
    PROVE  IsFiniteSet(U) /\ Cardinality(U) = Cardinality(S)
<1>1. f \in Bijection(S, U)
  BY Fun_IsBij
<1> QED
  BY <1>1, FS_Bijection DEF ExistsBijection

LEMMA SlotsFinite == /\ IsFiniteSet(Slots)
                     /\ \A S \in SUBSET Slots : IsFiniteSet(S)
<1>1. IsFiniteSet(Slots)
  BY BrokerAssumption, FS_Interval DEF Slots
<1> QED
  BY <1>1, FS_Subset

\* When every box is listed once, the list and the directory are full together:
\* they have equally many places.
LEMMA SameRoom ==
    ASSUME Sound, status = "mounted", NamesDiffer,
           \A name \in Names : Found(name) <=> name \in Listed
    PROVE  (\A s \in Slots : Used(s)) <=> (\A i \in Slots : IsListed(i))
<1> DEFINE U == {s \in Slots : Used(s)}
           L == ListedIn(Slots)
           f == [s \in U |-> CHOOSE i \in Slots :
                                boxes[i].box_name = dir_entries[s].d_name]
<1>1. IsFiniteSet(U) /\ IsFiniteSet(L)
  BY SlotsFinite DEF ListedIn
<1>2. \A s \in U : /\ f[s] \in Slots
                   /\ boxes[f[s]].box_name = dir_entries[s].d_name
                   /\ dir_entries[s].d_name \in Names
  <2> SUFFICES ASSUME NEW s \in U
               PROVE  /\ f[s] \in Slots
                      /\ boxes[f[s]].box_name = dir_entries[s].d_name
                      /\ dir_entries[s].d_name \in Names
    OBVIOUS
  <2>1. dir_entries[s].d_name \in Names /\ Found(dir_entries[s].d_name)
    BY Directory, FoundIsUsed
  <2>2. \E i \in Slots : boxes[i].box_name = dir_entries[s].d_name
    BY <2>1 DEF Listed
  <2> QED
    BY <2>1, <2>2
<1>3. f \in [U -> L]
  BY <1>2, BrokerAssumption DEF ListedIn, IsListed
<1>4. \A s, t \in U : f[s] = f[t] => s = t
  BY <1>2, Directory
<1>5. \A i \in L : \E s \in U : f[s] = i
  <2> SUFFICES ASSUME NEW i \in L PROVE \E s \in U : f[s] = i
    OBVIOUS
  <2>1. i \in Slots /\ IsListed(i) /\ boxes[i].box_name \in Names
    BY DEF ListedIn, IsListed, Sound, Types, Box
  <2>2. PICK s \in Slots : Used(s) /\ dir_entries[s].d_name = boxes[i].box_name
    BY <2>1, Directory, FoundIsUsed DEF Listed, IsListed
  <2>3. f[s] = i
    BY <1>2, <2>1, <2>2 DEF NamesDiffer
  <2> QED
    BY <2>2, <2>3
<1> HIDE DEF f
<1>6. Cardinality(L) = Cardinality(U)
  BY <1>1, <1>3, <1>4, <1>5, OneEach
<1>7. L \subseteq Slots /\ U \subseteq Slots
  BY DEF ListedIn
<1> HIDE DEF L, U
<1>8. U = Slots <=> L = Slots
  BY <1>6, <1>7, SlotsFinite, FS_Subset
<1> QED
  BY <1>8 DEF L, U, ListedIn

\* What creating and unlinking one file does to the names that are found.
LEMMA FileMade ==
    ASSUME Sound, status = "mounted", NEW name \in Names, ~Found(name), NEW h,
           openCreating(name, h)
    PROVE  /\ \A n \in Names \ {name} : Found(n)' <=> Found(n)
           /\ Found(name)' <=> ~\A s \in Slots : Used(s)
<1>1. T!NotFound(name)
  BY DEF Found
<1>2. ~T!OpenExisting(name, FALSE, FALSE)
  BY <1>1 DEF T!OpenExisting, T!Finds, T!NotFound
<1>3. CASE T!OpenCreate(name)
  <2>1. PICK inum \in T!Inums, s \in T!Slots :
          T!IsFirstUnused(s) /\ T!add_dir_entry(s, name, inum)
    BY <1>3 DEF T!OpenCreate
  <2>2. /\ s \in Slots /\ ~Used(s) /\ inum # -1
        /\ dir_entries' =
              [dir_entries EXCEPT ![s] = [d_name |-> name, d_inumber |-> inum]]
    BY <2>1, Directory, BrokerAssumption DEF T!IsFirstUnused, T!add_dir_entry,
                                             Used, T!Inums
  <2>3. /\ dir_entries'[s].d_name = name /\ dir_entries'[s].d_inumber # -1
        /\ \A t \in Slots \ {s} : dir_entries'[t] = dir_entries[t]
    BY <2>2, Directory
  <2> QED
    BY <2>2, <2>3, Directory DEF Found, T!NotFound, Used
<1>4. CASE T!OpenCreateUndone(name)
  <2>1. dir_entries' = dir_entries /\ T!DirectoryFull
    BY <1>4 DEF T!OpenCreateUndone, T!dirVars, T!CannotList
  <2> QED
    BY <2>1, Directory DEF Found, T!NotFound, T!DirectoryFull, Used
<1> QED
  BY <1>2, <1>3, <1>4 DEF openCreating

LEMMA FileGone ==
    ASSUME Sound, status = "mounted", NEW name \in Names, T!tfs_unlink(name)
    PROVE  /\ Found(name) /\ ~Found(name)'
           /\ \A n \in Names \ {name} : Found(n)' <=> Found(n)
<1>1. PICK s \in T!Slots : T!Finds(s, name)
  BY DEF T!tfs_unlink
<1>2. PICK t \in T!Slots : T!IsCleared(t, name) /\ T!clear_dir_entry(t)
  BY DEF T!tfs_unlink
<1>3. t = s
  <2>1. TP!IInv
    BY DEF Sound, TablesSound
  <2>2. s \in TP!Slots /\ t \in TP!Slots /\ TP!Finds(s, name) /\ TP!IsCleared(t, name)
    BY <1>1, <1>2 DEF T!Slots, TP!Slots, T!Finds, TP!Finds, T!IsCleared, TP!IsCleared
  <2> QED
    BY <2>1, <2>2, TP!FindAndClearAgree, TablesFit DEF TP!IInv
<1>4. s \in Slots /\ Used(s) /\ dir_entries[s].d_name = name
  BY <1>1, Directory DEF T!Finds, Used
<1>5. /\ dir_entries'[s].d_inumber = -1
      /\ \A u \in Slots \ {s} : dir_entries'[u] = dir_entries[u]
  BY <1>2, <1>3, <1>4, Directory DEF T!clear_dir_entry, T!ClearedEntry
<1>6. T!Slots = Slots
  BY Directory
<1>7. Found(name)
  BY <1>4, <1>6, FoundIsUsed
<1>8. ~Found(name)'
  BY <1>4, <1>5, <1>6, Directory DEF Found, T!NotFound, Used
<1>9. \A n \in Names \ {name} : Found(n)' <=> Found(n)
  BY <1>4, <1>5, <1>6 DEF Found, T!NotFound, Used
<1> QED
  BY <1>7, <1>8, <1>9

\* What one step does to the set of listed names and the number of places.
LEMMA ListUnchanged ==
    ASSUME \A i \in Slots : boxes'[i].box_name = boxes[i].box_name
    PROVE  /\ Listed' = Listed /\ ListedIn(Slots)' = ListedIn(Slots)
           /\ NamesDiffer => NamesDiffer'
           /\ \A i \in Slots : IsListed(i)' <=> IsListed(i)
           /\ NumberListed' = NumberListed
<1>1. ListedIn(Slots)' = ListedIn(Slots)
  BY DEF ListedIn, IsListed
<1> QED
  BY <1>1 DEF Listed, IsListed, NamesDiffer, NumberListed

LEMMA ListFilled ==
    ASSUME NamesDiffer, NEW i \in Slots, ~IsListed(i), NEW name \in Names,
           Renames(i, name), name \notin Listed
    PROVE  /\ Listed' = Listed \cup {name} /\ NamesDiffer'
           /\ ListedIn(Slots)' = ListedIn(Slots) \cup {i} /\ i \notin ListedIn(Slots)
<1>1. /\ name # NoName /\ boxes'[i].box_name = name
      /\ \A j \in Slots \ {i} : boxes'[j].box_name = boxes[j].box_name
      /\ \A j \in Slots : boxes[j].box_name # name
  BY BrokerAssumption DEF Renames, Listed
<1>2. Listed' = Listed \cup {name}
  BY <1>1 DEF Listed, IsListed
<1>3. NamesDiffer'
  BY <1>1 DEF NamesDiffer, IsListed
<1> QED
  BY <1>1, <1>2, <1>3 DEF ListedIn, IsListed

LEMMA ListEmptied ==
    ASSUME NamesDiffer, NEW i \in Slots, NEW name \in Names,
           boxes[i].box_name = name, Renames(i, NoName)
    PROVE  /\ Listed' = Listed \ {name} /\ NamesDiffer'
           /\ ListedIn(Slots)' = ListedIn(Slots) \ {i} /\ i \in ListedIn(Slots)
<1>1. /\ name # NoName /\ boxes'[i].box_name = NoName
      /\ \A j \in Slots \ {i} : boxes'[j].box_name = boxes[j].box_name
      /\ \A j \in Slots \ {i} : boxes[j].box_name # name
  BY BrokerAssumption DEF Renames, NamesDiffer, IsListed
<1>2. Listed' = Listed \ {name}
  BY <1>1 DEF Listed, IsListed
<1>3. NamesDiffer'
  BY <1>1 DEF NamesDiffer, IsListed
<1> QED
  BY <1>1, <1>2, <1>3 DEF ListedIn, IsListed

LEMMA NumberAfter ==
    ASSUME Sound, NEW i
    PROVE  /\ NumberListed \in Nat
           /\ ListedIn(Slots)' = ListedIn(Slots) \cup {i} /\ i \notin ListedIn(Slots)
              => NumberListed' = NumberListed + 1
           /\ ListedIn(Slots)' = ListedIn(Slots) \ {i} /\ i \in ListedIn(Slots)
              => NumberListed' = NumberListed - 1
<1> DEFINE L == ListedIn(Slots)
           L1 == ListedIn(Slots)'
<1>1. IsFiniteSet(L)
  BY SlotsFinite DEF ListedIn
<1>2. NumberListed = Cardinality(L) /\ NumberListed' = Cardinality(L1)
  BY DEF NumberListed
<1> HIDE DEF L, L1
<1>3. /\ Cardinality(L) \in Nat
      /\ L1 = L \cup {i} /\ i \notin L => Cardinality(L1) = Cardinality(L) + 1
      /\ L1 = L \ {i} /\ i \in L => Cardinality(L1) = Cardinality(L) - 1
  BY <1>1, FS_CardinalityType, FS_AddElement, FS_RemoveElement
<1> QED
  BY <1>2, <1>3 DEF L, L1

-----------------------------------------------------------------------------
(* The agreement of the list and the directory is kept.                    *)

OthersStay(w) ==
    \A v \in Workers \ {w} :
        /\ job'[v] = job[v]
        /\ pc'[v] = pc[v] \/ (pc[v] = "subWaiting" /\ pc'[v] = "subProbe")

LEMMA OthersDoStay ==
    ASSUME Types, LocalsFit, NEW w \in Workers, Running(w) \/ Waiting(w)
    PROVE  OthersStay(w)
BY WorkerStep, EffectMoves DEF PcMoves, JobMoves, OthersStay

LEMMA HarmlessKeeps ==
    ASSUME Sound, ListHolds, NEW w \in Workers, OthersStay(w), Harmless(w)
    PROVE  ListHolds'
<1> USE DEF ListHolds
<1>1. /\ Listed' = Listed /\ NumberListed' = NumberListed /\ NamesDiffer'
      /\ active_boxes' = active_boxes
      /\ \A i \in Slots : IsListed(i)' <=> IsListed(i)
      /\ \A name : Found(name)' <=> Found(name)
  BY ListUnchanged DEF Harmless, ListKept, Found, T!NotFound
<1>2. \A v \in Workers : /\ Managing(v)' => Managing(v)
                         /\ pc'[v] \in Holding <=> pc[v] \in Holding
                         /\ pc'[v] \in Adding <=> pc[v] \in Adding
                         /\ pc'[v] \in Taking <=> pc[v] \in Taking
  BY DEF Harmless, OthersStay, Managing, ManagerSteps, Planned, Holding, Adding,
         Taking
<1>3. ActiveBoxesCounts'
  BY <1>1, <1>2 DEF ActiveBoxesCounts
<1>4. OneManager'
  BY <1>2 DEF OneManager
<1>5. \A name : InHand(name)' <=> InHand(name)
  BY <1>2 DEF InHand, Harmless, OthersStay, Planned
<1>6. StoreAgrees'
  BY <1>1, <1>5 DEF StoreAgrees
<1>7. ASSUME NEW v \in Workers PROVE Plan(v)'
  <2>1. CASE v = w
    BY <2>1 DEF Plan, Harmless, Planned, Holding, Adding, Taking
  <2>2. CASE v # w /\ pc'[v] = pc[v] /\ job'[v] = job[v]
    <3>1. \A i \in Slots : boxes'[i].box_name = boxes[i].box_name
      BY DEF Harmless, ListKept
    <3>2. Plan(v)
      OBVIOUS
    <3> QED
      BY <1>1, <2>2, <3>1, <3>2 DEF Plan
  <2>3. CASE v # w /\ pc'[v] = "subProbe"
    BY <2>3 DEF Plan
  <2> QED
    BY <2>1, <2>2, <2>3 DEF OthersStay
<1> QED
  BY <1>1, <1>3, <1>4, <1>6, <1>7

\* active_boxes, as far as w has brought it.
ActiveAt(w) ==
    active_boxes = IF pc[w] \in Adding THEN NumberListed - 1
                   ELSE IF pc[w] \in Taking THEN NumberListed + 1
                   ELSE NumberListed

\* While w serves a manager, nobody else has a box in hand or a plan.
LEMMA ManagerAlone ==
    ASSUME ListHolds, NEW w \in Workers, OthersStay(w), pc[w] \in ManagerSteps
    PROVE  /\ OneManager'
           /\ \A v \in Workers \ {w} : Plan(v)'
           /\ \A name : InHand(name) <=> pc[w] \in Holding /\ job[w].name = name
           /\ \A name : InHand(name)' <=> pc'[w] \in Holding /\ job'[w].name = name
           /\ ActiveAt(w) /\ (ActiveAt(w)' => ActiveBoxesCounts')
<1>1. \A v \in Workers \ {w} : pc[v] \notin ManagerSteps /\ pc'[v] \notin ManagerSteps
  BY DEF ListHolds, OneManager, Managing, OthersStay, ManagerSteps
<1>2. OneManager'
  BY <1>1 DEF OneManager, Managing
<1>3. \A v \in Workers \ {w} : /\ pc[v] \notin Planned /\ pc'[v] \notin Planned
                               /\ Plan(v)'
  BY <1>1 DEF Plan, Planned, Holding, Adding, Taking, ManagerSteps
<1>4. ActiveAt(w)
  BY <1>3 DEF ListHolds, ActiveBoxesCounts, ActiveAt, Planned
<1>5. ActiveAt(w)' => ActiveBoxesCounts'
  <2>1. Adding \cap Taking = {}
    BY DEF Adding, Taking
  <2> QED
    BY <1>3, <2>1 DEF ActiveBoxesCounts, ActiveAt, Planned
<1> QED
  BY <1>2, <1>3, <1>4, <1>5 DEF InHand, Planned

LEMMA PlansKeep ==
    ASSUME Sound, ListHolds, NEW w \in Workers, OthersStay(w),
           PlansCreation(w) \/ FindsPlace(w)
    PROVE  ListHolds'
<1>1. /\ Listed' = Listed /\ NumberListed' = NumberListed /\ NamesDiffer'
      /\ \A name : Found(name)' <=> Found(name)
      /\ active_boxes' = active_boxes
      /\ \A i \in Slots : boxes'[i].box_name = boxes[i].box_name
  BY ListUnchanged DEF ListHolds, PlansCreation, FindsPlace, ListKept, Found,
                       T!NotFound
<1>2. /\ pc[w] \in {"createFind", "removeFind", "removeTest"}
      /\ pc'[w] \in {"createBox", "removeTest", "removeBox"}
      /\ job'[w].name = job[w].name
  BY DEF PlansCreation, FindsPlace
<1>3. /\ pc[w] \in ManagerSteps
      /\ pc[w] \notin Holding \cup Adding \cup Taking
      /\ pc'[w] \notin Holding \cup Adding \cup Taking
  BY <1>2 DEF ManagerSteps, Holding, Adding, Taking
<1>4. ActiveBoxesCounts'
  BY <1>1, <1>3, ManagerAlone DEF ActiveAt
<1>5. StoreAgrees'
  BY <1>1, <1>3, ManagerAlone DEF ListHolds, StoreAgrees
<1>6. Plan(w)'
  BY <1>1, <1>2 DEF ListHolds, Plan, PlansCreation, FindsPlace
<1> QED
  BY <1>1, <1>3, <1>4, <1>5, <1>6, ManagerAlone DEF ListHolds

\* Clearing the counts of a place disturbs nothing, and the active_boxes that
\* is stored is the one that was loaded: nobody else changes it.
LEMMA ActiveKeeps ==
    ASSUME Sound, ListHolds, NEW w \in Workers, OthersStay(w),
           Settles(w) \/ StoresActive(w)
    PROVE  ListHolds'
<1>1. /\ Listed' = Listed /\ NumberListed' = NumberListed /\ NamesDiffer'
      /\ \A name : Found(name)' <=> Found(name)
  BY ListUnchanged DEF ListHolds, Settles, StoresActive, ListKept, Found,
                       T!NotFound
<1>2. pc[w] \in Adding \cup Taking /\ pc[w] \in ManagerSteps
  BY DEF Settles, StoresActive, Adding, Taking, ManagerSteps
<1>3. pc[w] \notin Holding /\ pc'[w] \notin Holding
  BY DEF Settles, StoresActive, Adding, Taking, Holding
<1>4. ActiveBoxesCounts'
  <2>1. CASE Settles(w)
    BY <1>1, <1>2, <2>1, ManagerAlone DEF ActiveAt, Settles, ListKept, Adding, Taking
  <2>2. CASE StoresActive(w)
    <3>1. NumberListed \in Nat
      BY NumberAfter
    <3>2. job[w].count = active_boxes
      BY <2>2 DEF ListHolds, Plan, StoresActive
    <3>3. ActiveAt(w)
      BY <1>2, ManagerAlone
    <3>4. active_boxes' = NumberListed
      BY <2>2, <3>1, <3>2, <3>3 DEF ActiveAt, StoresActive, Adding, Taking
    <3>5. pc'[w] \notin Adding \cup Taking
      BY <2>2 DEF StoresActive, Adding, Taking
    <3> QED
      BY <1>1, <1>2, <3>4, <3>5, ManagerAlone DEF ActiveAt
  <2> QED
    BY <2>1, <2>2
<1>5. StoreAgrees'
  BY <1>1, <1>2, <1>3, ManagerAlone DEF ListHolds, StoreAgrees
<1>6. Plan(w)'
  BY DEF Plan, Settles, StoresActive, ListKept, Adding, Taking
<1> QED
  BY <1>1, <1>2, <1>4, <1>5, <1>6, ManagerAlone DEF ListHolds

LEMMA MakesFileKeeps ==
    ASSUME Sound, status = "mounted", ListHolds, NEW w \in Workers, OthersStay(w),
           MakesFile(w)
    PROVE  ListHolds'
<1> DEFINE name == job[w].name
<1>1. /\ pc[w] = "createBox" /\ pc'[w] = "createList" /\ job'[w].name = name
      /\ pc[w] \in ManagerSteps /\ name \in Names
      /\ pc[w] \notin Holding \cup Adding \cup Taking
      /\ pc'[w] \in Holding /\ pc'[w] \notin Adding \cup Taking
  BY DEF MakesFile, ManagerSteps, Sound, LocalsFit, Fits, Holding, Adding, Taking
<1>2. /\ Listed' = Listed /\ NumberListed' = NumberListed /\ NamesDiffer'
      /\ \A i \in Slots : IsListed(i)' <=> IsListed(i)
  BY ListUnchanged DEF ListHolds, MakesFile
<1>3. ActiveBoxesCounts'
  BY <1>1, <1>2, ManagerAlone DEF ActiveAt, MakesFile
<1>4. /\ name \notin Listed
      /\ \A n \in Names : Found(n) <=> n \in Listed
  BY <1>1, ManagerAlone DEF ListHolds, Plan, StoreAgrees
<1>5. /\ \A n \in Names \ {name} : Found(n)' <=> Found(n)
      /\ Found(name)' <=> ~\A s \in Slots : Used(s)
  BY <1>1, <1>4, FileMade DEF MakesFile
<1>6. (\A s \in Slots : Used(s)) <=> (\A i \in Slots : IsListed(i))
  BY <1>4, SameRoom DEF ListHolds
<1>7. StoreAgrees'
  BY <1>1, <1>2, <1>4, <1>5, ManagerAlone DEF StoreAgrees
<1>8. Plan(w)'
  BY <1>1, <1>2, <1>4, <1>5, <1>6 DEF Plan
<1> QED
  BY <1>1, <1>2, <1>3, <1>7, <1>8, ManagerAlone DEF ListHolds

\* A place is found if and only if tfs_open has found an entry.
LEMMA FindsRoomKeeps ==
    ASSUME Sound, ListHolds, NEW w \in Workers, OthersStay(w), FindsRoom(w)
    PROVE  ListHolds'
<1> DEFINE name == job[w].name
<1>1. /\ pc[w] = "createList" /\ job'[w].name = name
      /\ pc[w] \in ManagerSteps /\ pc[w] \notin Adding \cup Taking
      /\ pc'[w] \notin Adding \cup Taking
      /\ pc[w] \in Holding
  BY DEF FindsRoom, ManagerSteps, Holding, Adding, Taking
<1>2. /\ Listed' = Listed /\ NumberListed' = NumberListed /\ NamesDiffer'
      /\ active_boxes' = active_boxes
      /\ \A n : Found(n)' <=> Found(n)
      /\ \A i \in Slots : IsListed(i)' <=> IsListed(i)
  BY ListUnchanged DEF ListHolds, FindsRoom, ListKept, Found, T!NotFound
<1>3. ActiveBoxesCounts'
  BY <1>1, <1>2, ManagerAlone DEF ActiveAt
<1>4. /\ name \notin Listed
      /\ Found(name) <=> \E k \in Slots : ~IsListed(k)
      /\ \A n \in Names \ {name} : Found(n) <=> n \in Listed
  BY <1>1, ManagerAlone DEF ListHolds, Plan, StoreAgrees
<1>5. CASE pc'[w] = "createReply" /\ \A i \in Slots : IsListed(i)
  <2>1. StoreAgrees'
    BY <1>2, <1>4, <1>5 DEF StoreAgrees
  <2>2. Plan(w)'
    BY <1>5 DEF Plan
  <2> QED
    BY <1>1, <1>2, <1>3, <2>1, <2>2, ManagerAlone DEF ListHolds
<1>6. CASE /\ pc'[w] = "createName"
           /\ job'[w].index \in Slots /\ ~IsListed(job'[w].index)
  <2>1. pc'[w] \in Holding
    BY <1>6 DEF Holding
  <2>2. StoreAgrees'
    BY <1>1, <1>2, <1>4, <2>1, ManagerAlone DEF StoreAgrees
  <2>3. Plan(w)'
    BY <1>1, <1>2, <1>4, <1>6 DEF Plan
  <2> QED
    BY <1>1, <1>2, <1>3, <2>2, <2>3, ManagerAlone DEF ListHolds
<1> QED
  BY <1>5, <1>6 DEF FindsRoom

LEMMA FillsPlaceKeeps ==
    ASSUME Sound, ListHolds, NEW w \in Workers, OthersStay(w), FillsPlace(w)
    PROVE  ListHolds'
<1> DEFINE name == job[w].name
           i == job[w].index
<1>1. /\ pc[w] = "createName" /\ pc'[w] = "createPublishers" /\ job' = job
      /\ pc[w] \in ManagerSteps /\ name \in Names
      /\ pc[w] \in Holding /\ pc[w] \notin Adding \cup Taking
      /\ pc'[w] \in Adding /\ pc'[w] \notin Holding
  BY DEF FillsPlace, ManagerSteps, Sound, LocalsFit, Fits, Holding, Adding, Taking
<1>2. /\ name \notin Listed /\ Found(name) /\ i \in Slots /\ ~IsListed(i)
      /\ \A n \in Names \ {name} : Found(n) <=> n \in Listed
  BY <1>1, ManagerAlone DEF ListHolds, Plan, StoreAgrees
<1>3. \A n : Found(n)' <=> Found(n)
  BY DEF FillsPlace, Found, T!NotFound
<1>4. /\ Listed' = Listed \cup {name} /\ NamesDiffer'
      /\ ListedIn(Slots)' = ListedIn(Slots) \cup {i} /\ i \notin ListedIn(Slots)
  BY <1>1, <1>2, ListFilled DEF ListHolds, FillsPlace
<1>5. ActiveBoxesCounts'
  <2>1. NumberListed \in Nat /\ NumberListed' = NumberListed + 1
    BY <1>4, NumberAfter
  <2>2. active_boxes' = active_boxes /\ active_boxes = NumberListed
    BY <1>1, ManagerAlone DEF ActiveAt, FillsPlace
  <2>3. active_boxes' = NumberListed' - 1
    BY <2>1, <2>2
  <2> QED
    BY <1>1, <2>3, ManagerAlone DEF ActiveAt
<1>6. StoreAgrees'
  BY <1>2, <1>3, <1>4 DEF StoreAgrees
<1>7. Plan(w)'
  BY <1>1 DEF Plan
<1> QED
  BY <1>1, <1>4, <1>5, <1>6, <1>7, ManagerAlone DEF ListHolds

LEMMA UnlinksKeeps ==
    ASSUME Sound, status = "mounted", ListHolds, NEW w \in Workers, OthersStay(w),
           Unlinks(w)
    PROVE  ListHolds'
<1> DEFINE name == job[w].name
<1>1. /\ pc[w] = "removeBox" /\ job' = job
      /\ pc[w] \in ManagerSteps /\ name \in Names
      /\ pc[w] \notin Holding \cup Adding \cup Taking
      /\ pc'[w] \notin Adding \cup Taking
  BY DEF Unlinks, ManagerSteps, Sound, LocalsFit, Fits, Holding, Adding, Taking
<1>2. /\ Listed' = Listed /\ NumberListed' = NumberListed /\ NamesDiffer'
  BY ListUnchanged DEF ListHolds, Unlinks
<1>3. ActiveBoxesCounts'
  BY <1>1, <1>2, ManagerAlone DEF ActiveAt, Unlinks
<1>4. \A n \in Names : Found(n) <=> n \in Listed
  BY <1>1, ManagerAlone DEF ListHolds, StoreAgrees
<1>5. CASE pc'[w] = "removeReply" /\ dir_entries' = dir_entries
  <2>1. StoreAgrees'
    BY <1>2, <1>4, <1>5 DEF StoreAgrees, Found, T!NotFound
  <2>2. Plan(w)'
    BY <1>5 DEF Plan
  <2> QED
    BY <1>1, <1>2, <1>3, <2>1, <2>2, ManagerAlone DEF ListHolds
<1>6. CASE pc'[w] = "removeList" /\ T!tfs_unlink(name)
  <2>1. /\ Found(name) /\ ~Found(name)'
        /\ \A n \in Names \ {name} : Found(n)' <=> Found(n)
    BY <1>1, <1>6, FileGone
  <2>2. StoreAgrees'
    BY <1>1, <1>2, <1>4, <1>6, <2>1, ManagerAlone DEF StoreAgrees, Holding
  <2>3. job[w].index \in Slots /\ boxes[job[w].index].box_name = name
    BY <1>1, <1>4, <2>1 DEF ListHolds, Plan
  <2>4. Plan(w)'
    BY <1>1, <1>6, <2>1, <2>3 DEF Plan, Unlinks
  <2> QED
    BY <1>1, <1>2, <1>3, <2>2, <2>4, ManagerAlone DEF ListHolds
<1> QED
  BY <1>5, <1>6 DEF Unlinks

LEMMA EmptiesPlaceKeeps ==
    ASSUME Sound, ListHolds, NEW w \in Workers, OthersStay(w), EmptiesPlace(w)
    PROVE  ListHolds'
<1> DEFINE name == job[w].name
           i == job[w].index
<1>1. /\ pc[w] = "removeList" /\ pc'[w] = "removePublishers" /\ job' = job
      /\ pc[w] \in ManagerSteps /\ name \in Names
      /\ pc[w] \in Holding /\ pc[w] \notin Adding \cup Taking
      /\ pc'[w] \in Taking /\ pc'[w] \notin Adding \cup Holding
  BY DEF EmptiesPlace, ManagerSteps, Sound, LocalsFit, Fits, Holding, Adding, Taking
<1>2. ~Found(name) /\ i \in Slots /\ boxes[i].box_name = name
  BY <1>1 DEF ListHolds, Plan
<1>3. /\ Listed' = Listed \ {name} /\ NamesDiffer'
      /\ ListedIn(Slots)' = ListedIn(Slots) \ {i} /\ i \in ListedIn(Slots)
  BY <1>1, <1>2, ListEmptied DEF ListHolds, EmptiesPlace
<1>4. ActiveBoxesCounts'
  <2>1. NumberListed \in Nat /\ NumberListed' = NumberListed - 1
    BY <1>3, NumberAfter
  <2>2. active_boxes' = active_boxes /\ active_boxes = NumberListed
    BY <1>1, ManagerAlone DEF ActiveAt, EmptiesPlace
  <2>3. active_boxes' = NumberListed' + 1
    BY <2>1, <2>2
  <2> QED
    BY <1>1, <2>3, ManagerAlone DEF ActiveAt
<1>5. \A n : Found(n)' <=> Found(n)
  BY DEF EmptiesPlace, Found, T!NotFound
<1>6. StoreAgrees'
  BY <1>1, <1>2, <1>3, <1>5, ManagerAlone DEF ListHolds, StoreAgrees
<1>7. Plan(w)'
  BY <1>1 DEF Plan
<1> QED
  BY <1>1, <1>3, <1>4, <1>6, <1>7, ManagerAlone DEF ListHolds

\* The list is sound when main mounts the file system, and nothing main does
\* afterwards disturbs it.
LEMMA MountListSound ==
    ASSUME Sound, EmptyEarly, Mount
    PROVE  ListHolds'
<1>1. status = "unmounted" /\ UNCHANGED <<listVars, pc, job>>
  BY DEF Mount, T!tfs_init, sessionVars
<1>2. \A w \in Workers : pc[w] = "idle"
  BY <1>1 DEF Sound, NobodyEarly
<1>3. \A i \in Slots : ~IsListed(i)
  BY <1>1 DEF EmptyEarly
<1>4. OneManager' /\ \A w \in Workers : Plan(w)'
  BY <1>1, <1>2 DEF OneManager, Managing, ManagerSteps, Plan, Adding, Taking
<1>5. Listed = {} /\ ListedIn(Slots) = {}
  BY <1>3 DEF Listed, ListedIn, IsListed
<1>6. /\ Listed' = {} /\ ListedIn(Slots)' = {} /\ NamesDiffer'
  BY <1>1, <1>3, <1>5 DEF listVars, Listed, ListedIn, IsListed, NamesDiffer
<1>7. ActiveBoxesCounts'
  <2>1. active_boxes' = 0
    BY <1>1 DEF listVars, EmptyEarly
  <2> QED
    BY <1>1, <1>2, <1>6, <2>1, FS_EmptySet
       DEF ActiveBoxesCounts, NumberListed, Adding, Taking
<1>8. \A name \in Names : ~Found(name)'
  BY DEF Mount, T!BlankDirectories, Found, T!NotFound
<1>9. StoreAgrees'
  BY <1>6, <1>8 DEF StoreAgrees
<1> QED
  BY <1>4, <1>6, <1>7, <1>9 DEF ListHolds

LEMMA NothingMovesKeeps ==
    ASSUME Sound, ListHolds, ListKept,
           \A v \in Workers : \/ pc'[v] = pc[v] /\ job'[v] = job[v]
                              \/ /\ pc[v] \notin ManagerSteps
                                 /\ pc'[v] \notin Planned
                                 /\ pc'[v] \in ManagerSteps =>
                                       \A u \in Workers \ {v} :
                                          ~Managing(u) /\ ~Managing(u)'
    PROVE  ListHolds'
<1>1. /\ Listed' = Listed /\ NumberListed' = NumberListed /\ NamesDiffer'
      /\ active_boxes' = active_boxes
      /\ \A i \in Slots : IsListed(i)' <=> IsListed(i)
      /\ \A name : Found(name)' <=> Found(name)
      /\ \A i \in Slots : boxes'[i].box_name = boxes[i].box_name
  BY ListUnchanged DEF ListHolds, ListKept, Found, T!NotFound
<1>2. ActiveBoxesCounts'
  <2>1. \A v \in Workers : /\ pc'[v] \in Adding <=> pc[v] \in Adding
                           /\ pc'[v] \in Taking <=> pc[v] \in Taking
    BY DEF Planned, ManagerSteps, Adding, Taking
  <2> QED
    BY <1>1, <2>1 DEF ListHolds, ActiveBoxesCounts
<1>3. OneManager'
  BY DEF ListHolds, OneManager, Managing
<1>4. \A name : InHand(name)' <=> InHand(name)
  BY DEF InHand, Planned, ManagerSteps, Holding
<1>5. StoreAgrees'
  BY <1>1, <1>4 DEF ListHolds, StoreAgrees
<1>6. ASSUME NEW v \in Workers PROVE Plan(v)'
  <2>1. CASE pc'[v] \notin Planned
    BY <2>1 DEF Plan, Planned, Holding, Adding, Taking
  <2>2. CASE pc'[v] = pc[v] /\ job'[v] = job[v]
    <3>1. Plan(v)
      BY DEF ListHolds
    <3> QED
      BY <1>1, <2>2, <3>1 DEF Plan
  <2> QED
    BY <2>1, <2>2
<1> QED
  BY <1>1, <1>2, <1>3, <1>5, <1>6 DEF ListHolds

\* main's broadcasts, and thread_manager's first statements.
LEMMA AcceptMoves ==
    ASSUME Types, NEW w \in Workers, NEW step \in FirstSteps, NEW name,
           Accept(w, step, name)
    PROVE  /\ pc[w] = "idle" /\ pc'[w] = step
           /\ \A v \in Workers \ {w} :
                 /\ job'[v] = job[v]
                 /\ pc'[v] = pc[v] \/ (pc[v] = "subWaiting" /\ pc'[v] = "subProbe")
BY DEF Types, Accept, At, GoToAndBroadcast, Woken, FirstSteps

\* Accept remembers when a manager is served while another is.
LEMMA AcceptMeets ==
    ASSUME NEW w, NEW step, NEW name, Accept(w, step, name), ~overlapped'
    PROVE  /\ status = "mounted" /\ ~overlapped
           /\ step \in ManagerSteps => \A v \in Workers : ~Managing(v)
<1>1. status = "mounted"
  BY DEF Accept, At, tfsVars
<1>2. overlapped' = (overlapped \/ (/\ step \in ManagerSteps
                                   /\ \E v \in Workers : pc[v] \in ManagerSteps))
  BY DEF Accept
<1> QED
  BY <1>1, <1>2 DEF Managing

LEMMA MainKeepsList ==
    ASSUME Sound, ListHolds, ~overlapped',
           \/ Arrive \/ UNCHANGED vars
           \/ \E w \in Workers, step \in FirstSteps, name \in Names :
                 Accept(w, step, name)
    PROVE  ListHolds'
<1>1. ListKept
  BY DEF Arrive, Accept, vars, listVars, tfsVars, tableVars, ListKept
<1>2. CASE Arrive \/ UNCHANGED vars
  <2>1. \A v \in Workers :
           /\ job'[v] = job[v]
           /\ pc'[v] = pc[v] \/ (pc[v] = "subWaiting" /\ pc'[v] = "subProbe")
    BY <1>2 DEF Arrive, vars, sessionVars, Woken, Sound, Types
  <2> QED
    BY <1>1, <2>1, NothingMovesKeeps DEF ManagerSteps, Planned, Holding, Adding, Taking
<1>3. ASSUME NEW w \in Workers, NEW step \in FirstSteps, NEW name \in Names,
             Accept(w, step, name)
      PROVE  ListHolds'
  <2>1. step \in ManagerSteps => \A v \in Workers : pc[v] \notin ManagerSteps
    BY <1>3 DEF Accept
  <2>2. step \notin Planned
    BY DEF FirstSteps, Planned, Holding, Adding, Taking
  <2> QED
    BY <1>1, <1>3, <2>1, <2>2, AcceptMoves, NothingMovesKeeps
       DEF Sound, Managing, ManagerSteps, Planned, Holding, Adding, Taking
<1> QED
  BY <1>2, <1>3

LEMMA WorkersKeepList ==
    ASSUME Sound, ListHolds, NEW w \in Workers, Running(w) \/ Waiting(w)
    PROVE  ListHolds'
BY EveryManagerEffect, OthersDoStay, WorkersRun, HarmlessKeeps, PlansKeep,
   MakesFileKeeps, FindsRoomKeeps, FillsPlaceKeeps, UnlinksKeeps, EmptiesPlaceKeeps,
   ActiveKeeps
   DEF ManagerEffect, Sound

ListInv == ListSound /\ EmptyEarly

LEMMA InitListInv == Init => ListInv
BY DEF Init, ListInv, ListSound, EmptyEarly, T!Init, T!NoTables, IsListed, EmptyBox

LEMMA ListInvKept == Sound /\ ListInv /\ [Next]_vars => ListInv'
<1> SUFFICES ASSUME Sound, ListInv, [Next]_vars PROVE ListInv'
  OBVIOUS
<1>1. EmptyEarly'
  <2> SUFFICES ASSUME status' = "unmounted" PROVE EmptyEarly'
    BY DEF EmptyEarly
  <2>1. UNCHANGED vars
    BY NothingUnmounts DEF Sound
  <2> QED
    BY <2>1 DEF ListInv, EmptyEarly, IsListed, vars, tfsVars, listVars
<1>2. ListSound'
  <2> SUFFICES ASSUME status' = "mounted", ~overlapped' PROVE ListHolds'
    BY DEF ListSound
  <2>1. CASE Mount
    BY <2>1, MountListSound DEF ListInv
  <2>2. CASE \/ Arrive \/ UNCHANGED vars
             \/ \E w \in Workers, step \in FirstSteps, name \in Names :
                   Accept(w, step, name)
    <3>1. status = "mounted" /\ ~overlapped
      <4>1. CASE Arrive \/ UNCHANGED vars
        BY <4>1 DEF Arrive, vars, tfsVars, sessionVars, aroundVars, historyVars
      <4>2. ASSUME NEW w, NEW step, NEW name, Accept(w, step, name)
            PROVE  status = "mounted" /\ ~overlapped
        BY <4>2, AcceptMeets
      <4> QED
        BY <2>2, <4>1, <4>2
    <3>2. ListHolds
      BY <3>1 DEF ListInv, ListSound
    <3> QED
      BY <2>2, <3>2, MainKeepsList
  <2>3. ASSUME NEW w \in Workers, Running(w) \/ Waiting(w) PROVE ListHolds'
    BY <2>3, WorkersRun, WorkersKeepList DEF ListInv, ListSound
  <2> QED
    BY <2>1, <2>2, <2>3 DEF Next
<1> QED
  BY <1>1, <1>2 DEF ListInv

LEMMA ListIsSound == Spec => [](Sound /\ ListInv)
BY InitSound, SoundKept, InitListInv, ListInvKept, PTL DEF Spec

\* As many names as places: every box is listed once.
LEMMA NamesPerPlace ==
    ASSUME Sound, NamesDiffer
    PROVE  Cardinality(Listed) = NumberListed
<1> DEFINE L == ListedIn(Slots)
           f == [i \in L |-> boxes[i].box_name]
<1>1. f \in [L -> Listed]
  BY DEF ListedIn, Listed, IsListed
<1>2. \A i, j \in L : f[i] = f[j] => i = j
  BY DEF ListedIn, NamesDiffer
<1>3. \A name \in Listed : \E i \in L : f[i] = name
  BY DEF ListedIn, Listed, IsListed
<1>4. IsFiniteSet(L)
  BY SlotsFinite DEF ListedIn
<1> HIDE DEF f, L
<1>5. Cardinality(Listed) = Cardinality(L)
  BY <1>1, <1>2, <1>3, <1>4, OneEach
<1> QED
  BY <1>5 DEF L, NumberListed

\* As long as no two manager requests are served at once, the list of boxes and
\* the directory name the same boxes whenever none is being served, each once,
\* and active_boxes counts them: whichever of tfs_open, tfs_unlink and the
\* replies fail on the way (mbroker.c:251-389).
THEOREM ListIsTheStore == Spec => []ListMatchesStore
<1>1. Sound /\ ListInv => ListMatchesStore
  <2> SUFFICES ASSUME Sound, ListHolds, \A w \in Workers : pc[w] \notin ManagerSteps
               PROVE  /\ \A name \in Names : T!NotFound(name) <=> name \notin Listed
                      /\ Cardinality(Listed) = active_boxes
                      /\ active_boxes = Cardinality(ListedIn(Slots))
    BY DEF ListMatchesStore, ListInv, ListSound, ListedIn, IsListed
  <2>1. /\ \A name : ~InHand(name)
        /\ \A w \in Workers : pc[w] \notin Adding \cup Taking
    BY DEF InHand, ManagerSteps, Holding, Adding, Taking
  <2>2. \A name \in Names : T!NotFound(name) <=> name \notin Listed
    BY <2>1 DEF ListHolds, StoreAgrees, Found
  <2> QED
    BY <2>1, <2>2, NamesPerPlace DEF ListHolds, ActiveBoxesCounts, NumberListed
<1> QED
  BY <1>1, ListIsSound, PTL

-----------------------------------------------------------------------------
(* list_boxes.                                                             *)

\* The places before i, behind i, and from i on, that hold a box.
Before(i) == ListedIn(0 .. i - 1)
Behind(i) == ListedIn(i + 1 .. MAX_DIR_ENTRIES - 1)
From(i)   == ListedIn(i .. MAX_DIR_ENTRIES - 1)

LEMMA CountAt ==
    ASSUME NEW i \in Slots, IsListed(i)
    PROVE  /\ Cardinality(Before(i)) \in Nat
           /\ Cardinality(Before(i + 1)) = Cardinality(Before(i)) + 1
           /\ Cardinality(Before(i)) + 1 = Cardinality(ListedIn(Slots))
              <=> Behind(i) = {}
<1> DEFINE B == Before(i)
           C == Before(i + 1)
           D == Behind(i)
           L == ListedIn(Slots)
<1>1. MAX_DIR_ENTRIES \in Nat /\ i \in Nat /\ i < MAX_DIR_ENTRIES
  BY BrokerAssumption DEF Slots
<1>2. /\ B \subseteq Slots /\ C \subseteq Slots /\ D \subseteq Slots
      /\ i \notin B /\ C = B \cup {i} /\ L = C \cup D /\ C \cap D = {}
  BY <1>1 DEF Before, Behind, ListedIn, Slots
<1>3. IsFiniteSet(B) /\ IsFiniteSet(C) /\ IsFiniteSet(D)
  BY <1>2, SlotsFinite
<1> HIDE DEF B, C, D, L
<1>4. Cardinality(C) = Cardinality(B) + 1
  BY <1>2, <1>3, FS_AddElement
<1>5. Cardinality(L) = Cardinality(C) + Cardinality(D) - Cardinality(C \cap D)
  BY <1>2, <1>3, FS_Union
<1>6. Cardinality(C \cap D) = 0
  BY <1>2, FS_EmptySet
<1>7. Cardinality(D) = 0 <=> D = {}
  BY <1>3, FS_EmptySet
<1>8. /\ Cardinality(B) \in Nat /\ Cardinality(C) \in Nat /\ Cardinality(D) \in Nat
  BY <1>3, FS_CardinalityType
<1>9. Cardinality(B) + 1 = Cardinality(L) <=> D = {}
  BY <1>4, <1>5, <1>6, <1>7, <1>8
<1> QED
  BY <1>4, <1>8, <1>9 DEF B, C, D, L

LEMMA SkipAt ==
    ASSUME NEW i \in Slots, ~IsListed(i)
    PROVE  Before(i + 1) = Before(i) /\ From(i + 1) = From(i)
BY BrokerAssumption DEF Before, From, ListedIn, Slots

LEMMA PlacesAt ==
    ASSUME NEW i \in 0 .. MAX_DIR_ENTRIES
    PROVE  /\ 0 .. i - 1 \subseteq Slots /\ i .. MAX_DIR_ENTRIES - 1 \subseteq Slots
           /\ i + 1 .. MAX_DIR_ENTRIES - 1 \subseteq Slots
           /\ From(MAX_DIR_ENTRIES) = {}
           /\ From(i + 1) = Behind(i)
BY BrokerAssumption DEF Slots, From, Behind, ListedIn

\* What a step of a listing does to its locals.
KeepsListing(w) ==
    job'[w].index = job[w].index /\ job'[w].boxes_listed = job[w].boxes_listed

ListingBegins(w) ==
    /\ pc[w] = "listFind" /\ pc'[w] = "listNext" /\ active_boxes # 0
    /\ job'[w].index = 0 /\ job'[w].boxes_listed = job[w].boxes_listed
    /\ job'[w].last = job[w].last

ListingSkips(w) ==
    /\ pc[w] = "listNext" /\ pc'[w] = "listNext"
    /\ job[w].index \in Slots /\ ~IsListed(job[w].index)
    /\ job'[w].index = job[w].index + 1
    /\ job'[w].boxes_listed = job[w].boxes_listed /\ job'[w].last = job[w].last

ListingOpensBox(w) ==
    /\ pc[w] = "listNext" /\ pc'[w] = "listRead"
    /\ job[w].index \in Slots /\ IsListed(job[w].index) /\ KeepsListing(w)
    /\ job'[w].last <=> job[w].last \/ IsLast(w)

ListingReads(w) ==
    /\ pc[w] \in {"listRead", "listClose"} /\ pc'[w] \in {"listClose", "listSend"}
    /\ KeepsListing(w) /\ job'[w].last = job[w].last

ListingSends(w) ==
    /\ pc[w] = "listSend" /\ pc'[w] = "listNext" /\ ~IsLast(w)
    /\ job'[w].index = job[w].index + 1
    /\ job'[w].boxes_listed = job[w].boxes_listed + 1
    /\ job'[w].last = job[w].last

ListingEffect(w) ==
    \/ pc'[w] \notin ListSteps
    \/ ListingBegins(w) \/ ListingSkips(w) \/ ListingOpensBox(w)
    \/ ListingReads(w) \/ ListingSends(w)

LEMMA LocalsOfListing ==
    ASSUME Types, NEW w \in Workers
    PROVE  /\ \A i : Remember(w, "index", i) =>
                 /\ job'[w].index = i /\ job'[w].boxes_listed = job[w].boxes_listed
                 /\ job'[w].last = job[w].last
           /\ \A h : Remember(w, "fh", h) =>
                 KeepsListing(w) /\ job'[w].last = job[w].last
           /\ \A h : \A last \in BOOLEAN :
                 job' = [job EXCEPT ![w].fh = h, ![w].last = last] =>
                     KeepsListing(w) /\ (job'[w].last <=> last)
           /\ job' = [job EXCEPT ![w].index = @ + 1, ![w].boxes_listed = @ + 1] =>
                 /\ job'[w].index = job[w].index + 1
                 /\ job'[w].boxes_listed = job[w].boxes_listed + 1
                 /\ job'[w].last = job[w].last
BY DEF Types, Job, Remember, KeepsListing

LEMMA OnlyListings ==
    ASSUME NEW w \in Workers, Running(w) \/ Waiting(w), pc[w] \in ListSteps
    PROVE  ListFind(w) \/ ListNext(w) \/ ListRead(w) \/ ListClose(w) \/ ListSend(w)
<1> USE DEF ListSteps, At, Step
<1>1. ~PubFind(w) /\ ~PubRead(w) /\ ~PubBreak(w) /\ ~PubOpenBox(w) /\ ~PubWrite(w)
      /\ ~PubCloseBox(w)
  BY DEF PubFind, PubRead, PubBreak, PubOpenBox, PubWrite, PubCloseBox
<1>2. ~Tells(w)
  BY DEF Tells, PubTest, PubCount, PubStore, PubLeave, PubLeft, SubCount,
         SubStore, SubLeave, SubLeft
<1>3. /\ ~SubFind(w) /\ ~SubOpenBox(w) /\ ~SubOpenPipe(w) /\ ~SubBreak(w)
      /\ ~SubProbe(w) /\ ~SubProbed(w) /\ ~SubRead(w) /\ ~SubWait(w)
      /\ ~SpuriousWakeup(w) /\ ~SubSend(w) /\ ~SubGone(w)
  BY DEF SubFind, SubOpenBox, SubOpenPipe, SubBreak, SubProbe, SubProbed, SubRead,
         SubWait, SpuriousWakeup, SubSend, SubGone
<1>4. ~Lists(w)
  BY DEF Lists, CreateList, CreateName, CreateActive, CreateActivated, RemoveList,
         RemoveActive, RemoveActivated, LoadActive, Clears, CreatePublishers,
         RemovePublishers, CreateSubscribers, RemoveSubscribers,
         ClearPublishers, ClearSubscribers
<1>5. /\ ~CreateFind(w) /\ ~CreateBox(w) /\ ~CreateReply(w) /\ ~CreateClose(w)
      /\ ~RemoveFind(w) /\ ~RemoveTest(w) /\ ~RemoveBox(w) /\ ~RemoveReply(w)
  BY DEF CreateFind, CreateBox, CreateReply, CreateClose, RemoveFind, RemoveTest,
         RemoveBox, RemoveReply
<1> QED
  BY <1>1, <1>2, <1>3, <1>4, <1>5 DEF Running, Waiting, Tells, Lists, Clears

LEMMA ListingGoes ==
    ASSUME Types, LocalsFit, NEW w \in Workers, Running(w) \/ Waiting(w)
    PROVE  ListingEffect(w)
<1> SUFFICES ASSUME pc'[w] \in ListSteps PROVE ListingEffect(w)
  BY DEF ListingEffect
<1>1. pc[w] \in ListSteps
  BY EveryManagerEffect
     DEF ManagerEffect, Harmless, PlansCreation, MakesFile, FindsRoom, FillsPlace,
         FindsPlace, Unlinks, EmptiesPlace, Settles, StoresActive, Adding, Taking,
         ListSteps
<1>2. pc \in [Workers -> Places]
  BY DEF Types
<1>3. ListFind(w) \/ ListNext(w) \/ ListRead(w) \/ ListClose(w) \/ ListSend(w)
  BY <1>1, OnlyListings
<1>4. ~Return(w)
  BY <1>2 DEF Return, GoTo, ListSteps
<1>5. \A place : GoTo(w, place) => pc'[w] = place
  BY <1>2 DEF GoTo
<1>6. CASE ListFind(w)
  <2>1. /\ pc[w] = "listFind" /\ active_boxes # 0
        /\ GoTo(w, "listNext") /\ Remember(w, "index", 0)
    BY <1>4, <1>6 DEF ListFind, At
  <2> QED
    BY <1>5, <2>1, LocalsOfListing DEF ListingEffect, ListingBegins
<1>7. CASE ListNext(w)
  <2>1. pc[w] = "listNext"
    BY <1>7 DEF ListNext, At
  <2>2. CASE /\ job[w].index \in Slots /\ ~IsListed(job[w].index)
             /\ Remember(w, "index", job[w].index + 1) /\ pc' = pc
    BY <2>1, <2>2, LocalsOfListing DEF ListingEffect, ListingSkips
  <2>3. ASSUME NEW h, job[w].index \in Slots, IsListed(job[w].index),
               GoTo(w, "listRead"),
               job' = [job EXCEPT ![w].fh = h, ![w].last = job[w].last \/ IsLast(w)]
        PROVE  ListingEffect(w)
    <3> DEFINE last == job[w].last \/ IsLast(w)
    <3>1. last \in BOOLEAN /\ job' = [job EXCEPT ![w].fh = h, ![w].last = last]
      BY <2>3
    <3> HIDE DEF last
    <3>2. KeepsListing(w) /\ (job'[w].last <=> last)
      BY <3>1, LocalsOfListing
    <3> QED
      BY <1>5, <2>1, <2>3, <3>2 DEF ListingEffect, ListingOpensBox, last
  <2> QED
    BY <1>4, <1>7, <2>2, <2>3 DEF ListNext
<1>8. CASE ListRead(w)
  BY <1>5, <1>8 DEF ListRead, Step, At, sessionVars, ListingEffect, ListingReads,
                    KeepsListing
<1>9. CASE ListClose(w)
  BY <1>5, <1>9, LocalsOfListing DEF ListClose, Step, At, ListingEffect, ListingReads
<1>10. CASE ListSend(w)
  <2>1. /\ pc[w] = "listSend" /\ ~IsLast(w) /\ GoTo(w, "listNext")
        /\ job' = [job EXCEPT ![w].index = @ + 1, ![w].boxes_listed = @ + 1]
    BY <1>4, <1>10 DEF ListSend, At
  <2> QED
    BY <1>5, <2>1, LocalsOfListing DEF ListingEffect, ListingSends
<1> QED
  BY <1>3, <1>6, <1>7, <1>8, <1>9, <1>10

\* No manager is served while a listing counts as undisturbed.
Alone == undisturbed # {} => \A w \in Workers : ~Managing(w)

\* Where a listing stands: it has sent a record for each box before its place,
\* there is a box at its place or behind it, and it knows the last one.
Listing(w) ==
    LET i == job[w].index IN
    /\ pc[w] = "listFind" => job[w].boxes_listed = 0 /\ ~job[w].last
    /\ pc[w] \in ListSteps \ {"listFind"} =>
          /\ i \in 0 .. MAX_DIR_ENTRIES
          /\ job[w].boxes_listed = Cardinality(Before(i))
    /\ pc[w] = "listNext" => ~job[w].last /\ From(i) # {}
    /\ pc[w] \in {"listRead", "listClose", "listSend"} =>
          /\ i \in Slots /\ IsListed(i)
          /\ job[w].last <=> Behind(i) = {}

ListingSound ==
    status = "mounted" /\ ~overlapped => \A w \in undisturbed : Listing(w)

\* While the list stays, each listing's view of it does.
LEMMA ViewStays ==
    ASSUME ListKept
    PROVE  /\ \A i \in Slots : IsListed(i)' <=> IsListed(i)
           /\ \A i \in 0 .. MAX_DIR_ENTRIES :
                 Before(i)' = Before(i) /\ Behind(i)' = Behind(i) /\ From(i)' = From(i)
<1>1. \A i \in Slots : IsListed(i)' <=> IsListed(i)
  BY DEF ListKept, IsListed
<1>2. \A S \in SUBSET Slots : ListedIn(S)' = ListedIn(S)
  BY <1>1 DEF ListedIn
<1> QED
  BY <1>1, <1>2, PlacesAt DEF Before, Behind, From

LEMMA ListingUndisturbed ==
    ASSUME NEW w, Listing(w), ListKept,
           job'[w] = job[w], pc'[w] = pc[w] \/ pc'[w] \notin ListSteps
    PROVE  Listing(w)'
<1>1. CASE pc'[w] \notin ListSteps
  BY <1>1 DEF Listing, ListSteps
<1>2. CASE pc'[w] = pc[w] /\ pc[w] \in ListSteps
  <2> DEFINE i == job[w].index
  <2>1. i \in 0 .. MAX_DIR_ENTRIES =>
           /\ Before(job[w].index)' = Before(i) /\ Behind(job[w].index)' = Behind(i)
           /\ From(job[w].index)' = From(i)
           /\ i \in Slots => (IsListed(job[w].index)' <=> IsListed(i))
    BY ViewStays DEF Before, Behind, From, ListedIn, IsListed
  <2> QED
    BY <1>2, <2>1 DEF Listing, ListSteps
<1> QED
  BY <1>1, <1>2

LEMMA ListingAdvancesSoundly ==
    ASSUME Sound, active_boxes = NumberListed, NEW w \in Workers, Listing(w),
           ListKept, ListingEffect(w)
    PROVE  Listing(w)'
<1> DEFINE i == job[w].index
           j == job'[w].index
<1>1. /\ job[w].boxes_listed \in Nat /\ job[w].last \in BOOLEAN
      /\ MAX_DIR_ENTRIES \in Nat
  BY BrokerAssumption DEF Sound, Types, Job
<1>2. ASSUME NEW k \in 0 .. MAX_DIR_ENTRIES, j = k
      PROVE  /\ Before(job[w].index)' = Before(k) /\ From(job[w].index)' = From(k)
             /\ Behind(job[w].index)' = Behind(k)
             /\ k \in Slots => (IsListed(job[w].index)' <=> IsListed(k))
  <2>1. /\ Before(k)' = Before(k) /\ Behind(k)' = Behind(k) /\ From(k)' = From(k)
        /\ k \in Slots => (IsListed(k)' <=> IsListed(k))
    BY ViewStays
  <2>2. /\ Before(job[w].index)' = Before(k)' /\ From(job[w].index)' = From(k)'
        /\ Behind(job[w].index)' = Behind(k)'
        /\ IsListed(job[w].index)' <=> IsListed(k)'
    BY <1>2 DEF Before, Behind, From, ListedIn, IsListed
  <2> QED
    BY <2>1, <2>2
<1>3. CASE pc'[w] \notin ListSteps
  BY <1>3 DEF Listing, ListSteps
<1>4. CASE ListingBegins(w)
  <2>1. j = 0 /\ job'[w].boxes_listed = 0 /\ ~job'[w].last /\ pc'[w] = "listNext"
    BY <1>4 DEF ListingBegins, Listing
  <2>2. Before(0) = {} /\ From(0) = ListedIn(Slots)
    BY <1>1 DEF Before, From, ListedIn, Slots
  <2>3. Cardinality(Before(0)) = 0 /\ From(0) # {}
    BY <1>4, <2>2, FS_EmptySet DEF ListingBegins, NumberListed
  <2> QED
    BY <1>1, <1>2, <2>1, <2>3 DEF Listing
<1>5. CASE ListingSkips(w)
  <2>1. /\ j = i + 1 /\ i \in Slots /\ pc'[w] = "listNext"
        /\ job'[w].boxes_listed = Cardinality(Before(i)) /\ ~job'[w].last
        /\ From(i) # {}
    BY <1>5 DEF ListingSkips, Listing, ListSteps
  <2>2. Before(j) = Before(i) /\ From(j) = From(i)
    BY <1>5, <2>1, SkipAt DEF ListingSkips
  <2>3. j \in 0 .. MAX_DIR_ENTRIES
    BY <1>1, <2>1 DEF Slots
  <2> QED
    BY <1>2, <2>1, <2>2, <2>3 DEF Listing
<1>6. CASE ListingOpensBox(w)
  <2>1. /\ j = i /\ i \in Slots /\ IsListed(i) /\ pc'[w] = "listRead"
        /\ job'[w].boxes_listed = job[w].boxes_listed
        /\ job[w].boxes_listed = Cardinality(Before(i))
        /\ job'[w].last <=> IsLast(w)
    BY <1>6 DEF ListingOpensBox, Listing, ListSteps, KeepsListing
  <2>2. job'[w].last <=> Behind(i) = {}
    BY <2>1, CountAt DEF IsLast, NumberListed
  <2>3. i \in 0 .. MAX_DIR_ENTRIES
    BY <1>1, <2>1 DEF Slots
  <2> QED
    BY <1>2, <2>1, <2>2, <2>3 DEF Listing
<1>7. CASE ListingReads(w)
  <2>1. /\ j = i /\ i \in Slots /\ IsListed(i)
        /\ pc'[w] \in {"listClose", "listSend"}
        /\ job'[w].boxes_listed = Cardinality(Before(i))
        /\ job'[w].last <=> Behind(i) = {}
    BY <1>7 DEF ListingReads, Listing, ListSteps, KeepsListing
  <2>2. i \in 0 .. MAX_DIR_ENTRIES
    BY <1>1, <2>1 DEF Slots
  <2> QED
    BY <1>2, <2>1, <2>2 DEF Listing
<1>8. CASE ListingSends(w)
  <2>1. /\ j = i + 1 /\ i \in Slots /\ IsListed(i) /\ pc'[w] = "listNext"
        /\ job[w].boxes_listed = Cardinality(Before(i))
        /\ job'[w].boxes_listed = Cardinality(Before(i)) + 1
        /\ job'[w].last <=> Behind(i) = {}
        /\ Cardinality(Before(i)) + 1 # Cardinality(ListedIn(Slots))
    BY <1>8 DEF ListingSends, Listing, ListSteps, IsLast, NumberListed
  <2>2. /\ Behind(i) # {} /\ Cardinality(Before(j)) = Cardinality(Before(i)) + 1
    BY <2>1, CountAt
  <2>3. i \in 0 .. MAX_DIR_ENTRIES /\ j \in 0 .. MAX_DIR_ENTRIES
    BY <1>1, <2>1 DEF Slots
  <2>4. From(j) = Behind(i)
    BY <2>1, <2>3, PlacesAt
  <2> QED
    BY <1>2, <2>1, <2>2, <2>3, <2>4 DEF Listing
<1> QED
  BY <1>3, <1>4, <1>5, <1>6, <1>7, <1>8 DEF ListingEffect

LEMMA AloneKept ==
    ASSUME Sound, Alone, [Next]_vars
    PROVE  Alone'
<1>1. CASE Mount \/ Arrive \/ UNCHANGED vars
  <2>1. undisturbed' = undisturbed /\ (pc' = pc \/ pc' = Woken(pc))
    BY <1>1 DEF Mount, Arrive, vars, sessionVars, aroundVars, historyVars
  <2>2. \A w \in Workers : Managing(w)' => Managing(w)
    BY <2>1 DEF Managing, Woken, ManagerSteps
  <2> QED
    BY <2>1, <2>2 DEF Alone
<1>2. ASSUME NEW w \in Workers, NEW step \in FirstSteps, NEW name,
             Accept(w, step, name)
      PROVE  Alone'
  <2> SUFFICES ASSUME undisturbed' # {}
               PROVE  \A v \in Workers : pc'[v] \notin ManagerSteps
    BY DEF Alone, Managing
  <2>1. step \notin ManagerSteps
    BY <1>2 DEF Accept
  <2>2. \A v \in Workers : pc[v] \notin ManagerSteps
    BY <1>2, <2>1 DEF Accept, Alone, Managing
  <2> QED
    BY <1>2, <2>1, <2>2, AcceptMoves DEF Sound, ManagerSteps
<1>3. ASSUME NEW w \in Workers, Running(w) \/ Waiting(w) PROVE Alone'
  <2>1. pc'[w] \in ManagerSteps => pc[w] \in ManagerSteps
    BY <1>3, EveryManagerEffect
       DEF Sound, ManagerEffect, Harmless, PlansCreation, MakesFile, FindsRoom,
           FillsPlace, FindsPlace, Unlinks, EmptiesPlace, Settles, StoresActive,
           Adding, Taking, ManagerSteps
  <2>2. \A v \in Workers : Managing(v)' => Managing(v)
    BY <1>3, <2>1, OthersDoStay DEF Sound, OthersStay, Managing, ManagerSteps
  <2> QED
    BY <1>3, <2>2, WorkersRun DEF Alone
<1> QED
  BY <1>1, <1>2, <1>3 DEF Next

LEMMA ListingSoundKept ==
    ASSUME Sound, ListInv, Alone, ListingSound, [Next]_vars
    PROVE  ListingSound'
<1> SUFFICES ASSUME status' = "mounted", ~overlapped', NEW v \in undisturbed'
             PROVE  Listing(v)'
  BY DEF ListingSound
<1> USE DEF Sound
<1>1. CASE Mount
  <2>1. pc'[v] = "idle"
    BY <1>1, MainKeepsTypes DEF Mount, T!tfs_init, sessionVars, aroundVars,
                                historyVars, NobodyEarly, Types
  <2> QED
    BY <2>1 DEF Listing, ListSteps
<1>2. CASE Arrive \/ UNCHANGED vars
  <2>1. /\ status = "mounted" /\ ~overlapped /\ undisturbed' = undisturbed
        /\ ListKept /\ job'[v] = job[v]
        /\ pc' = pc \/ pc' = Woken(pc)
    BY <1>2 DEF Arrive, vars, tfsVars, tableVars, listVars, sessionVars,
                aroundVars, historyVars, ListKept
  <2>2. pc'[v] = pc[v] \/ pc'[v] \notin ListSteps
    BY <2>1 DEF Types, Woken, ListSteps
  <2>3. Listing(v)
    BY <2>1 DEF ListingSound
  <2> QED
    BY <2>1, <2>2, <2>3, ListingUndisturbed
<1>3. ASSUME NEW w \in Workers, NEW step \in FirstSteps, NEW name \in Names,
             Accept(w, step, name)
      PROVE  Listing(v)'
  <2>1. status = "mounted" /\ ~overlapped /\ ListKept
    BY <1>3, AcceptMeets DEF Accept, tfsVars, tableVars, listVars, ListKept
  <2>2. CASE v = w
    <3>1. step = "listFind"
      BY <1>3, <2>2 DEF Accept, ManagerSteps, FirstSteps
    <3>2. pc'[w] = "listFind"
      BY <1>3, <3>1, AcceptMoves
    <3>3. job' = [job EXCEPT ![w] = [NoJob EXCEPT !.name = NoName]]
      BY <1>3, <3>1 DEF Accept
    <3>4. job'[w].boxes_listed = 0 /\ ~job'[w].last
      BY <3>3 DEF NoJob, Types
    <3> QED
      BY <2>2, <3>2, <3>4 DEF Listing, ListSteps
  <2>3. CASE v # w
    <3>1. v \in undisturbed /\ v \in Workers
      BY <1>3, <2>3 DEF Accept, Types
    <3>2. Listing(v)
      BY <2>1, <3>1 DEF ListingSound
    <3>3. /\ job'[v] = job[v]
          /\ pc'[v] = pc[v] \/ pc'[v] \notin ListSteps
      BY <1>3, <2>3, <3>1, AcceptMoves DEF ListSteps
    <3> QED
      BY <2>1, <3>2, <3>3, ListingUndisturbed
  <2> QED
    BY <2>2, <2>3
<1>4. ASSUME NEW w \in Workers, Running(w) \/ Waiting(w) PROVE Listing(v)'
  <2>1. /\ status = "mounted" /\ ~overlapped /\ undisturbed' = undisturbed
        /\ v \in Workers
    BY <1>4, WorkersRun DEF Types
  <2>2. Listing(v) /\ ListHolds
    BY <2>1 DEF ListingSound, ListInv, ListSound
  <2>3. pc[w] \notin ManagerSteps
    BY <2>1 DEF Alone, Managing
  <2>4. ListKept
    BY <1>4, <2>3, ListStays DEF ManagerSteps
  <2>5. CASE v = w
    <3>1. \A u \in Workers : pc[u] \notin Adding \cup Taking
      BY <2>1 DEF Alone, Managing, ManagerSteps, Adding, Taking
    <3>2. active_boxes = NumberListed
      BY <2>2, <3>1 DEF ListHolds, ActiveBoxesCounts
    <3> QED
      BY <1>4, <2>2, <2>4, <2>5, <3>2, ListingGoes, ListingAdvancesSoundly
  <2>6. CASE v # w
    <3>1. /\ job'[v] = job[v]
          /\ pc'[v] = pc[v] \/ pc'[v] \notin ListSteps
      BY <1>4, <2>1, <2>6, OthersDoStay DEF OthersStay, ListSteps
    <3> QED
      BY <2>2, <2>4, <3>1, ListingUndisturbed
  <2> QED
    BY <2>5, <2>6
<1> QED
  BY <1>1, <1>2, <1>3, <1>4 DEF Next

ListingInv == Alone /\ ListingSound

LEMMA InitListingInv == Init => ListingInv
BY DEF Init, ListingInv, Alone, ListingSound

LEMMA ListingInvKept ==
    Sound /\ ListInv /\ ListingInv /\ [Next]_vars => ListingInv'
BY AloneKept, ListingSoundKept DEF ListingInv

LEMMA ListingIsSound == Spec => [](Sound /\ ListInv /\ ListingInv)
BY ListIsSound, InitListingInv, ListingInvKept, PTL DEF Spec

\* A listing during which nothing is created or removed sends one record for
\* each box before its place and says `last' with the last one and no other,
\* for any number of boxes, holes in the list included (mbroker.c:395-457).
THEOREM ListingIsTrue == Spec => []ListingTellsTheTruth
<1>1. Sound /\ ListInv /\ ListingInv => ListingTellsTheTruth
  BY DEF ListingInv, ListingSound, Listing, ListingTellsTheTruth, ListSteps,
         Before, Behind, From
<1> QED
  BY <1>1, ListingIsSound, PTL

\* Where the listing stops without a last record: no handle is free, for every
\* listed box can be found.
LEMMA StopsForHandles ==
    ASSUME Sound, ListInv, ListingInv, NEW w \in undisturbed, ~overlapped,
           ListNext(w), pc'[w] = "idle"
    PROVE  T!NoneFree(free_open_file_entries)
<1> DEFINE i == job[w].index
<1>1. status = "mounted" /\ pc[w] = "listNext" /\ w \in Workers
  BY DEF ListNext, At, Sound, Types
<1>2. Listing(w) /\ ListHolds
  BY <1>1 DEF ListingInv, ListingSound, ListInv, ListSound
<1>3. i # MAX_DIR_ENTRIES
  BY <1>1, <1>2, PlacesAt, BrokerAssumption DEF Listing, ListSteps
<1>4. /\ i \in Slots /\ IsListed(i) /\ open(boxes[i].box_name, FALSE, -1)
  <2>1. pc \in [Workers -> Places]
    BY DEF Sound, Types
  <2>2. pc' # pc /\ ~GoTo(w, "listRead")
    BY <1>1, <2>1 DEF GoTo
  <2> QED
    BY <1>3, <2>2 DEF ListNext
<1>5. boxes[i].box_name \in Names
  BY <1>4 DEF Sound, Types, Box, IsListed
<1>6. Found(boxes[i].box_name)
  <2>1. \A v \in Workers : pc[v] \notin ManagerSteps
    BY DEF ListingInv, Alone, Managing
  <2>2. boxes[i].box_name \in Listed
    BY <1>4 DEF Listed, IsListed
  <2> QED
    BY <1>2, <1>5, <2>1, <2>2 DEF ListHolds, StoreAgrees, InHand, Holding, ManagerSteps
<1>7. ~T!IsFirstFree(-1, free_open_file_entries)
  <2>1. T!TypeOK
    BY <1>1, TypesOfTables DEF Sound, TablesSound
  <2>2. -1 \notin T!Handles
    BY BrokerAssumption DEF T!Handles
  <2> QED
    BY <2>1, <2>2 DEF T!TypeOK, T!IsFirstFree
<1> QED
  BY <1>4, <1>6, <1>7 DEF open, Found, IsNewHandle

\* Such a listing ends without its last record only when TecnicoFS has no free
\* handle or the manager's pipe broke, never because a listed box cannot be
\* found (mbroker.c:434-437).
THEOREM ListingStops == Spec => ListingStopsShort
<1>1. ASSUME Sound, ListInv, ListingInv, Next, NEW w \in undisturbed,
             pc[w] = "listNext", pc'[w] = "idle", ~overlapped
      PROVE  T!NoneFree(free_open_file_entries)
  <2>1. w \in Workers /\ pc \in [Workers -> Places]
    BY <1>1 DEF Sound, Types
  <2>2. ~Mount /\ ~Arrive
    BY <1>1, <2>1 DEF Mount, Arrive, sessionVars, Woken
  <2>3. ASSUME NEW v \in Workers, NEW step \in FirstSteps, NEW name \in Names
        PROVE  ~Accept(v, step, name)
    BY <1>1, <2>1, AcceptMoves DEF Sound, FirstSteps
  <2>4. PICK v \in Workers : Running(v) \/ Waiting(v)
    BY <1>1, <2>2, <2>3, SMTT(40) DEF Next
  <2>5. v = w
    BY <1>1, <2>1, <2>4, OthersDoStay, SMTT(40) DEF Sound, OthersStay
  <2>6. ListNext(w)
    <3>1. pc[w] \in ListSteps
      BY <1>1 DEF ListSteps
    <3> QED
      BY <1>1, <2>4, <2>5, <3>1, OnlyListings
         DEF At, Step, ListFind, ListRead, ListClose, ListSend
  <2> QED
    BY <1>1, <2>6, StopsForHandles
<1>2. /\ Sound /\ ListInv /\ ListingInv /\ [Next]_vars
      => [\A w \in undisturbed :
             pc[w] = "listNext" /\ pc'[w] = "idle" /\ ~overlapped
             => T!NoneFree(free_open_file_entries)]_vars
  BY <1>1
<1> QED
  BY <1>2, ListingIsSound, PTL DEF Spec, ListingStopsShort
=============================================================================
