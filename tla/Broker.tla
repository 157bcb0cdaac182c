------------------------------- MODULE Broker -------------------------------
(***************************************************************************)
(* The workers of the message broker and the file system they share:       *)
(* projeto-2/mbroker/mbroker.c over projeto-2/fs.                          *)
(*                                                                         *)
(* Each worker runs one session at a time.  Only the calls into TecnicoFS  *)
(* are under a lock, so a step here is at most one such call -- the action *)
(* of module Tfs that models it -- or one load or store of what the        *)
(* workers share: the ++ and -- of the counts are two steps, and filling   *)
(* or clearing a place of the list is several.  The list is searched, and  *)
(* a name copied or cleared, at once.  The condition variable has no mutex *)
(* in common: every subscriber waits with a mutex of its own, and nobody   *)
(* who broadcasts holds it.                                                *)
(*                                                                         *)
(* A message is one byte, and the byte is the name of the box its          *)
(* publisher sent it to; a block holds BLOCK_SIZE of them.  What clients   *)
(* do (send, close, go away) is a choice wherever the broker meets a pipe. *)
(***************************************************************************)
EXTENDS Integers, FiniteSets

CONSTANTS
    Workers,            \* max_sessions threads that run thread_manager
    Names,              \* box names
    NoName,             \* the empty string
    INODE_TABLE_SIZE, DATA_BLOCKS, MAX_OPEN_FILES, BLOCK_SIZE,
    MAX_DIR_ENTRIES,    \* and MAX_INBOXES, which is computed alike
    MaxRequests,        \* bound: requests that arrive
    MaxOffset           \* bound: see Tfs

ASSUME BrokerAssumption ==
    /\ Workers # {} /\ IsFiniteSet(Workers)
    /\ NoName \notin Names
    /\ {INODE_TABLE_SIZE, DATA_BLOCKS, BLOCK_SIZE} \subseteq Nat \ {0}
    /\ {MAX_OPEN_FILES, MAX_DIR_ENTRIES} \subseteq Nat
    /\ INODE_TABLE_SIZE > MAX_DIR_ENTRIES + 1   \* 64 and 23 by default
    /\ {MaxRequests, MaxOffset} \subseteq Nat

VARIABLES
    status, inode_table, freeinode_ts, dir_entries, fs_data, free_blocks,
    open_file_table, free_open_file_entries,        \* of TecnicoFS
    boxes, active_boxes,
    pc,              \* where each worker stands
    job,             \* the locals of its session
    ignoresSigpipe,  \* a subscriber has been here
    arrived,         \* requests main has read
    queued,          \* and put in the queue, and nobody has taken yet
    overlapped,      \* history: two creations or removals were served at once
    lapses,          \* history: what went wrong with the counts, see below
    undisturbed      \* history: listings no creation or removal overlapped

T == INSTANCE Tfs WITH Bytes <- Names, Junk <- NoName, LongNames <- {},
                       MaxTransfer <- BLOCK_SIZE

tableVars == <<inode_table, freeinode_ts, dir_entries, fs_data, free_blocks,
               open_file_table, free_open_file_entries>>
tfsVars == <<status, tableVars>>
listVars == <<boxes, active_boxes>>
historyVars == <<overlapped, lapses, undisturbed>>
aroundVars == <<arrived, queued, historyVars>>
sessionVars == <<job, ignoresSigpipe, aroundVars>>
vars == <<tfsVars, listVars, pc, sessionVars>>

Slots   == 0 .. MAX_DIR_ENTRIES - 1
Handles == T!Handles \cup {-1}
Box     == [box_name : Names \cup {NoName}, publishers : Int, subscribers : Int]
EmptyBox == [box_name |-> NoName, publishers |-> 0, subscribers |-> 0]

\* box_index or the counter of a loop; the handle: `box', `create_box'; aux is
\* the second handle; count: what ++ or -- has loaded; boxes_listed and last of
\* list_boxes
Job == [name : Names \cup {NoName}, index : Slots \cup {-1, MAX_DIR_ENTRIES},
        fh : Handles, aux : Handles, count : Int,
        boxes_listed : Nat, last : BOOLEAN]
NoJob == [name |-> NoName, index |-> -1, fh |-> -1, aux |-> -1,
          count |-> 0, boxes_listed |-> 0, last |-> FALSE]

PublisherSteps  == {"pubFind", "pubTest", "pubCount", "pubStore", "pubRead",
                    "pubOpenBox", "pubWrite", "pubCloseBox", "pubLeave", "pubLeft"}
SubscriberSteps == {"subFind", "subCount", "subStore", "subOpenBox",
                    "subOpenPipe", "subProbe", "subProbed", "subRead", "subEmpty",
                    "subWaiting", "subSend", "subGone", "subLeave", "subLeft"}
ManagerSteps    == {"createFind", "createBox", "createList", "createName",
                    "createPublishers", "createSubscribers", "createActive",
                    "createActivated", "createReply", "createClose",
                    "removeFind", "removeTest", "removeBox", "removeList",
                    "removePublishers", "removeSubscribers", "removeActive",
                    "removeActivated", "removeReply"}
ListSteps       == {"listFind", "listNext", "listRead", "listClose", "listSend"}

\* "uncounted": a session ended and stays counted; "removed": a box lost its
\* place in the list under a publisher's session or a removal that had found it
\* there; "raced": a publisher was counted after another one, or a removal, had
\* asked for the count and found none; "doubled": a name was listed twice;
\* "lostPublishers", "lostSubscribers": a count was stored by somebody whom
\* another's store had escaped, which is undone
Lapses == {"uncounted", "removed", "raced", "doubled",
           "lostPublishers", "lostSubscribers"}

TypeOK ==
    /\ T!TypeOK \/ status = "killed"
    /\ boxes \in [Slots -> Box]
    /\ active_boxes \in Int
    /\ pc \in [Workers -> {"idle"} \cup PublisherSteps \cup SubscriberSteps
                              \cup ManagerSteps \cup ListSteps]
    /\ job \in [Workers -> Job]
    /\ queued \in 0 .. arrived /\ arrived \in 0 .. MaxRequests
    /\ lapses \subseteq Lapses /\ undisturbed \subseteq Workers

-----------------------------------------------------------------------------

Init ==
    /\ T!Init
    /\ boxes = [i \in Slots |-> EmptyBox] /\ active_boxes = 0
    /\ pc = [w \in Workers |-> "idle"]
    /\ job = [w \in Workers |-> NoJob]
    /\ ignoresSigpipe = FALSE
    /\ arrived = 0 /\ queued = 0
    /\ overlapped = FALSE /\ lapses = {} /\ undisturbed = {}

\* main mounts once, in memory nothing was written to before
Mount ==
    /\ T!tfs_init
    /\ dir_entries' \in T!BlankDirectories({NoName})
    /\ UNCHANGED <<listVars, pc, sessionVars>>

\* Where everybody stands after a broadcast of write_cond
Woken(p) == [w \in Workers |-> IF p[w] = "subWaiting" THEN "subProbe" ELSE p[w]]

At(w, step) == status = "mounted" /\ pc[w] = step
GoTo(w, step) == pc' = [pc EXCEPT ![w] = step]
Step(w, from, to) == At(w, from) /\ GoTo(w, to)
GoToAndBroadcast(w, step) == pc' = Woken([pc EXCEPT ![w] = step])
Remember(w, field, x) == job' = [job EXCEPT ![w] = [@ EXCEPT ![field] = x]]
Return(w) == GoTo(w, "idle") /\ job' = [job EXCEPT ![w] = NoJob]

\* A step that leaves the list and main's variables alone
OthersUnchanged == UNCHANGED <<listVars, ignoresSigpipe, aroundVars>>
Lapse(these) == lapses' = lapses \cup these

\* main reads a request, broadcasts and enqueues it; pcq_enqueue keeps it in a
\* full queue of max_sessions requests until one is taken.
Arrive ==
    /\ status = "mounted"
    /\ arrived < MaxRequests
    /\ queued <= Cardinality(Workers)
    /\ arrived' = arrived + 1
    /\ queued' = queued + 1
    /\ pc' = Woken(pc)
    /\ UNCHANGED <<tfsVars, listVars, job, ignoresSigpipe, historyVars>>

FirstSteps == {"pubFind", "subFind", "createFind", "removeFind", "listFind"}

\* Mutation: pcq_dequeue does not wait for a request.
AcceptNothing(w, step, name) ==
    /\ At(w, "idle")
    /\ queued' = queued - 1
    /\ GoToAndBroadcast(w, step)
    /\ job' = [job EXCEPT ![w] = [NoJob EXCEPT !.name = name]]
    /\ UNCHANGED <<tfsVars, listVars, ignoresSigpipe, arrived, historyVars>>

\* thread_manager dequeues a request, broadcasts and dispatches it; a request
\* for the list names no box.
Accept(w, step, name) ==
    LET managing == \E v \in Workers : pc[v] \in ManagerSteps IN
    /\ At(w, "idle")
    /\ queued > 0
    /\ queued' = queued - 1
    /\ GoToAndBroadcast(w, step)
    /\ job' = [job EXCEPT ![w] = [NoJob EXCEPT
                  !.name = IF step = "listFind" THEN NoName ELSE name]]
    /\ overlapped' = (overlapped \/ (step \in ManagerSteps /\ managing))
    /\ undisturbed' = IF step \in ManagerSteps THEN {}
                      ELSE IF step = "listFind" /\ ~managing
                      THEN undisturbed \cup {w} ELSE undisturbed \ {w}
    /\ UNCHANGED <<tfsVars, listVars, ignoresSigpipe, arrived, lapses>>

\* get_box_index
IsBoxIndex(i, name) ==
    \/ /\ i \in Slots
       /\ boxes[i].box_name = name
       /\ \A j \in Slots : j < i => boxes[j].box_name # name
    \/ /\ i = -1
       /\ \A j \in Slots : boxes[j].box_name # name

\* What goes wrong when the publishers or the subscribers of place i are stored
\* by somebody who takes it that there are n.
LosesPublishers(i, n) ==
    {what \in {"lostPublishers"} : boxes[i].publishers # n}
LosesSubscribers(i, n) ==
    {what \in {"lostSubscribers"} : boxes[i].subscribers # n}

\* A store into the list leaves these alone.
StoreUnchanged ==
    UNCHANGED <<tfsVars, ignoresSigpipe, arrived, queued, overlapped, undisturbed>>

-----------------------------------------------------------------------------
(* The calls into TecnicoFS and what they return: handle h, or -1.         *)

IsNewHandle(h) ==
    \/ T!IsFirstFree(h, free_open_file_entries)
    \/ h = -1 /\ T!NoneFree(free_open_file_entries)

open(name, append, h) ==
    \/ T!OpenExisting(name, FALSE, append) /\ IsNewHandle(h)
    \/ T!NotFound(name) /\ h = -1 /\ UNCHANGED tfsVars

openCreating(name, h) ==
    \/ T!OpenExisting(name, FALSE, FALSE) /\ IsNewHandle(h)
    \/ T!OpenCreate(name) /\ IsNewHandle(h)
    \/ T!OpenCreateUndone(name) /\ h = -1

close(h) ==
    IF h # -1 /\ T!IsOpen(h) THEN T!tfs_close(h) ELSE UNCHANGED tfsVars

\* A full block swallows the message, a full disk or handle -1 refuses it.
write(h, message) ==
    IF h # -1 /\ T!ToWrite(h, 1) > 0 /\ (\E b \in T!Blocks : T!WritesTo(h, b))
    THEN T!tfs_write(h, message, 1)
    ELSE UNCHANGED tfsVars

-----------------------------------------------------------------------------
(* connect_publisher and write_in_box                                      *)

PubFind(w) ==
    /\ At(w, "pubFind")
    /\ \E i \in Slots \cup {-1} :
          /\ IsBoxIndex(i, job[w].name)
          /\ IF i = -1 THEN Return(w)
             ELSE GoTo(w, "pubTest") /\ Remember(w, "index", i)
    /\ UNCHANGED tfsVars /\ OthersUnchanged

\* Mutation: a box may have two publishers.
PubTestNothing(w) ==
    /\ Step(w, "pubTest", "pubCount")
    /\ UNCHANGED job
    /\ UNCHANGED tfsVars /\ OthersUnchanged

PubTest(w) ==
    /\ At(w, "pubTest")
    /\ IF boxes[job[w].index].publishers >= 1 THEN Return(w)
       ELSE GoTo(w, "pubCount") /\ UNCHANGED job
    /\ UNCHANGED tfsVars /\ OthersUnchanged

\* Whoever has asked how many publishers there are where w is about to be
\* counted, and acts on the answer next.  A removal that has not found the box
\* asks in another place.
HasAsked(v, w) ==
    \/ pc[v] \in {"pubCount", "pubStore"} /\ job[v].index = job[w].index
    \/ pc[v] = "removeBox" /\ job[v].name = job[w].name
    \/ pc[v] = "removeTest" /\ job[v].index = -1 /\ job[v].name = job[w].name

Races(w) == {what \in {"raced"} : \E v \in Workers \ {w} : HasAsked(v, w)}

\* publishers++, which no lock ties to the test or to anybody else's ++ or --
PubCount(w) ==
    /\ Step(w, "pubCount", "pubStore")
    /\ Remember(w, "count", boxes[job[w].index].publishers)
    /\ UNCHANGED tfsVars /\ OthersUnchanged

PubStore(w) ==
    LET i == job[w].index IN
    /\ Step(w, "pubStore", "pubRead")
    /\ boxes' = [boxes EXCEPT ![i].publishers = job[w].count + 1]
    /\ Remember(w, "count", 0)
    /\ Lapse(LosesPublishers(i, job[w].count) \cup Races(w))
    /\ UNCHANGED active_boxes /\ StoreUnchanged

\* Mutation: a publisher who leaves without a word ends the session there.
PubReadThenReturn(w) ==
    /\ At(w, "pubRead")
    /\ \/ GoTo(w, "pubOpenBox") /\ job' = job
       \/ Return(w)
    /\ UNCHANGED tfsVars /\ OthersUnchanged

PubRead(w) ==
    /\ At(w, "pubRead")
    /\ \/ GoTo(w, "pubOpenBox") /\ job' = job            \* a message
       \/ GoToAndBroadcast(w, "pubRead") /\ job' = job   \* an empty one
       \/ GoTo(w, "pubLeave") /\ job' = job              \* the client closed
    /\ UNCHANGED tfsVars /\ OthersUnchanged

\* The pipe cannot be opened, or later read: the publisher stays counted.
PubBreak(w) ==
    /\ At(w, "pubRead")
    /\ Return(w)
    /\ Lapse({"uncounted"})
    /\ UNCHANGED <<tfsVars, listVars, ignoresSigpipe, arrived, queued,
                   overlapped, undisturbed>>

PubOpenBox(w) ==
    /\ Step(w, "pubOpenBox", "pubWrite")
    /\ \E h \in Handles : open(job[w].name, TRUE, h) /\ Remember(w, "fh", h)
    /\ OthersUnchanged

PubWrite(w) ==
    /\ Step(w, "pubWrite", "pubCloseBox")
    /\ write(job[w].fh, job[w].name)
    /\ UNCHANGED <<listVars, sessionVars>>

PubCloseBox(w) ==
    /\ At(w, "pubCloseBox")
    /\ close(job[w].fh)
    /\ Remember(w, "fh", -1)
    /\ GoToAndBroadcast(w, "pubRead")
    /\ OthersUnchanged

\* publishers--
PubLeave(w) ==
    /\ Step(w, "pubLeave", "pubLeft")
    /\ Remember(w, "count", boxes[job[w].index].publishers)
    /\ UNCHANGED tfsVars /\ OthersUnchanged

PubLeft(w) ==
    LET i == job[w].index IN
    /\ At(w, "pubLeft")
    /\ boxes' = [boxes EXCEPT ![i].publishers = job[w].count - 1]
    /\ Return(w)
    /\ Lapse(LosesPublishers(i, job[w].count))
    /\ UNCHANGED active_boxes /\ StoreUnchanged

-----------------------------------------------------------------------------
(* connect_subscriber                                                      *)

SubFind(w) ==
    /\ At(w, "subFind")
    /\ ignoresSigpipe' = TRUE
    /\ \E i \in Slots \cup {-1} :
          /\ IsBoxIndex(i, job[w].name)
          /\ IF i = -1 THEN Return(w)
             ELSE GoTo(w, "subCount") /\ Remember(w, "index", i)
    /\ UNCHANGED <<tfsVars, listVars, aroundVars>>

\* subscribers++
SubCount(w) ==
    /\ Step(w, "subCount", "subStore")
    /\ Remember(w, "count", boxes[job[w].index].subscribers)
    /\ UNCHANGED tfsVars /\ OthersUnchanged

SubStore(w) ==
    LET i == job[w].index IN
    /\ Step(w, "subStore", "subOpenBox")
    /\ boxes' = [boxes EXCEPT ![i].subscribers = job[w].count + 1]
    /\ Remember(w, "count", 0)
    /\ Lapse(LosesSubscribers(i, job[w].count))
    /\ UNCHANGED active_boxes /\ StoreUnchanged

SubOpenBox(w) ==
    /\ Step(w, "subOpenBox", "subOpenPipe")
    /\ \E h \in Handles : open(job[w].name, FALSE, h) /\ Remember(w, "fh", h)
    /\ OthersUnchanged

SubOpenPipe(w) ==
    /\ Step(w, "subOpenPipe", "subProbe")
    /\ UNCHANGED <<tfsVars, listVars, sessionVars>>

\* The pipe cannot be opened: the subscriber stays counted.
SubBreak(w) ==
    /\ At(w, "subOpenPipe")
    /\ close(job[w].fh)
    /\ Return(w)
    /\ Lapse({"uncounted"})
    /\ UNCHANGED <<listVars, ignoresSigpipe, arrived, queued, overlapped, undisturbed>>

\* The loop starts by asking whether the box still exists.
SubProbe(w) ==
    /\ At(w, "subProbe")
    /\ \E h \in Handles :
          /\ open(job[w].name, FALSE, h)
          /\ Remember(w, "aux", h)
          /\ GoTo(w, IF h = -1 THEN "subGone" ELSE "subProbed")
    /\ OthersUnchanged

\* Mutation: the wrong handle is closed.
SubProbedClosingBox(w) ==
    /\ Step(w, "subProbed", "subRead")
    /\ close(job[w].fh)
    /\ Remember(w, "aux", -1)
    /\ OthersUnchanged

SubProbed(w) ==
    /\ Step(w, "subProbed", "subRead")
    /\ close(job[w].aux)
    /\ Remember(w, "aux", -1)
    /\ OthersUnchanged

\* When nobody reads the pipe any more, out of the loop, with the box still
\* open; otherwise the box is read.
SubRead(w) ==
    /\ At(w, "subRead")
    /\ LET h == job[w].fh IN
       \/ /\ GoTo(w, "subLeave") /\ Remember(w, "fh", -1)
          /\ UNCHANGED tfsVars
       \/ /\ h = -1
          /\ GoTo(w, "subGone") /\ UNCHANGED <<tfsVars, job>>
       \/ /\ h # -1 /\ T!ToRead(h, BLOCK_SIZE) = 0
          /\ GoTo(w, "subEmpty") /\ UNCHANGED <<tfsVars, job>>
       \/ /\ h # -1 /\ T!tfs_read(h, BLOCK_SIZE)
          /\ GoTo(w, "subSend") /\ UNCHANGED job
       \/ h # -1 /\ T!ReadNoBlock(h) /\ UNCHANGED <<pc, job>>
    /\ OthersUnchanged

\* pthread_cond_wait: what was broadcast since the read is missed.
SubWait(w) ==
    /\ Step(w, "subEmpty", "subWaiting")
    /\ UNCHANGED <<tfsVars, listVars, sessionVars>>

SpuriousWakeup(w) ==
    /\ Step(w, "subWaiting", "subProbe")
    /\ UNCHANGED <<tfsVars, listVars, sessionVars>>

\* The client is gone: out of the loop, with the box still open.
SubSend(w) ==
    /\ At(w, "subSend")
    /\ \/ GoTo(w, "subProbe") /\ job' = job
       \/ GoTo(w, "subLeave") /\ Remember(w, "fh", -1)
    /\ UNCHANGED tfsVars /\ OthersUnchanged

\* The box is gone, or tfs_read refused the handle.
SubGone(w) ==
    /\ Step(w, "subGone", "subLeave")
    /\ close(job[w].fh)
    /\ Remember(w, "fh", -1)
    /\ OthersUnchanged

\* subscribers--
SubLeave(w) ==
    /\ Step(w, "subLeave", "subLeft")
    /\ Remember(w, "count", boxes[job[w].index].subscribers)
    /\ UNCHANGED tfsVars /\ OthersUnchanged

SubLeft(w) ==
    LET i == job[w].index IN
    /\ At(w, "subLeft")
    /\ boxes' = [boxes EXCEPT ![i].subscribers = job[w].count - 1]
    /\ Return(w)
    /\ Lapse(LosesSubscribers(i, job[w].count))
    /\ UNCHANGED active_boxes /\ StoreUnchanged

-----------------------------------------------------------------------------
(* create_box and remove_box                                               *)

\* A write to a pipe whose reader is gone: -1 once a subscriber has made the
\* process ignore SIGPIPE, and until then the end of the process.
WriteFails ==
    IF ignoresSigpipe THEN UNCHANGED tfsVars
    ELSE status' = "killed" /\ UNCHANGED tableVars

\* Mutation: a box that exists is created again.
CreateFindNothing(w) ==
    /\ At(w, "createFind")
    /\ \/ Return(w)
       \/ GoTo(w, "createBox") /\ job' = job
    /\ UNCHANGED tfsVars /\ OthersUnchanged

\* The pipe cannot be opened, or the box exists and the reply says so.
CreateFind(w) ==
    /\ At(w, "createFind")
    /\ \/ Return(w) /\ UNCHANGED tfsVars
       \/ /\ ~IsBoxIndex(-1, job[w].name)
          /\ Return(w) /\ WriteFails
       \/ /\ IsBoxIndex(-1, job[w].name)
          /\ GoTo(w, "createBox") /\ job' = job /\ UNCHANGED tfsVars
    /\ OthersUnchanged

CreateBox(w) ==
    /\ Step(w, "createBox", "createList")
    /\ \E h \in Handles : openCreating(job[w].name, h) /\ Remember(w, "fh", h)
    /\ OthersUnchanged

\* The box is listed even when tfs_open returned -1, if there is a place for it.
CreateList(w) ==
    /\ At(w, "createList")
    /\ \E i \in Slots \cup {-1} :
          /\ IsBoxIndex(i, NoName)
          /\ Remember(w, "index", i)
          /\ GoTo(w, IF i = -1 THEN "createReply" ELSE "createName")
    /\ UNCHANGED tfsVars /\ OthersUnchanged

\* Who counts on the box that is listed in place i
HasFound(v, i) ==
    /\ pc[v] \in (PublisherSteps \ {"pubFind"}) \cup {"removeTest", "removeBox"}
    /\ job[v].index = i

TakesAway(i) == {what \in {"removed"} : \E v \in Workers : HasFound(v, i)}
Doubles(name) ==
    {what \in {"doubled"} : \E j \in Slots : boxes[j].box_name = name}

\* The place may have been taken since, and whoever finds the name from now on
\* may be counted before the counts are cleared.
CreateName(w) ==
    LET i == job[w].index IN
    /\ Step(w, "createName", "createPublishers")
    /\ boxes' = [boxes EXCEPT ![i].box_name = job[w].name]
    /\ Lapse(TakesAway(i) \cup Doubles(job[w].name))
    /\ UNCHANGED <<active_boxes, job>> /\ StoreUnchanged

\* Somebody who adds or removes the box of place i clears a count, or loads
\* active_boxes, or stores it back changed by n.
ClearPublishers(w, from, to) ==
    LET i == job[w].index IN
    /\ Step(w, from, to)
    /\ IF i = -1 THEN UNCHANGED <<boxes, lapses>>
       ELSE /\ boxes' = [boxes EXCEPT ![i].publishers = 0]
            /\ Lapse(LosesPublishers(i, 0))
    /\ UNCHANGED <<active_boxes, job>> /\ StoreUnchanged

ClearSubscribers(w, from, to) ==
    LET i == job[w].index IN
    /\ Step(w, from, to)
    /\ IF i = -1 THEN UNCHANGED <<boxes, lapses>>
       ELSE /\ boxes' = [boxes EXCEPT ![i].subscribers = 0]
            /\ Lapse(LosesSubscribers(i, 0))
    /\ UNCHANGED <<active_boxes, job>> /\ StoreUnchanged

LoadActive(w, from, to) ==
    /\ Step(w, from, to)
    /\ Remember(w, "count", active_boxes)
    /\ UNCHANGED tfsVars /\ OthersUnchanged

StoreActive(w, n) ==
    /\ active_boxes' = job[w].count + n
    /\ Remember(w, "count", 0)
    /\ UNCHANGED <<tfsVars, boxes, ignoresSigpipe, aroundVars>>

CreatePublishers(w) == ClearPublishers(w, "createPublishers", "createSubscribers")
CreateSubscribers(w) == ClearSubscribers(w, "createSubscribers", "createActive")
CreateActive(w) == LoadActive(w, "createActive", "createActivated")
CreateActivated(w) ==
    Step(w, "createActivated", "createReply") /\ StoreActive(w, 1)

\* A reply that cannot be sent leaves the box open.
CreateReply(w) ==
    /\ At(w, "createReply")
    /\ \/ GoTo(w, "createClose") /\ job' = job /\ UNCHANGED tfsVars
       \/ Return(w) /\ WriteFails
    /\ OthersUnchanged

CreateClose(w) ==
    /\ At(w, "createClose")
    /\ close(job[w].fh)
    /\ Return(w)
    /\ OthersUnchanged

\* The pipe cannot be opened, or the list is searched, and nobody asks whether
\* the box was found.
RemoveFind(w) ==
    /\ At(w, "removeFind")
    /\ \/ Return(w)
       \/ \E i \in Slots \cup {-1} :
             /\ IsBoxIndex(i, job[w].name)
             /\ Remember(w, "index", i)
             /\ GoTo(w, "removeTest")
    /\ UNCHANGED tfsVars /\ OthersUnchanged

\* Mutation: the publishers are not asked for.
RemoveTestNothing(w) ==
    /\ Step(w, "removeTest", "removeBox")
    /\ UNCHANGED job
    /\ UNCHANGED tfsVars /\ OthersUnchanged

\* A publisher is counted and the reply says so, or none is.  An unlisted box
\* reads boxes[-1].publishers, which may be anything.
RemoveTest(w) ==
    /\ At(w, "removeTest")
    /\ LET i == job[w].index IN
       \/ /\ i = -1 \/ (i # -1 /\ boxes[i].publishers >= 1)
          /\ Return(w) /\ WriteFails
       \/ /\ i = -1 \/ (i # -1 /\ boxes[i].publishers < 1)
          /\ GoTo(w, "removeBox") /\ UNCHANGED <<tfsVars, job>>
    /\ OthersUnchanged

RemoveBox(w) ==
    /\ At(w, "removeBox")
    /\ \/ /\ T!tfs_unlink(job[w].name)
          /\ GoTo(w, "removeList")
       \/ /\ T!NotFound(job[w].name) /\ UNCHANGED tfsVars
          /\ GoTo(w, "removeReply")
    /\ UNCHANGED <<listVars, sessionVars>>

\* With index -1 the three stores go to whatever stands before the array.
RemoveList(w) ==
    LET i == job[w].index IN
    /\ Step(w, "removeList", "removePublishers")
    /\ IF i = -1 THEN UNCHANGED <<boxes, lapses>>
       ELSE /\ boxes' = [boxes EXCEPT ![i].box_name = NoName]
            /\ Lapse(TakesAway(i))
    /\ UNCHANGED <<active_boxes, job>> /\ StoreUnchanged

RemovePublishers(w) == ClearPublishers(w, "removePublishers", "removeSubscribers")
RemoveSubscribers(w) == ClearSubscribers(w, "removeSubscribers", "removeActive")
RemoveActive(w) == LoadActive(w, "removeActive", "removeActivated")

\* Mutation: nobody is told.
RemoveActivatedQuietly(w) ==
    Step(w, "removeActivated", "removeReply") /\ StoreActive(w, -1)

RemoveActivated(w) ==
    /\ At(w, "removeActivated") /\ GoToAndBroadcast(w, "removeReply")
    /\ StoreActive(w, -1)

RemoveReply(w) ==
    /\ At(w, "removeReply")
    /\ \/ /\ pc' = Woken([pc EXCEPT ![w] = "idle"])
          /\ job' = [job EXCEPT ![w] = NoJob]
          /\ UNCHANGED tfsVars
       \/ Return(w) /\ WriteFails
    /\ OthersUnchanged

-----------------------------------------------------------------------------
(* list_boxes                                                              *)

IsListed(i) == boxes[i].box_name # NoName

\* The pipe cannot be opened; there are no boxes and the answer says so; or
\* the loop begins.
ListFind(w) ==
    /\ At(w, "listFind")
    /\ \/ Return(w) /\ UNCHANGED tfsVars
       \/ active_boxes = 0 /\ Return(w) /\ WriteFails
       \/ /\ active_boxes # 0
          /\ GoTo(w, "listNext") /\ Remember(w, "index", 0)
          /\ UNCHANGED tfsVars
    /\ OthersUnchanged

\* Mutation: the box that is being listed is counted as listed.
IsLastOfCounted(w) == job[w].boxes_listed = active_boxes

IsLast(w) == job[w].boxes_listed + 1 = active_boxes

\* Mutation: the listing ends at the first empty place.
ListNextContiguous(w) ==
    /\ At(w, "listNext")
    /\ LET i == job[w].index IN
       \/ /\ i = MAX_DIR_ENTRIES \/ (i \in Slots /\ ~IsListed(i))
          /\ Return(w) /\ UNCHANGED tfsVars
       \/ /\ i \in Slots /\ IsListed(i)
          /\ \E h \in Handles :
                /\ open(boxes[i].box_name, FALSE, h)
                /\ IF h = -1 THEN Return(w)
                   ELSE /\ GoTo(w, "listRead")
                        /\ job' = [job EXCEPT
                                ![w].fh = h, ![w].last = job[w].last \/ IsLast(w)]
    /\ OthersUnchanged

\* One place of the list: `last' is decided, and the box opened by its name.
\* When it cannot be, and behind the last place, the listing ends as it is.
ListNext(w) ==
    /\ At(w, "listNext")
    /\ LET i == job[w].index IN
       \/ /\ i = MAX_DIR_ENTRIES
          /\ Return(w) /\ UNCHANGED tfsVars
       \/ /\ i \in Slots /\ ~IsListed(i)
          /\ Remember(w, "index", i + 1)
          /\ UNCHANGED <<tfsVars, pc>>
       \/ /\ i \in Slots /\ IsListed(i)
          /\ \E h \in Handles :
                /\ open(boxes[i].box_name, FALSE, h)
                /\ IF h = -1 THEN Return(w)
                   ELSE /\ GoTo(w, "listRead")
                        /\ job' = [job EXCEPT
                                ![w].fh = h, ![w].last = job[w].last \/ IsLast(w)]
    /\ OthersUnchanged

\* The size of the box is what can be read of it.
ListRead(w) ==
    /\ Step(w, "listRead", "listClose")
    /\ LET h == job[w].fh IN
       \/ T!ToRead(h, BLOCK_SIZE) = 0 /\ UNCHANGED tfsVars
       \/ T!tfs_read(h, BLOCK_SIZE)
       \/ T!ReadNoBlock(h)
    /\ UNCHANGED <<listVars, sessionVars>>

ListClose(w) ==
    /\ Step(w, "listClose", "listSend")
    /\ close(job[w].fh)
    /\ Remember(w, "fh", -1)
    /\ OthersUnchanged

\* A record is sent, and active_boxes read once more.
ListSend(w) ==
    /\ At(w, "listSend")
    /\ \/ /\ \/ IsLast(w) /\ Return(w)
             \/ /\ ~IsLast(w)
                /\ GoTo(w, "listNext")
                /\ job' = [job EXCEPT ![w].index = @ + 1,
                                      ![w].boxes_listed = @ + 1]
          /\ UNCHANGED tfsVars
       \/ Return(w) /\ WriteFails
    /\ OthersUnchanged

-----------------------------------------------------------------------------

\* Steps that wait for nobody outside the broker
Running(w) ==
    \/ PubCount(w) \/ PubStore(w) \/ PubOpenBox(w) \/ PubWrite(w) \/ PubCloseBox(w)
    \/ PubLeave(w) \/ PubLeft(w)
    \/ SubCount(w) \/ SubStore(w) \/ SubOpenBox(w) \/ SubProbe(w) \/ SubProbed(w)
    \/ SubRead(w) \/ SubWait(w) \/ SubGone(w) \/ SubLeave(w) \/ SubLeft(w)
    \/ CreateBox(w) \/ CreateList(w) \/ CreateName(w) \/ CreatePublishers(w)
    \/ CreateSubscribers(w) \/ CreateActive(w) \/ CreateActivated(w)
    \/ CreateReply(w) \/ CreateClose(w)
    \/ RemoveTest(w) \/ RemoveBox(w) \/ RemoveList(w) \/ RemovePublishers(w)
    \/ RemoveSubscribers(w) \/ RemoveActive(w) \/ RemoveActivated(w) \/ RemoveReply(w)
    \/ ListNext(w) \/ ListRead(w) \/ ListClose(w) \/ ListSend(w)

\* Steps that open or use a client's pipe and may block on it, and wakeups
\* nobody can count on
Waiting(w) ==
    \/ PubFind(w) \/ PubTest(w) \/ PubRead(w) \/ PubBreak(w)
    \/ SubFind(w) \/ SubOpenPipe(w) \/ SubBreak(w) \/ SpuriousWakeup(w) \/ SubSend(w)
    \/ CreateFind(w) \/ RemoveFind(w) \/ ListFind(w)

Next ==
    \/ Mount
    \/ Arrive
    \/ \E w \in Workers, step \in FirstSteps, name \in Names :
          Accept(w, step, name)
    \/ \E w \in Workers : Running(w) \/ Waiting(w)

Spec == Init /\ [][Next]_vars

\* The scheduler lets every worker run.
FairSpec == Spec /\ \A w \in Workers : WF_vars(Running(w))

-----------------------------------------------------------------------------
(* What holds                                                              *)

Held(w) == {job[w].fh, job[w].aux} \ {-1}

\* A worker's handles stay open until it closes them and are nobody else's:
\* through all the ways out of a session, none is closed twice, which would
\* close the box under the worker that was given the number next.
HandlesOwned ==
    status = "mounted" =>
      /\ \A w \in Workers : \A h \in Held(w) : T!IsOpen(h)
      /\ \A v, w \in Workers : v # w => Held(v) \cap Held(w) = {}
      /\ \A w \in Workers :
            pc[w] = "subProbed" /\ job[w].fh # -1 => job[w].fh # job[w].aux

Listed == {boxes[i].box_name : i \in Slots} \ {NoName}

\* As long as no two manager requests were ever served at once, the list the
\* broker keeps and the directory agree whenever none is being served, each
\* box is listed once and active_boxes counts them: failed creations, a full
\* open file table and lost replies included.
ListMatchesStore ==
    /\ status = "mounted" /\ ~overlapped
    /\ \A w \in Workers : pc[w] \notin ManagerSteps
    => /\ \A name \in Names : T!NotFound(name) <=> name \notin Listed
       /\ Cardinality(Listed) = active_boxes
       /\ active_boxes =
            Cardinality({i \in Slots : boxes[i].box_name # NoName})

Counted(i, steps) == {w \in Workers : pc[w] \in steps /\ job[w].index = i}

CountedPublishers(i) ==
    Counted(i, PublisherSteps \ {"pubFind", "pubTest", "pubCount", "pubStore"})
CountedSubscribers(i) ==
    Counted(i, SubscriberSteps \ {"subFind", "subCount", "subStore"})

\* The counts of a place of the list are the sessions it has, through all the
\* ways into and out of them, unless a pipe could not be opened or read
\* (mbroker.c:121, :136, :183) or a store to that count undid another one, as
\* those of ++ and -- and of whoever adds or removes a box can (mbroker.c:114,
\* :147, :171, :244, :299, :374).
CountsMatchSessions ==
    "uncounted" \notin lapses =>
        \A i \in Slots :
            /\ "lostPublishers" \notin lapses =>
                 boxes[i].publishers = Cardinality(CountedPublishers(i))
            /\ "lostSubscribers" \notin lapses =>
                 boxes[i].subscribers = Cardinality(CountedSubscribers(i))

\* A place of the list has one publisher's session at most (mbroker.c:107),
\* unless two of them asked before either was counted, or the count was lost:
\* pipes that break and boxes removed under a session let no second one in.
OnePublisher ==
    lapses \cap {"raced", "lostPublishers"} = {} =>
        \A i \in Slots : Cardinality(CountedPublishers(i)) <= 1

InPublisherSession(w) ==
    pc[w] \in PublisherSteps \ {"pubFind", "pubTest", "pubCount", "pubStore"}

\* remove_box's comment, mbroker.c:326: no box with a publisher is removed --
\* unless the publisher was counted behind the removal's back, its count was
\* lost, or the removal asks in another place of the list, because the box is
\* listed twice or its place was taken from it.
RemovedWithoutPublisher ==
    [][\A w \in Workers, name \in Names :
          /\ InPublisherSession(w) /\ job[w].name = name
          /\ ~T!NotFound(name)
          /\ lapses \cap {"raced", "lostPublishers", "removed", "doubled"} = {}
          => ~T!NotFound(name)']_vars

ListedIn(S) == {i \in S : IsListed(i)}

\* A listing during which nothing is created or removed sends a record for
\* each listed box, in order, and marks the last one and no other; the loop
\* never runs past the end of the list.
ListingTellsTheTruth ==
    status = "mounted" /\ ~overlapped =>
        \A w \in undisturbed :
            LET i == job[w].index IN
            /\ pc[w] = "listSend" =>
                 /\ job[w].boxes_listed = Cardinality(ListedIn(0 .. i - 1))
                 /\ job[w].last <=> ListedIn(i + 1 .. MAX_DIR_ENTRIES - 1) = {}
            /\ pc[w] = "listNext" => ListedIn(i .. MAX_DIR_ENTRIES - 1) # {}

\* It stops short of the last record, for which the manager then waits for
\* ever, only when no file can be opened or the manager is gone.
ListingStopsShort ==
    [][\A w \in undisturbed :
          pc[w] = "listNext" /\ pc'[w] = "idle" /\ ~overlapped
          => T!NoneFree(free_open_file_entries)]_vars

\* Somebody has unlinked the box of w, or written a message to it, and is about
\* to broadcast.
HasNews(w) ==
    \E v \in Workers :
        /\ pc[v] \in {"removeList", "removePublishers", "removeSubscribers",
                      "removeActive", "removeActivated", "pubCloseBox"}
        /\ job[v].name = job[w].name

\* A subscriber that sleeps when its box is removed or gets a message is woken,
\* whether or not the reply to the manager can be sent.  What is broadcast just
\* before it sleeps, after it has found the box empty, wakes nobody
\* (mbroker.c:204-210): that is why it has to be asleep.
SleepersAreWoken ==
    \A w \in Workers :
        pc[w] = "subWaiting" /\ HasNews(w)
        ~> pc[w] # "subWaiting" \/ status = "aborted"

-----------------------------------------------------------------------------
(* What the code, its comments and its documents say, and does not hold    *)

\* data_block_get's assertion, state.c:449: a block somebody reads is a block.
\* A subscriber's handle outlives its box, and a new box gets its inode.
NoAssertionFails == status # "aborted"
=============================================================================
