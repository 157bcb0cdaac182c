------------------------------ MODULE Sessions ------------------------------
(***************************************************************************)
(* A publisher, a subscriber and the two workers that serve them, over     *)
(* their named pipes and one box: pub.c, sub.c, and connect_publisher and  *)
(* connect_subscriber of mbroker.c, in projeto-2.                          *)
(*                                                                         *)
(* The opening of a pipe blocks until the other end is opened, a write to  *)
(* a pipe without reader ends a client with SIGPIPE, a read of an empty    *)
(* pipe without writer returns 0.  The publisher's pipe is a stream: one   *)
(* byte for a test, then records of 1026 bytes, and the broker reads up to *)
(* 1026 bytes wherever it stands.  A message is the number of the record   *)
(* it comes from and what a shift made of it.  Handles, counts and boxes   *)
(* that share an inode are left to Broker.                                 *)
(***************************************************************************)
EXTENDS Integers, Sequences, SequencesExt

CONSTANTS
    Lengths,       \* of the lines a user may type, in characters
    MaxMessages,   \* bound: lines typed
    Descriptors    \* how many more files the subscriber may open

\* pub.c has an array of 1024 for a line and its end, and no test.
ASSUME SessionsAssumption ==
    /\ Lengths \subseteq 0 .. 1023
    /\ MaxMessages \in Nat /\ Descriptors \in Nat

VARIABLES
    pub,            \* where the publisher stands
    typed,          \* the length of each line it wrote into its pipe
    tested,         \* it wrote the byte for the test
    pubWorker,      \* where connect_publisher stands
    taken,          \* how many bytes of the pipe it has read
    message,        \* its message_to_write
    removal,        \* where remove_box stands
    box,            \* the messages in the box, oldest first
    size,           \* how many bytes they take
    subWorker,      \* where connect_subscriber stands
    position,       \* how many messages its handle has read
    buffer,         \* those it read last
    woken,          \* write_cond was broadcast while it waited
    sent,           \* the records in the subscriber's pipe, read ones too
    named,          \* the subscriber's pipe has its name
    sub,            \* where the subscriber stands
    received,       \* how many records it has read
    spare,          \* descriptors it has left
    printed,        \* the messages it printed
    message_count

pubVars == <<pub, typed, tested>>
pubWorkerVars == <<pubWorker, taken, message>>
boxVars == <<removal, box, size>>
subWorkerVars == <<subWorker, position, buffer, woken, sent>>
subVars == <<sub, received, spare, printed, message_count>>
vars == <<pubVars, pubWorkerVars, boxVars, subWorkerVars, named, subVars>>

-----------------------------------------------------------------------------
(* Messages                                                                *)

Record   == 1026                     \* sizeof(encoded_message)
BoxBytes == 1024                     \* TFS_BLOCK_SIZE

\* A message begins `from' characters into the line it was typed in; -1 when
\* the bar in front of the line belongs to it.  It takes so many bytes of a
\* file, the end of the string included.
Nothing == [line |-> 0, from |-> 0, bytes |-> 0]

Available == (IF tested THEN 1 ELSE 0) + Record * Len(typed) - taken

\* prot_decode_message after a read of n bytes: the string that begins with
\* the third of them, in an array that is zero behind them.
Decoded(n) ==
    LET third == taken + 1              \* counted from behind the test
        line  == third \div Record + 1
        from  == (third % Record) - 2
    IN IF n <= 2 \/ from >= typed[line] THEN Nothing
       ELSE [line |-> line, from |-> from, bytes |-> typed[line] - from + 1]

Least(a, b) == IF a < b THEN a ELSE b

-----------------------------------------------------------------------------

Exists == removal # "done"

\* Somebody has the other end open.
PubReader == pubWorker \in {"refused", "reading", "storing"}
PubWriter == pub \in {"testing", "typing"}
SubWriter == subWorker \in {"probing", "reading", "empty", "waiting", "sending", "closing"}
SubReader == sub \in {"reading", "reopening", "stuck"}

Init ==
    /\ pub = "asked" /\ typed = <<>> /\ tested = FALSE
    /\ pubWorker = "idle" /\ taken = 0 /\ message = Nothing
    /\ removal = "none" /\ box = <<>> /\ size = 0
    /\ subWorker = "idle" /\ position = 0 /\ buffer = <<>> /\ woken = FALSE /\ sent = <<>>
    /\ named = TRUE
    /\ sub = "asked" /\ received = 0 /\ spare = Descriptors
    /\ printed = <<>> /\ message_count = 0

(* The publisher and its worker                                            *)

\* get_box_index, and the test of publishers, where another may be counted
FindForPublisher ==
    /\ pubWorker = "idle"
    /\ \/ Exists /\ pubWorker' = "opening"
       \/ pubWorker' = "refusing"
    /\ UNCHANGED <<pubVars, taken, message, boxVars, subWorkerVars, named, subVars>>

\* Both ends of the publisher's pipe are being opened.
PublisherPipeOpens ==
    /\ pub = "asked" /\ pubWorker \in {"opening", "refusing"}
    /\ pub' = "testing"
    /\ pubWorker' = IF pubWorker = "opening" THEN "reading" ELSE "refused"
    /\ UNCHANGED <<typed, tested, taken, message, boxVars, subWorkerVars, named, subVars>>

RefusePublisher ==
    /\ pubWorker = "refused" /\ pubWorker' = "left"
    /\ UNCHANGED <<pubVars, taken, message, boxVars, subWorkerVars, named, subVars>>

\* write(session_pipe, "", 1)
TestPipe ==
    /\ pub = "testing"
    /\ IF PubReader THEN pub' = "typing" /\ tested' = TRUE
       ELSE pub' = "gone" /\ UNCHANGED tested
    /\ UNCHANGED <<typed, pubWorkerVars, boxVars, subWorkerVars, named, subVars>>

TypeLine ==
    /\ pub = "typing" /\ Len(typed) < MaxMessages
    /\ IF PubReader
       THEN \E length \in Lengths : typed' = Append(typed, length) /\ UNCHANGED pub
       ELSE pub' = "gone" /\ UNCHANGED typed
    /\ UNCHANGED <<tested, pubWorkerVars, boxVars, subWorkerVars, named, subVars>>

\* SIGINT, or the end of what is typed, at which main returns
QuitPublisher ==
    /\ pub \in {"asked", "testing", "typing"} /\ pub' = "gone"
    /\ UNCHANGED <<typed, tested, pubWorkerVars, boxVars, subWorkerVars, named, subVars>>

\* Mutation: encoded_message and message_to_write are not cleared.
ReadUncleared ==
    /\ pubWorker = "reading"
    /\ \/ /\ Available > 0
          /\ LET n == Least(Record, Available) IN
             /\ taken' = taken + n
             /\ message' = IF n <= 2 THEN message ELSE Decoded(n)
          /\ pubWorker' = "storing"
       \/ /\ Available = 0 /\ ~PubWriter
          /\ pubWorker' = "done" /\ UNCHANGED <<taken, message>>
    /\ UNCHANGED <<pubVars, boxVars, subWorkerVars, named, subVars>>

\* Mutation: a read of TFS_BLOCK_SIZE bytes.
ReadBlock ==
    /\ pubWorker = "reading"
    /\ \/ /\ Available > 0
          /\ LET n == Least(BoxBytes, Available) IN
             taken' = taken + n /\ message' = Decoded(n)
          /\ pubWorker' = "storing"
       \/ /\ Available = 0 /\ ~PubWriter
          /\ pubWorker' = "done" /\ UNCHANGED <<taken, message>>
    /\ UNCHANGED <<pubVars, boxVars, subWorkerVars, named, subVars>>

\* Mutation: a read of 0 bytes is taken for an empty message.
ReadOn ==
    /\ pubWorker = "reading"
    /\ Available > 0 \/ ~PubWriter
    /\ LET n == Least(Record, Available) IN
       taken' = taken + n /\ message' = Decoded(n)
    /\ pubWorker' = "storing"
    /\ UNCHANGED <<pubVars, boxVars, subWorkerVars, named, subVars>>

\* memset, read and decode; at the end of the stream, close.
ReadMessage ==
    /\ pubWorker = "reading"
    /\ \/ /\ Available > 0
          /\ LET n == Least(Record, Available) IN
             taken' = taken + n /\ message' = Decoded(n)
          /\ pubWorker' = "storing"
       \/ /\ Available = 0 /\ ~PubWriter
          /\ pubWorker' = "done" /\ UNCHANGED <<taken, message>>
    /\ UNCHANGED <<pubVars, boxVars, subWorkerVars, named, subVars>>

Broadcast == woken' = (woken \/ subWorker = "waiting")

\* write_in_box: nothing for an empty message or without the box, and no more
\* than there is room for.
write_in_box ==
    LET kept == [message EXCEPT !.bytes = Least(@, BoxBytes - size)] IN
    IF Exists /\ kept.bytes > 0
    THEN box' = Append(box, kept) /\ size' = size + kept.bytes
    ELSE UNCHANGED <<box, size>>

StoreMessage ==
    /\ pubWorker = "storing"
    /\ write_in_box
    /\ Broadcast
    /\ pubWorker' = "reading"
    /\ UNCHANGED <<pubVars, taken, message, removal, subWorker, position, buffer, sent,
                   named, subVars>>

(* The box is removed; no publisher is connected when that is tested       *)

TestRemoval ==
    /\ removal = "none" /\ pubWorker \notin {"opening", "reading", "storing"}
    /\ removal' = "tested"
    /\ UNCHANGED <<pubVars, pubWorkerVars, box, size, subWorkerVars, named, subVars>>

RemoveBox ==
    /\ removal = "tested" /\ removal' = "done"
    /\ Broadcast
    /\ UNCHANGED <<pubVars, pubWorkerVars, box, size, subWorker, position, buffer, sent,
                   named, subVars>>

(* The subscriber and its worker                                           *)

WorkerGoes(from, to) == subWorker = from /\ subWorker' = to

FindForSubscriber ==
    /\ WorkerGoes("idle", IF Exists THEN "opening" ELSE "refusing")
    /\ UNCHANGED <<pubVars, pubWorkerVars, boxVars, position, buffer, woken, sent, named,
                   subVars>>

SubscriberPipeOpens ==
    /\ sub = "asked" /\ subWorker \in {"opening", "refusing"}
    /\ sub' = "reading"
    /\ subWorker' = IF subWorker = "opening" THEN "probing" ELSE "closing"
    /\ UNCHANGED <<pubVars, pubWorkerVars, boxVars, position, buffer, woken, sent, named,
                   received, spare, printed, message_count>>

\* Is the box still there, and somebody who reads the pipe of this name?
Probe ==
    /\ WorkerGoes("probing", IF Exists /\ named /\ SubReader THEN "reading" ELSE "closing")
    /\ UNCHANGED <<pubVars, pubWorkerVars, boxVars, position, buffer, woken, sent, named,
                   subVars>>

\* Mutation: the box is read by the handle it was just probed with.
ReadBoxFromStart ==
    /\ subWorker = "reading"
    /\ IF position < Len(box)
       THEN subWorker' = "sending" /\ position' = Len(box) /\ buffer' = box
       ELSE subWorker' = "empty" /\ UNCHANGED <<position, buffer>>
    /\ UNCHANGED <<pubVars, pubWorkerVars, boxVars, woken, sent, named, subVars>>

\* Mutation: a box without new messages ends the session.
ReadBoxOrLeave ==
    /\ subWorker = "reading"
    /\ IF position < Len(box)
       THEN /\ subWorker' = "sending" /\ position' = Len(box)
            /\ buffer' = SubSeq(box, position + 1, Len(box))
       ELSE subWorker' = "closing" /\ UNCHANGED <<position, buffer>>
    /\ UNCHANGED <<pubVars, pubWorkerVars, boxVars, woken, sent, named, subVars>>

\* tfs_read takes all the messages that are new.
ReadBox ==
    /\ subWorker = "reading"
    /\ IF position < Len(box)
       THEN /\ subWorker' = "sending" /\ position' = Len(box)
            /\ buffer' = SubSeq(box, position + 1, Len(box))
       ELSE subWorker' = "empty" /\ UNCHANGED <<position, buffer>>
    /\ UNCHANGED <<pubVars, pubWorkerVars, boxVars, woken, sent, named, subVars>>

\* Between the read and the wait nothing keeps a broadcast from being missed.
Wait ==
    /\ WorkerGoes("empty", "waiting") /\ woken' = FALSE
    /\ UNCHANGED <<pubVars, pubWorkerVars, boxVars, position, buffer, sent, named, subVars>>

Wake ==
    /\ woken /\ WorkerGoes("waiting", "probing") /\ woken' = FALSE
    /\ UNCHANGED <<pubVars, pubWorkerVars, boxVars, position, buffer, sent, named, subVars>>

SendMessages ==
    /\ WorkerGoes("sending", IF SubReader THEN "probing" ELSE "closing")
    /\ sent' = IF SubReader THEN Append(sent, buffer) ELSE sent
    /\ UNCHANGED <<pubVars, pubWorkerVars, boxVars, position, buffer, woken, named, subVars>>

ClosePipe ==
    /\ WorkerGoes("closing", "unlinking")
    /\ UNCHANGED <<pubVars, pubWorkerVars, boxVars, position, buffer, woken, sent, named,
                   subVars>>

UnlinkPipe ==
    /\ WorkerGoes("unlinking", "done") /\ named' = FALSE
    /\ UNCHANGED <<pubVars, pubWorkerVars, boxVars, position, buffer, woken, sent, subVars>>

\* A subscriber that leaves takes the name of its pipe along.
ReadRecord ==
    /\ sub = "reading"
    /\ \/ /\ received < Len(sent)
          /\ received' = received + 1 /\ sub' = "reopening" /\ UNCHANGED named
       \/ /\ received = Len(sent) /\ ~SubWriter
          /\ sub' = "left" /\ named' = FALSE /\ UNCHANGED received
    /\ UNCHANGED <<pubVars, pubWorkerVars, boxVars, subWorkerVars, spare, printed,
                   message_count>>

\* Mutation: a record is one message.
PrintCountingRecords(record) ==
    /\ printed' = printed \o record
    /\ message_count' = message_count + 1

\* The messages of a record are the lines of one string; the last byte that
\* was read from the box is made its end.
PrintLines(record) ==
    LET string_is_empty == Len(record) = 1 /\ record[1].bytes = 1 IN
    /\ printed' = printed \o record
    /\ message_count' = message_count + (IF string_is_empty THEN 0 ELSE Len(record))

\* The pipe is opened by its name once more, to see whether it is there, and
\* never closed: without the name or a descriptor the record is dropped, with
\* the name and no writer the call does not return.
ReopenPipe ==
    /\ sub = "reopening"
    /\ \/ /\ named /\ spare > 0 /\ SubWriter
          /\ PrintLines(sent[received])
          /\ sub' = "reading" /\ spare' = spare - 1 /\ UNCHANGED named
       \/ /\ named /\ spare > 0 /\ ~SubWriter
          /\ sub' = "stuck" /\ UNCHANGED <<spare, printed, message_count, named>>
       \/ /\ ~named \/ spare = 0
          /\ sub' = "left" /\ named' = FALSE
          /\ UNCHANGED <<spare, printed, message_count>>
    /\ UNCHANGED <<pubVars, pubWorkerVars, boxVars, subWorkerVars, received>>

\* SIGINT: the pipe is unlinked when it had been opened.
QuitSubscriber ==
    /\ sub \in {"asked", "reading", "reopening", "stuck"}
    /\ sub' = "quit"
    /\ named' = (named /\ sub = "asked")
    /\ UNCHANGED <<pubVars, pubWorkerVars, boxVars, subWorkerVars, received, spare, printed,
                   message_count>>

-----------------------------------------------------------------------------

PubWorkerSteps ==
    FindForPublisher \/ RefusePublisher \/ ReadMessage \/ StoreMessage

SubWorkerSteps ==
    \/ FindForSubscriber \/ Probe \/ ReadBox \/ Wait \/ Wake \/ SendMessages
    \/ ClosePipe \/ UnlinkPipe

Next ==
    \/ PubWorkerSteps \/ SubWorkerSteps
    \/ PublisherPipeOpens \/ TestPipe \/ TypeLine \/ QuitPublisher
    \/ SubscriberPipeOpens \/ ReadRecord \/ ReopenPipe \/ QuitSubscriber
    \/ TestRemoval \/ RemoveBox

Spec == Init /\ [][Next]_vars

\* The scheduler lets the workers run; users need do nothing.
FairSpec == Spec /\ WF_vars(PubWorkerSteps) /\ WF_vars(SubWorkerSteps)

-----------------------------------------------------------------------------

\* The box holds the lines of the publisher in the order in which they were
\* typed, each at most once, however the broker's reads cut the stream
\* (mbroker.c:130-144).  The byte for the test (pub.c:97) may be read with the
\* first record; then messages keep the bar of their record, but lose no
\* character to it, and once one is as it was typed all that follow are.
StoredAsTyped ==
    /\ \A i, j \in DOMAIN box : i < j => box[i].line < box[j].line
    /\ \A i \in DOMAIN box : box[i].from \in {-1, 0}
    /\ \A i, j \in DOMAIN box : i < j => box[i].from <= box[j].from

\* When the publisher has gone and its worker with it, nothing of what it
\* typed is missing, if there is a box and room in it: no line is left in the
\* pipe by a shifted read, and only empty lines are dropped.
NothingLeftInThePipe ==
    pubWorker = "done" /\ removal = "none" /\ size < BoxBytes =>
        \A k \in DOMAIN typed : typed[k] > 0 => \E i \in DOMAIN box : box[i].line = k

\* A subscriber prints what is in the box from its beginning, in order and
\* without gaps, whenever it came and left and however many messages were sent
\* to it as one; and the number it prints when it ends (sub.c:108-113) is that
\* of the messages it printed, unless the box is full and cut its last one short.
PrintedAsStored ==
    /\ IsPrefix(printed, box)
    /\ message_count # Len(printed) =>
          size = BoxBytes /\ message_count = Len(printed) - 1

\* A subscriber that was not interrupted neither leaves nor hangs, nor drops a
\* message it was sent, as long as the box is there and it can open files
\* (sub.c:97, mbroker.c:185-199).
OnlyRemovalEndsASession ==
    sub \in {"left", "stuck"} => ~Exists \/ spare = 0

\* The worker of a publisher that is gone, whether it ended, was interrupted
\* or was killed by SIGPIPE, is free again.
PublisherReleasesWorker ==
    PubReader /\ pub = "gone" ~> pubWorker \in {"left", "done"}
=============================================================================
