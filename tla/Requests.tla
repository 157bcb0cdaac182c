------------------------------ MODULE Requests ------------------------------
(***************************************************************************)
(* Requests and replies on their way, byte by byte: the clients' sides of  *)
(* projeto-2 (manager.c, and the registrations of pub.c and sub.c), main   *)
(* and thread_manager of mbroker.c, and the records of WireProtocol.       *)
(*                                                                         *)
(* A write to a pipe of up to 1031 bytes is atomic (PIPE_BUF), a read      *)
(* takes what is there, up to what it asks for.  What the broker answers   *)
(* is a choice here; Broker is about that.  Each client makes one request, *)
(* and its own name is the path of its pipe.                               *)
(*                                                                         *)
(* The queue between main and the workers is as PcQueue leaves it in the   *)
(* optimised build: the k-th element goes to the k-th dequeue, but the     *)
(* worker copies it from its slot later, without a lock, and the slot may  *)
(* have been written again.                                                *)
(***************************************************************************)
EXTENDS Integers, Sequences, FiniteSets

CONSTANTS
    Workers,          \* threads the broker may be told to start
    Clients,
    Boxes,            \* names of boxes
    LongNames,        \* those as long as their array allows; others are short
    Sizes,            \* bytes a listed box may hold
    MaxListed,        \* bound: boxes in a listing
    Message,          \* the text of an error
    Nul, Bar, Stray,
    None              \* no text, no answer

ASSUME RequestsAssumption ==
    /\ Clients \cap Boxes = {} /\ Message \notin Clients \cup Boxes
    /\ LongNames \subseteq Clients \cup Boxes
    /\ MaxListed \in Nat
    /\ None \notin Clients
    /\ \A v \in Clients \cup Boxes \cup {Message} : <<v, 0>> \notin {Nul, Stray}

VARIABLES
    pc,             \* where each client stands
    register_pipe,  \* the bytes in the broker's pipe
    threads,        \* the workers it starts, as many as the queue has slots
    elements,       \* what main has put into the queue, from the first on
    taken,          \* which element each worker has dequeued and not copied yet
    session_pipe,   \* the bytes in each client's pipe
    listing,        \* records list_boxes has still to write to each
    last,           \* the local of each manager
    asked,          \* history: the requests in the order they were written
    served,         \* history: what each dequeued element was decoded as
    overtaken,      \* history: those copied when their slot was written again
    answered,       \* history: the return code the broker sent each manager
    listed,         \* history: the boxes it listed to each
    errors,         \* the error texts each manager printed
    rows            \* the lines each manager printed

answerVars  == <<listing, answered, listed>>
workerVars  == <<threads, taken, served, overtaken>>
brokerVars  == <<elements, workerVars, answerVars>>
managerVars == <<last, errors, rows>>
vars == <<pc, register_pipe, session_pipe, asked, brokerVars, managerVars>>

W == INSTANCE WireProtocol

Codes == {1, 2, 3, 5, 7}      \* publish, subscribe, create, remove, list
ReturnCodes == {0, -1}
Box == [name : Boxes, size : Sizes, publishers : {0, 1}, subscribers : {2}]

Register == 291               \* sizeof(encoded) of every client, and of main's
Element  == 1026              \* of a slot of the queue
Reply    == 1030
Row      == 63

-----------------------------------------------------------------------------
(* C strings and buffers                                                   *)

strlen(text, n) == IF text \in LongNames THEN n - 1 ELSE 3

\* n bytes from where a string begins
String(text, n) ==
    [k \in 0 .. n - 1 |-> IF k < strlen(text, n) THEN W!Part(text, k)
                          ELSE IF k = strlen(text, n) THEN Nul ELSE Stray]

\* The string in an array, None if it is none that anybody uses
Spells(array, text, n) ==
    \A k \in 0 .. strlen(text, n) : array[k] = String(text, n)[k]
Text(array, Texts, n) ==
    IF \E t \in Texts : Spells(array, t, n)
    THEN CHOOSE t \in Texts : Spells(array, t, n)
    ELSE None

Unset(n) == [k \in 0 .. n - 1 |-> Stray]
NoNames  == [pipe_path |-> Unset(256), box_name |-> Unset(32)]

\* write of a whole array, and an array after a read of up to n bytes
write(pipe, array, n) == pipe \o [k \in 1 .. n |-> array[k - 1]]
Least(a, b) == IF a < b THEN a ELSE b
read(pipe, array, n) ==
    [k \in 0 .. n - 1 |-> IF k < Len(pipe) THEN pipe[k + 1] ELSE array[k]]
Taken(pipe, n) == SubSeq(pipe, Least(n, Len(pipe)) + 1, Len(pipe))

-----------------------------------------------------------------------------

Init ==
    /\ pc = [c \in Clients |-> "start"]
    /\ register_pipe = <<>> /\ elements = <<>>
    /\ threads \in SUBSET Workers \ {{}}
    /\ taken = [w \in Workers |-> 0]
    /\ session_pipe = [c \in Clients |-> <<>>]
    /\ listing = [c \in Clients |-> <<>>]
    /\ last = [c \in Clients |-> Stray]
    /\ asked = <<>> /\ served = <<>> /\ overtaken = {}
    /\ answered = [c \in Clients |-> None]
    /\ listed = [c \in Clients |-> <<>>]
    /\ errors = [c \in Clients |-> {}]
    /\ rows = [c \in Clients |-> <<>>]

\* What a client with this path asks, in an array of `size' bytes.
Request(code, path, box, size) ==
    LET p == String(path, 256)
        b == String(box, 32)
        encoded == Unset(size)
    IN CASE code = 1 -> W!prot_encode_pub_registration(p, b, encoded, size)
         [] code = 2 -> W!prot_encode_sub_registration(p, b, encoded, size)
         [] code = 3 -> W!prot_encode_inbox_creation_req(p, b, encoded, size)
         [] code = 5 -> W!prot_encode_inbox_removal_req(p, b, encoded, size)
         [] code = 7 -> W!prot_encode_inbox_listing_req(p, encoded, size)

\* Mutation: a request is written as long as its record is.
AskRecord(c, code, box) ==
    /\ pc[c] = "start"
    /\ pc' = [pc EXCEPT ![c] = IF code \in {1, 2} THEN "session"
                               ELSE IF code = 7 THEN "list" ELSE "reply"]
    /\ LET size == IF code = 7 THEN 258 ELSE Register IN
       register_pipe' = write(register_pipe, Request(code, c, box, size), size)
    /\ asked' = Append(asked, [code |-> code, path |-> c,
                               box |-> IF code = 7 THEN None ELSE box])
    /\ UNCHANGED <<session_pipe, brokerVars, managerVars>>

\* All of encoded is written, also behind a shorter record.
Ask(c, code, box) ==
    /\ pc[c] = "start"
    /\ pc' = [pc EXCEPT ![c] = IF code \in {1, 2} THEN "session"
                               ELSE IF code = 7 THEN "list" ELSE "reply"]
    /\ register_pipe' =
          write(register_pipe, Request(code, c, box, Register), Register)
    /\ asked' = Append(asked, [code |-> code, path |-> c,
                               box |-> IF code = 7 THEN None ELSE box])
    /\ UNCHANGED <<session_pipe, brokerVars, managerVars>>

\* main: memset, read, enqueue.  pcq_enqueue copies 1026 bytes of the 291.  It
\* waits for as long as the queue counts as full, but the count may be one that
\* a dequeue has stored over it (PcQueue): here it never has to.
MainReads ==
    /\ register_pipe # <<>>
    /\ LET encoded == read(register_pipe, [k \in 0 .. Register - 1 |-> Nul], Register)
       IN elements' = Append(elements, encoded)
    /\ register_pipe' = Taken(register_pipe, Register)
    /\ UNCHANGED <<pc, session_pipe, asked, workerVars, answerVars, managerVars>>

Nothing == [code |-> 0, path |-> None, box |-> None]   \* not decoded

\* pcq_dequeue: the worker gets the address of the slot.
WorkerDequeues(w) ==
    /\ w \in threads /\ taken[w] = 0
    /\ Len(served) < Len(elements)
    /\ taken' = [taken EXCEPT ![w] = Len(served) + 1]
    /\ served' = Append(served, Nothing)
    /\ UNCHANGED <<pc, register_pipe, session_pipe, asked, elements, threads,
                   overtaken, answerVars, managerVars>>

Capacity == Cardinality(threads)   \* both are max_sessions

\* The elements that were put into the slot of the k-th behind it
Later(k) == {j \in k + 1 .. Len(elements) : (j - k) % Capacity = 0}

\* What memcpy may find in that slot: the element, or bytes of the later ones
\* too, any field of any of them or with bytes of several in it.
Copies(k) ==
    IF Later(k) = {} THEN {elements[k]}
    ELSE LET slot == {elements[j] : j \in {k} \cup Later(k)}
             torn == Unset(Register)
         IN {[i \in 0 .. Register - 1 |->
                 IF i < 2 THEN e[1][i] ELSE IF i < 258 THEN e[2][i] ELSE e[3][i]] :
             e \in slot \X (slot \cup {torn}) \X (slot \cup {torn})}

\* The names a worker decodes from its copy of an element
Decoded(code, encoded) ==
    IF code = 7
    THEN W!prot_decode_inbox_listing_req(NoNames, encoded, Element)
    ELSE W!prot_decode_registrations(NoNames, encoded, Element)

\* The reply of create_box and remove_box, who both send a creation's.
ReplyTo(return_code) ==
    LET error_message ==
            IF return_code = -1 THEN String(Message, 1024) ELSE Unset(1024)
    IN W!prot_encode_inbox_creation_resp(return_code, error_message, Unset(Reply), Reply)

\* Mutation: the last record is not marked when there are boxes.
RowsUnmarked(boxes) ==
    IF boxes = <<>>
    THEN << W!prot_encode_inbox_listing_resp(1, [k \in 0 .. 31 |-> Nul], 0, 0, 0,
                                             Unset(Row), Row) >>
    ELSE [i \in DOMAIN boxes |->
            W!prot_encode_inbox_listing_resp(
                0, String(boxes[i].name, 32), boxes[i].size,
                boxes[i].subscribers, boxes[i].publishers, Unset(Row), Row)]

\* The records of list_boxes, when nothing disturbs it
Rows(boxes) ==
    IF boxes = <<>>
    THEN << W!prot_encode_inbox_listing_resp(1, [k \in 0 .. 31 |-> Nul], 0, 0, 0,
                                             Unset(Row), Row) >>
    ELSE [i \in DOMAIN boxes |->
            W!prot_encode_inbox_listing_resp(
                IF i = Len(boxes) THEN 1 ELSE 0, String(boxes[i].name, 32),
                boxes[i].size, boxes[i].subscribers, boxes[i].publishers,
                Unset(Row), Row)]

\* What the worker does with a request of client c: sessions go on elsewhere.
Serve(c, code) ==
    \/ code \in {1, 2} /\ UNCHANGED <<session_pipe, answerVars>>
    \/ /\ code \in {3, 5}
       /\ \E return_code \in ReturnCodes :
             /\ answered' = [answered EXCEPT ![c] = return_code]
             /\ session_pipe' =
                   [session_pipe EXCEPT ![c] = write(@, ReplyTo(return_code), Reply)]
       /\ UNCHANGED <<listing, listed>>
    \/ /\ code = 7
       /\ \E boxes \in UNION {[1 .. n -> Box] : n \in 0 .. MaxListed} :
             /\ \A i, j \in DOMAIN boxes : i # j => boxes[i].name # boxes[j].name
             /\ listed' = [listed EXCEPT ![c] = boxes]
             /\ listing' = [listing EXCEPT ![c] = Rows(boxes)]
       /\ UNCHANGED <<session_pipe, answered>>

\* thread_manager: copy, switch, decode, serve.  A path of no pipe and a code
\* of no request end the session.
WorkerServes(w) ==
    /\ taken[w] # 0
    /\ taken' = [taken EXCEPT ![w] = 0]
    /\ overtaken' = overtaken \cup {k \in {taken[w]} : Later(k) # {}}
    /\ \E element \in Copies(taken[w]) :
          LET encoded == W!Copied(element, 0, Element)
              codes   == {x \in Codes : encoded[0] = W!int8(x)}
          IN IF codes = {}
             THEN UNCHANGED <<session_pipe, answerVars, served>>
             ELSE LET code  == CHOOSE x \in codes : TRUE
                      names == Decoded(code, encoded)
                      path  == Text(names.pipe_path, Clients, 256)
                      box   == Text(names.box_name, Boxes, 32)
                  IN /\ served' = [served EXCEPT ![taken[w]] =
                                      [code |-> code, path |-> path, box |-> box]]
                     /\ IF path = None THEN UNCHANGED <<session_pipe, answerVars>>
                        ELSE Serve(path, code)
    /\ UNCHANGED <<pc, register_pipe, asked, elements, threads, managerVars>>

\* list_boxes writes its records one by one.
SendRow(c) ==
    /\ listing[c] # <<>>
    /\ session_pipe' =
          [session_pipe EXCEPT ![c] = write(@, Head(listing[c]), Row)]
    /\ listing' = [listing EXCEPT ![c] = Tail(@)]
    /\ UNCHANGED <<pc, register_pipe, elements, asked, workerVars, answered, listed,
                   managerVars>>

\* manager create, manager remove: one read, decode, print
ReadReply(c) ==
    /\ pc[c] = "reply" /\ session_pipe[c] # <<>>
    /\ LET encoded_response == read(session_pipe[c], Unset(Reply), Reply)
           reply == W!prot_decode_inbox_response(
                        [return_code |-> Unset(4), error_message |-> Unset(1024)],
                        encoded_response, Reply)
       IN errors' = [errors EXCEPT ![c] =
            IF reply.return_code = W!int32(-1)
            THEN {Text(reply.error_message, {Message}, 1024)} ELSE {}]
    /\ session_pipe' = [session_pipe EXCEPT ![c] = Taken(@, Reply)]
    /\ pc' = [pc EXCEPT ![c] = "done"]
    /\ UNCHANGED <<register_pipe, asked, brokerVars, last, rows>>

\* manager list opens its pipe; `last' is tested before anything is stored
\* there, and when it happens to be 1 the answer is not read.
StartListing(c) ==
    /\ pc[c] = "list"
    /\ \E v \in {0, 1} :
          /\ last' = [last EXCEPT ![c] = W!int8(v)]
          /\ pc' = [pc EXCEPT ![c] = IF v = 1 THEN "left" ELSE "listing"]
    /\ UNCHANGED <<register_pipe, session_pipe, asked, brokerVars, errors, rows>>

ReadRow(c) ==
    /\ pc[c] = "listing" /\ last[c] # W!int8(1) /\ session_pipe[c] # <<>>
    /\ LET encoded_response == read(session_pipe[c], Unset(Row), Row)
           row == W!prot_decode_inbox_listing_resp([last |-> last[c]], encoded_response, Row)
       IN /\ last' = [last EXCEPT ![c] = row.last]
          /\ IF row.last = W!int8(1) /\ row.box_name[0] = Nul
             THEN UNCHANGED rows
             ELSE rows' = [rows EXCEPT ![c] = Append(@,
                     [name          |-> Text(row.box_name, Boxes, 32),
                      size          |-> row.box_size,
                      n_publishers  |-> row.n_publishers,
                      n_subscribers |-> row.n_subscribers])]
    /\ session_pipe' = [session_pipe EXCEPT ![c] = Taken(@, Row)]
    /\ UNCHANGED <<pc, register_pipe, asked, brokerVars, errors>>

EndListing(c) ==
    /\ pc[c] = "listing" /\ last[c] = W!int8(1)
    /\ pc' = [pc EXCEPT ![c] = "done"]
    /\ UNCHANGED <<register_pipe, session_pipe, asked, brokerVars, managerVars>>

Next ==
    \/ \E c \in Clients, code \in Codes, box \in Boxes : Ask(c, code, box)
    \/ MainReads
    \/ \E w \in Workers : WorkerDequeues(w) \/ WorkerServes(w)
    \/ \E c \in Clients :
          SendRow(c) \/ ReadReply(c) \/ StartListing(c) \/ ReadRow(c) \/ EndListing(c)

Spec == Init /\ [][Next]_vars

-----------------------------------------------------------------------------

\* The requests of several clients neither mix in the register pipe nor shift,
\* and each is decoded as it was asked, once and by one worker, whatever the
\* order the workers come to it: every record is written and read at one size,
\* whatever its own (pub.c:82, sub.c:80, manager.c:78-160, mbroker.c:566).  That
\* is all but those whose slot main had come round to before the worker copied
\* them (mbroker.c:467): they may be lost, and another decoded in their place.
RequestsArriveWhole ==
    /\ \A k \in DOMAIN served \ overtaken : served[k] \in {Nothing, asked[k]}
    /\ register_pipe = <<>> /\ Len(served) = Len(elements) /\ (\A w \in Workers : taken[w] = 0)
          => \A k \in DOMAIN asked \ overtaken : k \in DOMAIN served /\ served[k] = asked[k]

\* A manager prints an error if and only if the broker answered its request,
\* not another's, with -1, and it prints the text that was sent; as long as no
\* worker has decoded another's request in its place.
RepliesReachTheirManagers ==
    overtaken = {} =>
        \A c \in Clients : pc[c] = "done" /\ answered[c] # None =>
            errors[c] = IF answered[c] = -1 THEN {Message} ELSE {}

\* The line of a box: its name, its size, and its two counts in one order or
\* the other (the order is CountsInTheirColumns).
LineOf(row, box) ==
    /\ row.name = box.name
    /\ row.size = W!int64(box.size)
    /\ {row.n_publishers, row.n_subscribers}
          = {W!int64(box.publishers), W!int64(box.subscribers)}

\* A manager that waits for the record marked last prints every box it was
\* listed once, in order and with the numbers that were sent, and no other; and
\* it finds that record, also when there are no boxes: when the broker has
\* nothing left to do, no manager in its loop waits for one.  As above, as long
\* as no worker has decoded another's request.
ListingArrivesWhole ==
    overtaken = {} =>
    /\ \A c \in Clients :
        /\ Len(rows[c]) <= Len(listed[c])
        /\ \A i \in DOMAIN rows[c] : LineOf(rows[c][i], listed[c][i])
        /\ pc[c] = "done" => Len(rows[c]) = Len(listed[c])
    /\ register_pipe = <<>> /\ Len(served) = Len(elements)
       /\ (\A w \in Workers : taken[w] = 0) /\ (\A c \in Clients : listing[c] = <<>>) =>
        \A c \in Clients : pc[c] = "listing" /\ last[c] # W!int8(1) => session_pipe[c] # <<>>

\* What the format of the record says (wire_protocol.c:189), and the manager's
\* print with it (manager.c:193): first the publishers, then the subscribers.
\* list_boxes passes them the other way round (mbroker.c:445).
CountsInTheirColumns ==
    \A c \in Clients : \A i \in DOMAIN rows[c] :
        overtaken = {} /\ i <= Len(listed[c]) =>
            /\ rows[c][i].n_publishers = W!int64(listed[c][i].publishers)
            /\ rows[c][i].n_subscribers = W!int64(listed[c][i].subscribers)
=============================================================================
