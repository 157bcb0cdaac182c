--------------------------- MODULE RequestsProofs ---------------------------
(***************************************************************************)
(* Requests and replies arrive whole, for every number of clients, of      *)
(* boxes and of records in a listing.                                      *)
(***************************************************************************)
EXTENDS Requests, SequenceTheorems, TLAPS

-----------------------------------------------------------------------------
(* The inductive invariant                                                 *)

\* The line of a box with the counts as list_boxes passes them (mbroker.c:445)
Shown(box) == [name          |-> box.name,
               size          |-> W!int64(box.size),
               n_publishers  |-> W!int64(box.subscribers),
               n_subscribers |-> W!int64(box.publishers)]

\* What a byte can be: one of the three, or a part of a value.
Values == Clients \cup Boxes \cup {Message} \cup Sizes \cup (-1 .. 10)
Byte   == {Nul, Bar, Stray} \cup (Values \X Nat)
Array(n) == [0 .. n - 1 -> Byte]

RequestType ==
    [code : {1, 2, 3, 5}, path : Clients, box : Boxes]
      \cup [code : {7}, path : Clients, box : {None}]

Bytes(r) == Request(r.code, r.path, r.box, Register)

\* A pipe holds these records of n bytes and nothing else.
Holds(pipe, n, records) ==
    /\ Len(pipe) = n * Len(records)
    /\ \A j \in 1 .. Len(records) : \A k \in 0 .. n - 1 :
          pipe[n * (j - 1) + k + 1] = records[j][k]

\* What a worker makes of an element
Outcome == [code : Codes \cup {0}, path : Clients \cup {None}, box : Boxes \cup {None}]

QueueTypes ==
    /\ register_pipe \in Seq(Byte)
    /\ elements \in Seq(Array(Register))
    /\ taken \in [Workers -> Nat]
    /\ asked \in Seq(RequestType)
    /\ served \in Seq(Outcome)

ClientTypes ==
    /\ pc \in [Clients -> {"start", "session", "reply", "list", "listing", "left", "done"}]
    /\ session_pipe \in [Clients -> Seq(Byte)]
    /\ listing \in [Clients -> Seq(Array(Row))]
    /\ last \in [Clients -> {Stray, W!int8(0), W!int8(1)}]
    /\ answered \in [Clients -> ReturnCodes \cup {None}]
    /\ listed \in [Clients -> Seq(Box)]
    /\ errors \in [Clients -> SUBSET {Message}]
    /\ rows \in [Clients -> Seq({Shown(b) : b \in Box})]

Types == QueueTypes /\ ClientTypes

\* Where the client of a request with this code can stand.
After(code) == CASE code \in {1, 2} -> {"session"}
                 [] code = 7        -> {"list", "listing", "left", "done"}
                 [] OTHER           -> {"reply", "done"}

AskedOnce ==
    /\ \A i, j \in 1 .. Len(asked) : asked[i].path = asked[j].path => i = j
    /\ \A i \in 1 .. Len(asked) : pc[asked[i].path] \in After(asked[i].code)
    /\ \A c \in Clients : pc[c] # "start" =>
          \E i \in 1 .. Len(asked) : asked[i].path = c

\* The requests main has still to read.
Unread == [j \in 1 .. Len(asked) - Len(elements) |-> Bytes(asked[Len(elements) + j])]

\* Every request asked is an element or in the pipe, in this order; and each
\* element that was dequeued is decoded as it was asked, or one worker has still
\* to decode it, or its slot was written again.
InOrder ==
    /\ Len(served) <= Len(elements) /\ Len(elements) <= Len(asked)
    /\ \A i \in 1 .. Len(elements) : elements[i] = Bytes(asked[i])
    /\ Holds(register_pipe, Register, Unread)
    /\ \A i \in 1 .. Len(served) : i \in overtaken \/ served[i] \in {Nothing, asked[i]}
    /\ \A i \in 1 .. Len(served) :
          i \in overtaken \/ served[i] = asked[i] \/ \E w \in Workers : taken[w] = i
    /\ \A w \in Workers : taken[w] # 0 =>
          taken[w] \in 1 .. Len(served) /\ served[taken[w]] = Nothing
    /\ \A w, v \in Workers : taken[w] # 0 /\ taken[w] = taken[v] => w = v

ServedAs(c, codes) ==
    \E i \in 1 .. Len(served) : served[i].path = c /\ served[i].code \in codes

\* Nothing was sent to a client that is in a session or was not served.
Quiet(c) ==
    /\ session_pipe[c] = <<>> /\ listing[c] = <<>>
    /\ answered[c] = None /\ listed[c] = <<>> /\ rows[c] = <<>>
    /\ pc[c] # "done"
    /\ pc[c] = "listing" => last[c] = W!int8(0)

ReplySound(c) ==
    /\ listing[c] = <<>> /\ listed[c] = <<>> /\ rows[c] = <<>>
    /\ answered[c] \in ReturnCodes
    /\ IF pc[c] = "done"
       THEN /\ session_pipe[c] = <<>>
            /\ errors[c] = IF answered[c] = -1 THEN {Message} ELSE {}
       ELSE Holds(session_pipe[c], Reply, <<ReplyTo(answered[c])>>)

\* The records of its listing that a manager has read, and that were sent.
Read(c) ==
    IF listed[c] # <<>> THEN Len(rows[c])
    ELSE IF pc[c] \in {"listing", "done"} /\ last[c] = W!int8(1) THEN 1 ELSE 0
Sent(c) == Len(Rows(listed[c])) - Len(listing[c])

\* The elements of a sequence behind the first d, up to the s-th
Window(sequence, d, s) == [j \in 1 .. s - d |-> sequence[d + j]]

OnTheWay(c) == Window(Rows(listed[c]), Read(c), Sent(c))

ListingSound(c) ==
    /\ answered[c] = None
    /\ Read(c) <= Sent(c) /\ Sent(c) <= Len(Rows(listed[c]))
    /\ \A i \in 1 .. Len(listing[c]) : listing[c][i] = Rows(listed[c])[Sent(c) + i]
    /\ Holds(session_pipe[c], Row, OnTheWay(c))
    /\ Len(rows[c]) <= Len(listed[c])
    /\ \A i \in 1 .. Len(rows[c]) : rows[c][i] = Shown(listed[c][i])
    /\ pc[c] \in {"list", "left"} => Read(c) = 0
    /\ pc[c] = "listing" =>
          last[c] = W!int8(IF Read(c) = Len(Rows(listed[c])) THEN 1 ELSE 0)
    /\ pc[c] = "done" => Read(c) = Len(Rows(listed[c]))

ClientsSound ==
    \A c \in Clients :
       /\ ServedAs(c, {3, 5}) => ReplySound(c)
       /\ ServedAs(c, {7}) => ListingSound(c)
       /\ ~ServedAs(c, {3, 5, 7}) => Quiet(c)

\* The queue keeps its part whatever happens, the clients keep theirs for as
\* long as no element was decoded from a slot that was written again.
QueueInv   == QueueTypes /\ InOrder
ClientsInv == ClientTypes /\ AskedOnce /\ ClientsSound

Inv == QueueInv /\ (overtaken = {} => ClientsInv)

Sound == Types /\ InOrder /\ AskedOnce /\ ClientsSound /\ overtaken = {}

-----------------------------------------------------------------------------
(* Pipes that hold records                                                 *)

\* Record j of n bytes ends before record j + 1 begins.
LEMMA Places ==
    ASSUME NEW n \in Nat, NEW m \in Nat, NEW j \in 1 .. m
    PROVE  /\ n * (j - 1) \in Nat
           /\ n * (j - 1) + n = n * j
           /\ n * j <= n * m
<1>1. n * (j - 1) \in Nat /\ n * (j - 1) + n = n * j
  BY Z3
<1>2. PICK d \in Nat : m = j + d
  <2>1. m - j \in Nat /\ m = j + (m - j)
    OBVIOUS
  <2> QED
    BY <2>1
<1>3. n * m = n * j + n * d /\ n * d \in Nat /\ n * j \in Nat
  BY <1>2, Z3
<1> QED
  BY <1>1, <1>2, <1>3

LEMMA ReadsAnArray ==
    ASSUME NEW n \in Nat, NEW records, NEW j \in 1 .. Len(records), NEW k \in 0 .. n - 1,
           Len(records) \in Nat
    PROVE  n * (j - 1) + k + 1 \in 1 .. n * Len(records)
<1>1. n * (j - 1) \in Nat /\ n * (j - 1) + n = n * j /\ n * j <= n * Len(records)
  BY Places
<1> QED
  BY <1>1

\* A record written to a pipe is the last it holds.
LEMMA WriteAppends ==
    ASSUME NEW n \in Nat \ {0}, NEW pipe \in Seq(Byte), NEW records \in Seq(Array(n)),
           NEW record \in Array(n), Holds(pipe, n, records)
    PROVE  /\ write(pipe, record, n) \in Seq(Byte)
           /\ Holds(write(pipe, record, n), n, Append(records, record))
<1> DEFINE new == [k \in 1 .. n |-> record[k - 1]]
           pipe2 == write(pipe, record, n)
           m == Len(records)
<1>1. new \in Seq(Byte) /\ Len(new) = n
  BY DEF Array
<1>2. /\ pipe2 \in Seq(Byte)
      /\ Len(pipe2) = Len(pipe) + n
      /\ \A i \in 1 .. Len(pipe) : pipe2[i] = pipe[i]
      /\ \A i \in 1 .. n : pipe2[Len(pipe) + i] = new[i]
  BY <1>1 DEF write
<1>3. m \in Nat /\ Len(pipe) = n * m
  BY DEF Holds
<1>4. /\ Len(Append(records, record)) = m + 1
      /\ \A j \in 1 .. m : Append(records, record)[j] = records[j]
      /\ Append(records, record)[m + 1] = record
  OBVIOUS
<1>5. n * (m + 1) = n * m + n
  BY <1>3, Z3
<1>6. ASSUME NEW j \in 1 .. m + 1, NEW k \in 0 .. n - 1
      PROVE  pipe2[n * (j - 1) + k + 1] = Append(records, record)[j][k]
  <2>1. CASE j = m + 1
    <3>1. n * (j - 1) = Len(pipe)
      BY <2>1, <1>3
    <3>2. k + 1 \in 1 .. n /\ new[k + 1] = record[k]
      OBVIOUS
    <3>4. pipe2[Len(pipe) + (k + 1)] = record[k]
      BY <3>2, <1>2
    <3>3. Len(pipe) + (k + 1) = n * (j - 1) + k + 1
      BY <3>1, <1>3
    <3> QED
      BY <3>4, <3>3, <2>1, <1>4
  <2>2. CASE j \in 1 .. m
    <3>1. n * (j - 1) + k + 1 \in 1 .. Len(pipe)
      BY <2>2, <1>3, ReadsAnArray
    <3>2. pipe[n * (j - 1) + k + 1] = records[j][k]
      BY <2>2 DEF Holds
    <3> QED
      BY <3>1, <3>2, <1>2, <1>4, <2>2
  <2> QED
    BY <2>1, <2>2, <1>3
<1> HIDE DEF pipe2, new, m
<1>7. Holds(pipe2, n, Append(records, record))
  BY <1>2, <1>3, <1>4, <1>5, <1>6 DEF Holds
<1> QED
  BY <1>2, <1>7 DEF pipe2

\* A read of a record's size takes the first record whole.
LEMMA ReadTakesFirst ==
    ASSUME NEW n \in Nat \ {0}, NEW pipe \in Seq(Byte), NEW records \in Seq(Array(n)),
           Holds(pipe, n, records), pipe # <<>>, NEW array
    PROVE  /\ records # <<>>
           /\ read(pipe, array, n) = records[1]
           /\ Taken(pipe, n) \in Seq(Byte)
           /\ Holds(Taken(pipe, n), n, Tail(records))
<1> DEFINE m == Len(records)
           rest == Taken(pipe, n)
<1>1. m \in Nat /\ Len(pipe) = n * m /\ Len(pipe) \in Nat \ {0}
  BY DEF Holds
<1>2. m >= 1
  <2>1. m = 0 => n * m = 0
    BY Z3
  <2> QED
    BY <2>1, <1>1
<1>3. n * m = n * (m - 1) + n /\ n * (m - 1) \in Nat
  BY <1>1, <1>2, Z3
<1>4. Len(pipe) >= n /\ Least(n, Len(pipe)) = n
  BY <1>1, <1>3 DEF Least
<1>5. records[1] \in Array(n) /\ records # <<>>
  BY <1>1, <1>2
<1>6. \A k \in 0 .. n - 1 : pipe[k + 1] = records[1][k]
  <2>1. n * (1 - 1) = 0
    BY Z3
  <2>2. \A k \in 0 .. n - 1 : pipe[n * (1 - 1) + k + 1] = records[1][k]
    BY <1>1, <1>2 DEF Holds
  <2> QED
    BY <2>1, <2>2
<1>7. read(pipe, array, n) = records[1]
  <2>1. \A k \in 0 .. n - 1 : k < Len(pipe)
    BY <1>1, <1>4
  <2>2. read(pipe, array, n) = [k \in 0 .. n - 1 |-> pipe[k + 1]]
    BY <2>1 DEF read
  <2> QED
    BY <2>2, <1>5, <1>6 DEF Array
<1>8. /\ rest \in Seq(Byte)
      /\ Len(rest) = Len(pipe) - n
      /\ \A i \in 1 .. Len(pipe) - n : rest[i] = pipe[n + i]
  <2>1. rest = SubSeq(pipe, n + 1, Len(pipe))
    BY <1>4 DEF Taken
  <2> QED
    BY <2>1, <1>1, <1>4
<1>9. /\ Len(Tail(records)) = m - 1
      /\ \A j \in 1 .. m - 1 : Tail(records)[j] = records[j + 1]
  BY <1>5
<1>10. ASSUME NEW j \in 1 .. m - 1, NEW k \in 0 .. n - 1
       PROVE  rest[n * (j - 1) + k + 1] = Tail(records)[j][k]
  <2>1. n * (j - 1) \in Nat /\ n * (j - 1) + n = n * j /\ n * j <= n * (m - 1)
    BY <1>1, <1>2, Places, SMTT(40)
  <2>2. n * (j - 1) + k + 1 \in 1 .. Len(pipe) - n
    BY <2>1, <1>1, <1>3, SMTT(40)
  <2>3. rest[n * (j - 1) + k + 1] = pipe[n + (n * (j - 1) + k + 1)]
    BY <2>2, <1>8
  <2>4. n + (n * (j - 1) + k + 1) = n * ((j + 1) - 1) + k + 1
    BY <2>1
  <2>5. pipe[n * ((j + 1) - 1) + k + 1] = records[j + 1][k]
    BY <1>1 DEF Holds
  <2> QED
    BY <2>3, <2>4, <2>5, <1>9
<1> DEFINE others == Tail(records)
<1> HIDE DEF rest, m, others
<1>11. Holds(rest, n, others)
  <2>1. /\ Len(others) = m - 1
        /\ \A j \in 1 .. m - 1, k \in 0 .. n - 1 : rest[n * (j - 1) + k + 1] = others[j][k]
    BY <1>9, <1>10 DEF others
  <2>2. Len(rest) = n * Len(others)
    BY <2>1, <1>1, <1>3, <1>8
  <2> QED
    BY <2>1, <2>2 DEF Holds
<1> QED
  BY <1>5, <1>7, <1>8, <1>11 DEF rest, others

\* A pipe is empty when it holds no record, and only then.
LEMMA NoRecords ==
    ASSUME NEW n \in Nat \ {0}, NEW pipe \in Seq(Byte), NEW records,
           Len(records) \in Nat, Holds(pipe, n, records)
    PROVE  pipe = <<>> <=> Len(records) = 0
<1>1. Len(pipe) = n * Len(records) /\ Len(pipe) \in Nat
  BY DEF Holds
<1>2. Len(records) = 0 => n * Len(records) = 0
  BY Z3
<1>3. Len(records) > 0 => n * Len(records) > 0
  BY Z3
<1> QED
  BY <1>1, <1>2, <1>3

-----------------------------------------------------------------------------
(* Strings and records                                                     *)

Texts == Clients \cup Boxes \cup {Message}

LEMMA StringsBegin ==
    ASSUME NEW t \in Texts, NEW n \in Nat, n >= 4
    PROVE  /\ strlen(t, n) \in Nat /\ 3 <= strlen(t, n) /\ strlen(t, n) < n
           /\ String(t, n) \in Array(n)
           /\ String(t, n)[0] = <<t, 0>>
<1>1. strlen(t, n) \in Nat /\ 3 <= strlen(t, n) /\ strlen(t, n) < n
  BY DEF strlen
<1>2. String(t, n) \in Array(n)
  <2>1. \A k \in 0 .. n - 1 : <<t, k>> \in Values \X Nat
    BY DEF Texts, Values
  <2> QED
    BY <2>1 DEF String, Array, Byte, W!Part
<1>3. String(t, n)[0] = <<t, 0>>
  BY <1>1 DEF String, W!Part
<1> QED
  BY <1>1, <1>2, <1>3

LEMMA BytesAreNoNul ==
    ASSUME NEW t \in Texts
    PROVE  <<t, 0>> # Nul /\ <<t, 0>> # Stray
BY RequestsAssumption DEF Texts

\* An array that begins with a string and its terminator spells it.
LEMMA TextIsFound ==
    ASSUME NEW T \in SUBSET Texts, NEW t \in T, NEW n \in Nat, n >= 4, NEW array,
           \A k \in 0 .. strlen(t, n) : array[k] = String(t, n)[k]
    PROVE  Text(array, T, n) = t
<1>1. Spells(array, t, n)
  BY DEF Spells
<1>2. ASSUME NEW u \in T, Spells(array, u, n) PROVE u = t
  <2>1. strlen(u, n) \in Nat /\ String(u, n)[0] = <<u, 0>>
    BY StringsBegin
  <2>2. strlen(t, n) \in Nat /\ String(t, n)[0] = <<t, 0>>
    BY StringsBegin
  <2>3. array[0] = <<u, 0>> /\ array[0] = <<t, 0>>
    BY <1>1, <1>2, <2>1, <2>2 DEF Spells
  <2> QED
    BY <2>3
<1> QED
  BY <1>1, <1>2 DEF Text

\* An array that begins with none of a string's bytes spells nothing.
LEMMA NoTextIsFound ==
    ASSUME NEW T \in SUBSET Texts, NEW n \in Nat, n >= 4, NEW array,
           array[0] = Nul \/ array[0] = Stray
    PROVE  Text(array, T, n) = None
<1>1. ASSUME NEW u \in T PROVE ~Spells(array, u, n)
  <2>1. strlen(u, n) \in Nat /\ String(u, n)[0] = <<u, 0>>
    BY StringsBegin
  <2>2. u \in Texts
    OBVIOUS
  <2> QED
    BY <2>1, <2>2, BytesAreNoNul DEF Spells
<1> QED
  BY <1>1 DEF Text

\* m bytes of an array, from one on, are those of another.
Has(array, at, part, m) == \A i \in at .. at + m - 1 : array[i] = part[i - at]

\* What Copied takes from inside an array.
LEMMA CopiedPart ==
    ASSUME NEW n \in Nat, NEW array \in Array(n), NEW at \in Nat, NEW m \in Nat,
           at + m <= n, NEW part \in Array(m)
    PROVE  Has(array, at, part, m) => W!Copied(array, at, m) = part
<1>1. HAVE Has(array, at, part, m)
<1>2. ASSUME NEW k \in 0 .. m - 1
      PROVE  at + k \in DOMAIN array /\ array[at + k] = part[k]
  <2>1. at + k \in DOMAIN array
    BY DEF Array
  <2>2. at + k \in at .. at + m - 1 /\ (at + k) - at = k
    OBVIOUS
  <2>3. array[at + k] = part[(at + k) - at]
    BY <1>1, <2>2 DEF Has
  <2> QED
    BY <2>1, <2>2, <2>3
<1>3. part = [k \in 0 .. m - 1 |-> part[k]]
  BY DEF Array
<1> QED
  BY <1>2, <1>3 DEF W!Copied

LEMMA PartsAreBytes ==
    ASSUME NEW v \in Values, NEW k \in Nat
    PROVE  <<v, k>> \in Byte
BY DEF Byte

\* A request is 291 bytes, its code first, then the path and the name.
RegistrationOf(code, path, box) ==
    [i \in 0 .. 290 |->
        CASE i = 0            -> <<code, 0>>
          [] i \in {1, 258}   -> Bar
          [] i \in 2 .. 257   -> path[i - 2]
          [] i \in 259 .. 290 -> box[i - 259]
          [] OTHER            -> Nul]

ListingOf(path) ==
    [i \in 0 .. 290 |->
        CASE i = 0          -> <<7, 0>>
          [] i = 1          -> Bar
          [] i \in 2 .. 257 -> path[i - 2]
          [] OTHER          -> Nul]

LEMMA RequestIsEither ==
    ASSUME NEW code \in Codes, NEW path, NEW box
    PROVE  Request(code, path, box, 291) =
             IF code = 7 THEN ListingOf(String(path, 256))
             ELSE RegistrationOf(code, String(path, 256), String(box, 32))
<1> USE DEF Request
<1> DEFINE r(c) == W!prot_aux_encode_registrations(
                       c, String(path, 256), String(box, 32), Unset(291), 291)
<1>1. \A c \in Codes :
         r(c) = RegistrationOf(c, String(path, 256), String(box, 32))
  BY DEF W!prot_aux_encode_registrations, W!int8, W!Part, RegistrationOf
<1> HIDE DEF r
<1>2. CASE code = 1
  BY <1>1, <1>2 DEF r, W!prot_encode_pub_registration
<1>3. CASE code = 2
  BY <1>1, <1>3 DEF r, W!prot_encode_sub_registration
<1>4. CASE code = 3
  BY <1>1, <1>4 DEF r, W!prot_encode_inbox_creation_req
<1>5. CASE code = 5
  BY <1>1, <1>5 DEF r, W!prot_encode_inbox_removal_req
<1>6. CASE code = 7
  BY <1>6, SMTT(40) DEF ListingOf, W!prot_encode_inbox_listing_req, W!int8, W!Part
<1> QED
  BY <1>2, <1>3, <1>4, <1>5, <1>6 DEF Codes

LEMMA ListingOver ==
    ASSUME NEW path, NEW S,
           \A i \in 2 .. 257 : path[i - 2] \in S, <<7, 0>> \in S, Bar \in S, Nul \in S
    PROVE  ListingOf(path) \in [0 .. 290 -> S]
BY SMTT(40) DEF ListingOf

LEMMA RegistrationParts ==
    ASSUME NEW code, NEW path, NEW box
    PROVE  /\ RegistrationOf(code, path, box)[0] = <<code, 0>>
           /\ Has(RegistrationOf(code, path, box), 2, path, 256)
           /\ Has(RegistrationOf(code, path, box), 259, box, 32)
<1>1. RegistrationOf(code, path, box)[0] = <<code, 0>>
  BY DEF RegistrationOf
<1>2. \A i \in 2 .. 257 : RegistrationOf(code, path, box)[i] = path[i - 2]
  BY SMTT(40) DEF RegistrationOf
<1>3. \A i \in 259 .. 290 : RegistrationOf(code, path, box)[i] = box[i - 259]
  BY DEF RegistrationOf
<1> QED
  BY <1>1, <1>2, <1>3 DEF Has

LEMMA ListingParts ==
    ASSUME NEW path
    PROVE  ListingOf(path)[0] = <<7, 0>> /\ Has(ListingOf(path), 2, path, 256)
<1>1. ListingOf(path)[0] = <<7, 0>>
  BY DEF ListingOf
<1>2. \A i \in 2 .. 257 : ListingOf(path)[i] = path[i - 2]
  BY DEF ListingOf
<1> QED
  BY <1>1, <1>2 DEF Has

LEMMA RequestBytes ==
    ASSUME NEW code \in Codes, NEW path \in Clients, NEW box
    PROVE  (code # 7 => box \in Boxes) =>
             /\ Request(code, path, box, 291) \in Array(291)
             /\ Request(code, path, box, 291)[0] = <<code, 0>>
             /\ Has(Request(code, path, box, 291), 2, String(path, 256), 256)
             /\ code # 7 => Has(Request(code, path, box, 291), 259, String(box, 32), 32)
<1>0. HAVE code # 7 => box \in Boxes
<1>1. \A i \in 2 .. 257 : String(path, 256)[i - 2] \in Byte
  <2>1. String(path, 256) \in Array(256)
    BY StringsBegin DEF Texts
  <2> QED
    BY <2>1 DEF Array
<1>2. <<code, 0>> \in Byte /\ <<7, 0>> \in Byte /\ Nul \in Byte /\ Bar \in Byte
  BY DEF Codes, Values, Byte
<1>3. CASE code # 7
  <2>1. \A i \in 259 .. 290 : String(box, 32)[i - 259] \in Byte
    <3>1. String(box, 32) \in Array(32)
      BY <1>0, <1>3, StringsBegin DEF Texts
    <3> QED
      BY <3>1 DEF Array
  <2>2. RegistrationOf(code, String(path, 256), String(box, 32)) \in Array(291)
    <3>1. PICK p, b : p = String(path, 256) /\ b = String(box, 32)
      OBVIOUS
    <3>2. /\ \A i \in 2 .. 257 : p[i - 2] \in Byte
          /\ \A i \in 259 .. 290 : b[i - 259] \in Byte
      BY <1>1, <2>1, <3>1
    <3>3. RegistrationOf(code, p, b) \in [0 .. 290 -> Byte]
      BY <1>2, <3>2 DEF RegistrationOf
    <3> QED
      BY <3>1, <3>3 DEF Array
  <2>3. Request(code, path, box, 291) = RegistrationOf(code, String(path, 256), String(box, 32))
    BY <1>3, RequestIsEither
  <2> QED
    BY <2>2, <2>3, RegistrationParts
<1>4. CASE code = 7
  <2>1. ListingOf(String(path, 256)) \in Array(291)
    BY <1>1, <1>2, ListingOver DEF Array
  <2>2. Request(code, path, box, 291) = ListingOf(String(path, 256))
    BY <1>4, RequestIsEither
  <2> QED
    BY <1>4, <2>1, <2>2, ListingParts
<1> QED
  BY <1>3, <1>4

\* The copy of an element is longer than the request in it.
LEMMA ElementBytes ==
    ASSUME NEW bytes \in Array(291)
    PROVE  /\ W!Copied(bytes, 0, 1026) \in Array(1026)
           /\ \A k \in 0 .. 290 : W!Copied(bytes, 0, 1026)[k] = bytes[k]
<1>1. DOMAIN bytes = 0 .. 290 /\ \A k \in 0 .. 290 : bytes[k] \in Byte
  BY SMTT(40) DEF Array
<1>2. Stray \in Byte
  BY SMTT(40) DEF Byte
<1>3. W!Copied(bytes, 0, 1026) \in Array(1026)
  BY <1>1, <1>2, SMTT(40) DEF W!Copied, Array
<1>4. \A k \in 0 .. 290 : W!Copied(bytes, 0, 1026)[k] = bytes[k]
  BY <1>1 DEF W!Copied
<1> QED
  BY <1>3, <1>4, SMTT(40)

LEMMA ElementHas ==
    ASSUME NEW bytes \in Array(291), NEW at \in Nat, NEW part, NEW m \in Nat,
           at + m <= 291
    PROVE  Has(bytes, at, part, m) => Has(W!Copied(bytes, 0, 1026), at, part, m)
<1>1. PICK e : e = W!Copied(bytes, 0, 1026)
  OBVIOUS
<1>2. \A k \in 0 .. 290 : e[k] = bytes[k]
  BY <1>1, ElementBytes, SMTT(40)
<1>3. HAVE Has(bytes, at, part, m)
<1>4. ASSUME NEW i \in at .. at + m - 1 PROVE e[i] = part[i - at]
  <2>1. i \in 0 .. 290
    OBVIOUS
  <2>2. bytes[i] = part[i - at]
    BY <1>3 DEF Has
  <2> QED
    BY <2>1, <2>2, <1>2
<1> QED
  BY <1>1, <1>4 DEF Has

\* The array of a string spells it.
LEMMA StringIsFound ==
    ASSUME NEW T \in SUBSET Texts, NEW t \in T, NEW n \in Nat, n >= 4
    PROVE  Text(String(t, n), T, n) = t
BY TextIsFound

\* A worker's copy of an element decodes to the request.
LEMMA RequestIsDecoded ==
    ASSUME NEW r \in RequestType, NEW encoded
    PROVE  encoded = W!Copied(Bytes(r), 0, Element) =>
             /\ Bytes(r) \in Array(Register)
             /\ {x \in Codes : encoded[0] = W!int8(x)} = {r.code}
             /\ Text(Decoded(r.code, encoded).pipe_path, Clients, 256) = r.path
             /\ Text(Decoded(r.code, encoded).box_name, Boxes, 32) = r.box
<1>0. HAVE encoded = W!Copied(Bytes(r), 0, Element)
<1>1. /\ r.code \in Codes /\ r.path \in Clients
      /\ r.code # 7 => r.box \in Boxes
      /\ r.code = 7 => r.box = None
  BY DEF RequestType, Codes
<1>2. PICK bytes : bytes = Bytes(r)
  OBVIOUS
<1>3. /\ bytes \in Array(291)
      /\ bytes[0] = <<r.code, 0>>
      /\ Has(bytes, 2, String(r.path, 256), 256)
      /\ r.code # 7 => Has(bytes, 259, String(r.box, 32), 32)
  BY <1>1, <1>2, RequestBytes DEF Bytes, Register
<1>4. encoded = W!Copied(bytes, 0, 1026)
  BY <1>0, <1>2 DEF Element
<1>5. encoded \in Array(1026) /\ encoded[0] = <<r.code, 0>>
  BY <1>3, <1>4, ElementBytes
<1>6. Has(encoded, 2, String(r.path, 256), 256)
  BY <1>3, <1>4, ElementHas
<1>7. r.code # 7 => Has(encoded, 259, String(r.box, 32), 32)
  BY <1>3, <1>4, ElementHas
<1>8. {x \in Codes : encoded[0] = W!int8(x)} = {r.code}
  BY <1>1, <1>5 DEF W!int8, W!Part
<1>9. Text(Decoded(r.code, encoded).pipe_path, Clients, 256) = r.path
  <2>1. Decoded(r.code, encoded).pipe_path = W!Copied(encoded, 2, 256)
    BY DEF Decoded, Element, NoNames, W!prot_decode_inbox_listing_req, W!prot_decode_registrations
  <2>2. Clients \in SUBSET Texts /\ r.path \in Texts
    BY <1>1 DEF Texts
  <2>3. String(r.path, 256) \in Array(256)
    BY <2>2, StringsBegin
  <2>4. W!Copied(encoded, 2, 256) = String(r.path, 256)
    BY <1>5, <1>6, <2>3, CopiedPart
  <2>5. Text(String(r.path, 256), Clients, 256) = r.path
    BY <1>1, <2>2, StringIsFound
  <2> QED
    BY <2>1, <2>4, <2>5
<1>10. Text(Decoded(r.code, encoded).box_name, Boxes, 32) = r.box
  <2>0. Boxes \in SUBSET Texts
    BY DEF Texts
  <2>1. CASE r.code = 7
    <3>1. Decoded(r.code, encoded).box_name = Unset(32)
      BY <2>1 DEF Decoded, Element, NoNames, W!prot_decode_inbox_listing_req
    <3>2. Unset(32)[0] = Stray
      BY DEF Unset
    <3>3. Text(Unset(32), Boxes, 32) = None
      BY <3>2, <2>0, NoTextIsFound
    <3> QED
      BY <3>1, <3>3, <2>1, <1>1
  <2>2. CASE r.code # 7
    <3>1. Decoded(r.code, encoded).box_name = W!Copied(encoded, 259, 32)
      BY <2>2 DEF Decoded, Element, W!prot_decode_registrations
    <3>2. r.box \in Texts
      BY <1>1, <2>2 DEF Texts
    <3>3. String(r.box, 32) \in Array(32)
      BY <3>2, StringsBegin
    <3>4. W!Copied(encoded, 259, 32) = String(r.box, 32)
      BY <1>5, <1>7, <2>2, <3>3, CopiedPart
    <3>5. Text(String(r.box, 32), Boxes, 32) = r.box
      BY <1>1, <2>0, <2>2, StringIsFound
    <3> QED
      BY <3>1, <3>4, <3>5
  <2> QED
    BY <2>1, <2>2
<1> QED
  BY <1>2, <1>3, <1>8, <1>9, <1>10 DEF Register

\* The reply as prot_aux_encode_inbox_response lays it out, in n bytes.
ResponseOf(n, code, text) ==
    [i \in 0 .. n - 1 |->
        CASE i = 0        -> <<4, 0>>
          [] i \in {1, 6} -> Bar
          [] i \in 2 .. 5 -> code[i - 2]
          [] i \in 7 .. n -> text[i - 7]
          [] OTHER        -> Nul]

\* The last byte of the message is not among the n.
LEMMA ResponseParts ==
    ASSUME NEW n \in Nat, n >= 7, NEW code, NEW text
    PROVE  /\ Has(ResponseOf(n, code, text), 2, code, 4)
           /\ Has(ResponseOf(n, code, text), 7, text, n - 7)
<1>1. \A i \in 2 .. 5 : ResponseOf(n, code, text)[i] = code[i - 2]
  BY DEF ResponseOf
<1>2. \A i \in 7 .. n - 1 : ResponseOf(n, code, text)[i] = text[i - 7]
  BY DEF ResponseOf
<1>3. Has(ResponseOf(n, code, text), 2, code, 4)
  BY <1>1 DEF Has
<1>4. Has(ResponseOf(n, code, text), 7, text, n - 7)
  BY <1>2 DEF Has
<1> QED
  BY <1>3, <1>4

LEMMA ResponseIsArray ==
    ASSUME NEW n \in Nat, n >= 7, NEW m \in Nat, n <= m + 7,
           NEW code \in Array(4), NEW text \in Array(m)
    PROVE  ResponseOf(n, code, text) \in Array(n)
<1>1. \A i \in 7 .. n - 1 : text[i - 7] \in Byte
  BY DEF Array
<1>2. \A i \in 2 .. 5 : code[i - 2] \in Byte
  BY DEF Array
<1>3. <<4, 0>> \in Byte /\ Nul \in Byte /\ Bar \in Byte
  BY DEF Byte, Values
<1>4. ResponseOf(n, code, text) \in [0 .. n - 1 -> Byte]
  BY <1>1, <1>2, <1>3 DEF ResponseOf
<1> QED
  BY <1>4 DEF Array

\* The message a manager copies is all of it but the last byte.
LEMMA MessageBytes ==
    ASSUME NEW n \in Nat, NEW bytes \in Array(n + 7), NEW text
    PROVE  Has(bytes, 7, text, n) => Has(W!Copied(bytes, 7, n + 1), 0, text, n)
<1>0. HAVE Has(bytes, 7, text, n)
<1>1. ASSUME NEW k \in 0 .. n - 1 PROVE W!Copied(bytes, 7, n + 1)[k] = text[k]
  <2>1. 7 + k \in DOMAIN bytes
    BY DEF Array
  <2>2. W!Copied(bytes, 7, n + 1)[k] = bytes[7 + k]
    BY <2>1 DEF W!Copied
  <2>3. 7 + k \in 7 .. 7 + n - 1 /\ (7 + k) - 7 = k
    OBVIOUS
  <2>4. bytes[7 + k] = text[(7 + k) - 7]
    BY <1>0, <2>3 DEF Has
  <2> QED
    BY <2>2, <2>3, <2>4
<1> QED
  BY <1>1 DEF Has

\* What a manager decodes from the reply it was sent.
LEMMA ReplyIsDecoded ==
    ASSUME NEW return_code \in ReturnCodes, NEW was, NEW reply
    PROVE  reply = W!prot_decode_inbox_response(was, ReplyTo(return_code), Reply) =>
             /\ ReplyTo(return_code) \in Array(Reply)
             /\ (reply.return_code = W!int32(-1)) <=> (return_code = -1)
             /\ return_code = -1 => Text(reply.error_message, {Message}, 1024) = Message
<1>0. HAVE reply = W!prot_decode_inbox_response(was, ReplyTo(return_code), Reply)
<1>1. PICK text : text = IF return_code = -1 THEN String(Message, 1024) ELSE Unset(1024)
  OBVIOUS
<1>2. text \in Array(1024)
  <2>1. String(Message, 1024) \in Array(1024)
    BY StringsBegin DEF Texts
  <2>2. Unset(1024) \in Array(1024)
    BY DEF Unset, Array, Byte
  <2> QED
    BY <1>1, <2>1, <2>2
<1>3. PICK code : code = W!int32(return_code)
  OBVIOUS
<1>4. code \in Array(4) /\ code[0] = <<return_code, 0>>
  BY <1>3, SMTT(40) DEF W!int32, W!Part, Array, Byte, Values, ReturnCodes
<1>5. PICK bytes : bytes = ReplyTo(return_code)
  OBVIOUS
<1>6. bytes = ResponseOf(1030, code, text)
  <2>1. bytes = W!prot_aux_encode_inbox_response(4, return_code, text, Unset(1030), 1030)
    BY <1>1, <1>5, SMTT(40) DEF ReplyTo, Reply, W!prot_encode_inbox_creation_resp
  <2>2. bytes = ResponseOf(1030, W!int32(return_code), text)
    BY <2>1 DEF ResponseOf, W!prot_aux_encode_inbox_response, W!int8, W!Part
  <2> QED
    BY <2>2, <1>3
<1>7. bytes \in Array(1030)
  <2>1. 1030 \in Nat /\ 1030 >= 7 /\ 1024 \in Nat /\ 1030 <= 1024 + 7
    OBVIOUS
  <2> QED
    BY <2>1, <1>2, <1>4, <1>6, ResponseIsArray
<1>8. Has(bytes, 2, code, 4) /\ Has(bytes, 7, text, 1023)
  <2>1. 1030 \in Nat /\ 1030 >= 7 /\ 1030 - 7 = 1023
    OBVIOUS
  <2> QED
    BY <2>1, <1>6, ResponseParts
<1>9. W!Copied(bytes, 2, 4) = code
  BY <1>4, <1>7, <1>8, CopiedPart
<1>10. PICK found : found = W!Copied(bytes, 7, 1024)
  OBVIOUS
<1>11. Has(found, 0, text, 1023)
  <2>1. 1023 \in Nat /\ 1023 + 7 = 1030 /\ 1023 + 1 = 1024
    OBVIOUS
  <2> QED
    BY <2>1, <1>7, <1>8, <1>10, MessageBytes
<1>12. reply.return_code = code /\ reply.error_message = found
  BY <1>0, <1>5, <1>9, <1>10 DEF W!prot_decode_inbox_response, Reply
<1>13. (code = W!int32(-1)) <=> (return_code = -1)
  <2>1. W!int32(-1)[0] = <<-1, 0>>
    BY DEF W!int32, W!Part
  <2> QED
    BY <2>1, <1>3, <1>4
<1>14. ASSUME return_code = -1 PROVE Text(found, {Message}, 1024) = Message
  <2>1. strlen(Message, 1024) = 3
    BY RequestsAssumption, SMTT(40) DEF strlen
  <2>2. text = String(Message, 1024)
    BY <1>1, <1>14, SMTT(40)
  <2>3. \A k \in 0 .. strlen(Message, 1024) : found[k] = String(Message, 1024)[k]
    BY <2>1, <2>2, <1>11 DEF Has
  <2> QED
    BY <2>3, TextIsFound DEF Texts
<1> QED
  BY <1>5, <1>7, <1>12, <1>13, <1>14 DEF Reply

RowOf(v, name, size, third, fourth) ==
    [i \in 0 .. 62 |->
        CASE i = 0                       -> <<8, 0>>
          [] i = 2                       -> <<v, 0>>
          [] i \in {1, 3, 36, 45, 54}    -> Bar
          [] i \in 4 .. 35               -> name[i - 4]
          [] i \in 37 .. 44              -> size[i - 37]
          [] i \in 46 .. 53              -> third[i - 46]
          [] i \in 55 .. 62              -> fourth[i - 55]
          [] OTHER                       -> Nul]

LEMMA RowParts ==
    ASSUME NEW v, NEW name, NEW size, NEW third, NEW fourth
    PROVE  /\ RowOf(v, name, size, third, fourth)[2] = <<v, 0>>
           /\ Has(RowOf(v, name, size, third, fourth), 4, name, 32)
           /\ Has(RowOf(v, name, size, third, fourth), 37, size, 8)
           /\ Has(RowOf(v, name, size, third, fourth), 46, third, 8)
           /\ Has(RowOf(v, name, size, third, fourth), 55, fourth, 8)
<1> DEFINE row == RowOf(v, name, size, third, fourth)
<1>1. \A i \in 4 .. 35 : row[i] = name[i - 4]
  BY DEF RowOf
<1>2. \A i \in 37 .. 44 : row[i] = size[i - 37]
  BY DEF RowOf
<1>3. \A i \in 46 .. 53 : row[i] = third[i - 46]
  BY DEF RowOf
<1>4. \A i \in 55 .. 62 : row[i] = fourth[i - 55]
  BY DEF RowOf
<1>5. row[2] = <<v, 0>>
  BY DEF RowOf
<1> HIDE DEF row
<1>6. Has(row, 4, name, 32)
  BY <1>1 DEF Has
<1>7. Has(row, 37, size, 8)
  BY <1>2 DEF Has
<1>8. Has(row, 46, third, 8)
  BY <1>3 DEF Has
<1>9. Has(row, 55, fourth, 8)
  BY <1>4 DEF Has
<1> QED
  BY <1>5, <1>6, <1>7, <1>8, <1>9 DEF row

LEMMA RowIsArray ==
    ASSUME NEW v \in {0, 1}, NEW name \in Array(32), NEW size \in Array(8),
           NEW third \in Array(8), NEW fourth \in Array(8)
    PROVE  RowOf(v, name, size, third, fourth) \in Array(63)
<1>1. \A i \in 4 .. 35 : name[i - 4] \in Byte
  BY DEF Array
<1>2. \A i \in 37 .. 44 : size[i - 37] \in Byte
  BY DEF Array
<1>3. \A i \in 46 .. 53 : third[i - 46] \in Byte
  BY DEF Array
<1>4. \A i \in 55 .. 62 : fourth[i - 55] \in Byte
  BY DEF Array
<1>5. <<8, 0>> \in Byte /\ <<v, 0>> \in Byte /\ Nul \in Byte /\ Bar \in Byte
  BY DEF Byte, Values
<1>6. RowOf(v, name, size, third, fourth) \in [0 .. 62 -> Byte]
  BY <1>1, <1>2, <1>3, <1>4, <1>5 DEF RowOf
<1> QED
  BY <1>6 DEF Array

LEMMA NumberIsArray ==
    ASSUME NEW v \in Values
    PROVE  W!int64(v) \in Array(8)
BY DEF W!int64, W!Part, Array, Byte

LEMMA RowIsRowOf ==
    ASSUME NEW v, NEW name, NEW size, NEW third, NEW fourth
    PROVE  W!prot_encode_inbox_listing_resp(v, name, size, third, fourth, Unset(Row), Row)
             = RowOf(v, name, W!int64(size), W!int64(third), W!int64(fourth))
<1>1. PICK s, t, f : s = W!int64(size) /\ t = W!int64(third) /\ f = W!int64(fourth)
  OBVIOUS
<1> QED
  BY <1>1 DEF RowOf, Row, W!prot_encode_inbox_listing_resp, W!int8, W!Part

LEMMA RowIsEncoded ==
    ASSUME NEW v \in {0, 1}, NEW name \in Array(32), NEW size \in Values,
           NEW third \in Values, NEW fourth \in Values
    PROVE  W!prot_encode_inbox_listing_resp(v, name, size, third, fourth, Unset(Row), Row)
             \in Array(Row)
<1>1. RowOf(v, name, W!int64(size), W!int64(third), W!int64(fourth)) \in Array(63)
  BY NumberIsArray, RowIsArray
<1> QED
  BY <1>1, RowIsRowOf DEF Row

\* What a manager decodes from a record of list_boxes.
LEMMA RowIsDecoded ==
    ASSUME NEW v \in {0, 1}, NEW name \in Array(32), NEW size \in Values,
           NEW third \in Values, NEW fourth \in Values, NEW bytes, NEW was, NEW row
    PROVE  /\ bytes = W!prot_encode_inbox_listing_resp(v, name, size, third, fourth, Unset(Row), Row)
           /\ row = W!prot_decode_inbox_listing_resp(was, bytes, Row)
           => /\ bytes \in Array(Row)
              /\ row.last = W!int8(v)
              /\ row.box_name = name
              /\ row.box_size = W!int64(size)
              /\ row.n_publishers = W!int64(third)
              /\ row.n_subscribers = W!int64(fourth)
<1>0. HAVE /\ bytes = W!prot_encode_inbox_listing_resp(v, name, size, third, fourth, Unset(Row), Row)
           /\ row = W!prot_decode_inbox_listing_resp(was, bytes, Row)
<1>1. PICK s, t, f : s = W!int64(size) /\ t = W!int64(third) /\ f = W!int64(fourth)
  OBVIOUS
<1>2. s \in Array(8) /\ t \in Array(8) /\ f \in Array(8)
  BY <1>1, NumberIsArray
<1>3. bytes = RowOf(v, name, s, t, f)
  BY <1>0, <1>1, RowIsRowOf
<1>4. bytes \in Array(63)
  BY <1>2, <1>3, RowIsArray
<1>5. /\ bytes[2] = <<v, 0>>
      /\ Has(bytes, 4, name, 32) /\ Has(bytes, 37, s, 8)
      /\ Has(bytes, 46, t, 8) /\ Has(bytes, 55, f, 8)
  BY <1>3, RowParts
<1>6. W!Copied(bytes, 4, 32) = name
  <2>1. name \in Array(32) /\ Has(bytes, 4, name, 32)
    BY <1>5
  <2> QED
    BY <1>4, <2>1, CopiedPart, SMTT(60)
<1>7. W!Copied(bytes, 37, 8) = s
  BY <1>2, <1>4, <1>5, CopiedPart
<1>8. W!Copied(bytes, 46, 8) = t
  BY <1>2, <1>4, <1>5, CopiedPart
<1>9. W!Copied(bytes, 55, 8) = f
  BY <1>2, <1>4, <1>5, CopiedPart
<1>10. row = [last |-> bytes[2], box_name |-> W!Copied(bytes, 4, 32),
              box_size |-> W!Copied(bytes, 37, 8), n_publishers |-> W!Copied(bytes, 46, 8),
              n_subscribers |-> W!Copied(bytes, 55, 8)]
  BY <1>0 DEF W!prot_decode_inbox_listing_resp, Row
<1>11. bytes \in Array(Row)
  BY <1>4 DEF Row
<1>12. row.last = W!int8(v)
  BY <1>5, <1>10 DEF W!int8, W!Part
<1>13. row.box_name = name /\ row.box_size = s /\ row.n_publishers = t /\ row.n_subscribers = f
  BY <1>6, <1>7, <1>8, <1>9, <1>10
<1> QED
  BY <1>1, <1>11, <1>12, <1>13

\* The records of a listing: one a box, or one that says there is none.
LEMMA RowsAreSent ==
    ASSUME NEW boxes \in Seq(Box)
    PROVE  /\ Rows(boxes) \in Seq(Array(Row))
           /\ Len(Rows(boxes)) = IF boxes = <<>> THEN 1 ELSE Len(boxes)
<1>1. CASE boxes = <<>>
  <2>1. PICK bytes : bytes = W!prot_encode_inbox_listing_resp(
                                1, [k \in 0 .. 31 |-> Nul], 0, 0, 0, Unset(Row), Row)
    OBVIOUS
  <2>2. [k \in 0 .. 31 |-> Nul] \in Array(32) /\ 0 \in Values
    BY DEF Array, Byte, Values
  <2>3. bytes \in Array(Row)
    <3>1. PICK name \in Array(32) : name = [k \in 0 .. 31 |-> Nul]
      BY <2>2
    <3>2. bytes = W!prot_encode_inbox_listing_resp(1, name, 0, 0, 0, Unset(Row), Row)
      BY <2>1, <3>1
    <3> QED
      BY <3>2, <2>2, RowIsEncoded
  <2>4. Rows(boxes) = <<bytes>>
    BY <1>1, <2>1 DEF Rows
  <2>5. <<bytes>> \in Seq(Array(Row)) /\ Len(<<bytes>>) = 1
    BY <2>3
  <2> QED
    BY <1>1, <2>4, <2>5
<1>2. CASE boxes # <<>>
  <2>1. ASSUME NEW i \in 1 .. Len(boxes) PROVE Rows(boxes)[i] \in Array(Row)
    <3>0. PICK box \in Box : box = boxes[i]
      BY <1>2
    <3>5. /\ box.name \in Texts /\ box.size \in Values
          /\ box.subscribers \in Values /\ box.publishers \in Values
      BY DEF Box, Texts, Values
    <3>1. /\ boxes[i].name \in Texts /\ boxes[i].size \in Values
          /\ boxes[i].subscribers \in Values /\ boxes[i].publishers \in Values
      BY <3>0, <3>5
    <3>2. String(boxes[i].name, 32) \in Array(32)
      BY <3>1, StringsBegin
    <3>3. PICK v \in {0, 1} : v = IF i = Len(boxes) THEN 1 ELSE 0
      OBVIOUS
    <3>4. Rows(boxes)[i] = W!prot_encode_inbox_listing_resp(
             v, String(boxes[i].name, 32), boxes[i].size,
             boxes[i].subscribers, boxes[i].publishers, Unset(Row), Row)
      BY <1>2, <3>3 DEF Rows
    <3> QED
      BY <3>1, <3>2, <3>3, <3>4, RowIsEncoded
  <2>2. PICK R : R = Rows(boxes)
    OBVIOUS
  <2>3. DOMAIN R = 1 .. Len(boxes) /\ R = [i \in DOMAIN R |-> R[i]]
    BY <1>2, <2>2 DEF Rows
  <2>4. R \in [1 .. Len(boxes) -> Array(Row)]
    BY <2>1, <2>2, <2>3
  <2>5. R \in Seq(Array(Row)) /\ Len(R) = Len(boxes)
    BY <2>4
  <2> QED
    BY <1>2, <2>2, <2>5
<1> QED
  BY <1>1, <1>2

LEMMA RowsAreMany ==
    ASSUME NEW boxes \in Seq(Box)
    PROVE  /\ Len(Rows(boxes)) \in Nat /\ Len(Rows(boxes)) >= 1
           /\ boxes # <<>> => Len(Rows(boxes)) = Len(boxes)
           /\ boxes = <<>> => Len(Rows(boxes)) = 1
<1>1. Len(boxes) \in Nat /\ (boxes # <<>> => Len(boxes) >= 1)
  OBVIOUS
<1>2. Len(Rows(boxes)) = IF boxes = <<>> THEN 1 ELSE Len(boxes)
  BY RowsAreSent
<1> QED
  BY <1>1, <1>2

\* What a manager makes of record i of a listing.
LEMMA RowIsRead ==
    ASSUME NEW boxes \in Seq(Box), NEW i \in 1 .. Len(Rows(boxes)), NEW was, NEW row
    PROVE  row = W!prot_decode_inbox_listing_resp(was, Rows(boxes)[i], Row) =>
             /\ row.last = W!int8(IF i = Len(Rows(boxes)) THEN 1 ELSE 0)
             /\ row.box_name[0] = Nul <=> boxes = <<>>
             /\ boxes # <<>> =>
                  [name          |-> Text(row.box_name, Boxes, 32),
                   size          |-> row.box_size,
                   n_publishers  |-> row.n_publishers,
                   n_subscribers |-> row.n_subscribers] = Shown(boxes[i])
<1>0. HAVE row = W!prot_decode_inbox_listing_resp(was, Rows(boxes)[i], Row)
<1>1. CASE boxes = <<>>
  <2>1. PICK bytes, name :
           /\ name = [k \in 0 .. 31 |-> Nul]
           /\ bytes = W!prot_encode_inbox_listing_resp(1, name, 0, 0, 0, Unset(Row), Row)
    OBVIOUS
  <2>2. name \in Array(32) /\ 0 \in Values /\ name[0] = Nul
    BY <2>1 DEF Array, Byte, Values
  <2>3. Rows(boxes) = <<bytes>>
    BY <1>1, <2>1 DEF Rows
  <2>4. i = 1 /\ Len(Rows(boxes)) = 1 /\ Rows(boxes)[i] = bytes
    BY <2>3
  <2>6. row = W!prot_decode_inbox_listing_resp(was, bytes, Row)
    BY <1>0, <2>4
  <2>5. row.last = W!int8(1) /\ row.box_name = name
    <3>1. PICK one \in {0, 1}, zero \in Values : one = 1 /\ zero = 0
      BY <2>2
    <3>2. bytes = W!prot_encode_inbox_listing_resp(one, name, zero, zero, zero, Unset(Row), Row)
      BY <2>1, <3>1
    <3>3. row.last = W!int8(one) /\ row.box_name = name
      BY <2>2, <2>6, <3>2, RowIsDecoded
    <3> QED
      BY <3>1, <3>3
  <2> QED
    BY <1>1, <2>2, <2>4, <2>5
<1>2. CASE boxes # <<>>
  <2>1. Len(Rows(boxes)) = Len(boxes) /\ i \in 1 .. Len(boxes)
    BY <1>2, RowsAreSent
  <2>2. PICK box \in Box : box = boxes[i]
    BY <2>1
  <2>3. /\ box.name \in Boxes /\ box.name \in Texts /\ box.size \in Values
        /\ box.subscribers \in Values /\ box.publishers \in Values
    BY DEF Box, Texts, Values
  <2>11. PICK name : name = String(box.name, 32)
    OBVIOUS
  <2>12. PICK v \in {0, 1} : v = IF i = Len(boxes) THEN 1 ELSE 0
    OBVIOUS
  <2>4. v = (IF i = Len(boxes) THEN 1 ELSE 0) /\ name = String(box.name, 32)
    BY <2>11, <2>12
  <2>5. name \in Array(32) /\ name[0] = <<box.name, 0>>
    BY <2>3, <2>4, StringsBegin
  <2>6. Rows(boxes)[i] = W!prot_encode_inbox_listing_resp(
           v, name, box.size, box.subscribers, box.publishers, Unset(Row), Row)
    <3>1. Rows(boxes)[i] = W!prot_encode_inbox_listing_resp(
             v, String(boxes[i].name, 32), boxes[i].size,
             boxes[i].subscribers, boxes[i].publishers, Unset(Row), Row)
      <4>1. i \in 1 .. Len(boxes) /\ v = IF i = Len(boxes) THEN 1 ELSE 0
        BY <2>1, <2>4
      <4> QED
        BY <1>2, <4>1 DEF Rows
    <3> QED
      BY <2>2, <2>4, <3>1
  <2>7. /\ row.last = W!int8(v) /\ row.box_name = name
        /\ row.box_size = W!int64(box.size)
        /\ row.n_publishers = W!int64(box.subscribers)
        /\ row.n_subscribers = W!int64(box.publishers)
    BY <1>0, <2>3, <2>5, <2>6, RowIsDecoded
  <2>8. name[0] # Nul
    BY <2>3, <2>5, BytesAreNoNul
  <2>9. Text(name, Boxes, 32) = box.name
    BY <2>3, <2>4, StringIsFound DEF Texts
  <2>10. row.last = W!int8(IF i = Len(Rows(boxes)) THEN 1 ELSE 0)
    BY <2>1, <2>4, <2>7
  <2>13. Shown(boxes[i]) = [name |-> box.name, size |-> W!int64(box.size),
                            n_publishers |-> W!int64(box.subscribers),
                            n_subscribers |-> W!int64(box.publishers)]
    BY <2>2 DEF Shown
  <2> QED
    BY <1>2, <2>7, <2>8, <2>9, <2>10, <2>13
<1> QED
  BY <1>1, <1>2

-----------------------------------------------------------------------------
(* The clients                                                             *)

\* Where a client stands says what it asked.
LEMMA Standing ==
    ASSUME Sound, NEW c \in Clients
    PROVE  /\ pc[c] = "start" => \A i \in 1 .. Len(asked) : asked[i].path # c
           /\ pc[c] = "start" => ~ServedAs(c, {3, 5, 7})
           /\ ServedAs(c, {3, 5}) => pc[c] \in {"reply", "done"}
           /\ ServedAs(c, {7}) => pc[c] \in {"list", "listing", "left", "done"}
           /\ ServedAs(c, {3, 5}) => ~ServedAs(c, {7})
           /\ ServedAs(c, {3, 5, 7}) <=> ServedAs(c, {3, 5}) \/ ServedAs(c, {7})
<1> USE DEF Sound
<1>1. \A i \in 1 .. Len(served) : served[i].path = c =>
         i \in 1 .. Len(asked) /\ served[i] = asked[i]
  <2>1. Nothing.path # c
    BY RequestsAssumption DEF Nothing
  <2> QED
    BY <2>1 DEF InOrder, Types, QueueTypes
<1>2. \A i \in 1 .. Len(asked) : asked[i].path = c => pc[c] \in After(asked[i].code)
  BY DEF AskedOnce
<1>3. \A i \in 1 .. Len(asked) : asked[i].path = c => pc[c] # "start"
  <2>1. \A i \in 1 .. Len(asked) : asked[i].code \in {1, 2, 3, 5, 7}
    BY SMTT(40) DEF Types, QueueTypes, ClientTypes, RequestType
  <2> QED
    BY <1>2, <2>1 DEF After
<1>4. pc[c] = "start" => ~ServedAs(c, {3, 5, 7})
  BY <1>1, <1>3 DEF ServedAs
<1>5. ServedAs(c, {3, 5}) => pc[c] \in {"reply", "done"}
  BY <1>1, <1>2 DEF ServedAs, After
<1>6. ServedAs(c, {7}) => pc[c] \in {"list", "listing", "left", "done"}
  BY <1>1, <1>2 DEF ServedAs, After
<1>7. ServedAs(c, {3, 5}) => ~ServedAs(c, {7})
  BY <1>1 DEF ServedAs, AskedOnce
<1>8. ServedAs(c, {3, 5, 7}) <=> ServedAs(c, {3, 5}) \/ ServedAs(c, {7})
  BY DEF ServedAs
<1> QED
  BY <1>3, <1>4, <1>5, <1>6, <1>7, <1>8

ClientSound(c) ==
    /\ ServedAs(c, {3, 5}) => ReplySound(c)
    /\ ServedAs(c, {7}) => ListingSound(c)
    /\ ~ServedAs(c, {3, 5, 7}) => Quiet(c)

\* A step that leaves a client and what was sent to it leaves it sound.
LEMMA OthersStaySound ==
    ASSUME NEW c, ClientSound(c),
           \A i \in 1 .. Len(served)' : served'[i].path = c =>
              i \in 1 .. Len(served) /\ served'[i] = served[i],
           \A i \in 1 .. Len(served) : served[i].path = c =>
              i \in 1 .. Len(served') /\ served'[i] = served[i],
           pc'[c] = pc[c], session_pipe'[c] = session_pipe[c], listing'[c] = listing[c],
           last'[c] = last[c], answered'[c] = answered[c], listed'[c] = listed[c],
           errors'[c] = errors[c], rows'[c] = rows[c]
    PROVE  ClientSound(c)'
<1>1. \A codes : ServedAs(c, codes)' <=> ServedAs(c, codes)
  BY DEF ServedAs
<1>2. ServedAs(c, {3, 5})' <=> ServedAs(c, {3, 5})
  BY <1>1
<1>3. ServedAs(c, {7})' <=> ServedAs(c, {7})
  BY <1>1
<1>4. ServedAs(c, {3, 5, 7})' <=> ServedAs(c, {3, 5, 7})
  BY <1>1
<1>5. ReplySound(c) => ReplySound(c)'
  BY DEF ReplySound
<1>6. Quiet(c) => Quiet(c)'
  BY DEF Quiet
<1>7. ListingSound(c) => ListingSound(c)'
  <2>1. Read(c)' = Read(c) /\ Sent(c)' = Sent(c)
    BY DEF Read, Sent
  <2>2. OnTheWay(c)' = OnTheWay(c)
    BY <2>1 DEF OnTheWay
  <2> QED
    BY <2>1, <2>2 DEF ListingSound
<1> QED
  BY <1>2, <1>3, <1>4, <1>5, <1>6, <1>7 DEF ClientSound

\* Before any request everything is quiet.
LEMMA InitIsSound == Init => Inv
<1> HAVE Init
<1>1. QueueTypes /\ ClientTypes
  BY DEF Init, QueueTypes, ClientTypes
<1>2. AskedOnce
  BY DEF Init, AskedOnce
<1>3. Unread = <<>>
  BY DEF Init, Unread
<1>4. InOrder
  <2>1. Register * 0 = 0
    BY DEF Register
  <2>2. Holds(register_pipe, Register, <<>>)
    BY <2>1 DEF Init, Holds
  <2> QED
    BY <1>3, <2>2 DEF Init, InOrder
<1>5. ASSUME NEW c \in Clients PROVE ClientSound(c)
  <2>1. \A codes : ~ServedAs(c, codes)
    BY DEF Init, ServedAs
  <2>2. Quiet(c)
    BY DEF Init, Quiet
  <2> QED
    BY <2>1, <2>2 DEF ClientSound
<1> QED
  BY <1>1, <1>2, <1>4, <1>5 DEF Inv, QueueInv, ClientsInv, ClientsSound, ClientSound

LEMMA AskedTypes ==
    ASSUME QueueTypes, NEW i \in 1 .. Len(asked)
    PROVE  /\ asked[i] \in RequestType
           /\ asked[i].path \in Clients /\ asked[i].code \in Codes
<1>1. PICK r : r = asked[i]
  OBVIOUS
<1>2. r \in RequestType
  BY <1>1 DEF Types, QueueTypes, ClientTypes
<1>3. r.path \in Clients /\ r.code \in Codes
  BY <1>2 DEF RequestType, Codes
<1> QED
  BY <1>1, <1>2, <1>3

LEMMA UnreadTypes ==
    ASSUME QueueTypes, InOrder
    PROVE  /\ Len(asked) \in Nat /\ Len(served) \in Nat /\ Len(elements) \in Nat
           /\ Unread \in Seq(Array(Register))
           /\ Len(Unread) = Len(asked) - Len(elements)
           /\ \A j \in 1 .. Len(asked) - Len(elements) :
                 Unread[j] = Bytes(asked[Len(elements) + j])
<1>1. \A i \in 1 .. Len(asked) : Bytes(asked[i]) \in Array(Register)
  BY RequestIsDecoded DEF QueueTypes
<1>2. /\ Len(asked) \in Nat /\ Len(served) \in Nat /\ Len(elements) \in Nat
      /\ Len(elements) <= Len(asked)
  BY DEF QueueTypes, InOrder
<1>3. /\ Unread \in Seq(Array(Register))
      /\ Len(Unread) = Len(asked) - Len(elements)
  BY <1>1, <1>2 DEF Unread
<1> QED
  BY <1>2, <1>3 DEF Unread

LEMMA AskKeepsQueue ==
    ASSUME QueueInv, NEW c \in Clients, NEW code \in Codes, NEW box \in Boxes,
           Ask(c, code, box)
    PROVE  QueueInv'
<1> USE DEF QueueInv
<1> DEFINE r == [code |-> code, path |-> c, box |-> IF code = 7 THEN None ELSE box]
<1>1. r \in RequestType /\ r.path = c /\ r.code = code
  BY DEF RequestType, Codes
<1>2. /\ asked' = Append(asked, r) /\ asked' \in Seq(RequestType)
      /\ Len(asked') = Len(asked) + 1 /\ asked'[Len(asked) + 1] = r
      /\ \A i \in 1 .. Len(asked) : asked'[i] = asked[i]
      /\ Len(asked) \in Nat
  BY <1>1 DEF Ask, QueueTypes
<1>3. UNCHANGED <<elements, taken, served, overtaken>>
  BY DEF Ask, brokerVars, workerVars
<1>4. Bytes(r) = Request(code, c, box, Register) /\ Bytes(r) \in Array(Register)
  <2>1. Bytes(r) = Request(code, c, box, Register)
    <3>1. Bytes(r) = Request(code, c, r.box, 291)
      BY DEF Bytes, Register
    <3>2. CASE code = 7
      BY <3>1, <3>2, RequestIsEither DEF Register
    <3>3. CASE code # 7
      BY <3>1, <3>3 DEF Register
    <3> QED
      BY <3>2, <3>3
  <2>2. Request(code, c, box, 291) \in Array(291)
    BY RequestBytes
  <2> QED
    BY <2>1, <2>2 DEF Register
<1>5. Len(served) \in Nat /\ Len(elements) \in Nat /\ Len(elements) <= Len(asked)
  BY DEF InOrder, QueueTypes
<1>6. Unread \in Seq(Array(Register)) /\ Unread' = Append(Unread, Bytes(r))
  <2> DEFINE n == Len(elements)
  <2>1. \A i \in 1 .. Len(asked) : Bytes(asked[i]) \in Array(Register)
    BY RequestIsDecoded DEF QueueTypes
  <2>2. Unread = [j \in 1 .. Len(asked) - n |-> Bytes(asked[n + j])]
    BY DEF Unread, QueueTypes
  <2>3. Unread \in Seq(Array(Register)) /\ Len(Unread) = Len(asked) - n
    BY UnreadTypes
  <2>4. Unread' = [j \in 1 .. Len(asked) + 1 - n |-> Bytes(asked'[n + j])]
    BY <1>2, <1>3 DEF Unread, Bytes
  <2>5. \A j \in 1 .. Len(asked) - n : Unread'[j] = Unread[j]
    BY <1>2, <1>5, <2>2, <2>4
  <2>6. Unread'[Len(asked) + 1 - n] = Bytes(r)
    BY <1>2, <1>5, <2>4
  <2>7. Unread' \in Seq(Array(Register)) /\ Len(Unread') = Len(asked) + 1 - n
    <3>1. \A i \in 1 .. Len(asked) + 1 : Bytes(asked'[i]) \in Array(Register)
      BY <1>2, RequestIsDecoded
    <3>2. PICK f : f = [i \in 1 .. Len(asked) + 1 |-> Bytes(asked'[i])]
      OBVIOUS
    <3>3. PICK total, m, unread : total = Len(asked) /\ m = n /\ unread = Unread'
      OBVIOUS
    <3>4. total \in Nat /\ m \in Nat /\ m <= total
      BY <1>2, <1>5, <3>3
    <3>5. \A i \in 1 .. total + 1 : f[i] \in Array(Register)
      BY <3>1, <3>2, <3>3
    <3>6. unread = [j \in 1 .. total + 1 - m |-> f[m + j]]
      <4>1. \A j \in 1 .. total + 1 - m : m + j \in 1 .. Len(asked) + 1
        BY <3>3, <3>4
      <4>2. \A j \in 1 .. total + 1 - m : f[m + j] = Bytes(asked'[m + j])
        BY <3>2, <4>1
      <4> QED
        BY <2>4, <3>3, <4>2
    <3>7. \A j \in 1 .. total + 1 - m : f[m + j] \in Array(Register)
      BY <3>4, <3>5
    <3>8. unread \in Seq(Array(Register)) /\ Len(unread) = total + 1 - m
      BY ONLY <3>4, <3>6, <3>7
    <3> QED
      BY <3>3, <3>8
  <2> DEFINE longer == Append(Unread, Bytes(r))
  <2>8. /\ longer \in Seq(Array(Register)) /\ Len(longer) = Len(asked) + 1 - n
        /\ \A j \in 1 .. Len(asked) - n : longer[j] = Unread[j]
        /\ longer[Len(asked) + 1 - n] = Bytes(r)
    BY <1>2, <1>4, <1>5, <2>3
  <2> HIDE DEF n, longer
  <2>9. n \in Nat /\ n <= Len(asked)
    BY <1>5 DEF n
  <2>10. ASSUME NEW j \in 1 .. Len(Unread') PROVE Unread'[j] = longer[j]
    <3>1. j \in 1 .. Len(asked) - n \/ j = Len(asked) + 1 - n
      BY <1>2, <2>7, <2>9
    <3>2. CASE j \in 1 .. Len(asked) - n
      BY <3>2, <2>5, <2>8
    <3>3. CASE j = Len(asked) + 1 - n
      BY <3>3, <2>6, <2>8
    <3> QED
      BY <3>1, <3>2, <3>3
  <2>11. Unread' = longer
    BY <2>7, <2>8, <2>10, SeqEqual
  <2> QED
    BY <2>3, <2>11 DEF longer
<1>7. /\ register_pipe' \in Seq(Byte)
      /\ Holds(register_pipe', Register, Unread')
  <2>1. register_pipe' = write(register_pipe, Bytes(r), Register)
    BY <1>4 DEF Ask
  <2>2. Register \in Nat \ {0}
    BY DEF Register
  <2> QED
    BY <1>4, <1>6, <2>1, <2>2, WriteAppends DEF InOrder, QueueTypes
<1>8. QueueTypes'
  BY <1>2, <1>3, <1>7 DEF QueueTypes
<1>9. \A i \in 1 .. Len(elements') : elements'[i] = Bytes(asked'[i])
  BY <1>2, <1>3, <1>5 DEF InOrder
<1>10. \A i \in 1 .. Len(served) : asked'[i] = asked[i]
  BY <1>2, <1>5 DEF InOrder
<1> QED
  BY <1>2, <1>3, <1>5, <1>7, <1>8, <1>9, <1>10 DEF InOrder, Bytes

\* A history of requests says of each client one thing at most.
LEMMA AskKeepsClients ==
    ASSUME Sound, NEW c \in Clients, NEW code \in Codes, NEW box \in Boxes,
           Ask(c, code, box)
    PROVE  ClientsInv'
<1> USE DEF Sound
<1> DEFINE r == [code |-> code, path |-> c, box |-> IF code = 7 THEN None ELSE box]
<1>1. r \in RequestType /\ r.path = c /\ r.code = code
  BY DEF RequestType, Codes
<1>2. /\ asked' = Append(asked, r) /\ asked' \in Seq(RequestType)
      /\ Len(asked') = Len(asked) + 1 /\ asked'[Len(asked) + 1] = r
      /\ \A i \in 1 .. Len(asked) : asked'[i] = asked[i]
      /\ Len(asked) \in Nat
  BY <1>1 DEF Ask, Types, QueueTypes
<1>3. UNCHANGED <<session_pipe, served, listing, answered, listed, last, errors, rows>>
  BY DEF Ask, brokerVars, workerVars, answerVars, managerVars
<1>8. /\ pc' \in [Clients -> {"start", "session", "reply", "list", "listing", "left", "done"}]
      /\ pc[c] = "start" /\ pc'[c] \in After(code)
      /\ pc'[c] \in {"session", "reply", "list"}
      /\ \A d \in Clients : d # c => pc'[d] = pc[d]
  BY DEF Ask, Types, QueueTypes, ClientTypes, After, Codes
<1>9. \A i \in 1 .. Len(asked) : asked[i].path # c /\ asked[i].path \in Clients
  <2>1. \A i \in 1 .. Len(asked) : asked[i].path # c
    BY <1>8, Standing
  <2>2. \A i \in 1 .. Len(asked) : asked[i].path \in Clients
    BY AskedTypes DEF Types
  <2> QED
    BY <2>1, <2>2
<1>10. ClientTypes'
  BY <1>3, <1>8 DEF Types, ClientTypes
<1>11. AskedOnce'
  <2>1. \A i, j \in 1 .. Len(asked') : asked'[i].path = asked'[j].path => i = j
    BY <1>1, <1>2, <1>9 DEF AskedOnce
  <2>2. \A i \in 1 .. Len(asked') : pc'[asked'[i].path] \in After(asked'[i].code)
    BY <1>1, <1>2, <1>8, <1>9 DEF AskedOnce
  <2>3. ASSUME NEW d \in Clients, pc'[d] # "start"
        PROVE  \E i \in 1 .. Len(asked') : asked'[i].path = d
    BY <1>1, <1>2, <1>8, <2>3 DEF AskedOnce
  <2> QED
    BY <2>1, <2>2, <2>3 DEF AskedOnce, After
<1>13. ASSUME NEW d \in Clients PROVE ClientSound(d)'
  <2>1. CASE d # c
    BY <1>3, <1>8, <2>1, OthersStaySound DEF ClientsSound, ClientSound
  <2>2. CASE d = c
    <3>1. ~ServedAs(c, {3, 5, 7}) /\ Quiet(c)
      BY <1>8, Standing DEF ClientsSound
    <3>2. ~ServedAs(c, {3, 5}) /\ ~ServedAs(c, {7})
      BY <3>1, Standing
    <3>3. Quiet(c)'
      BY <1>3, <1>8, <3>1 DEF Quiet
    <3>4. ~ServedAs(c, {3, 5})' /\ ~ServedAs(c, {7})'
      BY <1>3, <3>2 DEF ServedAs
    <3> QED
      BY <2>2, <3>3, <3>4 DEF ClientSound
  <2> QED
    BY <2>1, <2>2
<1> QED
  BY <1>10, <1>11, <1>13 DEF ClientsInv, ClientsSound, ClientSound

\* A step that leaves the clients and what was decoded.
LEMMA ClientsStay ==
    ASSUME Sound, UNCHANGED <<pc, session_pipe, asked, served, listing, answered, listed,
                              last, errors, rows>>
    PROVE  ClientsInv'
<1>1. ClientTypes'
  BY DEF Sound, Types, ClientTypes
<1>2. AskedOnce'
  BY DEF Sound, AskedOnce, After
<1>3. ASSUME NEW d \in Clients PROVE ClientSound(d)'
  BY OthersStaySound DEF Sound, ClientsSound, ClientSound
<1> QED
  BY <1>1, <1>2, <1>3 DEF ClientsInv, ClientsSound, ClientSound

\* main takes one request, whole, and its slot gets all of it.
LEMMA MainKeepsQueue == QueueInv /\ MainReads => QueueInv'
<1> HAVE QueueInv /\ MainReads
<1> USE DEF QueueInv
<1>1. UNCHANGED <<asked, taken, served, overtaken>>
  BY DEF MainReads, workerVars
<1> DEFINE n == Len(elements)
           old == Unread
           first == asked[n + 1]
<1>2. /\ Len(asked) \in Nat /\ Len(served) \in Nat /\ Len(elements) \in Nat
      /\ old \in Seq(Array(Register)) /\ Len(old) = Len(asked) - n
      /\ \A j \in 1 .. Len(asked) - n : old[j] = Bytes(asked[n + j])
  BY UnreadTypes
<1>3. /\ old # <<>>
      /\ register_pipe' = Taken(register_pipe, Register)
      /\ register_pipe' \in Seq(Byte)
      /\ Holds(register_pipe', Register, Tail(old))
      /\ elements' = Append(elements, old[1])
  <2>1. Register \in Nat \ {0}
    BY DEF Register
  <2>2. register_pipe \in Seq(Byte) /\ Holds(register_pipe, Register, old)
    BY DEF QueueTypes, InOrder
  <2>3. PICK blank : blank = [k \in 0 .. Register - 1 |-> Nul]
    OBVIOUS
  <2>4. /\ register_pipe # <<>> /\ register_pipe' = Taken(register_pipe, Register)
        /\ elements' = Append(elements, read(register_pipe, blank, Register))
    BY <2>3 DEF MainReads
  <2> HIDE DEF old
  <2> QED
    BY <1>2, <2>1, <2>2, <2>4, ReadTakesFirst
<1>4. Len(old) >= 1 /\ old[1] = Bytes(first) /\ old[1] \in Array(Register)
  BY <1>2, <1>3
<1>5. /\ elements' \in Seq(Array(Register)) /\ Len(elements') = Len(elements) + 1
      /\ \A i \in 1 .. Len(elements) : elements'[i] = elements[i]
      /\ elements'[Len(elements) + 1] = Bytes(first)
  BY <1>3, <1>4 DEF QueueTypes
<1>6. Unread' = Tail(old)
  <2> DEFINE rest == Tail(old)
  <2>1. /\ rest \in Seq(Array(Register)) /\ Len(rest) = Len(asked) - n - 1
        /\ \A j \in 1 .. Len(asked) - n - 1 : rest[j] = old[j + 1]
    BY <1>2, <1>3
  <2>2. Unread' = [j \in 1 .. Len(asked) - n - 1 |-> Bytes(asked[n + 1 + j])]
    BY <1>1, <1>2, <1>5 DEF Unread, Bytes
  <2>3. \A i \in 1 .. Len(asked) : Bytes(asked[i]) \in Array(Register)
    BY RequestIsDecoded DEF QueueTypes
  <2>4. Unread' \in Seq(Array(Register)) /\ Len(Unread') = Len(asked) - n - 1
    BY <1>2, <1>4, <2>2, <2>3
  <2>5. ASSUME NEW j \in 1 .. Len(Unread') PROVE Unread'[j] = rest[j]
    <3>1. Unread'[j] = Bytes(asked[n + 1 + j])
      BY <2>2, <2>4
    <3>2. rest[j] = Bytes(asked[n + (j + 1)])
      BY <1>2, <2>1, <2>4, SMTT(40)
    <3>3. n + (j + 1) = n + 1 + j
      BY <1>2
    <3> QED
      BY <3>1, <3>2, <3>3
  <2> HIDE DEF n, rest
  <2> QED
    BY <2>1, <2>4, <2>5, SeqEqual DEF rest
<1>7. QueueTypes'
  BY <1>1, <1>3, <1>5 DEF QueueTypes
<1>8. InOrder'
  <2>1. Len(served') <= Len(elements') /\ Len(elements') <= Len(asked')
    BY <1>1, <1>2, <1>4, <1>5 DEF InOrder
  <2>2. ASSUME NEW i \in 1 .. Len(elements') PROVE elements'[i] = Bytes(asked'[i])
    <3>1. CASE i \in 1 .. Len(elements)
      BY <1>1, <1>5, <3>1 DEF InOrder
    <3>2. CASE i = n + 1
      BY <1>1, <1>5, <3>2
    <3> QED
      BY <1>2, <1>5, <3>1, <3>2
  <2> HIDE DEF old, first
  <2> QED
    BY <1>1, <1>3, <1>6, <2>1, <2>2 DEF InOrder, Bytes
<1> QED
  BY <1>7, <1>8

LEMMA MainKeepsClients == Sound /\ MainReads => ClientsInv'
<1> HAVE Sound /\ MainReads
<1> USE DEF Sound
<1>1. UNCHANGED <<pc, session_pipe, asked, served, listing, answered, listed, last, errors, rows>>
  BY DEF MainReads, workerVars, answerVars, managerVars
<1> QED
  BY <1>1, ClientsStay

\* A dequeued element is nobody else's, and nothing yet.
LEMMA DequeueKeepsQueue ==
    ASSUME QueueInv, NEW w \in Workers, WorkerDequeues(w)
    PROVE  QueueInv'
<1> USE DEF QueueInv
<1>1. /\ taken[w] = 0 /\ Len(served) < Len(elements)
      /\ taken' = [taken EXCEPT ![w] = Len(served) + 1]
      /\ served' = Append(served, Nothing)
      /\ UNCHANGED <<register_pipe, asked, elements, overtaken>>
  BY DEF WorkerDequeues
<1>2. Nothing \in Outcome
  BY DEF Nothing, Outcome
<1>3. /\ served' \in Seq(Outcome) /\ Len(served) \in Nat /\ Len(elements) \in Nat
      /\ Len(served') = Len(served) + 1 /\ served'[Len(served) + 1] = Nothing
      /\ \A i \in 1 .. Len(served) : served'[i] = served[i]
  BY <1>1, <1>2 DEF QueueTypes
<1>4. /\ taken' \in [Workers -> Nat] /\ taken'[w] = Len(served) + 1
      /\ \A v \in Workers : v # w => taken'[v] = taken[v]
  BY <1>1, <1>3 DEF QueueTypes
<1>5. QueueTypes'
  BY <1>1, <1>3, <1>4 DEF QueueTypes
<1>6. Unread' = Unread
  BY <1>1 DEF Unread, Bytes
<1>7. Len(served') <= Len(elements)
  BY <1>1, <1>3
<1>8. ASSUME NEW i \in 1 .. Len(served')
      PROVE  /\ i \in overtaken \/ served'[i] \in {Nothing, asked[i]}
             /\ i \in overtaken \/ served'[i] = asked[i] \/ \E v \in Workers : taken'[v] = i
  <2>1. CASE i = Len(served) + 1
    BY <1>3, <1>4, <2>1
  <2>2. CASE i \in 1 .. Len(served)
    <3>1. i \in overtaken \/ served'[i] \in {Nothing, asked[i]}
      BY <1>3, <2>2 DEF InOrder
    <3>2. ASSUME NEW v \in Workers, taken[v] = i PROVE taken'[v] = i
      BY <1>1, <1>4, <2>2, <3>2
    <3> QED
      BY <1>3, <2>2, <3>1, <3>2 DEF InOrder
  <2> QED
    BY <1>3, <2>1, <2>2
<1>9. ASSUME NEW v \in Workers, taken'[v] # 0
      PROVE  taken'[v] \in 1 .. Len(served') /\ served'[taken'[v]] = Nothing
  <2>1. CASE v = w
    BY <1>3, <1>4, <2>1
  <2>2. CASE v # w
    BY <1>3, <1>4, <1>9, <2>2 DEF InOrder
  <2> QED
    BY <2>1, <2>2
<1>10. ASSUME NEW u \in Workers, NEW v \in Workers, taken'[u] # 0, taken'[u] = taken'[v]
       PROVE  u = v
  <2>1. ASSUME NEW x \in Workers, x # w PROVE taken'[x] # Len(served) + 1
    BY <1>3, <1>4, <2>1 DEF InOrder, QueueTypes
  <2> QED
    BY <1>4, <1>10, <2>1 DEF InOrder
<1>11. InOrder'
  <2>1. Len(served') <= Len(elements') /\ Len(elements') <= Len(asked')
    BY <1>1, <1>7 DEF InOrder
  <2>2. \A i \in 1 .. Len(elements') : elements'[i] = Bytes(asked'[i])
    BY <1>1 DEF InOrder
  <2>3. Holds(register_pipe', Register, Unread')
    BY <1>1, <1>6 DEF InOrder
  <2> QED
    BY <1>1, <1>8, <1>9, <1>10, <2>1, <2>2, <2>3 DEF InOrder, Bytes
<1> QED
  BY <1>5, <1>11

LEMMA DequeueKeepsClients ==
    ASSUME Sound, NEW w \in Workers, WorkerDequeues(w)
    PROVE  ClientsInv'
<1> USE DEF Sound
<1>1. /\ served' = Append(served, Nothing)
      /\ UNCHANGED <<pc, session_pipe, asked, listing, answered, listed, last, errors, rows>>
  BY DEF WorkerDequeues, answerVars, managerVars
<1>2. /\ Len(served) \in Nat
      /\ Len(served') = Len(served) + 1 /\ served'[Len(served) + 1] = Nothing
      /\ \A i \in 1 .. Len(served) : served'[i] = served[i]
  BY <1>1 DEF Types, QueueTypes
<1>3. ClientTypes'
  BY <1>1 DEF Types, ClientTypes
<1>4. AskedOnce'
  BY <1>1 DEF AskedOnce, After
<1>5. ASSUME NEW d \in Clients PROVE ClientSound(d)'
  <2>1. Nothing.path # d
    BY RequestsAssumption DEF Nothing
  <2>2. \A i \in 1 .. Len(served)' : served'[i].path = d =>
           i \in 1 .. Len(served) /\ served'[i] = served[i]
    BY <1>2, <2>1
  <2>3. \A i \in 1 .. Len(served) : i \in 1 .. Len(served') /\ served'[i] = served[i]
    BY <1>2
  <2> QED
    BY <1>1, <2>2, <2>3, OthersStaySound DEF ClientsSound, ClientSound
<1> QED
  BY <1>3, <1>4, <1>5 DEF ClientsInv, ClientsSound, ClientSound

\* What a worker makes of an element is what it stores, and whom it serves.
Decodes(k, element) ==
    LET encoded == W!Copied(element, 0, Element)
        codes   == {x \in Codes : encoded[0] = W!int8(x)}
    IN IF codes = {}
       THEN UNCHANGED <<session_pipe, answerVars, served>>
       ELSE LET code  == CHOOSE x \in codes : TRUE
                names == Decoded(code, encoded)
                path  == Text(names.pipe_path, Clients, 256)
                box   == Text(names.box_name, Boxes, 32)
            IN /\ served' = [served EXCEPT ![k] =
                                [code |-> code, path |-> path, box |-> box]]
               /\ IF path = None THEN UNCHANGED <<session_pipe, answerVars>>
                  ELSE Serve(path, code)

LEMMA WorkerIsDecoding ==
    ASSUME NEW w \in Workers, WorkerServes(w)
    PROVE  \E element \in Copies(taken[w]) : Decodes(taken[w], element)
BY DEF WorkerServes, Decodes

LEMMA TextIsOne ==
    ASSUME NEW array, NEW T, NEW n
    PROVE  Text(array, T, n) \in T \cup {None}
BY DEF Text

\* Whatever it makes of it, it is an outcome.
LEMMA DecodesAnOutcome ==
    ASSUME NEW k, NEW element, Decodes(k, element), served \in Seq(Outcome),
           k \in 1 .. Len(served)
    PROVE  /\ served' \in Seq(Outcome) /\ Len(served') = Len(served)
           /\ \A i \in 1 .. Len(served) : i # k => served'[i] = served[i]
<1> DEFINE encoded == W!Copied(element, 0, Element)
           codes   == {x \in Codes : encoded[0] = W!int8(x)}
           code    == CHOOSE x \in codes : TRUE
           names   == Decoded(code, encoded)
           path    == Text(names.pipe_path, Clients, 256)
           box     == Text(names.box_name, Boxes, 32)
<1>1. CASE codes = {}
  BY <1>1 DEF Decodes
<1>2. CASE codes # {}
  <2>1. code \in Codes
    BY <1>2
  <2>2. path \in Clients \cup {None} /\ box \in Boxes \cup {None}
    BY TextIsOne
  <2>3. served' = [served EXCEPT ![k] = [code |-> code, path |-> path, box |-> box]]
    BY <1>2 DEF Decodes
  <2> HIDE DEF code, path, box
  <2>4. [code |-> code, path |-> path, box |-> box] \in Outcome
    BY <2>1, <2>2 DEF Outcome
  <2> QED
    BY <2>3, <2>4
<1> QED
  BY <1>1, <1>2

\* An element whose slot was not written again is decoded as it was asked.
LEMMA WorkerDecodes ==
    ASSUME QueueInv, NEW w \in Workers, WorkerServes(w), NEW k, k = taken[w],
           Later(k) = {}, NEW r, r = asked[k]
    PROVE  /\ k \in 1 .. Len(served) /\ k \in 1 .. Len(asked) /\ r \in RequestType
           /\ served' = [served EXCEPT ![k] = r]
           /\ Serve(r.path, r.code)
<1> USE DEF QueueInv
<1>1. k \in 1 .. Len(served) /\ k \in 1 .. Len(elements) /\ k \in 1 .. Len(asked)
  <2>1. taken[w] # 0
    BY DEF WorkerServes
  <2>2. Len(served) \in Nat /\ Len(elements) \in Nat /\ Len(asked) \in Nat
    BY DEF QueueTypes
  <2> QED
    BY <2>1, <2>2 DEF InOrder
<1>2. elements[k] = Bytes(r)
  BY <1>1 DEF InOrder
<1>3. r \in RequestType /\ r.path \in Clients /\ r.code \in Codes
  BY <1>1, AskedTypes
<1>4. PICK encoded : encoded = W!Copied(Bytes(r), 0, Element)
  OBVIOUS
<1>5. /\ {x \in Codes : encoded[0] = W!int8(x)} = {r.code}
      /\ Text(Decoded(r.code, encoded).pipe_path, Clients, 256) = r.path
      /\ Text(Decoded(r.code, encoded).box_name, Boxes, 32) = r.box
  BY <1>3, <1>4, RequestIsDecoded
<1>6. r = [code |-> r.code, path |-> r.path, box |-> r.box]
  BY <1>3 DEF RequestType
<1>7. r.path # None
  BY <1>3, RequestsAssumption
<1>8. Decodes(k, Bytes(r))
  <2>1. Copies(k) = {Bytes(r)}
    BY <1>2 DEF Copies
  <2> QED
    BY <2>1, WorkerIsDecoding
<1>9. (CHOOSE x \in {r.code} : TRUE) = r.code
  OBVIOUS
<1>10. /\ served' = [served EXCEPT ![k] = [code |-> r.code, path |-> r.path, box |-> r.box]]
       /\ Serve(r.path, r.code)
  BY <1>4, <1>5, <1>7, <1>8, <1>9 DEF Decodes
<1> QED
  BY <1>1, <1>3, <1>6, <1>10

\* What a worker does is for the client that asked, who was sent nothing yet.
LEMMA WorkerServesOne ==
    ASSUME Sound, NEW w \in Workers, WorkerServes(w), NEW k, k = taken[w], Later(k) = {},
           NEW r, r = asked[k], NEW c \in Clients
    PROVE  ClientSound(c)'
<1> USE DEF Sound
<1>1. /\ k \in 1 .. Len(served) /\ k \in 1 .. Len(asked) /\ r \in RequestType
      /\ served' = [served EXCEPT ![k] = r]
      /\ Serve(r.path, r.code)
      /\ UNCHANGED <<pc, asked, last, errors, rows>>
  <2>1. QueueInv
    BY DEF QueueInv, Types
  <2>2. UNCHANGED <<pc, asked, last, errors, rows>>
    BY DEF WorkerServes, managerVars
  <2> QED
    BY <2>1, <2>2, WorkerDecodes
<1>2. /\ Len(served) \in Nat /\ Len(served') = Len(served)
      /\ \A i \in 1 .. Len(served) : i # k => served'[i] = served[i]
      /\ served'[k] = r
  BY <1>1 DEF Types, QueueTypes
<1>3. served[k] = Nothing
  BY <1>1 DEF InOrder, WorkerServes
<1>4. Len(asked) \in Nat /\ Len(served) <= Len(asked)
  BY <1>2 DEF InOrder, Types, QueueTypes
<1>5. r.path \in Clients /\ r.code \in Codes
  BY <1>1, AskedTypes DEF Types
<1>6. \A i \in 1 .. Len(served) : served[i].path # r.path
  <2>1. Nothing.path # r.path
    BY <1>5, RequestsAssumption DEF Nothing
  <2>2. ASSUME NEW i \in 1 .. Len(served), i # k PROVE asked[i].path # r.path
    BY <1>1, <1>4, <2>2 DEF AskedOnce
  <2> QED
    BY <1>3, <2>1, <2>2 DEF InOrder
<1>7. CASE c # r.path
  <2>1. /\ session_pipe'[c] = session_pipe[c] /\ listing'[c] = listing[c]
        /\ answered'[c] = answered[c] /\ listed'[c] = listed[c]
    BY <1>1, <1>7 DEF Serve, Types, QueueTypes, ClientTypes, answerVars
  <2>2. \A i \in 1 .. Len(served)' : served'[i].path = c =>
           i \in 1 .. Len(served) /\ served'[i] = served[i]
    BY <1>2, <1>7
  <2>3. \A i \in 1 .. Len(served) : served[i].path = c =>
           i \in 1 .. Len(served') /\ served'[i] = served[i]
    <3>1. Nothing.path # c
      BY RequestsAssumption DEF Nothing
    <3> QED
      BY <1>2, <1>3, <3>1
  <2> QED
    BY <1>1, <2>1, <2>2, <2>3, OthersStaySound DEF ClientsSound, ClientSound
<1>8. CASE c = r.path
  <2>1. \A codes : ~ServedAs(c, codes)
    BY <1>6, <1>8 DEF ServedAs
  <2>2. Quiet(c)
    BY <2>1 DEF ClientsSound
  <2>3. \A codes : ServedAs(c, codes)' <=> r.code \in codes
    BY <1>1, <1>2, <1>6, <1>8 DEF ServedAs
  <2>4. /\ ServedAs(c, {3, 5})' <=> r.code \in {3, 5}
        /\ ServedAs(c, {7})' <=> r.code \in {7}
        /\ ServedAs(c, {3, 5, 7})' <=> r.code \in {3, 5, 7}
    BY <2>3
  <2>5. pc[c] \in After(r.code)
    BY <1>1, <1>8 DEF AskedOnce
  <2>6. CASE r.code \in {1, 2}
    <3>1. UNCHANGED <<session_pipe, listing, answered, listed>>
      BY <1>1, <2>6 DEF Serve, answerVars
    <3>2. Quiet(c)'
      BY <1>1, <2>2, <3>1 DEF Quiet
    <3> QED
      BY <2>4, <2>6, <3>2 DEF ClientSound
  <2>7. CASE r.code \in {3, 5}
    <3>1. PICK code \in ReturnCodes :
             /\ answered' = [answered EXCEPT ![c] = code]
             /\ session_pipe' =
                   [session_pipe EXCEPT ![c] = write(@, ReplyTo(code), Reply)]
             /\ UNCHANGED <<listing, listed>>
      BY <1>1, <1>8, <2>7 DEF Serve
    <3>2. answered'[c] = code /\ session_pipe'[c] = write(<<>>, ReplyTo(code), Reply)
      BY <2>2, <3>1 DEF Types, QueueTypes, ClientTypes, Quiet
    <3>3. pc[c] # "done" /\ listing'[c] = <<>> /\ listed'[c] = <<>> /\ rows'[c] = <<>>
      BY <1>1, <2>2, <3>1 DEF Quiet
    <3>4. Holds(session_pipe'[c], Reply, <<ReplyTo(code)>>)
      <4>1. PICK bytes : bytes = ReplyTo(code)
        OBVIOUS
      <4>2. bytes \in Array(Reply) /\ Reply \in Nat \ {0}
        BY <4>1, ReplyIsDecoded DEF Reply
      <4>3. <<>> \in Seq(Byte) /\ <<>> \in Seq(Array(Reply)) /\ Holds(<<>>, Reply, <<>>)
        BY DEF Holds, Reply
      <4>4. Holds(write(<<>>, bytes, Reply), Reply, Append(<<>>, bytes))
        BY <4>2, <4>3, WriteAppends
      <4>5. Append(<<>>, bytes) = <<bytes>>
        OBVIOUS
      <4> QED
        BY <3>2, <4>1, <4>4, <4>5
    <3>5. ReplySound(c)'
      <4>1. pc'[c] # "done"
        BY <1>1, <3>3
      <4>2. ReplyTo(code) = ReplyTo(answered[c])'
        BY <3>2 DEF ReplyTo
      <4> QED
        BY <3>1, <3>2, <3>3, <3>4, <4>1, <4>2 DEF ReplySound, Holds
    <3> QED
      BY <2>4, <2>7, <3>5 DEF ClientSound
  <2>8. CASE r.code = 7
    <3>1. PICK boxes \in UNION {[1 .. n -> Box] : n \in 0 .. MaxListed} :
             /\ listed' = [listed EXCEPT ![c] = boxes]
             /\ listing' = [listing EXCEPT ![c] = Rows(boxes)]
             /\ UNCHANGED <<session_pipe, answered>>
      BY <1>1, <1>8, <2>8 DEF Serve
    <3>2. boxes \in Seq(Box)
      BY <3>1, RequestsAssumption
    <3>3. /\ listed'[c] = boxes /\ listing'[c] = Rows(boxes)
          /\ session_pipe'[c] = <<>> /\ answered'[c] = None /\ rows'[c] = <<>>
          /\ pc'[c] = pc[c] /\ last'[c] = last[c] /\ pc[c] # "done"
          /\ pc[c] = "listing" => last[c] = W!int8(0)
      BY <1>1, <2>2, <3>1 DEF Types, QueueTypes, ClientTypes, Quiet
    <3>4. PICK R : R = Rows(boxes) /\ R = Rows(listed[c])'
      BY <3>3 DEF Rows
    <3>5. Len(R) \in Nat /\ Len(R) >= 1
      BY <3>2, <3>4, RowsAreMany
    <3>6. Sent(c)' = 0
      BY <3>3, <3>4, <3>5 DEF Sent
    <3>7. Read(c)' = 0
      <4>1. W!int8(0) # W!int8(1)
        BY DEF W!int8, W!Part
      <4> QED
        BY <3>3, <4>1 DEF Read
    <3>8. Holds(session_pipe[c], Row, OnTheWay(c))'
      <4>1. OnTheWay(c)' = <<>>
        BY <3>6, <3>7 DEF OnTheWay, Window
      <4> QED
        BY <3>3, <4>1 DEF Holds, Row
    <3>9. ListingSound(c)'
      <4>1. \A i \in 1 .. Len(listing'[c]) : listing'[c][i] = Rows(listed[c])'[Sent(c)' + i]
        BY <3>3, <3>4, <3>5, <3>6
      <4>2. (pc[c] = "listing" =>
               last[c] = W!int8(IF Read(c) = Len(Rows(listed[c])) THEN 1 ELSE 0))'
        BY <3>3, <3>4, <3>5, <3>7
      <4>3. Len(rows'[c]) = 0 /\ Len(listed'[c]) \in Nat
        BY <3>2, <3>3
      <4> QED
        BY <3>3, <3>4, <3>5, <3>6, <3>7, <3>8, <4>1, <4>2, <4>3 DEF ListingSound
    <3> QED
      BY <2>4, <2>8, <3>9 DEF ClientSound
  <2> QED
    BY <1>5, <2>6, <2>7, <2>8 DEF Codes
<1> QED
  BY <1>7, <1>8

LEMMA WorkerKeepsQueue ==
    ASSUME QueueInv, NEW w \in Workers, WorkerServes(w)
    PROVE  QueueInv'
<1> USE DEF QueueInv
<1>1. PICK k : k = taken[w]
  OBVIOUS
<1>2. /\ k # 0 /\ taken' = [taken EXCEPT ![w] = 0]
      /\ overtaken' = overtaken \cup {j \in {k} : Later(j) # {}}
      /\ UNCHANGED <<register_pipe, asked, elements>>
  BY <1>1 DEF WorkerServes
<1>3. k \in 1 .. Len(served) /\ Len(served) \in Nat
  BY <1>1, <1>2 DEF InOrder, QueueTypes
<1>4. /\ served' \in Seq(Outcome) /\ Len(served') = Len(served)
      /\ \A i \in 1 .. Len(served) : i # k => served'[i] = served[i]
  BY <1>1, <1>3, WorkerIsDecoding, DecodesAnOutcome DEF QueueTypes
<1>5. k \in overtaken' \/ served'[k] = asked[k]
  <2>1. CASE Later(k) = {}
    <3>1. served' = [served EXCEPT ![k] = asked[k]]
      BY <1>1, <2>1, WorkerDecodes
    <3> QED
      BY <1>3, <3>1 DEF QueueTypes
  <2>2. CASE Later(k) # {}
    BY <1>2, <2>2
  <2> QED
    BY <2>1, <2>2
<1>6. /\ taken' \in [Workers -> Nat] /\ taken'[w] = 0
      /\ \A v \in Workers : v # w => taken'[v] = taken[v] /\ taken[v] # k
  BY <1>1, <1>2 DEF InOrder, QueueTypes
<1>7. QueueTypes'
  BY <1>2, <1>4, <1>6 DEF QueueTypes
<1>8. Unread' = Unread
  BY <1>2 DEF Unread, Bytes
<1>9. ASSUME NEW i \in 1 .. Len(served)
      PROVE  /\ i \in overtaken' \/ served'[i] \in {Nothing, asked[i]}
             /\ i \in overtaken' \/ served'[i] = asked[i] \/ \E v \in Workers : taken'[v] = i
  <2>1. CASE i = k
    BY <1>5, <2>1
  <2>2. CASE i # k
    <3>1. ASSUME NEW v \in Workers, taken[v] = i PROVE taken'[v] = i
      BY <1>1, <1>6, <2>2, <3>1
    <3>2. overtaken \subseteq overtaken'
      BY <1>2
    <3> QED
      BY <1>4, <2>2, <3>1, <3>2 DEF InOrder
  <2> QED
    BY <2>1, <2>2
<1>10. ASSUME NEW v \in Workers, taken'[v] # 0
       PROVE  taken'[v] \in 1 .. Len(served) /\ served'[taken'[v]] = Nothing
  BY <1>4, <1>6, <1>10 DEF InOrder
<1>11. ASSUME NEW u \in Workers, NEW v \in Workers, taken'[u] # 0, taken'[u] = taken'[v]
       PROVE  u = v
  BY <1>6, <1>11 DEF InOrder
<1>12. InOrder'
  <2>1. Len(served') <= Len(elements') /\ Len(elements') <= Len(asked')
    BY <1>2, <1>4 DEF InOrder
  <2>2. \A i \in 1 .. Len(elements') : elements'[i] = Bytes(asked'[i])
    BY <1>2 DEF InOrder
  <2>3. Holds(register_pipe', Register, Unread')
    BY <1>2, <1>8 DEF InOrder
  <2> QED
    BY <1>2, <1>4, <1>9, <1>10, <1>11, <2>1, <2>2, <2>3 DEF InOrder, Bytes
<1> QED
  BY <1>7, <1>12

LEMMA WorkerKeepsClients ==
    ASSUME Sound, NEW w \in Workers, WorkerServes(w), overtaken' = {}
    PROVE  ClientsInv'
<1> USE DEF Sound
<1>1. PICK k, r : k = taken[w] /\ r = asked[k]
  OBVIOUS
<1>2. /\ Later(k) = {} /\ r \in RequestType
      /\ Serve(r.path, r.code)
      /\ UNCHANGED <<pc, asked, last, errors, rows>>
  <2>1. Later(k) = {}
    BY <1>1 DEF WorkerServes
  <2>2. QueueInv
    BY DEF QueueInv, Types
  <2>3. UNCHANGED <<pc, asked, last, errors, rows>>
    BY DEF WorkerServes, managerVars
  <2> QED
    BY <1>1, <2>1, <2>2, <2>3, WorkerDecodes
<1>3. /\ session_pipe' \in [Clients -> Seq(Byte)]
      /\ answered' \in [Clients -> ReturnCodes \cup {None}]
      /\ listed' \in [Clients -> Seq(Box)]
      /\ listing' \in [Clients -> Seq(Array(Row))]
  <2>0. r.path \in Clients /\ r.code \in Codes
    BY <1>2 DEF RequestType, Codes
  <2>1. CASE r.code \in {1, 2}
    <3>1. UNCHANGED <<session_pipe, answered, listed, listing>>
      BY <1>2, <2>1 DEF Serve, answerVars
    <3> QED
      BY <3>1 DEF Types, QueueTypes, ClientTypes
  <2>2. CASE r.code \in {3, 5}
    <3>1. PICK code \in ReturnCodes :
             /\ answered' = [answered EXCEPT ![r.path] = code]
             /\ session_pipe' =
                   [session_pipe EXCEPT ![r.path] = write(@, ReplyTo(code), Reply)]
             /\ UNCHANGED <<listing, listed>>
      BY <1>2, <2>2 DEF Serve
    <3>2. \A pipe \in Seq(Byte) : write(pipe, ReplyTo(code), Reply) \in Seq(Byte)
      <4>1. PICK bytes : bytes = ReplyTo(code)
        OBVIOUS
      <4>2. bytes \in Array(Reply)
        BY <4>1, ReplyIsDecoded, SMTT(40)
      <4>3. [b \in 1 .. Reply |-> bytes[b - 1]] \in Seq(Byte)
        BY <4>2 DEF Array, Reply
      <4> QED
        BY <4>1, <4>3 DEF write
    <3> QED
      BY <3>1, <3>2 DEF Types, QueueTypes, ClientTypes
  <2>3. CASE r.code = 7
    <3>1. PICK boxes \in UNION {[1 .. n -> Box] : n \in 0 .. MaxListed} :
             /\ listed' = [listed EXCEPT ![r.path] = boxes]
             /\ listing' = [listing EXCEPT ![r.path] = Rows(boxes)]
             /\ UNCHANGED <<session_pipe, answered>>
      BY <1>2, <2>3 DEF Serve
    <3>2. boxes \in Seq(Box)
      BY <3>1, RequestsAssumption
    <3>3. Rows(boxes) \in Seq(Array(Row))
      BY <3>2, RowsAreSent
    <3> QED
      BY <3>1, <3>2, <3>3 DEF Types, QueueTypes, ClientTypes
  <2> QED
    BY <2>0, <2>1, <2>2, <2>3 DEF Codes
<1>4. ClientTypes'
  BY <1>2, <1>3 DEF Types, ClientTypes
<1>5. AskedOnce'
  BY <1>2 DEF AskedOnce, After
<1>6. \A c \in Clients : ClientSound(c)'
  BY <1>1, <1>2, WorkerServesOne
<1> QED
  BY <1>4, <1>5, <1>6 DEF ClientsInv, ClientsSound, ClientSound

LEMMA WindowTypes ==
    ASSUME NEW S, NEW R \in Seq(S), NEW d \in Nat, NEW s \in Nat, d <= s, s <= Len(R)
    PROVE  /\ Window(R, d, s) \in Seq(S) /\ Len(Window(R, d, s)) = s - d
           /\ \A j \in 1 .. s - d : Window(R, d, s)[j] = R[d + j]
<1>1. \A j \in 1 .. s - d : d + j \in 1 .. Len(R)
  OBVIOUS
<1>2. \A j \in 1 .. s - d : R[d + j] \in S
  BY <1>1
<1>3. s - d \in Nat
  OBVIOUS
<1> QED
  BY <1>2, <1>3 DEF Window

LEMMA WindowGrows ==
    ASSUME NEW S, NEW R \in Seq(S), NEW d \in Nat, NEW s \in Nat, d <= s, s + 1 <= Len(R)
    PROVE  Window(R, d, s + 1) = Append(Window(R, d, s), R[s + 1])
<1> DEFINE new == Window(R, d, s + 1)
           old == Window(R, d, s)
           longer == Append(old, R[s + 1])
<1>0. PICK e \in Nat : e = s + 1
  OBVIOUS
<1>1. /\ new \in Seq(S) /\ Len(new) = s + 1 - d
      /\ \A j \in 1 .. s + 1 - d : new[j] = R[d + j]
  <2>1. d <= e /\ e <= Len(R)
    BY <1>0
  <2>2. Window(R, d, e) \in Seq(S)
    BY <2>1, WindowTypes
  <2>3. Len(Window(R, d, e)) = e - d
    BY <2>1, WindowTypes
  <2>4. \A j \in 1 .. e - d : Window(R, d, e)[j] = R[d + j]
    BY <2>1, WindowTypes
  <2> QED
    BY <1>0, <2>2, <2>3, <2>4
<1>2. /\ old \in Seq(S) /\ Len(old) = s - d
      /\ \A j \in 1 .. s - d : old[j] = R[d + j]
  <2>1. s <= Len(R)
    OBVIOUS
  <2>2. Window(R, d, s) \in Seq(S)
    BY <2>1, WindowTypes
  <2>3. Len(Window(R, d, s)) = s - d
    BY <2>1, WindowTypes
  <2>4. \A j \in 1 .. s - d : Window(R, d, s)[j] = R[d + j]
    BY <2>1, WindowTypes
  <2> QED
    BY <2>2, <2>3, <2>4
<1>3. R[s + 1] \in S
  OBVIOUS
<1> HIDE DEF new, old
<1>4. /\ longer \in Seq(S) /\ Len(longer) = s - d + 1
      /\ \A j \in 1 .. s - d : longer[j] = old[j]
      /\ longer[s - d + 1] = R[s + 1]
  BY <1>2, <1>3
<1> HIDE DEF longer
<1>5. ASSUME NEW j \in 1 .. Len(new) PROVE new[j] = longer[j]
  <2>1. CASE j \in 1 .. s - d
    BY <1>1, <1>2, <1>4, <2>1
  <2>2. CASE j = s - d + 1
    <3>1. d + j = s + 1
      BY <2>2
    <3> QED
      BY <1>1, <1>4, <2>2, <3>1
  <2> QED
    BY <1>1, <2>1, <2>2
<1>6. new = longer
  BY <1>1, <1>4, <1>5, SeqEqual
<1> QED
  BY <1>6 DEF new, old, longer

LEMMA WindowShrinks ==
    ASSUME NEW S, NEW R \in Seq(S), NEW d \in Nat, NEW s \in Nat, d + 1 <= s, s <= Len(R)
    PROVE  Window(R, d + 1, s) = Tail(Window(R, d, s))
<1> DEFINE new == Window(R, d + 1, s)
           old == Window(R, d, s)
           rest == Tail(old)
<1>0. PICK e \in Nat : e = d + 1
  OBVIOUS
<1>1. /\ new \in Seq(S) /\ Len(new) = s - d - 1
      /\ \A j \in 1 .. s - d - 1 : new[j] = R[d + 1 + j]
  <2>1. e <= s /\ s - e = s - d - 1
    BY <1>0
  <2>2. Window(R, e, s) \in Seq(S)
    BY <2>1, WindowTypes
  <2>3. Len(Window(R, e, s)) = s - e
    BY <2>1, WindowTypes
  <2>4. \A j \in 1 .. s - e : Window(R, e, s)[j] = R[e + j]
    BY <2>1, WindowTypes, ZenonT(60)
  <2> QED
    BY <1>0, <2>1, <2>2, <2>3, <2>4
<1>2. /\ old \in Seq(S) /\ Len(old) = s - d
      /\ \A j \in 1 .. s - d : old[j] = R[d + j]
  <2>1. d <= s
    OBVIOUS
  <2>2. Window(R, d, s) \in Seq(S)
    BY <2>1, WindowTypes
  <2>3. Len(Window(R, d, s)) = s - d
    BY <2>1, WindowTypes
  <2>4. \A j \in 1 .. s - d : Window(R, d, s)[j] = R[d + j]
    BY <2>1, WindowTypes
  <2> QED
    BY <2>2, <2>3, <2>4
<1> HIDE DEF new, old
<1>3. /\ rest \in Seq(S) /\ Len(rest) = s - d - 1
      /\ \A j \in 1 .. s - d - 1 : rest[j] = old[j + 1]
  BY <1>2
<1> HIDE DEF rest
<1>4. ASSUME NEW j \in 1 .. Len(new) PROVE new[j] = rest[j]
  <2>1. j \in 1 .. s - d - 1 /\ j + 1 \in 1 .. s - d /\ d + (j + 1) = d + 1 + j
    BY <1>1
  <2>2. rest[j] = R[d + (j + 1)]
    BY <1>2, <1>3, <2>1
  <2> QED
    BY <1>1, <2>1, <2>2
<1>5. new = rest
  BY <1>1, <1>3, <1>4, SeqEqual
<1> QED
  BY <1>5 DEF new, old, rest

LEMMA QueueStays ==
    ASSUME QueueInv, UNCHANGED <<asked, elements, register_pipe, workerVars>>
    PROVE  QueueInv'
<1>1. Unread' = Unread
  BY DEF Unread, Bytes
<1>2. InOrder'
  BY <1>1 DEF QueueInv, InOrder, Bytes, workerVars, Holds, Register
<1> QED
  BY <1>2 DEF QueueInv, QueueTypes, workerVars

LEMMA AskedOnceStays ==
    ASSUME Sound, NEW c \in Clients, asked' = asked,
           \A d \in Clients : d # c => pc'[d] = pc[d],
           pc[c] # "start", pc'[c] # "start",
           \A code \in Codes : pc[c] \in After(code) => pc'[c] \in After(code)
    PROVE  AskedOnce'
<1>1. ASSUME NEW i \in 1 .. Len(asked) PROVE pc'[asked[i].path] \in After(asked[i].code)
  <2>1. asked[i].path \in Clients /\ asked[i].code \in Codes
    BY AskedTypes DEF Sound, Types
  <2>2. pc[asked[i].path] \in After(asked[i].code)
    BY DEF Sound, AskedOnce
  <2> QED
    BY <2>1, <2>2
<1>2. ASSUME NEW d \in Clients, pc'[d] # "start"
      PROVE  \E i \in 1 .. Len(asked) : asked[i].path = d
  BY <1>2 DEF Sound, AskedOnce
<1>3. \A i, j \in 1 .. Len(asked) : asked[i].path = asked[j].path => i = j
  BY DEF Sound, AskedOnce
<1> QED
  BY <1>1, <1>2, <1>3 DEF AskedOnce, After

LEMMA ServedStays ==
    ASSUME served' = served, NEW c
    PROVE  /\ ServedAs(c, {3, 5})' <=> ServedAs(c, {3, 5})
           /\ ServedAs(c, {7})' <=> ServedAs(c, {7})
           /\ ServedAs(c, {3, 5, 7})' <=> ServedAs(c, {3, 5, 7})
BY DEF ServedAs

\* The records on their way to a manager are those sent and not read.
LEMMA OnTheWayTypes ==
    ASSUME Types, NEW c \in Clients, ListingSound(c)
    PROVE  /\ listed[c] \in Seq(Box) /\ rows[c] \in Seq({Shown(b) : b \in Box})
           /\ Rows(listed[c]) \in Seq(Array(Row))
           /\ Len(Rows(listed[c])) \in Nat /\ Len(Rows(listed[c])) >= 1
           /\ Read(c) \in Nat /\ Sent(c) \in Nat
           /\ Len(listing[c]) \in Nat /\ Len(Rows(listed[c])) = Sent(c) + Len(listing[c])
           /\ OnTheWay(c) \in Seq(Array(Row)) /\ Len(OnTheWay(c)) = Sent(c) - Read(c)
           /\ \A j \in 1 .. Sent(c) - Read(c) : OnTheWay(c)[j] = Rows(listed[c])[Read(c) + j]
<1>1. listed[c] \in Seq(Box) /\ rows[c] \in Seq({Shown(b) : b \in Box})
  BY DEF Types, QueueTypes, ClientTypes
<1>2. PICK R : R = Rows(listed[c])
  OBVIOUS
<1>3. R \in Seq(Array(Row)) /\ Len(R) \in Nat /\ Len(R) >= 1
  BY <1>1, <1>2, RowsAreSent, RowsAreMany
<1>4. Len(listing[c]) \in Nat
  BY DEF Types, QueueTypes, ClientTypes
<1>5. Read(c) \in Nat
  BY <1>1 DEF Read
<1>6. Read(c) <= Sent(c) /\ Sent(c) <= Len(R)
  BY <1>2 DEF ListingSound
<1>7. Sent(c) \in Nat /\ Len(R) = Sent(c) + Len(listing[c])
  <2>1. Sent(c) = Len(R) - Len(listing[c])
    BY <1>2 DEF Sent
  <2> QED
    BY <1>3, <1>4, <1>5, <1>6, <2>1
<1>8. /\ OnTheWay(c) \in Seq(Array(Row)) /\ Len(OnTheWay(c)) = Sent(c) - Read(c)
      /\ \A j \in 1 .. Sent(c) - Read(c) : OnTheWay(c)[j] = R[Read(c) + j]
  BY <1>2, <1>3, <1>5, <1>6, <1>7, WindowTypes DEF OnTheWay
<1> QED
  BY <1>1, <1>2, <1>3, <1>4, <1>5, <1>7, <1>8

\* list_boxes sends the next of its records.
LEMMA SendKeepsClients ==
    ASSUME Sound, NEW c \in Clients, SendRow(c)
    PROVE  ClientsInv'
<1> USE DEF Sound
<1>1. /\ UNCHANGED <<pc, asked, served, answered, listed, last, errors, rows>>
      /\ listing[c] # <<>>
  BY DEF SendRow, managerVars, workerVars
<1>2. ServedAs(c, {7}) /\ ListingSound(c)
  BY <1>1, Standing DEF ClientsSound, ReplySound, Quiet
<1> DEFINE record == Head(listing[c])
           R == Rows(listed[c])
           pipe == session_pipe[c]
           pipe2 == write(pipe, record, Row)
<1>3. /\ Len(R) \in Nat /\ Read(c) \in Nat /\ Sent(c) \in Nat /\ Len(listing[c]) \in Nat
      /\ Len(R) = Sent(c) + Len(listing[c])
      /\ OnTheWay(c) \in Seq(Array(Row)) /\ Len(OnTheWay(c)) = Sent(c) - Read(c)
      /\ \A j \in 1 .. Sent(c) - Read(c) : OnTheWay(c)[j] = R[Read(c) + j]
      /\ R \in Seq(Array(Row))
  BY <1>2, OnTheWayTypes
<1>4. /\ Len(listing[c]) >= 1 /\ record = R[Sent(c) + 1] /\ record \in Array(Row)
      /\ Tail(listing[c]) \in Seq(Array(Row)) /\ Len(Tail(listing[c])) = Len(listing[c]) - 1
      /\ \A i \in 1 .. Len(listing[c]) - 1 : Tail(listing[c])[i] = listing[c][i + 1]
  <2>1. listing[c] \in Seq(Array(Row))
    BY DEF Types, QueueTypes, ClientTypes
  <2>2. /\ Len(listing[c]) >= 1 /\ record = listing[c][1] /\ record \in Array(Row)
        /\ Tail(listing[c]) \in Seq(Array(Row)) /\ Len(Tail(listing[c])) = Len(listing[c]) - 1
        /\ \A i \in 1 .. Len(listing[c]) - 1 : Tail(listing[c])[i] = listing[c][i + 1]
    BY <1>1, <2>1
  <2>3. listing[c][1] = R[Sent(c) + 1]
    BY <1>2, <1>3, <2>2 DEF ListingSound
  <2> QED
    BY <2>2, <2>3
<1>5. /\ session_pipe' = [session_pipe EXCEPT ![c] = pipe2]
      /\ session_pipe'[c] = pipe2
      /\ listing' = [listing EXCEPT ![c] = Tail(listing[c])]
      /\ listing'[c] = Tail(listing[c])
  BY DEF SendRow, Types, QueueTypes, ClientTypes
<1>6. pipe2 \in Seq(Byte) /\ Holds(pipe2, Row, Append(OnTheWay(c), record))
  <2>1. Row \in Nat \ {0}
    BY DEF Row
  <2>2. pipe \in Seq(Byte) /\ Holds(pipe, Row, OnTheWay(c))
    BY <1>2 DEF Types, QueueTypes, ClientTypes, ListingSound
  <2> HIDE DEF record, pipe
  <2> QED
    BY <1>3, <1>4, <2>1, <2>2, WriteAppends
<1>7. Rows(listed[c])' = R /\ Read(c)' = Read(c) /\ Sent(c)' = Sent(c) + 1
  <2>1. Rows(listed[c])' = R /\ Read(c)' = Read(c)
    BY <1>1 DEF Rows, Read
  <2>2. Sent(c)' = Len(R) - Len(listing'[c]) /\ Sent(c) = Len(R) - Len(listing[c])
    BY <2>1 DEF Sent
  <2> QED
    BY <1>3, <1>4, <1>5, <2>1, <2>2, SMTT(40)
<1>8. Read(c) <= Sent(c) /\ Sent(c) + 1 <= Len(R)
  BY <1>2, <1>3, <1>4 DEF ListingSound
<1>9. OnTheWay(c)' = Append(OnTheWay(c), record)
  <2>1. OnTheWay(c)' = Window(R, Read(c), Sent(c) + 1)
    BY <1>7 DEF OnTheWay
  <2>2. OnTheWay(c) = Window(R, Read(c), Sent(c))
    BY DEF OnTheWay
  <2>3. record = R[Sent(c) + 1]
    BY <1>4
  <2> HIDE DEF R, record
  <2> QED
    BY <1>3, <1>8, <2>1, <2>2, <2>3, WindowGrows, SMTT(40)
<1>10. ClientTypes'
  <2>1. session_pipe' \in [Clients -> Seq(Byte)]
    BY <1>5, <1>6 DEF Types, QueueTypes, ClientTypes
  <2>2. listing' \in [Clients -> Seq(Array(Row))]
    BY <1>4, <1>5 DEF Types, QueueTypes, ClientTypes
  <2> QED
    BY <1>1, <2>1, <2>2 DEF Types, QueueTypes, ClientTypes
<1>11. AskedOnce'
  BY <1>1 DEF AskedOnce, After
<1>12. ListingSound(c)'
  <2>1. ASSUME NEW i \in 1 .. Len(listing'[c]) PROVE listing'[c][i] = R[Sent(c) + 1 + i]
    <3>1. i \in 1 .. Len(listing[c]) - 1
      BY <1>4, <1>5
    <3>2. listing'[c][i] = R[Sent(c) + (i + 1)]
      <4>1. \A k \in 1 .. Len(listing[c]) : listing[c][k] = R[Sent(c) + k]
        BY <1>2 DEF ListingSound
      <4>2. i + 1 \in 1 .. Len(listing[c])
        BY <1>3, <3>1, SMTT(40)
      <4> QED
        BY <1>4, <1>5, <3>1, <4>1, <4>2
    <3>3. Sent(c) + (i + 1) = Sent(c) + 1 + i
      BY <1>3, <3>1, SMTT(40)
    <3> QED
      BY <3>2, <3>3
  <2>2. Holds(session_pipe[c], Row, OnTheWay(c))'
    BY <1>5, <1>6, <1>9, ZenonT(60) DEF Holds, Row
  <2>3. Read(c)' <= Sent(c)' /\ Sent(c)' <= Len(Rows(listed[c]))'
    BY <1>3, <1>7, <1>8
  <2> HIDE DEF R
  <2> QED
    BY <1>1, <1>2, <1>7, <2>1, <2>2, <2>3 DEF ListingSound, R
<1>13. ASSUME NEW d \in Clients PROVE ClientSound(d)'
  <2>1. CASE d = c
    BY <1>1, <1>2, <1>12, <2>1, Standing, ServedStays DEF ClientSound
  <2>2. CASE d # c
    <3>1. session_pipe'[d] = session_pipe[d] /\ listing'[d] = listing[d]
      BY <1>5, <2>2 DEF Types, QueueTypes, ClientTypes
    <3> QED
      BY <1>1, <3>1, OthersStaySound DEF ClientsInv, ClientsSound, ClientSound
  <2> QED
    BY <2>1, <2>2
<1> QED
  BY <1>10, <1>11, <1>13 DEF ClientsInv, ClientsSound, ClientSound

\* A manager gets the reply to its own request, whole, and it is all there is.
LEMMA ReplyKeepsClients ==
    ASSUME Sound, NEW c \in Clients, ReadReply(c)
    PROVE  ClientsInv'
<1> USE DEF Sound
<1>1. /\ UNCHANGED <<asked, served, listing, answered, listed, last, rows>>
      /\ pc[c] = "reply" /\ session_pipe[c] # <<>>
  BY DEF ReadReply, brokerVars, workerVars, answerVars
<1>2. ServedAs(c, {3, 5}) /\ ReplySound(c)
  BY <1>1, Standing DEF ClientsSound, Quiet
<1>3. answered[c] \in ReturnCodes
  BY <1>2 DEF ReplySound
<1>4. PICK bytes : bytes = ReplyTo(answered[c])
  OBVIOUS
<1>5. bytes \in Array(Reply) /\ Reply \in Nat \ {0}
  BY <1>3, <1>4, ReplyIsDecoded DEF Reply
<1>6. session_pipe[c] \in Seq(Byte) /\ Holds(session_pipe[c], Reply, <<bytes>>)
  BY <1>1, <1>2, <1>4 DEF Types, QueueTypes, ClientTypes, ReplySound
<1>7. PICK blank : blank = Unset(Reply)
  OBVIOUS
<1>8. /\ read(session_pipe[c], blank, Reply) = bytes
      /\ Taken(session_pipe[c], Reply) = <<>>
  <2>1. PICK records : records = <<bytes>>
    OBVIOUS
  <2>2. records \in Seq(Array(Reply)) /\ records[1] = bytes /\ Tail(records) = <<>>
    BY <1>5, <2>1
  <2>3. /\ read(session_pipe[c], blank, Reply) = records[1]
        /\ Taken(session_pipe[c], Reply) \in Seq(Byte)
        /\ Holds(Taken(session_pipe[c], Reply), Reply, Tail(records))
    BY <1>1, <1>5, <1>6, <2>1, <2>2, ReadTakesFirst, ZenonT(120)
  <2>4. Taken(session_pipe[c], Reply) = <<>>
    <3>1. Len(<<>>) = 0 /\ Len(<<>>) \in Nat
      OBVIOUS
    <3>2. Holds(Taken(session_pipe[c], Reply), Reply, <<>>)
      BY <2>2, <2>3
    <3> QED
      BY <1>5, <2>3, <3>1, <3>2, NoRecords
  <2> QED
    BY <2>2, <2>3, <2>4
<1>9. PICK was, reply :
         /\ was = [return_code |-> Unset(4), error_message |-> Unset(1024)]
         /\ reply = W!prot_decode_inbox_response(was, bytes, Reply)
  BY ZenonT(60)
<1>10. errors' = [errors EXCEPT ![c] =
            IF reply.return_code = W!int32(-1)
            THEN {Text(reply.error_message, {Message}, 1024)} ELSE {}]
  BY <1>7, <1>8, <1>9 DEF ReadReply
<1>11. errors'[c] = IF answered[c] = -1 THEN {Message} ELSE {}
  <2>0. PICK a \in ReturnCodes : a = answered[c] /\ bytes = ReplyTo(a)
    BY <1>3, <1>4
  <2>4. reply = W!prot_decode_inbox_response(was, ReplyTo(a), Reply)
    BY <1>9, <2>0
  <2>1. (reply.return_code = W!int32(-1)) <=> (a = -1)
    BY <2>4, ReplyIsDecoded
  <2>2. a = -1 => Text(reply.error_message, {Message}, 1024) = Message
    BY <2>4, ReplyIsDecoded
  <2>3. errors'[c] = IF reply.return_code = W!int32(-1)
                     THEN {Text(reply.error_message, {Message}, 1024)} ELSE {}
    BY <1>10 DEF Types, QueueTypes, ClientTypes
  <2> QED
    BY <2>0, <2>1, <2>2, <2>3
<1>12. /\ session_pipe' = [session_pipe EXCEPT ![c] = <<>>] /\ session_pipe'[c] = <<>>
       /\ pc' = [pc EXCEPT ![c] = "done"] /\ pc'[c] = "done"
  BY <1>8 DEF ReadReply, Types, QueueTypes, ClientTypes
<1>13. \A d \in Clients : d # c =>
          pc'[d] = pc[d] /\ session_pipe'[d] = session_pipe[d] /\ errors'[d] = errors[d]
  BY <1>10, <1>12 DEF Types, QueueTypes, ClientTypes
<1>14. ClientTypes'
  <2>1. errors' \in [Clients -> SUBSET {Message}]
    <3>1. PICK e : e = (IF reply.return_code = W!int32(-1)
                        THEN {Text(reply.error_message, {Message}, 1024)} ELSE {})
      BY ZenonT(60)
    <3>2. errors' = [errors EXCEPT ![c] = e] /\ errors'[c] = e
      BY <1>10, <3>1 DEF Types, QueueTypes, ClientTypes
    <3>3. e \in SUBSET {Message}
      BY <1>11, <3>2
    <3> QED
      BY <3>2, <3>3 DEF Types, QueueTypes, ClientTypes
  <2>2. session_pipe' \in [Clients -> Seq(Byte)]
    BY <1>12 DEF Types, QueueTypes, ClientTypes
  <2>3. pc' \in [Clients -> {"start", "session", "reply", "list", "listing", "left", "done"}]
    BY <1>12 DEF Types, QueueTypes, ClientTypes
  <2> QED
    BY <1>1, <2>1, <2>2, <2>3 DEF Types, QueueTypes, ClientTypes
<1>15. AskedOnce'
  <2>1. \A code \in Codes : pc[c] \in After(code) => pc'[c] \in After(code)
    BY <1>1, <1>12 DEF After, Codes
  <2> QED
    BY <1>1, <1>12, <1>13, <2>1, AskedOnceStays
<1>16. ReplySound(c)'
  BY <1>1, <1>2, <1>11, <1>12 DEF ReplySound
<1>17. ASSUME NEW d \in Clients PROVE ClientSound(d)'
  <2>1. CASE d = c
    BY <1>1, <1>2, <1>16, <2>1, Standing, ServedStays DEF ClientSound
  <2>2. CASE d # c
    BY <1>1, <1>13, <2>2, OthersStaySound DEF ClientsInv, ClientsSound, ClientSound
  <2> QED
    BY <2>1, <2>2
<1> QED
  BY <1>14, <1>15, <1>17 DEF ClientsInv, ClientsSound, ClientSound

\* A manager tests `last', which holds anything, before its first read.
LEMMA StartKeepsClients ==
    ASSUME Sound, NEW c \in Clients, StartListing(c)
    PROVE  ClientsInv'
<1> USE DEF Sound
<1>1. /\ UNCHANGED <<session_pipe, asked, served, listing, answered,
                     listed, errors, rows>>
      /\ pc[c] = "list"
  BY DEF StartListing, brokerVars, workerVars, answerVars
<1>2. PICK v \in {0, 1} :
         /\ last' = [last EXCEPT ![c] = W!int8(v)]
         /\ pc' = [pc EXCEPT ![c] = IF v = 1 THEN "left" ELSE "listing"]
  BY DEF StartListing
<1>3. /\ last'[c] = W!int8(v) /\ pc'[c] = IF v = 1 THEN "left" ELSE "listing"
      /\ \A d \in Clients : d # c => pc'[d] = pc[d] /\ last'[d] = last[d]
  BY <1>2 DEF Types, QueueTypes, ClientTypes
<1>4. W!int8(0) # W!int8(1)
  BY DEF W!int8, W!Part
<1>5. ClientTypes'
  <2>1. last' \in [Clients -> {Stray, W!int8(0), W!int8(1)}]
    BY <1>2 DEF Types, QueueTypes, ClientTypes
  <2>2. pc' \in [Clients -> {"start", "session", "reply", "list", "listing", "left", "done"}]
    BY <1>2 DEF Types, QueueTypes, ClientTypes
  <2> QED
    BY <1>1, <2>1, <2>2 DEF Types, QueueTypes, ClientTypes
<1>6. AskedOnce'
  <2>1. \A code \in Codes : pc[c] \in After(code) => pc'[c] \in After(code)
    BY <1>1, <1>3 DEF After, Codes
  <2> QED
    BY <1>1, <1>3, <2>1, AskedOnceStays
<1>7. ~ServedAs(c, {3, 5})
  BY <1>1, Standing
<1>8. CASE ServedAs(c, {7})
  <2>1. ListingSound(c)
    BY <1>8 DEF ClientsSound
  <2>2. Read(c) = 0 /\ Len(Rows(listed[c])) >= 1 /\ Len(Rows(listed[c])) \in Nat
    BY <1>1, <2>1, OnTheWayTypes DEF ListingSound
  <2>3. Read(c)' = 0
    BY <1>1, <1>3, <1>4, <2>2 DEF Read
  <2>4. Rows(listed[c])' = Rows(listed[c])
    BY <1>1 DEF Rows
  <2>5. Sent(c)' = Sent(c)
    BY <1>1, <2>4 DEF Sent
  <2>6. OnTheWay(c)' = OnTheWay(c)
    BY <2>2, <2>3, <2>4, <2>5 DEF OnTheWay, Window
  <2>7. pc'[c] = "listing" => last'[c] = W!int8(IF 0 = Len(Rows(listed[c])) THEN 1 ELSE 0)
    BY <1>3, <2>2
  <2>8. pc'[c] # "done"
    BY <1>3
  <2>9. ListingSound(c)'
    BY <1>1, <2>1, <2>2, <2>3, <2>4, <2>5, <2>6, <2>7, <2>8 DEF ListingSound, Holds
  <2> QED
    BY <1>1, <1>3, <1>5, <1>6, <1>8, <2>9, Standing, ServedStays, OthersStaySound
       DEF ClientsInv, ClientsSound, ClientSound
<1>9. CASE ~ServedAs(c, {7})
  <2>1. Quiet(c) /\ ~ServedAs(c, {3, 5, 7})
    BY <1>7, <1>9, Standing DEF ClientsSound
  <2>2. Quiet(c)'
    BY <1>1, <1>3, <2>1 DEF Quiet
  <2> QED
    BY <1>1, <1>3, <1>5, <1>6, <1>7, <1>9, <2>2, ServedStays, OthersStaySound
       DEF ClientsInv, ClientsSound, ClientSound
<1> QED
  BY <1>8, <1>9

\* A manager gets the next record of its listing, whole.
LEMMA RowKeepsClients ==
    ASSUME Sound, NEW c \in Clients, ReadRow(c)
    PROVE  ClientsInv'
<1> USE DEF Sound
<1>1. /\ UNCHANGED <<pc, asked, served, listing, answered, listed, errors>>
      /\ pc[c] = "listing" /\ last[c] # W!int8(1) /\ session_pipe[c] # <<>>
  BY DEF ReadRow, brokerVars, workerVars, answerVars
<1>2. ServedAs(c, {7}) /\ ListingSound(c)
  BY <1>1, Standing DEF ClientsSound, Quiet
<1>3. PICK R, boxes, n : R = Rows(listed[c]) /\ boxes = listed[c] /\ n = Read(c)
  OBVIOUS
<1>4. /\ boxes \in Seq(Box) /\ R = Rows(boxes)
      /\ R \in Seq(Array(Row)) /\ Len(R) \in Nat /\ Len(R) >= 1
      /\ n \in Nat /\ Sent(c) \in Nat
      /\ OnTheWay(c) \in Seq(Array(Row)) /\ Len(OnTheWay(c)) = Sent(c) - n
      /\ \A j \in 1 .. Sent(c) - n : OnTheWay(c)[j] = R[n + j]
      /\ Sent(c) <= Len(R) /\ n <= Sent(c)
  BY <1>2, <1>3, OnTheWayTypes DEF ListingSound
<1>5. PICK blank : blank = Unset(Row)
  OBVIOUS
<1>6. /\ OnTheWay(c) # <<>>
      /\ read(session_pipe[c], blank, Row) = OnTheWay(c)[1]
      /\ Taken(session_pipe[c], Row) \in Seq(Byte)
      /\ Holds(Taken(session_pipe[c], Row), Row, Tail(OnTheWay(c)))
  <2>1. session_pipe[c] \in Seq(Byte) /\ Holds(session_pipe[c], Row, OnTheWay(c))
    BY <1>2 DEF Types, QueueTypes, ClientTypes, ListingSound
  <2>2. Row \in Nat \ {0}
    BY DEF Row
  <2> QED
    BY <1>1, <1>4, <2>1, <2>2, ReadTakesFirst, ZenonT(120)
<1>7. n + 1 <= Sent(c) /\ OnTheWay(c)[1] = R[n + 1] /\ n + 1 \in 1 .. Len(R)
  <2>1. Len(OnTheWay(c)) >= 1
    BY <1>4, <1>6
  <2>2. n + 1 <= Sent(c) /\ 1 \in 1 .. Sent(c) - n
    BY <1>4, <2>1
  <2>3. OnTheWay(c)[1] = R[n + 1]
    BY <1>4, <2>2
  <2>4. n + 1 \in 1 .. Len(R)
    BY <1>4, <2>2
  <2> QED
    BY <2>2, <2>3, <2>4
<1>8. PICK row : row = W!prot_decode_inbox_listing_resp([last |-> last[c]], R[n + 1], Row)
  OBVIOUS
<1>9. /\ last' = [last EXCEPT ![c] = row.last]
      /\ IF row.last = W!int8(1) /\ row.box_name[0] = Nul
         THEN UNCHANGED rows
         ELSE rows' = [rows EXCEPT ![c] = Append(@,
                 [name          |-> Text(row.box_name, Boxes, 32),
                  size          |-> row.box_size,
                  n_publishers  |-> row.n_publishers,
                  n_subscribers |-> row.n_subscribers])]
      /\ session_pipe' = [session_pipe EXCEPT ![c] = Taken(@, Row)]
  BY <1>5, <1>6, <1>7, <1>8 DEF ReadRow
<1>10. /\ row.last = W!int8(IF n + 1 = Len(R) THEN 1 ELSE 0)
       /\ row.box_name[0] = Nul <=> boxes = <<>>
       /\ boxes # <<>> =>
            [name          |-> Text(row.box_name, Boxes, 32),
             size          |-> row.box_size,
             n_publishers  |-> row.n_publishers,
             n_subscribers |-> row.n_subscribers] = Shown(boxes[n + 1])
  <2>1. PICK i \in 1 .. Len(Rows(boxes)) : i = n + 1
    BY <1>4, <1>7
  <2>2. row = W!prot_decode_inbox_listing_resp([last |-> last[c]], Rows(boxes)[i], Row)
    BY <1>4, <1>8, <2>1
  <2>6. boxes \in Seq(Box)
    BY <1>4
  <2>3. row.last = W!int8(IF i = Len(Rows(boxes)) THEN 1 ELSE 0)
    BY <2>2, <2>6, RowIsRead
  <2>4. row.box_name[0] = Nul <=> boxes = <<>>
    BY <2>2, <2>6, RowIsRead, ZenonT(60)
  <2>5. boxes # <<>> =>
            [name          |-> Text(row.box_name, Boxes, 32),
             size          |-> row.box_size,
             n_publishers  |-> row.n_publishers,
             n_subscribers |-> row.n_subscribers] = Shown(boxes[i])
    BY <2>2, <2>6, RowIsRead
  <2> QED
    BY <1>4, <2>1, <2>3, <2>4, <2>5
<1>11. W!int8(0) # W!int8(1)
  BY DEF W!int8, W!Part
<1>12. /\ last'[c] = W!int8(IF n + 1 = Len(R) THEN 1 ELSE 0)
       /\ session_pipe'[c] = Taken(session_pipe[c], Row)
       /\ last' \in [Clients -> {Stray, W!int8(0), W!int8(1)}]
       /\ session_pipe' \in [Clients -> Seq(Byte)]
  <2>1. PICK l : l = W!int8(IF n + 1 = Len(R) THEN 1 ELSE 0) /\ l \in {W!int8(0), W!int8(1)}
    OBVIOUS
  <2>2. last' = [last EXCEPT ![c] = l]
    BY <1>9, <1>10, <2>1
  <2>3. last'[c] = l /\ last' \in [Clients -> {Stray, W!int8(0), W!int8(1)}]
    BY <2>1, <2>2 DEF Types, QueueTypes, ClientTypes
  <2>4. session_pipe'[c] = Taken(session_pipe[c], Row)
    BY <1>9 DEF Types, QueueTypes, ClientTypes
  <2>5. session_pipe' \in [Clients -> Seq(Byte)]
    BY <1>6, <1>9 DEF Types, QueueTypes, ClientTypes
  <2> QED
    BY <2>1, <2>3, <2>4, <2>5
<1>13. /\ rows' \in [Clients -> Seq({Shown(b) : b \in Box})]
       /\ Read(c)' = n + 1
       /\ \A d \in Clients : d # c => rows'[d] = rows[d]
       /\ Len(rows'[c]) <= Len(listed[c])
       /\ \A i \in 1 .. Len(rows'[c]) : rows'[c][i] = Shown(listed[c][i])
  <2>0. rows[c] \in Seq({Shown(b) : b \in Box}) /\ Len(rows[c]) \in Nat /\ Len(boxes) \in Nat
    <3>1. rows[c] \in Seq({Shown(b) : b \in Box})
      BY DEF Types, QueueTypes, ClientTypes
    <3>2. Len(rows[c]) \in Nat
      BY <3>1
    <3>3. Len(boxes) \in Nat
      BY <1>4
    <3> QED
      BY <3>1, <3>2, <3>3
  <2>1. CASE boxes = <<>>
    <3>1. Len(R) = 1 /\ n + 1 = 1
      <4>1. Len(R) = 1
        BY <1>4, <2>1, RowsAreMany
      <4> QED
        BY <1>4, <1>7, <4>1
    <3>2. last'[c] = W!int8(1) /\ rows' = rows
      BY <1>9, <1>10, <1>12, <2>1, <3>1
    <3>3. Read(c)' = 1
      BY <1>1, <1>3, <2>1, <3>2 DEF Read
    <3> QED
      BY <1>2, <3>1, <3>2, <3>3 DEF Types, QueueTypes, ClientTypes, ListingSound
  <2>2. CASE boxes # <<>>
    <3>1. n = Len(rows[c]) /\ Len(R) = Len(boxes)
      BY <1>3, <1>4, <2>2, RowsAreMany DEF Read
    <3>2. PICK line : line = Shown(boxes[n + 1]) /\ line \in {Shown(b) : b \in Box}
      <4>1. boxes[n + 1] \in Box
        BY <1>4, <1>7, <3>1
      <4> QED
        BY <4>1
    <3>3. rows' = [rows EXCEPT ![c] = Append(@, line)]
      BY <1>9, <1>10, <2>2, <3>2
    <3>4. rows'[c] = Append(rows[c], line) /\ \A d \in Clients : d # c => rows'[d] = rows[d]
      BY <3>3 DEF Types, QueueTypes, ClientTypes
    <3>5. /\ Append(rows[c], line) \in Seq({Shown(b) : b \in Box})
          /\ Len(rows'[c]) = n + 1
          /\ rows'[c][n + 1] = line
          /\ \A i \in 1 .. n : rows'[c][i] = rows[c][i]
      BY <2>0, <3>1, <3>2, <3>4
    <3>6. rows' \in [Clients -> Seq({Shown(b) : b \in Box})]
      BY <3>3, <3>5 DEF Types, QueueTypes, ClientTypes
    <3>7. Read(c)' = n + 1
      BY <1>1, <1>3, <2>2, <3>5 DEF Read
    <3>8. Len(rows'[c]) <= Len(listed[c])
      BY <1>3, <1>7, <3>1, <3>5
    <3>9. ASSUME NEW i \in 1 .. Len(rows'[c]) PROVE rows'[c][i] = Shown(listed[c][i])
      <4>1. CASE i \in 1 .. n
        <5>1. rows[c][i] = Shown(listed[c][i])
          BY <1>2, <3>1, <4>1 DEF ListingSound
        <5> QED
          BY <3>5, <4>1, <5>1
      <4>2. CASE i = n + 1
        BY <1>3, <3>2, <3>5, <4>2
      <4> QED
        BY <1>4, <3>5, <4>1, <4>2
    <3> QED
      BY <3>4, <3>6, <3>7, <3>8, <3>9
  <2> QED
    BY <2>1, <2>2
<1>14. \A d \in Clients : d # c => session_pipe'[d] = session_pipe[d] /\ last'[d] = last[d]
  BY <1>9 DEF Types, QueueTypes, ClientTypes
<1>15. ClientTypes'
  BY <1>1, <1>12, <1>13 DEF Types, QueueTypes, ClientTypes
<1>16. AskedOnce'
  BY <1>1 DEF AskedOnce, After
<1>17. ListingSound(c)'
  <2>1. Rows(listed[c])' = R
    BY <1>1, <1>3 DEF Rows
  <2>2. Sent(c)' = Sent(c)
    BY <1>1, <1>3, <2>1 DEF Sent
  <2>3. OnTheWay(c)' = Tail(OnTheWay(c))
    <3>1. OnTheWay(c)' = Window(R, n + 1, Sent(c))
      BY <1>13, <2>1, <2>2 DEF OnTheWay
    <3>2. OnTheWay(c) = Window(R, n, Sent(c))
      BY <1>3 DEF OnTheWay
    <3> QED
      BY <1>4, <1>7, <3>1, <3>2, WindowShrinks, SMTT(40)
  <2>4. Holds(session_pipe[c], Row, OnTheWay(c))'
    BY <1>6, <1>12, <2>3, ZenonT(60) DEF Holds, Row
  <2>5. \A i \in 1 .. Len(listing'[c]) : listing'[c][i] = R[Sent(c) + i]
    BY <1>1, <1>2, <1>3 DEF ListingSound
  <2>6. answered'[c] = None /\ pc'[c] = "listing" /\ listed'[c] = listed[c]
    BY <1>1, <1>2 DEF ListingSound
  <2>7. Read(c)' <= Sent(c)' /\ Sent(c)' <= Len(R)
    BY <1>4, <1>7, <1>13, <2>2
  <2> QED
    BY <1>12, <1>13, <2>1, <2>2, <2>4, <2>5, <2>6, <2>7 DEF ListingSound
<1>18. ASSUME NEW d \in Clients PROVE ClientSound(d)'
  <2>1. CASE d = c
    BY <1>1, <1>2, <1>17, <2>1, Standing, ServedStays DEF ClientSound
  <2>2. CASE d # c
    BY <1>1, <1>13, <1>14, <2>2, OthersStaySound DEF ClientsInv, ClientsSound, ClientSound
  <2> QED
    BY <2>1, <2>2
<1> QED
  BY <1>15, <1>16, <1>18 DEF ClientsInv, ClientsSound, ClientSound

\* A manager leaves its loop behind the last record.
LEMMA EndKeepsClients ==
    ASSUME Sound, NEW c \in Clients, EndListing(c)
    PROVE  ClientsInv'
<1> USE DEF Sound
<1>1. /\ UNCHANGED <<session_pipe, asked, served, listing, answered,
                     listed, last, errors, rows>>
      /\ pc[c] = "listing" /\ last[c] = W!int8(1)
      /\ pc' = [pc EXCEPT ![c] = "done"]
  BY DEF EndListing, brokerVars, workerVars, answerVars, managerVars
<1>2. pc'[c] = "done" /\ \A d \in Clients : d # c => pc'[d] = pc[d]
  BY <1>1 DEF Types, QueueTypes, ClientTypes
<1>3. W!int8(0) # W!int8(1)
  BY DEF W!int8, W!Part
<1>4. ClientTypes'
  <2>1. pc' \in [Clients -> {"start", "session", "reply", "list", "listing", "left", "done"}]
    BY <1>1 DEF Types, QueueTypes, ClientTypes
  <2> QED
    BY <1>1, <2>1 DEF Types, QueueTypes, ClientTypes
<1>5. AskedOnce'
  <2>1. \A code \in Codes : pc[c] \in After(code) => pc'[c] \in After(code)
    BY <1>1, <1>2 DEF After, Codes
  <2> QED
    BY <1>1, <1>2, <2>1, AskedOnceStays
<1>6. ASSUME NEW d \in Clients, d # c PROVE ClientSound(d)'
  BY <1>1, <1>2, <1>6, OthersStaySound DEF ClientsInv, ClientsSound, ClientSound
<1>7. ServedAs(c, {7})
  <2>1. ~ServedAs(c, {3, 5})
    BY <1>1, Standing
  <2>2. ~Quiet(c)
    BY <1>1, <1>3 DEF Quiet
  <2> QED
    BY <2>1, <2>2, Standing DEF ClientsSound
<1>8. ListingSound(c)
  BY <1>7 DEF ClientsSound
<1>9. Read(c) = Len(Rows(listed[c]))
  BY <1>1, <1>3, <1>8 DEF ListingSound
<1>10. Rows(listed[c])' = Rows(listed[c])
  BY <1>1 DEF Rows
<1>11. Read(c)' = Read(c)
  BY <1>1, <1>2 DEF Read
<1>12. Sent(c)' = Sent(c)
  BY <1>1, <1>10 DEF Sent
<1>13. OnTheWay(c)' = OnTheWay(c)
  BY <1>10, <1>11, <1>12 DEF OnTheWay, Window
<1>14. ListingSound(c)'
  BY <1>1, <1>2, <1>8, <1>9, <1>10, <1>11, <1>12, <1>13 DEF ListingSound, Holds
<1>15. ClientSound(c)'
  BY <1>1, <1>7, <1>14, Standing, ServedStays DEF ClientSound
<1> QED
  BY <1>4, <1>5, <1>6, <1>15 DEF ClientsInv, ClientsSound, ClientSound

LEMMA StepKeepsInv == Inv /\ [Next]_vars => Inv'
<1> SUFFICES ASSUME Inv, [Next]_vars PROVE Inv'
  OBVIOUS
<1>0. QueueInv /\ (overtaken = {} => Sound)
  BY DEF Inv, QueueInv, ClientsInv, Sound, Types
<1>1. CASE UNCHANGED vars
  <2>1. UNCHANGED <<pc, register_pipe, session_pipe, asked, elements, workerVars, listing,
                    answered, listed, last, errors, rows>>
    BY <1>1 DEF vars, brokerVars, answerVars, managerVars
  <2>2. QueueInv'
    BY <1>0, <2>1, QueueStays
  <2>3. overtaken' = {} => ClientsInv'
    BY <1>0, <2>1, ClientsStay DEF workerVars
  <2> QED
    BY <2>2, <2>3 DEF Inv
<1>2. ASSUME NEW c \in Clients, NEW code \in Codes, NEW box \in Boxes, Ask(c, code, box)
      PROVE  Inv'
  <2>1. QueueInv'
    BY <1>0, <1>2, AskKeepsQueue
  <2>2. overtaken' = overtaken
    BY <1>2 DEF Ask, brokerVars, workerVars
  <2> QED
    BY <1>0, <1>2, <2>1, <2>2, AskKeepsClients DEF Inv
<1>3. CASE MainReads
  <2>1. overtaken' = overtaken
    BY <1>3 DEF MainReads, workerVars
  <2> QED
    BY <1>0, <1>3, <2>1, MainKeepsQueue, MainKeepsClients DEF Inv
<1>4. ASSUME NEW w \in Workers, WorkerDequeues(w) PROVE Inv'
  <2>1. QueueInv'
    BY <1>0, <1>4, DequeueKeepsQueue
  <2>2. overtaken' = overtaken
    BY <1>4 DEF WorkerDequeues
  <2> QED
    BY <1>0, <1>4, <2>1, <2>2, DequeueKeepsClients DEF Inv
<1>5. ASSUME NEW w \in Workers, WorkerServes(w) PROVE Inv'
  <2>1. QueueInv'
    BY <1>0, <1>5, WorkerKeepsQueue
  <2>2. overtaken' = {} => overtaken = {}
    BY <1>5 DEF WorkerServes
  <2> QED
    BY <1>0, <1>5, <2>1, <2>2, WorkerKeepsClients DEF Inv
<1>6. ASSUME NEW c \in Clients, SendRow(c) PROVE Inv'
  <2>1. UNCHANGED <<asked, elements, register_pipe, workerVars>>
    BY <1>6 DEF SendRow, brokerVars
  <2>2. QueueInv'
    BY <1>0, <2>1, QueueStays
  <2>3. overtaken = {} => ClientsInv'
    BY <1>0, <1>6, SendKeepsClients
  <2> QED
    BY <2>1, <2>2, <2>3 DEF Inv, workerVars
<1>7. ASSUME NEW c \in Clients, ReadReply(c) PROVE Inv'
  <2>1. UNCHANGED <<asked, elements, register_pipe, workerVars>>
    BY <1>7 DEF ReadReply, brokerVars
  <2>2. QueueInv'
    BY <1>0, <2>1, QueueStays
  <2>3. overtaken = {} => ClientsInv'
    BY <1>0, <1>7, ReplyKeepsClients
  <2> QED
    BY <2>1, <2>2, <2>3 DEF Inv, workerVars
<1>8. ASSUME NEW c \in Clients, StartListing(c) PROVE Inv'
  <2>1. UNCHANGED <<asked, elements, register_pipe, workerVars>>
    BY <1>8 DEF StartListing, brokerVars
  <2>2. QueueInv'
    BY <1>0, <2>1, QueueStays
  <2>3. overtaken = {} => ClientsInv'
    BY <1>0, <1>8, StartKeepsClients
  <2> QED
    BY <2>1, <2>2, <2>3 DEF Inv, workerVars
<1>9. ASSUME NEW c \in Clients, ReadRow(c) PROVE Inv'
  <2>1. UNCHANGED <<asked, elements, register_pipe, workerVars>>
    BY <1>9 DEF ReadRow, brokerVars
  <2>2. QueueInv'
    BY <1>0, <2>1, QueueStays
  <2>3. overtaken = {} => ClientsInv'
    BY <1>0, <1>9, RowKeepsClients
  <2> QED
    BY <2>1, <2>2, <2>3 DEF Inv, workerVars
<1>10. ASSUME NEW c \in Clients, EndListing(c) PROVE Inv'
  <2>1. UNCHANGED <<asked, elements, register_pipe, workerVars>>
    BY <1>10 DEF EndListing, brokerVars
  <2>2. QueueInv'
    BY <1>0, <2>1, QueueStays
  <2>3. overtaken = {} => ClientsInv'
    BY <1>0, <1>10, EndKeepsClients
  <2> QED
    BY <2>1, <2>2, <2>3 DEF Inv, workerVars
<1> QED
  BY <1>1, <1>2, <1>3, <1>4, <1>5, <1>6, <1>7, <1>8, <1>9, <1>10 DEF Next

LEMMA InvAlways == Spec => []Inv
<1>1. Init => Inv
  BY InitIsSound
<1>2. Inv /\ [Next]_vars => Inv'
  BY StepKeepsInv
<1> QED
  BY <1>1, <1>2, PTL DEF Spec

\* An empty pipe and no element in the queue: every request was dequeued.
LEMMA AllDequeued ==
    ASSUME QueueInv, register_pipe = <<>>, Len(served) = Len(elements)
    PROVE  Len(served) = Len(asked) /\ Len(asked) \in Nat
<1> USE DEF QueueInv
<1>1. /\ Len(asked) \in Nat /\ Len(elements) \in Nat
      /\ Len(Unread) = Len(asked) - Len(elements) /\ Len(Unread) \in Nat
  BY UnreadTypes DEF InOrder
<1>2. Register \in Nat \ {0}
  BY DEF Register
<1>3. register_pipe \in Seq(Byte) /\ Holds(register_pipe, Register, Unread)
  BY DEF QueueTypes, InOrder
<1>4. Len(Unread) = 0
  BY <1>1, <1>2, <1>3, NoRecords
<1> QED
  BY <1>1, <1>4

-----------------------------------------------------------------------------

\* However many clients ask and workers serve, no request is mixed with another
\* in the pipe, and each is decoded once and as it was asked, but for those whose
\* slot main has filled again before the worker copied it.
THEOREM RequestsAreWhole == Spec => []RequestsArriveWhole
<1>1. Inv => RequestsArriveWhole
  <2> SUFFICES ASSUME Inv PROVE RequestsArriveWhole
    OBVIOUS
  <2> USE DEF Inv
  <2>1. DOMAIN served = 1 .. Len(served) /\ DOMAIN asked = 1 .. Len(asked)
    BY DEF QueueInv, QueueTypes
  <2>2. ASSUME NEW k \in DOMAIN served \ overtaken PROVE served[k] \in {Nothing, asked[k]}
    BY <2>1 DEF QueueInv, InOrder
  <2>3. ASSUME register_pipe = <<>>, Len(served) = Len(elements),
               \A w \in Workers : taken[w] = 0, NEW k \in DOMAIN asked \ overtaken
        PROVE  k \in DOMAIN served /\ served[k] = asked[k]
    <3>1. Len(served) = Len(asked)
      BY <2>3, AllDequeued
    <3>2. k \in 1 .. Len(served) /\ k # 0
      BY <2>1, <3>1
    <3> QED
      BY <2>1, <2>3, <3>2 DEF QueueInv, InOrder
  <2> QED
    BY <2>2, <2>3 DEF RequestsArriveWhole
<1> QED
  BY <1>1, InvAlways, PTL

\* However many managers wait for a reply, each prints its own answer, as long as
\* no slot was filled again too early.
THEOREM RepliesAreTheirOwn == Spec => []RepliesReachTheirManagers
<1>1. Inv => RepliesReachTheirManagers
  <2> SUFFICES ASSUME Inv, overtaken = {}, NEW c \in Clients, pc[c] = "done",
                      answered[c] # None
               PROVE  errors[c] = IF answered[c] = -1 THEN {Message} ELSE {}
    BY DEF RepliesReachTheirManagers
  <2>0. Sound
    BY DEF Inv, QueueInv, ClientsInv, Sound, Types
  <2>1. ServedAs(c, {3, 5})
    BY <2>0, Standing DEF Sound, ClientsSound, Quiet, ListingSound
  <2> QED
    BY <2>0, <2>1 DEF Sound, ClientsSound, ReplySound
<1> QED
  BY <1>1, InvAlways, PTL

\* However long a listing is, its manager prints all of it, stops behind it and
\* is left waiting only while list_boxes has something to write.
THEOREM ListingsAreWhole == Spec => []ListingArrivesWhole
<1>1. ASSUME Sound, NEW c \in Clients
      PROVE  /\ Len(rows[c]) <= Len(listed[c])
             /\ \A i \in DOMAIN rows[c] : LineOf(rows[c][i], listed[c][i])
             /\ pc[c] = "done" => Len(rows[c]) = Len(listed[c])
  <2>1. /\ rows[c] \in Seq({Shown(b) : b \in Box}) /\ listed[c] \in Seq(Box)
        /\ Len(rows[c]) \in Nat /\ DOMAIN rows[c] = 1 .. Len(rows[c])
    <3>1. rows[c] \in Seq({Shown(b) : b \in Box}) /\ listed[c] \in Seq(Box)
      BY <1>1 DEF Sound, Types, ClientTypes
    <3> QED
      BY <3>1
  <2>2. /\ Len(rows[c]) <= Len(listed[c])
        /\ \A i \in 1 .. Len(rows[c]) : rows[c][i] = Shown(listed[c][i])
    <3>1. CASE ServedAs(c, {7})
      BY <1>1, <3>1 DEF Sound, ClientsSound, ListingSound
    <3>2. CASE ~ServedAs(c, {7})
      <4>1. rows[c] = <<>> /\ listed[c] = <<>>
        BY <1>1, <3>2, Standing DEF Sound, ClientsSound, Quiet, ReplySound
      <4> QED
        BY <4>1
    <3> QED
      BY <3>1, <3>2
  <2>3. \A box : LineOf(Shown(box), box)
    BY DEF LineOf, Shown
  <2>4. pc[c] = "done" => Len(rows[c]) = Len(listed[c])
    <3>1. CASE ServedAs(c, {7})
      <4>1. ListingSound(c)
        BY <1>1, <3>1 DEF Sound, ClientsSound
      <4>2. pc[c] = "done" => Read(c) = Len(Rows(listed[c]))
        BY <4>1 DEF ListingSound
      <4>3. CASE listed[c] = <<>>
        BY <2>1, <2>2, <4>3
      <4>4. CASE listed[c] # <<>>
        BY <2>1, <4>2, <4>4, RowsAreMany DEF Read
      <4> QED
        BY <4>3, <4>4
    <3>2. CASE ~ServedAs(c, {7})
      BY <1>1, <3>2, Standing DEF Sound, ClientsSound, Quiet, ReplySound
    <3> QED
      BY <3>1, <3>2
  <2> QED
    BY <2>1, <2>2, <2>3, <2>4
<1>2. ASSUME Sound, register_pipe = <<>>, Len(served) = Len(elements),
             \A w \in Workers : taken[w] = 0, \A c \in Clients : listing[c] = <<>>,
             NEW c \in Clients, pc[c] = "listing", last[c] # W!int8(1)
      PROVE  session_pipe[c] # <<>>
  <2>1. Len(served) = Len(asked) /\ \A i \in 1 .. Len(served) : served[i] = asked[i]
    <3>1. Len(served) = Len(asked)
      BY <1>2, AllDequeued DEF Sound, QueueInv, Types
    <3>2. ASSUME NEW i \in 1 .. Len(served) PROVE i # 0
      OBVIOUS
    <3> QED
      BY <1>2, <3>1, <3>2 DEF Sound, InOrder
  <2>2. ServedAs(c, {7})
    <3>1. PICK i \in 1 .. Len(asked) : asked[i].path = c
      BY <1>2 DEF Sound, AskedOnce
    <3>2. pc[c] \in After(asked[i].code) /\ asked[i].code \in Codes
      BY <1>2, <3>1, AskedTypes DEF Sound, Types, AskedOnce
    <3>3. asked[i].code = 7
      BY <1>2, <3>2 DEF After, Codes
    <3> QED
      BY <2>1, <3>1, <3>3 DEF ServedAs
  <2>3. ListingSound(c)
    BY <1>2, <2>2 DEF Sound, ClientsSound
  <2>4. /\ Len(Rows(listed[c])) \in Nat /\ Read(c) \in Nat /\ Sent(c) \in Nat
        /\ Len(Rows(listed[c])) = Sent(c) + Len(listing[c])
        /\ Len(OnTheWay(c)) = Sent(c) - Read(c)
    BY <1>2, <2>3, OnTheWayTypes DEF Sound
  <2>5. Sent(c) = Len(Rows(listed[c]))
    <3>1. Len(listing[c]) = 0
      BY <1>2
    <3> QED
      BY <2>4, <3>1
  <2>6. Read(c) # Len(Rows(listed[c])) /\ Read(c) <= Sent(c)
    BY <1>2, <2>3 DEF ListingSound
  <2>7. Len(OnTheWay(c)) \in Nat \ {0}
    BY <2>4, <2>5, <2>6
  <2>8. Row \in Nat \ {0}
    BY DEF Row
  <2>9. session_pipe[c] \in Seq(Byte) /\ Holds(session_pipe[c], Row, OnTheWay(c))
    BY <1>2, <2>3 DEF Sound, Types, QueueTypes, ClientTypes, ListingSound
  <2> QED
    BY <2>7, <2>8, <2>9, NoRecords
<1>3. Inv => ListingArrivesWhole
  <2>1. Inv /\ overtaken = {} => Sound
    BY DEF Inv, QueueInv, ClientsInv, Sound, Types
  <2> QED
    BY <1>1, <1>2, <2>1 DEF ListingArrivesWhole
<1> QED
  BY <1>3, InvAlways, PTL
=============================================================================
