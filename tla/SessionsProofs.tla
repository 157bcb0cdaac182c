--------------------------- MODULE SessionsProofs ---------------------------
(***************************************************************************)
(* What a publisher types is stored and printed in order, however the      *)
(* broker's reads cut its stream, for every number and length of lines.    *)
(***************************************************************************)
EXTENDS Sessions, SequenceTheorems, TLAPS

-----------------------------------------------------------------------------
(* The inductive invariant                                                 *)

Stored == [line : Nat, from : Int, bytes : Nat]

PubTypes ==
    /\ pub \in {"asked", "testing", "typing", "gone"}
    /\ typed \in Seq(Lengths)
    /\ tested \in BOOLEAN
    /\ pubWorker \in {"idle", "opening", "refusing", "refused", "left",
                      "reading", "storing", "done"}
    /\ taken \in Nat
    /\ message \in Stored
    /\ removal \in {"none", "tested", "done"}
    /\ box \in Seq(Stored)
    /\ size \in 0 .. BoxBytes

SubTypes ==
    /\ subWorker \in {"idle", "opening", "refusing", "probing", "reading", "empty",
                      "waiting", "sending", "closing", "unlinking", "done"}
    /\ position \in Nat
    /\ buffer \in Seq(Stored)
    /\ sent \in Seq(Seq(Stored))
    /\ named \in BOOLEAN
    /\ sub \in {"asked", "reading", "reopening", "stuck", "left", "quit"}
    /\ received \in Nat
    /\ spare \in Nat
    /\ printed \in Seq(Stored)
    /\ message_count \in Nat

\* The publisher and its worker open the pipe together, and test it first.
PublisherStands ==
    /\ pub = "asked" => pubWorker \in {"idle", "opening", "refusing"}
    /\ pub \in {"asked", "testing"} => ~tested
    /\ pub = "typing" => tested
    /\ ~tested => typed = <<>>
    /\ pubWorker \in {"idle", "opening", "refusing", "refused", "left"} =>
          taken = 0 /\ message = Nothing /\ box = <<>>
    /\ pubWorker = "done" => pub = "gone"

\* The worker has read k records, and the byte for the test as well when s = 1:
\* up to then every read ends with the first byte of a record that follows.
Framed(k, s) ==
    /\ taken = s + Record * k
    /\ s = 1 => tested
    /\ \A i \in 1 .. Len(box) : box[i].line <= k /\ box[i].from <= s - 1
    /\ pubWorker = "storing" /\ message # Nothing =>
          /\ message.line = k /\ message.from = s - 1 /\ message.bytes >= 2
          /\ \A i \in 1 .. Len(box) : box[i].line < k
    /\ pubWorker = "done" => k = Len(typed)
    /\ Exists /\ size < BoxBytes =>
          \A j \in 1 .. k : typed[j] > 0 =>
             \/ \E i \in 1 .. Len(box) : box[i].line = j
             \/ pubWorker = "storing" /\ message # Nothing /\ message.line = j

StreamFramed == \E k \in 0 .. Len(typed), s \in {0, 1} : Framed(k, s)

\* Only the last message of a full box can be cut to its end of string.
BoxSound ==
    /\ \A i, j \in 1 .. Len(box) : i < j => box[i].line < box[j].line
    /\ \A i \in 1 .. Len(box) : box[i].from \in {-1, 0}
    /\ \A i, j \in 1 .. Len(box) : i < j => box[i].from <= box[j].from
    /\ \A i \in 1 .. Len(box) : box[i].bytes >= 1
    /\ \A i \in 1 .. Len(box) : box[i].bytes = 1 => i = Len(box) /\ size = BoxBytes

\* As long as there is a box, a subscriber has its pipe and a worker.
SubscriberStands ==
    /\ sub = "asked" => named /\ subWorker \in {"idle", "opening", "refusing"}
    /\ sub \in {"reading", "reopening", "stuck", "left"} =>
          subWorker \notin {"idle", "opening", "refusing"}
    /\ subWorker = "refusing" => ~Exists
    /\ Exists /\ sub \in {"reading", "reopening"} =>
          /\ named
          /\ subWorker \in {"probing", "reading", "empty", "waiting", "sending"}
    /\ sub \in {"left", "stuck"} => ~Exists \/ spare = 0

\* Records k is what the box has from one mark to the next.
Marked(marks) ==
    /\ marks[0] = 0
    /\ \A k \in 0 .. Len(sent) : marks[k] <= position
    /\ \A k \in 1 .. Len(sent) :
          /\ marks[k - 1] < marks[k]
          /\ sent[k] = SubSeq(box, marks[k - 1] + 1, marks[k])
    /\ subWorker \in {"idle", "opening", "refusing", "probing", "reading", "empty", "waiting"} =>
          position = marks[Len(sent)]
    /\ subWorker = "sending" =>
          /\ marks[Len(sent)] < position
          /\ buffer = SubSeq(box, marks[Len(sent)] + 1, position)
    /\ sub \in {"asked", "reading"} => printed = SubSeq(box, 1, marks[received])
    /\ sub = "reopening" => received >= 1 /\ printed = SubSeq(box, 1, marks[received - 1])

RecordsMarked ==
    /\ position <= Len(box) /\ received <= Len(sent)
    /\ \E marks \in [0 .. Len(sent) -> 0 .. Len(box)] : Marked(marks)

Counted ==
    \/ message_count = Len(printed)
    \/ size = BoxBytes /\ message_count = Len(printed) - 1 /\ Len(printed) = Len(box)

PrintedPrefix ==
    Len(printed) <= Len(box) /\ \A i \in 1 .. Len(printed) : printed[i] = box[i]

Inv ==
    /\ PubTypes /\ SubTypes /\ PublisherStands /\ StreamFramed /\ BoxSound
    /\ SubscriberStands /\ RecordsMarked /\ Counted /\ PrintedPrefix

-----------------------------------------------------------------------------
(* Sequences                                                               *)

LEMMA PartOf ==
    ASSUME NEW S, NEW s \in Seq(S), NEW a \in Nat, NEW b \in Nat, a <= b, b <= Len(s)
    PROVE  /\ SubSeq(s, a + 1, b) \in Seq(S)
           /\ Len(SubSeq(s, a + 1, b)) = b - a
           /\ \A i \in 1 .. b - a : SubSeq(s, a + 1, b)[i] = s[a + i]
<1>1. SubSeq(s, a + 1, b) \in Seq(S)
  OBVIOUS
<1>2. Len(SubSeq(s, a + 1, b)) = b - a
  OBVIOUS
<1>3. \A i \in 1 .. b - a : SubSeq(s, a + 1, b)[i] = s[a + i]
  OBVIOUS
<1> QED
  BY <1>1, <1>2, <1>3

\* What is appended to a sequence changes none of its parts.
LEMMA PartOfLonger ==
    ASSUME NEW S, NEW s \in Seq(S), NEW t \in Seq(S), Len(s) <= Len(t),
           \A i \in 1 .. Len(s) : t[i] = s[i],
           NEW a \in Nat, NEW b \in Nat, a <= b, b <= Len(s)
    PROVE  SubSeq(t, a + 1, b) = SubSeq(s, a + 1, b)
<1>1. /\ SubSeq(s, a + 1, b) \in Seq(S) /\ Len(SubSeq(s, a + 1, b)) = b - a
      /\ \A i \in 1 .. b - a : SubSeq(s, a + 1, b)[i] = s[a + i]
  BY PartOf
<1>2. b <= Len(t)
  OBVIOUS
<1>3. /\ SubSeq(t, a + 1, b) \in Seq(S) /\ Len(SubSeq(t, a + 1, b)) = b - a
      /\ \A i \in 1 .. b - a : SubSeq(t, a + 1, b)[i] = t[a + i]
  BY <1>2, PartOf
<1>4. ASSUME NEW i \in 1 .. b - a PROVE s[a + i] = t[a + i]
  <2>1. a + i \in 1 .. Len(s)
    OBVIOUS
  <2> QED
    BY <2>1
<1> QED
  BY <1>1, <1>3, <1>4, SeqEqual

\* A part and the part behind it are one part.
LEMMA PartsJoin ==
    ASSUME NEW S, NEW s \in Seq(S), NEW a \in Nat, NEW b \in Nat, a <= b, b <= Len(s)
    PROVE  SubSeq(s, 1, a) \o SubSeq(s, a + 1, b) = SubSeq(s, 1, b)
<1> DEFINE left == SubSeq(s, 1, a)
           right == SubSeq(s, a + 1, b)
           joined == left \o right
           all == SubSeq(s, 1, b)
<1>1. /\ left \in Seq(S) /\ Len(left) = a
      /\ \A i \in 1 .. a : left[i] = s[i]
  OBVIOUS
<1>2. /\ right \in Seq(S) /\ Len(right) = b - a
      /\ \A i \in 1 .. b - a : right[i] = s[a + i]
  BY PartOf
<1>3. /\ all \in Seq(S) /\ Len(all) = b
      /\ \A i \in 1 .. b : all[i] = s[i]
  OBVIOUS
<1> HIDE DEF left, right, all
<1>4. /\ joined \in Seq(S) /\ Len(joined) = b
      /\ \A i \in 1 .. a : joined[i] = left[i]
      /\ \A i \in a + 1 .. b : joined[i] = right[i - a]
  <2>1. joined \in Seq(S) /\ Len(joined) = Len(left) + Len(right)
    BY <1>1, <1>2, ConcatProperties, ZenonT(60)
  <2>2. \A i \in 1 .. Len(left) + Len(right) :
           joined[i] = IF i <= Len(left) THEN left[i] ELSE right[i - Len(left)]
    BY <1>1, <1>2, ConcatProperties
  <2> QED
    BY <1>1, <1>2, <2>1, <2>2
<1> HIDE DEF joined
<1>5. ASSUME NEW i \in 1 .. b PROVE joined[i] = all[i]
  <2>1. CASE i <= a
    BY <1>1, <1>3, <1>4, <2>1
  <2>2. CASE i > a
    <3>1. i \in a + 1 .. b /\ i - a \in 1 .. b - a /\ a + (i - a) = i
      BY <2>2
    <3>2. right[i - a] = s[a + (i - a)]
      BY <1>2, <3>1
    <3> QED
      BY <1>3, <1>4, <3>1, <3>2
  <2> QED
    BY <2>1, <2>2
<1>6. joined = all
  BY <1>3, <1>4, <1>5, SeqEqual
<1> QED
  BY <1>6 DEF joined, left, right, all

-----------------------------------------------------------------------------
(* Types                                                                   *)

LEMMA NothingIsStored == Nothing \in Stored
BY DEF Nothing, Stored

-----------------------------------------------------------------------------
(* The steps: the publisher and its worker touch nothing of the subscriber *)
(* and its worker, but for the box, and these nothing of those.            *)

PublisherSide ==
    \/ FindForPublisher \/ RefusePublisher \/ PublisherPipeOpens
    \/ TestPipe \/ TypeLine \/ QuitPublisher \/ ReadMessage

SubscriberSide ==
    \/ FindForSubscriber \/ Probe \/ ReadBox \/ Wait \/ Wake \/ SendMessages
    \/ ClosePipe \/ UnlinkPipe
    \/ SubscriberPipeOpens \/ ReadRecord \/ ReopenPipe \/ QuitSubscriber

LEMMA Sides ==
    ASSUME Next
    PROVE  \/ /\ PublisherSide
              /\ UNCHANGED <<removal, box, size>>
              /\ UNCHANGED <<subWorker, position, buffer, sent, named>>
              /\ UNCHANGED <<sub, received, spare, printed, message_count>>
           \/ /\ SubscriberSide
              /\ UNCHANGED <<pub, typed, tested, pubWorker, taken, message>>
              /\ UNCHANGED <<removal, box, size>>
           \/ StoreMessage
           \/ TestRemoval
           \/ RemoveBox
<1> USE DEF boxVars, subWorkerVars, subVars, pubVars, pubWorkerVars
<1>1. PublisherSide =>
         /\ UNCHANGED <<removal, box, size>>
         /\ UNCHANGED <<subWorker, position, buffer, sent, named>>
         /\ UNCHANGED <<sub, received, spare, printed, message_count>>
  BY DEF PublisherSide, FindForPublisher, RefusePublisher, PublisherPipeOpens, TestPipe,
         TypeLine, QuitPublisher, ReadMessage
<1>2. SubscriberSide =>
         /\ UNCHANGED <<pub, typed, tested, pubWorker, taken, message>>
         /\ UNCHANGED <<removal, box, size>>
  BY DEF SubscriberSide, FindForSubscriber, Probe, ReadBox, Wait, Wake, SendMessages,
         ClosePipe, UnlinkPipe, SubscriberPipeOpens, ReadRecord, ReopenPipe, QuitSubscriber
<1> QED
  BY <1>1, <1>2 DEF Next, PubWorkerSteps, SubWorkerSteps, PublisherSide, SubscriberSide

-----------------------------------------------------------------------------
(* Types                                                                   *)

LEMMA InitTypes == Init => PubTypes /\ SubTypes
<1> SUFFICES ASSUME Init PROVE PubTypes /\ SubTypes
  OBVIOUS
<1>1. PubTypes
  <2>1. typed \in Seq(Lengths) /\ box \in Seq(Stored)
    BY DEF Init
  <2>2. message \in Stored
    BY NothingIsStored DEF Init
  <2>3. pub = "asked" /\ tested = FALSE /\ pubWorker = "idle" /\ removal = "none"
    BY DEF Init
  <2>4. taken = 0 /\ size = 0
    BY DEF Init
  <2>5. taken \in Nat /\ size \in 0 .. BoxBytes
    BY <2>4 DEF BoxBytes
  <2>6. /\ pub \in {"asked", "testing", "typing", "gone"} /\ tested \in BOOLEAN
        /\ removal \in {"none", "tested", "done"}
    BY <2>3
  <2>7. pubWorker \in {"idle", "opening", "refusing", "refused", "left",
                      "reading", "storing", "done"}
    BY <2>3
  <2> QED
    BY <2>1, <2>2, <2>5, <2>6, <2>7 DEF PubTypes
<1>2. SubTypes
  BY SessionsAssumption DEF Init, SubTypes
<1> QED
  BY <1>1, <1>2

\* What a step of the worker that stores does to the box.
Adds(kept) ==
    /\ message # Nothing
    /\ kept.line = message.line /\ kept.from = message.from
    /\ kept.bytes \in 1 .. message.bytes
    /\ kept.bytes < message.bytes => size + kept.bytes = BoxBytes
    /\ size < BoxBytes /\ size' = size + kept.bytes /\ size' <= BoxBytes
    /\ box' = Append(box, kept)

LEMMA StoreAdds ==
    ASSUME PubTypes, StoreMessage
    PROVE  \/ \E kept \in Stored : Adds(kept)
           \/ /\ UNCHANGED <<box, size>>
              /\ Exists /\ message.bytes >= 1 => size = BoxBytes
<1> DEFINE kept == [message EXCEPT !.bytes = Least(message.bytes, BoxBytes - size)]
<1>1. message \in Stored /\ message.bytes \in Nat /\ size \in Nat /\ size <= 1024
  BY DEF PubTypes, Stored, BoxBytes
<1>2. kept.line = message.line /\ kept.from = message.from
      /\ kept.bytes = Least(message.bytes, 1024 - size)
  BY <1>1 DEF Stored, BoxBytes
<1>3. Least(message.bytes, 1024 - size) \in Nat
  BY <1>1 DEF Least
<1>4. kept \in Stored
  BY <1>1, <1>2, <1>3 DEF Stored, BoxBytes
<1>5. IF Exists /\ kept.bytes > 0
      THEN box' = Append(box, kept) /\ size' = size + kept.bytes
      ELSE UNCHANGED <<box, size>>
  BY DEF StoreMessage, write_in_box
<1>6. CASE Exists /\ kept.bytes > 0
  <2>1. message.bytes > 0 /\ size < 1024 /\ kept.bytes \in 1 .. message.bytes
        /\ (kept.bytes < message.bytes => size + kept.bytes = 1024)
        /\ size + kept.bytes <= 1024
    BY <1>1, <1>2, <1>3, <1>6 DEF Least
  <2>2. message # Nothing
    BY <2>1 DEF Nothing
  <2>3. Adds(kept)
    BY <1>2, <1>5, <1>6, <2>1, <2>2 DEF Adds, BoxBytes
  <2> QED
    BY <1>4, <2>3
<1>7. CASE ~(Exists /\ kept.bytes > 0)
  <2>1. Exists /\ message.bytes >= 1 => size = 1024
    BY <1>1, <1>2, <1>3, <1>7 DEF Least
  <2> QED
    BY <1>5, <1>7, <2>1 DEF BoxBytes
<1> QED
  BY <1>6, <1>7

\* What a read of the publisher's pipe gives: at first perhaps the byte for the
\* test alone, then a record, which begins one byte further on if so.
LEMMA MessageIsRead ==
    ASSUME PubTypes, PublisherStands, ReadMessage,
           NEW k \in 0 .. Len(typed), NEW s \in {0, 1}, taken = s + Record * k,
           s = 1 => tested
    PROVE  \/ /\ k = Len(typed) /\ s = 0 /\ tested
              /\ taken' = 1 + Record * k /\ message' = Nothing
              /\ pubWorker' = "storing"
           \/ /\ k < Len(typed) /\ tested
              /\ taken' = s + Record * (k + 1)
              /\ message' = IF s > typed[k + 1] THEN Nothing
                            ELSE [line |-> k + 1, from |-> s - 1,
                                  bytes |-> typed[k + 1] - s + 2]
              /\ pubWorker' = "storing"
           \/ /\ k = Len(typed) /\ UNCHANGED <<taken, message>>
              /\ pubWorker' = "done" /\ pub = "gone"
<1> USE DEF Record
<1>1. PICK t \in {0, 1} : t = IF tested THEN 1 ELSE 0
  OBVIOUS
<1>2. PICK total : total = Len(typed)
  OBVIOUS
<1>3. total \in Nat /\ k \in Nat /\ k <= total
  BY <1>2 DEF PubTypes
<1>4. Available = t + 1026 * total - (s + 1026 * k)
  BY <1>1, <1>2 DEF Available
<1>5. pubWorker = "reading"
  BY DEF ReadMessage
<1>6. k < total => t = 1
  <2>1. k < total => typed # <<>>
    BY <1>2, <1>3 DEF PubTypes
  <2> QED
    BY <1>1, <2>1 DEF PublisherStands
<1>7. s <= t
  BY <1>1
<1>8. CASE Available > 0
  <2>1. /\ taken' = taken + Least(1026, Available)
        /\ message' = Decoded(Least(1026, Available))
        /\ pubWorker' = "storing"
    BY <1>8 DEF ReadMessage
  <2>2. CASE k = total
    <3>1. s = 0 /\ t = 1 /\ Available = 1
      BY <1>3, <1>4, <1>7, <1>8, <2>2
    <3>2. Least(1026, Available) = 1
      BY <3>1 DEF Least
    <3>3. message' = Nothing
      BY <2>1, <3>2 DEF Decoded
    <3>4. taken' = 1 + 1026 * k
      BY <1>3, <2>1, <3>1, <3>2
    <3> QED
      BY <1>1, <1>2, <2>1, <2>2, <3>1, <3>3, <3>4
  <2>3. CASE k < total
    <3>1. t = 1 /\ Available >= 1026
      BY <1>3, <1>4, <1>6, <2>3
    <3>2. Least(1026, Available) = 1026
      BY <3>1, <1>4, <1>3 DEF Least
    <3>3. taken' = s + 1026 * (k + 1)
      BY <1>3, <2>1, <3>2
    <3>4. PICK third : third = taken + 1
      OBVIOUS
    <3>5. third = (s + 1) + 1026 * k /\ s + 1 \in 1 .. 2
      BY <1>3, <3>4
    <3>6. third \div 1026 = k /\ third % 1026 = s + 1
      BY <1>3, <3>5
    <3>7. third \div 1026 + 1 = k + 1 /\ (third % 1026) - 2 = s - 1
      BY <1>3, <3>6
    <3>8. message' = IF 1026 <= 2 \/ s - 1 >= typed[k + 1] THEN Nothing
                     ELSE [line |-> k + 1, from |-> s - 1,
                           bytes |-> typed[k + 1] - (s - 1) + 1]
      BY <2>1, <3>2, <3>4, <3>7 DEF Decoded
    <3>9. typed[k + 1] \in Nat
      <4>1. typed[k + 1] \in Lengths
        BY <1>2, <1>3, <2>3 DEF PubTypes
      <4>2. Lengths \subseteq Nat
        BY SessionsAssumption
      <4> QED
        BY <4>1, <4>2
    <3>10. s - 1 >= typed[k + 1] <=> s > typed[k + 1]
      BY <3>9
    <3>11. typed[k + 1] - (s - 1) + 1 = typed[k + 1] - s + 2
      BY <3>9
    <3> QED
      BY <1>1, <1>2, <2>1, <2>3, <3>1, <3>3, <3>8, <3>10, <3>11
  <2> QED
    BY <1>3, <2>2, <2>3
<1>9. CASE ~(Available > 0)
  <2>1. Available = 0 /\ ~PubWriter /\ pubWorker' = "done" /\ UNCHANGED <<taken, message>>
    BY <1>9 DEF ReadMessage
  <2>2. k = total
    BY <1>3, <1>4, <1>6, <1>7, <2>1
  <2>3. pub = "gone"
    BY <1>5, <2>1 DEF PubWriter, PublisherStands, PubTypes
  <2> QED
    BY <1>2, <2>1, <2>2, <2>3
<1> QED
  BY <1>8, <1>9

LEMMA ReadTypes ==
    ASSUME PubTypes, PublisherStands, StreamFramed, ReadMessage
    PROVE  taken' \in Nat /\ message' \in Stored
<1>1. PICK k \in 0 .. Len(typed), s \in {0, 1} : Framed(k, s)
  BY DEF StreamFramed
<1>2. taken = s + Record * k /\ (s = 1 => tested)
  BY <1>1 DEF Framed
<1>3. k \in Nat /\ s + Record * k \in Nat /\ s + Record * (k + 1) \in Nat
      /\ 1 + Record * k \in Nat
  BY DEF Record, PubTypes
<1>4. CASE k = Len(typed) /\ taken' = 1 + Record * k /\ message' = Nothing
  BY <1>3, <1>4, NothingIsStored
<1>5. CASE /\ k < Len(typed) /\ taken' = s + Record * (k + 1)
           /\ message' = IF s > typed[k + 1] THEN Nothing
                         ELSE [line |-> k + 1, from |-> s - 1,
                               bytes |-> typed[k + 1] - s + 2]
  <2>1. typed[k + 1] \in Nat
    <3>1. k + 1 \in 1 .. Len(typed)
      BY <1>3, <1>5 DEF PubTypes
    <3>2. typed[k + 1] \in Lengths
      BY <3>1 DEF PubTypes
    <3>3. Lengths \subseteq Nat
      BY SessionsAssumption
    <3> QED
      BY <3>2, <3>3
  <2>2. k + 1 \in Nat /\ s - 1 \in Int
    BY <1>3
  <2>3. typed[k + 1] - s + 2 \in Nat
    BY <2>1
  <2>4. [line |-> k + 1, from |-> s - 1, bytes |-> typed[k + 1] - s + 2] \in Stored
    BY <2>2, <2>3 DEF Stored
  <2> QED
    BY <1>3, <1>5, <2>4, NothingIsStored
<1>6. CASE UNCHANGED <<taken, message>>
  BY <1>6 DEF PubTypes
<1> QED
  BY <1>2, <1>4, <1>5, <1>6, MessageIsRead

LEMMA PubTypesKept ==
    ASSUME PubTypes, PublisherStands, StreamFramed, Next
    PROVE  PubTypes'
<1> USE DEF pubVars, pubWorkerVars, boxVars, subWorkerVars, subVars
<1>1. CASE PublisherSide /\ UNCHANGED <<removal, box, size>>
  <2>0. box' \in Seq(Stored) /\ size' \in 0 .. BoxBytes
        /\ removal' \in {"none", "tested", "done"}
    BY <1>1 DEF PubTypes
  <2>1. CASE FindForPublisher
    BY <2>0, <2>1 DEF FindForPublisher, PubTypes
  <2>2. CASE RefusePublisher
    BY <2>0, <2>2 DEF RefusePublisher, PubTypes
  <2>3. CASE PublisherPipeOpens
    BY <2>0, <2>3 DEF PublisherPipeOpens, PubTypes
  <2>4. CASE TestPipe
    BY <2>0, <2>4 DEF TestPipe, PubTypes
  <2>5. CASE TypeLine
    <3>1. typed' \in Seq(Lengths)
      BY <2>5 DEF TypeLine, PubTypes
    <3> QED
      BY <2>0, <2>5, <3>1 DEF TypeLine, PubTypes
  <2>6. CASE QuitPublisher
    BY <2>0, <2>6 DEF QuitPublisher, PubTypes
  <2>7. CASE ReadMessage
    <3>1. taken' \in Nat /\ message' \in Stored
      BY <2>7, ReadTypes
    <3> QED
      BY <2>0, <2>7, <3>1 DEF ReadMessage, PubTypes
  <2> QED
    BY <1>1, <2>1, <2>2, <2>3, <2>4, <2>5, <2>6, <2>7 DEF PublisherSide
<1>2. CASE UNCHANGED <<pub, typed, tested, pubWorker, taken, message>>
           /\ UNCHANGED <<removal, box, size>>
  BY <1>2 DEF PubTypes
<1>3. CASE StoreMessage
  <2>1. box' \in Seq(Stored) /\ size' \in 0 .. BoxBytes
    <3>1. CASE UNCHANGED <<box, size>>
      BY <3>1 DEF PubTypes
    <3>2. ASSUME NEW kept \in Stored, Adds(kept) PROVE box' \in Seq(Stored) /\ size' \in 0 .. BoxBytes
      <4>1. box' \in Seq(Stored)
        BY <3>2 DEF Adds, PubTypes
      <4>2. size' = size + kept.bytes /\ kept.bytes \in Nat /\ size' <= BoxBytes
        BY <3>2 DEF Adds, PubTypes, Stored
      <4>3. size \in Nat
        BY DEF PubTypes, BoxBytes
      <4>4. size' \in Nat
        BY <4>2, <4>3
      <4>5. size' \in 0 .. BoxBytes
        BY <4>2, <4>4, SMTT(40) DEF BoxBytes
      <4> QED
        BY <4>1, <4>5
    <3> QED
      BY <1>3, <3>1, <3>2, StoreAdds
  <2> QED
    BY <1>3, <2>1 DEF StoreMessage, PubTypes
<1>4. CASE TestRemoval
  BY <1>4 DEF TestRemoval, PubTypes
<1>5. CASE RemoveBox
  BY <1>5 DEF RemoveBox, PubTypes
<1> QED
  BY <1>1, <1>2, <1>3, <1>4, <1>5, Sides

LEMMA SubTypesKept ==
    ASSUME PubTypes, SubTypes, RecordsMarked, Next
    PROVE  SubTypes'
<1> USE DEF pubVars, pubWorkerVars, boxVars, subWorkerVars, subVars
<1>1. CASE SubscriberSide
  <2>1. CASE FindForSubscriber
    BY <2>1 DEF FindForSubscriber, WorkerGoes, SubTypes
  <2>2. CASE Probe
    BY <2>2 DEF Probe, WorkerGoes, SubTypes
  <2>3. CASE ReadBox
    <3>1. position' \in Nat /\ buffer' \in Seq(Stored)
      <4>1. position \in Nat /\ box \in Seq(Stored) /\ buffer \in Seq(Stored)
        BY DEF SubTypes, PubTypes
      <4>2. CASE position < Len(box)
        <5>1. SubSeq(box, position + 1, Len(box)) \in Seq(Stored)
          BY <4>1, <4>2, PartOf
        <5>2. Len(box) \in Nat
          BY <4>1
        <5> QED
          BY <2>3, <4>2, <5>1, <5>2 DEF ReadBox
      <4>3. CASE ~(position < Len(box))
        BY <2>3, <4>1, <4>3 DEF ReadBox
      <4> QED
        BY <4>2, <4>3
    <3>2. subWorker' \in {"sending", "empty"}
      BY <2>3 DEF ReadBox
    <3>3. UNCHANGED <<sent, named, sub, received, spare, printed, message_count>>
      BY <2>3 DEF ReadBox
    <3> QED
      BY <3>1, <3>2, <3>3 DEF SubTypes
  <2>4. CASE Wait
    BY <2>4 DEF Wait, WorkerGoes, SubTypes
  <2>5. CASE Wake
    BY <2>5 DEF Wake, WorkerGoes, SubTypes
  <2>6. CASE SendMessages
    <3>1. sent' \in Seq(Seq(Stored))
      BY <2>6 DEF SendMessages, SubTypes
    <3>2. subWorker' \in {"probing", "closing"}
      BY <2>6 DEF SendMessages, WorkerGoes
    <3>3. UNCHANGED <<position, buffer, named, sub, received, spare, printed, message_count>>
      BY <2>6 DEF SendMessages
    <3> QED
      BY <3>1, <3>2, <3>3 DEF SubTypes
  <2>7. CASE ClosePipe
    BY <2>7 DEF ClosePipe, WorkerGoes, SubTypes
  <2>8. CASE UnlinkPipe
    BY <2>8 DEF UnlinkPipe, WorkerGoes, SubTypes
  <2>9. CASE SubscriberPipeOpens
    BY <2>9 DEF SubscriberPipeOpens, SubTypes
  <2>10. CASE ReadRecord
    <3>0. received \in Nat /\ named \in BOOLEAN
      BY DEF SubTypes
    <3>1. received' \in Nat /\ named' \in BOOLEAN /\ sub' \in {"reopening", "left"}
      <4>1. received' = received \/ received' = received + 1
        BY <2>10 DEF ReadRecord
      <4>2. (named' = named \/ named' = FALSE) /\ sub' \in {"reopening", "left"}
        BY <2>10 DEF ReadRecord
      <4>3. received' \in Nat
        BY <3>0, <4>1
      <4>4. named' \in BOOLEAN
        BY <3>0, <4>2
      <4> QED
        BY <4>2, <4>3, <4>4
    <3>2. UNCHANGED <<subWorker, position, buffer, sent, spare, printed, message_count>>
      BY <2>10 DEF ReadRecord
    <3> QED
      BY <3>1, <3>2 DEF SubTypes
  <2>11. CASE ReopenPipe
    <3>1. UNCHANGED <<subWorker, position, buffer, sent, received>>
          /\ named' \in BOOLEAN /\ sub' \in {"reading", "stuck", "left"}
      BY <2>11 DEF ReopenPipe, SubTypes
    <3>2. CASE UNCHANGED <<spare, printed, message_count>>
      BY <3>1, <3>2 DEF SubTypes
    <3>3. CASE spare > 0 /\ spare' = spare - 1 /\ PrintLines(sent[received])
      <4>1. PICK record : record = sent[received]
        OBVIOUS
      <4>2. record \in Seq(Stored)
        <5>1. received \in 1 .. Len(sent)
          BY <2>11 DEF ReopenPipe, RecordsMarked, Marked, SubTypes
        <5> QED
          BY <4>1, <5>1 DEF SubTypes
      <4>3. printed' \in Seq(Stored)
        BY <3>3, <4>1, <4>2 DEF PrintLines, SubTypes
      <4>4. message_count' = message_count \/ message_count' = message_count + Len(record)
        BY <3>3, <4>1 DEF PrintLines, SubTypes
      <4>5. message_count' \in Nat
        BY <4>2, <4>4 DEF SubTypes
      <4>6. spare' \in Nat
        BY <3>3 DEF SubTypes
      <4> QED
        BY <3>1, <4>3, <4>5, <4>6 DEF SubTypes
    <3> QED
      BY <2>11, <3>2, <3>3 DEF ReopenPipe
  <2>12. CASE QuitSubscriber
    BY <2>12 DEF QuitSubscriber, SubTypes
  <2> QED
    BY <1>1, <2>1, <2>2, <2>3, <2>4, <2>5, <2>6, <2>7, <2>8, <2>9, <2>10, <2>11, <2>12
       DEF SubscriberSide
<1>2. CASE UNCHANGED <<subWorker, position, buffer, sent, named>>
           /\ UNCHANGED <<sub, received, spare, printed, message_count>>
  BY <1>2 DEF SubTypes
<1>3. StoreMessage \/ TestRemoval \/ RemoveBox =>
         /\ UNCHANGED <<subWorker, position, buffer, sent, named>>
         /\ UNCHANGED <<sub, received, spare, printed, message_count>>
  BY DEF StoreMessage, TestRemoval, RemoveBox
<1> QED
  BY <1>1, <1>2, <1>3, Sides

-----------------------------------------------------------------------------
(* Where the four stand.                                                   *)

LEMMA PublisherStandsKept ==
    ASSUME PubTypes, PublisherStands, StreamFramed, Next
    PROVE  PublisherStands'
<1> USE DEF pubVars, pubWorkerVars, boxVars, subWorkerVars, subVars
<1>1. CASE PublisherSide /\ UNCHANGED <<removal, box, size>>
  <2>1. CASE FindForPublisher
    BY <1>1, <2>1 DEF FindForPublisher, PublisherStands
  <2>2. CASE RefusePublisher
    BY <1>1, <2>2 DEF RefusePublisher, PublisherStands
  <2>3. CASE PublisherPipeOpens
    BY <1>1, <2>3 DEF PublisherPipeOpens, PublisherStands
  <2>4. CASE TestPipe
    BY <1>1, <2>4 DEF TestPipe, PublisherStands, PubReader
  <2>5. CASE TypeLine
    BY <1>1, <2>5 DEF TypeLine, PublisherStands, PubReader
  <2>6. CASE QuitPublisher
    BY <1>1, <2>6 DEF QuitPublisher, PublisherStands
  <2>7. CASE ReadMessage
    <3>1. pubWorker = "reading" /\ UNCHANGED <<pub, typed, tested, box>>
      BY <1>1, <2>7 DEF ReadMessage
    <3>2. pubWorker' = "storing" \/ (pubWorker' = "done" /\ pub = "gone")
      <4>1. PICK k \in 0 .. Len(typed), s \in {0, 1} : Framed(k, s)
        BY DEF StreamFramed
      <4> QED
        BY <2>7, <4>1, MessageIsRead DEF Framed
    <3> QED
      BY <3>1, <3>2 DEF PublisherStands
  <2> QED
    BY <1>1, <2>1, <2>2, <2>3, <2>4, <2>5, <2>6, <2>7 DEF PublisherSide
<1>2. CASE UNCHANGED <<pub, typed, tested, pubWorker, taken, message>>
           /\ UNCHANGED <<removal, box, size>>
  BY <1>2 DEF PublisherStands
<1>3. CASE StoreMessage
  BY <1>3 DEF StoreMessage, PublisherStands
<1>4. CASE TestRemoval \/ RemoveBox
  BY <1>4 DEF TestRemoval, RemoveBox, PublisherStands
<1> QED
  BY <1>1, <1>2, <1>3, <1>4, Sides

LEMMA SubscriberStandsKept ==
    ASSUME PubTypes, SubTypes, SubscriberStands, Next
    PROVE  SubscriberStands'
<1> USE DEF pubVars, pubWorkerVars, boxVars, subWorkerVars, subVars
<1>1. CASE SubscriberSide /\ UNCHANGED removal
  <2>0. Exists' <=> Exists
    BY <1>1 DEF Exists
  <2>1. CASE FindForSubscriber
    BY <2>0, <2>1 DEF FindForSubscriber, WorkerGoes, SubscriberStands, SubTypes
  <2>2. CASE Probe
    BY <2>0, <2>2 DEF Probe, WorkerGoes, SubscriberStands, SubReader, SubTypes
  <2>3. CASE ReadBox
    <3>1. /\ subWorker = "reading" /\ subWorker' \in {"sending", "empty"}
          /\ UNCHANGED <<named, sub, spare>>
      BY <2>3 DEF ReadBox
    <3> QED
      BY <2>0, <3>1 DEF SubscriberStands
  <2>4. CASE Wait
    BY <2>0, <2>4 DEF Wait, WorkerGoes, SubscriberStands
  <2>5. CASE Wake
    BY <2>0, <2>5 DEF Wake, WorkerGoes, SubscriberStands
  <2>6. CASE SendMessages
    BY <2>0, <2>6 DEF SendMessages, WorkerGoes, SubscriberStands, SubReader
  <2>7. CASE ClosePipe
    BY <2>0, <2>7 DEF ClosePipe, WorkerGoes, SubscriberStands
  <2>8. CASE UnlinkPipe
    BY <2>0, <2>8 DEF UnlinkPipe, WorkerGoes, SubscriberStands
  <2>9. CASE SubscriberPipeOpens
    BY <2>0, <2>9 DEF SubscriberPipeOpens, SubscriberStands
  <2>10. CASE ReadRecord
    BY <2>0, <2>10 DEF ReadRecord, SubscriberStands, SubWriter
  <2>11. CASE ReopenPipe
    BY <2>0, <2>11 DEF ReopenPipe, SubscriberStands, SubWriter, SubTypes
  <2>12. CASE QuitSubscriber
    BY <2>0, <2>12 DEF QuitSubscriber, SubscriberStands
  <2> QED
    BY <1>1, <2>1, <2>2, <2>3, <2>4, <2>5, <2>6, <2>7, <2>8, <2>9, <2>10, <2>11, <2>12
       DEF SubscriberSide
<1>2. CASE UNCHANGED <<subWorker, named, sub, spare>> /\ (Exists' => Exists)
  BY <1>2 DEF SubscriberStands
<1>3. StoreMessage \/ TestRemoval \/ RemoveBox =>
         /\ UNCHANGED <<subWorker, named, sub, spare>>
         /\ Exists' => Exists
  BY DEF StoreMessage, TestRemoval, RemoveBox, Exists
<1> QED
  BY <1>1, <1>2, <1>3, Sides DEF Exists

-----------------------------------------------------------------------------
(* The stream and the box.                                                 *)

LEMMA BoxHolds ==
    ASSUME PubTypes
    PROVE  \A i \in 1 .. Len(box) : box[i] \in Stored
BY DEF PubTypes

LEMMA FramedStays ==
    ASSUME NEW k, NEW s, Framed(k, s), UNCHANGED <<typed, taken, message, box, size>>,
           tested => tested', Exists' => Exists,
           \/ pubWorker' = pubWorker
           \/ pubWorker \notin {"storing", "done"} /\ pubWorker' \notin {"storing", "done"}
    PROVE  Framed(k, s)'
<1>1. CASE pubWorker' = pubWorker
  BY <1>1 DEF Framed
<1>2. CASE pubWorker \notin {"storing", "done"} /\ pubWorker' \notin {"storing", "done"}
  BY <1>2 DEF Framed
<1> QED
  BY <1>1, <1>2

\* A read that stores: the message it decoded is the record behind the last.
LEMMA ReadKeepsFrame ==
    ASSUME PubTypes, PublisherStands, ReadMessage, StreamFramed
    PROVE  StreamFramed'
<1>1. PICK k \in 0 .. Len(typed), s \in {0, 1} : Framed(k, s)
  BY DEF StreamFramed
<1>2. taken = s + Record * k /\ (s = 1 => tested)
  BY <1>1 DEF Framed
<1>3. UNCHANGED <<pub, typed, tested, box, size, removal>> /\ pubWorker = "reading"
  BY DEF ReadMessage, pubVars, boxVars
<1>4. /\ Exists' <=> Exists
      /\ Len(typed) \in Nat /\ k \in Nat /\ k <= Len(typed)
  BY <1>3 DEF Exists, PubTypes
<1>5. /\ \A i \in 1 .. Len(box) : box[i].line <= k /\ box[i].from <= s - 1
      /\ Exists /\ size < BoxBytes =>
            \A j \in 1 .. k : typed[j] > 0 => \E i \in 1 .. Len(box) : box[i].line = j
  BY <1>1, <1>3 DEF Framed
<1>6. \A i \in 1 .. Len(box) : box[i].line \in Nat /\ box[i].from \in Int
  BY BoxHolds DEF Stored
<1>7. CASE /\ k = Len(typed) /\ s = 0 /\ tested
           /\ taken' = 1 + Record * k /\ message' = Nothing
           /\ pubWorker' = "storing"
  <2>1. \A i \in 1 .. Len(box) : box[i].from <= 0
    BY <1>5, <1>6, <1>7
  <2>2. Framed(k, 1)'
    BY <1>3, <1>4, <1>5, <1>7, <2>1 DEF Framed
  <2> QED
    BY <1>3, <2>2 DEF StreamFramed
<1>8. CASE /\ k < Len(typed) /\ tested
           /\ taken' = s + Record * (k + 1)
           /\ message' = IF s > typed[k + 1] THEN Nothing
                         ELSE [line |-> k + 1, from |-> s - 1,
                               bytes |-> typed[k + 1] - s + 2]
           /\ pubWorker' = "storing"
  <2>1. k + 1 \in 0 .. Len(typed) /\ k + 1 \in 1 .. Len(typed)
    BY <1>4, <1>8
  <2>2. typed[k + 1] \in Nat
    <3>1. typed[k + 1] \in Lengths
      BY <2>1 DEF PubTypes
    <3>2. Lengths \subseteq Nat
      BY SessionsAssumption
    <3> QED
      BY <3>1, <3>2
  <2>3. \A i \in 1 .. Len(box) : box[i].line <= k + 1 /\ box[i].line < k + 1
    BY <1>4, <1>5, <1>6
  <2>4. message' # Nothing =>
           /\ message'.line = k + 1 /\ message'.from = s - 1
           /\ message'.bytes = typed[k + 1] - s + 2 /\ s <= typed[k + 1]
    BY <1>8, <2>2
  <2>5. message' # Nothing => message'.bytes >= 2
    BY <2>2, <2>4
  <2>6. typed[k + 1] > 0 => message' # Nothing /\ message'.line = k + 1
    <3>1. ASSUME typed[k + 1] > 0 PROVE message' # Nothing /\ message'.line = k + 1
      <4>1. ~(s > typed[k + 1])
        BY <2>2, <3>1
      <4>2. message' = [line |-> k + 1, from |-> s - 1, bytes |-> typed[k + 1] - s + 2]
        BY <1>8, <4>1
      <4>3. message'.line = k + 1
        BY <4>2
      <4>4. Nothing.line = 0 /\ k + 1 # 0
        BY <1>4 DEF Nothing
      <4> QED
        BY <4>3, <4>4
    <3> QED
      BY <3>1
  <2>7. ASSUME Exists, size < BoxBytes, NEW j \in 1 .. k + 1, typed[j] > 0
        PROVE  \/ \E i \in 1 .. Len(box) : box[i].line = j
               \/ message' # Nothing /\ message'.line = j
    <3>1. j \in 1 .. k \/ j = k + 1
      BY <1>4
    <3> QED
      BY <1>5, <2>6, <2>7, <3>1
  <2>8. Framed(k + 1, s)'
    BY <1>2, <1>3, <1>4, <1>5, <1>8, <2>3, <2>4, <2>5, <2>7 DEF Framed
  <2> QED
    BY <1>3, <2>1, <2>8 DEF StreamFramed
<1>9. CASE k = Len(typed) /\ UNCHANGED <<taken, message>> /\ pubWorker' = "done"
  <2>1. Framed(k, s)'
    BY <1>1, <1>3, <1>4, <1>5, <1>9 DEF Framed
  <2> QED
    BY <1>3, <2>1 DEF StreamFramed
<1> QED
  BY <1>2, <1>7, <1>8, <1>9, MessageIsRead

LEMMA StoreKeepsFrame ==
    ASSUME PubTypes, StoreMessage, StreamFramed
    PROVE  StreamFramed'
<1>1. PICK k \in 0 .. Len(typed), s \in {0, 1} : Framed(k, s)
  BY DEF StreamFramed
<1>2. UNCHANGED <<pub, typed, tested, taken, message, removal>>
      /\ pubWorker = "storing" /\ pubWorker' = "reading"
  BY DEF StoreMessage, pubVars
<1>3. /\ taken = s + Record * k
      /\ s = 1 => tested
      /\ \A i \in 1 .. Len(box) : box[i].line <= k /\ box[i].from <= s - 1
      /\ message # Nothing => message.line = k /\ message.from = s - 1 /\ message.bytes >= 2
      /\ Exists /\ size < BoxBytes =>
            \A j \in 1 .. k : typed[j] > 0 =>
               \/ \E i \in 1 .. Len(box) : box[i].line = j
               \/ message # Nothing /\ message.line = j
  BY <1>1, <1>2 DEF Framed
<1>4. Exists' <=> Exists
  BY <1>2 DEF Exists
<1>5. Framed(k, s)'
  <2>1. CASE UNCHANGED <<box, size>> /\ (Exists /\ message.bytes >= 1 => size = BoxBytes)
    <3>1. message # Nothing => message.bytes >= 1
      BY <1>3 DEF PubTypes, Stored
    <3>2. Exists /\ size < BoxBytes => message = Nothing
      BY <2>1, <3>1 DEF BoxBytes
    <3> QED
      BY <1>2, <1>3, <1>4, <2>1, <3>2 DEF Framed
  <2>2. ASSUME NEW kept \in Stored, Adds(kept) PROVE Framed(k, s)'
    <3>1. /\ message # Nothing /\ size < BoxBytes
          /\ kept.line = k /\ kept.from = s - 1
          /\ box' = Append(box, kept)
      BY <1>3, <2>2 DEF Adds
    <3>2. PICK n \in Nat : n = Len(box)
      BY DEF PubTypes
    <3>3. Len(box') = n + 1 /\ box'[n + 1] = kept /\ \A i \in 1 .. n : box'[i] = box[i]
      BY <3>1, <3>2 DEF PubTypes
    <3>4. k \in Nat /\ s - 1 \in Int
      BY DEF PubTypes
    <3>5. ASSUME NEW i \in 1 .. Len(box') PROVE box'[i].line <= k /\ box'[i].from <= s - 1
      <4>1. i \in 1 .. n \/ i = n + 1
        BY <3>2, <3>3
      <4>2. CASE i \in 1 .. n
        BY <1>3, <3>2, <3>3, <4>2
      <4>3. CASE i = n + 1
        BY <3>1, <3>3, <3>4, <4>3
      <4> QED
        BY <4>1, <4>2, <4>3
    <3>6. ASSUME Exists, NEW j \in 1 .. k, typed[j] > 0
          PROVE  \E i \in 1 .. Len(box') : box'[i].line = j
      <4>1. \/ \E i \in 1 .. Len(box) : box[i].line = j
            \/ message # Nothing /\ message.line = j
        BY <1>3, <3>1, <3>6
      <4>2. CASE \E i \in 1 .. Len(box) : box[i].line = j
        <5>1. PICK i \in 1 .. Len(box) : box[i].line = j
          BY <4>2
        <5>2. i \in 1 .. Len(box') /\ box'[i] = box[i]
          BY <3>2, <3>3
        <5> QED
          BY <5>1, <5>2
      <4>3. CASE message # Nothing /\ message.line = j
        <5>1. n + 1 \in 1 .. Len(box') /\ box'[n + 1].line = j
          BY <1>3, <3>1, <3>2, <3>3, <4>3
        <5> QED
          BY <5>1
      <4> QED
        BY <4>1, <4>2, <4>3
    <3> QED
      BY <1>2, <1>3, <1>4, <3>5, <3>6 DEF Framed
  <2> QED
    BY <2>1, <2>2, StoreAdds
<1> QED
  BY <1>2, <1>5 DEF StreamFramed

LEMMA StreamFramedKept ==
    ASSUME PubTypes, PublisherStands, StreamFramed, Next
    PROVE  StreamFramed'
<1> USE DEF pubVars, pubWorkerVars, boxVars, subWorkerVars, subVars
<1> PICK k \in 0 .. Len(typed), s \in {0, 1} : Framed(k, s)
  BY DEF StreamFramed
<1>0. ASSUME UNCHANGED <<typed, taken, message, box, size>>,
             tested => tested', Exists' => Exists,
             \/ pubWorker' = pubWorker
             \/ pubWorker \notin {"storing", "done"} /\ pubWorker' \notin {"storing", "done"}
      PROVE  StreamFramed'
  <2>1. Framed(k, s)'
    BY <1>0, FramedStays
  <2> QED
    BY <1>0, <2>1 DEF StreamFramed
<1>1. CASE PublisherSide /\ UNCHANGED <<removal, box, size>>
  <2>0. Exists' => Exists
    BY <1>1 DEF Exists
  <2>1. CASE FindForPublisher
    <3>1. UNCHANGED <<typed, tested, taken, message>>
          /\ pubWorker = "idle" /\ pubWorker' \in {"opening", "refusing"}
      BY <2>1 DEF FindForPublisher
    <3> QED
      BY <1>0, <1>1, <2>0, <3>1
  <2>2. CASE RefusePublisher
    <3>1. UNCHANGED <<typed, tested, taken, message>>
          /\ pubWorker = "refused" /\ pubWorker' = "left"
      BY <2>2 DEF RefusePublisher
    <3> QED
      BY <1>0, <1>1, <2>0, <3>1
  <2>3. CASE PublisherPipeOpens
    <3>1. UNCHANGED <<typed, tested, taken, message>>
          /\ pubWorker \in {"opening", "refusing"} /\ pubWorker' \in {"reading", "refused"}
      BY <2>3 DEF PublisherPipeOpens
    <3> QED
      BY <1>0, <1>1, <2>0, <3>1
  <2>4. CASE TestPipe
    <3>1. UNCHANGED <<typed, pubWorker, taken, message>> /\ (tested => tested')
      BY <2>4 DEF TestPipe
    <3> QED
      BY <1>0, <1>1, <2>0, <3>1
  <2>5. CASE TypeLine
    <3>1. UNCHANGED <<tested, pubWorker, taken, message>> /\ pubWorker # "done"
      BY <2>5 DEF TypeLine, PublisherStands
    <3>2. CASE UNCHANGED typed
      BY <1>0, <1>1, <2>0, <3>1, <3>2
    <3>3. CASE typed' # typed
      <4>1. PICK length : typed' = Append(typed, length)
        BY <2>5, <3>3 DEF TypeLine
      <4>2. /\ Len(typed') = Len(typed) + 1 /\ Len(typed) \in Nat
            /\ \A j \in 1 .. Len(typed) : typed'[j] = typed[j]
        BY <4>1 DEF PubTypes
      <4>3. k \in 0 .. Len(typed') /\ \A j \in 1 .. k : typed'[j] = typed[j]
        BY <4>2
      <4>4. Framed(k, s)'
        BY <1>1, <2>0, <3>1, <4>3 DEF Framed
      <4> QED
        BY <4>3, <4>4 DEF StreamFramed
    <3> QED
      BY <3>2, <3>3
  <2>6. CASE QuitPublisher
    <3>1. UNCHANGED <<typed, tested, pubWorker, taken, message>>
      BY <2>6 DEF QuitPublisher
    <3> QED
      BY <1>0, <1>1, <2>0, <3>1
  <2>7. CASE ReadMessage
    BY <2>7, ReadKeepsFrame
  <2> QED
    BY <1>1, <2>1, <2>2, <2>3, <2>4, <2>5, <2>6, <2>7 DEF PublisherSide
<1>2. CASE UNCHANGED <<pub, typed, tested, pubWorker, taken, message>>
           /\ UNCHANGED <<removal, box, size>>
  BY <1>0, <1>2 DEF Exists
<1>3. CASE StoreMessage
  BY <1>3, StoreKeepsFrame
<1>4. TestRemoval \/ RemoveBox =>
         /\ UNCHANGED <<pub, typed, tested, pubWorker, taken, message, box, size>>
         /\ Exists' => Exists
  BY DEF TestRemoval, RemoveBox, Exists
<1> QED
  BY <1>0, <1>1, <1>2, <1>3, <1>4, Sides

\* What a step does to the box: it adds one message, to a box with room.
BoxGrows ==
    /\ Len(box) <= Len(box') /\ \A i \in 1 .. Len(box) : box'[i] = box[i]
    /\ size = BoxBytes => UNCHANGED <<box, size>>

LEMMA BoxOnlyGrows ==
    ASSUME PubTypes, Next
    PROVE  BoxGrows
<1> USE DEF pubVars, pubWorkerVars, boxVars, subWorkerVars, subVars
<1>1. CASE UNCHANGED <<box, size>>
  BY <1>1 DEF BoxGrows, PubTypes
<1>2. CASE StoreMessage
  <2>1. ASSUME NEW kept \in Stored, Adds(kept) PROVE BoxGrows
    <3>1. box' = Append(box, kept) /\ size < BoxBytes
      BY <2>1 DEF Adds
    <3>2. box \in Seq(Stored) /\ size \in Nat
      BY DEF PubTypes, BoxBytes
    <3>3. size # BoxBytes
      BY <3>1, <3>2 DEF BoxBytes
    <3>4. Len(box') = Len(box) + 1 /\ \A i \in 1 .. Len(box) : box'[i] = box[i]
      BY <3>1, <3>2
    <3>5. Len(box) <= Len(box')
      BY <3>2, <3>4
    <3> QED
      BY <3>3, <3>4, <3>5 DEF BoxGrows
  <2> QED
    BY <1>1, <1>2, <2>1, StoreAdds
<1>3. TestRemoval \/ RemoveBox => UNCHANGED <<box, size>>
  BY DEF TestRemoval, RemoveBox
<1> QED
  BY <1>1, <1>2, <1>3, Sides

LEMMA BoxSoundKept ==
    ASSUME PubTypes, StreamFramed, BoxSound, Next
    PROVE  BoxSound'
<1> USE DEF pubVars, pubWorkerVars, boxVars, subWorkerVars, subVars
<1>1. CASE UNCHANGED <<box, size>>
  BY <1>1 DEF BoxSound
<1>2. ASSUME StoreMessage, NEW kept \in Stored, Adds(kept) PROVE BoxSound'
  <2>1. PICK k \in 0 .. Len(typed), s \in {0, 1} : Framed(k, s)
    BY DEF StreamFramed
  <2>2. pubWorker = "storing" /\ message # Nothing /\ box' = Append(box, kept)
        /\ size < BoxBytes
    BY <1>2 DEF StoreMessage, Adds
  <2>3. /\ kept.line = k /\ kept.from = s - 1 /\ kept.bytes >= 1
        /\ kept.bytes = 1 => size' = BoxBytes
    BY <1>2, <2>1, <2>2 DEF Framed, Adds, Stored, PubTypes
  <2>4. \A i \in 1 .. Len(box) : box[i].line < k /\ box[i].from <= s - 1
    BY <2>1, <2>2 DEF Framed
  <2>5. PICK n \in Nat : n = Len(box)
    BY DEF PubTypes
  <2>6. Len(box') = n + 1 /\ box'[n + 1] = kept /\ \A i \in 1 .. n : box'[i] = box[i]
    BY <2>2, <2>5 DEF PubTypes
  <2>7. \A i \in 1 .. n : box[i].bytes >= 1 /\ box[i].bytes # 1
    BY <2>2, <2>5 DEF BoxSound, PubTypes, BoxBytes
  <2>8. \A i \in 1 .. n + 1 : i \in 1 .. n \/ i = n + 1
    BY <2>5
  <2>9. \A i, j \in 1 .. n + 1 : i < j => i \in 1 .. n /\ (j \in 1 .. n \/ j = n + 1)
    BY <2>5
  <2>10. ASSUME NEW i \in 1 .. n + 1, NEW j \in 1 .. n + 1, i < j
         PROVE  box'[i].line < box'[j].line /\ box'[i].from <= box'[j].from
    <3>1. i \in 1 .. n /\ box'[i] = box[i]
      BY <2>6, <2>9, <2>10
    <3>2. CASE j \in 1 .. n
      BY <2>5, <2>6, <2>10, <3>1, <3>2 DEF BoxSound
    <3>3. CASE j = n + 1
      BY <2>3, <2>4, <2>5, <2>6, <3>1, <3>3
    <3> QED
      BY <2>9, <2>10, <3>2, <3>3
  <2>11. ASSUME NEW i \in 1 .. n + 1
         PROVE  /\ box'[i].from \in {-1, 0} /\ box'[i].bytes >= 1
                /\ box'[i].bytes = 1 => i = n + 1 /\ size' = BoxBytes
    <3>1. CASE i \in 1 .. n
      BY <2>5, <2>6, <2>7, <3>1 DEF BoxSound
    <3>2. CASE i = n + 1
      BY <2>3, <2>6, <3>2
    <3> QED
      BY <2>8, <3>1, <3>2
  <2> QED
    BY <2>6, <2>10, <2>11 DEF BoxSound
<1>3. TestRemoval \/ RemoveBox => UNCHANGED <<box, size>>
  BY DEF TestRemoval, RemoveBox
<1> QED
  BY <1>1, <1>2, <1>3, Sides, StoreAdds

-----------------------------------------------------------------------------
(* What the subscriber is sent and prints.                                 *)

\* The box may grow under the marks.
LEMMA MarksStay ==
    ASSUME PubTypes, PubTypes', SubTypes, RecordsMarked, BoxGrows,
           UNCHANGED <<position, buffer, sent, received, printed>>,
           \/ subWorker' = subWorker
           \/ subWorker' \notin {"idle", "sending"} /\ subWorker # "sending"
              /\ (subWorker \in {"closing", "unlinking", "done"} =>
                     subWorker' \in {"closing", "unlinking", "done"}),
           \/ sub' = sub
           \/ sub' \in {"stuck", "left", "quit"}
           \/ sub = "asked" /\ sub' = "reading"
    PROVE  RecordsMarked'
<1> PICK marks \in [0 .. Len(sent) -> 0 .. Len(box)] : Marked(marks)
  BY DEF RecordsMarked
<1> PICK n \in Nat, m \in Nat : n = Len(box) /\ m = Len(sent)
  BY DEF PubTypes, SubTypes
<1> PICK S : S = Stored
  OBVIOUS
<1>1. /\ box \in Seq(S) /\ box' \in Seq(S) /\ n <= Len(box') /\ Len(box') \in Nat
      /\ \A i \in 1 .. n : box'[i] = box[i]
  BY DEF PubTypes, BoxGrows
<1>2. position \in Nat /\ position <= n /\ received \in Nat /\ received <= m
  BY DEF SubTypes, RecordsMarked
<1>3. \A k \in 0 .. m : marks[k] \in Nat /\ marks[k] <= n
  OBVIOUS
<1>4. marks \in [0 .. m -> 0 .. Len(box')]
  BY <1>1, <1>3
<1>5. \A a \in Nat, b \in Nat : a <= b /\ b <= n => SubSeq(box', a + 1, b) = SubSeq(box, a + 1, b)
  BY <1>1, PartOfLonger
<1>6. \A b \in Nat : b <= n => SubSeq(box', 1, b) = SubSeq(box, 1, b)
  <2>1. \A b \in Nat : b <= n => SubSeq(box', 0 + 1, b) = SubSeq(box, 0 + 1, b)
    <3>1. 0 \in Nat /\ \A b \in Nat : 0 <= b
      OBVIOUS
    <3> QED
      BY <1>5, <3>1
  <2> QED
    BY <2>1
<1>7. ASSUME NEW k \in 1 .. m
      PROVE  marks[k - 1] < marks[k] /\ sent[k] = SubSeq(box', marks[k - 1] + 1, marks[k])
  <2>1. marks[k - 1] < marks[k] /\ sent[k] = SubSeq(box, marks[k - 1] + 1, marks[k])
    BY DEF Marked
  <2>2. k - 1 \in 0 .. m /\ k \in 0 .. m
    OBVIOUS
  <2>3. PICK a, b : a = marks[k - 1] /\ b = marks[k]
    OBVIOUS
  <2>4. a \in Nat /\ b \in Nat /\ a <= b /\ b <= n
    BY <1>3, <2>1, <2>2, <2>3
  <2> QED
    BY <1>5, <2>1, <2>3, <2>4
<1>8. subWorker' = "sending" =>
         marks[m] < position /\ buffer = SubSeq(box', marks[m] + 1, position)
  <2> SUFFICES ASSUME subWorker' = "sending"
               PROVE  marks[m] < position /\ buffer = SubSeq(box', marks[m] + 1, position)
    OBVIOUS
  <2>1. marks[m] < position /\ buffer = SubSeq(box, marks[m] + 1, position)
    BY DEF Marked
  <2>2. PICK a : a = marks[m]
    OBVIOUS
  <2>3. a \in Nat /\ a <= position
    BY <1>2, <1>3, <2>1, <2>2
  <2> QED
    BY <1>2, <1>5, <2>1, <2>2, <2>3
<1>9. sub' \in {"asked", "reading"} => printed = SubSeq(box', 1, marks[received])
  <2>1. received \in 0 .. m
    BY <1>2
  <2>2. marks[received] \in Nat /\ marks[received] <= n
    BY <1>3, <2>1
  <2>3. sub' \in {"asked", "reading"} => printed = SubSeq(box, 1, marks[received])
    BY DEF Marked
  <2> QED
    BY <1>6, <2>2, <2>3
<1>10. sub' = "reopening" =>
          received >= 1 /\ printed = SubSeq(box', 1, marks[received - 1])
  <2> SUFFICES ASSUME sub' = "reopening"
               PROVE  received >= 1 /\ printed = SubSeq(box', 1, marks[received - 1])
    OBVIOUS
  <2>1. received >= 1 /\ printed = SubSeq(box, 1, marks[received - 1])
    BY DEF Marked
  <2>2. received - 1 \in 0 .. m
    BY <1>2, <2>1
  <2>3. marks[received - 1] \in Nat /\ marks[received - 1] <= n
    BY <1>3, <2>2
  <2> QED
    BY <1>6, <2>1, <2>3
<1>11. subWorker' \in {"idle", "opening", "refusing", "probing", "reading", "empty", "waiting"}
       => position = marks[m]
  BY DEF Marked, SubTypes
<1>12. marks[0] = 0 /\ \A k \in 0 .. m : marks[k] <= position
  BY DEF Marked
<1>13. Marked(marks)'
  BY <1>7, <1>8, <1>9, <1>10, <1>11, <1>12 DEF Marked
<1>14. position' <= Len(box') /\ received' <= Len(sent')
  BY <1>1, <1>2
<1> QED
  BY <1>4, <1>13, <1>14 DEF RecordsMarked

\* The worker reads all that is new.
LEMMA ReadBoxMarks ==
    ASSUME PubTypes, SubTypes, RecordsMarked, ReadBox
    PROVE  RecordsMarked'
<1> PICK marks \in [0 .. Len(sent) -> 0 .. Len(box)] : Marked(marks)
  BY DEF RecordsMarked
<1> PICK n \in Nat, m \in Nat : n = Len(box) /\ m = Len(sent)
  BY DEF PubTypes, SubTypes
<1>1. UNCHANGED <<box, sent, received, printed, sub>> /\ subWorker = "reading"
  BY DEF ReadBox, boxVars, subVars
<1>2. position \in Nat /\ position <= n /\ received <= m
  BY DEF SubTypes, RecordsMarked
<1>3. position = marks[m] /\ \A k \in 0 .. m : marks[k] \in Nat /\ marks[k] <= position
  BY <1>1 DEF Marked
<1>4. CASE position < n
  <2>1. subWorker' = "sending" /\ position' = n /\ buffer' = SubSeq(box, position + 1, n)
    BY <1>4 DEF ReadBox
  <2>2. \A k \in 0 .. m : marks[k] <= position'
    BY <1>3, <1>4, <2>1
  <2>3. Marked(marks)'
    BY <1>1, <1>3, <1>4, <2>1, <2>2 DEF Marked
  <2> QED
    BY <1>1, <1>2, <2>1, <2>3 DEF RecordsMarked
<1>5. CASE ~(position < n)
  <2>1. subWorker' = "empty" /\ UNCHANGED <<position, buffer>>
    BY <1>5 DEF ReadBox
  <2>2. Marked(marks)'
    BY <1>1, <1>3, <2>1 DEF Marked
  <2> QED
    BY <1>1, <1>2, <2>1, <2>2 DEF RecordsMarked
<1> QED
  BY <1>4, <1>5

\* And sends it as a record, if the subscriber is there.
LEMMA SendMarks ==
    ASSUME PubTypes, SubTypes, RecordsMarked, SendMessages
    PROVE  RecordsMarked'
<1> PICK marks \in [0 .. Len(sent) -> 0 .. Len(box)] : Marked(marks)
  BY DEF RecordsMarked
<1> PICK n \in Nat, m \in Nat : n = Len(box) /\ m = Len(sent)
  BY DEF PubTypes, SubTypes
<1>1. UNCHANGED <<box, position, buffer, received, printed, sub>> /\ subWorker = "sending"
  BY DEF SendMessages, boxVars, subVars, WorkerGoes
<1>2. position \in Nat /\ position <= n /\ received \in Nat /\ received <= m
  BY DEF SubTypes, RecordsMarked
<1>3. /\ marks[m] < position /\ buffer = SubSeq(box, marks[m] + 1, position)
      /\ marks[0] = 0 /\ \A k \in 0 .. m : marks[k] \in Nat /\ marks[k] <= position
  <2>1. marks[m] < position /\ buffer = SubSeq(box, marks[m] + 1, position)
    BY <1>1 DEF Marked
  <2>2. marks[0] = 0 /\ \A k \in 0 .. m : marks[k] <= position
    BY DEF Marked
  <2>3. \A k \in 0 .. m : marks[k] \in Nat
    OBVIOUS
  <2> QED
    BY <2>1, <2>2, <2>3
<1>4. \A k \in 1 .. m : /\ marks[k - 1] < marks[k]
                        /\ sent[k] = SubSeq(box, marks[k - 1] + 1, marks[k])
  BY DEF Marked
<1>5. CASE SubReader
  <2>1. sent' = Append(sent, buffer) /\ subWorker' = "probing"
    BY <1>5 DEF SendMessages, WorkerGoes
  <2>2. /\ Len(sent') = m + 1 /\ sent'[m + 1] = buffer
        /\ \A k \in 1 .. m : sent'[k] = sent[k]
    BY <2>1 DEF SubTypes
  <2>3. PICK longer : longer = [k \in 0 .. m + 1 |-> IF k <= m THEN marks[k] ELSE position]
    OBVIOUS
  <2>4. longer[m + 1] = position /\ \A k \in 0 .. m : longer[k] = marks[k]
    BY <2>3
  <2>5. longer \in [0 .. m + 1 -> 0 .. n]
    BY <1>2, <2>3
  <2>6. \A k \in 0 .. m + 1 : longer[k] <= position
    <3>1. \A k \in 0 .. m + 1 : k \in 0 .. m \/ k = m + 1
      OBVIOUS
    <3>2. position <= position
      BY <1>2
    <3> QED
      BY <1>3, <2>4, <3>1, <3>2
  <2>7. ASSUME NEW k \in 1 .. m + 1
        PROVE  /\ longer[k - 1] < longer[k]
               /\ sent'[k] = SubSeq(box, longer[k - 1] + 1, longer[k])
    <3>1. CASE k \in 1 .. m
      <4>1. k - 1 \in 0 .. m /\ k \in 0 .. m
        BY <3>1
      <4> QED
        BY <1>4, <2>2, <2>4, <3>1, <4>1
    <3>2. CASE k = m + 1
      <4>1. k - 1 = m /\ m \in 0 .. m
        BY <3>2
      <4> QED
        BY <1>3, <2>2, <2>4, <3>2, <4>1
    <3> QED
      BY <3>1, <3>2
  <2>8. received \in 0 .. m /\ 0 \in 0 .. m
    BY <1>2
  <2>9. /\ sub' \in {"asked", "reading"} => printed' = SubSeq(box', 1, longer[received'])
        /\ sub' = "reopening" =>
              received' >= 1 /\ printed' = SubSeq(box', 1, longer[received' - 1])
    <3>1. sub = "reopening" => received - 1 \in 0 .. m
      BY <1>2 DEF Marked
    <3> QED
      BY <1>1, <2>4, <2>8, <3>1 DEF Marked
  <2>10. Marked(longer)'
    BY <1>1, <1>3, <2>1, <2>2, <2>4, <2>6, <2>7, <2>8, <2>9 DEF Marked
  <2>11. received' <= Len(sent') /\ position' <= Len(box')
    BY <1>1, <1>2, <2>2
  <2> QED
    BY <1>1, <2>2, <2>5, <2>10, <2>11 DEF RecordsMarked
<1>6. CASE ~SubReader
  <2>1. sent' = sent /\ subWorker' = "closing"
    BY <1>6 DEF SendMessages, WorkerGoes
  <2>2. Marked(marks)'
    BY <1>1, <1>3, <1>4, <2>1 DEF Marked
  <2> QED
    BY <1>1, <1>2, <2>1, <2>2 DEF RecordsMarked
<1> QED
  BY <1>5, <1>6

LEMMA ReadRecordMarks ==
    ASSUME PubTypes, SubTypes, RecordsMarked, ReadRecord, received' = received + 1
    PROVE  RecordsMarked'
<1> PICK marks \in [0 .. Len(sent) -> 0 .. Len(box)] : Marked(marks)
  BY DEF RecordsMarked
<1>1. /\ UNCHANGED <<box, position, buffer, sent, printed, subWorker>>
      /\ sub = "reading"
  BY DEF ReadRecord, boxVars, subWorkerVars
<1>2. position \in Nat /\ position <= Len(box) /\ received \in Nat
  BY DEF SubTypes, RecordsMarked
<1>3. received < Len(sent) /\ sub' = "reopening"
  BY <1>2 DEF ReadRecord
<1>4. received' >= 1 /\ received' - 1 = received /\ received' <= Len(sent)
  BY <1>2, <1>3 DEF SubTypes
<1>5. printed = SubSeq(box, 1, marks[received])
  BY <1>1 DEF Marked
<1>6. Marked(marks)'
  BY <1>1, <1>3, <1>4, <1>5 DEF Marked
<1> QED
  BY <1>1, <1>2, <1>4, <1>6 DEF RecordsMarked

\* A record continues what was printed, and is not empty.
LEMMA RecordContinues ==
    ASSUME PubTypes, SubTypes, RecordsMarked, sub = "reopening"
    PROVE  \E a \in Nat, b \in Nat :
              /\ a < b /\ b <= Len(box)
              /\ received \in 1 .. Len(sent)
              /\ printed = SubSeq(box, 1, a) /\ Len(printed) = a
              /\ sent[received] = SubSeq(box, a + 1, b)
              /\ Len(sent[received]) = b - a /\ sent[received][1] = box[a + 1]
              /\ printed \o sent[received] = SubSeq(box, 1, b)
<1> PICK marks \in [0 .. Len(sent) -> 0 .. Len(box)] : Marked(marks)
  BY DEF RecordsMarked
<1> PICK n \in Nat, m \in Nat : n = Len(box) /\ m = Len(sent)
  BY DEF PubTypes, SubTypes
<1> PICK S : S = Stored
  OBVIOUS
<1>1. received \in Nat /\ received >= 1 /\ received <= m
  BY DEF SubTypes, RecordsMarked, Marked
<1>2. received \in 1 .. m /\ received - 1 \in 0 .. m /\ received \in 0 .. m
  BY <1>1
<1>3. PICK a, b : a = marks[received - 1] /\ b = marks[received]
  OBVIOUS
<1>4. a \in Nat /\ b \in Nat /\ b <= n
  BY <1>2, <1>3
<1>5. a < b /\ sent[received] = SubSeq(box, a + 1, b)
  BY <1>2, <1>3 DEF Marked
<1>6. printed = SubSeq(box, 1, a)
  BY <1>3 DEF Marked
<1>7. box \in Seq(S) /\ a <= n /\ a <= b
  BY <1>4, <1>5 DEF PubTypes
<1>8. Len(printed) = a
  BY <1>4, <1>6, <1>7
<1>9. Len(sent[received]) = b - a /\ sent[received][1] = box[a + 1]
  <2>1. /\ Len(SubSeq(box, a + 1, b)) = b - a
        /\ \A i \in 1 .. b - a : SubSeq(box, a + 1, b)[i] = box[a + i]
    BY <1>4, <1>7, PartOf
  <2>2. 1 \in 1 .. b - a
    BY <1>4, <1>5
  <2> QED
    BY <1>5, <2>1, <2>2
<1>10. printed \o sent[received] = SubSeq(box, 1, b)
  <2>1. SubSeq(box, 1, a) \o SubSeq(box, a + 1, b) = SubSeq(box, 1, b)
    BY <1>4, <1>7, PartsJoin
  <2> QED
    BY <1>5, <1>6, <2>1
<1> QED
  BY <1>2, <1>4, <1>5, <1>6, <1>8, <1>9, <1>10

LEMMA ReopenMarks ==
    ASSUME PubTypes, SubTypes, RecordsMarked, ReopenPipe, sub' = "reading"
    PROVE  RecordsMarked'
<1> PICK marks \in [0 .. Len(sent) -> 0 .. Len(box)] : Marked(marks)
  BY DEF RecordsMarked
<1> PICK S : S = Stored
  OBVIOUS
<1>1. /\ UNCHANGED <<box, position, buffer, sent, received, subWorker>>
      /\ sub = "reopening"
  BY DEF ReopenPipe, boxVars, subWorkerVars
<1>2. printed' = printed \o sent[received]
  BY DEF ReopenPipe, PrintLines
<1>3. received \in Nat /\ received >= 1 /\ received <= Len(sent) /\ Len(sent) \in Nat
      /\ Len(box) \in Nat
  BY <1>1, SMTT(40) DEF PubTypes, SubTypes, RecordsMarked, Marked
<1>4. received \in 1 .. Len(sent) /\ received - 1 \in 0 .. Len(sent) /\ received \in 0 .. Len(sent)
  BY <1>3
<1>5. PICK a, b : a = marks[received - 1] /\ b = marks[received]
  OBVIOUS
<1>6. a \in Nat /\ b \in Nat /\ b <= Len(box)
  BY <1>3, <1>4, <1>5
<1>7. /\ a < b /\ sent[received] = SubSeq(box, a + 1, b)
      /\ printed = SubSeq(box, 1, a)
  BY <1>1, <1>4, <1>5 DEF Marked
<1>8. SubSeq(box, 1, a) \o SubSeq(box, a + 1, b) = SubSeq(box, 1, b)
  <2>1. box \in Seq(S) /\ a <= b
    BY <1>6, <1>7 DEF PubTypes
  <2> QED
    BY <1>6, <2>1, PartsJoin
<1>9. printed' = SubSeq(box, 1, marks[received])
  BY <1>2, <1>5, <1>7, <1>8
<1>10. Marked(marks)'
  BY <1>1, <1>9 DEF Marked
<1> QED
  BY <1>1, <1>10 DEF RecordsMarked

LEMMA RecordsMarkedKept ==
    ASSUME PubTypes, SubTypes, RecordsMarked, PubTypes', BoxGrows, Next
    PROVE  RecordsMarked'
<1> USE DEF pubVars, pubWorkerVars, boxVars, subWorkerVars, subVars
<1>1. CASE SubscriberSide
  <2>1. CASE FindForSubscriber
    <3>1. UNCHANGED <<position, buffer, sent, sub, received, printed>>
          /\ subWorker = "idle" /\ subWorker' \in {"opening", "refusing"}
      BY <2>1 DEF FindForSubscriber, WorkerGoes
    <3> QED
      BY <3>1, MarksStay
  <2>2. CASE Probe
    <3>1. UNCHANGED <<position, buffer, sent, sub, received, printed>>
          /\ subWorker = "probing" /\ subWorker' \in {"reading", "closing"}
      BY <2>2 DEF Probe, WorkerGoes
    <3> QED
      BY <3>1, MarksStay
  <2>3. CASE ReadBox
    BY <2>3, ReadBoxMarks
  <2>4. CASE Wait
    <3>1. UNCHANGED <<position, buffer, sent, sub, received, printed>>
          /\ subWorker = "empty" /\ subWorker' = "waiting"
      BY <2>4 DEF Wait, WorkerGoes
    <3> QED
      BY <3>1, MarksStay
  <2>5. CASE Wake
    <3>1. UNCHANGED <<position, buffer, sent, sub, received, printed>>
          /\ subWorker = "waiting" /\ subWorker' = "probing"
      BY <2>5 DEF Wake, WorkerGoes
    <3> QED
      BY <3>1, MarksStay
  <2>6. CASE SendMessages
    BY <2>6, SendMarks
  <2>7. CASE ClosePipe
    <3>1. UNCHANGED <<position, buffer, sent, sub, received, printed>>
          /\ subWorker = "closing" /\ subWorker' = "unlinking"
      BY <2>7 DEF ClosePipe, WorkerGoes
    <3> QED
      BY <3>1, MarksStay
  <2>8. CASE UnlinkPipe
    <3>1. UNCHANGED <<position, buffer, sent, sub, received, printed>>
          /\ subWorker = "unlinking" /\ subWorker' = "done"
      BY <2>8 DEF UnlinkPipe, WorkerGoes
    <3> QED
      BY <3>1, MarksStay
  <2>9. CASE SubscriberPipeOpens
    <3>1. UNCHANGED <<position, buffer, sent, received, printed>>
          /\ subWorker \in {"opening", "refusing"} /\ subWorker' \in {"probing", "closing"}
          /\ sub = "asked" /\ sub' = "reading"
      BY <2>9 DEF SubscriberPipeOpens
    <3> QED
      BY <3>1, MarksStay
  <2>10. CASE ReadRecord
    <3>1. CASE received' = received + 1
      BY <2>10, <3>1, ReadRecordMarks
    <3>2. CASE received' # received + 1
      <4>1. UNCHANGED <<position, buffer, sent, received, printed, subWorker>>
            /\ sub' = "left"
        BY <2>10, <3>2 DEF ReadRecord
      <4> QED
        BY <4>1, MarksStay
    <3> QED
      BY <3>1, <3>2
  <2>11. CASE ReopenPipe
    <3>1. CASE sub' = "reading"
      BY <2>11, <3>1, ReopenMarks
    <3>2. CASE sub' # "reading"
      <4>1. UNCHANGED <<position, buffer, sent, received, printed, subWorker>>
            /\ sub' \in {"stuck", "left"}
        BY <2>11, <3>2 DEF ReopenPipe
      <4> QED
        BY <4>1, MarksStay
    <3> QED
      BY <3>1, <3>2
  <2>12. CASE QuitSubscriber
    <3>1. UNCHANGED <<position, buffer, sent, received, printed, subWorker>> /\ sub' = "quit"
      BY <2>12 DEF QuitSubscriber
    <3> QED
      BY <3>1, MarksStay
  <2> QED
    BY <1>1, <2>1, <2>2, <2>3, <2>4, <2>5, <2>6, <2>7, <2>8, <2>9, <2>10, <2>11, <2>12
       DEF SubscriberSide
<1>2. CASE UNCHANGED <<subWorker, position, buffer, sent, sub, received, printed>>
  BY <1>2, MarksStay
<1>3. StoreMessage \/ TestRemoval \/ RemoveBox =>
         UNCHANGED <<subWorker, position, buffer, sent, sub, received, printed>>
  BY DEF StoreMessage, TestRemoval, RemoveBox
<1> QED
  BY <1>1, <1>2, <1>3, Sides

\* What a step prints: a record, or nothing.
LEMMA PrintsRecord ==
    ASSUME Next
    PROVE  \/ UNCHANGED <<printed, message_count>>
           \/ /\ sub = "reopening" /\ PrintLines(sent[received])
              /\ UNCHANGED <<box, size>>
<1> USE DEF pubVars, pubWorkerVars, boxVars, subWorkerVars, subVars
<1>1. SubscriberSide /\ ~ReopenPipe => UNCHANGED <<printed, message_count>>
  BY DEF SubscriberSide, FindForSubscriber, Probe, ReadBox, Wait, Wake, SendMessages,
         ClosePipe, UnlinkPipe, SubscriberPipeOpens, ReadRecord, QuitSubscriber
<1>2. ReopenPipe => \/ UNCHANGED <<printed, message_count>>
                    \/ /\ sub = "reopening" /\ PrintLines(sent[received])
                       /\ UNCHANGED <<box, size>>
  BY DEF ReopenPipe
<1>3. StoreMessage \/ TestRemoval \/ RemoveBox => UNCHANGED <<printed, message_count>>
  BY DEF StoreMessage, TestRemoval, RemoveBox
<1> QED
  BY <1>1, <1>2, <1>3, Sides

LEMMA PrintedKept ==
    ASSUME PubTypes, PubTypes', SubTypes, RecordsMarked, PrintedPrefix, BoxGrows, Next
    PROVE  PrintedPrefix'
<1>1. CASE UNCHANGED <<printed, message_count>>
  <2>1. PICK m \in Nat : m = Len(printed)
    BY DEF SubTypes
  <2>2. m <= Len(box) /\ Len(box) \in Nat /\ Len(box) <= Len(box')
        /\ \A i \in 1 .. Len(box) : box'[i] = box[i]
    BY <2>1 DEF PrintedPrefix, BoxGrows, PubTypes
  <2>3. m <= Len(box') /\ \A i \in 1 .. m : box'[i] = box[i]
    <3>1. Len(box') \in Nat
      BY DEF PubTypes
    <3>2. \A i \in 1 .. m : i \in 1 .. Len(box)
      BY <2>2
    <3>3. m <= Len(box')
      BY <2>2, <3>1
    <3> QED
      BY <2>2, <3>2, <3>3
  <2> QED
    BY <1>1, <2>1, <2>3 DEF PrintedPrefix
<1>2. CASE sub = "reopening" /\ PrintLines(sent[received]) /\ UNCHANGED <<box, size>>
  <2>1. PICK a \in Nat, b \in Nat :
           b <= Len(box) /\ printed \o sent[received] = SubSeq(box, 1, b)
    BY <1>2, RecordContinues
  <2>2. printed' = SubSeq(box, 1, b)
    BY <1>2, <2>1 DEF PrintLines
  <2>3. Len(printed') = b /\ \A i \in 1 .. b : printed'[i] = box[i]
    BY <2>1, <2>2 DEF PubTypes
  <2> QED
    BY <1>2, <2>1, <2>3 DEF PrintedPrefix
<1> QED
  BY <1>1, <1>2, PrintsRecord

LEMMA CountedKept ==
    ASSUME PubTypes, SubTypes, BoxSound, RecordsMarked, Counted, BoxGrows, Next
    PROVE  Counted'
<1>1. CASE UNCHANGED <<printed, message_count>>
  BY <1>1 DEF Counted, BoxGrows
<1>2. CASE sub = "reopening" /\ PrintLines(sent[received]) /\ UNCHANGED <<box, size>>
  <2>1. PICK a \in Nat, b \in Nat :
           /\ a < b /\ b <= Len(box) /\ received \in 1 .. Len(sent)
           /\ Len(printed) = a
           /\ Len(sent[received]) = b - a /\ sent[received][1] = box[a + 1]
           /\ printed \o sent[received] = SubSeq(box, 1, b)
    BY <1>2, RecordContinues
  <2>2. printed' = SubSeq(box, 1, b)
    BY <1>2, <2>1 DEF PrintLines
  <2>3. PICK n \in Nat : n = Len(box)
    BY DEF PubTypes
  <2>4. Len(printed') = b
    BY <2>1, <2>2 DEF PubTypes
  <2>5. message_count = a
    BY <2>1, <2>3 DEF Counted
  <2>6. message_count' = message_count
           + (IF Len(sent[received]) = 1 /\ sent[received][1].bytes = 1 THEN 0
              ELSE Len(sent[received]))
    BY <1>2 DEF PrintLines
  <2>7. CASE Len(sent[received]) = 1 /\ sent[received][1].bytes = 1
    <3>1. b = a + 1 /\ box[a + 1].bytes = 1 /\ a + 1 \in 1 .. n
      BY <2>1, <2>3, <2>7, SMTT(40)
    <3>2. a + 1 = n /\ size = BoxBytes
      BY <2>3, <3>1 DEF BoxSound
    <3>3. message_count' = a
      BY <2>5, <2>6, <2>7
    <3> QED
      BY <1>2, <2>3, <2>4, <3>1, <3>2, <3>3 DEF Counted
  <2>8. CASE ~(Len(sent[received]) = 1 /\ sent[received][1].bytes = 1)
    <3>1. message_count' = a + (b - a)
      BY <2>1, <2>5, <2>6, <2>8
    <3> QED
      BY <2>1, <2>4, <3>1 DEF Counted
  <2> QED
    BY <2>7, <2>8
<1> QED
  BY <1>1, <1>2, PrintsRecord

-----------------------------------------------------------------------------
(* The invariant and the theorems.                                         *)

LEMMA InitInv == Init => Inv
<1> SUFFICES ASSUME Init PROVE Inv
  OBVIOUS
<1>1. PubTypes /\ SubTypes
  BY InitTypes
<1>2. PublisherStands /\ SubscriberStands
  BY DEF Init, PublisherStands, SubscriberStands
<1>3. box = <<>> /\ typed = <<>> /\ sent = <<>> /\ printed = <<>>
  BY DEF Init
<1>4. Len(box) = 0 /\ Len(typed) = 0 /\ Len(sent) = 0 /\ Len(printed) = 0
  BY <1>3
<1>5. BoxSound /\ PrintedPrefix
  BY <1>4 DEF BoxSound, PrintedPrefix
<1>6. Counted
  BY <1>4 DEF Init, Counted
<1>7. Framed(0, 0)
  <2>1. taken = 0 + Record * 0
    BY DEF Init, Record
  <2>2. pubWorker = "idle"
    BY DEF Init
  <2> QED
    BY <1>4, <2>1, <2>2 DEF Framed
<1>8. StreamFramed
  BY <1>4, <1>7 DEF StreamFramed
<1>9. RecordsMarked
  <2>1. PICK marks : marks = [k \in 0 .. 0 |-> 0]
    OBVIOUS
  <2>2. marks \in [0 .. Len(sent) -> 0 .. Len(box)] /\ marks[0] = 0
    BY <1>4, <2>1
  <2>3. position = 0 /\ received = 0 /\ subWorker = "idle" /\ sub = "asked"
    BY DEF Init
  <2>4. SubSeq(box, 1, marks[received]) = <<>>
    BY <1>3, <2>2, <2>3
  <2>5. Marked(marks)
    BY <1>3, <1>4, <2>2, <2>3, <2>4 DEF Marked
  <2> QED
    BY <1>4, <2>2, <2>3, <2>5 DEF RecordsMarked
<1> QED
  BY <1>1, <1>2, <1>5, <1>6, <1>8, <1>9 DEF Inv

LEMMA InvKept == Inv /\ [Next]_vars => Inv'
<1> SUFFICES ASSUME Inv, [Next]_vars PROVE Inv'
  OBVIOUS
<1>1. CASE Next
  <2>1. PubTypes' /\ SubTypes'
    BY <1>1, PubTypesKept, SubTypesKept DEF Inv
  <2>2. PublisherStands' /\ SubscriberStands'
    BY <1>1, PublisherStandsKept, SubscriberStandsKept DEF Inv
  <2>3. StreamFramed' /\ BoxSound'
    BY <1>1, StreamFramedKept, BoxSoundKept DEF Inv
  <2>4. BoxGrows
    BY <1>1, BoxOnlyGrows DEF Inv
  <2>5. RecordsMarked' /\ Counted' /\ PrintedPrefix'
    BY <1>1, <2>1, <2>4, RecordsMarkedKept, CountedKept, PrintedKept DEF Inv
  <2> QED
    BY <2>1, <2>2, <2>3, <2>5 DEF Inv
<1>2. CASE UNCHANGED vars
  <2>1. UNCHANGED <<pub, typed, tested, pubWorker, taken, message, removal, box, size>>
    BY <1>2 DEF vars, pubVars, pubWorkerVars, boxVars
  <2>2. UNCHANGED <<subWorker, position, buffer, sent, named, sub, received, spare, printed,
                    message_count>>
    BY <1>2 DEF vars, subWorkerVars, subVars
  <2>3. PubTypes' /\ PublisherStands' /\ BoxSound'
    BY <2>1 DEF Inv, PubTypes, PublisherStands, BoxSound
  <2>4. SubTypes' /\ SubscriberStands'
    BY <2>1, <2>2 DEF Inv, SubTypes, SubscriberStands, Exists
  <2>5. StreamFramed'
    BY <2>1, SMTT(40) DEF Inv, StreamFramed, Framed, Exists
  <2>6. RecordsMarked' /\ Counted' /\ PrintedPrefix'
    BY <2>1, <2>2 DEF Inv, RecordsMarked, Marked, Counted, PrintedPrefix
  <2> QED
    BY <2>3, <2>4, <2>5, <2>6 DEF Inv
<1> QED
  BY <1>1, <1>2

LEMMA InvAlways == Spec => []Inv
BY InitInv, InvKept, PTL DEF Spec

\* However long the lines and however many, the box holds them in the order in
\* which they were typed, although the byte for the test may shift every read of
\* connect_publisher by one (pub.c:97, mbroker.c:130-144).
THEOREM StoredInOrder == Spec => []StoredAsTyped
<1>1. Inv => StoredAsTyped
  <2> SUFFICES ASSUME Inv PROVE StoredAsTyped
    OBVIOUS
  <2>1. DOMAIN box = 1 .. Len(box)
    BY DEF Inv, PubTypes
  <2> QED
    BY <2>1 DEF Inv, BoxSound, StoredAsTyped
<1> QED
  BY <1>1, InvAlways, PTL

\* A publisher that ended left nothing in its pipe that has room in the box: the
\* last read is never a part of a record (mbroker.c:130-144).
THEOREM NothingIsLeft == Spec => []NothingLeftInThePipe
<1>1. Inv => NothingLeftInThePipe
  <2> SUFFICES ASSUME Inv, pubWorker = "done", removal = "none", size < BoxBytes,
                      NEW j \in DOMAIN typed, typed[j] > 0
               PROVE  \E i \in DOMAIN box : box[i].line = j
    BY DEF NothingLeftInThePipe
  <2>1. DOMAIN box = 1 .. Len(box) /\ DOMAIN typed = 1 .. Len(typed)
    BY DEF Inv, PubTypes
  <2>2. PICK k \in 0 .. Len(typed), s \in {0, 1} : Framed(k, s)
    BY DEF Inv, StreamFramed
  <2>3. k = Len(typed) /\ Exists
    BY <2>2 DEF Framed, Exists
  <2> QED
    BY <2>1, <2>2, <2>3 DEF Framed
<1> QED
  BY <1>1, InvAlways, PTL

\* A subscriber prints what was stored from the beginning and without gaps,
\* however its worker gathered it in records, and counts what it printed.
THEOREM PrintsWhatIsStored == Spec => []PrintedAsStored
<1>1. Inv => PrintedAsStored
  <2> SUFFICES ASSUME Inv PROVE PrintedAsStored
    OBVIOUS
  <2>1. PICK m \in Nat : m = Len(printed)
    BY DEF Inv, SubTypes
  <2>2. /\ printed \in Seq(Stored) /\ box \in Seq(Stored)
        /\ m <= Len(box) /\ \A i \in 1 .. m : printed[i] = box[i]
    BY <2>1 DEF Inv, SubTypes, PubTypes, PrintedPrefix
  <2>3. IsPrefix(printed, box)
    <3>1. Len(SubSeq(box, 1, m)) = m /\ SubSeq(box, 1, m) \in Seq(Stored)
          /\ \A i \in 1 .. m : SubSeq(box, 1, m)[i] = box[i]
      BY <2>2
    <3>2. printed = SubSeq(box, 1, m)
      BY <2>1, <2>2, <3>1, SeqEqual
    <3> QED
      BY <2>1, <2>2, <3>2 DEF IsPrefix
  <2>4. message_count # Len(printed) =>
           size = BoxBytes /\ message_count = Len(printed) - 1
    BY DEF Inv, Counted
  <2> QED
    BY <2>3, <2>4 DEF PrintedAsStored
<1> QED
  BY <1>1, InvAlways, PTL

\* A subscriber leaves of itself, or hangs, only when the box is gone or it has
\* opened its pipe as often as it can (sub.c:97).
THEOREM SessionsLast == Spec => []OnlyRemovalEndsASession
<1>1. Inv => OnlyRemovalEndsASession
  BY DEF Inv, SubscriberStands, OnlyRemovalEndsASession
<1> QED
  BY <1>1, InvAlways, PTL
=============================================================================
