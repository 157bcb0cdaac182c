---------------------------- MODULE WireProtocol ----------------------------
(***************************************************************************)
(* The records of projeto-2/utils/wire_protocol.c, at the offsets and with *)
(* the sizes that are written out there.                                   *)
(*                                                                         *)
(* An array of n bytes is a function on 0 .. n - 1.  A byte is Nul, Bar,   *)
(* Stray, or a pair: what it is a part of, and which part.  An encoder is  *)
(* what `encoded' holds after the call, a decoder what its results do.     *)
(***************************************************************************)
EXTENDS Integers

CONSTANTS
    Nul, Bar,
    Stray      \* a byte from outside the array that is read

Part(v, k) == <<v, k>>
int8(v)  == Part(v, 0)
int32(v) == [k \in 0 .. 3 |-> Part(v, k)]
int64(v) == [k \in 0 .. 7 |-> Part(v, k)]

\* The n bytes at an offset of an array, as memcpy reads them
Copied(array, at, n) ==
    [k \in 0 .. n - 1 |-> IF at + k \in DOMAIN array THEN array[at + k] ELSE Stray]

-----------------------------------------------------------------------------
(* Encoders.  A buffer that is too short stays as it was.                  *)

prot_aux_encode_registrations(code, pipe_path, box_name, encoded, encoded_len) ==
    IF encoded_len < 291 THEN encoded
    ELSE [i \in 0 .. encoded_len - 1 |->
            CASE i = 0            -> int8(code)
              [] i \in {1, 258}   -> Bar
              [] i \in 2 .. 257   -> pipe_path[i - 2]
              [] i \in 259 .. 290 -> box_name[i - 259]
              [] OTHER            -> Nul]

\* The record is 1031 bytes and the test lets 1030 pass: the last byte of the
\* message is then stored behind the array.
prot_aux_encode_inbox_response(code, return_code, error_message, encoded, encoded_len) ==
    IF encoded_len < 1030 THEN encoded
    ELSE [i \in 0 .. encoded_len - 1 |->
            CASE i = 0           -> int8(code)
              [] i \in {1, 6}    -> Bar
              [] i \in 2 .. 5    -> int32(return_code)[i - 2]
              [] i \in 7 .. 1030 -> error_message[i - 7]
              [] OTHER           -> Nul]

prot_aux_encode_message(code, message, encoded, encoded_len) ==
    IF encoded_len < 1026 THEN encoded
    ELSE [i \in 0 .. encoded_len - 1 |->
            CASE i = 0           -> int8(code)
              [] i = 1           -> Bar
              [] i \in 2 .. 1025 -> message[i - 2]
              [] OTHER           -> Nul]

prot_encode_pub_registration(pipe_path, box_name, encoded, encoded_len) ==
    prot_aux_encode_registrations(1, pipe_path, box_name, encoded, encoded_len)

prot_encode_sub_registration(pipe_path, box_name, encoded, encoded_len) ==
    prot_aux_encode_registrations(2, pipe_path, box_name, encoded, encoded_len)

prot_encode_inbox_creation_req(pipe_path, box_name, encoded, encoded_len) ==
    prot_aux_encode_registrations(3, pipe_path, box_name, encoded, encoded_len)

prot_encode_inbox_creation_resp(return_code, error_message, encoded, encoded_len) ==
    prot_aux_encode_inbox_response(4, return_code, error_message, encoded, encoded_len)

prot_encode_inbox_removal_req(pipe_path, box_name, encoded, encoded_len) ==
    prot_aux_encode_registrations(5, pipe_path, box_name, encoded, encoded_len)

prot_encode_inbox_removal_resp(return_code, error_message, encoded, encoded_len) ==
    prot_aux_encode_inbox_response(6, return_code, error_message, encoded, encoded_len)

prot_encode_inbox_listing_req(pipe_path, encoded, encoded_len) ==
    IF encoded_len < 258 THEN encoded
    ELSE [i \in 0 .. encoded_len - 1 |->
            CASE i = 0          -> int8(7)
              [] i = 1          -> Bar
              [] i \in 2 .. 257 -> pipe_path[i - 2]
              [] OTHER          -> Nul]

\* Mutation: no room is left for the bar between the counts.
listing_resp_overlapping(last, box_name, box_size, n_publishers, n_subscribers, encoded, encoded_len) ==
    IF encoded_len < 63 THEN encoded
    ELSE [i \in 0 .. encoded_len - 1 |->
            CASE i = 0               -> int8(8)
              [] i = 2               -> int8(last)
              [] i \in {1, 3, 36, 45} -> Bar
              [] i \in 4 .. 35       -> box_name[i - 4]
              [] i \in 37 .. 44      -> int64(box_size)[i - 37]
              [] i \in 46 .. 53      -> int64(n_publishers)[i - 46]
              [] i \in 54 .. 61      -> int64(n_subscribers)[i - 54]
              [] OTHER               -> Nul]

prot_encode_inbox_listing_resp(last, box_name, box_size, n_publishers, n_subscribers, encoded, encoded_len) ==
    IF encoded_len < 63 THEN encoded
    ELSE [i \in 0 .. encoded_len - 1 |->
            CASE i = 0                   -> int8(8)
              [] i = 2                   -> int8(last)
              [] i \in {1, 3, 36, 45, 54} -> Bar
              [] i \in 4 .. 35           -> box_name[i - 4]
              [] i \in 37 .. 44          -> int64(box_size)[i - 37]
              [] i \in 46 .. 53          -> int64(n_publishers)[i - 46]
              [] i \in 55 .. 62          -> int64(n_subscribers)[i - 55]
              [] OTHER                   -> Nul]

prot_encode_pub_send_message(message, encoded, encoded_len) ==
    prot_aux_encode_message(9, message, encoded, encoded_len)

prot_encode_sub_receive_message(message, encoded, encoded_len) ==
    prot_aux_encode_message(10, message, encoded, encoded_len)

\* How many bytes follow the code of a record
protocol_decode_request_n_bytes(code) ==
    CASE code \in {1, 2, 3, 5} -> 290
      [] code \in {4, 6}       -> 1029
      [] code = 7              -> 257
      [] code = 8              -> 62
      [] code \in {9, 10}      -> 1025
      [] OTHER                 -> -1

-----------------------------------------------------------------------------
(* Decoders.  `was' is what the results held before; it stays when the     *)
(* record is too short.                                                    *)

prot_decode_registrations(was, encoded, encoded_len) ==
    IF encoded_len < 290 THEN was
    ELSE [pipe_path |-> Copied(encoded, 2, 256), box_name |-> Copied(encoded, 259, 32)]

\* Mutation: the bar behind the return code is not skipped.
inbox_response_from_bar(was, encoded, encoded_len) ==
    IF encoded_len < 1029 THEN was
    ELSE [return_code |-> Copied(encoded, 2, 4), error_message |-> Copied(encoded, 6, 1024)]

prot_decode_inbox_response(was, encoded, encoded_len) ==
    IF encoded_len < 1029 THEN was
    ELSE [return_code |-> Copied(encoded, 2, 4), error_message |-> Copied(encoded, 7, 1024)]

prot_decode_inbox_listing_req(was, encoded, encoded_len) ==
    IF encoded_len < 258 THEN was
    ELSE [was EXCEPT !.pipe_path = Copied(encoded, 2, 256)]

prot_decode_inbox_listing_resp(was, encoded, encoded_len) ==
    IF encoded_len < 63 THEN was
    ELSE [last          |-> encoded[2],
          box_name      |-> Copied(encoded, 4, 32),
          box_size      |-> Copied(encoded, 37, 8),
          n_publishers  |-> Copied(encoded, 46, 8),
          n_subscribers |-> Copied(encoded, 55, 8)]

prot_decode_message(was, encoded, encoded_len) ==
    IF encoded_len < 1026 THEN was ELSE Copied(encoded, 2, 1024)
=============================================================================
