----------------------------- MODULE FileStore ------------------------------
(***************************************************************************)
(* What TecnicoFS promises its callers (projeto-2/fs/operations.h): named  *)
(* files of at most MaxSize bytes, and handles that write and read them at *)
(* an offset of their own.  Callers leave open files in place.             *)
(***************************************************************************)
EXTENDS Integers, Sequences

CONSTANTS Names, Handles, Bytes, MaxSize

VARIABLES
    up,        \* mounted
    files,     \* the contents of each file that exists
    handles    \* the file and the offset of each open handle

vars == <<up, files, handles>>

Only(f, S) == [x \in DOMAIN f \cap S |-> f[x]]
With(f, x, v) == [y \in DOMAIN f \cup {x} |-> IF y = x THEN v ELSE f[y]]

InUse(name) == \E h \in DOMAIN handles : handles[h].name = name

Init == ~up /\ files = <<>> /\ handles = <<>>

Mount == ~up /\ up' /\ UNCHANGED <<files, handles>>

Unmount == up /\ ~up' /\ files' = <<>> /\ handles' = <<>>

\* A new handle, or none when there is no room for one.
Attach(name, offset) ==
    \/ \E h \in Handles \ DOMAIN handles :
          handles' = With(handles, h, [name |-> name, offset |-> offset])
    \/ DOMAIN handles = Handles /\ UNCHANGED handles

Open(name, trunc) ==
    /\ up
    /\ name \in DOMAIN files
    /\ trunc => ~InUse(name)
    /\ files' = IF trunc THEN [files EXCEPT ![name] = <<>>] ELSE files
    /\ \E offset \in {0, Len(files'[name])} : Attach(name, offset)
    /\ UNCHANGED up

Create(name) ==
    /\ up
    /\ name \in Names \ DOMAIN files
    /\ files' = With(files, name, <<>>)
    /\ Attach(name, 0)
    /\ UNCHANGED up

Close(h) ==
    /\ handles' = Only(handles, Handles \ {h})
    /\ UNCHANGED <<up, files>>

Overwrite(content, offset, n, byte) ==
    [k \in 1 .. (IF offset + n > Len(content) THEN offset + n ELSE Len(content))
        |-> IF offset < k /\ k <= offset + n THEN byte ELSE content[k]]

Advance(h, n) == handles' = [handles EXCEPT ![h].offset = @ + n]

Write(h, n, byte) ==
    /\ handles[h].offset + n <= MaxSize
    /\ files' = [files EXCEPT ![handles[h].name] =
                    Overwrite(@, handles[h].offset, n, byte)]
    /\ Advance(h, n)
    /\ UNCHANGED up

Read(h, n) ==
    /\ handles[h].offset + n <= Len(files[handles[h].name])
    /\ Advance(h, n)
    /\ UNCHANGED <<up, files>>

Remove(name) ==
    /\ name \in DOMAIN files
    /\ ~InUse(name)
    /\ files' = Only(files, Names \ {name})
    /\ UNCHANGED <<up, handles>>

Next ==
    \/ Mount
    \/ Unmount
    \/ \E name \in Names, trunc \in BOOLEAN : Open(name, trunc)
    \/ \E name \in Names : Create(name)
    \/ \E h \in DOMAIN handles : Close(h)
    \/ \E h \in DOMAIN handles, n \in 1 .. MaxSize, byte \in Bytes :
          Write(h, n, byte)
    \/ \E h \in DOMAIN handles, n \in 1 .. MaxSize : Read(h, n)
    \/ \E name \in DOMAIN files : Remove(name)

Spec == Init /\ [][Next]_vars
=============================================================================
