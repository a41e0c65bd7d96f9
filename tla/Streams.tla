------------------------------ MODULE Streams ------------------------------
(***************************************************************************)
(* One stream of src/xlibc/libc.c, fopen to fclose, over the calls of      *)
(* src/xlibc/fs.c, and what they make of the host's open, read, write,     *)
(* lseek and close: short transfers, interrupted and refused calls, and    *)
(* an errno of the host that a success does not reset.                     *)
(*                                                                         *)
(* A byte is its position in the file.  Another program may add to the     *)
(* file.  The program of the model reads, writes and seeks as it likes.    *)
(***************************************************************************)
EXTENDS Integers

CONSTANTS
  MaxLength,   \* bound on the length of the file
  MaxCount,    \* the largest number of bytes asked for at once
  MaxFailures  \* bound on the calls of the host that fail

ASSUME StreamsAssumption ==
  MaxLength \in Nat \ {0} /\ MaxCount \in Nat \ {0} /\ MaxFailures \in Nat

VARIABLES
  length,      \* of the file on the host, or NoFile
  stream,      \* the FILE: open, the flags of base_fs_open, eof
  pos,         \* the host's file offset
  hostErrno,   \* the host's errno is not 0
  result       \* the last base_fs_ call: which, bytes asked for, return value, bytes moved

\* History, for the properties.
VARIABLES
  seen,        \* the bytes read since the stream was opened or last rewound
  pass,        \* all the program has done since then is read, and eof was unset
  failures

streamVars == <<length, stream, pos, hostErrno, result, seen, pass, failures>>

NoFile == -1
SUCCESS == 0
EINVAL == 22
ErrorNumbers == {EINVAL, 4, 28}   \* errno 4 is EINTR, 28 ENOSPC: any positive number would do
BASE_FS_READ_EOF == -1

Closed == [open |-> FALSE, flags |-> {}, eof |-> FALSE]
Result(call, asked, error, n) == [call |-> call, asked |-> asked, error |-> error, n |-> n]

StreamInit ==
  /\ length \in {NoFile} \cup 0 .. MaxLength
  /\ stream = Closed /\ pos = 0 /\ hostErrno = FALSE
  /\ result = Result("none", 0, SUCCESS, 0)
  /\ seen = {} /\ pass = FALSE /\ failures = 0

\* The host's call fails: errno is set, and stays set until the next failure.
HostFails(call) ==
  /\ failures < MaxFailures
  /\ failures' = failures + 1
  /\ hostErrno' = TRUE
  /\ \E e \in ErrorNumbers : result' = Result(call, 0, e, 0)

HostSucceeds == UNCHANGED <<hostErrno, failures>>
----------------------------------------------------------------------------
(* fopen and base_fs_open *)

Modes == {"r", "w", "r+", "w+", "a"}

\* The modes fopen knows; the flags of all others are 0.
Flags(mode) ==
  CASE mode = "r" -> {"READ"}
    [] mode = "w" -> {"WRITE", "CREATE"}
    [] mode = "r+" -> {"READ", "WRITE"}
    [] mode = "w+" -> {"READ", "WRITE", "CREATE"}
    [] OTHER -> {}

\* Nothing is truncated and nothing appended to.
Fopen(mode) ==
  /\ ~stream.open
  /\ Flags(mode) # {}
  /\ length # NoFile \/ "CREATE" \in Flags(mode)
  /\ length' = IF length = NoFile THEN 0 ELSE length
  /\ stream' = [open |-> TRUE, flags |-> Flags(mode), eof |-> FALSE]
  /\ pos' = 0
  /\ result' = Result("open", 0, SUCCESS, 0)
  /\ seen' = {} /\ pass' = TRUE
  /\ HostSucceeds

\* No such file, no permission, ...: the FILE is freed again.
FopenFails(mode) ==
  /\ ~stream.open
  /\ Flags(mode) # {}
  /\ HostFails("open")
  /\ UNCHANGED <<length, stream, pos, seen, pass>>

\* Neither read nor write: base_fs_open asks the host nothing.
FopenInvalid(mode) ==
  /\ ~stream.open
  /\ Flags(mode) = {}
  /\ result' = Result("open", 0, EINVAL, 0)
  /\ HostSucceeds
  /\ UNCHANGED <<length, stream, pos, seen, pass>>
----------------------------------------------------------------------------
(* fread and base_fs_read *)

Least(a, b) == IF a < b THEN a ELSE b

\* The bytes a read of count may deliver: at least one, if there is one.
Delivered(count) ==
  LET left == IF pos < length THEN length - pos ELSE 0
  IN IF count = 0 \/ left = 0 THEN {0} ELSE 1 .. Least(count, left)

\* Mutant: a short read counts as the end of the file.
ReadErrorShort(count, n) ==
  IF n < count /\ ~hostErrno THEN BASE_FS_READ_EOF ELSE SUCCESS

\* What base_fs_read returns when the host has read n bytes.  The host's errno
\* says something only after a failure, but it is asked all the same.
ReadError(count, n) ==
  IF count # 0 /\ n = 0 /\ ~hostErrno THEN BASE_FS_READ_EOF ELSE SUCCESS

Fread(count) ==
  /\ stream.open /\ "READ" \in stream.flags
  /\ \E n \in Delivered(count) :
       /\ pos' = pos + n
       /\ seen' = seen \cup pos .. pos + n - 1
       /\ result' = Result("read", count, ReadError(count, n), n)
       /\ stream' = [stream EXCEPT !.eof = @ \/ ReadError(count, n) = BASE_FS_READ_EOF]
  /\ HostSucceeds
  /\ UNCHANGED <<length, pass>>

\* Interrupted, or not open for reading: nothing is read, eof is not set.
FreadFails ==
  /\ stream.open
  /\ HostFails("read")
  /\ UNCHANGED <<length, stream, pos, seen, pass>>
----------------------------------------------------------------------------
(* fwrite, fseek, ftell, fclose *)

Fwrite(count) ==
  /\ stream.open /\ "WRITE" \in stream.flags
  /\ \E n \in 1 .. count :
       /\ pos + n <= MaxLength
       /\ pos' = pos + n
       /\ length' = IF pos + n > length THEN pos + n ELSE length
       /\ result' = Result("write", count, SUCCESS, n)
  /\ pass' = FALSE
  /\ HostSucceeds
  /\ UNCHANGED <<stream, seen>>

FwriteFails ==
  /\ stream.open
  /\ HostFails("write")
  /\ UNCHANGED <<length, stream, pos, seen, pass>>

\* base_fs_seek to an absolute position; eof stays as it is.
Fseek(offset) ==
  /\ stream.open
  /\ pos' = offset
  /\ result' = Result("seek", 0, SUCCESS, offset)
  /\ seen' = {} /\ pass' = (offset = 0 /\ ~stream.eof)
  /\ HostSucceeds
  /\ UNCHANGED <<length, stream>>

\* ftell: a seek by nothing.
Ftell ==
  /\ stream.open
  /\ result' = Result("seek", 0, SUCCESS, pos)
  /\ HostSucceeds
  /\ UNCHANGED <<length, stream, pos, seen, pass>>

FseekFails ==
  /\ stream.open
  /\ HostFails("seek")
  /\ UNCHANGED <<length, stream, pos, seen, pass>>

\* The FILE is freed even when the host's close fails.
Fclose ==
  /\ stream.open
  /\ stream' = Closed /\ pos' = 0 /\ seen' = {} /\ pass' = FALSE
  /\ \/ HostSucceeds /\ result' = Result("close", 0, SUCCESS, 0)
     \/ HostFails("close")
  /\ UNCHANGED length

\* ftruncate of the stream's descriptor: the offset stays where it is.
Ftruncate(len) ==
  /\ stream.open /\ "WRITE" \in stream.flags
  /\ length' = len
  /\ result' = Result("truncate", 0, SUCCESS, 0)
  /\ pass' = FALSE
  /\ HostSucceeds
  /\ UNCHANGED <<stream, pos, seen>>

\* access opens and closes the file; what it leaves is the host's errno.
Access ==
  /\ \/ length # NoFile /\ HostSucceeds /\ result' = Result("open", 0, SUCCESS, 0)
     \/ HostFails("open")
  /\ UNCHANGED <<length, stream, pos, seen, pass>>

\* Another program adds to the file (external).
Grow ==
  /\ length \in 0 .. MaxLength - 1
  /\ length' = length + 1
  /\ UNCHANGED <<stream, pos, hostErrno, result, seen, pass, failures>>

StreamNext ==
  \/ \E mode \in Modes : Fopen(mode) \/ FopenFails(mode) \/ FopenInvalid(mode)
  \/ \E count \in 0 .. MaxCount : Fread(count) \/ Fwrite(count)
  \/ \E offset \in 0 .. MaxLength : Fseek(offset) \/ Ftruncate(offset)
  \/ FreadFails \/ FwriteFails \/ Ftell \/ FseekFails \/ Fclose \/ Access \/ Grow

StreamSpec == StreamInit /\ [][StreamNext]_streamVars
----------------------------------------------------------------------------
\* A program that does nothing but read until feof, from the start of the file,
\* has every byte of the file when feof first holds: no short or interrupted
\* read and no growth of the file passes for its end (fs.c:189-199,
\* libc.c:709-720).
ReaderComplete ==
  [][stream'.eof /\ ~stream.eof /\ pass => seen' = 0 .. length - 1]_streamVars

\* fs.h:30-36, "returns -1 == BASE_FS_EOF on if eof was reached": a read of at
\* least one byte that found none, because the file ends there, says so.
EofReported ==
  result.call = "read" /\ result.asked > 0 /\ result.error = SUCCESS => result.n > 0
============================================================================
