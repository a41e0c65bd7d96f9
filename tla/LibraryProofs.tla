---------------------------- MODULE LibraryProofs ----------------------------
(***************************************************************************)
(* Theorems about parts of xlibc and xgui that share no state with each    *)
(* other: the exit handlers (AtExit), the asynchronous loop (AsyncLoop), a *)
(* stream (Streams) and a window (Wayland).                                *)
(***************************************************************************)
EXTENDS AtExit, AsyncLoop, Streams, Wayland, SequenceTheorems, FiniteSetTheorems, TLAPS
-----------------------------------------------------------------------------
(* Exit handlers *)

(* What has been called is a beginning of what was registered, and as long  *)
(* as fini runs its index says how much.                                    *)
Kept == \A k \in 1 .. at_exit_cnt : at_exit_entries[k] = registered[k]

Walked ==
  /\ Len(ran) <= Len(registered)
  /\ \A k \in 1 .. Len(ran) : ran[k] = registered[k]

Place ==
  /\ phase \in {"main", "before"} => ran = <<>> /\ calling = {}
  /\ phase = "fini" => Len(ran) = IF calling = {} THEN i - 1 ELSE i
  /\ phase \in {"after", "exited"} => inTime = Len(ran)

AtExitInv == AtExitTypeOK /\ Kept /\ Walked /\ Place

(* An array with room for one more: it is longer than the count, what it    *)
(* had is still there, and the rest is garbage.                             *)
LEMMA RoomForOne ==
  ASSUME AtExitTypeOK
  PROVE  \E n \in Nat : /\ at_exit_cnt < n
                        /\ Room \in [1 .. n -> Handlers \cup {Garbage}]
                        /\ \A k \in 1 .. at_exit_cnt : Room[k] = at_exit_entries[k]
<1> USE AtExitAssumption DEF AtExitTypeOK, Moved
<1>1. CASE at_exit_size = 0
  <2>1. Room = Moved(FirstSize, 0)
    BY <1>1 DEF Room
  <2> QED
    BY <1>1, <2>1
<1>2. CASE at_exit_size # 0 /\ at_exit_cnt >= at_exit_size
  <2>1. Room = Moved(2 * at_exit_size, at_exit_cnt)
    BY <1>2 DEF Room
  <2>2. 2 * at_exit_size \in Nat /\ at_exit_cnt < 2 * at_exit_size
    BY <1>2
  <2> QED
    BY <1>2, <2>1, <2>2
<1>3. CASE at_exit_size # 0 /\ at_exit_cnt < at_exit_size
  BY <1>3 DEF Room
<1> QED
  BY <1>1, <1>2, <1>3

LEMMA FunctionLength ==
  ASSUME NEW S, NEW n \in Nat, NEW f \in [1 .. n -> S]
  PROVE  Len(f) = n /\ f \in Seq(S)
  OBVIOUS

LEMMA RegisterStep ==
  ASSUME AtExitInv, NEW h \in Handlers, CxaAtExit(h)
  PROVE  AtExitInv'
<1> USE DEF AtExitInv, CxaAtExit, AtExitTypeOK
<1>1. PICK n \in Nat : /\ at_exit_cnt < n
                       /\ Room \in [1 .. n -> Handlers \cup {Garbage}]
                       /\ \A k \in 1 .. at_exit_cnt : Room[k] = at_exit_entries[k]
  BY RoomForOne
<1>2. at_exit_size' = n
  BY <1>1, FunctionLength
<1>3. /\ registered' \in Seq(Handlers) /\ Len(registered') = at_exit_cnt'
      /\ \A k \in 1 .. at_exit_cnt : registered'[k] = registered[k]
      /\ registered'[at_exit_cnt'] = h
  BY AppendProperties
<1>4. AtExitTypeOK'
  BY <1>1, <1>2, <1>3
<1>5. Kept'
  BY <1>1, <1>3 DEF Kept
<1>6. Walked' /\ Place'
  BY <1>3 DEF Walked, Place
<1> QED
  BY <1>4, <1>5, <1>6

LEMMA CallStep ==
  ASSUME AtExitInv, FiniCall
  PROVE  AtExitInv'
<1> USE DEF AtExitInv, FiniCall, AtExitTypeOK, list
<1>1. at_exit_entries[i] \in Handlers \cup {Garbage} /\ at_exit_entries[i] = registered[i]
  BY DEF Kept
<1>2. /\ ran' \in Seq(Handlers \cup {Garbage}) /\ Len(ran') = i
      /\ \A k \in 1 .. Len(ran) : ran'[k] = ran[k]
      /\ ran'[i] = registered[i]
  BY <1>1, AppendProperties DEF Place
<1>3. AtExitTypeOK'
  BY <1>1, <1>2
<1>4. Kept' /\ Place'
  BY <1>2 DEF Kept, Place
<1>5. Walked'
  BY <1>2 DEF Walked, Place
<1> QED
  BY <1>3, <1>4, <1>5

LEMMA AtExitStep ==
  ASSUME AtExitInv, [AtExitNext]_atExitVars
  PROVE  AtExitInv'
<1> USE DEF AtExitInv, AtExitTypeOK, Kept, Walked, Place, list
<1>1. CASE Exit
  BY <1>1 DEF Exit
<1>2. CASE FiniStart
  BY <1>2 DEF FiniStart
<1>3. CASE HandlerReturns
  BY <1>3 DEF HandlerReturns
<1>4. CASE FiniReturn
  BY <1>4 DEF FiniReturn
<1>5. CASE HostExit
  BY <1>5 DEF HostExit
<1>6. CASE UNCHANGED atExitVars
  BY <1>6 DEF atExitVars
<1> QED
  BY <1>1, <1>2, <1>3, <1>4, <1>5, <1>6, RegisterStep, CallStep DEF AtExitNext

LEMMA AtExitInvHolds == AtExitSpec => []AtExitInv
<1>1. AtExitInit => AtExitInv
  BY DEF AtExitInit, AtExitInv, AtExitTypeOK, Kept, Walked, Place
<1>2. AtExitInv /\ [AtExitNext]_atExitVars => AtExitInv'
  BY AtExitStep
<1> QED
  BY <1>1, <1>2, PTL DEF AtExitSpec

(* The type invariant of the exit handlers: the count never passes the      *)
(* size of the array, however often __cxa_atexit has moved it, and fini     *)
(* reads no entry beyond the count (libc.c:1507-1530).                      *)
THEOREM AtExitTypeCorrect == AtExitSpec => []AtExitTypeOK
<1>1. AtExitInv => AtExitTypeOK
  BY DEF AtExitInv
<1> QED
  BY <1>1, AtExitInvHolds, PTL

(* When fini has come to its end, it has called every handler registered    *)
(* until then, those registered by handlers included, exactly once and in   *)
(* order, for every first size and any number of handlers.                  *)
THEOREM HandlersRunOnceHolds == AtExitSpec => []HandlersRunOnce
<1>1. ASSUME AtExitInv PROVE HandlersRunOnce
  <2> SUFFICES ASSUME phase \in {"after", "exited"}
               PROVE  ran = SubSeq(registered, 1, inTime)
    BY DEF HandlersRunOnce
  <2>1. inTime = Len(ran) /\ inTime \in 0 .. Len(registered) /\ registered \in Seq(Handlers)
    BY <1>1 DEF AtExitInv, AtExitTypeOK, Place
  <2>2. ran \in Seq(Handlers \cup {Garbage})
    BY <1>1 DEF AtExitInv, AtExitTypeOK
  <2> DEFINE s == SubSeq(registered, 1, inTime)
  <2>3. s \in Seq(Handlers) /\ Len(s) = inTime /\ \A k \in 1 .. inTime : s[k] = registered[k]
    BY <2>1, SubSeqProperties
  <2>4. \A k \in 1 .. Len(ran) : ran[k] = registered[k]
    BY <1>1 DEF AtExitInv, Walked
  <2> HIDE DEF s
  <2> QED
    BY <2>1, <2>2, <2>3, <2>4, SeqEqual DEF s
<1> QED
  BY <1>1, AtExitInvHolds, PTL
-----------------------------------------------------------------------------
(* The asynchronous loop *)

(* A write is in one place at a time: with the host, completed, in its      *)
(* callback, or answered and freed.  A sequence without repetitions is      *)
(* stated by its indexes, so that it says nothing of sets of sequences.     *)
OnePlace ==
  /\ \A j, k \in 1 .. Len(ring) : ring[j] = ring[k] => j = k
  /\ \A j, k \in 1 .. Len(answers) : answers[j] = answers[k] => j = k
  /\ \A k \in 1 .. Len(ring) : ring[k] \in closures \ inFlight
  /\ \A j \in 1 .. Len(ring), k \in 1 .. Len(answers) : ring[j] # answers[k]
  /\ \A k \in 1 .. Len(answers) : answers[k] \in asked \ inFlight
  /\ \A k \in 1 .. Len(answers) : answers[k] \in closures => answers[k] \in current
  /\ \A w \in current : w \in closures /\ \E k \in 1 .. Len(answers) : answers[k] = w
  /\ inFlight \subseteq closures /\ closures \subseteq asked
  /\ where \in {"main", "wait"} => current = {}

AsyncInv == AsyncTypeOK /\ OnePlace

LEMMA SubmitStep ==
  ASSUME AsyncInv, NEW w \in Writes, FsWriteAsync(w)
  PROVE  AsyncInv'
<1> USE DEF AsyncInv, FsWriteAsync, Runs
<1>1. AsyncTypeOK'
  BY DEF AsyncTypeOK
<1>2. OnePlace'
  BY DEF OnePlace
<1> QED
  BY <1>1, <1>2

LEMMA CompleteStep ==
  ASSUME AsyncInv, NEW w \in Writes, Complete(w)
  PROVE  AsyncInv'
<1> USE DEF AsyncInv, Complete
<1>1. /\ ring' \in Seq(Writes) /\ Len(ring') = Len(ring) + 1
      /\ \A k \in 1 .. Len(ring) : ring'[k] = ring[k]
      /\ ring'[Len(ring) + 1] = w
  BY AppendProperties DEF AsyncTypeOK
<1>2. AsyncTypeOK'
  BY <1>1 DEF AsyncTypeOK
<1>3. w \in inFlight /\ Len(ring) \in Nat
  BY LenProperties DEF AsyncTypeOK
<1>4. OnePlace'
  BY <1>1, <1>3 DEF OnePlace
<1> QED
  BY <1>2, <1>4

LEMMA GetEventsStep ==
  ASSUME AsyncInv, GetEvents
  PROVE  AsyncInv'
<1> USE DEF AsyncInv, GetEvents
<1>1. /\ ring \in Seq(Writes) /\ ring # <<>> /\ answers \in Seq(Writes)
  BY DEF AsyncTypeOK
<1>2. /\ Len(ring) \in Nat \ {0} /\ Head(ring) = ring[1] /\ Head(ring) \in Writes
      /\ ring' \in Seq(Writes) /\ Len(ring') = Len(ring) - 1
      /\ \A k \in 1 .. Len(ring) - 1 : ring'[k] = ring[k + 1]
  BY <1>1, HeadTailProperties, EmptySeq, LenProperties
<1>3. /\ answers' \in Seq(Writes) /\ Len(answers') = Len(answers) + 1 /\ Len(answers) \in Nat
      /\ \A k \in 1 .. Len(answers) : answers'[k] = answers[k]
      /\ answers'[Len(answers) + 1] = ring[1]
  BY <1>1, <1>2, AppendProperties, LenProperties
<1>4. ring[1] \in closures \ inFlight
  BY <1>2 DEF OnePlace
<1>5. AsyncTypeOK'
  BY <1>2, <1>3 DEF AsyncTypeOK
<1>6. /\ current = {} /\ current' = {ring[1]} /\ where' = "callback"
      /\ UNCHANGED <<inFlight, closures, asked>>
  BY <1>2, <1>4 DEF OnePlace
<1>7. OnePlace'
  <2>1. \A k \in 1 .. Len(answers') : \/ k \in 1 .. Len(answers) /\ answers'[k] = answers[k]
                                      \/ k = Len(answers') /\ answers'[k] = ring[1]
    BY <1>3
  <2>2. \A k \in 1 .. Len(ring') : k + 1 \in 2 .. Len(ring) /\ ring'[k] = ring[k + 1]
    BY <1>2
  <2>3. 1 \in 1 .. Len(ring) /\ \A k \in 2 .. Len(ring) : k \in 1 .. Len(ring) /\ ring[k] # ring[1]
    BY <1>2 DEF OnePlace
  <2>4. /\ \A j, k \in 1 .. Len(ring') : ring'[j] = ring'[k] => j = k
        /\ \A k \in 1 .. Len(ring') : ring'[k] \in closures' \ inFlight'
    BY <1>6, <2>2, <2>3 DEF OnePlace
  <2>5. \A j, k \in 1 .. Len(answers') : answers'[j] = answers'[k] => j = k
    BY <2>1, <2>3 DEF OnePlace
  <2>6. \A j \in 1 .. Len(ring'), k \in 1 .. Len(answers') : ring'[j] # answers'[k]
    BY <2>1, <2>2, <2>3 DEF OnePlace
  <2>7. \A k \in 1 .. Len(answers') : answers'[k] \in asked' \ inFlight'
    BY <1>4, <1>6, <2>1 DEF OnePlace
  <2>8. \A k \in 1 .. Len(answers') : answers'[k] \in closures' => answers'[k] \in current'
    BY <1>6, <2>1 DEF OnePlace
  <2>9. \A w \in current' : w \in closures' /\ \E k \in 1 .. Len(answers') : answers'[k] = w
    BY <1>3, <1>4, <1>6
  <2> QED
    BY <1>6, <2>4, <2>5, <2>6, <2>7, <2>8, <2>9 DEF OnePlace
<1> QED
  BY <1>5, <1>7

LEMMA AsyncStep ==
  ASSUME AsyncInv, [AsyncNext]_loopVars
  PROVE  AsyncInv'
<1> USE DEF AsyncInv, AsyncTypeOK, OnePlace
<1>1. CASE LoopCreate
  BY <1>1 DEF LoopCreate
<1>2. CASE UseUnset
  BY <1>2 DEF UseUnset
<1>3. CASE LoopRun
  BY <1>3 DEF LoopRun
<1>4. CASE CallbackReturns
  BY <1>4 DEF CallbackReturns
<1>5. CASE AsyncExit
  BY <1>5 DEF AsyncExit
<1>6. CASE Interrupted \/ UNCHANGED loopVars
  BY <1>6 DEF Interrupted, loopVars
<1> QED
  BY <1>1, <1>2, <1>3, <1>4, <1>5, <1>6, SubmitStep, CompleteStep, GetEventsStep
     DEF AsyncNext, LoopStep, Host

LEMMA AsyncInvHolds == AsyncSpec => []AsyncInv
<1>1. AsyncInit => AsyncInv
  BY DEF AsyncInit, AsyncInv, AsyncTypeOK, OnePlace
<1>2. AsyncInv /\ [AsyncNext]_loopVars => AsyncInv'
  BY AsyncStep
<1> QED
  BY <1>1, <1>2, PTL DEF AsyncSpec

(* The type invariant of the loop: what the host has, what has completed,   *)
(* the closures and the answers are all among the writes of the program.    *)
THEOREM AsyncTypeCorrect == AsyncSpec => []AsyncTypeOK
<1>1. AsyncInv => AsyncTypeOK
  BY DEF AsyncInv
<1> QED
  BY <1>1, AsyncInvHolds, PTL

(* However writes complete and whatever callbacks start, no write is        *)
(* answered twice, the closure of whatever the host still has is allocated, *)
(* and one that was answered is freed, but for the one whose callback runs  *)
(* (loop_impl.c:43-45, 64).                                                 *)
THEOREM AnsweredOnceHolds == AsyncSpec => []AnsweredOnce
<1>1. ASSUME AsyncInv PROVE AnsweredOnce
  <2>1. DOMAIN answers = 1 .. Len(answers) /\ DOMAIN ring = 1 .. Len(ring)
    BY <1>1, LenProperties DEF AsyncInv, AsyncTypeOK
  <2>2. IsInjective(answers)
    BY <1>1, <2>1 DEF AsyncInv, OnePlace, IsInjective
  <2>3. inFlight \cup ToSet(ring) \subseteq closures
    BY <1>1, <2>1 DEF AsyncInv, OnePlace, ToSet
  <2>4. ToSet(answers) \cap closures = current
    BY <1>1, <2>1 DEF AsyncInv, OnePlace, ToSet
  <2> QED
    BY <2>2, <2>3, <2>4 DEF AnsweredOnce
<1> QED
  BY <1>1, AsyncInvHolds, PTL
-----------------------------------------------------------------------------
(* Streams *)

(* The result of a call is hidden behind a set of its own, with a lemma that *)
(* says what belongs to it: the steps then say nothing of records.           *)
CallNames == {"none", "open", "read", "write", "seek", "close", "truncate"}
Results == [call : CallNames, asked : Nat, error : {SUCCESS, BASE_FS_READ_EOF} \cup ErrorNumbers, n : Nat]

StreamTypeOK ==
  /\ length \in {NoFile} \cup 0 .. MaxLength
  /\ stream \in [open : BOOLEAN, flags : SUBSET {"READ", "WRITE", "CREATE"}, eof : BOOLEAN]
  /\ pos \in 0 .. MaxLength
  /\ stream.open => length # NoFile
  /\ hostErrno \in BOOLEAN
  /\ result \in Results
  /\ seen \subseteq 0 .. MaxLength - 1
  /\ pass \in BOOLEAN /\ failures \in 0 .. MaxFailures

(* While the program does nothing but read, it has what lies before the      *)
(* offset, and the offset lies in the file: the file only grows.             *)
Passing == pass => stream.open /\ pos <= length /\ seen = 0 .. pos - 1

StreamInv == StreamTypeOK /\ Passing

(* A read delivers what there is, and nothing only at the end.               *)
LEMMA DeliveredFits ==
  ASSUME StreamTypeOK, stream.open, NEW count \in 0 .. MaxCount, NEW n \in Delivered(count)
  PROVE  /\ n \in 0 .. MaxLength /\ n <= count /\ (n > 0 => pos + n <= length)
         /\ (count # 0 /\ n = 0 => length <= pos)
  BY StreamsAssumption DEF StreamTypeOK, Delivered, Least, NoFile

LEMMA ResultTyped ==
  ASSUME NEW call \in CallNames, NEW wanted \in Nat, NEW n \in Nat,
         NEW error \in {SUCCESS, BASE_FS_READ_EOF} \cup ErrorNumbers
  PROVE  Result(call, wanted, error, n) \in Results
  BY DEF Result, Results

LEMMA FailureStep ==
  ASSUME StreamInv, NEW call \in CallNames, HostFails(call)
  PROVE  result' \in Results /\ hostErrno' \in BOOLEAN /\ failures' \in 0 .. MaxFailures
  BY ResultTyped, StreamsAssumption DEF HostFails, StreamInv, StreamTypeOK

LEMMA OpenStep ==
  ASSUME StreamInv, NEW mode \in Modes, Fopen(mode) \/ FopenFails(mode) \/ FopenInvalid(mode)
  PROVE  StreamInv'
<1> USE StreamsAssumption DEF StreamInv, StreamTypeOK, Passing, HostSucceeds, NoFile
<1>1. Flags(mode) \subseteq {"READ", "WRITE", "CREATE"}
  BY DEF Flags
<1>2. "open" \in CallNames /\ EINVAL \in ErrorNumbers
  BY DEF CallNames, ErrorNumbers
<1>3. CASE Fopen(mode)
  BY <1>1, <1>2, <1>3, ResultTyped DEF Fopen
<1>4. CASE FopenFails(mode)
  BY <1>2, <1>4, FailureStep DEF FopenFails
<1>5. CASE FopenInvalid(mode)
  BY <1>2, <1>5, ResultTyped DEF FopenInvalid
<1> QED
  BY <1>3, <1>4, <1>5

LEMMA ReadStep ==
  ASSUME StreamInv, NEW count \in 0 .. MaxCount, Fread(count)
  PROVE  StreamInv'
<1> USE StreamsAssumption DEF StreamInv, StreamTypeOK, Passing, HostSucceeds
<1>1. PICK n \in Delivered(count) :
        /\ pos' = pos + n
        /\ seen' = seen \cup pos .. pos + n - 1
        /\ result' = Result("read", count, ReadError(count, n), n)
        /\ stream' = [stream EXCEPT !.eof = @ \/ ReadError(count, n) = BASE_FS_READ_EOF]
  BY DEF Fread
<1>2. n \in 0 .. MaxLength /\ (n > 0 => pos + n <= length)
  BY DeliveredFits DEF Fread
<1>3. result' \in Results
  BY <1>1, <1>2, ResultTyped DEF ReadError, CallNames
<1>4. stream' = [stream EXCEPT !.eof = stream'.eof] /\ stream'.eof \in BOOLEAN
  BY <1>1
<1>5. StreamTypeOK'
  BY <1>1, <1>2, <1>3, <1>4 DEF Fread, NoFile
<1>6. Passing'
  BY <1>1, <1>2, <1>4 DEF Fread, NoFile
<1> QED
  BY <1>5, <1>6

LEMMA StreamStep ==
  ASSUME StreamInv, [StreamNext]_streamVars
  PROVE  StreamInv'
<1> USE StreamsAssumption DEF StreamInv, StreamTypeOK, Passing, HostSucceeds, NoFile
<1>1. /\ "open" \in CallNames /\ "read" \in CallNames /\ "write" \in CallNames
      /\ "seek" \in CallNames /\ "close" \in CallNames /\ "truncate" \in CallNames
  BY DEF CallNames
<1>2. ASSUME NEW count \in 0 .. MaxCount, Fwrite(count) PROVE StreamInv'
  <2>1. result' \in Results /\ hostErrno' \in BOOLEAN /\ failures' \in 0 .. MaxFailures
    BY <1>1, <1>2, ResultTyped DEF Fwrite
  <2>2. pass' \in BOOLEAN
    BY <1>2 DEF Fwrite
  <2>3. StreamTypeOK'
    BY <1>2, <2>1, <2>2 DEF Fwrite
  <2>4. Passing'
    BY <1>2 DEF Fwrite
  <2> QED
    BY <2>3, <2>4
<1>3. ASSUME NEW offset \in 0 .. MaxLength, Fseek(offset) PROVE StreamInv'
  <2>1. result' \in Results /\ hostErrno' \in BOOLEAN /\ failures' \in 0 .. MaxFailures
    BY <1>1, <1>3, ResultTyped DEF Fseek
  <2>2. pass' \in BOOLEAN
    BY <1>3 DEF Fseek
  <2>3. StreamTypeOK'
    BY <1>3, <2>1, <2>2 DEF Fseek
  <2>4. Passing'
    <3>1. pass' => offset = 0
      BY <1>3 DEF Fseek
    <3>2. seen' = {} /\ pos' = offset /\ stream'.open /\ 0 <= length'
      BY <1>3 DEF Fseek
    <3> QED
      BY <3>1, <3>2
  <2> QED
    BY <2>3, <2>4
<1>4. ASSUME NEW len \in 0 .. MaxLength, Ftruncate(len) PROVE StreamInv'
  <2>1. result' \in Results /\ hostErrno' \in BOOLEAN /\ failures' \in 0 .. MaxFailures
    BY <1>1, <1>4, ResultTyped DEF Ftruncate
  <2>2. pass' \in BOOLEAN
    BY <1>4 DEF Ftruncate
  <2>3. StreamTypeOK'
    BY <1>4, <2>1, <2>2 DEF Ftruncate
  <2>4. Passing'
    BY <1>4 DEF Ftruncate
  <2> QED
    BY <2>3, <2>4
<1>5. CASE FreadFails \/ FwriteFails \/ FseekFails
  <2>1. UNCHANGED <<length, stream, pos, seen, pass>>
    BY <1>5 DEF FreadFails, FwriteFails, FseekFails
  <2>2. HostFails("read") \/ HostFails("write") \/ HostFails("seek")
    BY <1>5 DEF FreadFails, FwriteFails, FseekFails
  <2>3. result' \in Results /\ hostErrno' \in BOOLEAN /\ failures' \in 0 .. MaxFailures
    BY <1>1, <2>2, FailureStep
  <2>4. StreamTypeOK'
    BY <2>1, <2>3
  <2>5. Passing'
    BY <2>1
  <2> QED
    BY <2>4, <2>5
<1>6. CASE Ftell
  <2>1. result' \in Results /\ hostErrno' \in BOOLEAN /\ failures' \in 0 .. MaxFailures
    BY <1>1, <1>6, ResultTyped DEF Ftell
  <2>2. StreamTypeOK'
    BY <1>6, <2>1 DEF Ftell
  <2>3. Passing'
    BY <1>6 DEF Ftell
  <2> QED
    BY <2>2, <2>3
<1>7. CASE Fclose
  <2>1. result' \in Results /\ hostErrno' \in BOOLEAN /\ failures' \in 0 .. MaxFailures
    BY <1>1, <1>7, ResultTyped, FailureStep DEF Fclose, Closed
  <2>2. pass' \in BOOLEAN
    BY <1>7 DEF Fclose, Closed
  <2>3. StreamTypeOK'
    BY <1>7, <2>1, <2>2 DEF Fclose, Closed
  <2>4. Passing'
    BY <1>7 DEF Fclose, Closed
  <2> QED
    BY <2>3, <2>4
<1>8. CASE Access
  <2>1. result' \in Results /\ hostErrno' \in BOOLEAN /\ failures' \in 0 .. MaxFailures
    BY <1>1, <1>8, ResultTyped, FailureStep DEF Access
  <2>2. StreamTypeOK'
    BY <1>8, <2>1 DEF Access
  <2>3. Passing'
    BY <1>8 DEF Access
  <2> QED
    BY <2>2, <2>3
<1>9. CASE Grow
  BY <1>9 DEF Grow
<1>10. CASE UNCHANGED streamVars
  BY <1>10 DEF streamVars
<1> QED
  BY <1>2, <1>3, <1>4, <1>5, <1>6, <1>7, <1>8, <1>9, <1>10, OpenStep, ReadStep DEF StreamNext

LEMMA StreamInvHolds == StreamSpec => []StreamInv
<1>1. StreamInit => StreamInv
  <2> SUFFICES ASSUME StreamInit PROVE StreamInv
    OBVIOUS
  <2>1. result \in Results
    BY ResultTyped DEF StreamInit, CallNames
  <2>2. pass \in BOOLEAN /\ hostErrno \in BOOLEAN
    BY DEF StreamInit
  <2> QED
    BY <2>1, <2>2, StreamsAssumption DEF StreamInit, StreamInv, StreamTypeOK, Passing, Closed
<1>2. StreamInv /\ [StreamNext]_streamVars => StreamInv'
  BY StreamStep
<1> QED
  BY <1>1, <1>2, PTL DEF StreamSpec

(* The type invariant of a stream: an open stream has a file, offset and     *)
(* length keep to their bounds, and every call returns an error number of    *)
(* its own kind and a count (libc.c:709-720, fs.c:189-199).                  *)
THEOREM StreamTypeCorrect == StreamSpec => []StreamTypeOK
<1>1. StreamInv => StreamTypeOK
  BY DEF StreamInv
<1> QED
  BY <1>1, StreamInvHolds, PTL

(* A program that only reads until feof has the whole file when feof first   *)
(* holds, however reads are cut short or interrupted and however the file    *)
(* grows, for files and reads of any length (fs.c:189-199, libc.c:709-720).  *)
THEOREM ReaderCompleteHolds == StreamSpec => ReaderComplete
<1> DEFINE Read == stream'.eof /\ ~stream.eof /\ pass => seen' = 0 .. length - 1
<1>1. ASSUME StreamInv, [StreamNext]_streamVars PROVE [Read]_streamVars
  <2> SUFFICES ASSUME stream'.eof, ~stream.eof, pass PROVE seen' = 0 .. length - 1
    OBVIOUS
  <2> USE <1>1 DEF StreamInv
  <2>1. ASSUME NEW count \in 0 .. MaxCount, Fread(count) PROVE seen' = 0 .. length - 1
    <3>1. PICK n \in Delivered(count) :
            /\ seen' = seen \cup pos .. pos + n - 1
            /\ stream' = [stream EXCEPT !.eof = @ \/ ReadError(count, n) = BASE_FS_READ_EOF]
      BY <2>1 DEF Fread
    <3>2. count # 0 /\ n = 0
      BY <3>1 DEF ReadError, BASE_FS_READ_EOF, SUCCESS, StreamTypeOK
    <3>3. length <= pos
      BY <2>1, <3>2, DeliveredFits DEF Fread
    <3> QED
      BY <3>1, <3>2, <3>3, StreamsAssumption DEF Passing, StreamTypeOK, NoFile
  <2>2. \E count \in 0 .. MaxCount : Fread(count)
    <3>1. StreamNext /\ stream'.eof # FALSE /\ stream' # stream
      BY <1>1 DEF streamVars
    <3>2. \A mode \in Modes : ~(Fopen(mode) \/ FopenFails(mode) \/ FopenInvalid(mode))
      <4>1. \A mode \in Modes : Fopen(mode) => stream'.eof = FALSE
        BY DEF Fopen
      <4>2. \A mode \in Modes : FopenFails(mode) \/ FopenInvalid(mode) => stream' = stream
        BY DEF FopenFails, FopenInvalid
      <4> QED
        BY <3>1, <4>1, <4>2
    <3>3. \A count \in 0 .. MaxCount : ~Fwrite(count)
      BY <3>1 DEF Fwrite
    <3>4. \A offset \in 0 .. MaxLength : ~(Fseek(offset) \/ Ftruncate(offset))
      BY <3>1 DEF Fseek, Ftruncate
    <3>5. ~(FreadFails \/ FwriteFails \/ Ftell \/ FseekFails \/ Access \/ Grow)
      BY <3>1 DEF FreadFails, FwriteFails, Ftell, FseekFails, Access, Grow
    <3>6. ~Fclose
      BY <3>1 DEF Fclose, Closed
    <3> QED
      BY <3>1, <3>2, <3>3, <3>4, <3>5, <3>6 DEF StreamNext
  <2> QED
    BY <2>1, <2>2
<1> QED
  BY <1>1, StreamInvHolds, PTL DEF StreamSpec, ReaderComplete
-----------------------------------------------------------------------------
(* The window *)

(* Whatever is under way in the two queues, no request is an error of the      *)
(* protocol, and what becomes visible has the size last proposed.  The parts   *)
(* of the invariant are operators of the two queues, S to the server and C to  *)
(* the client, and of the server's state v, so that a step is the composition  *)
(* of what it takes from one queue and what it puts into the other.            *)

Requests ==
  {GetRegistry, GetToplevel, SetMaximized, Commit, Pong}
    \cup {Bind(g) : g \in Globals}
    \cup {AckConfigure(s) : s \in Nat}
    \cup {CreateBuffer(b, z) : b \in Nat, z \in Nat \X Nat}
    \cup {DestroyBuffer(b) : b \in Nat}
    \cup {Attach(b) : b \in Nat}

Events ==
  {[op |-> o] : o \in {"done", "ping", "close", "disconnect"}}
    \cup {[op |-> "global", global |-> g] : g \in Globals}
    \cup {[op |-> "toplevel_configure", size |-> z] : z \in Nat \X Nat}
    \cup {[op |-> "surface_configure", serial |-> s] : s \in Nat}
    \cup {[op |-> "release", buffer |-> b] : b \in Nat}

Errors == {"none", "invalid_serial", "invalid_stride", "invalid_object",
           "destroyed_in_use", "unconfigured_buffer"}

Servers ==
  [initial : BOOLEAN, configured : BOOLEAN, offered : Seq(Nat \X Nat), acked : Nat,
   sizes : Seq(Nat \X Nat), alive : SUBSET Nat, used : SUBSET Nat,
   pending : Nat \cup {Unattached}, content : Nat, pings : Nat, error : Errors]

WaylandTypeOK ==
  /\ at \in {"connect", "roundtrip", "dispatch", "spinning", "crashed"}
  /\ bound \subseteq Globals
  /\ size \in Nat \X Nat /\ made \in Nat
  /\ toServer \in Seq(Requests) /\ toClient \in Seq(Events)
  /\ server \in Servers
  /\ lost \in BOOLEAN
----------------------------------------------------------------------------
(* The inductive invariant *)

\* Entry j of a queue is there and is an op.
Is(q, j, op) == j \in 1 .. Len(q) /\ q[j].op = op

\* The size last proposed by the configure events up to s is z.
Told(v, s, z) ==
  \/ \E k \in 1 .. s : /\ Drawable(v.offered[k]) /\ z = v.offered[k]
                       /\ \A l \in 1 .. s : Drawable(v.offered[l]) => l <= k
  \/ z = <<0, 0>> /\ \A l \in 1 .. s : ~Drawable(v.offered[l])

\* The serials not acknowledged yet are under way once each and in order, those
\* in the requests before those in the events.
Serials(S, C, v) ==
  /\ v.acked \in 0 .. Len(v.offered)
  /\ \A j \in 1 .. Len(S) : S[j].op = "ack_configure" =>
       S[j].serial \in v.acked + 1 .. Len(v.offered)
  /\ \A j \in 1 .. Len(C) : C[j].op = "surface_configure" =>
       C[j].serial \in v.acked + 1 .. Len(v.offered)
  /\ \A j, k \in 1 .. Len(S) :
       j < k /\ S[j].op = "ack_configure" /\ S[k].op = "ack_configure"
         => S[j].serial < S[k].serial
  /\ \A j, k \in 1 .. Len(C) :
       j < k /\ C[j].op = "surface_configure" /\ C[k].op = "surface_configure"
         => C[j].serial < C[k].serial
  /\ \A j \in 1 .. Len(S), k \in 1 .. Len(C) :
       S[j].op = "ack_configure" /\ C[k].op = "surface_configure"
         => S[j].serial < C[k].serial

\* A buffer is created right after an acknowledgement, with the size told by
\* then, and attached right after that.
CreateAt(S, v, m, j) ==
  /\ Is(S, j + 1, "attach") /\ S[j + 1].buffer = S[j].buffer
  /\ S[j].buffer \in Len(v.sizes) + 1 .. m
  /\ Drawable(S[j].size)
  /\ j = 1 => Told(v, v.acked, S[j].size)
  /\ j > 1 => Is(S, j - 1, "ack_configure") /\ Told(v, S[j - 1].serial, S[j].size)

\* The buffers the client has made and the server has not seen are under way in
\* the order of their numbers.
Creates(S, v, m) ==
  /\ \A j \in 1 .. Len(S) : S[j].op = "create_buffer" => CreateAt(S, v, m, j)
  /\ \A j, k \in 1 .. Len(S) :
       j < k /\ S[j].op = "create_buffer" /\ S[k].op = "create_buffer"
         => S[j].buffer < S[k].buffer
  /\ \A b \in Len(v.sizes) + 1 .. m :
       \E j \in 1 .. Len(S) : S[j].op = "create_buffer" /\ S[j].buffer = b
  /\ Len(v.sizes) <= m
  /\ \A b \in 1 .. Len(v.sizes) : Drawable(v.sizes[b])

\* Buffer b has the size last told before the last acknowledgement.
Shows(v, b) == b \in 1 .. Len(v.sizes) /\ b \notin v.used /\ Told(v, v.acked, v.sizes[b])

\* A buffer is attached right after its creation and committed right after that.
Attaches(S, v) ==
  /\ \A j \in 1 .. Len(S) : S[j].op = "attach" =>
       /\ Is(S, j + 1, "commit")
       /\ S[j].buffer # Null =>
            /\ j = 1 => S[j].buffer \in v.alive /\ Shows(v, S[j].buffer)
            /\ j > 1 => Is(S, j - 1, "create_buffer") /\ S[j - 1].buffer = S[j].buffer
  /\ v.pending # Unattached => Is(S, 1, "commit")
  /\ v.pending \notin {Unattached, Null} => Shows(v, v.pending)

\* The server has let go of b, and will not be given it again.
LetGo(S, v, b) ==
  /\ b \in 1 .. Len(v.sizes) /\ b \notin v.used /\ b # v.pending
  /\ Is(S, 1, "attach") => S[1].buffer # b

Releases(S, C, v) ==
  /\ v.used \subseteq 1 .. Len(v.sizes)
  /\ \A j \in 1 .. Len(S) : S[j].op = "destroy_buffer" => LetGo(S, v, S[j].buffer)
  /\ \A j \in 1 .. Len(C) : C[j].op = "release" => LetGo(S, v, C[j].buffer)

\* The client has z from the configure events up to c; every later one is under
\* way, each right behind the size it proposes.
Follows(C, v, z, c) ==
  /\ Told(v, c, z)
  /\ \A j \in 1 .. Len(C) : C[j].op = "surface_configure" =>
       \/ j = 1 /\ C[j].serial = c
       \/ /\ j > 1 /\ C[j].serial > c
          /\ Is(C, j - 1, "toplevel_configure")
          /\ C[j - 1].size = v.offered[C[j].serial]
  /\ \A j \in 1 .. Len(C) : C[j].op = "toplevel_configure" => Is(C, j + 1, "surface_configure")
  /\ \A n \in c + 1 .. Len(v.offered) :
       \E j \in 2 .. Len(C) : C[j].op = "surface_configure" /\ C[j].serial = n

\* As long as draw_frame has not failed for a visible surface: a buffer comes
\* after an acknowledgement, the null buffer before the first buffer.
Configured(S, v) ==
  /\ v.initial \/ v.offered = <<>>
  /\ v.configured => v.initial
  /\ (Is(S, 1, "create_buffer") \/ Is(S, 1, "attach") \/ v.pending # Unattached) => v.configured
  /\ \A j \in 1 .. Len(S) : S[j].op = "attach" /\ S[j].buffer = Null =>
       /\ Len(v.sizes) = 0 /\ \A k \in 1 .. j - 1 : S[k].op # "create_buffer"
       /\ j > 1 => Is(S, j - 1, "ack_configure")
  /\ v.pending = Null => Len(v.sizes) = 0
  /\ v.content \in 0 .. Len(v.sizes)

InOrder(S, C, v, m, z) ==
  /\ Serials(S, C, v) /\ Creates(S, v, m) /\ Attaches(S, v) /\ Releases(S, C, v)
  /\ \E c \in 0 .. Len(v.offered) : Follows(C, v, z, c)

WaylandInv ==
  /\ WaylandTypeOK
  /\ lost \/ server.error = "none"
  /\ server.error = "none" =>
       /\ InOrder(toServer, toClient, server, made, size)
       /\ lost \/ Configured(toServer, server)
----------------------------------------------------------------------------
(* Queues *)

\* The queue q without its first entry, and q with more entries at its end.
Popped(q, r) ==
  /\ Len(q) \in Nat /\ Len(r) \in Nat /\ Len(q) = Len(r) + 1
  /\ \A j \in 1 .. Len(r) : r[j] = q[j + 1]

Pushed(q, r) ==
  /\ Len(q) \in Nat /\ Len(r) \in Nat /\ Len(q) <= Len(r)
  /\ \A j \in 1 .. Len(q) : r[j] = q[j]

\* None of the new entries is one of ops.
New(q, r, ops) == \A j \in Len(q) + 1 .. Len(r) : r[j].op \notin ops

Framing == {"create_buffer", "attach"}
Configuring == {"toplevel_configure", "surface_configure"}

LEMMA PopClient ==
  ASSUME NEW S, NEW C, NEW D, NEW v, NEW z, NEW c, Popped(C, D)
  PROVE  /\ Serials(S, C, v) => Serials(S, D, v)
         /\ Releases(S, C, v) => Releases(S, D, v)
         /\ C[1].op # "toplevel_configure" /\ Follows(C, v, z, c) => Follows(D, v, z, c)
<1>0. /\ Len(C) \in Nat /\ Len(D) \in Nat /\ Len(C) = Len(D) + 1
      /\ \A j \in 1 .. Len(D) : j + 1 \in 2 .. Len(C) /\ D[j] = C[j + 1]
      /\ \A j \in 2 .. Len(C) : j - 1 \in 1 .. Len(D) /\ D[j - 1] = C[j]
  BY DEF Popped
<1>1. ASSUME Serials(S, C, v)
      PROVE  Serials(S, D, v)
  <2>1. \A j, k \in 1 .. Len(D) :
          j < k /\ D[j].op = "surface_configure" /\ D[k].op = "surface_configure"
            => D[j].serial < D[k].serial
    <3> TAKE j, k \in 1 .. Len(D)
    <3> j + 1 \in 1 .. Len(C) /\ k + 1 \in 1 .. Len(C) /\ (j < k => j + 1 < k + 1)
      BY <1>0
    <3> QED
      BY <1>0, <1>1 DEF Serials
  <2>2. \A j \in 1 .. Len(D) : j + 1 \in 1 .. Len(C) /\ D[j] = C[j + 1]
    BY <1>0
  <2> QED
    BY <1>1, <2>1, <2>2 DEF Serials
<1>2. ASSUME Releases(S, C, v)
      PROVE  Releases(S, D, v)
  <2>1. \A j \in 1 .. Len(D) : j + 1 \in 1 .. Len(C) /\ D[j] = C[j + 1]
    BY <1>0
  <2> QED
    BY <1>2, <2>1 DEF Releases
<1>3. ASSUME C[1].op # "toplevel_configure", Follows(C, v, z, c)
      PROVE  Follows(D, v, z, c)
  <2>1. ASSUME NEW j \in 1 .. Len(D), D[j].op = "surface_configure"
        PROVE  /\ j > 1 /\ D[j].serial > c
               /\ Is(D, j - 1, "toplevel_configure")
               /\ D[j - 1].size = v.offered[D[j].serial]
    <3>1. j + 1 \in 1 .. Len(C) /\ j + 1 # 1 /\ j + 1 - 1 = j /\ D[j] = C[j + 1]
      BY <1>0
    <3>2. /\ C[j + 1].serial > c
          /\ Is(C, j, "toplevel_configure")
          /\ C[j].size = v.offered[C[j + 1].serial]
      BY <1>3, <2>1, <3>1 DEF Follows
    <3>3. j > 1
      BY <1>3, <3>2 DEF Is
    <3> QED
      BY <1>0, <3>1, <3>2, <3>3 DEF Is
  <2>2. ASSUME NEW j \in 1 .. Len(D), D[j].op = "toplevel_configure"
        PROVE  Is(D, j + 1, "surface_configure")
    <3>1. j + 1 \in 1 .. Len(C) /\ D[j] = C[j + 1]
      BY <1>0
    <3>2. Is(C, j + 2, "surface_configure")
      BY <1>3, <2>2, <3>1 DEF Follows
    <3> QED
      BY <1>0, <3>2 DEF Is
  <2>3. ASSUME NEW n \in c + 1 .. Len(v.offered)
        PROVE  \E j \in 2 .. Len(D) : D[j].op = "surface_configure" /\ D[j].serial = n
    <3>1. PICK j \in 2 .. Len(C) : C[j].op = "surface_configure" /\ C[j].serial = n
      BY <1>3 DEF Follows
    <3>2. j - 1 \in 1 .. Len(D) /\ D[j - 1] = C[j]
      BY <1>0
    <3>3. j - 1 > 1
      BY <2>1, <3>1, <3>2
    <3> QED
      BY <3>1, <3>2, <3>3
  <2> QED
    BY <1>3, <2>1, <2>2, <2>3 DEF Follows
<1> QED
  BY <1>1, <1>2, <1>3

LEMMA PushClient ==
  ASSUME NEW S, NEW C, NEW D, NEW v, NEW z, NEW c, Pushed(C, D), New(C, D, Configuring)
  PROVE  /\ Serials(S, C, v) => Serials(S, D, v)
         /\ (\A j \in Len(C) + 1 .. Len(D) : D[j].op = "release" => LetGo(S, v, D[j].buffer))
              => (Releases(S, C, v) => Releases(S, D, v))
         /\ Follows(C, v, z, c) => Follows(D, v, z, c)
<1> USE DEF Pushed, New, Configuring
<1>0. \A j \in 1 .. Len(D) : D[j].op \in Configuring => j \in 1 .. Len(C) /\ D[j] = C[j]
  OBVIOUS
<1>1. Serials(S, C, v) => Serials(S, D, v)
  BY <1>0 DEF Serials
<1>2. ASSUME \A j \in Len(C) + 1 .. Len(D) : D[j].op = "release" => LetGo(S, v, D[j].buffer),
             Releases(S, C, v)
      PROVE  Releases(S, D, v)
  BY <1>2 DEF Releases
<1>3. ASSUME Follows(C, v, z, c)
      PROVE  Follows(D, v, z, c)
  <2>1. ASSUME NEW j \in 1 .. Len(D), D[j].op = "surface_configure"
        PROVE  \/ j = 1 /\ D[j].serial = c
               \/ /\ j > 1 /\ D[j].serial > c
                  /\ Is(D, j - 1, "toplevel_configure")
                  /\ D[j - 1].size = v.offered[D[j].serial]
    <3>1. j \in 1 .. Len(C) /\ D[j] = C[j]
      BY <1>0, <2>1
    <3>2. CASE j = 1
      BY <1>3, <2>1, <3>1, <3>2 DEF Follows
    <3>3. CASE j > 1
      <4>1. j - 1 \in 1 .. Len(C) /\ j - 1 \in 1 .. Len(D) /\ D[j - 1] = C[j - 1]
        BY <3>1, <3>3
      <4> QED
        BY <1>3, <2>1, <3>1, <3>3, <4>1 DEF Follows, Is
    <3> QED
      BY <3>2, <3>3
  <2>2. ASSUME NEW j \in 1 .. Len(D), D[j].op = "toplevel_configure"
        PROVE  Is(D, j + 1, "surface_configure")
    <3>1. j \in 1 .. Len(C) /\ Is(C, j + 1, "surface_configure")
      BY <1>0, <1>3, <2>2 DEF Follows
    <3> QED
      BY <3>1 DEF Is
  <2>3. \A n \in c + 1 .. Len(v.offered) :
          \E j \in 2 .. Len(D) : D[j].op = "surface_configure" /\ D[j].serial = n
    BY <1>3 DEF Follows
  <2> QED
    BY <1>3, <2>1, <2>2, <2>3 DEF Follows
<1> QED
  BY <1>1, <1>2, <1>3

LEMMA PushServer ==
  ASSUME NEW S, NEW T, NEW C, NEW v, NEW m, Pushed(S, T)
  PROVE  /\ New(S, T, {"ack_configure"}) => (Serials(S, C, v) => Serials(T, C, v))
         /\ New(S, T, Framing) =>
              /\ Creates(S, v, m) => Creates(T, v, m)
              /\ Attaches(S, v) => Attaches(T, v)
              /\ Configured(S, v) => Configured(T, v)
         /\ New(S, T, Framing)
            /\ (\A j \in Len(S) + 1 .. Len(T) : T[j].op = "destroy_buffer" => LetGo(S, v, T[j].buffer))
            => (Releases(S, C, v) => Releases(T, C, v))
<1>a. /\ Len(S) \in Nat /\ Len(T) \in Nat /\ Len(S) <= Len(T)
      /\ \A j \in 1 .. Len(S) : j \in 1 .. Len(T) /\ T[j] = S[j]
  BY DEF Pushed
<1>b. ASSUME New(S, T, Framing)
      PROVE  \A j \in 1 .. Len(T) :
               T[j].op \in {"create_buffer", "attach"} => j \in 1 .. Len(S) /\ T[j] = S[j]
  BY <1>b DEF Pushed, New, Framing
<1>c. \A j, op : Is(S, j, op) => Is(T, j, op)
  BY <1>a DEF Is
<1>1. ASSUME New(S, T, {"ack_configure"}), Serials(S, C, v)
      PROVE  Serials(T, C, v)
  <2>1. \A j \in 1 .. Len(T) : T[j].op = "ack_configure" => j \in 1 .. Len(S) /\ T[j] = S[j]
    BY <1>1 DEF Pushed, New
  <2> QED
    BY <1>1, <2>1 DEF Serials
<1>2. ASSUME New(S, T, Framing), Creates(S, v, m)
      PROVE  Creates(T, v, m)
  <2>1. ASSUME NEW j \in 1 .. Len(T), T[j].op = "create_buffer"
        PROVE  CreateAt(T, v, m, j)
    <3>1. j \in 1 .. Len(S) /\ T[j] = S[j] /\ CreateAt(S, v, m, j)
      BY <1>2, <1>b, <2>1 DEF Creates
    <3>2. Is(T, j + 1, "attach") /\ T[j + 1] = S[j + 1]
      BY <1>a, <1>c, <3>1 DEF CreateAt, Is
    <3>3. j > 1 => Is(T, j - 1, "ack_configure") /\ T[j - 1] = S[j - 1]
      BY <1>a, <1>c, <3>1 DEF CreateAt, Is
    <3> QED
      BY <3>1, <3>2, <3>3 DEF CreateAt
  <2>2. \A b \in Len(v.sizes) + 1 .. m :
          \E j \in 1 .. Len(T) : T[j].op = "create_buffer" /\ T[j].buffer = b
    BY <1>2, <1>a DEF Creates
  <2> QED
    BY <1>2, <1>b, <2>1, <2>2 DEF Creates
<1>3. ASSUME New(S, T, Framing), Attaches(S, v)
      PROVE  Attaches(T, v)
  <2>1. ASSUME NEW j \in 1 .. Len(T), T[j].op = "attach"
        PROVE  /\ Is(T, j + 1, "commit")
               /\ T[j].buffer # Null =>
                    /\ j = 1 => T[j].buffer \in v.alive /\ Shows(v, T[j].buffer)
                    /\ j > 1 => Is(T, j - 1, "create_buffer") /\ T[j - 1].buffer = T[j].buffer
    <3>1. j \in 1 .. Len(S) /\ T[j] = S[j]
      BY <1>3, <1>b, <2>1
    <3>2. Is(T, j + 1, "commit")
      BY <1>3, <1>c, <2>1, <3>1 DEF Attaches
    <3>3. j > 1 /\ S[j].buffer # Null => T[j - 1] = S[j - 1]
      BY <1>3, <1>a, <2>1, <3>1 DEF Attaches, Is
    <3> QED
      BY <1>3, <1>c, <2>1, <3>1, <3>2, <3>3 DEF Attaches
  <2> QED
    BY <1>3, <1>c, <2>1 DEF Attaches
<1>4. ASSUME New(S, T, Framing), Configured(S, v)
      PROVE  Configured(T, v)
  <2>1. \A op \in {"create_buffer", "attach"} : Is(T, 1, op) => Is(S, 1, op)
    BY <1>4, <1>b DEF Is
  <2>2. ASSUME NEW j \in 1 .. Len(T), T[j].op = "attach", T[j].buffer = Null
        PROVE  /\ Len(v.sizes) = 0 /\ \A k \in 1 .. j - 1 : T[k].op # "create_buffer"
               /\ j > 1 => Is(T, j - 1, "ack_configure")
    <3>1. j \in 1 .. Len(S) /\ T[j] = S[j] /\ \A k \in 1 .. j - 1 : T[k] = S[k]
      BY <1>4, <1>a, <1>b, <2>2
    <3> QED
      BY <1>4, <1>c, <2>2, <3>1 DEF Configured
  <2> QED
    BY <1>4, <2>1, <2>2 DEF Configured
<1>5. ASSUME New(S, T, Framing),
             \A j \in Len(S) + 1 .. Len(T) : T[j].op = "destroy_buffer" => LetGo(S, v, T[j].buffer),
             Releases(S, C, v)
      PROVE  Releases(T, C, v)
  <2>1. \A b : LetGo(S, v, b) => LetGo(T, v, b)
    BY <1>5, <1>b DEF LetGo, Is
  <2>2. \A j \in 1 .. Len(T) : j \in Len(S) + 1 .. Len(T) \/ (j \in 1 .. Len(S) /\ T[j] = S[j])
    BY <1>a
  <2> QED
    BY <1>5, <2>1, <2>2 DEF Releases
<1> QED
  BY <1>1, <1>2, <1>3, <1>4, <1>5
----------------------------------------------------------------------------
(* Sizes told *)

LEMMA ToldSame ==
  ASSUME NEW v, NEW w, NEW s, \A k \in 1 .. s : w.offered[k] = v.offered[k]
  PROVE  \A z : Told(v, s, z) => Told(w, s, z)
BY DEF Told

LEMMA ToldNext ==
  ASSUME NEW v, NEW s \in Nat, NEW z, Told(v, s, z)
  PROVE  Told(v, s + 1, IF Drawable(v.offered[s + 1]) THEN v.offered[s + 1] ELSE z)
<1>0. /\ s + 1 \in 1 .. s + 1
      /\ \A l \in 1 .. s + 1 : l <= s + 1 /\ (l # s + 1 => l \in 1 .. s)
      /\ \A l \in 1 .. s : l \in 1 .. s + 1
  OBVIOUS
<1>1. CASE Drawable(v.offered[s + 1])
  BY <1>0, <1>1 DEF Told
<1>2. CASE ~Drawable(v.offered[s + 1])
  <2>1. \A l \in 1 .. s + 1 : Drawable(v.offered[l]) => l \in 1 .. s
    BY <1>0, <1>2
  <2> QED
    BY <1>0, <1>2, <2>1 DEF Told
<1> QED
  BY <1>1, <1>2

\* What is told and can be drawn is what SizeAt says.
LEMMA ToldSizeAt ==
  ASSUME NEW s \in Nat, NEW z, Told(server, s, z), Drawable(z)
  PROVE  SizeAt(s) = z
<1> DEFINE told == {k \in 1 .. s : Drawable(server.offered[k])}
           Newest(k) == \A l \in told : l <= k
<1>1. PICK k \in told : z = server.offered[k] /\ Newest(k)
  BY DEF Told, Drawable
<1>2. told \subseteq Int
  OBVIOUS
<1>3. \A l \in told : Newest(l) => l = k
  BY <1>1, <1>2
<1> HIDE DEF told
<1>4. (CHOOSE l \in told : Newest(l)) \in told /\ Newest(CHOOSE l \in told : Newest(l))
  BY <1>1
<1>5. (CHOOSE l \in told : Newest(l)) = k
  BY ONLY <1>3, <1>4
<1>6. SizeAt(s) = server.offered[CHOOSE l \in told : Newest(l)]
  BY DEF SizeAt, told
<1> QED
  BY <1>1, <1>5, <1>6
----------------------------------------------------------------------------
(* The server takes a request *)

\* What a request that is no error makes of v, as far as the parts of InOrder
\* are about it.
Acts(r, v, w) ==
  /\ w.offered = v.offered
  /\ w.acked = IF r.op = "ack_configure" THEN r.serial ELSE v.acked
  /\ w.sizes = IF r.op = "create_buffer" THEN Append(v.sizes, r.size) ELSE v.sizes
  /\ w.alive = CASE r.op = "create_buffer" -> v.alive \cup {r.buffer}
                 [] r.op = "destroy_buffer" -> v.alive \ {r.buffer}
                 [] OTHER -> v.alive
  /\ w.pending = CASE r.op = "attach" -> r.buffer
                   [] r.op = "commit" -> Unattached
                   [] OTHER -> v.pending
  /\ w.used = IF r.op = "commit" /\ v.pending \notin {Unattached, Null}
                THEN v.used \cup {v.pending} ELSE v.used

LEMMA Shift ==
  ASSUME NEW S, NEW T, Popped(S, T)
  PROVE  /\ Len(S) \in Nat /\ Len(T) \in Nat /\ Len(S) = Len(T) + 1
         /\ 1 \in 1 .. Len(S)
         /\ \A j \in 1 .. Len(T) : j + 1 \in 1 .. Len(S) /\ j + 1 # 1 /\ j + 1 > 1 /\ T[j] = S[j + 1]
         /\ \A j \in 2 .. Len(S) : j - 1 \in 1 .. Len(T) /\ T[j - 1] = S[j]
         /\ \A j \in Nat : \A op : Is(S, j + 1, op) /\ j # 0 => Is(T, j, op) /\ T[j] = S[j + 1]
         /\ \A j, op : Is(T, j, op) => Is(S, j + 1, op) /\ T[j] = S[j + 1]
BY DEF Popped, Is

LEMMA PopSerials ==
  ASSUME NEW S, NEW T, NEW C, NEW v, NEW w, Popped(S, T), Acts(S[1], v, w), Serials(S, C, v)
  PROVE  Serials(T, C, w)
<1>0. w.offered = v.offered
  BY DEF Acts
<1>a. \A j, k \in 1 .. Len(T) :
        /\ j + 1 \in 1 .. Len(S) /\ 1 \in 1 .. Len(S) /\ k + 1 \in 1 .. Len(S)
        /\ 1 < j + 1 /\ T[j] = S[j + 1] /\ T[k] = S[k + 1]
        /\ j < k => j + 1 < k + 1
  BY Shift
<1>1. \A j, k \in 1 .. Len(T) :
        j < k /\ T[j].op = "ack_configure" /\ T[k].op = "ack_configure"
          => T[j].serial < T[k].serial
  BY <1>a DEF Serials
<1>2. \A j \in 1 .. Len(T), k \in 1 .. Len(C) :
        T[j].op = "ack_configure" /\ C[k].op = "surface_configure"
          => T[j].serial < C[k].serial
  BY <1>a DEF Serials
<1>3. CASE S[1].op # "ack_configure"
  <2>1. w.acked = v.acked
    BY <1>3 DEF Acts
  <2> QED
    BY <1>0, <1>1, <1>2, <1>a, <2>1 DEF Serials
<1>4. CASE S[1].op = "ack_configure"
  <2>1. w.acked = S[1].serial
    BY <1>4 DEF Acts
  <2>2. 1 \in 1 .. Len(S) /\ w.acked \in v.acked + 1 .. Len(v.offered) /\ v.acked \in Nat
    BY <1>4, <2>1, Shift DEF Serials
  <2>3. \A j \in 1 .. Len(T) : T[j].op = "ack_configure" =>
          T[j].serial > w.acked /\ T[j].serial \in v.acked + 1 .. Len(v.offered)
    BY <1>4, <1>a, <2>1 DEF Serials
  <2>4. \A j \in 1 .. Len(C) : C[j].op = "surface_configure" =>
          C[j].serial > w.acked /\ C[j].serial \in v.acked + 1 .. Len(v.offered)
    BY <1>4, <2>1, <2>2 DEF Serials
  <2>5. Len(v.offered) \in Int
    BY <2>2 DEF Serials
  <2> QED
    BY <1>0, <1>1, <1>2, <2>2, <2>3, <2>4 DEF Serials
<1> QED
  BY <1>3, <1>4

\* The buffer created is the next one.
LEMMA NextBuffer ==
  ASSUME NEW S, NEW v, NEW m \in Nat, Creates(S, v, m), Len(S) \in Nat, Len(v.sizes) \in Nat,
         Is(S, 1, "create_buffer")
  PROVE  /\ S[1].buffer = Len(v.sizes) + 1 /\ S[1].buffer <= m /\ Drawable(S[1].size)
         /\ Told(v, v.acked, S[1].size)
         /\ Is(S, 2, "attach") /\ S[2].buffer = S[1].buffer
<1>1. CreateAt(S, v, m, 1)
  BY DEF Creates, Is
<1>2. Len(v.sizes) + 1 \in Len(v.sizes) + 1 .. m /\ S[1].buffer \in Len(v.sizes) + 1 .. m
  BY <1>1 DEF CreateAt
<1>3. PICK j \in 1 .. Len(S) : S[j].op = "create_buffer" /\ S[j].buffer = Len(v.sizes) + 1
  BY <1>2 DEF Creates
<1>4. 1 < j => S[1].buffer < S[j].buffer
  BY <1>3 DEF Creates, Is
<1>5. S[1].buffer = Len(v.sizes) + 1
  BY <1>2, <1>3, <1>4
<1> QED
  BY <1>1, <1>2, <1>5 DEF CreateAt

LEMMA PopCreates ==
  ASSUME NEW S, NEW T, NEW v, NEW w, NEW m \in Nat, Popped(S, T), Acts(S[1], v, w),
         Creates(S, v, m), v.sizes \in Seq(Nat \X Nat),
         S[1].op = "create_buffer" => S[1].size \in Nat \X Nat
  PROVE  Creates(T, w, m)
<1>0. w.offered = v.offered /\ \A s, z : Told(v, s, z) => Told(w, s, z)
  BY DEF Acts, Told
<1>1. Len(w.sizes) \in Nat /\ Len(v.sizes) \in Nat /\ Len(v.sizes) <= Len(w.sizes)
      /\ \A b \in 1 .. Len(v.sizes) : w.sizes[b] = v.sizes[b]
  BY DEF Acts
<1>2. /\ Len(w.sizes) <= m
      /\ \A b \in 1 .. Len(w.sizes) : Drawable(w.sizes[b])
      /\ \A j \in 1 .. Len(T) : T[j].op = "create_buffer" => T[j].buffer \in Len(w.sizes) + 1 .. m
      /\ \A b \in Len(w.sizes) + 1 .. m :
           \E j \in 1 .. Len(T) : T[j].op = "create_buffer" /\ T[j].buffer = b
  <2>1. \A j \in 1 .. Len(T) : T[j].op = "create_buffer" => T[j].buffer \in Len(v.sizes) + 1 .. m
    <3> TAKE j \in 1 .. Len(T)
    <3>1. j + 1 \in 1 .. Len(S) /\ T[j] = S[j + 1]
      BY Shift
    <3>2. T[j].op = "create_buffer" => CreateAt(S, v, m, j + 1)
      BY <3>1 DEF Creates
    <3> QED
      BY <3>1, <3>2 DEF CreateAt
  <2>2. \A b \in Len(v.sizes) + 1 .. m : \/ Is(S, 1, "create_buffer") /\ S[1].buffer = b
                                         \/ \E j \in 1 .. Len(T) : T[j].op = "create_buffer" /\ T[j].buffer = b
    <3> TAKE b \in Len(v.sizes) + 1 .. m
    <3>1. PICK j \in 1 .. Len(S) : S[j].op = "create_buffer" /\ S[j].buffer = b
      BY DEF Creates
    <3>2. CASE j = 1
      BY <3>1, <3>2 DEF Is
    <3>3. CASE j # 1
      <4>1. j \in 2 .. Len(S)
        BY <3>3, Shift
      <4>2. j - 1 \in 1 .. Len(T) /\ T[j - 1] = S[j]
        BY <4>1, Shift
      <4> QED
        BY <3>1, <4>2
    <3> QED
      BY <3>2, <3>3
  <2>3. CASE ~Is(S, 1, "create_buffer")
    <3>1. w.sizes = v.sizes
      BY <2>3, Shift DEF Acts, Is
    <3> QED
      BY <2>1, <2>2, <2>3, <3>1 DEF Creates
  <2>4. CASE Is(S, 1, "create_buffer")
    <3>1. w.sizes = Append(v.sizes, S[1].size) /\ S[1].size \in Nat \X Nat
      BY <2>4 DEF Acts, Is
    <3>2. Len(w.sizes) = Len(v.sizes) + 1 /\ w.sizes[Len(v.sizes) + 1] = S[1].size
      BY <3>1
    <3>3. S[1].buffer = Len(w.sizes) /\ Len(w.sizes) <= m /\ Drawable(w.sizes[Len(w.sizes)])
      BY <1>1, <2>4, <3>2, NextBuffer, Shift
    <3>4. \A j \in 1 .. Len(T) : T[j].op = "create_buffer" => S[1].buffer < T[j].buffer
      <4> TAKE j \in 1 .. Len(T)
      <4>1. j + 1 \in 1 .. Len(S) /\ 1 \in 1 .. Len(S) /\ 1 < j + 1 /\ T[j] = S[j + 1]
        BY Shift
      <4> QED
        BY <2>4, <4>1 DEF Creates, Is
    <3>5. \A b \in 1 .. Len(w.sizes) : b \in 1 .. Len(v.sizes) \/ b = Len(w.sizes)
      BY <1>1, <3>2
    <3>6. \A b \in 1 .. Len(w.sizes) : Drawable(w.sizes[b])
      BY <1>1, <3>3, <3>5 DEF Creates
    <3>7. \A b \in Len(w.sizes) + 1 .. m : b \in Len(v.sizes) + 1 .. m /\ b # S[1].buffer
      BY <1>1, <3>2, <3>3
    <3>8. \A j \in 1 .. Len(T) : T[j].op = "create_buffer" => T[j].buffer \in Len(w.sizes) + 1 .. m
      BY <1>1, <2>1, <3>2, <3>3, <3>4
    <3> QED
      BY <2>2, <3>3, <3>6, <3>7, <3>8
  <2> QED
    BY <2>3, <2>4
<1>3. \A j, k \in 1 .. Len(T) :
       j < k /\ T[j].op = "create_buffer" /\ T[k].op = "create_buffer"
         => T[j].buffer < T[k].buffer
  <2> TAKE j, k \in 1 .. Len(T)
  <2>1. j + 1 \in 1 .. Len(S) /\ k + 1 \in 1 .. Len(S) /\ T[j] = S[j + 1] /\ T[k] = S[k + 1]
        /\ (j < k => j + 1 < k + 1)
    BY Shift
  <2> QED
    BY <2>1 DEF Creates
<1>4. ASSUME NEW j \in 1 .. Len(T), T[j].op = "create_buffer"
      PROVE  CreateAt(T, w, m, j)
  <2>1. j + 1 \in 1 .. Len(S) /\ j + 1 > 1 /\ T[j] = S[j + 1] /\ j + 1 - 1 = j /\ j \in Nat /\ j # 0
    BY Shift
  <2>2. CreateAt(S, v, m, j + 1)
    BY <1>4, <2>1 DEF Creates
  <2>3. Is(S, j, "ack_configure") /\ Told(v, S[j].serial, S[j + 1].size)
    BY <2>1, <2>2 DEF CreateAt
  <2>4. Is(T, j + 1, "attach") /\ T[j + 1].buffer = T[j].buffer
    <3>1. Is(S, j + 1 + 1, "attach") /\ S[j + 1 + 1].buffer = S[j + 1].buffer
      BY <2>2 DEF CreateAt
    <3>2. j + 1 \in 1 .. Len(T) /\ T[j + 1] = S[j + 1 + 1]
      BY <3>1, Shift DEF Is
    <3> QED
      BY <2>1, <3>1, <3>2 DEF Is
  <2>5. CASE j = 1
    <3>1. w.acked = S[1].serial
      BY <2>3, <2>5 DEF Acts, Is
    <3> QED
      BY <1>0, <1>2, <1>4, <2>1, <2>2, <2>3, <2>4, <2>5, <3>1 DEF CreateAt
  <2>6. CASE j # 1
    <3>1. j \in 2 .. Len(S) /\ j > 1
      BY <2>1, <2>6, Shift
    <3>2. j - 1 \in 1 .. Len(T) /\ T[j - 1] = S[j]
      BY <3>1, Shift
    <3> QED
      BY <1>0, <1>2, <1>4, <2>1, <2>2, <2>3, <2>4, <2>6, <3>1, <3>2 DEF CreateAt, Is
  <2> QED
    BY <2>5, <2>6
<1> QED
  BY <1>2, <1>3, <1>4 DEF Creates

\* What the server has let go of stays so.
LEMMA PopReleases ==
  ASSUME NEW S, NEW T, NEW C, NEW v, NEW w, NEW m \in Nat, Popped(S, T), Acts(S[1], v, w),
         Creates(S, v, m), Attaches(S, v), Releases(S, C, v), v.sizes \in Seq(Nat \X Nat),
         v.pending \in Nat \cup {Unattached},
         S[1].op = "create_buffer" => S[1].size \in Nat \X Nat
  PROVE  Releases(T, C, w)
<1>1. Len(v.sizes) \in Nat /\ Len(w.sizes) \in Nat /\ Len(v.sizes) <= Len(w.sizes)
  BY DEF Acts
<1>2. w.used \subseteq 1 .. Len(w.sizes)
  BY <1>1 DEF Acts, Attaches, Shows, Releases
<1>3. ASSUME NEW b, LetGo(S, v, b)
      PROVE  LetGo(T, w, b)
  <2>1. b \in 1 .. Len(v.sizes) /\ b \in 1 .. Len(w.sizes) /\ b # Unattached
    BY <1>1, <1>3 DEF LetGo, Unattached
  <2>2. b \notin w.used
    BY <1>3 DEF LetGo, Acts
  <2>3. b # w.pending
    BY <1>3, <2>1, Shift DEF LetGo, Acts, Is
  <2>4. ASSUME Is(T, 1, "attach")
        PROVE  T[1].buffer # b
    <3>1. Is(S, 2, "attach") /\ T[1] = S[2]
      BY <2>4, Shift DEF Is
    <3>2. CASE S[2].buffer = Null
      BY <2>1, <3>1, <3>2 DEF Null
    <3>3. CASE S[2].buffer # Null
      <4>1. Is(S, 1, "create_buffer") /\ S[1].buffer = S[2].buffer
        BY <3>1, <3>3 DEF Attaches, Is
      <4>2. S[1].buffer = Len(v.sizes) + 1
        BY <1>1, <4>1, NextBuffer, Shift
      <4> QED
        BY <1>1, <2>1, <3>1, <4>1, <4>2
    <3> QED
      BY <3>2, <3>3
  <2> QED
    BY <2>1, <2>2, <2>3, <2>4 DEF LetGo
<1>4. \A j \in 1 .. Len(T) : j + 1 \in 1 .. Len(S) /\ T[j] = S[j + 1]
  BY Shift
<1> QED
  BY <1>2, <1>3, <1>4 DEF Releases

LEMMA PopAttaches ==
  ASSUME NEW S, NEW T, NEW v, NEW w, NEW m \in Nat, Popped(S, T), Acts(S[1], v, w),
         Creates(S, v, m), Attaches(S, v), v.sizes \in Seq(Nat \X Nat),
         v.used \subseteq 1 .. Len(v.sizes), v.pending \in Nat \cup {Unattached},
         S[1].op = "create_buffer" => S[1].size \in Nat \X Nat,
         S[1].op = "attach" => S[1].buffer \in Nat
  PROVE  Attaches(T, w)
<1>0. /\ \A s, z : Told(v, s, z) => Told(w, s, z)
      /\ 1 \in 1 .. Len(S) /\ Len(S) \in Nat
  BY Shift DEF Acts, Told
<1>1. ASSUME NEW j \in 1 .. Len(T), T[j].op = "attach"
      PROVE  /\ Is(T, j + 1, "commit")
             /\ T[j].buffer # Null =>
                  /\ j = 1 => T[j].buffer \in w.alive /\ Shows(w, T[j].buffer)
                  /\ j > 1 => Is(T, j - 1, "create_buffer") /\ T[j - 1].buffer = T[j].buffer
  <2>1. j + 1 \in 1 .. Len(S) /\ j + 1 > 1 /\ j + 1 # 1 /\ T[j] = S[j + 1] /\ j + 1 - 1 = j
    BY Shift
  <2>2. Is(S, j + 1 + 1, "commit")
    BY <1>1, <2>1 DEF Attaches
  <2>3. Is(T, j + 1, "commit")
    BY <2>2, Shift DEF Is
  <2>4. T[j].buffer # Null => Is(S, j, "create_buffer") /\ S[j].buffer = T[j].buffer
    BY <1>1, <2>1 DEF Attaches
  <2>5. ASSUME T[j].buffer # Null, j = 1
        PROVE  T[j].buffer \in w.alive /\ Shows(w, T[j].buffer)
    <3>1. Is(S, 1, "create_buffer") /\ S[1].buffer = T[j].buffer
      BY <2>4, <2>5
    <3>2. S[1].buffer = Len(v.sizes) + 1 /\ Told(v, v.acked, S[1].size)
      BY <1>0, <3>1, NextBuffer
    <3>3. /\ w.sizes = Append(v.sizes, S[1].size) /\ S[1].size \in Nat \X Nat
          /\ w.alive = v.alive \cup {S[1].buffer} /\ w.used = v.used /\ w.acked = v.acked
      BY <3>1 DEF Acts, Is
    <3>4. Len(w.sizes) = Len(v.sizes) + 1 /\ w.sizes[Len(v.sizes) + 1] = S[1].size /\ Len(v.sizes) \in Nat
      BY <3>3
    <3>5. S[1].buffer \in 1 .. Len(w.sizes) /\ S[1].buffer \notin w.used
      BY <3>2, <3>3, <3>4
    <3> QED
      BY <1>0, <3>1, <3>2, <3>3, <3>4, <3>5 DEF Shows
  <2>6. ASSUME T[j].buffer # Null, j > 1
        PROVE  Is(T, j - 1, "create_buffer") /\ T[j - 1].buffer = T[j].buffer
    <3>1. j \in 2 .. Len(S)
      BY <2>1, <2>6
    <3>2. j - 1 \in 1 .. Len(T) /\ T[j - 1] = S[j]
      BY <3>1, Shift
    <3> QED
      BY <2>4, <2>6, <3>2 DEF Is
  <2> QED
    BY <2>3, <2>5, <2>6
<1>2. ASSUME w.pending # Unattached
      PROVE  Is(T, 1, "commit") /\ S[1].op = "attach"
  <2>1. S[1].op = "attach"
    BY <1>0, <1>2 DEF Acts, Attaches, Is
  <2>2. Is(S, 2, "commit")
    BY <1>0, <2>1 DEF Attaches
  <2> QED
    BY <2>1, <2>2, Shift DEF Is
<1>3. ASSUME w.pending \notin {Unattached, Null}
      PROVE  Shows(w, w.pending)
  <2>1. S[1].op = "attach"
    BY <1>2, <1>3
  <2>2. /\ w.pending = S[1].buffer /\ w.sizes = v.sizes /\ w.used = v.used
        /\ w.acked = v.acked
    BY <2>1 DEF Acts
  <2>3. Shows(v, S[1].buffer)
    BY <1>0, <1>3, <2>1, <2>2 DEF Attaches
  <2> QED
    BY <1>0, <2>2, <2>3 DEF Shows
<1> QED
  BY <1>1, <1>2, <1>3 DEF Attaches

\* The rest of what a request makes of v, as long as nothing visible is taken
\* off the screen.
Displays(r, v, w) ==
  /\ w.initial = (v.initial \/ (r.op = "commit" /\ v.pending \in {Unattached, Null}))
  /\ w.configured = IF r.op = "ack_configure" THEN v.initial ELSE v.configured
  /\ w.content = IF r.op = "commit" /\ v.pending \notin {Unattached, Null}
                   THEN v.pending ELSE v.content

LEMMA PopConfigured ==
  ASSUME NEW S, NEW T, NEW C, NEW v, NEW w, NEW m \in Nat, Popped(S, T),
         Acts(S[1], v, w), Displays(S[1], v, w),
         Serials(S, C, v), Creates(S, v, m), Attaches(S, v), Configured(S, v),
         v \in Servers, S[1].op = "create_buffer" => S[1].size \in Nat \X Nat
  PROVE  Configured(T, w)
<1>0. /\ 1 \in 1 .. Len(S) /\ Len(S) \in Nat
      /\ v.sizes \in Seq(Nat \X Nat) /\ v.offered \in Seq(Nat \X Nat)
      /\ v.initial \in BOOLEAN /\ v.configured \in BOOLEAN
      /\ v.pending \in Nat \cup {Unattached} /\ v.content \in Nat
  BY Shift DEF Servers
<1>1. Len(v.sizes) \in Nat /\ Len(w.sizes) \in Nat /\ Len(v.sizes) <= Len(w.sizes)
  BY <1>0 DEF Acts
<1>2. ASSUME Is(S, 1, "ack_configure")
      PROVE  w.configured = TRUE
  <2>1. S[1].serial \in v.acked + 1 .. Len(v.offered) /\ v.acked \in Nat
    BY <1>0, <1>2 DEF Serials, Is
  <2>2. v.offered # <<>>
    BY <1>0, <2>1
  <2> QED
    BY <1>0, <1>2, <2>2 DEF Configured, Displays, Is
<1>3. ASSUME Is(S, 1, "create_buffer") \/ Is(S, 1, "attach") \/ v.pending # Unattached,
             S[1].op # "ack_configure"
      PROVE  w.configured = TRUE
  BY <1>0, <1>3 DEF Configured, Displays
<1>4. w.initial \/ w.offered = <<>>
  BY <1>0 DEF Configured, Acts, Displays
<1>5. w.configured => w.initial
  BY <1>0 DEF Configured, Displays
<1>6. Is(T, 1, "create_buffer") => w.configured
  <2> HAVE Is(T, 1, "create_buffer")
  <2>1. Is(S, 2, "create_buffer")
    BY Shift DEF Is
  <2>2. CreateAt(S, v, m, 2)
    BY <2>1 DEF Creates, Is
  <2>3. Is(S, 2 - 1, "ack_configure")
    BY <2>2 DEF CreateAt
  <2>4. Is(S, 1, "ack_configure")
    BY <2>3
  <2>5. w.configured = TRUE
    BY <1>2, <2>4
  <2> QED
    BY <2>5
<1>7. Is(T, 1, "attach") => w.configured
  <2> HAVE Is(T, 1, "attach")
  <2>1. Is(S, 2, "attach")
    BY Shift DEF Is
  <2>2. CASE S[2].buffer = Null
    <3>1. Is(S, 1, "ack_configure")
      BY <2>1, <2>2 DEF Configured, Is
    <3> QED
      BY <1>2, <3>1
  <2>3. CASE S[2].buffer # Null
    <3>1. Is(S, 1, "create_buffer")
      BY <2>1, <2>3 DEF Attaches, Is
    <3> QED
      BY <1>3, <3>1 DEF Is
  <2> QED
    BY <2>2, <2>3
<1>8. w.pending # Unattached => S[1].op = "attach" /\ w.pending = S[1].buffer
  BY <1>0 DEF Acts, Attaches, Is
<1>9. w.pending # Unattached => w.configured
  BY <1>0, <1>3, <1>8 DEF Is
<1>10. ASSUME NEW j \in 1 .. Len(T), T[j].op = "attach", T[j].buffer = Null
       PROVE  /\ Len(w.sizes) = 0 /\ \A k \in 1 .. j - 1 : T[k].op # "create_buffer"
              /\ j > 1 => Is(T, j - 1, "ack_configure")
  <2>1. j + 1 \in 1 .. Len(S) /\ j + 1 > 1 /\ T[j] = S[j + 1] /\ j + 1 - 1 = j /\ 1 \in 1 .. j
    BY Shift
  <2>2. /\ Len(v.sizes) = 0 /\ \A k \in 1 .. j : S[k].op # "create_buffer"
        /\ Is(S, j, "ack_configure")
    BY <1>10, <2>1 DEF Configured
  <2>3. w.sizes = v.sizes
    BY <2>1, <2>2 DEF Acts
  <2>4. \A k \in 1 .. j - 1 : k + 1 \in 1 .. j /\ T[k] = S[k + 1]
    BY Shift
  <2>5. j > 1 => Is(T, j - 1, "ack_configure")
    <3> HAVE j > 1
    <3>1. j \in 2 .. Len(S)
      BY <2>1
    <3> QED
      BY <2>2, <3>1, Shift DEF Is
  <2> QED
    BY <2>2, <2>3, <2>4, <2>5
<1>11. w.pending = Null => Len(w.sizes) = 0
  <2> HAVE w.pending = Null
  <2>1. S[1].op = "attach" /\ S[1].buffer = Null
    BY <1>8 DEF Unattached, Null
  <2>2. Len(v.sizes) = 0
    BY <1>0, <2>1 DEF Configured
  <2> QED
    BY <2>1, <2>2 DEF Acts
<1>12. w.content \in 0 .. Len(w.sizes)
  <2>1. CASE S[1].op = "commit" /\ v.pending \notin {Unattached, Null}
    <3>1. w.content = v.pending
      BY <2>1 DEF Displays
    <3> QED
      BY <1>1, <2>1, <3>1 DEF Attaches, Shows
  <2>2. CASE ~(S[1].op = "commit" /\ v.pending \notin {Unattached, Null})
    <3>1. w.content = v.content
      BY <2>2 DEF Displays
    <3> QED
      BY <1>1, <3>1 DEF Configured
  <2> QED
    BY <2>1, <2>2
<1> QED
  BY <1>4, <1>5, <1>6, <1>7, <1>9, <1>10, <1>11, <1>12 DEF Configured
----------------------------------------------------------------------------
(* The server offers another size *)

Proposes(v, w, z) ==
  v \in Servers /\ z \in Nat \X Nat /\ w = [v EXCEPT !.offered = Append(@, z)]

LEMMA Offering ==
  ASSUME NEW S, NEW C, NEW v, NEW w, NEW z, Proposes(v, w, z), Serials(S, C, v)
  PROVE  /\ Serials(S, C, w)
         /\ \A m : Creates(S, v, m) => Creates(S, w, m)
         /\ Attaches(S, v) => Attaches(S, w)
         /\ Releases(S, C, v) => Releases(S, C, w)
         /\ v.initial /\ Configured(S, v) => Configured(S, w)
         /\ Len(v.offered) \in Nat
         /\ Len(w.offered) = Len(v.offered) + 1
         /\ w.offered[Len(v.offered) + 1] = z
         /\ \A k \in 1 .. Len(v.offered) : w.offered[k] = v.offered[k]
         /\ \A s \in 0 .. Len(v.offered) : \A y : Told(v, s, y) => Told(w, s, y)
<1>1. /\ w.offered = Append(v.offered, z) /\ v.offered \in Seq(Nat \X Nat)
      /\ w.acked = v.acked /\ w.sizes = v.sizes /\ w.alive = v.alive /\ w.used = v.used
      /\ w.pending = v.pending /\ w.content = v.content /\ w.initial = v.initial
      /\ w.configured = v.configured
  BY DEF Servers, Proposes
<1>2. /\ Len(v.offered) \in Nat /\ Len(w.offered) = Len(v.offered) + 1
      /\ w.offered[Len(v.offered) + 1] = z
      /\ \A k \in 1 .. Len(v.offered) : w.offered[k] = v.offered[k]
  BY <1>1
<1>3. ASSUME NEW s \in 0 .. Len(v.offered)
      PROVE  \A y : Told(v, s, y) => Told(w, s, y)
  <2>1. \A k \in 1 .. s : w.offered[k] = v.offered[k]
    BY <1>2
  <2> QED
    BY <2>1, ToldSame
<1>4. v.acked \in 0 .. Len(v.offered) /\ v.acked \in Nat
  BY <1>2 DEF Serials
<1>5. \A s \in v.acked + 1 .. Len(v.offered) : s \in v.acked + 1 .. Len(w.offered) /\ s \in 0 .. Len(v.offered)
  BY <1>2, <1>4
<1>6. Serials(S, C, w)
  BY <1>1, <1>2, <1>4, <1>5 DEF Serials
<1>7. ASSUME NEW m, Creates(S, v, m)
      PROVE  Creates(S, w, m)
  <2>1. ASSUME NEW j \in 1 .. Len(S), S[j].op = "create_buffer"
        PROVE  CreateAt(S, w, m, j)
    <3>1. CreateAt(S, v, m, j)
      BY <1>7, <2>1 DEF Creates
    <3>2. j = 1 => Told(w, w.acked, S[j].size)
      BY <1>1, <1>3, <1>4, <3>1 DEF CreateAt
    <3>3. j > 1 => S[j - 1].serial \in v.acked + 1 .. Len(v.offered)
      BY <3>1 DEF CreateAt, Is, Serials
    <3>4. j > 1 => Told(w, S[j - 1].serial, S[j].size)
      BY <1>3, <1>5, <3>1, <3>3 DEF CreateAt
    <3> QED
      BY <1>1, <3>1, <3>2, <3>4 DEF CreateAt
  <2> QED
    BY <1>1, <1>7, <2>1 DEF Creates
<1>8. \A b : Shows(v, b) => Shows(w, b)
  BY <1>1, <1>3, <1>4 DEF Shows
<1>9. Attaches(S, v) => Attaches(S, w)
  BY <1>1, <1>8 DEF Attaches
<1>10. Releases(S, C, v) => Releases(S, C, w)
  BY <1>1 DEF Releases, LetGo
<1>11. v.initial /\ Configured(S, v) => Configured(S, w)
  BY <1>1 DEF Configured
<1> QED
  BY <1>2, <1>3, <1>6, <1>7, <1>9, <1>10, <1>11

\* ... and tells the client: the size, then the serial.
LEMMA Telling ==
  ASSUME NEW S, NEW C, NEW D, NEW v, NEW w, NEW z, NEW y, Proposes(v, w, z),
         Pushed(C, D), Len(D) = Len(C) + 2,
         D[Len(C) + 1] = [op |-> "toplevel_configure", size |-> z],
         D[Len(C) + 2] = [op |-> "surface_configure", serial |-> Len(v.offered) + 1],
         Serials(S, C, v), NEW c \in 0 .. Len(v.offered), Follows(C, v, y, c)
  PROVE  /\ Serials(S, D, w)
         /\ Releases(S, C, w) => Releases(S, D, w)
         /\ c \in 0 .. Len(w.offered) /\ Follows(D, w, y, c)
<1> DEFINE n == Len(v.offered) + 1
           l == Len(C)
<1>1. /\ Serials(S, C, w) /\ Len(v.offered) \in Nat /\ Len(w.offered) = n
      /\ w.offered[n] = z /\ Told(w, c, y)
      /\ \A k \in 1 .. Len(v.offered) : w.offered[k] = v.offered[k]
  <2>1. Told(v, c, y)
    BY DEF Follows
  <2> QED
    BY <2>1, Offering
<1>2. w.acked = v.acked /\ v.acked \in 0 .. Len(v.offered)
  BY DEF Serials, Servers, Proposes
<1>3. /\ l \in Nat /\ Len(D) = l + 2 /\ Len(D) \in Nat
      /\ \A j \in 1 .. l : j \in 1 .. Len(D) /\ D[j] = C[j]
      /\ \A j \in 1 .. Len(D) : j \in 1 .. l \/ j = l + 1 \/ j = l + 2
      /\ l + 1 \in 1 .. Len(D) /\ l + 2 \in 2 .. Len(D)
  <2>1. l \in Nat /\ Len(D) = l + 2 /\ \A j \in 1 .. l : D[j] = C[j]
    BY DEF Pushed
  <2> HIDE DEF l
  <2> QED
    BY <2>1
<1>4. /\ D[l + 1].op = "toplevel_configure" /\ D[l + 1].size = z
      /\ D[l + 2].op = "surface_configure" /\ D[l + 2].serial = n
  OBVIOUS
<1> HIDE DEF n, l
<1>5. ASSUME NEW j \in 1 .. Len(D), D[j].op = "surface_configure"
      PROVE  \/ j \in 1 .. l /\ D[j] = C[j] /\ D[j].serial \in v.acked + 1 .. Len(v.offered)
             \/ j = l + 2 /\ D[j].serial = n
  <2>1. j \in 1 .. l \/ j = l + 2
    BY <1>3, <1>4, <1>5
  <2>2. ASSUME j \in 1 .. l
        PROVE  D[j].serial \in v.acked + 1 .. Len(v.offered)
    BY <1>3, <1>5, <2>2 DEF Serials, l
  <2> QED
    BY <1>3, <1>4, <2>1, <2>2
<1>6. Serials(S, D, w)
  <2>1. \A j \in 1 .. Len(D) : D[j].op = "surface_configure" =>
          D[j].serial \in w.acked + 1 .. Len(w.offered)
    BY <1>1, <1>2, <1>5 DEF n
  <2>2. \A j, k \in 1 .. Len(D) :
          j < k /\ D[j].op = "surface_configure" /\ D[k].op = "surface_configure"
            => D[j].serial < D[k].serial
    <3> TAKE j, k \in 1 .. Len(D)
    <3> HAVE j < k /\ D[j].op = "surface_configure" /\ D[k].op = "surface_configure"
    <3>1. j \in 1 .. l /\ D[j] = C[j] /\ D[j].serial \in v.acked + 1 .. Len(v.offered)
      <4>1. j # l + 2
        BY <1>3
      <4> QED
        BY <1>5, <4>1
    <3>2. CASE k \in 1 .. l
      BY <1>3, <3>1, <3>2 DEF Serials, l
    <3>3. CASE k = l + 2
      BY <1>1, <1>2, <1>4, <3>1, <3>3 DEF n
    <3> QED
      BY <1>5, <3>2, <3>3
  <2>3. \A j \in 1 .. Len(S), k \in 1 .. Len(D) :
         S[j].op = "ack_configure" /\ D[k].op = "surface_configure"
           => S[j].serial < D[k].serial
    <3> TAKE j \in 1 .. Len(S), k \in 1 .. Len(D)
    <3> HAVE S[j].op = "ack_configure" /\ D[k].op = "surface_configure"
    <3>1. S[j].serial \in v.acked + 1 .. Len(v.offered)
      BY DEF Serials
    <3>2. CASE k \in 1 .. l
      BY <1>3, <3>2 DEF Serials, l
    <3>3. CASE k = l + 2
      BY <1>1, <1>2, <1>4, <3>1, <3>3 DEF n
    <3> QED
      BY <1>5, <3>2, <3>3
  <2> QED
    BY <1>1, <2>1, <2>2, <2>3 DEF Serials
<1>7. Releases(S, C, w) => Releases(S, D, w)
  <2>1. \A j \in 1 .. Len(D) : D[j].op = "release" => j \in 1 .. Len(C) /\ D[j] = C[j]
    BY <1>3, <1>4 DEF l
  <2> QED
    BY <2>1 DEF Releases
<1>8. ASSUME NEW j \in 1 .. Len(D), D[j].op = "surface_configure"
      PROVE  \/ j = 1 /\ D[j].serial = c
             \/ /\ j > 1 /\ D[j].serial > c
                /\ Is(D, j - 1, "toplevel_configure")
                /\ D[j - 1].size = w.offered[D[j].serial]
  <2>1. CASE j \in 1 .. l /\ D[j] = C[j] /\ D[j].serial \in v.acked + 1 .. Len(v.offered)
    <3>1. w.offered[C[j].serial] = v.offered[C[j].serial]
      BY <1>1, <1>2, <2>1
    <3>2. CASE j = 1
      BY <1>8, <2>1, <3>1, <3>2 DEF Follows, l
    <3>3. CASE j > 1
      <4>1. j - 1 \in 1 .. Len(C) /\ j - 1 \in 1 .. Len(D) /\ D[j - 1] = C[j - 1]
        BY <1>3, <2>1, <3>3 DEF l
      <4> QED
        BY <1>8, <2>1, <3>1, <3>3, <4>1 DEF Follows, Is, l
    <3> QED
      BY <2>1, <3>2, <3>3
  <2>2. CASE j = l + 2 /\ D[j].serial = n
    <3>1. j > 1 /\ j - 1 = l + 1 /\ n > c
      BY <1>1, <1>3, <2>2 DEF n
    <3> QED
      BY <1>1, <1>3, <1>4, <2>2, <3>1 DEF Is
  <2> QED
    BY <1>5, <1>8, <2>1, <2>2
<1>9. ASSUME NEW j \in 1 .. Len(D), D[j].op = "toplevel_configure"
      PROVE  Is(D, j + 1, "surface_configure")
  <2>1. CASE j \in 1 .. l
    <3>1. Is(C, j + 1, "surface_configure")
      BY <1>3, <1>9, <2>1 DEF Follows, l
    <3> QED
      BY <1>3, <3>1 DEF Is, l
  <2>2. CASE j = l + 1
    <3>1. j + 1 = l + 2
      BY <1>3, <2>2
    <3> QED
      BY <1>3, <1>4, <3>1 DEF Is
  <2> QED
    BY <1>3, <1>4, <1>9, <2>1, <2>2
<1>10. ASSUME NEW k \in c + 1 .. Len(w.offered)
       PROVE  \E j \in 2 .. Len(D) : D[j].op = "surface_configure" /\ D[j].serial = k
  <2>1. CASE k = n
    BY <1>3, <1>4, <2>1
  <2>2. CASE k # n
    <3>1. k \in c + 1 .. Len(v.offered)
      BY <1>1, <2>2 DEF n
    <3>2. PICK j \in 2 .. Len(C) : C[j].op = "surface_configure" /\ C[j].serial = k
      BY <3>1 DEF Follows
    <3>3. j \in 2 .. Len(D) /\ D[j] = C[j]
      BY <1>3 DEF l
    <3> QED
      BY <3>2, <3>3
  <2> QED
    BY <2>1, <2>2
<1>11. c \in 0 .. Len(w.offered)
  BY <1>1 DEF n
<1> QED
  BY <1>1, <1>6, <1>7, <1>8, <1>9, <1>10, <1>11 DEF Follows
----------------------------------------------------------------------------
(* The client takes a configure event *)

LEMMA Proposing ==
  ASSUME NEW S, NEW C, NEW D, NEW v, NEW z, NEW c \in 0 .. Len(v.offered), Len(v.offered) \in Nat,
         Popped(C, D), C[1].op = "toplevel_configure", Serials(S, C, v), Follows(C, v, z, c)
  PROVE  /\ c + 1 \in 0 .. Len(v.offered)
         /\ Follows(D, v, IF Drawable(C[1].size) THEN C[1].size ELSE z, c + 1)
<1>0. /\ Len(C) \in Nat /\ Len(D) \in Nat /\ Len(C) = Len(D) + 1 /\ 1 \in 1 .. Len(C)
      /\ \A j \in 1 .. Len(D) : j + 1 \in 2 .. Len(C) /\ j + 1 \in 1 .. Len(C) /\ D[j] = C[j + 1]
      /\ \A j \in 2 .. Len(C) : j \in 1 .. Len(C) /\ j - 1 \in 1 .. Len(D) /\ D[j - 1] = C[j]
      /\ v.acked \in Nat
  BY DEF Popped, Serials
<1>1. Is(C, 2, "surface_configure")
  BY <1>0 DEF Follows
<1>2. C[2].serial > c /\ C[1].size = v.offered[C[2].serial]
  BY <1>1 DEF Follows, Is
<1>3. C[2].serial \in v.acked + 1 .. Len(v.offered)
  BY <1>1 DEF Serials, Is
<1>4. c + 1 \in 0 .. Len(v.offered) /\ c + 1 \in c + 1 .. Len(v.offered)
  BY <1>0, <1>2, <1>3
<1>5. C[2].serial = c + 1
  <2>1. PICK j \in 2 .. Len(C) : C[j].op = "surface_configure" /\ C[j].serial = c + 1
    BY <1>4 DEF Follows
  <2>2. CASE j = 2
    BY <2>1, <2>2
  <2>3. CASE j > 2
    <3>1. C[2].serial < C[j].serial
      BY <1>0, <1>1, <2>1, <2>3 DEF Serials, Is
    <3> QED
      BY <1>2, <1>3, <1>4, <2>1, <3>1
  <2> QED
    BY <2>2, <2>3
<1>6. Told(v, c + 1, IF Drawable(C[1].size) THEN C[1].size ELSE z)
  <2>1. Told(v, c, z) /\ c \in Nat
    BY DEF Follows
  <2> QED
    BY <1>2, <1>5, <2>1, ToldNext
<1>7. ASSUME NEW j \in 1 .. Len(D), D[j].op = "surface_configure"
      PROVE  \/ j = 1 /\ D[j].serial = c + 1
             \/ /\ j > 1 /\ D[j].serial > c + 1
                /\ Is(D, j - 1, "toplevel_configure")
                /\ D[j - 1].size = v.offered[D[j].serial]
  <2>1. CASE j = 1
    BY <1>0, <1>5, <2>1
  <2>2. CASE j # 1
    <3>1. /\ j + 1 \in 1 .. Len(C) /\ 2 < j + 1 /\ D[j] = C[j + 1] /\ j + 1 - 1 = j
          /\ j \in 2 .. Len(C) /\ j > 1
      BY <1>0, <2>2
    <3>2. Is(C, j, "toplevel_configure") /\ C[j].size = v.offered[C[j + 1].serial]
      BY <1>7, <3>1 DEF Follows
    <3>3. j - 1 \in 1 .. Len(D) /\ D[j - 1] = C[j]
      BY <1>0, <3>1
    <3>4. C[2].serial < C[j + 1].serial
      BY <1>1, <1>7, <3>1 DEF Serials, Is
    <3> QED
      BY <1>5, <3>1, <3>2, <3>3, <3>4 DEF Is
  <2> QED
    BY <2>1, <2>2
<1>8. ASSUME NEW j \in 1 .. Len(D), D[j].op = "toplevel_configure"
      PROVE  Is(D, j + 1, "surface_configure")
  <2>1. Is(C, j + 1 + 1, "surface_configure")
    BY <1>0, <1>8 DEF Follows
  <2>2. j + 1 \in 1 .. Len(D) /\ D[j + 1] = C[j + 1 + 1]
    BY <1>0, <2>1 DEF Is
  <2> QED
    BY <2>1, <2>2 DEF Is
<1>9. ASSUME NEW n \in c + 1 + 1 .. Len(v.offered)
      PROVE  \E j \in 2 .. Len(D) : D[j].op = "surface_configure" /\ D[j].serial = n
  <2>1. PICK j \in 2 .. Len(C) : C[j].op = "surface_configure" /\ C[j].serial = n
    <3>1. n \in c + 1 .. Len(v.offered)
      OBVIOUS
    <3> QED
      BY <3>1 DEF Follows
  <2>2. j # 2
    BY <1>5, <2>1
  <2>3. j - 1 \in 2 .. Len(D)
    BY <1>0, <2>2
  <2> QED
    BY <1>0, <2>1, <2>3
<1> QED
  BY <1>4, <1>6, <1>7, <1>8, <1>9 DEF Follows

LEMMA Acknowledging ==
  ASSUME NEW S, NEW T, NEW C, NEW D, NEW v, NEW z, NEW c, Popped(C, D),
         C[1].op = "surface_configure",
         Pushed(S, T), Len(T) = Len(S) + 1, T[Len(S) + 1] = AckConfigure(C[1].serial),
         Serials(S, C, v), Follows(C, v, z, c)
  PROVE  Serials(T, D, v) /\ Told(v, C[1].serial, z)
<1>0. /\ Len(C) \in Nat /\ 1 \in 1 .. Len(C)
      /\ \A j \in 1 .. Len(D) : j + 1 \in 1 .. Len(C) /\ 1 < j + 1 /\ D[j] = C[j + 1]
      /\ Len(S) \in Nat
      /\ \A j \in 1 .. Len(S) : T[j] = S[j]
      /\ \A j \in 1 .. Len(T) : j \in 1 .. Len(S) \/ j = Len(S) + 1
  BY DEF Popped, Pushed
<1>1. Told(v, C[1].serial, z)
  BY <1>0 DEF Follows
<1>2. T[Len(S) + 1].op = "ack_configure" /\ T[Len(S) + 1].serial = C[1].serial
  BY DEF AckConfigure
<1>3. Serials(S, D, v)
  BY PopClient
<1>4. C[1].serial \in v.acked + 1 .. Len(v.offered)
  BY <1>0 DEF Serials
<1>5. \A j \in 1 .. Len(T) : T[j].op = "ack_configure" => T[j].serial \in v.acked + 1 .. Len(v.offered)
  BY <1>0, <1>2, <1>4 DEF Serials
<1>6. \A j, k \in 1 .. Len(T) :
        j < k /\ T[j].op = "ack_configure" /\ T[k].op = "ack_configure"
          => T[j].serial < T[k].serial
  <2> TAKE j, k \in 1 .. Len(T)
  <2> HAVE j < k /\ T[j].op = "ack_configure" /\ T[k].op = "ack_configure"
  <2>1. j \in 1 .. Len(S)
    BY <1>0
  <2>2. CASE k \in 1 .. Len(S)
    BY <1>0, <2>1, <2>2 DEF Serials
  <2>3. CASE k = Len(S) + 1
    BY <1>0, <1>2, <2>1, <2>3 DEF Serials
  <2> QED
    BY <1>0, <2>2, <2>3
<1>7. \A j \in 1 .. Len(T), k \in 1 .. Len(D) :
        T[j].op = "ack_configure" /\ D[k].op = "surface_configure"
          => T[j].serial < D[k].serial
  <2> TAKE j \in 1 .. Len(T), k \in 1 .. Len(D)
  <2> HAVE T[j].op = "ack_configure" /\ D[k].op = "surface_configure"
  <2>1. CASE j \in 1 .. Len(S)
    BY <1>0, <1>3, <2>1 DEF Serials
  <2>2. CASE j = Len(S) + 1
    <3>1. C[1].serial < C[k + 1].serial
      BY <1>0 DEF Serials
    <3> QED
      BY <1>0, <1>2, <2>2, <3>1
  <2> QED
    BY <1>0, <2>1, <2>2
<1> QED
  BY <1>1, <1>3, <1>5, <1>6, <1>7 DEF Serials

\* A buffer of the size the client has follows the acknowledgement...
LEMMA Framed ==
  ASSUME NEW S, NEW T, NEW C, NEW v \in Servers, NEW m \in Nat, NEW z, Pushed(S, T),
         Is(S, Len(S), "ack_configure"), Told(v, S[Len(S)].serial, z), Drawable(z),
         Len(T) = Len(S) + 3, T[Len(S) + 1] = CreateBuffer(m + 1, z),
         T[Len(S) + 2] = Attach(m + 1), T[Len(S) + 3] = Commit,
         Creates(S, v, m), Attaches(S, v), Releases(S, C, v)
  PROVE  /\ Creates(T, v, m + 1) /\ Attaches(T, v) /\ Releases(T, C, v)
         /\ Configured(S, v) => Configured(T, v)
<1> DEFINE l == Len(S)
<1>0. /\ l \in Nat /\ l >= 1 /\ Len(T) = l + 3 /\ S[l].op = "ack_configure"
      /\ \A j \in 1 .. l : j \in 1 .. Len(T) /\ T[j] = S[j]
      /\ \A j \in 1 .. Len(T) : j \in 1 .. l \/ j = l + 1 \/ j = l + 2 \/ j = l + 3
      /\ l + 1 \in 1 .. Len(T) /\ l + 2 \in 1 .. Len(T) /\ l + 3 \in 1 .. Len(T)
      /\ Len(v.sizes) \in Nat
  <2>1. l \in Nat /\ l >= 1 /\ S[l].op = "ack_configure" /\ Len(T) = l + 3
        /\ \A j \in 1 .. l : T[j] = S[j]
    BY DEF Pushed, Is
  <2>2. Len(v.sizes) \in Nat
    BY DEF Servers
  <2> HIDE DEF l
  <2> QED
    BY <2>1, <2>2
<1>1. /\ T[l + 1].op = "create_buffer" /\ T[l + 1].buffer = m + 1 /\ T[l + 1].size = z
      /\ T[l + 2].op = "attach" /\ T[l + 2].buffer = m + 1
      /\ T[l + 3].op = "commit"
  BY DEF CreateBuffer, Attach, Commit
<1>2. \A j, op : Is(S, j, op) => Is(T, j, op) /\ T[j] = S[j]
  BY <1>0 DEF Is
<1>3. Told(v, T[l].serial, z) /\ Is(T, l, "ack_configure")
  BY <1>0, <1>2
<1> HIDE DEF l
<1>4. Creates(T, v, m + 1)
  <2>1. \A j \in 1 .. Len(T) : T[j].op = "create_buffer" => j \in 1 .. l \/ j = l + 1
    BY <1>0, <1>1
  <2>2. ASSUME NEW j \in 1 .. l, T[j].op = "create_buffer"
        PROVE  CreateAt(T, v, m + 1, j) /\ T[j].buffer < m + 1
    <3>1. CreateAt(S, v, m, j) /\ T[j] = S[j]
      BY <1>0, <2>2 DEF Creates, l
    <3>2. S[j].buffer \in Len(v.sizes) + 1 .. m + 1 /\ S[j].buffer < m + 1
      BY <1>0, <3>1 DEF CreateAt
    <3> QED
      BY <1>2, <3>1, <3>2 DEF CreateAt
  <2>3. CreateAt(T, v, m + 1, l + 1)
    <3>1. Len(v.sizes) <= m
      BY DEF Creates
    <3>2. m + 1 \in Len(v.sizes) + 1 .. m + 1 /\ l + 1 + 1 = l + 2 /\ l + 1 # 1 /\ l + 1 - 1 = l
      BY <1>0, <3>1
    <3> QED
      BY <1>0, <1>1, <1>3, <3>2 DEF CreateAt, Is
  <2>4. \A j, k \in 1 .. Len(T) :
          j < k /\ T[j].op = "create_buffer" /\ T[k].op = "create_buffer"
            => T[j].buffer < T[k].buffer
    <3> TAKE j, k \in 1 .. Len(T)
    <3> HAVE j < k /\ T[j].op = "create_buffer" /\ T[k].op = "create_buffer"
    <3>1. j \in 1 .. l
      BY <1>0, <2>1
    <3>2. CASE k \in 1 .. l
      BY <1>0, <3>1, <3>2 DEF Creates, l
    <3>3. CASE k = l + 1
      BY <1>1, <2>2, <3>1, <3>3
    <3> QED
      BY <2>1, <3>2, <3>3
  <2>5. \A b \in Len(v.sizes) + 1 .. m + 1 :
          \E j \in 1 .. Len(T) : T[j].op = "create_buffer" /\ T[j].buffer = b
    <3> TAKE b \in Len(v.sizes) + 1 .. m + 1
    <3>1. b \in Len(v.sizes) + 1 .. m \/ b = m + 1
      BY <1>0
    <3>2. CASE b \in Len(v.sizes) + 1 .. m
      <4>1. PICK j \in 1 .. Len(S) : S[j].op = "create_buffer" /\ S[j].buffer = b
        BY <3>2 DEF Creates
      <4> QED
        BY <1>0, <4>1 DEF l
    <3> QED
      BY <1>0, <1>1, <3>1, <3>2
  <2>6. Len(v.sizes) <= m + 1 /\ \A b \in 1 .. Len(v.sizes) : Drawable(v.sizes[b])
    BY <1>0 DEF Creates
  <2> QED
    BY <2>1, <2>2, <2>3, <2>4, <2>5, <2>6, <1>0 DEF Creates
<1>5. Attaches(T, v)
  <2>1. ASSUME NEW j \in 1 .. l, T[j].op = "attach"
        PROVE  /\ Is(T, j + 1, "commit")
               /\ T[j].buffer # Null =>
                    /\ j = 1 => T[j].buffer \in v.alive /\ Shows(v, T[j].buffer)
                    /\ j > 1 => Is(T, j - 1, "create_buffer") /\ T[j - 1].buffer = T[j].buffer
    <3>1. j \in 1 .. Len(S) /\ T[j] = S[j] /\ S[j].op = "attach"
      BY <1>0, <2>1 DEF l
    <3> QED
      BY <1>2, <3>1 DEF Attaches
  <2>2. ASSUME NEW j, j = l + 2
        PROVE  /\ Is(T, j + 1, "commit") /\ j # 1
               /\ Is(T, j - 1, "create_buffer") /\ T[j - 1].buffer = T[j].buffer
    <3>1. j + 1 = l + 3 /\ j - 1 = l + 1 /\ j # 1
      BY <1>0, <2>2
    <3> QED
      BY <1>0, <1>1, <2>2, <3>1 DEF Is
  <2>3. ASSUME NEW j \in 1 .. Len(T), T[j].op = "attach"
        PROVE  /\ Is(T, j + 1, "commit")
               /\ T[j].buffer # Null =>
                    /\ j = 1 => T[j].buffer \in v.alive /\ Shows(v, T[j].buffer)
                    /\ j > 1 => Is(T, j - 1, "create_buffer") /\ T[j - 1].buffer = T[j].buffer
    <3>1. CASE j \in 1 .. l
      BY <2>1, <2>3, <3>1
    <3>2. CASE j = l + 2
      BY <2>2, <3>2
    <3> QED
      BY <1>0, <1>1, <2>3, <3>1, <3>2
  <2>4. /\ v.pending # Unattached => Is(T, 1, "commit")
        /\ v.pending \notin {Unattached, Null} => Shows(v, v.pending)
    BY <1>2 DEF Attaches
  <2> QED
    BY <2>3, <2>4 DEF Attaches
<1>6. Releases(T, C, v)
  <2>1. T[1] = S[1] /\ 1 \in 1 .. Len(S)
    BY <1>0 DEF l
  <2>2. \A b : LetGo(S, v, b) => LetGo(T, v, b)
    BY <2>1 DEF LetGo, Is
  <2>3. \A j \in 1 .. Len(T) : T[j].op = "destroy_buffer" => j \in 1 .. Len(S) /\ T[j] = S[j]
    BY <1>0, <1>1 DEF l
  <2> QED
    BY <2>2, <2>3 DEF Releases
<1>7. ASSUME Configured(S, v)
      PROVE  Configured(T, v)
  <2>1. T[1] = S[1] /\ 1 \in 1 .. Len(S)
    BY <1>0 DEF l
  <2>2. \A op : Is(T, 1, op) => Is(S, 1, op)
    BY <2>1 DEF Is
  <2>3. ASSUME NEW j \in 1 .. Len(T), T[j].op = "attach", T[j].buffer = Null
        PROVE  /\ Len(v.sizes) = 0 /\ \A k \in 1 .. j - 1 : T[k].op # "create_buffer"
               /\ j > 1 => Is(T, j - 1, "ack_configure")
    <3>1. j \in 1 .. l
      BY <1>0, <1>1, <2>3 DEF Null
    <3>2. j \in 1 .. Len(S) /\ T[j] = S[j] /\ \A k \in 1 .. j - 1 : T[k] = S[k]
      BY <1>0, <3>1 DEF l
    <3> QED
      BY <1>2, <1>7, <2>3, <3>2 DEF Configured
  <2> QED
    BY <1>7, <2>2, <2>3 DEF Configured
<1> QED
  BY <1>4, <1>5, <1>6, <1>7

\* ... or the null buffer does.
LEMMA NotFramed ==
  ASSUME NEW S, NEW T, NEW C, NEW v \in Servers, NEW m \in Nat, Pushed(S, T),
         Is(S, Len(S), "ack_configure"),
         Len(T) = Len(S) + 2, T[Len(S) + 1] = Attach(Null), T[Len(S) + 2] = Commit,
         Creates(S, v, m), Attaches(S, v), Releases(S, C, v)
  PROVE  /\ Creates(T, v, m) /\ Attaches(T, v) /\ Releases(T, C, v)
         /\ m = 0 /\ Configured(S, v) => Configured(T, v)
<1> DEFINE l == Len(S)
<1>0. /\ l \in Nat /\ l >= 1 /\ Len(T) = l + 2 /\ S[l].op = "ack_configure"
      /\ \A j \in 1 .. l : j \in 1 .. Len(T) /\ T[j] = S[j]
      /\ \A j \in 1 .. Len(T) : j \in 1 .. l \/ j = l + 1 \/ j = l + 2
      /\ l + 1 \in 1 .. Len(T) /\ l + 2 \in 1 .. Len(T)
      /\ Len(v.sizes) \in Nat
  <2>1. l \in Nat /\ l >= 1 /\ S[l].op = "ack_configure" /\ Len(T) = l + 2
        /\ \A j \in 1 .. l : T[j] = S[j]
    BY DEF Pushed, Is
  <2>2. Len(v.sizes) \in Nat
    BY DEF Servers
  <2> HIDE DEF l
  <2> QED
    BY <2>1, <2>2
<1>1. /\ T[l + 1].op = "attach" /\ T[l + 1].buffer = Null
      /\ T[l + 2].op = "commit"
  BY DEF Attach, Commit
<1>2. \A j, op : Is(S, j, op) => Is(T, j, op) /\ T[j] = S[j]
  BY <1>0 DEF Is
<1> HIDE DEF l
<1>3. T[1] = S[1] /\ 1 \in 1 .. Len(S)
  BY <1>0 DEF l
<1>4. Creates(T, v, m)
  <2>1. \A j \in 1 .. Len(T) : T[j].op = "create_buffer" => j \in 1 .. Len(S) /\ T[j] = S[j]
    BY <1>0, <1>1 DEF l
  <2>2. ASSUME NEW j \in 1 .. Len(T), T[j].op = "create_buffer"
        PROVE  CreateAt(T, v, m, j)
    <3>1. CreateAt(S, v, m, j) /\ T[j] = S[j]
      BY <2>1, <2>2 DEF Creates
    <3> QED
      BY <1>2, <3>1 DEF CreateAt
  <2>3. \A b \in Len(v.sizes) + 1 .. m :
          \E j \in 1 .. Len(T) : T[j].op = "create_buffer" /\ T[j].buffer = b
    BY <1>0 DEF Creates, l
  <2> QED
    BY <2>1, <2>2, <2>3 DEF Creates
<1>5. Attaches(T, v)
  <2>1. ASSUME NEW j \in 1 .. l, T[j].op = "attach"
        PROVE  /\ Is(T, j + 1, "commit")
               /\ T[j].buffer # Null =>
                    /\ j = 1 => T[j].buffer \in v.alive /\ Shows(v, T[j].buffer)
                    /\ j > 1 => Is(T, j - 1, "create_buffer") /\ T[j - 1].buffer = T[j].buffer
    <3>1. j \in 1 .. Len(S) /\ T[j] = S[j] /\ S[j].op = "attach"
      BY <1>0, <2>1 DEF l
    <3> QED
      BY <1>2, <3>1 DEF Attaches
  <2>2. Is(T, l + 1 + 1, "commit")
    <3>1. l + 1 + 1 = l + 2
      BY <1>0
    <3> QED
      BY <1>0, <1>1, <3>1 DEF Is
  <2>3. \A j \in 1 .. Len(T) : T[j].op = "attach" =>
          \/ j \in 1 .. l
          \/ j = l + 1 /\ T[j].buffer = Null /\ Is(T, j + 1, "commit")
    BY <1>0, <1>1, <2>2
  <2>4. /\ v.pending # Unattached => Is(T, 1, "commit")
        /\ v.pending \notin {Unattached, Null} => Shows(v, v.pending)
    BY <1>2 DEF Attaches
  <2>5. ASSUME NEW j \in 1 .. Len(T), T[j].op = "attach"
        PROVE  /\ Is(T, j + 1, "commit")
               /\ T[j].buffer # Null =>
                    /\ j = 1 => T[j].buffer \in v.alive /\ Shows(v, T[j].buffer)
                    /\ j > 1 => Is(T, j - 1, "create_buffer") /\ T[j - 1].buffer = T[j].buffer
    <3>1. CASE j \in 1 .. l
      BY <2>1, <2>5, <3>1
    <3>2. CASE j \notin 1 .. l
      BY <2>3, <2>5, <3>2
    <3> QED
      BY <3>1, <3>2
  <2> QED
    BY <2>4, <2>5 DEF Attaches
<1>6. Releases(T, C, v)
  <2>2. \A b : LetGo(S, v, b) => LetGo(T, v, b)
    BY <1>3 DEF LetGo, Is
  <2>3. \A j \in 1 .. Len(T) : T[j].op = "destroy_buffer" => j \in 1 .. Len(S) /\ T[j] = S[j]
    BY <1>0, <1>1 DEF l
  <2> QED
    BY <2>2, <2>3 DEF Releases
<1>7. ASSUME m = 0, Configured(S, v)
      PROVE  Configured(T, v)
  <2>1. \A op : Is(T, 1, op) => Is(S, 1, op)
    BY <1>3 DEF Is
  <2>2. Len(v.sizes) = 0
    BY <1>0, <1>7 DEF Creates
  <2>3. \A j \in 1 .. Len(T) : T[j].op # "create_buffer"
    BY <1>0, <1>4, <1>7, <2>2 DEF Creates, CreateAt
  <2>4. ASSUME NEW j \in 1 .. Len(T), T[j].op = "attach", T[j].buffer = Null
        PROVE  j > 1 => Is(T, j - 1, "ack_configure")
    <3>1. CASE j \in 1 .. l
      <4>1. j \in 1 .. Len(S) /\ T[j] = S[j]
        BY <1>0, <3>1 DEF l
      <4> QED
        BY <1>2, <1>7, <2>4, <4>1 DEF Configured
    <3>2. CASE j = l + 1
      <4>1. j - 1 = l /\ Is(T, l, "ack_configure")
        BY <1>0, <1>2, <3>2 DEF l
      <4> QED
        BY <4>1
    <3> QED
      BY <1>0, <1>1, <2>4, <3>1, <3>2
  <2>5. \A j \in 1 .. Len(T) : \A k \in 1 .. j - 1 : k \in 1 .. Len(T)
    BY <1>0
  <2> QED
    BY <1>7, <2>1, <2>2, <2>3, <2>4, <2>5 DEF Configured
<1> QED
  BY <1>4, <1>5, <1>6, <1>7
----------------------------------------------------------------------------
(* What the queues hold *)

LEMMA Pops ==
  ASSUME NEW X, NEW q \in Seq(X), q # <<>>
  PROVE  /\ Popped(q, Tail(q)) /\ Tail(q) \in Seq(X)
         /\ Head(q) = q[1] /\ q[1] \in X
<1>1. /\ Tail(q) \in Seq(X) /\ Len(Tail(q)) = Len(q) - 1
      /\ \A j \in 1 .. Len(Tail(q)) : Tail(q)[j] = q[j + 1]
  BY HeadTailProperties
<1>2. Len(q) \in Nat /\ Len(Tail(q)) \in Nat
  BY <1>1
<1>3. Head(q) = q[1] /\ q[1] \in X
  OBVIOUS
<1> QED
  BY <1>1, <1>2, <1>3 DEF Popped

\* p is q with r at its end.
Extends(X, q, r, p) == q \in Seq(X) /\ r \in Seq(X) /\ p = q \o r

LEMMA Pushes ==
  ASSUME NEW X, NEW q, NEW r, NEW p, Extends(X, q, r, p)
  PROVE  /\ Pushed(q, p) /\ p \in Seq(X) /\ Len(q) \in Nat
         /\ Len(r) = 1 => Len(p) = Len(q) + 1 /\ p[Len(q) + 1] = r[1]
         /\ Len(r) = 2 => Len(p) = Len(q) + 2 /\ p[Len(q) + 1] = r[1] /\ p[Len(q) + 2] = r[2]
         /\ Len(r) = 3 => /\ Len(p) = Len(q) + 3
                          /\ p[Len(q) + 1] = r[1] /\ p[Len(q) + 2] = r[2] /\ p[Len(q) + 3] = r[3]
<1> q \in Seq(X) /\ r \in Seq(X) /\ p = q \o r
  BY DEF Extends
<1>1. Len(q) \in Nat /\ Len(r) \in Nat
  OBVIOUS
<1>2. /\ p \in Seq(X) /\ Len(p) = Len(q) + Len(r)
      /\ \A j \in 1 .. Len(q) + Len(r) :
           p[j] = IF j <= Len(q) THEN q[j] ELSE r[j - Len(q)]
  BY ConcatProperties
<1>3. \A j \in 1 .. Len(r) : p[Len(q) + j] = r[j]
  <2> TAKE j \in 1 .. Len(r)
  <2>1. Len(q) + j \in 1 .. Len(q) + Len(r) /\ ~(Len(q) + j <= Len(q)) /\ Len(q) + j - Len(q) = j
    BY <1>1
  <2> QED
    BY <1>2, <2>1
<1>4. Pushed(q, p)
  <2>1. \A j \in 1 .. Len(q) : j \in 1 .. Len(q) + Len(r) /\ j <= Len(q)
    BY <1>1
  <2>2. Len(q) <= Len(p) /\ Len(p) \in Nat
    BY <1>1, <1>2
  <2> QED
    BY <1>1, <1>2, <2>1, <2>2 DEF Pushed
<1>5. /\ Len(r) = 1 => p[Len(q) + 1] = r[1]
      /\ Len(r) = 2 => p[Len(q) + 1] = r[1] /\ p[Len(q) + 2] = r[2]
      /\ Len(r) = 3 => p[Len(q) + 1] = r[1] /\ p[Len(q) + 2] = r[2] /\ p[Len(q) + 3] = r[3]
  BY <1>1, <1>3
<1> QED
  BY <1>1, <1>2, <1>4, <1>5

LEMMA NewOps ==
  ASSUME NEW X, NEW q, NEW r, NEW p, Extends(X, q, r, p),
         NEW ops, \A j \in 1 .. Len(r) : r[j].op \notin ops
  PROVE  New(q, p, ops)
<1>1. Len(q) \in Nat /\ Len(r) \in Nat
  BY DEF Extends
<1>2. /\ Len(p) = Len(q) + Len(r)
      /\ \A j \in 1 .. Len(q) + Len(r) : p[j] = IF j <= Len(q) THEN q[j] ELSE r[j - Len(q)]
  BY ConcatProperties DEF Extends
<1> SUFFICES ASSUME NEW j \in Len(q) + 1 .. Len(p)
             PROVE  p[j].op \notin ops
  BY DEF New
<1>3. j \in 1 .. Len(q) + Len(r) /\ ~(j <= Len(q)) /\ j - Len(q) \in 1 .. Len(r)
  BY <1>1, <1>2
<1> QED
  BY <1>2, <1>3

LEMMA RequestTypes ==
  /\ GetRegistry \in Requests /\ GetToplevel \in Requests /\ SetMaximized \in Requests
  /\ Commit \in Requests /\ Pong \in Requests
  /\ \A g \in Globals : Bind(g) \in Requests
  /\ \A s \in Nat : AckConfigure(s) \in Requests
  /\ \A b \in Nat, z \in Nat \X Nat : CreateBuffer(b, z) \in Requests
  /\ \A b \in Nat : DestroyBuffer(b) \in Requests /\ Attach(b) \in Requests
BY DEF Requests

LEMMA RequestFields ==
  ASSUME NEW r \in Requests
  PROVE  /\ r.op = "ack_configure" => r.serial \in Nat
         /\ r.op = "create_buffer" => r.buffer \in Nat /\ r.size \in Nat \X Nat
         /\ r.op = "attach" => r.buffer \in Nat
         /\ r.op = "destroy_buffer" => r.buffer \in Nat
<1> USE DEF GetRegistry, GetToplevel, SetMaximized, Commit, Pong, Bind, AckConfigure,
            CreateBuffer, DestroyBuffer, Attach
<1>1. CASE r \in {GetRegistry, GetToplevel, SetMaximized, Commit, Pong}
  BY <1>1
<1>2. CASE r \in {Bind(g) : g \in Globals}
  BY <1>2
<1>3. CASE r \in {AckConfigure(s) : s \in Nat}
  BY <1>3
<1>4. CASE r \in {CreateBuffer(b, z) : b \in Nat, z \in Nat \X Nat}
  <2>1. PICK b \in Nat, z \in Nat \X Nat : r = CreateBuffer(b, z)
    BY <1>4
  <2>2. r.op = "create_buffer" /\ r.buffer = b /\ r.size = z
    BY <2>1
  <2> QED
    BY <2>2
<1>5. CASE r \in {DestroyBuffer(b) : b \in Nat}
  BY <1>5
<1>6. CASE r \in {Attach(b) : b \in Nat}
  BY <1>6
<1> QED
  BY <1>1, <1>2, <1>3, <1>4, <1>5, <1>6 DEF Requests

LEMMA EventFields ==
  ASSUME NEW e \in Events
  PROVE  /\ e.op = "global" => e.global \in Globals
         /\ e.op = "toplevel_configure" => e.size \in Nat \X Nat
         /\ e.op = "surface_configure" => e.serial \in Nat
         /\ e.op = "release" => e.buffer \in Nat
BY DEF Events

LEMMA EventTypes ==
  /\ \A o \in {"done", "ping", "close", "disconnect"} : [op |-> o] \in Events
  /\ \A g \in Globals : [op |-> "global", global |-> g] \in Events
  /\ \A z \in Nat \X Nat : [op |-> "toplevel_configure", size |-> z] \in Events
  /\ \A s \in Nat : [op |-> "surface_configure", serial |-> s] \in Events
  /\ \A b \in Nat : [op |-> "release", buffer |-> b] \in Events
BY DEF Events

\* The announcement of a set of globals is made of events for them.
LEMMA Announced ==
  ASSUME NEW o \in SUBSET Globals
  PROVE  LET E == {[op |-> "global", global |-> g] : g \in o}
         IN  SetToSeq(E) \in Seq(E)
<1> DEFINE E == {[op |-> "global", global |-> g] : g \in o}
           Ev(g) == [op |-> "global", global |-> g]
           All == (({} \cup {Ev("wl_shm")}) \cup {Ev("wl_compositor")}) \cup {Ev("xdg_wm_base")}
<1>1. IsFiniteSet(All)
  <2>1. \A X, x : IsFiniteSet(X) => IsFiniteSet(X \cup {x})
    BY FS_AddElement
  <2>2. IsFiniteSet({} \cup {Ev("wl_shm")})
    BY <2>1, FS_EmptySet
  <2> HIDE DEF Ev
  <2> QED
    BY <2>1, <2>2
<1>2. E \in SUBSET All
  BY DEF Globals
<1>3. IsFiniteSet(E)
  BY <1>1, <1>2, FS_Subset
<1> HIDE DEF E
<1>4. Cardinality(E) \in Nat /\ ExistsBijection(1 .. Cardinality(E), E)
  BY <1>3, FS_CardinalityType
<1>5. \E f \in [1 .. Cardinality(E) -> E] : IsInjective(f)
  BY <1>4 DEF ExistsBijection, Bijection, Injection
<1>6. SetToSeq(E) \in [1 .. Cardinality(E) -> E]
  BY <1>5 DEF SetToSeq
<1>7. SetToSeq(E) \in Seq(E)
  BY <1>4, <1>6
<1> QED
  BY <1>7 DEF E
----------------------------------------------------------------------------
(* Types *)

LEMMA ServerFields ==
  ASSUME NEW v \in Servers
  PROVE  /\ v.initial \in BOOLEAN /\ v.configured \in BOOLEAN
         /\ v.offered \in Seq(Nat \X Nat) /\ v.acked \in Nat
         /\ v.sizes \in Seq(Nat \X Nat) /\ v.alive \in SUBSET Nat /\ v.used \in SUBSET Nat
         /\ v.pending \in Nat \cup {Unattached} /\ v.content \in Nat /\ v.pings \in Nat
         /\ v.error \in Errors
         /\ Len(v.offered) \in Nat /\ Len(v.sizes) \in Nat
BY DEF Servers

LEMMA WaylandTypeInit == WaylandInit => WaylandTypeOK
<1> SUFFICES ASSUME WaylandInit PROVE WaylandTypeOK
  OBVIOUS
<1>1. <<>> \in Seq(Nat \X Nat) /\ <<>> \in Seq(Requests) /\ <<>> \in Seq(Events)
  BY EmptySeq
<1>2. server \in Servers
  BY <1>1 DEF WaylandInit, Servers, Errors, Null
<1>3. size \in Nat \X Nat
  BY DEF WaylandInit
<1> QED
  BY <1>1, <1>2, <1>3 DEF WaylandInit, WaylandTypeOK

\* What the client may send is a request, what it takes out was an event.
LEMMA Sending ==
  ASSUME WaylandTypeOK, NEW r, r \in Seq(Requests), Send(r)
  PROVE  toServer' \in Seq(Requests) /\ Extends(Requests, toServer, r, toServer')
<1>1. Extends(Requests, toServer, r, toServer')
  BY DEF Extends, WaylandTypeOK, Send
<1> QED
  BY <1>1, Pushes

LEMMA Receiving ==
  ASSUME WaylandTypeOK, NEW op, Receives(op)
  PROVE  /\ toClient' \in Seq(Events) /\ Head(toClient) \in Events /\ Head(toClient).op = op
         /\ Head(toClient) = toClient[1] /\ Popped(toClient, toClient')
BY Pops DEF WaylandTypeOK, Receives

LEMMA ClientTypes ==
  ASSUME WaylandTypeOK, Client
  PROVE  WaylandTypeOK'
<1> USE DEF WaylandTypeOK
<1> USE RequestTypes
<1>1. CASE Connect
  <2>1. <<GetRegistry>> \in Seq(Requests)
    OBVIOUS
  <2> QED
    BY <1>1, <2>1, Sending DEF Connect
<1>2. CASE RegistryGlobal
  <2>1. toClient' \in Seq(Events) /\ Head(toClient).global \in Globals
    BY <1>2, Receiving, EventFields DEF RegistryGlobal
  <2>2. <<Bind(Head(toClient).global)>> \in Seq(Requests)
    BY <2>1
  <2>3. toServer' \in Seq(Requests)
    BY <1>2, <2>2, Sending DEF RegistryGlobal
  <2> QED
    BY <1>2, <2>1, <2>3 DEF RegistryGlobal
<1>3. CASE CreateSurface
  <2>1. toClient' \in Seq(Events)
    BY <1>3, Receiving DEF CreateSurface
  <2>2. SetupRequests \in Seq(Requests)
    BY DEF SetupRequests
  <2>3. toServer' \in Seq(Requests)
    BY <1>3, <2>2, Sending DEF CreateSurface
  <2> QED
    BY <1>3, <2>1, <2>3 DEF CreateSurface
<1>4. CASE XdgWmBasePing
  <2>1. toClient' \in Seq(Events)
    BY <1>4, Receiving DEF XdgWmBasePing
  <2>2. <<Pong>> \in Seq(Requests)
    OBVIOUS
  <2>3. toServer' \in Seq(Requests)
    BY <1>4, <2>2, Sending DEF XdgWmBasePing
  <2> QED
    BY <1>4, <2>1, <2>3 DEF XdgWmBasePing
<1>5. CASE XdgToplevelConfigure
  <2>1. toClient' \in Seq(Events) /\ Head(toClient).size \in Nat \X Nat
    BY <1>5, Receiving, EventFields DEF XdgToplevelConfigure
  <2> QED
    BY <1>5, <2>1 DEF XdgToplevelConfigure, NewSize
<1>6. CASE XdgSurfaceConfigure
  <2>1. toClient' \in Seq(Events) /\ Head(toClient).serial \in Nat
    BY <1>6, Receiving, EventFields DEF XdgSurfaceConfigure
  <2>2. PICK b \in Frames :
          IF b # Null /\ "wl_shm" \notin bound
            THEN at' = "crashed" /\ UNCHANGED <<made, toServer, lost>>
            ELSE /\ made' = IF b = Null THEN made ELSE b
                 /\ Send(ConfigureRequests(Head(toClient).serial, b))
                 /\ lost' = (lost \/ (b = Null /\ made > 0))
                 /\ UNCHANGED at
    BY <1>6 DEF XdgSurfaceConfigure
  <2>3. b \in Nat
    BY DEF Frames, Null
  <2>4. ConfigureRequests(Head(toClient).serial, b) \in Seq(Requests)
    <3>1. /\ <<AckConfigure(Head(toClient).serial)>> \in Seq(Requests)
          /\ (IF b = Null THEN <<>> ELSE <<CreateBuffer(b, size)>>) \in Seq(Requests)
          /\ <<Attach(b), Commit>> \in Seq(Requests)
      BY <2>1, <2>3
    <3> QED
      BY <3>1, ConcatProperties DEF ConfigureRequests
  <2>5. toServer' \in Seq(Requests)
    BY <2>2, <2>4, Sending
  <2>6. made' \in Nat /\ lost' \in BOOLEAN /\ at' \in {at, "crashed"}
    BY <2>2, <2>3
  <2> QED
    BY <1>6, <2>1, <2>5, <2>6 DEF XdgSurfaceConfigure
<1>7. CASE WlBufferRelease
  <2>1. toClient' \in Seq(Events) /\ Head(toClient).buffer \in Nat
    BY <1>7, Receiving, EventFields DEF WlBufferRelease
  <2>2. <<DestroyBuffer(Head(toClient).buffer)>> \in Seq(Requests)
    BY <2>1
  <2>3. toServer' \in Seq(Requests)
    BY <1>7, <2>2, Sending DEF WlBufferRelease
  <2> QED
    BY <1>7, <2>1, <2>3 DEF WlBufferRelease
<1>8. CASE XdgToplevelClose
  <2>1. toClient' \in Seq(Events)
    BY <1>8, Receiving DEF XdgToplevelClose
  <2> QED
    BY <1>8, <2>1 DEF XdgToplevelClose
<1>9. CASE ConnectionLost
  BY <1>9 DEF ConnectionLost
<1> QED
  BY <1>1, <1>2, <1>3, <1>4, <1>5, <1>6, <1>7, <1>8, <1>9 DEF Client

LEMMA HandledTypes ==
  ASSUME server \in Servers, NEW r \in Requests
  PROVE  Handled(r) \in Servers
<1>0. /\ server \in Servers
      /\ server.pending \in Nat \cup {Unattached} /\ server.content \in Nat
      /\ server.initial \in BOOLEAN
      /\ server.sizes \in Seq(Nat \X Nat)
  BY ServerFields
<1>1. \A e \in Errors : Raise(e) \in Servers
  BY <1>0 DEF Raise, Servers
<1>2. ASSUME r.op = "ack_configure" PROVE Acknowledged(r.serial) \in Servers
  BY <1>0, <1>1, <1>2, RequestFields DEF Acknowledged, Servers, Errors
<1>3. ASSUME r.op = "create_buffer" PROVE Created(r.buffer, r.size) \in Servers
  <2>1. Append(server.sizes, r.size) \in Seq(Nat \X Nat) /\ server.alive \cup {r.buffer} \in SUBSET Nat
    BY <1>0, <1>3, RequestFields, ServerFields, AppendProperties
  <2> QED
    BY <1>0, <1>1, <2>1 DEF Created, Servers, Errors
<1>4. ASSUME r.op = "attach" PROVE Attached(r.buffer) \in Servers
  BY <1>0, <1>1, <1>4, RequestFields DEF Attached, Servers, Errors
<1>5. ASSUME r.op = "destroy_buffer" PROVE Destroyed(r.buffer) \in Servers
  BY <1>0, <1>1, <1>5, RequestFields DEF Destroyed, Servers, Errors
<1>6. Committed \in Servers
  <2> DEFINE s == [server EXCEPT !.pending = Unattached]
  <2>1. s \in Servers /\ s.used = server.used
    BY <1>0 DEF Servers
  <2>2. /\ [s EXCEPT !.initial = TRUE] \in Servers
        /\ [s EXCEPT !.initial = FALSE, !.configured = FALSE, !.content = Null] \in Servers
    BY <2>1 DEF Servers, Null
  <2>3. ASSUME server.pending # Unattached
        PROVE  [s EXCEPT !.content = server.pending, !.used = @ \cup {server.pending}] \in Servers
    <3>1. server.pending \in Nat /\ s.used \cup {server.pending} \in SUBSET Nat
      BY <1>0, <2>1, <2>3, ServerFields
    <3> QED
      BY <2>1, <3>1 DEF Servers
  <2>4. Raise("unconfigured_buffer") \in Servers
    BY <1>1 DEF Errors
  <2> QED
    BY <2>2, <2>3, <2>4 DEF Committed
<1> QED
  BY <1>0, <1>2, <1>3, <1>4, <1>5, <1>6 DEF Handled

LEMMA Emitting ==
  ASSUME WaylandTypeOK, NEW r, r \in Seq(Events), Emit(r)
  PROVE  toClient' \in Seq(Events) /\ Extends(Events, toClient, r, toClient')
<1>1. Extends(Events, toClient, r, toClient')
  BY DEF Extends, WaylandTypeOK, Emit
<1> QED
  BY <1>1, Pushes

LEMMA CompositorTypes ==
  ASSUME WaylandTypeOK, Compositor
  PROVE  WaylandTypeOK'
<1> USE DEF WaylandTypeOK, clientVars
<1>1. CASE ServerHandle
  <2>1. /\ toServer # <<>> /\ toServer' = Tail(toServer)
        /\ UNCHANGED <<at, bound, size, made, lost>>
    BY <1>1 DEF ServerHandle
  <2>2. toServer' \in Seq(Requests) /\ Head(toServer) \in Requests
    BY <2>1, Pops
  <2>3. CASE Head(toServer).op = "get_registry"
    <3>1. UNCHANGED server /\ \E o \in Offers :
             Emit(SetToSeq({[op |-> "global", global |-> g] : g \in o}) \o <<[op |-> "done"]>>)
      BY <1>1, <2>3 DEF ServerHandle
    <3>2. PICK o \in Offers :
             Emit(SetToSeq({[op |-> "global", global |-> g] : g \in o}) \o <<[op |-> "done"]>>)
      BY <3>1
    <3>3. o \subseteq Globals
      BY WaylandAssumption
    <3>4. SetToSeq({[op |-> "global", global |-> g] : g \in o}) \in Seq(Events)
      <4>1. {[op |-> "global", global |-> g] : g \in o} \subseteq Events
        BY <3>3, EventTypes
      <4> QED
        BY <3>3, <4>1, Announced, SeqMonotonic
    <3>5. <<[op |-> "done"]>> \in Seq(Events)
      BY EventTypes
    <3>6. toClient' \in Seq(Events)
      BY <3>2, <3>4, <3>5, ConcatProperties, Emitting
    <3> QED
      BY <2>1, <2>2, <3>1, <3>6
  <2>4. CASE Head(toServer).op # "get_registry"
    <3>1. server' = Handled(Head(toServer)) /\ UNCHANGED toClient
      BY <1>1, <2>4 DEF ServerHandle
    <3>2. server' \in Servers
      BY <2>2, <3>1, HandledTypes
    <3> QED
      BY <2>1, <2>2, <3>1, <3>2
  <2> QED
    BY <2>3, <2>4
<1>2. CASE Configure
  <2>1. PICK s \in Sizes :
          /\ server' = [server EXCEPT !.offered = Append(@, s)]
          /\ Emit(<<[op |-> "toplevel_configure", size |-> s],
                    [op |-> "surface_configure", serial |-> Len(server.offered) + 1]>>)
    BY <1>2 DEF Configure
  <2>2. s \in Nat \X Nat /\ Len(server.offered) + 1 \in Nat
    BY WaylandAssumption, ServerFields
  <2>3. <<[op |-> "toplevel_configure", size |-> s],
          [op |-> "surface_configure", serial |-> Len(server.offered) + 1]>> \in Seq(Events)
    BY <2>2, EventTypes
  <2>4. toClient' \in Seq(Events)
    BY <2>1, <2>3, Emitting
  <2>5. server' \in Servers
    <3>1. Append(server.offered, s) \in Seq(Nat \X Nat)
      BY <2>2, ServerFields, AppendProperties
    <3> QED
      BY <2>1, <3>1 DEF Servers
  <2> QED
    BY <1>2, <2>4, <2>5 DEF Configure
<1>3. CASE Release
  <2>1. PICK b \in server.used :
          /\ server' = [server EXCEPT !.used = @ \ {b}]
          /\ Emit(<<[op |-> "release", buffer |-> b]>>)
    BY <1>3 DEF Release
  <2>2. b \in Nat
    BY ServerFields
  <2>3. <<[op |-> "release", buffer |-> b]>> \in Seq(Events)
    BY <2>2, EventTypes
  <2>4. toClient' \in Seq(Events)
    BY <2>1, <2>3, Emitting
  <2>5. server' \in Servers
    BY <2>1 DEF Servers
  <2> QED
    BY <1>3, <2>4, <2>5 DEF Release
<1>4. CASE Ping
  <2>1. <<[op |-> "ping"]>> \in Seq(Events)
    BY EventTypes
  <2>2. toClient' \in Seq(Events)
    BY <1>4, <2>1, Emitting DEF Ping
  <2>3. server' \in Servers
    <3>1. server.pings + 1 \in Nat
      BY ServerFields
    <3> QED
      BY <1>4, <3>1 DEF Ping, Servers
  <2> QED
    BY <1>4, <2>2, <2>3 DEF Ping
<1>5. CASE Farewell
  <2>1. <<[op |-> "close"]>> \in Seq(Events) /\ <<[op |-> "disconnect"]>> \in Seq(Events)
    BY EventTypes
  <2>2. toClient' \in Seq(Events)
    BY <1>5, <2>1, Emitting DEF Farewell
  <2> QED
    BY <1>5, <2>2 DEF Farewell
<1> QED
  BY <1>1, <1>2, <1>3, <1>4, <1>5 DEF Compositor

\* The two queues and every field of the client and the server keep their types.
THEOREM WaylandTypeCorrect == WaylandSpec => []WaylandTypeOK
<1>1. WaylandTypeOK /\ [WaylandNext]_waylandVars => WaylandTypeOK'
  <2> SUFFICES ASSUME WaylandTypeOK, [WaylandNext]_waylandVars
               PROVE  WaylandTypeOK'
    OBVIOUS
  <2>1. CASE UNCHANGED waylandVars
    BY <2>1 DEF WaylandTypeOK, waylandVars
  <2> QED
    BY <2>1, ClientTypes, CompositorTypes DEF WaylandNext
<1> QED
  BY <1>1, WaylandTypeInit, PTL DEF WaylandSpec
----------------------------------------------------------------------------
(* The steps *)

LEMMA WaylandInvInit == WaylandInit => WaylandInv
<1> SUFFICES ASSUME WaylandInit PROVE WaylandInv
  OBVIOUS
<1>1. WaylandTypeOK
  BY WaylandTypeInit
<1>2. /\ toServer = <<>> /\ toClient = <<>> /\ size = <<0, 0>> /\ made = 0
      /\ server.error = "none" /\ server.offered = <<>> /\ server.sizes = <<>>
      /\ server.acked = 0 /\ server.pending = Unattached /\ server.used = {}
      /\ server.initial = FALSE /\ server.configured = FALSE /\ server.content = 0
  BY DEF WaylandInit, Null
<1>3. Len(toServer) = 0 /\ Len(toClient) = 0 /\ Len(server.offered) = 0 /\ Len(server.sizes) = 0
  BY <1>2
<1>4. Serials(toServer, toClient, server) /\ Creates(toServer, server, made)
  BY <1>2, <1>3 DEF Serials, Creates
<1>5. Attaches(toServer, server) /\ Releases(toServer, toClient, server)
  BY <1>2, <1>3 DEF Attaches, Releases
<1>6. Told(server, 0, size)
  BY <1>2 DEF Told
<1>7. Follows(toClient, server, size, 0) /\ 0 \in 0 .. Len(server.offered)
  BY <1>3, <1>6 DEF Follows
<1>8. Configured(toServer, server)
  BY <1>2, <1>3 DEF Configured, Is, Unattached, Null
<1> QED
  BY <1>1, <1>2, <1>4, <1>5, <1>7, <1>8 DEF WaylandInv, InOrder

\* A step of the client that sends nothing of a frame, and takes nothing but
\* perhaps an event that does not change its size.
LEMMA ClientStep ==
  ASSUME WaylandInv, WaylandTypeOK',
         \/ UNCHANGED toClient
         \/ Popped(toClient, toClient') /\ toClient[1].op # "toplevel_configure",
         Pushed(toServer, toServer'), New(toServer, toServer', {"ack_configure"}),
         New(toServer, toServer', Framing),
         server.error = "none" =>
           \A j \in Len(toServer) + 1 .. Len(toServer') :
             toServer'[j].op = "destroy_buffer" => LetGo(toServer, server, toServer'[j].buffer),
         UNCHANGED <<size, made, server, lost>>
  PROVE  WaylandInv'
<1> DEFINE S == toServer
           C == toClient
           v == server
<1> SUFFICES ASSUME server.error = "none"
             PROVE  InOrder(toServer', toClient', server, made, size)
                    /\ (lost \/ Configured(toServer', server))
  BY DEF WaylandInv
<1>1. PICK c \in 0 .. Len(server.offered) : Follows(toClient, server, size, c)
  BY DEF WaylandInv, InOrder
<1>2. /\ Serials(S, C, v) /\ Creates(S, v, made) /\ Attaches(S, v) /\ Releases(S, C, v)
      /\ lost \/ Configured(S, v)
  BY DEF WaylandInv, InOrder
<1>3. Serials(S, toClient', v) /\ Releases(S, toClient', v) /\ Follows(toClient', v, size, c)
  BY <1>1, <1>2, PopClient
<1>4. Serials(toServer', toClient', v) /\ Releases(toServer', toClient', v)
  BY <1>3, PushServer
<1>5. /\ Creates(toServer', v, made) /\ Attaches(toServer', v)
      /\ lost \/ Configured(toServer', v)
  BY <1>2, PushServer
<1> QED
  BY <1>3, <1>4, <1>5 DEF InOrder

\* Sending a list of requests of which none is of a frame or destroys a buffer.
LEMMA SendQuiet ==
  ASSUME WaylandTypeOK, NEW r, r \in Seq(Requests), Send(r),
         \A j \in 1 .. Len(r) : r[j].op \notin {"ack_configure", "create_buffer", "attach", "destroy_buffer"}
  PROVE  /\ Pushed(toServer, toServer') /\ New(toServer, toServer', {"ack_configure"})
         /\ New(toServer, toServer', Framing)
         /\ \A j \in Len(toServer) + 1 .. Len(toServer') : toServer'[j].op # "destroy_buffer"
<1>1. Extends(Requests, toServer, r, toServer')
  BY Sending
<1>2. New(toServer, toServer', {"destroy_buffer"})
  BY <1>1, NewOps
<1>3. New(toServer, toServer', {"ack_configure"})
  BY <1>1, NewOps
<1>4. New(toServer, toServer', Framing)
  BY <1>1, NewOps DEF Framing
<1>5. Pushed(toServer, toServer')
  BY <1>1, Pushes
<1> QED
  BY <1>2, <1>3, <1>4, <1>5 DEF New

LEMMA NothingSent ==
  ASSUME WaylandTypeOK, UNCHANGED toServer
  PROVE  /\ Pushed(toServer, toServer') /\ New(toServer, toServer', {"ack_configure"})
         /\ New(toServer, toServer', Framing)
         /\ \A j \in Len(toServer) + 1 .. Len(toServer') : toServer'[j].op # "destroy_buffer"
<1>1. Len(toServer) \in Nat
  BY DEF WaylandTypeOK
<1> QED
  BY <1>1 DEF Pushed, New

LEMMA QuietSteps ==
  ASSUME WaylandInv, WaylandTypeOK',
         Connect \/ RegistryGlobal \/ CreateSurface \/ XdgWmBasePing \/ XdgToplevelClose \/ ConnectionLost
  PROVE  WaylandInv'
<1> WaylandTypeOK
  BY DEF WaylandInv
<1> USE RequestTypes
<1>1. CASE Connect
  <2>1. CASE Send(<<GetRegistry>>)
    <3>1. <<GetRegistry>> \in Seq(Requests) /\ \A j \in 1 .. Len(<<GetRegistry>>) : <<GetRegistry>>[j].op = "get_registry"
      BY DEF GetRegistry
    <3> QED
      BY <1>1, <2>1, <3>1, SendQuiet, ClientStep DEF Connect
  <2> QED
    BY <1>1, <2>1, NothingSent, ClientStep DEF Connect
<1>2. CASE RegistryGlobal
  <2>1. Popped(toClient, toClient') /\ toClient[1].op = "global" /\ Head(toClient).global \in Globals
    BY <1>2, Receiving, EventFields DEF RegistryGlobal
  <2> DEFINE r == <<Bind(Head(toClient).global)>>
  <2>2. r \in Seq(Requests) /\ \A j \in 1 .. Len(r) : r[j].op = "bind"
    BY <2>1 DEF Bind
  <2> QED
    BY <1>2, <2>1, <2>2, SendQuiet, ClientStep DEF RegistryGlobal
<1>3. CASE CreateSurface
  <2>1. Popped(toClient, toClient') /\ toClient[1].op = "done"
    BY <1>3, Receiving DEF CreateSurface
  <2>2. CASE Send(SetupRequests)
    <3>1. SetupRequests \in Seq(Requests)
      BY DEF SetupRequests
    <3>2. \A j \in 1 .. Len(SetupRequests) : SetupRequests[j].op \in {"get_toplevel", "set_maximized", "commit"}
      BY DEF SetupRequests, GetToplevel, SetMaximized, Commit
    <3> QED
      BY <1>3, <2>1, <2>2, <3>1, <3>2, SendQuiet, ClientStep DEF CreateSurface
  <2> QED
    BY <1>3, <2>1, <2>2, NothingSent, ClientStep DEF CreateSurface
<1>4. CASE XdgWmBasePing
  <2>1. Popped(toClient, toClient') /\ toClient[1].op = "ping"
    BY <1>4, Receiving DEF XdgWmBasePing
  <2>2. <<Pong>> \in Seq(Requests) /\ \A j \in 1 .. Len(<<Pong>>) : <<Pong>>[j].op = "pong"
    BY DEF Pong
  <2> QED
    BY <1>4, <2>1, <2>2, SendQuiet, ClientStep DEF XdgWmBasePing
<1>5. CASE XdgToplevelClose
  <2>1. Popped(toClient, toClient') /\ toClient[1].op = "close"
    BY <1>5, Receiving DEF XdgToplevelClose
  <2> QED
    BY <1>5, <2>1, NothingSent, ClientStep DEF XdgToplevelClose
<1>6. CASE ConnectionLost
  BY <1>6, NothingSent, ClientStep DEF ConnectionLost
<1> QED
  BY <1>1, <1>2, <1>3, <1>4, <1>5, <1>6

LEMMA ReleaseTaken ==
  ASSUME WaylandInv, WaylandTypeOK', WlBufferRelease
  PROVE  WaylandInv'
<1> WaylandTypeOK
  BY DEF WaylandInv
<1> DEFINE b == toClient[1].buffer
           r == <<DestroyBuffer(b)>>
<1>1. /\ Popped(toClient, toClient') /\ toClient[1].op = "release" /\ b \in Nat
      /\ Head(toClient) = toClient[1] /\ Send(r)
  BY Receiving, EventFields DEF WlBufferRelease
<1>2. r \in Seq(Requests) /\ Len(r) = 1 /\ r[1].op = "destroy_buffer" /\ r[1].buffer = b
  BY <1>1, RequestTypes DEF DestroyBuffer
<1>3. Extends(Requests, toServer, r, toServer')
  BY <1>1, <1>2, Sending
<1>4. /\ Pushed(toServer, toServer') /\ Len(toServer') = Len(toServer) + 1 /\ Len(toServer) \in Nat
      /\ toServer'[Len(toServer) + 1] = r[1]
      /\ New(toServer, toServer', {"ack_configure"}) /\ New(toServer, toServer', Framing)
  <2>1. \A j \in 1 .. Len(r) : r[j].op = "destroy_buffer"
    BY <1>2
  <2>2. New(toServer, toServer', {"ack_configure"})
    BY <1>3, <2>1, NewOps
  <2>3. New(toServer, toServer', Framing)
    BY <1>3, <2>1, NewOps DEF Framing
  <2> HIDE DEF r
  <2> QED
    BY <1>2, <1>3, <2>2, <2>3, Pushes
<1>5. server.error = "none" => LetGo(toServer, server, b)
  BY <1>1 DEF WaylandInv, InOrder, Releases, Popped
<1>6. \A j \in Len(toServer) + 1 .. Len(toServer') : toServer'[j].buffer = b
  <2> TAKE j \in Len(toServer) + 1 .. Len(toServer')
  <2>1. j = Len(toServer) + 1
    BY <1>4
  <2> QED
    BY <1>2, <1>4, <2>1
<1> QED
  BY <1>1, <1>4, <1>5, <1>6, ClientStep DEF WlBufferRelease

LEMMA SizeTaken ==
  ASSUME WaylandInv, WaylandTypeOK', XdgToplevelConfigure
  PROVE  WaylandInv'
<1> WaylandTypeOK
  BY DEF WaylandInv
<1>1. /\ Popped(toClient, toClient') /\ toClient[1].op = "toplevel_configure"
      /\ Head(toClient) = toClient[1]
  BY Receiving DEF XdgToplevelConfigure
<1>2. /\ size' = IF Drawable(toClient[1].size) THEN toClient[1].size ELSE size
      /\ UNCHANGED <<made, toServer, server, lost>>
  BY <1>1 DEF XdgToplevelConfigure, NewSize
<1> SUFFICES ASSUME server.error = "none"
             PROVE  InOrder(toServer, toClient', server, made, size')
                    /\ (lost \/ Configured(toServer, server))
  BY <1>2 DEF WaylandInv
<1>3. PICK c \in 0 .. Len(server.offered) : Follows(toClient, server, size, c)
  BY DEF WaylandInv, InOrder
<1>4. /\ Serials(toServer, toClient, server) /\ Creates(toServer, server, made)
      /\ Attaches(toServer, server) /\ Releases(toServer, toClient, server)
      /\ lost \/ Configured(toServer, server)
  BY DEF WaylandInv, InOrder
<1>5. Len(server.offered) \in Nat
  BY ServerFields DEF WaylandTypeOK
<1>6. c + 1 \in 0 .. Len(server.offered) /\ Follows(toClient', server, size', c + 1)
  BY <1>1, <1>2, <1>3, <1>4, <1>5, Proposing
<1>7. Serials(toServer, toClient', server) /\ Releases(toServer, toClient', server)
  BY <1>1, <1>4, PopClient
<1> QED
  BY <1>4, <1>6, <1>7 DEF InOrder

LEMMA ConfigureTaken ==
  ASSUME WaylandInv, WaylandTypeOK', XdgSurfaceConfigure
  PROVE  WaylandInv'
<1> WaylandTypeOK
  BY DEF WaylandInv
<1> DEFINE s == toClient[1].serial
<1>1. /\ Popped(toClient, toClient') /\ toClient[1].op = "surface_configure" /\ s \in Nat
      /\ Head(toClient) = toClient[1] /\ UNCHANGED <<bound, size, server>>
  BY Receiving, EventFields DEF XdgSurfaceConfigure
<1>2. PICK b \in Frames :
        IF b # Null /\ "wl_shm" \notin bound
          THEN at' = "crashed" /\ UNCHANGED <<made, toServer, lost>>
          ELSE /\ made' = IF b = Null THEN made ELSE b
               /\ Send(ConfigureRequests(s, b))
               /\ lost' = (lost \/ (b = Null /\ made > 0))
               /\ UNCHANGED at
  BY <1>1 DEF XdgSurfaceConfigure
<1>3. CASE b # Null /\ "wl_shm" \notin bound
  BY <1>1, <1>2, <1>3, NothingSent, ClientStep
<1>4. CASE ~(b # Null /\ "wl_shm" \notin bound)
  <2> DEFINE A == <<AckConfigure(s)>>
             X == IF b = Null THEN <<>> ELSE <<CreateBuffer(b, size)>>
             Y == <<Attach(b), Commit>>
             S == toServer \o A
             R == X \o Y
  <2>0. /\ made' = IF b = Null THEN made ELSE b
        /\ toServer' = toServer \o ConfigureRequests(s, b)
        /\ lost' = (lost \/ (b = Null /\ made > 0))
    BY <1>2, <1>4 DEF Send
  <2>1. b \in Nat /\ made \in Nat /\ size \in Nat \X Nat /\ toServer \in Seq(Requests)
        /\ server \in Servers
    BY DEF Frames, Null, WaylandTypeOK
  <2>2. b # Null => b = made + 1 /\ Drawable(size)
    BY DEF Frames
  <2>3. A \in Seq(Requests) /\ X \in Seq(Requests) /\ Y \in Seq(Requests)
    BY <1>1, <2>1, RequestTypes
  <2>4. /\ Len(A) = 1 /\ A[1].op = "ack_configure" /\ A[1] = AckConfigure(s)
        /\ Len(Y) = 2 /\ Y[1] = Attach(b) /\ Y[2] = Commit
        /\ b # Null => Len(X) = 1 /\ X[1] = CreateBuffer(b, size)
    BY DEF AckConfigure
  <2>5. ConfigureRequests(s, b) = (A \o X) \o Y
    BY DEF ConfigureRequests
  <2> HIDE DEF A, X, Y
  <2>6. S \in Seq(Requests) /\ R \in Seq(Requests) /\ A \o R \in Seq(Requests)
    BY <2>1, <2>3, ConcatProperties
  <2>7. toServer' = S \o R
    <3>1. (A \o X) \o Y = A \o R
      BY <2>3, ConcatAssociative
    <3>2. S \o R = toServer \o (A \o R)
      <4>1. \A t, u, x \in Seq(Requests) : (t \o u) \o x = t \o (u \o x)
        BY ConcatAssociative
      <4> HIDE DEF R
      <4> QED
        BY <2>1, <2>3, <2>6, <4>1
    <3> QED
      BY <2>0, <2>5, <3>1, <3>2
  <2>8. /\ Pushed(toServer, S) /\ Len(S) = Len(toServer) + 1 /\ Len(toServer) \in Nat
        /\ S[Len(toServer) + 1] = AckConfigure(s)
        /\ New(toServer, S, Framing)
    <3>1. Extends(Requests, toServer, A, S)
      BY <2>1, <2>3 DEF Extends
    <3> HIDE DEF S
    <3>2. New(toServer, S, Framing)
      <4>1. \A j \in 1 .. Len(A) : A[j].op = "ack_configure"
        BY <2>4
      <4> QED
        BY <3>1, <4>1, NewOps DEF Framing
    <3> QED
      BY <2>4, <3>1, <3>2, Pushes
  <2>9. Is(S, Len(S), "ack_configure") /\ S[Len(S)].serial = s
    BY <2>8 DEF Is, AckConfigure
  <2>10. /\ Pushed(S, toServer')
         /\ Len(R) = 2 => /\ Len(toServer') = Len(S) + 2
                          /\ toServer'[Len(S) + 1] = R[1] /\ toServer'[Len(S) + 2] = R[2]
         /\ Len(R) = 3 => /\ Len(toServer') = Len(S) + 3
                          /\ toServer'[Len(S) + 1] = R[1] /\ toServer'[Len(S) + 2] = R[2]
                          /\ toServer'[Len(S) + 3] = R[3]
    <3>1. Extends(Requests, S, R, toServer')
      BY <2>6, <2>7 DEF Extends
    <3> HIDE DEF S, R
    <3> QED
      BY <3>1, Pushes
  <2>11. IF b = Null THEN Len(R) = 2 /\ R[1] = Attach(Null) /\ R[2] = Commit
                     ELSE /\ Len(R) = 3 /\ R[1] = CreateBuffer(b, size) /\ R[2] = Attach(b)
                          /\ R[3] = Commit
    <3>1. CASE b = Null
      <4>1. R = Y
        BY <2>3, <3>1, ConcatEmptySeq DEF X
      <4> QED
        BY <2>4, <3>1, <4>1
    <3>2. CASE b # Null
      <4>1. Extends(Requests, X, Y, R)
        BY <2>3 DEF Extends
      <4> HIDE DEF R
      <4>2. /\ Pushed(X, R) /\ Len(R) = Len(X) + 2
            /\ R[Len(X) + 1] = Y[1] /\ R[Len(X) + 2] = Y[2]
        BY <2>4, <4>1, Pushes
      <4>a. Len(X) = 1
        BY <2>4, <3>2
      <4>3. 1 \in 1 .. Len(X) /\ Len(X) + 2 = 3 /\ Len(X) + 1 = 2
        BY <4>a
      <4>4. R[1] = X[1]
        BY <4>2, <4>3 DEF Pushed
      <4> QED
        BY <2>4, <3>2, <4>2, <4>3, <4>4
    <3> QED
      BY <3>1, <3>2
  <2>12. New(S, toServer', {"ack_configure"})
    <3>1. \A j \in 1 .. Len(R) : R[j].op \notin {"ack_configure"}
      <4>1. CASE b = Null
        BY <2>11, <4>1 DEF Attach, Commit
      <4>2. CASE b # Null
        BY <2>11, <4>2 DEF CreateBuffer, Attach, Commit
      <4> QED
        BY <4>1, <4>2
    <3>2. Extends(Requests, S, R, toServer')
      BY <2>6, <2>7 DEF Extends
    <3> QED
      BY <3>1, <3>2, NewOps
  <2> HIDE DEF S, R
  <2> SUFFICES ASSUME server.error = "none"
               PROVE  InOrder(toServer', toClient', server, made', size)
                      /\ (lost' \/ Configured(toServer', server))
    BY <1>1, <2>0 DEF WaylandInv
  <2>13. PICK c \in 0 .. Len(server.offered) : Follows(toClient, server, size, c)
    BY DEF WaylandInv, InOrder
  <2>14. /\ Serials(toServer, toClient, server) /\ Creates(toServer, server, made)
         /\ Attaches(toServer, server) /\ Releases(toServer, toClient, server)
         /\ lost \/ Configured(toServer, server)
    BY DEF WaylandInv, InOrder
  <2>15. /\ Follows(toClient', server, size, c)
         /\ Releases(toServer, toClient', server)
    BY <1>1, <2>13, <2>14, PopClient
  <2>16. Serials(S, toClient', server) /\ Told(server, s, size)
    BY <1>1, <2>8, <2>13, <2>14, Acknowledging
  <2>17. /\ Creates(S, server, made) /\ Attaches(S, server)
         /\ Releases(S, toClient', server)
         /\ lost \/ Configured(S, server)
    <3>1. \A j \in Len(toServer) + 1 .. Len(S) : S[j].op = "ack_configure"
      BY <2>8 DEF AckConfigure
    <3> QED
      BY <2>8, <2>14, <2>15, <3>1, PushServer
  <2>18. Serials(toServer', toClient', server)
    BY <2>10, <2>12, <2>16, PushServer
  <2>19. CASE b = Null
    <3>1. /\ Len(toServer') = Len(S) + 2 /\ toServer'[Len(S) + 1] = Attach(Null)
          /\ toServer'[Len(S) + 2] = Commit
      BY <2>10, <2>11, <2>19
    <3>2. /\ Creates(toServer', server, made) /\ Attaches(toServer', server)
          /\ Releases(toServer', toClient', server)
          /\ made = 0 /\ Configured(S, server) => Configured(toServer', server)
      BY <2>1, <2>9, <2>10, <2>17, <3>1, NotFramed
    <3>3. lost' \/ made = 0
      <4>1. made > 0 \/ made = 0
        BY <2>1
      <4> QED
        BY <2>0, <2>19, <4>1
    <3>4. lost => lost'
      BY <2>0
    <3>5. made' = made
      BY <2>0, <2>19
    <3>6. InOrder(toServer', toClient', server, made', size)
      BY <2>15, <2>18, <3>2, <3>5 DEF InOrder
    <3>7. lost' \/ Configured(toServer', server)
      BY <2>17, <3>2, <3>3, <3>4
    <3> QED
      BY <3>6, <3>7
  <2>20. CASE b # Null
    <3>0. b = made + 1 /\ Drawable(size) /\ made' = made + 1
      BY <2>0, <2>2, <2>20
    <3>1. /\ Len(toServer') = Len(S) + 3 /\ toServer'[Len(S) + 1] = CreateBuffer(made + 1, size)
          /\ toServer'[Len(S) + 2] = Attach(made + 1) /\ toServer'[Len(S) + 3] = Commit
      BY <2>10, <2>11, <2>20, <3>0
    <3>2. /\ Creates(toServer', server, made + 1) /\ Attaches(toServer', server)
          /\ Releases(toServer', toClient', server)
          /\ Configured(S, server) => Configured(toServer', server)
      BY <2>1, <2>9, <2>10, <2>16, <2>17, <3>0, <3>1, Framed
    <3>3. lost => lost'
      BY <2>0
    <3>4. InOrder(toServer', toClient', server, made', size)
      BY <2>15, <2>18, <3>0, <3>2 DEF InOrder
    <3>5. lost' \/ Configured(toServer', server)
      BY <2>17, <3>2, <3>3
    <3> QED
      BY <3>4, <3>5
  <2> QED
    BY <2>19, <2>20
<1> QED
  BY <1>3, <1>4

\* A step of the server that emits no configure event, and lets go of what it
\* says it lets go of.
LEMMA EmitStep ==
  ASSUME WaylandInv, WaylandTypeOK', Pushed(toClient, toClient'), New(toClient, toClient', Configuring),
         server'.acked = server.acked, server'.offered = server.offered,
         server'.sizes = server.sizes, server'.alive = server.alive,
         server'.pending = server.pending, server'.content = server.content,
         server'.initial = server.initial, server'.configured = server.configured,
         server'.error = server.error, server'.used \subseteq server.used,
         server.error = "none" =>
           \A j \in Len(toClient) + 1 .. Len(toClient') :
             toClient'[j].op = "release" => LetGo(toServer, server', toClient'[j].buffer),
         UNCHANGED <<clientVars, toServer>>
  PROVE  WaylandInv'
<1> UNCHANGED <<size, made, lost, toServer>>
  BY DEF clientVars
<1> SUFFICES ASSUME server.error = "none"
             PROVE  InOrder(toServer, toClient', server', made, size)
                    /\ (lost \/ Configured(toServer, server'))
  BY DEF WaylandInv
<1>1. PICK c \in 0 .. Len(server.offered) : Follows(toClient, server, size, c)
  BY DEF WaylandInv, InOrder
<1>2. /\ Serials(toServer, toClient, server) /\ Creates(toServer, server, made)
      /\ Attaches(toServer, server) /\ Releases(toServer, toClient, server)
      /\ lost \/ Configured(toServer, server)
  BY DEF WaylandInv, InOrder
<1>3. \A t, y : Told(server, t, y) => Told(server', t, y)
  BY DEF Told
<1>4. Serials(toServer, toClient, server') /\ Releases(toServer, toClient, server')
  BY <1>2 DEF Serials, Releases, LetGo
<1>5. Creates(toServer, server', made)
  BY <1>2, <1>3 DEF Creates, CreateAt
<1>6. Attaches(toServer, server')
  BY <1>2, <1>3 DEF Attaches, Shows
<1>7. Configured(toServer, server) => Configured(toServer, server')
  BY DEF Configured
<1>8. Follows(toClient, server', size, c)
  BY <1>1, <1>3 DEF Follows
<1>9. /\ Serials(toServer, toClient', server') /\ Releases(toServer, toClient', server')
      /\ Follows(toClient', server', size, c)
  BY <1>4, <1>8, PushClient
<1> QED
  BY <1>2, <1>5, <1>6, <1>7, <1>9 DEF InOrder

LEMMA NewSizeOffered ==
  ASSUME WaylandInv, WaylandTypeOK', Configure
  PROVE  WaylandInv'
<1> WaylandTypeOK
  BY DEF WaylandInv
<1>1. PICK z \in Sizes :
        /\ server' = [server EXCEPT !.offered = Append(@, z)]
        /\ Emit(<<[op |-> "toplevel_configure", size |-> z],
                  [op |-> "surface_configure", serial |-> Len(server.offered) + 1]>>)
  BY DEF Configure
<1> DEFINE r == <<[op |-> "toplevel_configure", size |-> z],
                  [op |-> "surface_configure", serial |-> Len(server.offered) + 1]>>
<1>2. /\ server \in Servers /\ z \in Nat \X Nat /\ toClient \in Seq(Events)
      /\ Len(server.offered) \in Nat
      /\ server.initial = TRUE /\ UNCHANGED <<size, made, lost, toServer>>
  BY WaylandAssumption, ServerFields DEF WaylandTypeOK, Configure, clientVars
<1>3. r \in Seq(Events) /\ Len(r) = 2
  BY <1>2, EventTypes
<1>4. /\ Pushed(toClient, toClient') /\ Len(toClient') = Len(toClient) + 2
      /\ toClient'[Len(toClient) + 1] = r[1] /\ toClient'[Len(toClient) + 2] = r[2]
  <2>1. Extends(Events, toClient, r, toClient')
    BY <1>1, <1>3, Emitting
  <2> HIDE DEF r
  <2> QED
    BY <1>3, <2>1, Pushes
<1>5. server'.error = server.error /\ Proposes(server, server', z)
  BY <1>1, <1>2 DEF Servers, Proposes
<1> SUFFICES ASSUME server.error = "none"
             PROVE  InOrder(toServer, toClient', server', made, size)
                    /\ (lost \/ Configured(toServer, server'))
  BY <1>2, <1>5 DEF WaylandInv
<1>6. PICK c \in 0 .. Len(server.offered) : Follows(toClient, server, size, c)
  BY DEF WaylandInv, InOrder
<1>7. /\ Serials(toServer, toClient, server) /\ Creates(toServer, server, made)
      /\ Attaches(toServer, server) /\ Releases(toServer, toClient, server)
      /\ lost \/ Configured(toServer, server)
  BY DEF WaylandInv, InOrder
<1>8. /\ Creates(toServer, server', made) /\ Attaches(toServer, server')
      /\ Releases(toServer, toClient, server') /\ (lost \/ Configured(toServer, server'))
  BY <1>2, <1>5, <1>7, Offering
<1>9. /\ Serials(toServer, toClient', server') /\ Releases(toServer, toClient', server')
      /\ c \in 0 .. Len(server'.offered) /\ Follows(toClient', server', size, c)
  <2>1. /\ toClient'[Len(toClient) + 1] = [op |-> "toplevel_configure", size |-> z]
        /\ toClient'[Len(toClient) + 2] = [op |-> "surface_configure", serial |-> Len(server.offered) + 1]
    BY <1>4
  <2> QED
    BY <1>4, <1>5, <1>6, <1>7, <1>8, <2>1, Telling
<1> QED
  BY <1>8, <1>9 DEF InOrder

LEMMA OtherEmissions ==
  ASSUME WaylandInv, WaylandTypeOK', Release \/ Ping \/ Farewell
  PROVE  WaylandInv'
<1> WaylandTypeOK
  BY DEF WaylandInv
<1>0. toClient \in Seq(Events) /\ server \in Servers
  BY DEF WaylandTypeOK
<1>1. CASE Release
  <2>1. PICK b \in server.used :
          /\ server' = [server EXCEPT !.used = @ \ {b}]
          /\ Emit(<<[op |-> "release", buffer |-> b]>>)
    BY <1>1 DEF Release
  <2> DEFINE r == <<[op |-> "release", buffer |-> b]>>
  <2>2. r \in Seq(Events) /\ Len(r) = 1 /\ r[1].op = "release" /\ r[1].buffer = b
    BY <1>0, ServerFields, EventTypes
  <2>3. /\ Pushed(toClient, toClient') /\ Len(toClient') = Len(toClient) + 1 /\ Len(toClient) \in Nat
        /\ toClient'[Len(toClient) + 1] = r[1] /\ New(toClient, toClient', Configuring)
    <3>1. Extends(Events, toClient, r, toClient')
      BY <2>1, <2>2, Emitting
    <3>2. \A j \in 1 .. Len(r) : r[j].op = "release"
      BY <2>2
    <3> HIDE DEF r
    <3>3. New(toClient, toClient', Configuring)
      BY <3>1, <3>2, NewOps DEF Configuring
    <3> QED
      BY <2>2, <3>1, <3>3, Pushes
  <2>4. /\ server'.used = server.used \ {b}
        /\ server'.acked = server.acked /\ server'.offered = server.offered
        /\ server'.sizes = server.sizes /\ server'.alive = server.alive
        /\ server'.pending = server.pending /\ server'.content = server.content
        /\ server'.initial = server.initial /\ server'.configured = server.configured
        /\ server'.error = server.error
    BY <1>0, <2>1 DEF Servers
  <2>5. ASSUME server.error = "none"
        PROVE  LetGo(toServer, server', b)
    <3>1. Attaches(toServer, server) /\ Releases(toServer, toClient, server)
      BY <2>5 DEF WaylandInv, InOrder
    <3>2. b \in 1 .. Len(server.sizes) /\ b # Null /\ b # Unattached
      BY <3>1 DEF Releases, Null, Unattached
    <3>3. b # server.pending
      BY <3>1, <3>2 DEF Attaches, Shows
    <3>4. Is(toServer, 1, "attach") => toServer[1].buffer # b
      BY <3>1, <3>2 DEF Attaches, Shows, Is
    <3> QED
      BY <2>4, <3>2, <3>3, <3>4 DEF LetGo
  <2>6. \A j \in Len(toClient) + 1 .. Len(toClient') : toClient'[j].buffer = b
    <3> TAKE j \in Len(toClient) + 1 .. Len(toClient')
    <3>1. j = Len(toClient) + 1
      BY <2>3
    <3> QED
      BY <2>2, <2>3, <3>1
  <2> QED
    BY <1>1, <2>3, <2>4, <2>5, <2>6, EmitStep DEF Release
<1>2. ASSUME NEW e \in {"ping", "close", "disconnect"}, Emit(<<[op |-> e]>>)
      PROVE  /\ Pushed(toClient, toClient') /\ New(toClient, toClient', Configuring)
             /\ \A j \in Len(toClient) + 1 .. Len(toClient') : toClient'[j].op # "release"
  <2> DEFINE r == <<[op |-> e]>>
  <2>1. r \in Seq(Events) /\ \A j \in 1 .. Len(r) : r[j].op = e
    BY EventTypes
  <2>2. Extends(Events, toClient, r, toClient')
    BY <1>2, <2>1, Emitting
  <2>3. New(toClient, toClient', Configuring)
    BY <2>1, <2>2, NewOps DEF Configuring
  <2>4. New(toClient, toClient', {"release"})
    BY <2>1, <2>2, NewOps
  <2> QED
    BY <2>2, <2>3, <2>4, Pushes DEF New
<1>3. CASE Ping
  <2>1. /\ server'.used = server.used
        /\ server'.acked = server.acked /\ server'.offered = server.offered
        /\ server'.sizes = server.sizes /\ server'.alive = server.alive
        /\ server'.pending = server.pending /\ server'.content = server.content
        /\ server'.initial = server.initial /\ server'.configured = server.configured
        /\ server'.error = server.error
    BY <1>0, <1>3 DEF Servers, Ping
  <2> QED
    BY <1>2, <1>3, <2>1, EmitStep DEF Ping
<1>4. CASE Farewell
  BY <1>2, <1>4, EmitStep DEF Farewell
<1> QED
  BY <1>1, <1>3, <1>4

\* What the compositor makes of a request that is no error.
LEMMA Acting ==
  ASSUME server \in Servers, NEW r \in Requests, NEW w, w = Handled(r), w.error = "none",
         server.error = "none"
  PROVE  /\ Acts(r, server, w)
         /\ ~(r.op = "commit" /\ server.pending = Null /\ server.content # Null) => Displays(r, server, w)
<1>0. \A e \in Errors \ {"none"} : w # Raise(e)
  BY DEF Raise, Servers
<1>1. CASE r.op = "ack_configure"
  <2>1. w = [server EXCEPT !.acked = r.serial, !.configured = server.initial]
    BY <1>0, <1>1 DEF Handled, Acknowledged, Errors
  <2> QED
    BY <1>1, <2>1 DEF Acts, Displays, Servers
<1>2. CASE r.op = "create_buffer"
  <2>1. w = [server EXCEPT !.sizes = Append(@, r.size), !.alive = @ \cup {r.buffer}]
    BY <1>0, <1>2 DEF Handled, Created, Errors
  <2> QED
    BY <1>2, <2>1 DEF Acts, Displays, Servers
<1>3. CASE r.op = "attach"
  <2>1. w = [server EXCEPT !.pending = r.buffer]
    BY <1>0, <1>3 DEF Handled, Attached, Errors
  <2> QED
    BY <1>3, <2>1 DEF Acts, Displays, Servers
<1>4. CASE r.op = "destroy_buffer"
  <2>1. w = [server EXCEPT !.alive = @ \ {r.buffer}]
    BY <1>0, <1>4 DEF Handled, Destroyed, Errors
  <2> QED
    BY <1>4, <2>1 DEF Acts, Displays, Servers
<1>5. CASE r.op = "commit"
  <2> DEFINE s == [server EXCEPT !.pending = Unattached]
  <2>0. w = Committed
    BY <1>5 DEF Handled
  <2>1. CASE server.pending = Unattached
    <3>1. w = [s EXCEPT !.initial = TRUE]
      BY <2>0, <2>1 DEF Committed, Null, Unattached
    <3> QED
      BY <1>5, <2>1, <3>1 DEF Acts, Displays, Servers
  <2>2. CASE server.pending = Null /\ server.content = Null
    <3>1. w = [s EXCEPT !.initial = TRUE]
      BY <2>0, <2>2 DEF Committed, Null, Unattached
    <3> QED
      BY <1>5, <2>2, <3>1 DEF Acts, Displays, Servers
  <2>3. CASE server.pending = Null /\ server.content # Null
    <3>1. w = [s EXCEPT !.initial = FALSE, !.configured = FALSE, !.content = Null]
      BY <2>0, <2>3 DEF Committed, Null, Unattached
    <3> QED
      BY <1>5, <2>3, <3>1 DEF Acts, Servers
  <2>4. CASE server.pending \notin {Unattached, Null}
    <3>1. w = [s EXCEPT !.content = server.pending, !.used = @ \cup {server.pending}]
      BY <1>0, <2>0, <2>4 DEF Committed, Errors
    <3> QED
      BY <1>5, <2>4, <3>1 DEF Acts, Displays, Servers
  <2> QED
    BY <2>1, <2>2, <2>3, <2>4
<1>6. CASE r.op \notin {"ack_configure", "create_buffer", "attach", "destroy_buffer", "commit"}
  <2>1. w = server
    BY <1>6 DEF Handled
  <2> QED
    BY <1>6, <2>1 DEF Acts, Displays, Servers
<1> QED
  BY <1>1, <1>2, <1>3, <1>4, <1>5, <1>6

\* No request is an error as long as draw_frame has not failed for a visible
\* surface.
LEMMA NoError ==
  ASSUME server \in Servers, server.error = "none", NEW m \in Nat, NEW S, NEW C, NEW r,
         Len(S) \in Nat, 1 \in 1 .. Len(S), r = S[1],
         Serials(S, C, server), Creates(S, server, m), Attaches(S, server),
         Releases(S, C, server), Configured(S, server)
  PROVE  /\ Handled(r).error = "none"
         /\ ~(r.op = "commit" /\ server.pending = Null /\ server.content # Null)
<1>0. ~(server.pending = Null /\ server.content # Null)
  BY ServerFields DEF Configured, Null
<1>1. CASE r.op = "ack_configure"
  <2>1. r.serial \in server.acked + 1 .. Len(server.offered)
    BY <1>1 DEF Serials
  <2>2. Handled(r) = [server EXCEPT !.acked = r.serial, !.configured = server.initial]
    BY <1>1, <2>1 DEF Handled, Acknowledged
  <2> QED
    BY <1>0, <2>2 DEF Servers
<1>2. CASE r.op = "create_buffer"
  <2>1. Drawable(r.size)
    BY <1>2, ServerFields, NextBuffer DEF Is
  <2>2. Handled(r) = [server EXCEPT !.sizes = Append(@, r.size), !.alive = @ \cup {r.buffer}]
    BY <1>2, <2>1 DEF Handled, Created
  <2> QED
    BY <1>0, <2>2 DEF Servers
<1>3. CASE r.op = "attach"
  <2>1. r.buffer = Null \/ r.buffer \in server.alive
    BY <1>3 DEF Attaches
  <2>2. Handled(r) = [server EXCEPT !.pending = r.buffer]
    BY <1>3, <2>1 DEF Handled, Attached
  <2> QED
    BY <1>0, <2>2 DEF Servers
<1>4. CASE r.op = "destroy_buffer"
  <2>1. r.buffer \notin server.used
    BY <1>4 DEF Releases, LetGo
  <2>2. Handled(r) = [server EXCEPT !.alive = @ \ {r.buffer}]
    BY <1>4, <2>1 DEF Handled, Destroyed
  <2> QED
    BY <1>0, <2>2 DEF Servers
<1>5. CASE r.op = "commit"
  <2> DEFINE s == [server EXCEPT !.pending = Unattached]
  <2>0. Handled(r) = Committed
    BY <1>5 DEF Handled
  <2>1. CASE server.pending \in {Unattached, Null}
    <3>1. Committed = [s EXCEPT !.initial = TRUE]
      BY <1>0, <2>1 DEF Committed, Null, Unattached
    <3> QED
      BY <1>0, <2>0, <3>1 DEF Servers
  <2>2. CASE server.pending \notin {Unattached, Null}
    <3>1. server.configured
      BY <2>2 DEF Configured
    <3>2. Committed = [s EXCEPT !.content = server.pending, !.used = @ \cup {server.pending}]
      BY <2>2, <3>1 DEF Committed
    <3> QED
      BY <1>0, <2>0, <3>2 DEF Servers
  <2> QED
    BY <2>1, <2>2
<1>6. CASE r.op \notin {"ack_configure", "create_buffer", "attach", "destroy_buffer", "commit"}
  <2>1. Handled(r) = server
    BY <1>6 DEF Handled
  <2> QED
    BY <1>0, <2>1
<1> QED
  BY <1>1, <1>2, <1>3, <1>4, <1>5, <1>6

LEMMA RequestTaken ==
  ASSUME WaylandInv, WaylandTypeOK', ServerHandle
  PROVE  WaylandInv'
<1> WaylandTypeOK
  BY DEF WaylandInv
<1> DEFINE r == toServer[1]
<1>0. /\ server \in Servers /\ made \in Nat /\ toServer # <<>> /\ toServer \in Seq(Requests)
      /\ toClient \in Seq(Events)
      /\ server.error = "none" /\ toServer' = Tail(toServer)
      /\ UNCHANGED <<at, bound, size, made, lost>>
  BY DEF WaylandTypeOK, ServerHandle, clientVars
<1>1. Popped(toServer, toServer') /\ r \in Requests /\ Head(toServer) = r
  BY <1>0, Pops
<1>2. /\ Serials(toServer, toClient, server) /\ Creates(toServer, server, made)
      /\ Attaches(toServer, server) /\ Releases(toServer, toClient, server)
      /\ lost \/ Configured(toServer, server)
  BY <1>0 DEF WaylandInv, InOrder
<1>3. PICK c \in 0 .. Len(server.offered) : Follows(toClient, server, size, c)
  BY <1>0 DEF WaylandInv, InOrder
<1>4. Len(toServer) \in Nat /\ 1 \in 1 .. Len(toServer)
  BY <1>1, Shift
<1>5. /\ r.op = "create_buffer" => r.size \in Nat \X Nat
      /\ r.op = "attach" => r.buffer \in Nat
  BY <1>1, RequestFields
<1>6. CASE r.op = "get_registry"
  <2>0. UNCHANGED server /\ \E o \in Offers :
           Emit(SetToSeq({[op |-> "global", global |-> g] : g \in o}) \o <<[op |-> "done"]>>)
    BY <1>1, <1>6 DEF ServerHandle
  <2>1. Handled(r) = server
    BY <1>6 DEF Handled
  <2>2. Acts(r, server, server) /\ Displays(r, server, server)
    BY <1>0, <1>1, <1>6, <2>1, Acting
  <2>3. /\ Serials(toServer', toClient, server) /\ Creates(toServer', server, made)
        /\ Attaches(toServer', server) /\ Releases(toServer', toClient, server)
    <3>1. server.used \subseteq 1 .. Len(server.sizes)
      BY <1>2 DEF Releases
    <3> QED
      BY <1>0, <1>1, <1>2, <1>5, <2>2, <3>1, ServerFields, PopSerials, PopCreates, PopAttaches, PopReleases
  <2>4. lost \/ Configured(toServer', server)
    BY <1>0, <1>1, <1>2, <1>5, <2>2, PopConfigured
  <2>5. PICK o \in Offers :
           Emit(SetToSeq({[op |-> "global", global |-> g] : g \in o}) \o <<[op |-> "done"]>>)
    BY <2>0
  <2> DEFINE E == {[op |-> "global", global |-> g] : g \in o}
             Q == SetToSeq(E)
             D == <<[op |-> "done"]>>
  <2>6. o \subseteq Globals
    BY WaylandAssumption
  <2>7. Q \in Seq(E) /\ E \subseteq Events /\ Q \in Seq(Events)
    <3>1. Q \in Seq(E)
      BY <2>6, Announced
    <3>2. E \subseteq Events
      BY <2>6, EventTypes
    <3> QED
      BY <3>1, <3>2, SeqMonotonic
  <2>8. \A j \in 1 .. Len(Q) : Q[j].op = "global"
    <3> HIDE DEF Q
    <3> TAKE j \in 1 .. Len(Q)
    <3>1. Q[j] \in E
      BY <2>7
    <3> QED
      BY <3>1
  <2> HIDE DEF Q, E
  <2>9. D \in Seq(Events) /\ Len(D) = 1 /\ D[1].op = "done"
    BY EventTypes
  <2> HIDE DEF D
  <2>10. Emit(Q \o D) /\ Q \o D \in Seq(Events)
    BY <2>5, <2>7, <2>9, ConcatProperties DEF Q, E, D
  <2>11. \A j \in 1 .. Len(Q \o D) : (Q \o D)[j].op \in {"global", "done"}
    <3>1. Len(Q) \in Nat /\ Len(Q \o D) = Len(Q) + 1
      BY <2>7, <2>9, ConcatProperties
    <3>2. \A j \in 1 .. Len(Q) + 1 : (Q \o D)[j] = IF j <= Len(Q) THEN Q[j] ELSE D[j - Len(Q)]
      BY <2>7, <2>9, ConcatProperties
    <3> TAKE j \in 1 .. Len(Q \o D)
    <3>3. CASE j <= Len(Q)
      <4>1. j \in 1 .. Len(Q) /\ j \in 1 .. Len(Q) + 1
        BY <3>1, <3>3
      <4> QED
        BY <2>8, <3>2, <3>3, <4>1
    <3>4. CASE ~(j <= Len(Q))
      <4>1. j - Len(Q) = 1 /\ j \in 1 .. Len(Q) + 1
        BY <3>1, <3>4
      <4> QED
        BY <2>9, <3>2, <3>4, <4>1
    <3> QED
      BY <3>3, <3>4
  <2>12. Extends(Events, toClient, Q \o D, toClient')
    BY <2>10, Emitting
  <2>13. Pushed(toClient, toClient')
    BY <2>12, Pushes
  <2>14. New(toClient, toClient', Configuring)
    BY <2>11, <2>12, NewOps DEF Configuring
  <2>15. New(toClient, toClient', {"release"})
    BY <2>11, <2>12, NewOps
  <2>16. /\ Serials(toServer', toClient', server) /\ Releases(toServer', toClient', server)
         /\ Follows(toClient', server, size, c)
    BY <1>3, <2>3, <2>13, <2>14, <2>15, PushClient DEF New
  <2> QED
    BY <1>0, <2>0, <2>3, <2>4, <2>16 DEF WaylandInv, InOrder
<1>7. CASE r.op # "get_registry"
  <2>0. server' = Handled(r) /\ UNCHANGED toClient
    BY <1>1, <1>7 DEF ServerHandle
  <2>1. ~lost => /\ server'.error = "none"
                 /\ ~(r.op = "commit" /\ server.pending = Null /\ server.content # Null)
    BY <1>0, <1>2, <1>4, <2>0, NoError
  <2>2. lost' \/ server'.error = "none"
    BY <1>0, <2>1
  <2> SUFFICES ASSUME server'.error = "none"
               PROVE  InOrder(toServer', toClient', server', made, size)
                      /\ (lost \/ Configured(toServer', server'))
    BY <1>0, <2>2 DEF WaylandInv
  <2>3. Acts(r, server, server') /\ (~lost => Displays(r, server, server'))
    BY <1>0, <1>1, <2>0, <2>1, Acting
  <2>4. /\ Serials(toServer', toClient, server') /\ Creates(toServer', server', made)
        /\ Attaches(toServer', server') /\ Releases(toServer', toClient, server')
    <3>1. server.used \subseteq 1 .. Len(server.sizes)
      BY <1>2 DEF Releases
    <3> QED
      BY <1>0, <1>1, <1>2, <1>5, <2>3, <3>1, ServerFields, PopSerials, PopCreates, PopAttaches, PopReleases
  <2>5. lost \/ Configured(toServer', server')
    BY <1>0, <1>1, <1>2, <1>5, <2>3, PopConfigured
  <2>6. Follows(toClient, server', size, c) /\ server'.offered = server.offered
    <3>1. server'.offered = server.offered /\ \A t, y : Told(server, t, y) => Told(server', t, y)
      BY <2>3 DEF Acts, Told
    <3> QED
      BY <1>3, <3>1 DEF Follows
  <2> QED
    BY <2>0, <2>4, <2>5, <2>6 DEF InOrder
<1> QED
  BY <1>6, <1>7

LEMMA WaylandInvHolds == WaylandSpec => []WaylandInv
<1>1. WaylandInv /\ [WaylandNext]_waylandVars => WaylandInv'
  <2> SUFFICES ASSUME WaylandInv, [WaylandNext]_waylandVars
               PROVE  WaylandInv'
    OBVIOUS
  <2>1. CASE UNCHANGED waylandVars
    BY <2>1 DEF WaylandInv, WaylandTypeOK, waylandVars
  <2>2. CASE Client
    <3>1. WaylandTypeOK'
      BY <2>2, ClientTypes DEF WaylandInv
    <3> QED
      BY <2>2, <3>1, QuietSteps, ReleaseTaken, SizeTaken, ConfigureTaken DEF Client
  <2>3. CASE Compositor
    <3>1. WaylandTypeOK'
      BY <2>3, CompositorTypes DEF WaylandInv
    <3> QED
      BY <2>3, <3>1, RequestTaken, NewSizeOffered, OtherEmissions DEF Compositor
  <2> QED
    BY <2>1, <2>2, <2>3 DEF WaylandNext
<1> QED
  BY <1>1, WaylandInvInit, PTL DEF WaylandSpec

\* Whatever is under way in the two queues, the compositor finds no error of the
\* protocol, unless draw_frame failed for a surface that was visible
\* (xgui_wayland.c:106-166, 230).
THEOREM NoProtocolErrorHolds == WaylandSpec => []NoProtocolError
<1>1. WaylandInv => NoProtocolError
  BY DEF WaylandInv, NoProtocolError
<1> QED
  BY <1>1, WaylandInvHolds, PTL

\* What becomes visible has the size of the last configure event that proposed
\* one, up to the one acknowledged before the commit (xgui_wayland.c:58-61,
\* 161-165).
THEOREM SizeFollowsConfigureHolds == WaylandSpec => SizeFollowsConfigure
<1> DEFINE Right == server'.content \notin {Null, server.content} =>
                      server.sizes[server'.content] = SizeAt(server.acked)
<1>1. WaylandInv /\ [WaylandNext]_waylandVars => [Right]_waylandVars
  <2> SUFFICES ASSUME WaylandInv, WaylandNext, server'.content \notin {Null, server.content}
               PROVE  server.sizes[server'.content] = SizeAt(server.acked)
    OBVIOUS
  <2>1. server \in Servers /\ toServer \in Seq(Requests)
    BY DEF WaylandInv, WaylandTypeOK
  <2>2. server' # server
    OBVIOUS
  <2>3. ~Client /\ ~Farewell
    BY <2>2 DEF Client, Connect, RegistryGlobal, CreateSurface, XdgWmBasePing, XdgToplevelConfigure,
                XdgSurfaceConfigure, WlBufferRelease, XdgToplevelClose, ConnectionLost, Farewell
  <2>4. ~Configure
    BY <2>1 DEF Configure, Servers
  <2>5. ~Release
    BY <2>1 DEF Release, Servers
  <2>6. ~Ping
    BY <2>1 DEF Ping, Servers
  <2>7. ServerHandle
    BY <2>3, <2>4, <2>5, <2>6 DEF WaylandNext, Compositor
  <2>8. PICK r \in Requests : server' = Handled(r)
    BY <2>1, <2>2, <2>7, Pops DEF ServerHandle
  <2>9. server.error = "none" /\ Attaches(toServer, server) /\ Creates(toServer, server, made)
    BY <2>7 DEF ServerHandle, WaylandInv, InOrder
  <2>10. server.pending \notin {Unattached, Null} /\ server'.content = server.pending
    <3>1. r.op = "commit"
      BY <2>1, <2>2, <2>8 DEF Handled, Acknowledged, Created, Attached, Destroyed, Raise, Servers
    <3>2. server' = Committed
      BY <2>8, <3>1 DEF Handled
    <3> DEFINE s == [server EXCEPT !.pending = Unattached]
    <3>3. /\ [s EXCEPT !.initial = TRUE].content = server.content
          /\ [s EXCEPT !.initial = FALSE, !.configured = FALSE, !.content = Null].content = Null
          /\ [s EXCEPT !.content = server.pending, !.used = @ \cup {server.pending}].content = server.pending
          /\ Raise("unconfigured_buffer").content = server.content
      BY <2>1 DEF Servers, Raise
    <3> QED
      BY <3>2, <3>3 DEF Committed
  <2>11. /\ server.pending \in 1 .. Len(server.sizes)
         /\ Told(server, server.acked, server.sizes[server.pending])
    BY <2>9, <2>10 DEF Attaches, Shows
  <2>12. Drawable(server.sizes[server.pending]) /\ server.acked \in Nat
    BY <2>1, <2>9, <2>11, ServerFields DEF Creates
  <2> QED
    BY <2>10, <2>11, <2>12, ToldSizeAt
<1> QED
  BY <1>1, WaylandInvHolds, PTL DEF WaylandSpec, SizeFollowsConfigure
=============================================================================
