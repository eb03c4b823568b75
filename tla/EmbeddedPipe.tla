---------------------------- MODULE EmbeddedPipe ----------------------------
(***************************************************************************)
(* One direction of the embedded transport: the bounded byte stream `Pipe' *)
(* of src/src/embedded/TracyEmbeddedTransport.cpp, with the threads that   *)
(* are inside writePipe and readPipe and the calls that close its ends.    *)
(*                                                                         *)
(* Every action that starts from "running" or "expired" is one critical    *)
(* section of pipe.mutex: the thread holds the lock, evaluates the         *)
(* predicate of its condition variable and either goes to sleep or does    *)
(* the work up to the unlock.  A writer gives the lock up between two      *)
(* chunks, so its call is a sequence of such sections.                     *)
(***************************************************************************)
EXTENDS Integers, Sequences

CONSTANTS
    Capacity,     \* storage.size(): the capacity given to Configure
    Byte,         \* the bytes a payload is made of
    Blank,        \* the byte a fresh std::vector<char> holds
    Writers,      \* threads that may be inside writePipe
    Readers,      \* threads that may be inside readPipe
    Payloads,     \* the buffers a caller may send
    ReadLengths,  \* the destination sizes a caller may read into
    MaxBytes      \* bound: no call starts that could send more in total

ASSUME CapacityAssumption == Capacity \in Nat \ {0}
ASSUME ByteAssumption == Blank \in Byte
ASSUME ThreadAssumption == Writers \cap Readers = {}
ASSUME PayloadAssumption == Payloads \subseteq Seq(Byte) \ {<<>>}
ASSUME LengthAssumption == ReadLengths \subseteq Nat \ {0}
ASSUME BoundAssumption == MaxBytes \in Nat

VARIABLES
    storage, head, size,          \* the ring
    writerClosed, readerClosed,   \* its two ends
    transferred, highWater,       \* the statistics
    pc,        \* where each thread is: see Where
    source,    \* source[w]: the buffer of w's current (or last) send
    written,   \* written[w]: how much of it has been copied
    length,    \* length[r]: the destination size of r's read
    timed,     \* timed[r]: r's read has a deadline (timeoutMilliseconds >= 0)
    result,    \* what the thread's last call returned
    sent,      \* history: the bytes accepted from writers, in order
    received,  \* history: the bytes handed to readers, in order
    eof        \* history: some read has returned 0

ring  == <<storage, head, size>>
ends  == <<writerClosed, readerClosed>>
stats == <<transferred, highWater>>
calls == <<source, written, length, timed>>
hist  == <<sent, received, eof>>
vars  == <<ring, ends, stats, pc, calls, result, hist>>

Threads == Writers \cup Readers
Slots == 0 .. Capacity - 1

(* "idle": in no call.  "running": about to take the mutex and look at its *)
(* predicate.  "waiting": asleep in wait or wait_for.  "expired": woken by *)
(* its deadline and about to take the mutex.                               *)
Where == {"idle", "running", "waiting", "expired"}

NoResult == -2     \* no call has returned since this one began

Smaller(a, b) == IF a < b THEN a ELSE b
Larger(a, b) == IF a > b THEN a ELSE b

-----------------------------------------------------------------------------

Init ==
    /\ storage = [i \in Slots |-> Blank]
    /\ head = 0
    /\ size = 0
    /\ writerClosed = FALSE
    /\ readerClosed = FALSE
    /\ transferred = 0
    /\ highWater = 0
    /\ pc = [t \in Threads |-> "idle"]
    /\ source = [w \in Writers |-> <<>>]
    /\ written = [w \in Writers |-> 0]
    /\ length = [r \in Readers |-> 0]
    /\ timed = [r \in Readers |-> FALSE]
    /\ result = [t \in Threads |-> NoResult]
    /\ sent = <<>>
    /\ received = <<>>
    /\ eof = FALSE

(* Definitions named Slip... are plausible mistakes in the definition that *)
(* follows them.  The specification does not use them; each is there to be *)
(* put in its place, to see that a property notices.                       *)
SlipReadableIgnoresWriter == size # 0 \/ readerClosed

(* The predicates the two condition variables are waited on with.  The     *)
(* writers' one does not mention writerClosed.                             *)
Writable == readerClosed \/ size < Capacity
Readable == size # 0 \/ writerClosed \/ readerClosed

(* What makes writePipe give up once it is awake. *)
Closed == readerClosed \/ writerClosed

Waiting(T) == {t \in T : pc[t] = "waiting"}

SlipNotifyNobody(t, where, T) == pc' = [pc EXCEPT ![t] = where]

(* The thread t moves to `where' and notify_one wakes one sleeper of T,    *)
(* whichever it is, if there is one.                                       *)
MoveAndNotifyOne(t, where, T) ==
    \/ /\ Waiting(T) = {}
       /\ pc' = [pc EXCEPT ![t] = where]
    \/ \E u \in Waiting(T) : pc' = [pc EXCEPT ![t] = where, ![u] = "running"]

NotifyAll ==
    pc' = [t \in Threads |-> IF pc[t] = "waiting" THEN "running" ELSE pc[t]]

-----------------------------------------------------------------------------
(* writePipe *)

Send(w) ==
    /\ pc[w] = "idle"
    /\ \E payload \in Payloads :
          /\ Len(sent) + Len(payload) <= MaxBytes
          /\ source' = [source EXCEPT ![w] = payload]
    /\ written' = [written EXCEPT ![w] = 0]
    /\ pc' = [pc EXCEPT ![w] = "running"]
    /\ result' = [result EXCEPT ![w] = NoResult]
    /\ UNCHANGED <<ring, ends, stats, length, timed, hist>>

WriteWait(w) ==
    /\ pc[w] = "running"
    /\ ~Writable
    /\ pc' = [pc EXCEPT ![w] = "waiting"]
    /\ UNCHANGED <<ring, ends, stats, calls, result, hist>>

WriteFail(w) ==
    /\ pc[w] = "running"
    /\ Writable
    /\ Closed
    /\ pc' = [pc EXCEPT ![w] = "idle"]
    /\ result' = [result EXCEPT ![w] = -1]
    /\ UNCHANGED <<ring, ends, stats, calls, hist>>

SlipTailSlotWithoutHead == size % Capacity

TailSlot == (head + size) % Capacity

(* How much one pass of the loop copies: up to the end of the storage, the *)
(* free space and the rest of the payload, whichever is least.             *)
WriteCount(w) ==
    Smaller(Smaller(Capacity - TailSlot, Capacity - size),
            Len(source[w]) - written[w])

Stored(w) ==
    [i \in Slots |->
        IF i \in TailSlot .. TailSlot + WriteCount(w) - 1
        THEN source[w][written[w] + 1 + i - TailSlot]
        ELSE storage[i]]

HighWater(n) == Larger(highWater, size + n)

WriteChunk(w) ==
    LET n == WriteCount(w)
        done == written[w] + n
    IN  /\ pc[w] = "running"
        /\ Writable
        /\ ~Closed
        /\ storage' = Stored(w)
        /\ size' = size + n
        /\ transferred' = transferred + n
        /\ highWater' = HighWater(n)
        /\ written' = [written EXCEPT ![w] = done]
        /\ sent' = sent \o SubSeq(source[w], written[w] + 1, done)
        /\ IF done < Len(source[w])
           THEN /\ MoveAndNotifyOne(w, "running", Readers)
                /\ UNCHANGED result
           ELSE /\ MoveAndNotifyOne(w, "idle", Readers)
                /\ result' = [result EXCEPT ![w] = done]
        /\ UNCHANGED <<head, ends, source, length, timed, received, eof>>

-----------------------------------------------------------------------------
(* readPipe *)

Read(r) ==
    /\ pc[r] = "idle"
    /\ \E n \in ReadLengths : length' = [length EXCEPT ![r] = n]
    /\ \E deadline \in BOOLEAN : timed' = [timed EXCEPT ![r] = deadline]
    /\ pc' = [pc EXCEPT ![r] = "running"]
    /\ result' = [result EXCEPT ![r] = NoResult]
    /\ UNCHANGED <<ring, ends, stats, source, written, hist>>

ReadWait(r) ==
    /\ pc[r] = "running"
    /\ ~Readable
    /\ pc' = [pc EXCEPT ![r] = "waiting"]
    /\ UNCHANGED <<ring, ends, stats, calls, result, hist>>

(* The deadline of wait_for passes, before the thread sleeps or while it does. *)
Expire(r) ==
    /\ pc[r] \in {"running", "waiting"}
    /\ timed[r]
    /\ pc' = [pc EXCEPT ![r] = "expired"]
    /\ UNCHANGED <<ring, ends, stats, calls, result, hist>>

SlipRetryAfterTimeout(r) ==
    /\ pc[r] = "expired"
    /\ ~Readable
    /\ pc' = [pc EXCEPT ![r] = "running"]
    /\ UNCHANGED <<ring, ends, stats, calls, result, hist>>

ReadTimedOut(r) ==
    /\ pc[r] = "expired"
    /\ ~Readable
    /\ pc' = [pc EXCEPT ![r] = "idle"]
    /\ result' = [result EXCEPT ![r] = -1]
    /\ UNCHANGED <<ring, ends, stats, calls, hist>>

SlipEofBesideData(r) ==
    /\ pc[r] \in {"running", "expired"}
    /\ Closed
    /\ pc' = [pc EXCEPT ![r] = "idle"]
    /\ result' = [result EXCEPT ![r] = 0]
    /\ eof' = TRUE
    /\ UNCHANGED <<ring, ends, stats, calls, sent, received>>

ReadEof(r) ==
    /\ pc[r] \in {"running", "expired"}
    /\ Readable
    /\ size = 0
    /\ pc' = [pc EXCEPT ![r] = "idle"]
    /\ result' = [result EXCEPT ![r] = 0]
    /\ eof' = TRUE
    /\ UNCHANGED <<ring, ends, stats, calls, sent, received>>

ReadCount(r) == Smaller(Smaller(length[r], size), Capacity - head)

ReadChunk(r) ==
    LET n == ReadCount(r)
    IN  /\ pc[r] \in {"running", "expired"}
        /\ size # 0
        /\ head' = (head + n) % Capacity
        /\ size' = size - n
        /\ received' = received \o [k \in 1 .. n |-> storage[head + k - 1]]
        /\ MoveAndNotifyOne(r, "idle", Writers)
        /\ result' = [result EXCEPT ![r] = n]
        /\ UNCHANGED <<storage, ends, stats, calls, sent, eof>>

-----------------------------------------------------------------------------

(* A condition variable may wake a sleeper that nobody notified. *)
Spurious(t) ==
    /\ pc[t] = "waiting"
    /\ pc' = [pc EXCEPT ![t] = "running"]
    /\ UNCHANGED <<ring, ends, stats, calls, result, hist>>

(* closePipeWriter *)
CloseWriter ==
    /\ ~writerClosed
    /\ writerClosed' = TRUE
    /\ NotifyAll
    /\ UNCHANGED <<ring, readerClosed, stats, calls, result, hist>>

(* closePipeReader *)
CloseReader ==
    /\ ~readerClosed
    /\ readerClosed' = TRUE
    /\ NotifyAll
    /\ UNCHANGED <<ring, writerClosed, stats, calls, result, hist>>

(* cancelPipe *)
CancelPipe ==
    /\ ~(writerClosed /\ readerClosed)
    /\ writerClosed' = TRUE
    /\ readerClosed' = TRUE
    /\ NotifyAll
    /\ UNCHANGED <<ring, stats, calls, result, hist>>

WriterStep(w) == WriteWait(w) \/ WriteFail(w) \/ WriteChunk(w)

ReaderStep(r) == ReadWait(r) \/ ReadTimedOut(r) \/ ReadEof(r) \/ ReadChunk(r)

Next ==
    \/ \E w \in Writers : Send(w) \/ WriterStep(w)
    \/ \E r \in Readers : Read(r) \/ Expire(r) \/ ReaderStep(r)
    \/ \E t \in Threads : Spurious(t)
    \/ CloseWriter
    \/ CloseReader
    \/ CancelPipe

Spec == Init /\ [][Next]_vars

(* A thread inside a call is scheduled, and a deadline passes.  No caller  *)
(* is obliged to make a call.                                              *)
CallFairness ==
    /\ \A w \in Writers : WF_vars(WriterStep(w))
    /\ \A r \in Readers : WF_vars(ReaderStep(r)) /\ WF_vars(Expire(r))

FairSpec == Spec /\ CallFairness

-----------------------------------------------------------------------------
(* Properties *)

(* The type invariant: every variable has its type, a call's progress is   *)
(* within its payload and the ring's indices are within the storage.       *)
TypeOK ==
    /\ storage \in [Slots -> Byte]
    /\ head \in Slots
    /\ size \in 0 .. Capacity
    /\ writerClosed \in BOOLEAN
    /\ readerClosed \in BOOLEAN
    /\ transferred \in Nat
    /\ highWater \in 0 .. Capacity
    /\ pc \in [Threads -> Where]
    /\ source \in [Writers -> Seq(Byte)]
    /\ written \in [Writers -> Nat]
    /\ \A w \in Writers : pc[w] # "idle" => written[w] < Len(source[w])
    /\ length \in [Readers -> Nat]
    /\ \A r \in Readers : pc[r] # "idle" => length[r] # 0
    /\ timed \in [Readers -> BOOLEAN]
    /\ result \in [Threads -> {-2, -1} \cup Nat]
    /\ sent \in Seq(Byte)
    /\ received \in Seq(Byte)
    /\ eof \in BOOLEAN

(* No byte is lost, duplicated, reordered or corrupted by wrapping around  *)
(* the storage or by cutting a payload into chunks: what readers got is    *)
(* the beginning of what writers sent, and the ring holds the rest from    *)
(* head on.                                                                *)
ReceivedIsPrefix ==
    /\ Len(sent) = Len(received) + size
    /\ \A k \in 1 .. Len(received) : received[k] = sent[k]
RingHoldsTheRest ==
    \A k \in 0 .. size - 1 :
        storage[(head + k) % Capacity] = sent[Len(received) + k + 1]
StreamIntact == ReceivedIsPrefix /\ RingHoldsTheRest

(* A read returns 0 only for a closed pipe from which everything accepted  *)
(* has been read, also when the close overtook data that was in the ring,  *)
(* and no byte goes through the pipe after that: 0 is a reliable end.      *)
EofMeansDrained ==
    eof => (writerClosed \/ readerClosed) /\ received = sent
NothingAfterEof == [][eof => UNCHANGED <<sent, received>>]_vars

(* The statistics agree with the stream: transferred counts the accepted   *)
(* bytes, and a writer can only be asleep if the pipe has once been full.  *)
Accounting ==
    /\ transferred = Len(sent)
    /\ size <= highWater
    /\ Waiting(Writers) # {} => highWater = Capacity

OneWriter == \A v, w \in Writers : v = w
OneReader == \A q, r \in Readers : q = r

WritersAwake == Waiting(Writers) # {} => ~Writable
ReadersAwake == Waiting(Readers) # {} => ~Readable

(* A thread that is alone at its end never sleeps on a predicate that      *)
(* holds, however many there are at the other end and although a chunk or  *)
(* a read wakes one sleeper only.                                          *)
NoLostWakeup == (OneWriter => WritersAwake) /\ (OneReader => ReadersAwake)

(* With several writers notify_one can leave one asleep beside free space, *)
(* but then another of them is awake or there is data, whose reading will  *)
(* wake the next: the writers are never all stuck on an empty open pipe.   *)
(* (Once the writers' end is closed they can be: the one that is woken     *)
(* fails and wakes nobody.)                                                *)
WritersNeverStranded ==
    Waiting(Writers) # {} /\ Writable /\ ~writerClosed =>
        \/ size > 0
        \/ \E w \in Writers : pc[w] = "running"

(* A close of either end makes every read in progress return, and a close *)
(* of the reader's end every write.                                        *)
CloseReleases ==
    /\ \A r \in Readers :
          (writerClosed \/ readerClosed) /\ pc[r] # "idle" ~> pc[r] = "idle"
    /\ \A w \in Writers : readerClosed /\ pc[w] # "idle" ~> pc[w] = "idle"

(* A read with a deadline returns, whatever else happens or does not.      *)
TimedReadsReturn ==
    \A r \in Readers : pc[r] # "idle" /\ timed[r] ~> pc[r] = "idle"

(* While the other end is being read, as the loops of the Worker and of   *)
(* the client's query handler do, and the pipe stays open, every send      *)
(* returns, however much longer than the storage its payload is.           *)
Served == \A r \in Readers : WF_vars(Read(r))
OpenSendsReturn ==
    Served => \A w \in Writers : pc[w] # "idle" ~> pc[w] = "idle" \/ writerClosed

(* The pipe is a channel of the abstract specification.                    *)
Channel == INSTANCE ByteChannel WITH
    accepted <- sent, delivered <- received,
    closed <- writerClosed \/ readerClosed, ended <- eof
ImplementsByteChannel == Channel!Spec

=============================================================================
