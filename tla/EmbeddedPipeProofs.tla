------------------------- MODULE EmbeddedPipeProofs -------------------------
(***************************************************************************)
(* Proofs about EmbeddedPipe for every capacity, every payload and any     *)
(* number of threads.                                                      *)
(***************************************************************************)
EXTENDS EmbeddedPipe, SequenceTheorems, TLAPS

(* An index that has run at most once past the end of the storage comes    *)
(* back by one subtraction.                                                *)
LEMMA OneWrap ==
    ASSUME NEW x \in 0 .. 2 * Capacity - 1
    PROVE  x % Capacity = IF x < Capacity THEN x ELSE x - Capacity
BY CapacityAssumption

(* The slot of the k-th byte from position h of the ring. *)
LEMMA SlotOf ==
    ASSUME NEW h \in Slots, NEW k \in 0 .. Capacity - 1
    PROVE  /\ (h + k) % Capacity = IF h + k < Capacity THEN h + k ELSE h + k - Capacity
           /\ (h + k) % Capacity \in Slots
<1> DEFINE x == h + k
<1>1. x \in 0 .. 2 * Capacity - 1
  BY CapacityAssumption DEF Slots
<1> HIDE DEF x
<1>2. x % Capacity = IF x < Capacity THEN x ELSE x - Capacity
  BY <1>1, OneWrap
<1> QED BY <1>2, CapacityAssumption DEF x, Slots

(* The part of a payload that one pass copies. *)
LEMMA Cut ==
    ASSUME NEW s \in Seq(Byte), NEW a \in Nat, NEW b \in Nat, a < b, b <= Len(s)
    PROVE  /\ SubSeq(s, a + 1, b) \in Seq(Byte)
           /\ Len(SubSeq(s, a + 1, b)) = b - a
           /\ \A j \in 1 .. b - a : SubSeq(s, a + 1, b)[j] = s[a + j]
<1> DEFINE m == a + 1
<1>1. m \in Int /\ m <= b /\ b - m + 1 = b - a /\ \A j \in 1 .. b - a : m + j - 1 = a + j
  OBVIOUS
<1>2. \A i \in m .. b : s[i] \in Byte
  BY ElementOfSeq
<1> HIDE DEF m
<1>3. /\ SubSeq(s, m, b) \in Seq(Byte)
      /\ Len(SubSeq(s, m, b)) = b - m + 1
      /\ \A j \in 1 .. b - m + 1 : SubSeq(s, m, b)[j] = s[m + j - 1]
  BY <1>1, <1>2, SubSeqProperties
<1>4. \A j \in 1 .. b - a : SubSeq(s, m, b)[j] = s[a + j]
  BY <1>1, <1>3
<1> QED BY <1>1, <1>3, <1>4 DEF m

(* What is appended to a stream follows what was there. *)
LEMMA AppendFacts ==
    ASSUME NEW s \in Seq(Byte), NEW t \in Seq(Byte)
    PROVE  /\ s \o t \in Seq(Byte)
           /\ Len(s \o t) = Len(s) + Len(t)
           /\ \A k \in 1 .. Len(s) : (s \o t)[k] = s[k]
           /\ \A j \in 1 .. Len(t) : (s \o t)[Len(s) + j] = t[j]
<1>1. Len(s) \in Nat /\ Len(t) \in Nat
  OBVIOUS
<1>2. /\ s \o t \in Seq(Byte)
      /\ Len(s \o t) = Len(s) + Len(t)
      /\ \A i \in 1 .. Len(s) + Len(t) : (s \o t)[i] =
            IF i <= Len(s) THEN s[i] ELSE t[i - Len(s)]
  BY ConcatProperties
<1>3. ASSUME NEW j \in 1 .. Len(t) PROVE (s \o t)[Len(s) + j] = t[j]
  <2>1. /\ Len(s) + j \in 1 .. Len(s) + Len(t) /\ ~(Len(s) + j <= Len(s))
        /\ (Len(s) + j) - Len(s) = j
    BY <1>1
  <2> QED BY <2>1, <1>2
<1> QED BY <1>1, <1>2, <1>3

(* One pass of writePipe's loop copies at least one byte, into free space, *)
(* without crossing the end of the storage, and no more than the payload.  *)
LEMMA WriteCountFacts ==
    ASSUME TypeOK, NEW w \in Writers, pc[w] = "running", size < Capacity
    PROVE  /\ TailSlot \in Slots
           /\ TailSlot = IF head + size < Capacity
                         THEN head + size ELSE head + size - Capacity
           /\ WriteCount(w) \in Nat \ {0}
           /\ WriteCount(w) <= Capacity - size
           /\ TailSlot + WriteCount(w) <= Capacity
           /\ written[w] + WriteCount(w) <= Len(source[w])
           /\ written[w] \in Nat
           /\ source[w] \in Seq(Byte)
           /\ Len(source[w]) \in Nat
           /\ written[w] + WriteCount(w) \in Nat
<1>1. /\ head \in Slots /\ size \in 0 .. Capacity
      /\ written[w] \in Nat /\ source[w] \in Seq(Byte)
      /\ written[w] < Len(source[w]) /\ Len(source[w]) \in Nat
  BY DEF TypeOK
<1>2. /\ TailSlot \in Slots
      /\ TailSlot = IF head + size < Capacity
                    THEN head + size ELSE head + size - Capacity
  <2>1. head + size \in 0 .. 2 * Capacity - 1
    BY <1>1, CapacityAssumption DEF Slots
  <2>2. TailSlot = IF head + size < Capacity
                   THEN head + size ELSE head + size - Capacity
    <3> DEFINE x == head + size
    <3>1. x \in 0 .. 2 * Capacity - 1
      BY <2>1
    <3> HIDE DEF x
    <3>2. x % Capacity = IF x < Capacity THEN x ELSE x - Capacity
      BY <3>1, OneWrap
    <3> QED BY <3>2, <1>1, CapacityAssumption DEF TailSlot, x, Slots
  <2> QED BY <2>2, <1>1, CapacityAssumption DEF Slots
<1> QED
  BY <1>1, <1>2, CapacityAssumption DEF WriteCount, Smaller, Slots

(* A read copies at least one byte, at most what the ring holds, without   *)
(* crossing the end of the storage.                                        *)
LEMMA ReadCountFacts ==
    ASSUME TypeOK, NEW r \in Readers, pc[r] \in {"running", "expired"}, size # 0
    PROVE  /\ ReadCount(r) \in Nat \ {0}
           /\ ReadCount(r) <= size
           /\ head + ReadCount(r) <= Capacity
           /\ head \in Slots
           /\ size \in 0 .. Capacity
<1>1. /\ head \in Slots /\ size \in 0 .. Capacity
      /\ length[r] \in Nat /\ length[r] # 0
  BY DEF TypeOK
<1> QED BY <1>1, CapacityAssumption DEF ReadCount, Smaller, Slots

(* notify_one moves the caller where it goes and at most one sleeper,      *)
(* which it wakes.                                                         *)
LEMMA NotifyOneFacts ==
    ASSUME TypeOK, NEW t \in Threads, NEW where \in Where, NEW T \in SUBSET Threads,
           pc[t] # "waiting", MoveAndNotifyOne(t, where, T)
    PROVE  /\ pc' \in [Threads -> Where]
           /\ pc'[t] = where
           /\ \A u \in Threads \ {t} :
                  pc'[u] = pc[u] \/ (pc[u] = "waiting" /\ pc'[u] = "running")
<1>1. pc \in [Threads -> Where]
  BY DEF TypeOK
<1>2. CASE pc' = [pc EXCEPT ![t] = where]
  BY <1>1, <1>2
<1>3. ASSUME NEW u \in Waiting(T), pc' = [pc EXCEPT ![t] = where, ![u] = "running"]
      PROVE  /\ pc' \in [Threads -> Where]
             /\ pc'[t] = where
             /\ \A v \in Threads \ {t} :
                  pc'[v] = pc[v] \/ (pc[v] = "waiting" /\ pc'[v] = "running")
  BY <1>1, <1>3 DEF Waiting, Where
<1> QED BY <1>2, <1>3 DEF MoveAndNotifyOne

(* notify_all wakes the sleepers and moves nobody else. *)
LEMMA NotifyAllFacts ==
    ASSUME TypeOK, NotifyAll
    PROVE  /\ pc' \in [Threads -> Where]
           /\ \A u \in Threads :
                  pc'[u] = pc[u] \/ (pc[u] = "waiting" /\ pc'[u] = "running")
BY DEF TypeOK, NotifyAll, Where

-----------------------------------------------------------------------------

LEMMA TypeInit == Init => TypeOK
<1> SUFFICES ASSUME Init PROVE TypeOK
  OBVIOUS
<1>1. /\ storage \in [Slots -> Byte] /\ head \in Slots /\ size \in 0 .. Capacity
      /\ highWater \in 0 .. Capacity /\ transferred \in Nat
  BY CapacityAssumption, ByteAssumption DEF Init, Slots
<1>2. pc \in [Threads -> Where] /\ \A t \in Threads : pc[t] = "idle"
  BY DEF Init, Where
<1>3. source \in [Writers -> Seq(Byte)] /\ sent \in Seq(Byte) /\ received \in Seq(Byte)
  BY EmptySeq DEF Init
<1>4. /\ written \in [Writers -> Nat] /\ length \in [Readers -> Nat]
      /\ timed \in [Readers -> BOOLEAN] /\ result \in [Threads -> {-2, -1} \cup Nat]
  BY DEF Init, NoResult
<1>5. writerClosed \in BOOLEAN /\ readerClosed \in BOOLEAN /\ eof \in BOOLEAN
  BY DEF Init
<1> QED BY <1>1, <1>2, <1>3, <1>4, <1>5 DEF TypeOK, Threads

LEMMA TypeNext == TypeOK /\ [Next]_vars => TypeOK'
<1> SUFFICES ASSUME TypeOK, [Next]_vars PROVE TypeOK'
  OBVIOUS
<1> USE CapacityAssumption, ThreadAssumption
<1>1. ASSUME NEW w \in Writers, Send(w) PROVE TypeOK'
  <2>1. PICK payload \in Payloads : source' = [source EXCEPT ![w] = payload]
    BY <1>1 DEF Send
  <2>2. payload \in Seq(Byte) /\ Len(payload) \in Nat /\ Len(payload) > 0
    BY PayloadAssumption, EmptySeq
  <2> QED
    BY <1>1, <2>1, <2>2
       DEF TypeOK, Send, ring, ends, stats, hist, Threads, Where, NoResult
<1>2. ASSUME NEW w \in Writers, WriteWait(w) PROVE TypeOK'
  BY <1>2 DEF TypeOK, WriteWait, ring, ends, stats, calls, hist, Threads, Where
<1>3. ASSUME NEW w \in Writers, WriteFail(w) PROVE TypeOK'
  BY <1>3 DEF TypeOK, WriteFail, ring, ends, stats, calls, hist, Threads, Where
<1>4. ASSUME NEW w \in Writers, WriteChunk(w) PROVE TypeOK'
  <2> DEFINE n == WriteCount(w)
             done == written[w] + n
  <2>1. pc[w] = "running" /\ size < Capacity
    BY <1>4 DEF WriteChunk, Writable, Closed
  <2>2. /\ TailSlot \in Slots /\ n \in Nat \ {0} /\ n <= Capacity - size
        /\ TailSlot + n <= Capacity /\ done \in Nat /\ done <= Len(source[w])
        /\ written[w] \in Nat /\ source[w] \in Seq(Byte) /\ Len(source[w]) \in Nat
    BY <2>1, WriteCountFacts
  <2> HIDE DEF n
  <2>3. storage' \in [Slots -> Byte]
    <3>1. \A i \in Slots : i \in TailSlot .. TailSlot + n - 1 =>
              written[w] + 1 + i - TailSlot \in 1 .. Len(source[w])
      BY <2>2 DEF Slots
    <3>2. storage' = [i \in Slots |->
                        IF i \in TailSlot .. TailSlot + n - 1
                        THEN source[w][written[w] + 1 + i - TailSlot]
                        ELSE storage[i]]
      BY <1>4 DEF WriteChunk, Stored, n
    <3>3. \A i \in 1 .. Len(source[w]) : source[w][i] \in Byte
      BY <2>2, ElementOfSeq
    <3> QED BY <3>1, <3>2, <3>3 DEF TypeOK
  <2>4. sent' \in Seq(Byte)
    <3>1. SubSeq(source[w], written[w] + 1, done) \in Seq(Byte)
      BY <2>2, SubSeqProperties
    <3> QED BY <1>4, <3>1, ConcatProperties DEF WriteChunk, TypeOK, n
  <2>5. /\ size' = size + n /\ transferred' = transferred + n
        /\ highWater' = HighWater(n)
        /\ written' = [written EXCEPT ![w] = done]
        /\ UNCHANGED <<head, ends, source, length, timed, received, eof>>
    BY <1>4 DEF WriteChunk, n
  <2>8. /\ size' \in 0 .. Capacity /\ transferred' \in Nat /\ highWater' \in 0 .. Capacity
    BY <2>2, <2>5 DEF TypeOK, HighWater, Larger
  <2>9. /\ written' \in [Writers -> Nat] /\ written'[w] = done
        /\ \A v \in Writers \ {w} : written'[v] = written[v]
    BY <2>2, <2>5 DEF TypeOK
  <2>10. /\ source' = source /\ length' = length /\ timed' = timed /\ eof' = eof
         /\ received' = received /\ head' = head
         /\ writerClosed' = writerClosed /\ readerClosed' = readerClosed
    BY <2>5 DEF ends
  <2> HIDE DEF done
  <2>6. CASE done < Len(source[w])
    <3>1. MoveAndNotifyOne(w, "running", Readers) /\ result' = result
      BY <1>4, <2>6 DEF WriteChunk, n, done
    <3>2. /\ pc' \in [Threads -> Where] /\ pc'[w] = "running"
          /\ \A u \in Threads \ {w} :
                pc'[u] = pc[u] \/ (pc[u] = "waiting" /\ pc'[u] = "running")
      BY <3>1, <2>1, NotifyOneFacts DEF Threads, Where
    <3>3. \A v \in Writers : pc'[v] # "idle" => written'[v] < Len(source'[v])
      BY <2>2, <2>9, <2>10, <2>6, <3>2 DEF TypeOK, Threads
    <3>4. \A r \in Readers : pc'[r] # "idle" => length'[r] # 0
      BY <2>10, <3>2 DEF TypeOK, Threads
    <3>5. result' \in [Threads -> {-2, -1} \cup Nat]
      BY <2>2, <3>1 DEF TypeOK
    <3> QED
      BY <2>3, <2>4, <2>8, <2>9, <2>10, <3>2, <3>3, <3>4, <3>5 DEF TypeOK, Slots
  <2>7. CASE ~(done < Len(source[w]))
    <3>1. MoveAndNotifyOne(w, "idle", Readers) /\ result' = [result EXCEPT ![w] = done]
      BY <1>4, <2>7 DEF WriteChunk, n, done
    <3>2. /\ pc' \in [Threads -> Where] /\ pc'[w] = "idle"
          /\ \A u \in Threads \ {w} :
                pc'[u] = pc[u] \/ (pc[u] = "waiting" /\ pc'[u] = "running")
      BY <3>1, <2>1, NotifyOneFacts DEF Threads, Where
    <3>3. \A v \in Writers : pc'[v] # "idle" => written'[v] < Len(source'[v])
      BY <2>2, <2>9, <2>10, <2>7, <3>2 DEF TypeOK, Threads
    <3>4. \A r \in Readers : pc'[r] # "idle" => length'[r] # 0
      BY <2>10, <3>2 DEF TypeOK, Threads
    <3>5. result' \in [Threads -> {-2, -1} \cup Nat]
      BY <2>2, <3>1 DEF TypeOK
    <3> QED
      BY <2>3, <2>4, <2>8, <2>9, <2>10, <3>2, <3>3, <3>4, <3>5 DEF TypeOK, Slots
  <2> QED BY <2>6, <2>7
<1>5. ASSUME NEW r \in Readers, Read(r) PROVE TypeOK'
  BY <1>5, LengthAssumption
     DEF TypeOK, Read, ring, ends, stats, hist, Threads, Where, NoResult
<1>6. ASSUME NEW r \in Readers, ReadWait(r) PROVE TypeOK'
  BY <1>6 DEF TypeOK, ReadWait, ring, ends, stats, calls, hist, Threads, Where
<1>7. ASSUME NEW r \in Readers, Expire(r) PROVE TypeOK'
  BY <1>7 DEF TypeOK, Expire, ring, ends, stats, calls, hist, Threads, Where
<1>8. ASSUME NEW r \in Readers, ReadTimedOut(r) PROVE TypeOK'
  BY <1>8 DEF TypeOK, ReadTimedOut, ring, ends, stats, calls, hist, Threads, Where
<1>9. ASSUME NEW r \in Readers, ReadEof(r) PROVE TypeOK'
  BY <1>9 DEF TypeOK, ReadEof, ring, ends, stats, calls, hist, Threads, Where
<1>10. ASSUME NEW r \in Readers, ReadChunk(r) PROVE TypeOK'
  <2> DEFINE n == ReadCount(r)
             bytes == [k \in 1 .. n |-> storage[head + k - 1]]
  <2>1. pc[r] \in {"running", "expired"} /\ size # 0
    BY <1>10 DEF ReadChunk
  <2>2. /\ n \in Nat \ {0} /\ n <= size /\ head + n <= Capacity
        /\ head \in Slots /\ size \in 0 .. Capacity
    BY <2>1, ReadCountFacts
  <2> HIDE DEF n
  <2>3. bytes \in Seq(Byte)
    <3>1. \A k \in 1 .. n : storage[head + k - 1] \in Byte
      BY <2>2 DEF TypeOK, Slots
    <3> QED BY <3>1, <2>2, IsASeq
  <2>4. received' \in Seq(Byte)
    BY <1>10, <2>3, ConcatProperties DEF ReadChunk, TypeOK, n
  <2>5. /\ pc' \in [Threads -> Where] /\ pc'[r] = "idle"
        /\ \A u \in Threads \ {r} :
              pc'[u] = pc[u] \/ (pc[u] = "waiting" /\ pc'[u] = "running")
    BY <1>10, <2>1, NotifyOneFacts DEF ReadChunk, Threads, Where
  <2>6. head' \in Slots /\ size' \in 0 .. Capacity
    BY <1>10, <2>2 DEF ReadChunk, Slots, n
  <2>7. result' = [result EXCEPT ![r] = n]
        /\ UNCHANGED <<storage, ends, stats, calls, sent, eof>>
    BY <1>10 DEF ReadChunk, n
  <2> QED
    BY <2>2, <2>4, <2>5, <2>6, <2>7 DEF TypeOK, ends, stats, calls, Threads
<1>11. ASSUME NEW t \in Threads, Spurious(t) PROVE TypeOK'
  BY <1>11 DEF TypeOK, Spurious, ring, ends, stats, calls, hist, Threads, Where
<1>12. CASE CloseWriter
  BY <1>12, NotifyAllFacts
     DEF TypeOK, CloseWriter, ring, ends, stats, calls, hist, Threads
<1>13. CASE CloseReader
  BY <1>13, NotifyAllFacts
     DEF TypeOK, CloseReader, ring, ends, stats, calls, hist, Threads
<1>14. CASE CancelPipe
  BY <1>14, NotifyAllFacts
     DEF TypeOK, CancelPipe, ring, ends, stats, calls, hist, Threads
<1>15. CASE UNCHANGED vars
  BY <1>15 DEF TypeOK, vars, ring, ends, stats, calls, hist, Threads, Slots
<1> QED
  BY <1>1, <1>2, <1>3, <1>4, <1>5, <1>6, <1>7, <1>8, <1>9, <1>10, <1>11,
     <1>12, <1>13, <1>14, <1>15 DEF Next, WriterStep, ReaderStep

(* Every variable keeps its type; in particular no index leaves the        *)
(* storage and no call copies beyond its payload, whatever the capacity.   *)
THEOREM TypeCorrect == Spec => []TypeOK
<1>1. Init => TypeOK
  BY TypeInit
<1>2. TypeOK /\ [Next]_vars => TypeOK'
  BY TypeNext
<1> QED BY <1>1, <1>2, PTL DEF Spec

-----------------------------------------------------------------------------
(* The stream *)

(* What a chunk does to the ring and to the history: the new bytes follow  *)
(* the old ones in both, and the old ones stay where they are.             *)
LEMMA ChunkEffect ==
    ASSUME TypeOK, StreamIntact, NEW w \in Writers, WriteChunk(w)
    PROVE  StreamIntact'
<1> USE CapacityAssumption
<1> DEFINE n == WriteCount(w)
           done == written[w] + n
           chunk == SubSeq(source[w], written[w] + 1, done)
<1>1. pc[w] = "running" /\ size < Capacity
  BY DEF WriteChunk, Writable, Closed
<1>2. /\ TailSlot \in Slots /\ n \in Nat \ {0} /\ n <= Capacity - size
      /\ TailSlot = IF head + size < Capacity
                    THEN head + size ELSE head + size - Capacity
      /\ TailSlot + n <= Capacity /\ done \in Nat /\ done <= Len(source[w])
      /\ written[w] \in Nat /\ source[w] \in Seq(Byte) /\ Len(source[w]) \in Nat
  BY <1>1, WriteCountFacts
<1>3. /\ head' = head /\ size' = size + n /\ received' = received
      /\ sent' = sent \o chunk
      /\ storage' = [i \in Slots |->
                        IF i \in TailSlot .. TailSlot + n - 1
                        THEN source[w][written[w] + 1 + i - TailSlot]
                        ELSE storage[i]]
  BY DEF WriteChunk, Stored
<1> HIDE DEF n
<1>4. /\ chunk \in Seq(Byte) /\ Len(chunk) = n
      /\ \A j \in 1 .. n : chunk[j] = source[w][written[w] + j]
  <2>1. done - written[w] = n /\ written[w] < done
    BY <1>2
  <2>2. done \in Nat /\ done <= Len(source[w]) /\ written[w] \in Nat
        /\ source[w] \in Seq(Byte)
    BY <1>2
  <2> HIDE DEF done
  <2>3. /\ chunk \in Seq(Byte) /\ Len(chunk) = done - written[w]
        /\ \A j \in 1 .. done - written[w] : chunk[j] = source[w][written[w] + j]
    BY <2>1, <2>2, Cut
  <2> QED BY <2>1, <2>3
<1> HIDE DEF chunk
<1>5. /\ sent' \in Seq(Byte) /\ Len(sent') = Len(sent) + n /\ Len(sent) \in Nat
      /\ \A k \in 1 .. Len(sent) : sent'[k] = sent[k]
      /\ \A j \in 1 .. n : sent'[Len(sent) + j] = source[w][written[w] + j]
  <2>1. sent \in Seq(Byte) /\ Len(sent) \in Nat
    BY DEF TypeOK
  <2> QED BY <1>2, <1>3, <1>4, <2>1, AppendFacts
<1>6. /\ Len(received) \in Nat /\ size \in 0 .. Capacity /\ head \in Slots
      /\ Len(sent) = Len(received) + size
      /\ \A k \in 1 .. Len(received) : received[k] = sent[k]
      /\ \A k \in 0 .. size - 1 :
            storage[(head + k) % Capacity] = sent[Len(received) + k + 1]
  BY DEF TypeOK, StreamIntact, ReceivedIsPrefix, RingHoldsTheRest
<1>7. ReceivedIsPrefix'
  <2>1. Len(sent') = Len(received') + size'
    BY <1>2, <1>3, <1>5, <1>6
  <2>2. \A k \in 1 .. Len(received) : received[k] = sent'[k]
    BY <1>5, <1>6
  <2> QED BY <2>1, <2>2, <1>3 DEF ReceivedIsPrefix
<1>8. ASSUME NEW k \in 0 .. size + n - 1
      PROVE  storage'[(head + k) % Capacity] = sent'[Len(received) + k + 1]
  <2> DEFINE slot == (head + k) % Capacity
  <2>1. /\ slot = IF head + k < Capacity THEN head + k ELSE head + k - Capacity
        /\ slot \in Slots
    <3>1. k \in 0 .. Capacity - 1
      BY <1>2, <1>6
    <3> QED BY <3>1, <1>6, SlotOf
  <2>2. CASE k < size
    <3>1. storage[slot] = sent[Len(received) + k + 1]
      <4>1. k \in 0 .. size - 1
        BY <1>2, <1>6, <2>2
      <4> QED BY <1>6, <4>1, Zenon
    <3> HIDE DEF slot
    <3>2. slot \notin TailSlot .. TailSlot + n - 1
      BY <1>2, <1>6, <2>1, <2>2 DEF Slots
    <3>3. storage'[slot] = storage[slot]
      BY <1>3, <2>1, <3>2
    <3>4. Len(received) + k + 1 \in 1 .. Len(sent)
      BY <1>2, <1>6, <2>2
    <3> QED BY <3>1, <3>3, <3>4, <1>5 DEF slot
  <2>3. CASE k >= size
    <3> DEFINE j == k - size
    <3> HIDE DEF slot
    <3>1. j \in 0 .. n - 1 /\ slot = TailSlot + j
      BY <1>2, <1>6, <2>1, <2>3 DEF Slots
    <3>2. storage'[slot] = source[w][written[w] + (j + 1)]
      <4>1. slot \in TailSlot .. TailSlot + n - 1
        BY <1>2, <3>1 DEF Slots
      <4>2. written[w] + 1 + slot - TailSlot = written[w] + (j + 1)
        BY <1>2, <1>6, <3>1 DEF Slots
      <4> QED BY <1>3, <2>1, <4>1, <4>2
    <3>3. Len(received) + k + 1 = Len(sent) + (j + 1) /\ j + 1 \in 1 .. n
      BY <1>2, <1>5, <1>6, <3>1
    <3> QED BY <3>2, <3>3, <1>5 DEF slot
  <2> QED BY <2>2, <2>3, <1>2, <1>6
<1>9. RingHoldsTheRest'
  <2> SUFFICES ASSUME NEW k \in 0 .. size' - 1
               PROVE  storage'[(head' + k) % Capacity] = sent'[Len(received') + k + 1]
    BY DEF RingHoldsTheRest
  <2>1. k \in 0 .. size + n - 1
    BY <1>2, <1>3, <1>6
  <2>2. storage'[(head + k) % Capacity] = sent'[Len(received) + k + 1]
    BY <2>1, <1>8
  <2> QED BY <2>2, <1>3, Zenon
<1> QED BY <1>7, <1>9 DEF StreamIntact

(* A read takes the bytes at head, which are the next ones of the stream,  *)
(* and the ring keeps the ones behind them.                                *)
LEMMA ReadEffect ==
    ASSUME TypeOK, StreamIntact, NEW r \in Readers, ReadChunk(r)
    PROVE  StreamIntact'
<1> USE CapacityAssumption
<1> DEFINE n == ReadCount(r)
           bytes == [k \in 1 .. n |-> storage[head + k - 1]]
<1>1. pc[r] \in {"running", "expired"} /\ size # 0
  BY DEF ReadChunk
<1>2. /\ n \in Nat \ {0} /\ n <= size /\ head + n <= Capacity
      /\ head \in Slots /\ size \in 0 .. Capacity
  BY <1>1, ReadCountFacts
<1>3. /\ head' = (head + n) % Capacity /\ size' = size - n
      /\ received' = received \o bytes
      /\ storage' = storage /\ sent' = sent
  BY DEF ReadChunk
<1> HIDE DEF n
<1>4. /\ Len(received) \in Nat /\ received \in Seq(Byte)
      /\ Len(sent) = Len(received) + size
      /\ \A k \in 1 .. Len(received) : received[k] = sent[k]
      /\ \A k \in 0 .. size - 1 :
            storage[(head + k) % Capacity] = sent[Len(received) + k + 1]
  BY DEF TypeOK, StreamIntact, ReceivedIsPrefix, RingHoldsTheRest
<1>5. bytes \in Seq(Byte) /\ Len(bytes) = n
  <2>1. \A k \in 1 .. n : storage[head + k - 1] \in Byte
    BY <1>2 DEF TypeOK, Slots
  <2> QED BY <2>1, <1>2, IsASeq
<1>6. \A k \in 1 .. n : bytes[k] = sent[Len(received) + k]
  <2> SUFFICES ASSUME NEW k \in 1 .. n
               PROVE  storage[head + k - 1] = sent[Len(received) + k]
    OBVIOUS
  <2>1. k - 1 \in 0 .. size - 1 /\ k - 1 \in 0 .. Capacity - 1
    BY <1>2
  <2>2. (head + (k - 1)) % Capacity = head + k - 1
    <3>1. (head + (k - 1)) % Capacity =
            IF head + (k - 1) < Capacity
            THEN head + (k - 1) ELSE head + (k - 1) - Capacity
      BY <2>1, <1>2, SlotOf
    <3> QED BY <3>1, <1>2 DEF Slots
  <2>3. storage[(head + (k - 1)) % Capacity] = sent[Len(received) + (k - 1) + 1]
    BY <2>1, <1>4
  <2> QED BY <2>2, <2>3, <1>4
<1> HIDE DEF bytes
<1>7. ReceivedIsPrefix'
  <2>1. /\ Len(received') = Len(received) + n
        /\ \A k \in 1 .. Len(received) + n : received'[k] =
              IF k <= Len(received) THEN received[k] ELSE bytes[k - Len(received)]
    BY <1>3, <1>4, <1>5, ConcatProperties
  <2>2. \A k \in 1 .. Len(received) + n : received'[k] = sent[k]
    BY <2>1, <1>2, <1>4, <1>6
  <2> QED BY <2>1, <2>2, <1>2, <1>3, <1>4 DEF ReceivedIsPrefix
<1>8. ASSUME NEW k \in 0 .. size - n - 1
      PROVE  storage[(head' + k) % Capacity] = sent[Len(received) + n + k + 1]
  <2>1. n + k \in 0 .. size - 1 /\ n + k \in 0 .. Capacity - 1 /\ k \in 0 .. Capacity - 1
    BY <1>2
  <2>2. n \in 0 .. Capacity /\ head + n \in 0 .. 2 * Capacity - 1
    BY <1>2 DEF Slots
  <2>3. head' = IF head + n < Capacity THEN head + n ELSE head + n - Capacity
    <3> DEFINE x == head + n
    <3>1. x \in 0 .. 2 * Capacity - 1 /\ head' = x % Capacity
      BY <2>2, <1>3
    <3> HIDE DEF x
    <3>2. head' = IF x < Capacity THEN x ELSE x - Capacity
      BY <3>1, OneWrap
    <3> QED BY <3>2, <1>2 DEF x, Slots
  <2>4. head' \in Slots
    BY <2>3, <1>2 DEF Slots
  <2>5. (head' + k) % Capacity =
            IF head' + k < Capacity THEN head' + k ELSE head' + k - Capacity
    BY <2>1, <2>4, SlotOf
  <2>6. (head + (n + k)) % Capacity =
            IF head + (n + k) < Capacity
            THEN head + (n + k) ELSE head + (n + k) - Capacity
    BY <2>1, <1>2, SlotOf
  <2>7. (head' + k) % Capacity = (head + (n + k)) % Capacity
    BY <2>1, <2>3, <2>5, <2>6, <1>2 DEF Slots
  <2>8. storage[(head + (n + k)) % Capacity] = sent[Len(received) + (n + k) + 1]
    BY <2>1, <1>4
  <2> QED BY <2>7, <2>8, <1>2, <1>4
<1>9. RingHoldsTheRest'
  <2>1. Len(received') = Len(received) + n
    BY <1>3, <1>4, <1>5, ConcatProperties
  <2> QED BY <2>1, <1>3, <1>8 DEF RingHoldsTheRest
<1> QED BY <1>7, <1>9 DEF StreamIntact

(* The two steps that move bytes keep the stream intact, and no other step *)
(* touches it.                                                             *)
LEMMA StreamNext == TypeOK /\ StreamIntact /\ [Next]_vars => StreamIntact'
<1> SUFFICES ASSUME TypeOK, StreamIntact, [Next]_vars PROVE StreamIntact'
  OBVIOUS
<1>1. CASE \E w \in Writers : WriteChunk(w)
  BY <1>1, ChunkEffect
<1>2. CASE \E r \in Readers : ReadChunk(r)
  BY <1>2, ReadEffect
<1>3. CASE UNCHANGED <<ring, sent, received>>
  BY <1>3 DEF ring, StreamIntact, ReceivedIsPrefix, RingHoldsTheRest
<1> QED
  BY <1>1, <1>2, <1>3
     DEF Next, vars, ring, hist, WriterStep, ReaderStep, Send, WriteWait,
         WriteFail, Read, ReadWait, Expire, ReadTimedOut, ReadEof, Spurious,
         CloseWriter, CloseReader, CancelPipe

(* No byte is lost, duplicated, reordered or corrupted between the writers *)
(* and the readers of a pipe, for any capacity, payloads and threads.      *)
THEOREM StreamIsIntact == Spec => []StreamIntact
<1>1. Init => StreamIntact
  BY CapacityAssumption, EmptySeq
     DEF Init, StreamIntact, ReceivedIsPrefix, RingHoldsTheRest
<1>2. TypeOK /\ StreamIntact /\ [Next]_vars => StreamIntact'
  BY StreamNext
<1> QED BY <1>1, <1>2, TypeCorrect, PTL DEF Spec

-----------------------------------------------------------------------------
(* The end of the stream *)

(* When the ring is empty the readers have everything. *)
LEMMA EmptyMeansDrained ==
    ASSUME TypeOK, StreamIntact, size = 0
    PROVE  received = sent
BY SeqEqual DEF TypeOK, StreamIntact, ReceivedIsPrefix

(* After a read has returned 0 neither a write nor a read moves a byte:    *)
(* the writes fail on the flag and the reads find the ring empty.          *)
LEMMA EofStep ==
    ASSUME TypeOK, StreamIntact, EofMeansDrained, [Next]_vars
    PROVE  EofMeansDrained' /\ (eof => UNCHANGED <<sent, received>>)
<1>1. ASSUME NEW w \in Writers, WriteChunk(w)
      PROVE  EofMeansDrained' /\ (eof => UNCHANGED <<sent, received>>)
  BY <1>1 DEF WriteChunk, Closed, EofMeansDrained
<1>2. ASSUME NEW r \in Readers, ReadChunk(r)
      PROVE  EofMeansDrained' /\ (eof => UNCHANGED <<sent, received>>)
  <2>1. received # sent
    <3>1. Len(sent) = Len(received) + size /\ Len(received) \in Nat
      BY DEF StreamIntact, ReceivedIsPrefix, TypeOK
    <3>2. size \in Nat \ {0}
      BY <1>2 DEF ReadChunk, TypeOK
    <3> QED BY <3>1, <3>2
  <2> QED BY <1>2, <2>1 DEF ReadChunk, EofMeansDrained
<1>3. ASSUME NEW r \in Readers, ReadEof(r)
      PROVE  EofMeansDrained' /\ (eof => UNCHANGED <<sent, received>>)
  BY <1>3, EmptyMeansDrained DEF ReadEof, Readable, EofMeansDrained, ends
<1>4. CASE /\ UNCHANGED hist
           /\ writerClosed => writerClosed'
           /\ readerClosed => readerClosed'
  BY <1>4 DEF hist, EofMeansDrained
<1> QED
  BY <1>1, <1>2, <1>3, <1>4
     DEF Next, vars, ends, hist, WriterStep, ReaderStep, Send, WriteWait,
         WriteFail, Read, ReadWait, Expire, ReadTimedOut, Spurious,
         CloseWriter, CloseReader, CancelPipe

(* A read that returns 0 is a reliable end of the stream: an end is closed *)
(* and the readers have every byte that was accepted.                      *)
THEOREM EofIsReliable == Spec => []EofMeansDrained
<1>1. Init => EofMeansDrained
  BY DEF Init, EofMeansDrained
<1>2. TypeOK /\ StreamIntact /\ EofMeansDrained /\ [Next]_vars => EofMeansDrained'
  BY EofStep
<1> QED BY <1>1, <1>2, TypeCorrect, StreamIsIntact, PTL DEF Spec

(* And it stays the end: no byte passes the pipe after it. *)
THEOREM EofIsFinal == Spec => NothingAfterEof
<1>1. TypeOK /\ StreamIntact /\ EofMeansDrained /\ [Next]_vars
        => [eof => UNCHANGED <<sent, received>>]_vars
  BY EofStep
<1> QED BY <1>1, TypeCorrect, StreamIsIntact, EofIsReliable, PTL DEF Spec, NothingAfterEof

-----------------------------------------------------------------------------
(* Wake-ups *)

(* The sleepers among T are no more than before, unless a member of T goes *)
(* to sleep; notify_one leaves none if T has one member only.              *)
LEMMA WakeOne ==
    ASSUME TypeOK, NEW t \in Threads, NEW where \in {"idle", "running"},
           NEW T \in SUBSET Threads,
           pc[t] # "waiting", MoveAndNotifyOne(t, where, T)
    PROVE  /\ \A u \in Threads : pc'[u] = "waiting" => pc[u] = "waiting"
           /\ \A u \in Waiting(T) :
                 (\A v \in T : v = u) => pc'[u] = "running"
           /\ Waiting(T) # {} => \E u \in T : pc[u] = "waiting" /\ pc'[u] = "running"
<1>1. /\ pc' \in [Threads -> Where]
      /\ pc'[t] = where
      /\ \A u \in Threads \ {t} :
             pc'[u] = pc[u] \/ (pc[u] = "waiting" /\ pc'[u] = "running")
  BY NotifyOneFacts DEF Where
<1>2. \A u \in Threads : pc'[u] = "waiting" => pc[u] = "waiting"
  BY <1>1
<1>3. ASSUME Waiting(T) # {}
      PROVE  \E u \in T : pc[u] = "waiting" /\ pc'[u] = "running"
  <2>1. PICK u \in Waiting(T) : pc' = [pc EXCEPT ![t] = where, ![u] = "running"]
    BY <1>3 DEF MoveAndNotifyOne
  <2>2. u \in T /\ u \in Threads /\ pc[u] = "waiting" /\ u # t
    BY <2>1 DEF Waiting
  <2>3. pc'[u] = "running"
    BY <2>1, <2>2 DEF TypeOK
  <2> QED BY <2>2, <2>3
<1>4. ASSUME NEW u \in Waiting(T), \A v \in T : v = u
      PROVE  pc'[u] = "running"
  BY <1>3, <1>4
<1> QED BY <1>2, <1>3, <1>4

(* What the steps that move no byte and close no end do to the sleepers:   *)
(* one may join them, if its predicate does not hold.                      *)
LEMMA OtherSteps ==
    ASSUME TypeOK, [Next]_vars,
           ~\E w \in Writers : WriteChunk(w),
           ~\E r \in Readers : ReadChunk(r)
    PROVE  /\ UNCHANGED ring
           /\ \/ UNCHANGED ends
              \/ Waiting(Threads)' = {}
           /\ \A w \in Writers :
                 pc'[w] = "waiting" => pc[w] = "waiting" \/ ~Writable
           /\ \A r \in Readers :
                 pc'[r] = "waiting" => pc[r] = "waiting" \/ ~Readable
<1> USE ThreadAssumption DEF Threads
<1>1. CASE CloseWriter \/ CloseReader \/ CancelPipe
  <2>1. \A t \in Threads : pc'[t] # "waiting"
    BY <1>1 DEF CloseWriter, CloseReader, CancelPipe, NotifyAll
  <2> QED BY <1>1, <2>1 DEF CloseWriter, CloseReader, CancelPipe, Waiting
<1>2. ASSUME NEW w \in Writers, Send(w) \/ WriteFail(w)
      PROVE  UNCHANGED <<ring, ends>> /\
             \A t \in Threads : pc'[t] = "waiting" => pc[t] = "waiting"
  BY <1>2 DEF TypeOK, Send, WriteFail
<1>3. ASSUME NEW w \in Writers, WriteWait(w)
      PROVE  UNCHANGED <<ring, ends>> /\ ~Writable /\
             \A t \in Threads \ {w} : pc'[t] = "waiting" => pc[t] = "waiting"
  BY <1>3 DEF TypeOK, WriteWait
<1>4. ASSUME NEW r \in Readers,
             Read(r) \/ Expire(r) \/ ReadTimedOut(r) \/ ReadEof(r)
      PROVE  UNCHANGED <<ring, ends>> /\
             \A t \in Threads : pc'[t] = "waiting" => pc[t] = "waiting"
  BY <1>4 DEF TypeOK, Read, Expire, ReadTimedOut, ReadEof
<1>5. ASSUME NEW r \in Readers, ReadWait(r)
      PROVE  UNCHANGED <<ring, ends>> /\ ~Readable /\
             \A t \in Threads \ {r} : pc'[t] = "waiting" => pc[t] = "waiting"
  BY <1>5 DEF TypeOK, ReadWait
<1>6. ASSUME NEW t \in Threads, Spurious(t)
      PROVE  UNCHANGED <<ring, ends>> /\
             \A u \in Threads : pc'[u] = "waiting" => pc[u] = "waiting"
  BY <1>6 DEF TypeOK, Spurious
<1>7. CASE UNCHANGED vars
  BY <1>7 DEF vars, ring, ends
<1> QED
  BY <1>1, <1>2, <1>3, <1>4, <1>5, <1>6, <1>7 DEF Next, WriterStep, ReaderStep

(* Only a read makes room, and it wakes the one writer; the writer that    *)
(* adds bytes is awake itself.                                             *)
LEMMA WritersAwakeNext ==
    ASSUME OneWriter, TypeOK, WritersAwake, [Next]_vars
    PROVE  WritersAwake'
<1> USE ThreadAssumption DEF Threads
<1>1. ASSUME NEW w \in Writers, WriteChunk(w) PROVE WritersAwake'
  <2>1. /\ pc[w] = "running" /\ \E where \in {"idle", "running"} :
              MoveAndNotifyOne(w, where, Readers)
    BY <1>1 DEF WriteChunk
  <2>2. w \in Threads /\ Readers \in SUBSET Threads
    OBVIOUS
  <2>3. \A u \in Threads : pc'[u] = "waiting" => pc[u] = "waiting"
    BY <2>1, <2>2, WakeOne
  <2> QED BY <2>1, <2>3 DEF OneWriter, WritersAwake, Waiting
<1>2. ASSUME NEW r \in Readers, ReadChunk(r) PROVE WritersAwake'
  <2>1. pc[r] \in {"running", "expired"} /\ MoveAndNotifyOne(r, "idle", Writers)
    BY <1>2 DEF ReadChunk
  <2>2. \A w \in Writers : pc'[w] # "waiting"
    BY <2>1, WakeOne DEF OneWriter, Waiting
  <2> QED BY <2>2 DEF WritersAwake, Waiting
<1>3. CASE /\ ~\E w \in Writers : WriteChunk(w)
           /\ ~\E r \in Readers : ReadChunk(r)
  BY <1>3, OtherSteps
     DEF WritersAwake, Waiting, Writable, Readable, ring, ends
<1> QED BY <1>1, <1>2, <1>3

(* Only a write adds bytes, and it wakes the one reader; the reader that   *)
(* takes some is awake itself.                                             *)
LEMMA ReadersAwakeNext ==
    ASSUME OneReader, TypeOK, ReadersAwake, [Next]_vars
    PROVE  ReadersAwake'
<1> USE ThreadAssumption DEF Threads
<1>1. ASSUME NEW w \in Writers, WriteChunk(w) PROVE ReadersAwake'
  <2>1. /\ pc[w] = "running" /\ \E where \in {"idle", "running"} :
              MoveAndNotifyOne(w, where, Readers)
    BY <1>1 DEF WriteChunk
  <2>2. \A r \in Readers : pc'[r] # "waiting"
    BY <2>1, WakeOne DEF OneReader, Waiting
  <2> QED BY <2>2 DEF ReadersAwake, Waiting
<1>2. ASSUME NEW r \in Readers, ReadChunk(r) PROVE ReadersAwake'
  <2>1. pc[r] \in {"running", "expired"} /\ MoveAndNotifyOne(r, "idle", Writers)
    BY <1>2 DEF ReadChunk
  <2>2. r \in Threads /\ Writers \in SUBSET Threads
    OBVIOUS
  <2>3. \A u \in Threads : pc'[u] = "waiting" => pc[u] = "waiting"
    BY <2>1, <2>2, WakeOne
  <2> QED BY <2>1, <2>3 DEF OneReader, ReadersAwake, Waiting
<1>3. CASE /\ ~\E w \in Writers : WriteChunk(w)
           /\ ~\E r \in Readers : ReadChunk(r)
  BY <1>3, OtherSteps
     DEF ReadersAwake, Waiting, Writable, Readable, ring, ends
<1> QED BY <1>1, <1>2, <1>3

(* A thread that is alone at its end, as both are where Tracy uses a pipe, *)
(* never sleeps on a predicate that holds, so a sleeping call never        *)
(* depends on a further notification to notice what has happened.          *)
THEOREM NoWakeupIsLost == Spec => []NoLostWakeup
<1>1. Init => NoLostWakeup
  BY DEF Init, NoLostWakeup, WritersAwake, ReadersAwake, Waiting, Threads
<1>2. TypeOK /\ NoLostWakeup /\ [Next]_vars => NoLostWakeup'
  BY WritersAwakeNext, ReadersAwakeNext DEF NoLostWakeup, OneWriter, OneReader
<1> QED BY <1>1, <1>2, TypeCorrect, PTL DEF Spec

(* Several writers: the inductive form says also that nobody sleeps on a   *)
(* pipe whose reader is gone.                                              *)
NotStranded ==
    /\ WritersNeverStranded
    /\ readerClosed => Waiting(Writers) = {}

LEMMA NotStrandedNext ==
    ASSUME TypeOK, NotStranded, [Next]_vars PROVE NotStranded'
<1> USE ThreadAssumption DEF Threads
<1>1. ASSUME NEW w \in Writers, WriteChunk(w) PROVE NotStranded'
  <2>1. size' > 0
    <3>1. size < Capacity
      BY <1>1 DEF WriteChunk, Writable, Closed
    <3>2. WriteCount(w) \in Nat \ {0} /\ size \in Nat
      BY <1>1, <3>1, WriteCountFacts DEF WriteChunk, TypeOK
    <3> QED BY <1>1, <3>2 DEF WriteChunk
  <2>2. ~readerClosed'
    BY <1>1 DEF WriteChunk, Closed, ends
  <2> QED BY <2>1, <2>2 DEF NotStranded, WritersNeverStranded
<1>2. ASSUME NEW r \in Readers, ReadChunk(r) PROVE NotStranded'
  <2>1. /\ pc[r] \in {"running", "expired"} /\ MoveAndNotifyOne(r, "idle", Writers)
        /\ UNCHANGED ends
    BY <1>2 DEF ReadChunk
  <2>2. \A u \in Threads : pc'[u] = "waiting" => pc[u] = "waiting"
    BY <2>1, WakeOne
  <2>3. Waiting(Writers) # {} => \E u \in Writers : pc'[u] = "running"
    BY <2>1, WakeOne
  <2>4. Waiting(Writers)' # {} => Waiting(Writers) # {}
    BY <2>2 DEF Waiting
  <2> QED BY <2>1, <2>3, <2>4 DEF NotStranded, WritersNeverStranded, ends
<1>3. CASE /\ ~\E w \in Writers : WriteChunk(w)
           /\ ~\E r \in Readers : ReadChunk(r)
  <2>1. CASE Waiting(Threads)' = {}
    BY <2>1 DEF NotStranded, WritersNeverStranded, Waiting
  <2>2. CASE UNCHANGED ends
    <3>1. /\ UNCHANGED ring
          /\ \A w \in Writers : pc'[w] = "waiting" => pc[w] = "waiting" \/ ~Writable
      BY <1>3, OtherSteps
    <3>2. Writable' = Writable /\ writerClosed' = writerClosed /\ readerClosed' = readerClosed
      BY <2>2, <3>1 DEF Writable, ring, ends
    <3>3. CASE \E w \in Writers : pc[w] = "running" /\ pc'[w] # "running"
                                  /\ Writable /\ ~writerClosed /\ ~readerClosed
      <4>1. PICK w \in Writers : pc[w] = "running" /\ pc'[w] # "running"
        BY <3>3
      <4> QED BY <1>3, <3>3, <4>1
              DEF Next, vars, WriterStep, ReaderStep, Send, WriteWait, WriteFail,
                  Read, ReadWait, Expire, ReadTimedOut, ReadEof, Spurious,
                  CloseWriter, CloseReader, CancelPipe, NotifyAll, TypeOK, Closed
    <3>4. CASE ~Writable
      BY <3>1, <3>2, <3>4 DEF NotStranded, WritersNeverStranded, Writable
    <3>5. CASE /\ Writable
               /\ \A w \in Writers : pc[w] = "running" /\ ~writerClosed /\ ~readerClosed
                                       => pc'[w] = "running"
      BY <3>1, <3>2, <3>5 DEF NotStranded, WritersNeverStranded, Waiting, Writable, ring
    <3> QED BY <3>3, <3>4, <3>5
  <2> QED BY <1>3, <2>1, <2>2, OtherSteps
<1> QED BY <1>1, <1>2, <1>3

(* However many writers share an open pipe, they are never all asleep on   *)
(* an empty one: that would be a deadlock no reader could resolve.         *)
THEOREM NoWriterDeadlock == Spec => []WritersNeverStranded
<1>1. Init => NotStranded
  BY DEF Init, NotStranded, WritersNeverStranded, Waiting, Threads
<1>2. TypeOK /\ NotStranded /\ [Next]_vars => NotStranded'
  BY NotStrandedNext
<1>3. NotStranded => WritersNeverStranded
  BY DEF NotStranded
<1> QED BY <1>1, <1>2, <1>3, TypeCorrect, PTL DEF Spec

-----------------------------------------------------------------------------
(* The statistics *)

LEMMA AccountingNext ==
    ASSUME TypeOK, StreamIntact, StreamIntact', TypeOK', Accounting, [Next]_vars
    PROVE  Accounting'
<1>1. ASSUME NEW w \in Writers, WriteChunk(w) PROVE Accounting'
  <2>1. size < Capacity /\ pc[w] = "running" /\ size \in 0 .. Capacity
    BY <1>1 DEF WriteChunk, Writable, Closed, TypeOK
  <2>2. WriteCount(w) \in Nat \ {0} /\ WriteCount(w) <= Capacity - size
    BY <2>1, WriteCountFacts
  <2>3. transferred' = Len(sent')
    <3>1. /\ transferred' = transferred + WriteCount(w)
          /\ size' = size + WriteCount(w) /\ received' = received
      BY <1>1 DEF WriteChunk
    <3>2. /\ transferred = Len(received) + size /\ Len(received) \in Nat
          /\ Len(sent') = Len(received') + size'
      BY DEF Accounting, StreamIntact, ReceivedIsPrefix, TypeOK
    <3> QED BY <2>1, <2>2, <3>1, <3>2
  <2>4. size' <= highWater'
    <3>1. /\ size' = size + WriteCount(w)
          /\ highWater' = Larger(highWater, size + WriteCount(w))
      BY <1>1 DEF WriteChunk, HighWater
    <3>2. highWater \in Int /\ size + WriteCount(w) \in Int
      BY <2>1, <2>2, CapacityAssumption DEF TypeOK
    <3> QED BY <3>1, <3>2 DEF Larger
  <2>5. Waiting(Writers)' # {} => highWater' = Capacity
    <3>1. Waiting(Writers)' # {} => Waiting(Writers) # {}
      <4>1. \E where \in {"idle", "running"} : MoveAndNotifyOne(w, where, Readers)
        BY <1>1 DEF WriteChunk
      <4>2. \A u \in Threads : pc'[u] = "waiting" => pc[u] = "waiting"
        BY <2>1, <4>1, WakeOne DEF Threads
      <4> QED BY <4>2 DEF Waiting, Threads
    <3>2. highWater = Capacity => highWater' = Capacity
      BY <1>1, <2>1, <2>2, CapacityAssumption DEF WriteChunk, HighWater, Larger
    <3> QED BY <3>1, <3>2 DEF Accounting
  <2> QED BY <2>3, <2>4, <2>5 DEF Accounting
<1>2. ASSUME NEW r \in Readers, ReadChunk(r) PROVE Accounting'
  <2>1. ReadCount(r) \in Nat /\ size' = size - ReadCount(r) /\ UNCHANGED <<stats, sent>>
    BY <1>2, ReadCountFacts DEF ReadChunk
  <2>2. Waiting(Writers)' # {} => Waiting(Writers) # {}
    <3>1. \A u \in Threads : pc'[u] = "waiting" => pc[u] = "waiting"
      BY <1>2, WakeOne DEF ReadChunk, Threads
    <3> QED BY <3>1 DEF Waiting, Threads
  <2> QED BY <2>1, <2>2 DEF Accounting, stats, TypeOK
<1>3. CASE /\ ~\E w \in Writers : WriteChunk(w)
           /\ ~\E r \in Readers : ReadChunk(r)
  <2>1. UNCHANGED <<size, stats, sent>>
    BY <1>3 DEF Next, vars, ring, stats, hist, WriterStep, ReaderStep, Send,
                WriteWait, WriteFail, Read, ReadWait, Expire, ReadTimedOut,
                ReadEof, Spurious, CloseWriter, CloseReader, CancelPipe
  <2>2. \A w \in Writers : pc'[w] = "waiting" => pc[w] = "waiting" \/ size = Capacity
    BY <1>3, OtherSteps, CapacityAssumption DEF Writable, TypeOK
  <2>3. Waiting(Writers)' # {} => Waiting(Writers) # {} \/ size = Capacity
    BY <2>2 DEF Waiting
  <2>4. size <= highWater /\ size \in 0 .. Capacity /\ highWater \in 0 .. Capacity
    BY DEF Accounting, TypeOK
  <2> QED BY <2>1, <2>3, <2>4 DEF Accounting, stats
<1> QED BY <1>1, <1>2, <1>3

(* The statistics a status query reports agree with the bytes that went    *)
(* through, and a writer that had to wait shows as a full high-water mark. *)
THEOREM StatisticsAreRight == Spec => []Accounting
<1>1. Init => Accounting
  BY EmptySeq DEF Init, Accounting, Waiting, Threads
<1>2. /\ TypeOK /\ StreamIntact /\ Accounting /\ [Next]_vars
      /\ TypeOK' /\ StreamIntact'
      => Accounting'
  BY AccountingNext
<1> QED BY <1>1, <1>2, TypeCorrect, StreamIsIntact, PTL DEF Spec

-----------------------------------------------------------------------------
(* The pipe implements the abstract channel *)

LEMMA ChannelStep ==
    /\ TypeOK /\ StreamIntact /\ EofMeansDrained /\ [Next]_vars
    /\ TypeOK' /\ StreamIntact'
    => [Channel!Next]_(Channel!channel)
<1> SUFFICES ASSUME TypeOK, TypeOK', StreamIntact, StreamIntact', EofMeansDrained, [Next]_vars
             PROVE  Channel!Next \/ UNCHANGED <<ends, hist>>
  BY DEF Channel!channel, ends, hist
<1> USE DEF Channel!Next
<1>1. ASSUME NEW w \in Writers, WriteChunk(w) PROVE Channel!Accept
  <2>1. SubSeq(source[w], written[w] + 1, written[w] + WriteCount(w)) \in Seq(Byte)
    <3>1. size < Capacity /\ pc[w] = "running"
      BY <1>1 DEF WriteChunk, Writable, Closed
    <3>2. /\ written[w] \in Nat /\ written[w] + WriteCount(w) \in Nat
          /\ written[w] < written[w] + WriteCount(w)
          /\ written[w] + WriteCount(w) <= Len(source[w])
          /\ source[w] \in Seq(Byte)
      BY <3>1, WriteCountFacts
    <3> DEFINE done == written[w] + WriteCount(w)
    <3> HIDE DEF done
    <3>3. SubSeq(source[w], written[w] + 1, done) \in Seq(Byte)
      BY <3>2, Cut DEF done
    <3> QED BY <3>3 DEF done
  <2>2. Channel!IsPrefixOf(sent, sent')
    BY <1>1, <2>1, AppendFacts DEF WriteChunk, TypeOK, Channel!IsPrefixOf
  <2>3. sent' \in Seq(Byte) /\ Len(sent') <= Len(received) + Capacity
    <3>1. Len(sent') = Len(received') + size' /\ size' \in 0 .. Capacity
          /\ sent' \in Seq(Byte) /\ Len(received') \in Nat
      BY DEF StreamIntact, ReceivedIsPrefix, TypeOK
    <3>2. received' = received
      BY <1>1 DEF WriteChunk
    <3> QED BY <3>1, <3>2, CapacityAssumption
  <2> QED BY <1>1, <2>2, <2>3 DEF Channel!Accept, WriteChunk, Closed, ends
<1>2. ASSUME NEW r \in Readers, ReadChunk(r) PROVE Channel!Deliver
  <2> DEFINE bytes == [k \in 1 .. ReadCount(r) |-> storage[head + k - 1]]
  <2>1. bytes \in Seq(Byte) /\ Len(bytes) \in Nat
    <3>1. /\ ReadCount(r) \in Nat /\ head + ReadCount(r) <= Capacity /\ head \in Slots
      BY <1>2, ReadCountFacts DEF ReadChunk
    <3>2. \A k \in 1 .. ReadCount(r) : storage[head + k - 1] \in Byte
      BY <3>1, CapacityAssumption DEF TypeOK, Slots
    <3> QED BY <3>1, <3>2, IsASeq
  <2>2. Channel!IsPrefixOf(received, received')
    <3>1. received' = received \o bytes /\ received \in Seq(Byte) /\ Len(received) \in Nat
      BY <1>2 DEF ReadChunk, TypeOK
    <3> HIDE DEF bytes
    <3>2. /\ Len(received') = Len(received) + Len(bytes)
          /\ \A k \in 1 .. Len(received) : received'[k] = received[k]
      BY <2>1, <3>1, AppendFacts
    <3> QED BY <2>1, <3>1, <3>2 DEF Channel!IsPrefixOf
  <2>3. Channel!IsPrefixOf(received', sent)
    <3>1. /\ Len(sent') = Len(received') + size' /\ size' \in Nat /\ Len(received') \in Nat
          /\ \A k \in 1 .. Len(received') : received'[k] = sent'[k]
      BY DEF StreamIntact, ReceivedIsPrefix, TypeOK
    <3>2. sent' = sent
      BY <1>2 DEF ReadChunk
    <3> QED BY <3>1, <3>2 DEF Channel!IsPrefixOf
  <2> QED BY <1>2, <2>2, <2>3 DEF Channel!Deliver, ReadChunk, ends, TypeOK
<1>3. ASSUME NEW r \in Readers, ReadEof(r) PROVE Channel!Announce
  BY <1>3, EmptyMeansDrained DEF ReadEof, Readable, Channel!Announce, ends
<1>4. CASE CloseWriter \/ CloseReader \/ CancelPipe
  BY <1>4 DEF CloseWriter, CloseReader, CancelPipe, hist, Channel!Close
<1>5. CASE UNCHANGED <<ends, hist>>
  BY <1>5 DEF ends, hist
<1> QED
  BY <1>1, <1>2, <1>3, <1>4, <1>5
     DEF Next, vars, ends, hist, WriterStep, ReaderStep, Send, WriteWait,
         WriteFail, Read, ReadWait, Expire, ReadTimedOut, Spurious

(* The pipe with its ring, its locks and its wake-ups is a bounded channel *)
(* that delivers in order and announces its end when all is delivered.     *)
THEOREM PipeImplementsChannel == Spec => ImplementsByteChannel
<1>1. Init => Channel!Init
  BY DEF Init, Channel!Init
<1>2. /\ TypeOK /\ StreamIntact /\ EofMeansDrained /\ [Next]_vars
      /\ TypeOK' /\ StreamIntact'
      => [Channel!Next]_(Channel!channel)
  BY ChannelStep
<1> QED
  BY <1>1, <1>2, TypeCorrect, StreamIsIntact, EofIsReliable, PTL
     DEF Spec, ImplementsByteChannel, Channel!Spec

=============================================================================
