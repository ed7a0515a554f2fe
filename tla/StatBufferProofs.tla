-------------------------- MODULE StatBufferProofs --------------------------
(***************************************************************************)
(* Proofs about StatBuffer: types, that no sample is a mixture of two, that*)
(* the ring is the log SampleLog, and that sbstat overwrites nothing.      *)
(***************************************************************************)
EXTENDS StatBuffer, SequenceTheorems, FiniteSetTheorems, TLAPS

(* A slot number is one after Advance, too.                                *)
LEMMA AdvanceIsSlot ==
  ASSUME NEW x \in Int
  PROVE  Advance(x) \in Slot
  BY BufferAssumption DEF Advance, Slot

(* scnprintf fits.                                                         *)
LEMMA PrintedFits ==
  ASSUME NEW len \in RecordLen, NEW lim \in 0 .. PAGE_SIZE, lim > PAGE_SIZE \div 2
  PROVE  lim - Printed(len, lim) \in 0 .. PAGE_SIZE
  BY BufferAssumption DEF Printed

LEMMA InitIInv == Init => IInv
<1> SUFFICES ASSUME Init PROVE IInv
  OBVIOUS
<1>1. TypeOK
  BY BufferAssumption, EmptySeq DEF Init, TypeOK, Slot, Blank, Sample
<1>2. LockInv /\ WorkInv /\ SlotsWhole /\ PagesWhole
  BY DEF Init, LockInv, WorkInv, SlotsWhole, PagesWhole, Blank, Whole
<1> QED BY <1>1, <1>2 DEF IInv

LEMMA NextType == TypeOK /\ [Next]_vars => TypeOK'
<1> SUFFICES ASSUME TypeOK, [Next]_vars PROVE TypeOK'
  OBVIOUS
<1> USE BufferAssumption
<1>1. ASSUME NEW k \in Sampler, RestartFirst(k) PROVE TypeOK'
  <2>1. taken + 1 \in 0 .. MaxSample
    BY <1>1 DEF RestartFirst, TypeOK
  <2>2. working_buf' \in Sample
    BY <1>1, <2>1 DEF RestartFirst, TypeOK, Sample
  <2>3. /\ ctrl_lock' \in Sampler \cup {Nobody}
        /\ kpc' \in [Sampler -> {"sleep", "restart", "publish", "unlock"}]
    BY <1>1 DEF RestartFirst, TypeOK
  <2>4. number' \in [Sampler -> 0 .. MaxSample] /\ taken' \in 0 .. MaxSample
    BY <1>1, <2>1 DEF RestartFirst, TypeOK
  <2> QED BY <1>1, <2>2, <2>3, <2>4 DEF RestartFirst, TypeOK, ring, readers
<1>2. ASSUME NEW k \in Sampler, RestartLast(k) PROVE TypeOK'
  BY <1>2 DEF RestartLast, TypeOK, ring, readers, Sample
<1>3. ASSUME NEW k \in Sampler, Publish(k) PROVE TypeOK'
  <2>1. Advance(buffer_next) \in Slot /\ Advance(buffer_base) \in Slot
    <3>1. buffer_next \in Int /\ buffer_base \in Int
      BY DEF TypeOK, Slot
    <3> QED BY <3>1, AdvanceIsSlot
  <2>2. [buffer EXCEPT ![buffer_next] = working_buf] \in [Slot -> Sample]
    <3>1. buffer \in [Slot -> Sample] /\ working_buf \in Sample
      BY DEF TypeOK
    <3> QED BY <3>1
  <2>3. ~RingFull => buffer_size + 1 \in 0 .. MICSTAT_NBUF
    BY DEF RingFull, TypeOK
  <2>4. /\ buffer' \in [Slot -> Sample]
        /\ buffer_base' \in Slot
        /\ buffer_next' \in Slot
        /\ buffer_size' \in 0 .. MICSTAT_NBUF
    <3>1. CASE PublishOver
      BY <2>1, <2>2, <2>3, <3>1 DEF PublishOver, TypeOK
    <3>2. CASE PublishIfRoom
      BY <2>1, <2>2, <2>3, <3>2 DEF PublishIfRoom, TypeOK, ring
    <3> QED BY <1>3, <3>1, <3>2 DEF Publish
  <2>5. kpc' \in [Sampler -> {"sleep", "restart", "publish", "unlock"}]
    BY <1>3 DEF Publish, TypeOK
  <2> QED BY <1>3, <2>4, <2>5 DEF Publish, TypeOK, readers
<1>4. ASSUME NEW k \in Sampler, Unlock(k) PROVE TypeOK'
  BY <1>4 DEF Unlock, TypeOK, ring, readers
<1>5. ASSUME NEW r \in Reader, StatOpen(r) PROVE TypeOK'
  BY <1>5, EmptySeq DEF StatOpen, TypeOK, ring, threads
<1>6. ASSUME NEW r \in Reader, StatPrint(r) PROVE TypeOK'
  <2>1. Advance(buffer_base) \in Slot /\ buffer_size' \in 0 .. MICSTAT_NBUF
    BY <1>6, AdvanceIsSlot DEF StatPrint, MoreToPrint, TypeOK, Slot
  <2>2. limit' \in [Reader -> 0 .. PAGE_SIZE]
    BY <1>6, PrintedFits DEF StatPrint, MoreToPrint, TypeOK
  <2>3. page' \in [Reader -> Seq(Sample)]
    <3>1. Append(page[r], buffer[buffer_base]) \in Seq(Sample)
      BY AppendProperties DEF TypeOK
    <3> QED BY <1>6, <3>1 DEF StatPrint, TypeOK
  <2> QED BY <1>6, <2>1, <2>2, <2>3 DEF StatPrint, TypeOK, threads
<1>7. ASSUME NEW r \in Reader, StatReturn(r) PROVE TypeOK'
  BY <1>7 DEF StatReturn, TypeOK, ring, threads
<1>8. ASSUME NEW r \in Reader, ShowLast(r) PROVE TypeOK'
  <2>1. BufferLast \in Slot
    BY DEF BufferLast, TypeOK, Slot
  <2> QED BY <1>8, <2>1 DEF ShowLast, TypeOK, ring, threads, Sample
<1>9. ASSUME NEW r \in Reader, Clear(r) PROVE TypeOK'
  BY <1>9 DEF Clear, TypeOK, threads, readers
<1>10. CASE UNCHANGED vars
  BY <1>10 DEF vars, ring, threads, readers, TypeOK
<1> QED
  BY <1>1, <1>2, <1>3, <1>4, <1>5, <1>6, <1>7, <1>8, <1>9, <1>10
  DEF Next, Thread, Process

(* A page's samples stay whole when a whole one is added.                  *)
LEMMA AppendWhole ==
  ASSUME NEW p \in Seq(Sample), NEW s \in Sample, Whole(s),
         \A i \in 1 .. Len(p) : Whole(p[i])
  PROVE  \A i \in 1 .. Len(Append(p, s)) : Whole(Append(p, s)[i])
  BY AppendProperties DEF Whole

(* Who is not asleep is alone: the others would need ctrl_lock, or do not  *)
(* exist.                                                                  *)
LEMMA Alone ==
  ASSUME OneThread, LockInv, NEW j \in Sampler, NEW k \in Sampler,
         kpc[j] # "sleep", kpc[k] # "sleep"
  PROVE  j = k
  BY DEF OneThread, LockInv

(* What a process does leaves the threads alone, and the pages whole.      *)
LEMMA ProcessInv ==
  ASSUME IInv, NEW r \in Reader, Process(r)
  PROVE  LockInv' /\ WorkInv' /\ SlotsWhole' /\ PagesWhole'
<1>1. UNCHANGED <<threads, buffer>>
  BY DEF Process, StatOpen, StatPrint, StatReturn, ShowLast, Clear, ring, threads
<1>2. LockInv' /\ WorkInv' /\ SlotsWhole'
  BY <1>1 DEF IInv, threads, LockInv, WorkInv, SlotsWhole
<1>3. CASE StatOpen(r)
  <2>1. \A q \in Reader : page'[q] = page[q] \/ Len(page'[q]) = 0
    BY <1>3, EmptySeq DEF StatOpen, IInv, TypeOK
  <2>2. ASSUME NEW q \in Reader, NEW i \in 1 .. Len(page'[q]) PROVE Whole(page'[q][i])
    BY <2>1, <2>2 DEF IInv, PagesWhole
  <2> QED BY <1>2, <2>2 DEF PagesWhole
<1>4. CASE StatPrint(r)
  <2>1. /\ page[r] \in Seq(Sample)
        /\ buffer[buffer_base] \in Sample
        /\ Whole(buffer[buffer_base])
    BY DEF IInv, TypeOK, SlotsWhole
  <2>2. \A i \in 1 .. Len(page'[r]) : Whole(page'[r][i])
    BY <1>4, <2>1, AppendWhole DEF StatPrint, IInv, TypeOK, PagesWhole
  <2>3. \A q \in Reader \ {r} : page'[q] = page[q]
    BY <1>4 DEF StatPrint, IInv, TypeOK
  <2>4. ASSUME NEW q \in Reader, NEW i \in 1 .. Len(page'[q]) PROVE Whole(page'[q][i])
    BY <2>2, <2>3, <2>4 DEF IInv, PagesWhole
  <2> QED BY <1>2, <2>4 DEF PagesWhole
<1>5. CASE StatReturn(r) \/ ShowLast(r) \/ Clear(r)
  <2>1. UNCHANGED page
    BY <1>5 DEF StatReturn, ShowLast, Clear, readers
  <2> QED BY <1>2, <2>1 DEF IInv, PagesWhole
<1> QED BY <1>2, <1>3, <1>4, <1>5 DEF Process

(* A thread that is alone with working_buf writes whole samples.           *)
LEMMA ThreadInv ==
  ASSUME OneThread, IInv, NEW k \in Sampler, Thread(k)
  PROVE  LockInv' /\ WorkInv' /\ SlotsWhole' /\ PagesWhole'
<1>1. UNCHANGED page
  BY DEF Thread, RestartFirst, RestartLast, Publish, Unlock, readers
<1>2. PagesWhole'
  BY <1>1 DEF IInv, PagesWhole
<1>3. \A j \in Sampler : kpc[j] # "sleep" /\ kpc[k] # "sleep" => j = k
  BY Alone DEF IInv
<1>4. CASE RestartFirst(k)
  <2>1. \A j \in Sampler \ {k} : kpc[j] = "sleep" /\ kpc'[j] = "sleep"
    <3> SUFFICES ASSUME NEW j \in Sampler \ {k} PROVE kpc[j] = "sleep"
      BY <1>4 DEF RestartFirst, IInv, TypeOK
    <3>1. CASE Driver = "micstat"
      BY <3>1 DEF OneThread
    <3>2. CASE Driver # "micstat"
      BY <1>4, <3>2, BufferAssumption DEF RestartFirst, CtrlLock, IInv, LockInv
    <3> QED BY <3>1, <3>2
  <2>2. kpc'[k] = "restart" /\ working_buf'.ts = number'[k]
    BY <1>4 DEF RestartFirst, IInv, TypeOK, Sample
  <2>3. LockInv'
    BY <1>4, <2>1 DEF RestartFirst, LockInv
  <2>4. WorkInv'
    BY <2>1, <2>2 DEF WorkInv
  <2> QED BY <1>2, <1>4, <2>3, <2>4 DEF RestartFirst, ring, IInv, SlotsWhole
<1>5. CASE RestartLast(k)
  <2>1. \A j \in Sampler \ {k} : kpc'[j] = kpc[j] /\ kpc[j] = "sleep"
    BY <1>3, <1>5 DEF RestartLast, IInv, TypeOK
  <2>2. kpc[k] = "restart" /\ kpc'[k] = "publish"
    BY <1>5 DEF RestartLast, IInv, TypeOK
  <2>3. Whole(working_buf')
    BY <1>5, <2>2 DEF RestartLast, IInv, TypeOK, WorkInv, Whole, Sample
  <2>4. LockInv'
    BY <1>5, <2>1, <2>2 DEF RestartLast, IInv, LockInv
  <2>5. WorkInv'
    BY <2>1, <2>2, <2>3 DEF WorkInv
  <2> QED BY <1>2, <1>5, <2>4, <2>5 DEF RestartLast, ring, IInv, SlotsWhole
<1>6. CASE Publish(k)
  <2>1. \A j \in Sampler \ {k} : kpc'[j] = kpc[j] /\ kpc[j] = "sleep"
    BY <1>3, <1>6 DEF Publish, IInv, TypeOK
  <2>2. kpc[k] = "publish" /\ kpc'[k] = "unlock"
    BY <1>6 DEF Publish, IInv, TypeOK
  <2>3. Whole(working_buf)
    BY <2>2 DEF IInv, WorkInv
  <2>4. buffer' = buffer \/ buffer' = [buffer EXCEPT ![buffer_next] = working_buf]
    BY <1>6 DEF Publish, PublishOver, PublishIfRoom, ring
  <2>5. SlotsWhole'
    BY <2>3, <2>4 DEF IInv, TypeOK, SlotsWhole
  <2>6. LockInv'
    BY <1>6, <2>1, <2>2 DEF Publish, IInv, LockInv
  <2>7. WorkInv'
    BY <2>1, <2>2 DEF WorkInv
  <2> QED BY <1>2, <2>5, <2>6, <2>7
<1>7. CASE Unlock(k)
  <2>1. \A j \in Sampler : kpc'[j] = "sleep"
    BY <1>3, <1>7 DEF Unlock, IInv, TypeOK
  <2>2. LockInv' /\ WorkInv'
    BY <2>1 DEF LockInv, WorkInv
  <2> QED BY <1>2, <1>7, <2>2 DEF Unlock, ring, IInv, SlotsWhole
<1> QED BY <1>4, <1>5, <1>6, <1>7 DEF Thread

LEMMA NextIInv == OneThread /\ IInv /\ [Next]_vars => IInv'
<1> SUFFICES ASSUME OneThread, IInv, [Next]_vars PROVE IInv'
  OBVIOUS
<1>1. TypeOK'
  BY NextType DEF IInv
<1>2. ASSUME NEW k \in Sampler, Thread(k) PROVE IInv'
  BY <1>1, <1>2, ThreadInv DEF IInv
<1>3. ASSUME NEW r \in Reader, Process(r) PROVE IInv'
  BY <1>1, <1>3, ProcessInv DEF IInv
<1>4. CASE UNCHANGED vars
  BY <1>1, <1>4 DEF vars, ring, threads, readers, IInv, LockInv, WorkInv, SlotsWhole, PagesWhole
<1> QED BY <1>2, <1>3, <1>4 DEF Next

-----------------------------------------------------------------------------
(* Every variable keeps its type, for each driver, ring, page and number   *)
(* of threads and processes: in particular no index leaves the ring.       *)
THEOREM TypeCorrect == Spec => []TypeOK
<1>1. Init => TypeOK
  BY InitIInv DEF IInv
<1> QED BY <1>1, NextType, PTL DEF Spec

(* The strengthened invariant holds: of haswellstat and sbstat with any    *)
(* number of threads, of micstat with one.                                 *)
THEOREM Inductive ==
  ASSUME OneThread
  PROVE  Spec => []IInv
<1>1. IInv /\ [Next]_vars => IInv'
  BY NextIInv
<1> QED BY <1>1, InitIInv, PTL DEF Spec

(* Every sample in the ring or in a page has all its counters from one run *)
(* of roll_buffer, even if threads share working_buf.                      *)
THEOREM SamplesAreWhole ==
  ASSUME OneThread
  PROVE  Spec => []WholeSamples
<1>1. IInv => WholeSamples
  <2> SUFFICES ASSUME IInv, NEW i \in 1 .. buffer_size PROVE Whole(Unread[i])
    BY DEF IInv, PagesWhole, WholeSamples
  <2>1. Around(buffer_base, i - 1) \in Slot
    BY BufferAssumption DEF IInv, TypeOK, Around, Slot
  <2> QED BY <2>1 DEF IInv, SlotsWhole, Unread
<1> QED BY <1>1, Inductive, PTL

-----------------------------------------------------------------------------
(* The ring as a log: what is in it, and in which order (as in XstatBuffer). *)

(* The slot after the last one is slot 0, and every other slot is followed *)
(* by its successor.                                                       *)
LEMMA AdvanceIs ==
  ASSUME NEW x \in Slot
  PROVE  /\ Advance(x) = IF x = MICSTAT_NBUF - 1 THEN 0 ELSE x + 1
         /\ Advance(x) \in Slot
  BY BufferAssumption, SMT DEF Advance, Slot

(* Going at most once round the ring from slot x.                          *)
LEMMA AroundIs ==
  ASSUME NEW x \in Slot, NEW i \in 0 .. MICSTAT_NBUF
  PROVE  /\ Around(x, i) = IF x + i < MICSTAT_NBUF THEN x + i ELSE x + i - MICSTAT_NBUF
         /\ Around(x, i) \in Slot
  BY BufferAssumption, SMT DEF Around, Slot

(* Slot b is 0 slots after b and, once round the ring, MICSTAT_NBUF after it. *)
LEMMA AroundEnds ==
  ASSUME NEW b \in Slot
  PROVE  Around(b, 0) = b /\ Around(b, MICSTAT_NBUF) = b
  BY BufferAssumption, AroundIs DEF Slot

(* One slot further from b, or as far from the slot after b.               *)
LEMMA AroundNext ==
  ASSUME NEW b \in Slot, NEW i \in 0 .. MICSTAT_NBUF - 1
  PROVE  /\ Advance(Around(b, i)) = Around(b, i + 1)
         /\ Around(Advance(b), i) = Around(b, i + 1)
<1> DEFINE c == Around(b, i)
<1>1. /\ c \in Slot
      /\ c = IF b + i < MICSTAT_NBUF THEN b + i ELSE b + i - MICSTAT_NBUF
  BY AroundIs, BufferAssumption
<1>2. Around(b, i + 1) = IF b + (i + 1) < MICSTAT_NBUF THEN b + (i + 1)
                                                     ELSE b + (i + 1) - MICSTAT_NBUF
  BY AroundIs, BufferAssumption
<1>3. Advance(c) = IF c = MICSTAT_NBUF - 1 THEN 0 ELSE c + 1
  BY <1>1, AdvanceIs
<1>4. Advance(b) = IF b = MICSTAT_NBUF - 1 THEN 0 ELSE b + 1
  BY AdvanceIs
<1>5. Around(Advance(b), i) = IF Advance(b) + i < MICSTAT_NBUF THEN Advance(b) + i
                                                            ELSE Advance(b) + i - MICSTAT_NBUF
  BY AdvanceIs, AroundIs, BufferAssumption
<1>6. Advance(c) = Around(b, i + 1)
  BY <1>1, <1>2, <1>3, BufferAssumption DEF Slot
<1>7. Around(Advance(b), i) = Around(b, i + 1)
  BY <1>2, <1>4, <1>5, BufferAssumption DEF Slot
<1> QED
  BY <1>6, <1>7

(* Less than once round, no slot comes up twice.                           *)
LEMMA AroundDistinct ==
  ASSUME NEW b \in Slot, NEW i \in 0 .. MICSTAT_NBUF - 1, NEW j \in 0 .. MICSTAT_NBUF - 1,
         i # j
  PROVE  Around(b, i) # Around(b, j)
<1>1. Around(b, i) = IF b + i < MICSTAT_NBUF THEN b + i ELSE b + i - MICSTAT_NBUF
  BY AroundIs, BufferAssumption
<1>2. Around(b, j) = IF b + j < MICSTAT_NBUF THEN b + j ELSE b + j - MICSTAT_NBUF
  BY AroundIs, BufferAssumption
<1> QED
  BY <1>1, <1>2, BufferAssumption DEF Slot

LEMMA ContentsIs ==
  ASSUME NEW buf \in [Slot -> Nat], NEW b \in Slot, NEW n \in 0 .. MICSTAT_NBUF
  PROVE  /\ Contents(buf, b, n) \in Seq(Nat)
         /\ Len(Contents(buf, b, n)) = n
         /\ \A i \in 1 .. n : Contents(buf, b, n)[i] = buf[Around(b, i - 1)]
<1>1. ASSUME NEW i \in 1 .. n PROVE buf[Around(b, i - 1)] \in Nat
  <2>1. i - 1 \in 0 .. MICSTAT_NBUF
    BY BufferAssumption
  <2> QED BY <2>1, AroundIs
<1>2. n \in Nat
  BY BufferAssumption
<1> QED
  BY <1>1, <1>2 DEF Contents

LEMMA ContentsEmpty ==
  ASSUME NEW buf \in [Slot -> Nat], NEW b \in Slot
  PROVE  Contents(buf, b, 0) = <<>>
<1>1. /\ Contents(buf, b, 0) \in Seq(Nat)
      /\ Len(Contents(buf, b, 0)) = 0
  BY ContentsIs, BufferAssumption
<1> QED
  BY <1>1

LEMMA ContentsGrow ==
  ASSUME NEW buf \in [Slot -> Nat], NEW b \in Slot, NEW n \in 0 .. MICSTAT_NBUF - 1, NEW x \in Nat
  PROVE  Contents([buf EXCEPT ![Around(b, n)] = x], b, n + 1) = Append(Contents(buf, b, n), x)
<1> DEFINE new == [buf EXCEPT ![Around(b, n)] = x]
           old == Contents(buf, b, n)
           grown == Contents(new, b, n + 1)
<1>1. new \in [Slot -> Nat] /\ n \in 0 .. MICSTAT_NBUF /\ n + 1 \in 0 .. MICSTAT_NBUF
  <2>1. new \in [Slot -> Nat]
    OBVIOUS
  <2>2. n \in 0 .. MICSTAT_NBUF /\ n + 1 \in 0 .. MICSTAT_NBUF
    BY BufferAssumption
  <2> QED BY <2>1, <2>2
<1>2. /\ old \in Seq(Nat) /\ Len(old) = n
      /\ \A i \in 1 .. n : old[i] = buf[Around(b, i - 1)]
  BY <1>1, ContentsIs
<1>3. /\ grown \in Seq(Nat) /\ Len(grown) = n + 1
      /\ \A i \in 1 .. n + 1 : grown[i] = new[Around(b, i - 1)]
  BY <1>1, ContentsIs
<1>4. ASSUME NEW i \in 1 .. n + 1 PROVE grown[i] = Append(old, x)[i]
  <2>1. i - 1 \in 0 .. MICSTAT_NBUF - 1 /\ Around(b, i - 1) \in Slot
    BY AroundIs, BufferAssumption
  <2>2. CASE i = n + 1
    <3>1. i - 1 = n
      BY <2>2, BufferAssumption
    <3>2. grown[i] = x
      BY <1>3, <2>1, <3>1
    <3>3. Append(old, x)[i] = x
      BY <1>2, <2>2
    <3> QED BY <3>2, <3>3
  <2>3. CASE i # n + 1
    <3>1. i \in 1 .. n /\ i - 1 # n
      BY <2>3, BufferAssumption
    <3>2. Around(b, i - 1) # Around(b, n)
      BY <2>1, <3>1, AroundDistinct
    <3>3. grown[i] = buf[Around(b, i - 1)]
      BY <1>3, <2>1, <3>2
    <3>4. Append(old, x)[i] = old[i]
      BY <1>2, <3>1
    <3> QED BY <1>2, <3>1, <3>3, <3>4
  <2> QED BY <2>2, <2>3
<1> HIDE DEF old, grown
<1>5. Append(old, x) \in Seq(Nat) /\ Len(Append(old, x)) = n + 1
  BY <1>2
<1>6. grown = Append(old, x)
  BY <1>3, <1>4, <1>5
<1> QED
  BY <1>6 DEF old, grown

LEMMA ContentsShrink ==
  ASSUME NEW buf \in [Slot -> Nat], NEW b \in Slot, NEW n \in 1 .. MICSTAT_NBUF
  PROVE  /\ Contents(buf, b, n) # <<>>
         /\ Head(Contents(buf, b, n)) = buf[b]
         /\ Tail(Contents(buf, b, n)) = Contents(buf, Advance(b), n - 1)
<1> DEFINE old == Contents(buf, b, n)
           new == Contents(buf, Advance(b), n - 1)
<1>1. n \in 0 .. MICSTAT_NBUF /\ n - 1 \in 0 .. MICSTAT_NBUF /\ Advance(b) \in Slot
  BY AdvanceIs, BufferAssumption
<1>2. /\ old \in Seq(Nat) /\ Len(old) = n
      /\ \A i \in 1 .. n : old[i] = buf[Around(b, i - 1)]
  BY <1>1, ContentsIs
<1>3. /\ new \in Seq(Nat) /\ Len(new) = n - 1
      /\ \A i \in 1 .. n - 1 : new[i] = buf[Around(Advance(b), i - 1)]
  BY <1>1, ContentsIs
<1>4. old[1] = buf[b]
  <2>1. old[1] = buf[Around(b, 1 - 1)] /\ 1 - 1 = 0
    BY <1>2, BufferAssumption
  <2> QED BY <2>1, AroundEnds
<1>5. ASSUME NEW i \in 1 .. n - 1 PROVE new[i] = old[i + 1]
  <2>1. /\ i - 1 \in 0 .. MICSTAT_NBUF - 1 /\ i + 1 \in 1 .. n
        /\ (i - 1) + 1 = i /\ (i + 1) - 1 = i
    BY BufferAssumption
  <2>2. Around(Advance(b), i - 1) = Around(b, i)
    BY <2>1, AroundNext
  <2>3. new[i] = buf[Around(b, i)]
    BY <1>3, <2>2
  <2>4. old[i + 1] = buf[Around(b, i)]
    BY <1>2, <2>1
  <2> QED BY <2>3, <2>4
<1> HIDE DEF old, new
<1>6. old # <<>> /\ Head(old) = old[1]
  BY <1>2
<1>7. Tail(old) = new
  <2> DEFINE rest == Tail(old)
  <2>1. rest \in Seq(Nat) /\ Len(rest) = Len(new)
    BY <1>2, <1>3
  <2>2. ASSUME NEW i \in 1 .. Len(new) PROVE rest[i] = new[i]
    BY <1>2, <1>3, <1>5
  <2> HIDE DEF rest
  <2>3. rest = new
    BY <2>1, <2>2, <1>3
  <2> QED BY <2>3 DEF rest
<1> QED
  BY <1>4, <1>6, <1>7 DEF old, new

LEMMA ContentsSlide ==
  ASSUME NEW buf \in [Slot -> Nat], NEW b \in Slot, NEW x \in Nat
  PROVE  Contents([buf EXCEPT ![b] = x], Advance(b), MICSTAT_NBUF)
           = Append(Tail(Contents(buf, b, MICSTAT_NBUF)), x)
<1> DEFINE m == MICSTAT_NBUF - 1
<1>1. /\ m \in 0 .. MICSTAT_NBUF - 1 /\ m + 1 = MICSTAT_NBUF /\ MICSTAT_NBUF \in 1 .. MICSTAT_NBUF
      /\ Advance(b) \in Slot
  BY AdvanceIs, BufferAssumption
<1>2. Around(Advance(b), m) = b
  <2>1. Around(Advance(b), m) = Around(b, m + 1)
    BY <1>1, AroundNext
  <2> QED BY <1>1, <2>1, AroundEnds
<1>3. Tail(Contents(buf, b, MICSTAT_NBUF)) = Contents(buf, Advance(b), m)
  BY <1>1, ContentsShrink
<1>4. Contents([buf EXCEPT ![Around(Advance(b), m)] = x], Advance(b), m + 1)
        = Append(Contents(buf, Advance(b), m), x)
  BY <1>1, ContentsGrow
<1> QED
  BY <1>1, <1>2, <1>3, <1>4
-----------------------------------------------------------------------------
(* The samples in hand.                                                    *)

Hand == {"restart", "publish"}

(* While k is not asleep, or wakes up, the others are asleep.              *)
LEMMA OthersAsleep ==
  ASSUME OneThread, IInv, NEW k \in Sampler, Thread(k), NEW j \in Sampler, j # k
  PROVE  kpc[j] = "sleep" /\ kpc'[j] = "sleep"
<1>1. kpc[j] = "sleep"
  <2>1. CASE kpc[k] = "sleep"
    <3>1. RestartFirst(k)
      BY <2>1 DEF Thread, RestartLast, Publish, Unlock
    <3>2. CASE Driver = "micstat"
      BY <3>2 DEF OneThread
    <3>3. CASE Driver # "micstat"
      BY <3>1, <3>3, BufferAssumption DEF RestartFirst, CtrlLock, IInv, LockInv
    <3> QED BY <3>2, <3>3
  <2>2. CASE kpc[k] # "sleep"
    BY <2>2, Alone DEF IInv
  <2> QED BY <2>1, <2>2
<1>2. kpc' = [kpc EXCEPT ![k] = kpc'[k]]
  BY DEF Thread, RestartFirst, RestartLast, Publish, Unlock, IInv, TypeOK
<1> QED BY <1>1, <1>2 DEF IInv, TypeOK

(* So there is one sample in hand at most, that of the thread at work.     *)
LEMMA InHandIs ==
  ASSUME OneThread, IInv, NEW k \in Sampler, Thread(k)
  PROVE  /\ InHand = IF kpc[k] \in Hand THEN {k} ELSE {}
         /\ InHand' = IF kpc'[k] \in Hand THEN {k} ELSE {}
<1>1. \A j \in Sampler : j # k => kpc[j] = "sleep" /\ kpc'[j] = "sleep"
  BY OthersAsleep
<1> QED BY <1>1 DEF InHand, Hand

LEMMA ArrivedIs ==
  ASSUME OneThread, IInv, NEW k \in Sampler, Thread(k)
  PROVE  /\ Arrived = IF kpc[k] \in Hand THEN taken - 1 ELSE taken
         /\ Arrived' = IF kpc'[k] \in Hand THEN taken' - 1 ELSE taken'
         /\ taken \in Nat
<1>1. Cardinality({k}) = 1 /\ Cardinality({}) = 0
  BY FS_Singleton, FS_EmptySet
<1>2. taken \in Nat /\ taken' \in Nat
  BY NextType DEF IInv, TypeOK, Next
<1>3. Cardinality(InHand) = IF kpc[k] \in Hand THEN 1 ELSE 0
  BY <1>1, InHandIs, Zenon
<1>4. Cardinality(InHand') = IF kpc'[k] \in Hand THEN 1 ELSE 0
  BY <1>1, InHandIs, Zenon
<1>5. Arrived' = taken' - Cardinality(InHand')
  BY DEF Arrived
<1>6. Arrived = IF kpc[k] \in Hand THEN taken - 1 ELSE taken
  BY <1>2, <1>3 DEF Arrived
<1>7. Arrived' = IF kpc'[k] \in Hand THEN taken' - 1 ELSE taken'
  <2>1. \A t \in Nat : t - 0 = t
    OBVIOUS
  <2>2. taken' - 0 = taken'
    BY <1>2, <2>1
  <2> QED BY <1>4, <1>5, <2>2, Zenon
<1> QED BY <1>2, <1>6, <1>7

-----------------------------------------------------------------------------
(* RingInv is inductive.                                                   *)

LEMMA BufferLastIs ==
  ASSUME NEW b \in Slot, NEW n \in 1 .. MICSTAT_NBUF
  PROVE  (b + n - 1) % MICSTAT_NBUF = Around(b, n - 1)
<1>1. b + n - 1 = b + (n - 1)
  BY BufferAssumption DEF Slot
<1> QED BY <1>1 DEF Around

LEMMA InitRing == Init => RingInv
<1> SUFFICES ASSUME Init PROVE RingInv
  OBVIOUS
<1>1. InHand = {}
  BY DEF Init, InHand
<1>2. buffer_next = Around(buffer_base, buffer_size)
  BY BufferAssumption, AroundEnds DEF Init, Slot
<1> QED BY <1>1, <1>2 DEF Init, RingInv

(* A sample comes to the ring.                                             *)
LEMMA PublishRing ==
  ASSUME OneThread, IInv, TypeOK', RingInv, NEW k \in Sampler, Publish(k)
  PROVE  RingInv'
<1>1. /\ MICSTAT_NBUF \in Nat \ {0}
      /\ buffer_base \in Slot /\ buffer_next \in Slot /\ buffer_size \in 0 .. MICSTAT_NBUF
      /\ buffer \in [Slot -> Sample]
      /\ buffer_next = Around(buffer_base, buffer_size)
  BY BufferAssumption DEF IInv, TypeOK, RingInv
<1>2. /\ kpc[k] = "publish" /\ kpc'[k] = "unlock" /\ InHand' = {}
      /\ taken' = taken /\ Arrived' = taken /\ working_buf.ts = taken
  <2>1. kpc[k] = "publish" /\ kpc'[k] = "unlock" /\ taken' = taken /\ Thread(k)
    BY DEF Publish, IInv, TypeOK, Thread
  <2>2. InHand' = {} /\ Arrived' = taken
    BY <2>1, InHandIs, ArrivedIs DEF Hand
  <2>3. k \in InHand
    BY <2>1 DEF InHand
  <2> QED BY <2>1, <2>2, <2>3 DEF RingInv
<1>3. \A j \in Sampler : kpc'[j] # "publish"
  <2>1. Thread(k)
    BY DEF Thread
  <2> QED BY <1>2, <2>1, OthersAsleep
<1>4. /\ buffer_next' = Around(buffer_base', buffer_size')
      /\ Driver # "sbstat" => buffer'[BufferLast'].ts = taken
  <2>1. CASE ~RingFull /\ (PublishOver \/ PublishIfRoom)
    <3>1. /\ buffer' = [buffer EXCEPT ![buffer_next] = working_buf]
          /\ buffer_next' = Advance(buffer_next)
          /\ buffer_size' = buffer_size + 1 /\ buffer_base' = buffer_base
          /\ buffer_size \in 0 .. MICSTAT_NBUF - 1 /\ buffer_size + 1 \in 1 .. MICSTAT_NBUF
      BY <1>1, <2>1 DEF PublishOver, PublishIfRoom, RingFull
    <3>2. Advance(Around(buffer_base, buffer_size)) = Around(buffer_base, buffer_size + 1)
      BY <1>1, <3>1, AroundNext
    <3>3. BufferLast' = Around(buffer_base, (buffer_size + 1) - 1)
      BY <1>1, <3>1, BufferLastIs DEF BufferLast
    <3>4. BufferLast' = buffer_next
      BY <1>1, <3>1, <3>3
    <3> QED BY <1>1, <1>2, <3>1, <3>2, <3>4
  <2>2. CASE RingFull /\ PublishOver
    <3>1. /\ buffer' = [buffer EXCEPT ![buffer_next] = working_buf]
          /\ buffer_next' = Advance(buffer_next)
          /\ buffer_size' = MICSTAT_NBUF /\ buffer_size = MICSTAT_NBUF
          /\ buffer_base' = Advance(buffer_base) /\ Advance(buffer_base) \in Slot
      BY <1>1, <2>2, AdvanceIs DEF PublishOver, RingFull
    <3>2. buffer_next = buffer_base
      BY <1>1, <3>1, AroundEnds
    <3>3. Around(Advance(buffer_base), MICSTAT_NBUF) = Advance(buffer_base)
      BY <3>1, AroundEnds
    <3>4. BufferLast' = Around(Advance(buffer_base), MICSTAT_NBUF - 1)
      BY <1>1, <3>1, BufferLastIs DEF BufferLast
    <3>5. Around(Advance(buffer_base), MICSTAT_NBUF - 1) = Around(buffer_base, MICSTAT_NBUF)
      <4>1. MICSTAT_NBUF - 1 \in 0 .. MICSTAT_NBUF - 1 /\ (MICSTAT_NBUF - 1) + 1 = MICSTAT_NBUF
        BY <1>1
      <4> QED BY <1>1, <4>1, AroundNext
    <3>6. BufferLast' = buffer_next
      BY <1>1, <3>1, <3>4, <3>5
    <3> QED BY <1>1, <1>2, <3>1, <3>2, <3>3, <3>6
  <2>3. CASE RingFull /\ PublishIfRoom /\ Driver = "sbstat"
    BY <1>1, <2>3 DEF PublishIfRoom, ring
  <2> QED BY <2>1, <2>2, <2>3 DEF Publish
<1> QED BY <1>2, <1>3, <1>4 DEF RingInv

(* One leaves it at its old end.                                           *)
LEMMA StatPrintRing ==
  ASSUME IInv, RingInv, NEW r \in Reader, StatPrint(r)
  PROVE  RingInv'
<1>1. /\ MICSTAT_NBUF \in Nat \ {0}
      /\ buffer_base \in Slot /\ buffer_size \in 1 .. MICSTAT_NBUF
      /\ Advance(buffer_base) \in Slot
      /\ buffer_next = Around(buffer_base, buffer_size)
  BY BufferAssumption, AdvanceIs DEF IInv, TypeOK, StatPrint, MoreToPrint, RingInv
<1>2. /\ buffer' = buffer /\ buffer_next' = buffer_next
      /\ buffer_base' = Advance(buffer_base) /\ buffer_size' = buffer_size - 1
      /\ UNCHANGED <<taken, number, kpc, working_buf>>
      /\ InHand' = InHand /\ Arrived' = Arrived
  BY DEF StatPrint, threads, InHand, Arrived
<1>3. Around(Advance(buffer_base), buffer_size - 1) = Around(buffer_base, buffer_size)
  <2>1. buffer_size - 1 \in 0 .. MICSTAT_NBUF - 1 /\ (buffer_size - 1) + 1 = buffer_size
    BY <1>1
  <2> QED BY <1>1, <2>1, AroundNext
<1>4. ASSUME buffer_size - 1 > 0
      PROVE  BufferLast' = BufferLast
  <2>1. /\ buffer_size - 1 \in 1 .. MICSTAT_NBUF
        /\ buffer_size - 2 \in 0 .. MICSTAT_NBUF - 1 /\ (buffer_size - 2) + 1 = buffer_size - 1
        /\ (buffer_size - 1) - 1 = buffer_size - 2
    BY <1>1, <1>4
  <2>2. BufferLast' = Around(Advance(buffer_base), buffer_size - 2)
    BY <1>1, <1>2, <2>1, BufferLastIs DEF BufferLast
  <2>3. BufferLast = Around(buffer_base, buffer_size - 1)
    BY <1>1, BufferLastIs DEF BufferLast
  <2>4. Around(Advance(buffer_base), buffer_size - 2) = Around(buffer_base, buffer_size - 1)
    BY <1>1, <2>1, AroundNext
  <2> QED BY <2>2, <2>3, <2>4
<1>5. Driver # "sbstat" /\ buffer_size' > 0 => buffer'[BufferLast'].ts = Arrived'
  BY <1>1, <1>2, <1>4 DEF RingInv
<1> QED BY <1>1, <1>2, <1>3, <1>5 DEF RingInv

(* The other steps of the threads and the processes.                       *)
LEMMA OtherRing ==
  ASSUME OneThread, IInv, TypeOK', RingInv,
         \/ \E k \in Sampler : RestartFirst(k) \/ RestartLast(k) \/ Unlock(k)
         \/ \E r \in Reader : StatOpen(r) \/ StatReturn(r) \/ ShowLast(r) \/ Clear(r)
         \/ UNCHANGED vars
  PROVE  RingInv'
<1>1. ASSUME UNCHANGED ring, Arrived' = Arrived,
             \A k \in InHand' : number'[k] = taken' /\ taken' > 0,
             \A k \in Sampler : kpc'[k] = "publish" => working_buf'.ts = number'[k]
      PROVE  RingInv'
  <2>1. BufferLast' = BufferLast
    BY <1>1 DEF ring, BufferLast
  <2> QED BY <1>1, <2>1 DEF RingInv, ring
<1>2. ASSUME NEW k \in Sampler, RestartFirst(k) PROVE RingInv'
  <2>1. Thread(k) /\ kpc[k] = "sleep" /\ kpc'[k] = "restart" /\ taken' = taken + 1
        /\ number'[k] = taken + 1
    BY <1>2 DEF Thread, RestartFirst, IInv, TypeOK
  <2>2. InHand' = {k} /\ Arrived = taken /\ Arrived' = taken' - 1 /\ taken \in Nat
    BY <2>1, InHandIs, ArrivedIs DEF Hand
  <2>3. \A j \in Sampler : kpc'[j] # "publish"
    BY <2>1, OthersAsleep
  <2>4. \A j \in InHand' : number'[j] = taken' /\ taken' > 0
    BY <2>1, <2>2
  <2>5. Arrived' = Arrived
    BY <2>1, <2>2
  <2> QED BY <1>1, <1>2, <2>3, <2>4, <2>5 DEF RestartFirst
<1>3. ASSUME NEW k \in Sampler, RestartLast(k) PROVE RingInv'
  <2>1. Thread(k) /\ kpc[k] = "restart" /\ kpc'[k] = "publish"
        /\ taken' = taken /\ number' = number /\ working_buf'.ts = working_buf.ts
    BY <1>3 DEF Thread, RestartLast, IInv, TypeOK, Sample
  <2>2. InHand' = {k} /\ InHand = {k} /\ Arrived' = Arrived
    BY <2>1, InHandIs, ArrivedIs DEF Hand
  <2>3. \A j \in Sampler : kpc'[j] = "publish" => j = k
    BY <2>1, OthersAsleep
  <2>4. working_buf.ts = number[k]
    BY <2>1 DEF IInv, WorkInv
  <2> QED BY <1>1, <1>3, <2>1, <2>2, <2>3, <2>4 DEF RestartLast, RingInv
<1>4. ASSUME NEW k \in Sampler, Unlock(k) PROVE RingInv'
  <2>1. Thread(k) /\ kpc[k] = "unlock" /\ kpc'[k] = "sleep" /\ taken' = taken
    BY <1>4 DEF Thread, Unlock, IInv, TypeOK
  <2>2. InHand' = {} /\ Arrived' = Arrived
    BY <2>1, InHandIs, ArrivedIs DEF Hand
  <2>3. \A j \in Sampler : kpc'[j] # "publish"
    BY <2>1, OthersAsleep
  <2> QED BY <1>1, <1>4, <2>2, <2>3 DEF Unlock
<1>5. ASSUME UNCHANGED threads
      PROVE  /\ InHand' = InHand /\ Arrived' = Arrived
             /\ RingInv => \A k \in InHand' : number'[k] = taken' /\ taken' > 0
             /\ RingInv => \A k \in Sampler : kpc'[k] = "publish" => working_buf'.ts = number'[k]
  BY <1>5 DEF threads, InHand, Arrived, RingInv
<1>6. ASSUME NEW r \in Reader, StatOpen(r) \/ StatReturn(r) \/ ShowLast(r) PROVE RingInv'
  BY <1>1, <1>5, <1>6 DEF StatOpen, StatReturn, ShowLast
<1>7. ASSUME NEW r \in Reader, Clear(r) PROVE RingInv'
  <2>1. buffer_base' = buffer_base /\ buffer_base \in Slot /\ buffer_next' = buffer_base /\ buffer_size' = 0
    BY <1>7 DEF Clear, IInv, TypeOK
  <2>2. buffer_next' = Around(buffer_base', buffer_size')
    BY <2>1, AroundEnds
  <2> QED BY <1>5, <1>7, <2>1, <2>2 DEF Clear, RingInv
<1>8. CASE UNCHANGED vars
  BY <1>1, <1>5, <1>8 DEF vars
<1> QED BY <1>2, <1>3, <1>4, <1>6, <1>7, <1>8

LEMMA NextRing == OneThread /\ IInv /\ IInv' /\ RingInv /\ [Next]_vars => RingInv'
<1> SUFFICES ASSUME OneThread, IInv, IInv', RingInv, [Next]_vars PROVE RingInv'
  OBVIOUS
<1>1. TypeOK'
  BY DEF IInv
<1>2. ASSUME NEW k \in Sampler, Publish(k) PROVE RingInv'
  BY <1>1, <1>2, PublishRing
<1>3. ASSUME NEW r \in Reader, StatPrint(r) PROVE RingInv'
  BY <1>3, StatPrintRing
<1> QED BY <1>1, <1>2, <1>3, OtherRing DEF Next, Thread, Process

LEMMA RingHolds ==
  ASSUME OneThread
  PROVE  Spec => [](IInv /\ RingInv)
<1>1. Init => IInv /\ RingInv
  BY InitIInv, InitRing
<1>2. IInv /\ RingInv /\ [Next]_vars => (IInv /\ RingInv)'
  BY NextIInv, NextRing
<1> QED BY <1>1, <1>2, PTL DEF Spec

-----------------------------------------------------------------------------
(* The ring, with one thread at work, is the log SampleLog.                *)

NumbersOf(p) == [i \in 1 .. Len(p) |-> Number(p[i])]
TheLog == [i \in 1 .. buffer_size |-> Number(Unread[i])]
ThePages == [r \in Reader |-> NumbersOf(page[r])]

LEMMA NumbersAre ==
  ASSUME TypeOK
  PROVE  /\ Numbers \in [Slot -> Nat]
         /\ \A s \in Slot : Numbers[s] = buffer[s].ts
         /\ TheLog = Contents(Numbers, buffer_base, buffer_size)
<1>1. /\ MICSTAT_NBUF \in Nat \ {0} /\ buffer_base \in Slot /\ buffer_size \in 0 .. MICSTAT_NBUF
      /\ \A s \in Slot : buffer[s] \in Sample
  BY BufferAssumption DEF TypeOK
<1>2. Numbers \in [Slot -> Nat] /\ \A s \in Slot : Numbers[s] = buffer[s].ts
  BY <1>1, BufferAssumption DEF Numbers, Sample
<1>3. ASSUME NEW i \in 1 .. buffer_size
      PROVE  Number(Unread[i]) = Numbers[Around(buffer_base, i - 1)]
  <2>1. i - 1 \in 0 .. MICSTAT_NBUF
    BY <1>1
  <2>2. Around(buffer_base, i - 1) \in Slot
    BY <1>1, <2>1, AroundIs
  <2> QED BY <1>2, <2>2 DEF Number, Unread
<1> QED BY <1>2, <1>3 DEF TheLog, Contents

LEMMA LogIs == TypeOK => TheLog = Contents(Numbers, buffer_base, buffer_size)
  BY NumbersAre

(* A page that takes a sample takes its number.                            *)
LEMMA NumbersAppend ==
  ASSUME NEW p \in Seq(Sample), NEW s \in Sample
  PROVE  NumbersOf(Append(p, s)) = Append(NumbersOf(p), Number(s))
<1>1. /\ Len(Append(p, s)) = Len(p) + 1 /\ Len(p) \in Nat
      /\ \A i \in 1 .. Len(p) : Append(p, s)[i] = p[i]
      /\ Append(p, s)[Len(p) + 1] = s
      /\ \A i \in 1 .. Len(p) : p[i] \in Sample
  BY AppendProperties, LenProperties, ElementOfSeq
<1>2. ASSUME NEW t \in Sample PROVE Number(t) \in Nat
  BY BufferAssumption DEF Number, Sample
<1>3. NumbersOf(p) \in Seq(Nat) /\ Len(NumbersOf(p)) = Len(p)
  BY <1>1, <1>2 DEF NumbersOf
<1> DEFINE new == NumbersOf(Append(p, s))
           old == NumbersOf(p)
<1>4. new \in Seq(Nat) /\ Len(new) = Len(p) + 1
  <2>1. \A i \in 1 .. Len(p) + 1 : Append(p, s)[i] \in Sample
    BY <1>1
  <2> QED BY <1>1, <1>2, <2>1 DEF NumbersOf
<1>5. ASSUME NEW i \in 1 .. Len(p) + 1 PROVE new[i] = Append(old, Number(s))[i]
  <2>1. new[i] = Number(Append(p, s)[i])
    BY <1>1 DEF NumbersOf
  <2>2. CASE i = Len(p) + 1
    <3>1. new[i] = Number(s)
      BY <1>1, <2>1, <2>2
    <3> HIDE DEF new, old
    <3>2. Append(old, Number(s))[i] = Number(s)
      BY <1>2, <1>3, <2>2 DEF old
    <3> QED BY <3>1, <3>2
  <2>3. CASE i # Len(p) + 1
    <3>1. i \in 1 .. Len(p) /\ new[i] = Number(p[i]) /\ old[i] = Number(p[i])
      BY <1>1, <2>1, <2>3 DEF NumbersOf
    <3> HIDE DEF new, old
    <3>2. Append(old, Number(s))[i] = old[i]
      BY <1>2, <1>3, <3>1 DEF old
    <3> QED BY <3>1, <3>2
  <2> QED BY <2>2, <2>3
<1> HIDE DEF new, old
<1>6. Append(old, Number(s)) \in Seq(Nat) /\ Len(Append(old, Number(s))) = Len(p) + 1
  BY <1>2, <1>3 DEF old
<1>7. new = Append(old, Number(s))
  BY <1>4, <1>5, <1>6
<1> QED BY <1>7 DEF new, old

LEMMA InitLog == Init => Log!Init
<1> SUFFICES ASSUME Init PROVE Log!Init
  OBVIOUS
<1>1. TypeOK /\ InHand = {} /\ taken = 0
  BY InitIInv DEF IInv, Init, InHand
<1>2. Arrived = 0
  BY <1>1, FS_EmptySet DEF Arrived
<1>3. TheLog = <<>>
  <2>1. TheLog = Contents(Numbers, buffer_base, 0) /\ buffer_base \in Slot
    BY <1>1, NumbersAre DEF Init, TypeOK
  <2> QED BY <1>1, <2>1, NumbersAre, ContentsEmpty
<1>4. NumbersOf(<<>>) = <<>>
  <2>1. NumbersOf(<<>>) \in Seq(Nat) /\ Len(NumbersOf(<<>>)) = 0
    BY EmptySeq DEF NumbersOf
  <2> QED BY <2>1
<1>5. ThePages = [r \in Reader |-> <<>>]
  BY <1>4 DEF Init, ThePages
<1> QED BY <1>2, <1>3, <1>5 DEF Init, Log!Init, TheLog, ThePages, NumbersOf

(* The log's steps in terms of the ring's.                                 *)
LogAdd(s) ==
  /\ \/ Len(TheLog) < MICSTAT_NBUF /\ TheLog' = Append(TheLog, s)
     \/ Len(TheLog) = MICSTAT_NBUF /\ Driver # "sbstat" /\ TheLog' = Append(Tail(TheLog), s)
     \/ Len(TheLog) = MICSTAT_NBUF /\ Driver = "sbstat" /\ TheLog' = TheLog
  /\ Arrived' = s
  /\ ThePages' = ThePages /\ seen' = seen

(* The sample in hand is added: a full ring forgets the oldest, or, sbstat,*)
(* refuses it.                                                             *)
LEMMA PublishLog ==
  ASSUME OneThread, IInv, IInv', RingInv, NEW k \in Sampler, Publish(k)
  PROVE  taken \in 1 .. MaxSample /\ LogAdd(taken)
<1>1. /\ MICSTAT_NBUF \in Nat \ {0} /\ MaxSample \in Nat
      /\ buffer_base \in Slot /\ buffer_next \in Slot /\ buffer_size \in 0 .. MICSTAT_NBUF
      /\ buffer \in [Slot -> Sample] /\ working_buf \in Sample
      /\ buffer_next = Around(buffer_base, buffer_size)
  BY BufferAssumption DEF IInv, TypeOK, RingInv
<1>2. /\ taken \in 1 .. MaxSample /\ Arrived' = taken /\ working_buf.ts = taken
  <2>1. kpc[k] = "publish" /\ kpc'[k] = "unlock" /\ taken' = taken /\ Thread(k)
    BY DEF Publish, IInv, TypeOK, Thread
  <2>2. k \in InHand
    BY <2>1 DEF InHand
  <2>3. Arrived' = taken
    BY <2>1, ArrivedIs DEF Hand
  <2>4. working_buf.ts = taken /\ taken > 0 /\ taken \in 0 .. MaxSample
    BY <2>1, <2>2 DEF RingInv, IInv, TypeOK
  <2> QED BY <1>1, <2>3, <2>4
<1>3. /\ Numbers \in [Slot -> Nat]
      /\ TheLog = Contents(Numbers, buffer_base, buffer_size)
      /\ TheLog' = Contents(Numbers', buffer_base', buffer_size')
      /\ Len(TheLog) = buffer_size
  <2>1. Numbers \in [Slot -> Nat] /\ TheLog = Contents(Numbers, buffer_base, buffer_size)
    BY NumbersAre DEF IInv
  <2>2. TypeOK'
    BY DEF IInv
  <2>3. (TheLog = Contents(Numbers, buffer_base, buffer_size))'
    BY <2>2, LogIs, PTL
  <2> QED BY <1>1, <2>1, <2>3, ContentsIs
<1>4. ThePages' = ThePages /\ seen' = seen
  BY DEF Publish, readers, ThePages
<1>5. ASSUME buffer' = [buffer EXCEPT ![buffer_next] = working_buf]
      PROVE  Numbers' = [Numbers EXCEPT ![buffer_next] = taken]
  BY <1>1, <1>2, <1>5 DEF Numbers
<1> taken \in Nat
  BY <1>1, <1>2
<1>6. CASE ~RingFull /\ (PublishOver \/ PublishIfRoom)
  <2>1. /\ buffer' = [buffer EXCEPT ![buffer_next] = working_buf]
        /\ buffer_size' = buffer_size + 1 /\ buffer_base' = buffer_base
        /\ buffer_size \in 0 .. MICSTAT_NBUF - 1
    BY <1>1, <1>6 DEF PublishOver, PublishIfRoom, RingFull
  <2>2. Contents([Numbers EXCEPT ![Around(buffer_base, buffer_size)] = taken],
                 buffer_base, buffer_size + 1) = Append(TheLog, taken)
    BY <1>1, <1>2, <1>3, <2>1, ContentsGrow
  <2>3. Numbers' = [Numbers EXCEPT ![Around(buffer_base, buffer_size)] = taken]
    BY <1>1, <1>5, <2>1
  <2>4. TheLog' = Contents(Numbers', buffer_base, buffer_size + 1)
    BY <1>3, <2>1
  <2>5. TheLog' = Append(TheLog, taken)
    BY <2>2, <2>3, <2>4
  <2>6. Len(TheLog) < MICSTAT_NBUF
    BY <1>1, <1>3, <2>1
  <2> QED BY <1>2, <1>4, <2>5, <2>6 DEF LogAdd
<1>7. CASE RingFull /\ PublishOver /\ Driver # "sbstat"
  <2>1. /\ buffer' = [buffer EXCEPT ![buffer_next] = working_buf]
        /\ buffer_size' = MICSTAT_NBUF /\ buffer_size = MICSTAT_NBUF
        /\ buffer_base' = Advance(buffer_base)
    BY <1>1, <1>7 DEF PublishOver, RingFull
  <2>2. buffer_next = buffer_base
    BY <1>1, <2>1, AroundEnds
  <2>3. Contents([Numbers EXCEPT ![buffer_base] = taken], Advance(buffer_base), MICSTAT_NBUF)
          = Append(Tail(TheLog), taken)
    BY <1>1, <1>2, <1>3, <2>1, ContentsSlide
  <2>4. TheLog' = Append(Tail(TheLog), taken)
    BY <1>3, <1>5, <2>1, <2>2, <2>3
  <2> QED BY <1>2, <1>3, <1>4, <1>7, <2>1, <2>4 DEF LogAdd
<1>8. CASE RingFull /\ PublishIfRoom /\ Driver = "sbstat"
  <2>1. UNCHANGED <<buffer, buffer_base, buffer_size>> /\ buffer_size = MICSTAT_NBUF
    BY <1>1, <1>8 DEF PublishIfRoom, RingFull, ring
  <2>2. TheLog' = TheLog
    BY <2>1 DEF TheLog, Unread
  <2> QED BY <1>2, <1>3, <1>4, <1>8, <2>1, <2>2 DEF LogAdd
<1> QED BY <1>2, <1>6, <1>7, <1>8 DEF Publish

(* One turn of the loop of micstat_show_stat takes the oldest.             *)
LEMMA StatPrintLog ==
  ASSUME IInv, IInv', NEW r \in Reader, StatPrint(r)
  PROVE  /\ TheLog # <<>>
         /\ Number(buffer[buffer_base]) = Head(TheLog)
         /\ TheLog' = Tail(TheLog)
         /\ ThePages' = [ThePages EXCEPT ![r] = Append(ThePages[r], Head(TheLog))]
         /\ Arrived' = Arrived /\ seen' = seen
<1>1. /\ MICSTAT_NBUF \in Nat \ {0}
      /\ buffer_base \in Slot /\ buffer_size \in 1 .. MICSTAT_NBUF
      /\ buffer \in [Slot -> Sample] /\ page \in [Reader -> Seq(Sample)]
  BY BufferAssumption DEF IInv, TypeOK, StatPrint, MoreToPrint
<1>2. /\ buffer' = buffer /\ buffer_base' = Advance(buffer_base) /\ buffer_size' = buffer_size - 1
      /\ page' = [page EXCEPT ![r] = Append(page[r], buffer[buffer_base])]
      /\ Arrived' = Arrived /\ seen' = seen
  BY DEF StatPrint, threads, Arrived, InHand
<1>3. Numbers \in [Slot -> Nat] /\ TheLog = Contents(Numbers, buffer_base, buffer_size)
      /\ Numbers[buffer_base] = Number(buffer[buffer_base])
  BY <1>1, NumbersAre DEF IInv, Number
<1>4. TheLog' = Contents(Numbers', buffer_base', buffer_size')
  <2>1. TypeOK'
    BY DEF IInv
  <2>2. (TheLog = Contents(Numbers, buffer_base, buffer_size))'
    BY <2>1, LogIs, PTL
  <2> QED BY <2>2
<1>5. Numbers' = Numbers
  BY <1>2 DEF Numbers
<1>6. /\ TheLog # <<>> /\ Head(TheLog) = Numbers[buffer_base]
      /\ Tail(TheLog) = Contents(Numbers, Advance(buffer_base), buffer_size - 1)
  BY <1>1, <1>3, ContentsShrink
<1>7. TheLog' = Tail(TheLog)
  BY <1>2, <1>4, <1>5, <1>6
<1>8. NumbersOf(page'[r]) = Append(NumbersOf(page[r]), Head(TheLog))
  BY <1>1, <1>2, <1>3, <1>6, NumbersAppend
<1>9. ThePages' = [ThePages EXCEPT ![r] = Append(ThePages[r], Head(TheLog))]
  BY <1>1, <1>2, <1>8 DEF ThePages
<1> QED BY <1>2, <1>3, <1>6, <1>7, <1>9

LEMMA NextLog == OneThread /\ IInv /\ IInv' /\ RingInv /\ [Next]_vars => [Log!Next]_Log!vars
<1> SUFFICES ASSUME OneThread, IInv, IInv', RingInv, [Next]_vars PROVE [Log!Next]_Log!vars
  OBVIOUS
<1> USE DEF TheLog, ThePages, NumbersOf
<1>1. ASSUME NEW k \in Sampler, Publish(k) PROVE Log!Next
  <2>1. taken \in 1 .. MaxSample /\ LogAdd(taken)
    BY <1>1, PublishLog
  <2>2. Log!Add(taken)
    BY <2>1 DEF LogAdd, Log!Add
  <2> QED BY <2>1, <2>2 DEF Log!Next
<1>2. ASSUME NEW r \in Reader, StatPrint(r) PROVE Log!Next
  <2>1. Log!Take(r)
    BY <1>2, StatPrintLog DEF Log!Take
  <2> QED BY <2>1 DEF Log!Next
<1>3. ASSUME UNCHANGED ring
      PROVE  TheLog' = TheLog
  BY <1>3 DEF ring, Unread
<1>4. ASSUME UNCHANGED threads
      PROVE  Arrived' = Arrived
  BY <1>4 DEF threads, Arrived, InHand
<1>5. ASSUME NEW r \in Reader, StatOpen(r) PROVE Log!Next
  <2>1. NumbersOf(<<>>) = <<>>
    <3>1. NumbersOf(<<>>) \in Seq(Nat) /\ Len(NumbersOf(<<>>)) = 0
      BY EmptySeq
    <3> QED BY <3>1
  <2>2. ThePages' = [ThePages EXCEPT ![r] = <<>>]
    <3> HIDE DEF TheLog, NumbersOf
    <3>1. page \in [Reader -> Seq(Sample)] /\ page' = [page EXCEPT ![r] = <<>>]
      BY <1>5 DEF StatOpen, IInv, TypeOK
    <3> QED BY <2>1, <3>1
  <2>3. TheLog' = TheLog /\ Arrived' = Arrived /\ seen' = seen
    BY <1>3, <1>4, <1>5 DEF StatOpen
  <2>4. Log!Open(r)
    BY <2>2, <2>3 DEF Log!Open
  <2> QED BY <2>4 DEF Log!Next
<1>6. ASSUME NEW r \in Reader, ShowLast(r) PROVE Log!Next
  <2>1. TheLog' = TheLog /\ Arrived' = Arrived /\ ThePages' = ThePages
    BY <1>3, <1>4, <1>6 DEF ShowLast
  <2>2. seen' = [seen EXCEPT ![r] = Arrived]
    BY <1>6 DEF ShowLast, RingInv
  <2>3. Log!Peek(r)
    BY <2>1, <2>2 DEF Log!Peek
  <2> QED BY <2>3 DEF Log!Next
<1>7. ASSUME NEW r \in Reader, Clear(r) PROVE Log!Next
  <2>1. TheLog' = <<>>
    <3> HIDE DEF TheLog
    <3>1. TypeOK' /\ buffer' = buffer /\ buffer_base' = buffer_base /\ buffer_size' = 0
      BY <1>7 DEF IInv, Clear
    <3>2. (TheLog = Contents(Numbers, buffer_base, buffer_size))'
      BY <3>1, LogIs, PTL
    <3>3. Numbers' = Numbers /\ Numbers \in [Slot -> Nat] /\ buffer_base \in Slot
      BY <3>1, NumbersAre DEF Numbers, IInv, TypeOK
    <3>4. Contents(Numbers, buffer_base, 0) = <<>>
      BY <3>3, ContentsEmpty
    <3> QED BY <3>1, <3>2, <3>3, <3>4
  <2>2. Arrived' = Arrived /\ ThePages' = ThePages /\ seen' = seen
    BY <1>4, <1>7 DEF Clear, readers
  <2>3. Log!Clear
    BY <2>1, <2>2 DEF Log!Clear
  <2> QED BY <2>3 DEF Log!Next
<1>8. ASSUME NEW k \in Sampler, RestartFirst(k) \/ RestartLast(k) \/ Unlock(k) PROVE UNCHANGED Log!vars
  <2>1. UNCHANGED <<ring, readers>> /\ Thread(k)
    BY <1>8 DEF RestartFirst, RestartLast, Unlock, Thread
  <2>2. Arrived' = Arrived
    <3>1. CASE RestartFirst(k)
      <4>1. kpc[k] = "sleep" /\ kpc'[k] = "restart" /\ taken' = taken + 1
        BY <3>1 DEF RestartFirst, IInv, TypeOK
      <4>2. Arrived = taken /\ Arrived' = taken' - 1 /\ taken \in Nat
        BY <2>1, <4>1, ArrivedIs DEF Hand
      <4> QED BY <4>1, <4>2
    <3>2. CASE RestartLast(k)
      <4>1. kpc[k] = "restart" /\ kpc'[k] = "publish" /\ taken' = taken
        BY <3>2 DEF RestartLast, IInv, TypeOK
      <4> QED BY <2>1, <4>1, ArrivedIs DEF Hand
    <3>3. CASE Unlock(k)
      <4>1. kpc[k] = "unlock" /\ kpc'[k] = "sleep" /\ taken' = taken
        BY <3>3 DEF Unlock, IInv, TypeOK
      <4> QED BY <2>1, <4>1, ArrivedIs DEF Hand
    <3> QED BY <1>8, <3>1, <3>2, <3>3
  <2>3. TheLog' = TheLog /\ ThePages' = ThePages /\ seen' = seen
    BY <1>3, <2>1 DEF readers
  <2> QED BY <2>2, <2>3 DEF Log!vars
<1>9. ASSUME (\E r \in Reader : StatReturn(r)) \/ UNCHANGED vars PROVE UNCHANGED Log!vars
  <2>1. UNCHANGED <<ring, threads, page, seen>>
    BY <1>9 DEF StatReturn, vars, readers
  <2>2. TheLog' = TheLog /\ Arrived' = Arrived /\ ThePages' = ThePages
    BY <1>3, <1>4, <2>1
  <2> QED BY <2>1, <2>2 DEF Log!vars
<1> QED
  BY <1>1, <1>2, <1>5, <1>6, <1>7, <1>8, <1>9 DEF Next, Thread, Process

(* The one ring of haswellstat, sbstat or micstat, its lock and its page   *)
(* limit, is a log that forgets the oldest, or of sbstat refuses the       *)
(* newest sample when it is full; of micstat, with one thread.             *)
THEOREM Implements ==
  ASSUME OneThread
  PROVE  Spec => ImplementsLog
<1>1. Init => Log!Init
  BY InitLog
<1>2. IInv /\ RingInv /\ IInv' /\ [Next]_vars => [Log!Next]_Log!vars
  BY NextLog
<1> QED BY <1>1, <1>2, RingHolds, PTL DEF Spec, ImplementsLog, Log!Spec

(* sbstat: a sample in the ring stays there until it is read.              *)
LEMMA NextKept ==
  ASSUME Driver = "sbstat", IInv, RingInv, [Next]_vars, NEW i \in 1 .. buffer_size
  PROVE  \/ \E j \in 1 .. buffer_size' : Unread'[j] = Unread[i]
         \/ \E r \in Reader : page'[r] = Append(page[r], Unread[i])
<1>1. /\ MICSTAT_NBUF \in Nat \ {0} /\ buffer_base \in Slot /\ buffer_size \in 0 .. MICSTAT_NBUF
      /\ buffer \in [Slot -> Sample] /\ page \in [Reader -> Seq(Sample)]
      /\ buffer_next = Around(buffer_base, buffer_size)
  BY BufferAssumption DEF IInv, TypeOK, RingInv
<1>2. i - 1 \in 0 .. MICSTAT_NBUF - 1 /\ i \in 1 .. MICSTAT_NBUF
  BY <1>1
<1>3. Unread[i] = buffer[Around(buffer_base, i - 1)]
  BY DEF Unread
<1>4. CASE UNCHANGED ring
  BY <1>4 DEF ring, Unread
<1>5. ASSUME NEW k \in Sampler, Publish(k), ~RingFull
      PROVE  \E j \in 1 .. buffer_size' : Unread'[j] = Unread[i]
  <2>1. /\ buffer' = [buffer EXCEPT ![buffer_next] = working_buf]
        /\ buffer_size' = buffer_size + 1 /\ buffer_base' = buffer_base
        /\ buffer_size \in 0 .. MICSTAT_NBUF - 1
    BY <1>1, <1>5 DEF Publish, PublishIfRoom, RingFull
  <2>2. Around(buffer_base, i - 1) # buffer_next
    BY <1>1, <1>2, <2>1, AroundDistinct
  <2>3. i \in 1 .. buffer_size'
    BY <1>1, <2>1
  <2>4. Unread'[i] = buffer'[Around(buffer_base', i - 1)]
    BY <2>3 DEF Unread
  <2>5. Around(buffer_base, i - 1) \in Slot
    BY <1>1, <1>2, AroundIs
  <2>6. Unread'[i] = Unread[i]
    BY <1>1, <1>3, <2>1, <2>2, <2>4, <2>5
  <2> QED BY <2>3, <2>6
<1>6. ASSUME NEW r \in Reader, StatPrint(r), i = 1
      PROVE  page'[r] = Append(page[r], Unread[i])
  <2>1. Around(buffer_base, i - 1) = buffer_base
    BY <1>1, <1>6, AroundEnds
  <2> QED BY <1>1, <1>3, <1>6, <2>1 DEF StatPrint
<1>7. ASSUME NEW r \in Reader, StatPrint(r), i # 1
      PROVE  \E j \in 1 .. buffer_size' : Unread'[j] = Unread[i]
  <2>1. buffer' = buffer /\ buffer_base' = Advance(buffer_base) /\ buffer_size' = buffer_size - 1
    BY <1>7 DEF StatPrint
  <2>2. i - 1 \in 1 .. buffer_size - 1 /\ i - 2 \in 0 .. MICSTAT_NBUF - 1 /\ (i - 2) + 1 = i - 1
        /\ (i - 1) - 1 = i - 2
    BY <1>1, <1>2, <1>7
  <2>3. Around(Advance(buffer_base), i - 2) = Around(buffer_base, i - 1)
    BY <1>1, <2>2, AroundNext
  <2>4. i - 1 \in 1 .. buffer_size'
    BY <2>1, <2>2
  <2>5. Unread'[i - 1] = buffer'[Around(buffer_base', (i - 1) - 1)]
    BY <2>4 DEF Unread
  <2>6. Unread'[i - 1] = Unread[i]
    BY <1>3, <2>1, <2>2, <2>3, <2>5
  <2> QED BY <2>4, <2>6
<1>8. ASSUME ~ UNCHANGED ring
      PROVE  (\E k \in Sampler : Publish(k) /\ ~RingFull) \/ (\E r \in Reader : StatPrint(r))
  BY <1>8 DEF Next, Thread, Process, RestartFirst, RestartLast, Publish, PublishIfRoom, Unlock,
              StatOpen, StatReturn, ShowLast, Clear, vars
<1> QED BY <1>4, <1>5, <1>6, <1>7, <1>8

(* Nothing overwrites a sample in the ring of sbstat: it leaves by a read. *)
THEOREM NothingOverwritten ==
  ASSUME Driver = "sbstat"
  PROVE  Spec => KeptUntilRead
<1>1. OneThread
  BY DEF OneThread
<1>2. IInv /\ RingInv /\ [Next]_vars
        => [\A i \in 1 .. buffer_size :
              \/ \E j \in 1 .. buffer_size' : Unread'[j] = Unread[i]
              \/ \E r \in Reader : page'[r] = Append(page[r], Unread[i])]_vars
  BY NextKept
<1>3. Spec => [](IInv /\ RingInv)
  BY <1>1, RingHolds
<1> QED BY <1>2, <1>3, PTL DEF Spec, KeptUntilRead
=============================================================================
