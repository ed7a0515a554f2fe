------------------------- MODULE XstatBufferProofs -------------------------
(***************************************************************************)
(* Proofs about XstatBuffer, for a ring of any size, pages of any size and *)
(* any number of processes.                                                *)
(***************************************************************************)
EXTENDS XstatBuffer, TLAPS

-----------------------------------------------------------------------------
(* Arithmetic of the ring.                                                 *)

(* The slot after the last one is slot 0, and every other slot is followed *)
(* by its successor.                                                       *)
LEMMA AdvanceIs ==
  ASSUME NEW x \in Slot
  PROVE  /\ Advance(x) = IF x = XSTAT_NBUF - 1 THEN 0 ELSE x + 1
         /\ Advance(x) \in Slot
  BY BufferAssumption, SMT DEF Advance, Slot

(* Going at most once round the ring from slot x.                          *)
LEMMA AroundIs ==
  ASSUME NEW x \in Slot, NEW i \in 0 .. XSTAT_NBUF
  PROVE  /\ Around(x, i) = IF x + i < XSTAT_NBUF THEN x + i ELSE x + i - XSTAT_NBUF
         /\ Around(x, i) \in Slot
  BY BufferAssumption, SMT DEF Around, Slot

(* The slot before x, as show_last_attr computes it.                       *)
LEMMA BeforeIs ==
  ASSUME NEW x \in Slot
  PROVE  /\ Before(x) = IF x = 0 THEN XSTAT_NBUF - 1 ELSE x - 1
         /\ Before(x) \in Slot
  BY BufferAssumption, SMT DEF Before, Slot

(* Slot b is 0 slots after b and, once round the ring, XSTAT_NBUF after it. *)
LEMMA AroundEnds ==
  ASSUME NEW b \in Slot
  PROVE  Around(b, 0) = b /\ Around(b, XSTAT_NBUF) = b
  BY BufferAssumption, AroundIs DEF Slot

(* One slot further from b, or as far from the slot after b.               *)
LEMMA AroundNext ==
  ASSUME NEW b \in Slot, NEW i \in 0 .. XSTAT_NBUF - 1
  PROVE  /\ Advance(Around(b, i)) = Around(b, i + 1)
         /\ Around(Advance(b), i) = Around(b, i + 1)
<1> DEFINE c == Around(b, i)
<1>1. /\ c \in Slot
      /\ c = IF b + i < XSTAT_NBUF THEN b + i ELSE b + i - XSTAT_NBUF
  BY AroundIs, BufferAssumption
<1>2. Around(b, i + 1) = IF b + (i + 1) < XSTAT_NBUF THEN b + (i + 1)
                                                     ELSE b + (i + 1) - XSTAT_NBUF
  BY AroundIs, BufferAssumption
<1>3. Advance(c) = IF c = XSTAT_NBUF - 1 THEN 0 ELSE c + 1
  BY <1>1, AdvanceIs
<1>4. Advance(b) = IF b = XSTAT_NBUF - 1 THEN 0 ELSE b + 1
  BY AdvanceIs
<1>5. Around(Advance(b), i) = IF Advance(b) + i < XSTAT_NBUF THEN Advance(b) + i
                                                            ELSE Advance(b) + i - XSTAT_NBUF
  BY AdvanceIs, AroundIs, BufferAssumption
<1>6. Advance(c) = Around(b, i + 1)
  BY <1>1, <1>2, <1>3, BufferAssumption DEF Slot
<1>7. Around(Advance(b), i) = Around(b, i + 1)
  BY <1>2, <1>4, <1>5, BufferAssumption DEF Slot
<1> QED
  BY <1>6, <1>7

(* Less than once round, no slot comes up twice.                           *)
LEMMA AroundDistinct ==
  ASSUME NEW b \in Slot, NEW i \in 0 .. XSTAT_NBUF - 1, NEW j \in 0 .. XSTAT_NBUF - 1,
         i # j
  PROVE  Around(b, i) # Around(b, j)
<1>1. Around(b, i) = IF b + i < XSTAT_NBUF THEN b + i ELSE b + i - XSTAT_NBUF
  BY AroundIs, BufferAssumption
<1>2. Around(b, j) = IF b + j < XSTAT_NBUF THEN b + j ELSE b + j - XSTAT_NBUF
  BY AroundIs, BufferAssumption
<1> QED
  BY <1>1, <1>2, BufferAssumption DEF Slot

(* The slot last<n> prints is the one the thread filled last.              *)
LEMMA BeforeAdvance ==
  ASSUME NEW x \in Slot
  PROVE  Before(Advance(x)) = x
<1>1. Advance(x) \in Slot /\ Advance(x) = IF x = XSTAT_NBUF - 1 THEN 0 ELSE x + 1
  BY AdvanceIs
<1>2. Before(Advance(x)) = IF Advance(x) = 0 THEN XSTAT_NBUF - 1 ELSE Advance(x) - 1
  BY <1>1, BeforeIs
<1> QED
  BY <1>1, <1>2, BufferAssumption DEF Slot

-----------------------------------------------------------------------------
(* What roll_buffer and show_stat_attr do to a window.                     *)

LEMMA WindowEmpty ==
  ASSUME NEW buf, NEW b, NEW last
  PROVE  Window(buf, b, 0, last)
  BY DEF Window

(* A ring that is not full takes the next sample at the end of its window. *)
LEMMA WindowGrows ==
  ASSUME NEW buf \in [Slot -> Nat], NEW b \in Slot, NEW n \in 0 .. XSTAT_NBUF - 1,
         NEW last \in Nat, Window(buf, b, n, last)
  PROVE  Window([buf EXCEPT ![Around(b, n)] = last + 1], b, n + 1, last + 1)
<1> DEFINE new == [buf EXCEPT ![Around(b, n)] = last + 1]
<1> SUFFICES ASSUME NEW i \in 0 .. n
             PROVE  new[Around(b, i)] = (last + 1) - (n + 1) + 1 + i
  BY BufferAssumption DEF Window
<1>1. Around(b, i) \in Slot /\ i \in 0 .. XSTAT_NBUF - 1
  BY AroundIs, BufferAssumption
<1>2. CASE i = n
  BY <1>1, <1>2
<1>3. CASE i # n
  <2>1. new[Around(b, i)] = buf[Around(b, i)]
    BY <1>1, <1>3, AroundDistinct
  <2>2. buf[Around(b, i)] = last - n + 1 + i
    BY <1>3 DEF Window
  <2> QED BY <2>1, <2>2
<1> QED
  BY <1>2, <1>3

(* A full one takes it in the place of its oldest.                         *)
LEMMA WindowSlides ==
  ASSUME NEW buf \in [Slot -> Nat], NEW b \in Slot,
         NEW last \in Nat, Window(buf, b, XSTAT_NBUF, last)
  PROVE  Window([buf EXCEPT ![b] = last + 1], Advance(b), XSTAT_NBUF, last + 1)
<1> DEFINE new == [buf EXCEPT ![b] = last + 1]
<1> SUFFICES ASSUME NEW i \in 0 .. XSTAT_NBUF - 1
             PROVE  new[Around(Advance(b), i)] = (last + 1) - XSTAT_NBUF + 1 + i
  BY DEF Window
<1>1. Around(Advance(b), i) = Around(b, i + 1) /\ Around(b, i + 1) \in Slot
  BY AroundNext, AroundIs, BufferAssumption
<1>2. CASE i = XSTAT_NBUF - 1
  <2>1. Around(b, i + 1) = b
    BY <1>2, AroundEnds, BufferAssumption
  <2> QED BY <1>1, <1>2, <2>1, BufferAssumption
<1>3. CASE i # XSTAT_NBUF - 1
  <2>1. i + 1 \in 0 .. XSTAT_NBUF - 1 /\ i + 1 # 0
    BY <1>3, BufferAssumption
  <2>2. Around(b, i + 1) # b
    <3>1. Around(b, i + 1) # Around(b, 0)
      BY <2>1, AroundDistinct, BufferAssumption
    <3> QED BY <3>1, AroundEnds
  <2>3. buf[Around(b, i + 1)] = last - XSTAT_NBUF + 1 + (i + 1)
    BY <2>1 DEF Window
  <2> QED BY <1>1, <2>2, <2>3, BufferAssumption
<1> QED
  BY <1>2, <1>3

(* Its oldest sample leaves the window of a ring that has one.             *)
LEMMA WindowShrinks ==
  ASSUME NEW buf, NEW b \in Slot, NEW n \in 1 .. XSTAT_NBUF,
         NEW last \in Nat, Window(buf, b, n, last)
  PROVE  buf[b] = last - n + 1 /\ Window(buf, Advance(b), n - 1, last)
<1>1. buf[b] = last - n + 1
  <2>1. buf[Around(b, 0)] = last - n + 1 + 0
    BY BufferAssumption DEF Window
  <2> QED BY <2>1, AroundEnds, BufferAssumption
<1>2. ASSUME NEW i \in 0 .. (n - 1) - 1
      PROVE  buf[Around(Advance(b), i)] = last - (n - 1) + 1 + i
  <2>1. Around(Advance(b), i) = Around(b, i + 1)
    BY AroundNext, BufferAssumption
  <2>2. buf[Around(b, i + 1)] = last - n + 1 + (i + 1)
    BY BufferAssumption DEF Window
  <2> QED BY <2>1, <2>2, BufferAssumption
<1> QED
  BY <1>1, <1>2 DEF Window

(* print_buffer writes no more than the page has room for.                 *)
LEMMA PrintedFits ==
  ASSUME NEW len \in RecordLen, NEW lim \in 0 .. PAGE_SIZE, lim > PAGE_SIZE \div 2
  PROVE  /\ Printed(len, lim) = len
         /\ lim - Printed(len, lim) \in 0 .. PAGE_SIZE
  BY BufferAssumption, SMT DEF Printed

-----------------------------------------------------------------------------
(* Types.                                                                  *)

LEMMA InitType == Init => TypeOK
  BY BufferAssumption, SMT DEF Init, TypeOK, Slot

LEMMA NextType == TypeOK /\ [Next]_vars => TypeOK'
<1> SUFFICES ASSUME TypeOK, [Next]_vars PROVE TypeOK'
  OBVIOUS
<1> USE DEF TypeOK
<1>1. CASE Restart
  BY <1>1, BufferAssumption DEF Restart, ring
<1>2. CASE Publish
  <2>1. buffer_next' \in Slot /\ buffer_base' \in Slot
    BY <1>2, AdvanceIs DEF Publish
  <2>2. buffer_size' \in 0 .. XSTAT_NBUF
    BY <1>2, BufferAssumption DEF Publish, RingFull
  <2> QED BY <1>2, <2>1, <2>2 DEF Publish
<1>3. ASSUME NEW r \in Reader, StatOpen(r) PROVE TypeOK'
  BY <1>3, BufferAssumption DEF StatOpen, ring
<1>4. ASSUME NEW r \in Reader, StatPrint(r) PROVE TypeOK'
  <2>1. buffer_base' \in Slot /\ buffer[buffer_base] \in 0 .. MaxSample
    BY <1>4, AdvanceIs DEF StatPrint
  <2>2. buffer_size' \in 0 .. XSTAT_NBUF
    BY <1>4, BufferAssumption DEF StatPrint, MoreToPrint
  <2>3. limit' \in [Reader -> 0 .. PAGE_SIZE] /\ cut' \in BOOLEAN
    BY <1>4, PrintedFits DEF StatPrint, MoreToPrint
  <2>4. page' \in [Reader -> Seq(0 .. MaxSample)]
    BY <1>4, <2>1 DEF StatPrint
  <2> QED BY <1>4, <2>1, <2>2, <2>3, <2>4 DEF StatPrint
<1>5. ASSUME NEW r \in Reader, StatReturn(r) PROVE TypeOK'
  BY <1>5, BufferAssumption DEF StatReturn, ring
<1>6. ASSUME NEW r \in Reader, ShowLast(r) PROVE TypeOK'
  <2>1. buffer[BufferLast] \in 0 .. MaxSample
    BY BeforeIs DEF BufferLast
  <2> QED BY <1>6, <2>1 DEF ShowLast, ring
<1>7. ASSUME NEW r \in Reader, Reset(r) PROVE TypeOK'
  BY <1>7, BufferAssumption DEF Reset
<1>8. CASE UNCHANGED vars
  BY <1>8 DEF vars, ring
<1> QED
  BY <1>1, <1>2, <1>3, <1>4, <1>5, <1>6, <1>7, <1>8 DEF Next, Thread, Process

(* Every index stays inside the ring and every counter inside its bound,   *)
(* whatever the thread and the processes do.                               *)
THEOREM TypeCorrect == Spec => []TypeOK
<1>1. Init => TypeOK
  BY InitType
<1>2. TypeOK /\ [Next]_vars => TypeOK'
  BY NextType
<1> QED
  BY <1>1, <1>2, PTL DEF Spec

-----------------------------------------------------------------------------
(* The window of unread samples.                                           *)

LEMMA InitInv == Init => IInv
<1> SUFFICES ASSUME Init PROVE IInv
  OBVIOUS
<1>1. TypeOK
  BY InitType
<1>2. RingShape
  BY BufferAssumption, SMT DEF Init, RingShape, SlotOf, Around
<1>3. LastIsNewest
  BY <1>1, BeforeIs DEF Init, TypeOK, LastIsNewest, BufferLast, Published
<1>4. WindowIsNewest /\ NoCutRecord /\ RunningThread /\ DeliveredIsOld
  BY WindowEmpty DEF Init, WindowIsNewest, NoCutRecord, RunningThread, DeliveredIsOld, Published
<1>5. LoopHoldsLock /\ PageIsRun /\ PageMeetsWindow
  BY BufferAssumption DEF Init, LoopHoldsLock, PageIsRun, PageMeetsWindow
<1> QED
  BY <1>1, <1>2, <1>3, <1>4, <1>5 DEF IInv

(* Storing a sample: the window moves on by one, and loses its oldest when *)
(* it cannot grow.                                                         *)
LEMMA PublishInv == IInv /\ TypeOK' /\ Publish => IInv'
<1> SUFFICES ASSUME IInv, TypeOK', Publish PROVE IInv'
  OBVIOUS
<1>1. /\ XSTAT_NBUF \in Nat \ {0}
      /\ buffer_base \in Slot /\ buffer_next \in Slot /\ buffer_size \in 0 .. XSTAT_NBUF
      /\ buffer \in [Slot -> Nat] /\ delivered \in Nat /\ working_buf \in Nat
  BY BufferAssumption DEF IInv, TypeOK
<1>2. Published' = Published + 1 /\ working_buf = Published + 1 /\ Published \in Nat
  BY DEF Publish, Published, RunningThread, IInv, TypeOK
<1>3. /\ buffer' = [buffer EXCEPT ![buffer_next] = Published + 1]
      /\ buffer_next' = Advance(buffer_next)
      /\ buffer_next = Around(buffer_base, buffer_size)
  BY <1>2 DEF Publish, IInv, RingShape, SlotOf
<1>4. RingShape' /\ WindowIsNewest' /\ DeliveredIsOld'
  <2>1. Window(buffer, buffer_base, buffer_size, Published) /\ delivered + buffer_size <= Published
    BY DEF IInv, WindowIsNewest, DeliveredIsOld
  <2>2. delivered' = delivered
    BY DEF Publish
  <2>3. CASE ~RingFull
    <3>1. /\ buffer_size' = buffer_size + 1 /\ buffer_base' = buffer_base
          /\ buffer_size \in 0 .. XSTAT_NBUF - 1
      BY <1>1, <2>3 DEF Publish, RingFull
    <3>2. Around(buffer_base, buffer_size + 1) = Advance(buffer_next)
      BY <1>1, <1>3, <3>1, AroundNext
    <3>3. Window(buffer', buffer_base, buffer_size + 1, Published + 1)
      BY <1>1, <1>2, <1>3, <2>1, <3>1, WindowGrows
    <3>4. delivered + (buffer_size + 1) <= Published + 1
      BY <1>1, <1>2, <2>1
    <3> QED BY <1>2, <1>3, <2>2, <3>1, <3>2, <3>3, <3>4
            DEF RingShape, SlotOf, WindowIsNewest, DeliveredIsOld
  <2>4. CASE RingFull
    <3>1. /\ buffer_size' = XSTAT_NBUF /\ buffer_size = XSTAT_NBUF
          /\ buffer_base' = Advance(buffer_base)
      BY <1>1, <2>4 DEF Publish, RingFull
    <3>2. buffer_next = buffer_base
      BY <1>1, <1>3, <3>1, AroundEnds
    <3>3. Around(Advance(buffer_base), XSTAT_NBUF) = Advance(buffer_base)
      BY <1>1, AdvanceIs, AroundEnds
    <3>4. Window(buffer', Advance(buffer_base), XSTAT_NBUF, Published + 1)
      BY <1>1, <1>2, <1>3, <2>1, <3>1, <3>2, WindowSlides
    <3>5. delivered + XSTAT_NBUF <= Published + 1
      BY <1>1, <1>2, <2>1, <3>1
    <3> QED BY <1>2, <1>3, <2>2, <3>1, <3>2, <3>3, <3>4, <3>5
            DEF RingShape, SlotOf, WindowIsNewest, DeliveredIsOld
  <2> QED BY <2>3, <2>4
<1>5. LastIsNewest'
  <2>1. BufferLast' = buffer_next
    BY <1>1, <1>3, BeforeAdvance DEF BufferLast
  <2> QED BY <1>1, <1>2, <1>3, <2>1 DEF LastIsNewest
<1>6. RunningThread' /\ NoCutRecord' /\ PageIsRun' /\ LoopHoldsLock'
  BY DEF Publish, IInv, RunningThread, NoCutRecord, PageIsRun, LoopHoldsLock
<1>7. PageMeetsWindow'
  BY BufferAssumption DEF Publish, Unlocked, IInv, PageMeetsWindow, LoopHoldsLock
<1> QED
  BY <1>4, <1>5, <1>6, <1>7 DEF IInv

(* Handing one out: the window loses its oldest, which is the successor of *)
(* the one the same read got before.                                       *)
LEMMA StatPrintInv ==
  ASSUME NEW r \in Reader, IInv, TypeOK', StatPrint(r)
  PROVE  IInv'
<1>1. /\ XSTAT_NBUF \in Nat \ {0}
      /\ buffer_base \in Slot /\ buffer_size \in 1 .. XSTAT_NBUF /\ delivered \in Nat
      /\ Published' = Published /\ Published \in Nat
  BY BufferAssumption
     DEF IInv, TypeOK, StatPrint, MoreToPrint, Published, RunningThread
<1>2. /\ buffer' = buffer /\ buffer_next' = buffer_next
      /\ buffer_base' = Advance(buffer_base) /\ buffer_size' = buffer_size - 1
      /\ delivered' = buffer[buffer_base]
  BY DEF StatPrint
<1>3. /\ buffer[buffer_base] = Published - buffer_size + 1
      /\ Window(buffer, Advance(buffer_base), buffer_size - 1, Published)
  BY <1>1, WindowShrinks DEF IInv, WindowIsNewest
<1>4. RingShape'
  <2>1. Around(Advance(buffer_base), buffer_size - 1) = Around(buffer_base, buffer_size)
    <3>1. buffer_size - 1 \in 0 .. XSTAT_NBUF - 1 /\ (buffer_size - 1) + 1 = buffer_size
      BY <1>1
    <3> QED BY <1>1, <3>1, AroundNext
  <2> QED BY <1>2, <2>1 DEF IInv, RingShape, SlotOf
<1>5. WindowIsNewest'
  BY <1>1, <1>2, <1>3 DEF WindowIsNewest
<1>6. LastIsNewest'
  BY <1>1, <1>2 DEF IInv, LastIsNewest, BufferLast
<1>7. DeliveredIsOld'
  <2>1. (Published - buffer_size + 1) + (buffer_size - 1) <= Published
    BY <1>1
  <2> QED BY <1>1, <1>2, <1>3, <2>1 DEF DeliveredIsOld
<1>8. NoCutRecord'
  <2>1. limit[r] \in 0 .. PAGE_SIZE /\ limit[r] > PAGE_SIZE \div 2
    BY DEF IInv, TypeOK, StatPrint, MoreToPrint
  <2>2. ASSUME NEW len \in RecordLen PROVE ~ (Printed(len, limit[r]) < len)
    <3>1. Printed(len, limit[r]) = len
      BY <2>1, PrintedFits
    <3> QED BY <3>1, BufferAssumption
  <2> QED BY <2>2 DEF IInv, NoCutRecord, StatPrint
<1>9. RunningThread' /\ LoopHoldsLock'
  BY DEF IInv, RunningThread, LoopHoldsLock, StatPrint
<1> DEFINE p == page[r]
           s == Published - buffer_size + 1
<1>10. /\ page \in [Reader -> Seq(0 .. MaxSample)] /\ p \in Seq(0 .. MaxSample)
       /\ page' = [page EXCEPT ![r] = Append(p, s)]
       /\ p # <<>> => p[Len(p)] = s - 1
  <2>1. p # <<>> => p[Len(p)] = Published - buffer_size
    BY DEF IInv, PageMeetsWindow, StatPrint
  <2> QED BY <1>1, <1>3, <2>1 DEF StatPrint, IInv, TypeOK
<1> DEFINE q == Append(p, s)
<1>11. q[Len(q)] = s /\ Len(q) = Len(p) + 1 /\ \A i \in 1 .. Len(p) : q[i] = p[i]
  BY <1>10
<1>12. PageIsRun'
  <2>1. ASSUME NEW i \in 1 .. Len(q) - 1 PROVE q[i + 1] = q[i] + 1
    <3>1. CASE i < Len(p)
      <4>1. p[i + 1] = p[i] + 1
        BY <1>10, <3>1 DEF IInv, PageIsRun
      <4> QED BY <1>10, <1>11, <3>1, <4>1
    <3>2. CASE i = Len(p)
      BY <1>1, <1>10, <1>11, <3>2
    <3> QED BY <1>10, <1>11, <3>1, <3>2
  <2>2. ASSUME NEW o \in Reader, NEW i \in 1 .. Len(page'[o]) - 1
        PROVE  page'[o][i + 1] = page'[o][i] + 1
    <3>1. CASE o = r
      <4>1. page'[o] = q
        BY <1>10, <3>1
      <4> HIDE DEF q
      <4> QED BY <2>1, <4>1
    <3>2. CASE o # r
      <4>1. page'[o] = page[o]
        BY <1>10, <3>2
      <4> QED BY <4>1 DEF IInv, PageIsRun
    <3> QED BY <3>1, <3>2
  <2> QED BY <2>2 DEF PageIsRun
<1>13. PageMeetsWindow'
  <2>1. s = Published - (buffer_size - 1)
    BY <1>1
  <2> SUFFICES ASSUME NEW o \in Reader, rpc'[o] = "print"
               PROVE  page'[o][Len(page'[o])] = s
    BY <1>1, <1>2, <2>1 DEF PageMeetsWindow
  <2>2. o = r
    BY BufferAssumption DEF IInv, LoopHoldsLock, StatPrint
  <2> QED BY <1>10, <1>11, <2>2
<1> QED
  BY <1>4, <1>5, <1>6, <1>7, <1>8, <1>9, <1>12, <1>13 DEF IInv

(* Emptying the ring: the window ends where it ended.                      *)
LEMMA ResetInv ==
  ASSUME NEW r \in Reader, IInv, TypeOK', Reset(r)
  PROVE  IInv'
<1>1. /\ Published' = Published /\ Published \in Nat
      /\ buffer_next \in Slot /\ delivered \in Nat /\ buffer_size \in Nat
  BY BufferAssumption DEF Reset, Published, IInv, RunningThread, TypeOK
<1>2. buffer_size' = 0 /\ buffer_base' = buffer_next /\ UNCHANGED <<buffer, buffer_next, delivered>>
  BY DEF Reset
<1>3. RingShape'
  BY <1>1, <1>2, AroundEnds DEF RingShape, SlotOf
<1>4. WindowIsNewest'
  BY <1>2, WindowEmpty DEF WindowIsNewest
<1>5. LastIsNewest'
  BY <1>1, <1>2 DEF IInv, LastIsNewest, BufferLast
<1>6. DeliveredIsOld'
  <2>1. delivered + 0 <= Published
    BY <1>1 DEF IInv, DeliveredIsOld
  <2> QED BY <1>1, <1>2, <2>1 DEF DeliveredIsOld
<1>7. RunningThread' /\ NoCutRecord' /\ PageIsRun' /\ LoopHoldsLock'
  BY DEF Reset, IInv, RunningThread, NoCutRecord, PageIsRun, LoopHoldsLock
<1>8. PageMeetsWindow'
  BY BufferAssumption DEF Reset, Unlocked, IInv, PageMeetsWindow, LoopHoldsLock
<1> QED
  BY <1>3, <1>4, <1>5, <1>6, <1>7, <1>8 DEF IInv

(* The steps that leave the ring alone.                                    *)
LEMMA RestInv ==
  ASSUME IInv, TypeOK',
         \/ Restart
         \/ \E r \in Reader : StatOpen(r) \/ StatReturn(r) \/ ShowLast(r)
         \/ UNCHANGED vars
  PROVE  IInv'
<1>1. UNCHANGED <<ring, delivered>>
  BY DEF Restart, StatOpen, StatReturn, ShowLast, vars, ring
<1>2. Published' = Published
  <2>1. CASE Restart
    BY <2>1, BufferAssumption DEF Restart, Published, IInv, TypeOK
  <2>2. CASE UNCHANGED <<kpc, working_buf>>
    BY <2>2 DEF Published
  <2> QED BY <2>1, <2>2 DEF StatOpen, StatReturn, ShowLast, vars
<1>3. RingShape' /\ WindowIsNewest' /\ LastIsNewest' /\ DeliveredIsOld'
  BY <1>1, <1>2
     DEF ring, IInv, RingShape, WindowIsNewest, LastIsNewest, DeliveredIsOld, SlotOf, BufferLast
<1>4. RunningThread'
  <2>1. CASE Restart
    <3>1. working_buf + 1 >= 1
      BY BufferAssumption DEF IInv, TypeOK
    <3> QED BY <2>1, <3>1 DEF Restart, RunningThread
  <2>2. CASE UNCHANGED <<kpc, working_buf>>
    BY <2>2 DEF IInv, RunningThread
  <2> QED BY <2>1, <2>2 DEF StatOpen, StatReturn, ShowLast, vars
<1>5. NoCutRecord'
  <2>1. ASSUME NEW len \in RecordLen PROVE ~ (Printed(len, PAGE_SIZE) < len)
    <3>1. PAGE_SIZE \in 0 .. PAGE_SIZE /\ PAGE_SIZE > PAGE_SIZE \div 2
      BY BufferAssumption
    <3>2. Printed(len, PAGE_SIZE) = len
      BY <3>1, PrintedFits
    <3> QED BY <3>2, BufferAssumption
  <2> QED BY <2>1 DEF Restart, StatOpen, StatReturn, ShowLast, vars, IInv, NoCutRecord
<1>6. LoopHoldsLock'
  <2>1. CASE UNCHANGED <<rpc, lock>>
    BY <2>1 DEF IInv, LoopHoldsLock
  <2>2. ASSUME NEW r \in Reader, StatOpen(r) \/ StatReturn(r) PROVE LoopHoldsLock'
    <3>1. rpc \in [Reader -> {"idle", "print"}]
      BY DEF IInv, TypeOK
    <3>2. CASE StatOpen(r)
      BY <3>1, <3>2, BufferAssumption DEF StatOpen, Unlocked, IInv, LoopHoldsLock
    <3>3. CASE StatReturn(r)
      BY <3>1, <3>3, BufferAssumption DEF StatReturn, IInv, LoopHoldsLock
    <3> QED BY <2>2, <3>2, <3>3
  <2> QED BY <2>1, <2>2 DEF Restart, ShowLast, vars
<1>7. PageIsRun' /\ PageMeetsWindow'
  <2>1. ASSUME NEW r \in Reader, StatOpen(r) PROVE PageIsRun' /\ PageMeetsWindow'
    <3>1. page' = [page EXCEPT ![r] = <<>>] /\ rpc' = [rpc EXCEPT ![r] = "print"]
      BY <2>1 DEF StatOpen
    <3>2. page \in [Reader -> Seq(0 .. MaxSample)] /\ rpc \in [Reader -> {"idle", "print"}]
      BY DEF IInv, TypeOK
    <3>3. PageIsRun'
      BY <3>1, <3>2 DEF IInv, PageIsRun
    <3>4. PageMeetsWindow'
      <4> SUFFICES ASSUME NEW o \in Reader, rpc'[o] = "print", page'[o] # <<>>
                   PROVE  page'[o][Len(page'[o])] = Published - buffer_size
        BY <1>1, <1>2 DEF PageMeetsWindow, ring
      <4>1. o # r /\ page'[o] = page[o] /\ rpc[o] = "print"
        BY <3>1, <3>2
      <4> QED BY <4>1 DEF IInv, PageMeetsWindow
    <3> QED BY <3>3, <3>4
  <2>2. CASE page' = page /\ \A o \in Reader : rpc'[o] = "print" => rpc[o] = "print"
    BY <2>2, <1>1, <1>2 DEF IInv, PageIsRun, PageMeetsWindow, ring
  <2> QED BY <2>1, <2>2 DEF Restart, StatReturn, ShowLast, vars, IInv, TypeOK
<1> QED
  BY <1>3, <1>4, <1>5, <1>6, <1>7 DEF IInv

LEMMA NextInv == IInv /\ [Next]_vars => IInv'
<1> SUFFICES ASSUME IInv, [Next]_vars PROVE IInv'
  OBVIOUS
<1>1. TypeOK'
  BY NextType DEF IInv
<1> QED
  BY <1>1, PublishInv, StatPrintInv, ResetInv, RestInv DEF Next, Thread, Process

(* The window and the page: what PageIsRun and the rest need to hold for   *)
(* ever.                                                                   *)
THEOREM Inductive == Spec => []IInv
<1> QED
  BY InitInv, NextInv, PTL DEF Spec

(* The three fields of the ring always agree, what it holds unread is the  *)
(* newest samples without a gap, and last<n> shows the newest.             *)
THEOREM RingCorrect == Spec => [](RingShape /\ WindowIsNewest /\ LastIsNewest)
<1>1. IInv => RingShape /\ WindowIsNewest /\ LastIsNewest
  BY DEF IInv
<1> QED
  BY <1>1, Inductive, PTL

(* No sample is handed out through stat<n> twice, by however many          *)
(* processes it is read.                                                   *)
THEOREM DeliveredOnce == Spec => []NoDoubleDelivery
<1>1. IInv => NoDoubleDelivery
  <2> SUFFICES ASSUME IInv, NEW i \in 0 .. buffer_size - 1
               PROVE  buffer[SlotOf(i)] > delivered
    BY DEF NoDoubleDelivery
  <2>1. Published \in Int /\ delivered \in Nat /\ buffer_size \in Nat
    BY BufferAssumption DEF IInv, TypeOK, Published
  <2>2. buffer[SlotOf(i)] = Published - buffer_size + 1 + i
    BY DEF IInv, WindowIsNewest, Window, SlotOf
  <2>3. delivered + buffer_size <= Published
    BY DEF IInv, DeliveredIsOld
  <2> QED BY <2>1, <2>2, <2>3
<1> QED
  BY <1>1, Inductive, PTL

(* Each read of stat<n> returns consecutive samples.                       *)
THEOREM ReadsCorrect == Spec => []PageIsRun
<1>1. IInv => PageIsRun
  BY DEF IInv
<1> QED
  BY <1>1, Inductive, PTL

(* Half a page is room enough for any record, if no record is longer than  *)
(* that.                                                                   *)
THEOREM RecordsWhole == Spec => []NoCutRecord
<1>1. IInv => NoCutRecord
  BY DEF IInv
<1> QED
  BY <1>1, Inductive, PTL

-----------------------------------------------------------------------------
(* The ring as a log.                                                      *)

LEMMA ContentsIs ==
  ASSUME NEW buf \in [Slot -> Nat], NEW b \in Slot, NEW n \in 0 .. XSTAT_NBUF
  PROVE  /\ Contents(buf, b, n) \in Seq(Nat)
         /\ Len(Contents(buf, b, n)) = n
         /\ \A i \in 1 .. n : Contents(buf, b, n)[i] = buf[Around(b, i - 1)]
<1>1. ASSUME NEW i \in 1 .. n PROVE buf[Around(b, i - 1)] \in Nat
  <2>1. i - 1 \in 0 .. XSTAT_NBUF
    BY BufferAssumption
  <2> QED BY <2>1, AroundIs
<1>2. n \in Nat
  BY BufferAssumption
<1> QED
  BY <1>1, <1>2 DEF Contents

LEMMA ContentsEmpty ==
  ASSUME NEW buf \in [Slot -> Nat], NEW b \in Slot
  PROVE  Contents(buf, b, 0) = <<>>
<1>1. /\ Contents(buf, b, 0) \in Seq(Nat)
      /\ Len(Contents(buf, b, 0)) = 0
  BY ContentsIs, BufferAssumption
<1> QED
  BY <1>1

LEMMA ContentsGrow ==
  ASSUME NEW buf \in [Slot -> Nat], NEW b \in Slot, NEW n \in 0 .. XSTAT_NBUF - 1, NEW x \in Nat
  PROVE  Contents([buf EXCEPT ![Around(b, n)] = x], b, n + 1) = Append(Contents(buf, b, n), x)
<1> DEFINE new == [buf EXCEPT ![Around(b, n)] = x]
           old == Contents(buf, b, n)
           grown == Contents(new, b, n + 1)
<1>1. new \in [Slot -> Nat] /\ n \in 0 .. XSTAT_NBUF /\ n + 1 \in 0 .. XSTAT_NBUF
  <2>1. new \in [Slot -> Nat]
    OBVIOUS
  <2>2. n \in 0 .. XSTAT_NBUF /\ n + 1 \in 0 .. XSTAT_NBUF
    BY BufferAssumption
  <2> QED BY <2>1, <2>2
<1>2. /\ old \in Seq(Nat) /\ Len(old) = n
      /\ \A i \in 1 .. n : old[i] = buf[Around(b, i - 1)]
  BY <1>1, ContentsIs
<1>3. /\ grown \in Seq(Nat) /\ Len(grown) = n + 1
      /\ \A i \in 1 .. n + 1 : grown[i] = new[Around(b, i - 1)]
  BY <1>1, ContentsIs
<1>4. ASSUME NEW i \in 1 .. n + 1 PROVE grown[i] = Append(old, x)[i]
  <2>1. i - 1 \in 0 .. XSTAT_NBUF - 1 /\ Around(b, i - 1) \in Slot
    BY AroundIs, BufferAssumption
  <2>2. CASE i = n + 1
    <3>1. i - 1 = n
      BY <2>2, BufferAssumption
    <3>2. grown[i] = x
      BY <1>3, <2>1, <3>1
    <3>3. Append(old, x)[i] = x
      BY <1>2, <2>2
    <3> QED BY <3>2, <3>3
  <2>3. CASE i # n + 1
    <3>1. i \in 1 .. n /\ i - 1 # n
      BY <2>3, BufferAssumption
    <3>2. Around(b, i - 1) # Around(b, n)
      BY <2>1, <3>1, AroundDistinct
    <3>3. grown[i] = buf[Around(b, i - 1)]
      BY <1>3, <2>1, <3>2
    <3>4. Append(old, x)[i] = old[i]
      BY <1>2, <3>1
    <3> QED BY <1>2, <3>1, <3>3, <3>4
  <2> QED BY <2>2, <2>3
<1> HIDE DEF old, grown
<1>5. Append(old, x) \in Seq(Nat) /\ Len(Append(old, x)) = n + 1
  BY <1>2
<1>6. grown = Append(old, x)
  BY <1>3, <1>4, <1>5
<1> QED
  BY <1>6 DEF old, grown

LEMMA ContentsShrink ==
  ASSUME NEW buf \in [Slot -> Nat], NEW b \in Slot, NEW n \in 1 .. XSTAT_NBUF
  PROVE  /\ Contents(buf, b, n) # <<>>
         /\ Head(Contents(buf, b, n)) = buf[b]
         /\ Tail(Contents(buf, b, n)) = Contents(buf, Advance(b), n - 1)
<1> DEFINE old == Contents(buf, b, n)
           new == Contents(buf, Advance(b), n - 1)
<1>1. n \in 0 .. XSTAT_NBUF /\ n - 1 \in 0 .. XSTAT_NBUF /\ Advance(b) \in Slot
  BY AdvanceIs, BufferAssumption
<1>2. /\ old \in Seq(Nat) /\ Len(old) = n
      /\ \A i \in 1 .. n : old[i] = buf[Around(b, i - 1)]
  BY <1>1, ContentsIs
<1>3. /\ new \in Seq(Nat) /\ Len(new) = n - 1
      /\ \A i \in 1 .. n - 1 : new[i] = buf[Around(Advance(b), i - 1)]
  BY <1>1, ContentsIs
<1>4. old[1] = buf[b]
  <2>1. old[1] = buf[Around(b, 1 - 1)] /\ 1 - 1 = 0
    BY <1>2, BufferAssumption
  <2> QED BY <2>1, AroundEnds
<1>5. ASSUME NEW i \in 1 .. n - 1 PROVE new[i] = old[i + 1]
  <2>1. /\ i - 1 \in 0 .. XSTAT_NBUF - 1 /\ i + 1 \in 1 .. n
        /\ (i - 1) + 1 = i /\ (i + 1) - 1 = i
    BY BufferAssumption
  <2>2. Around(Advance(b), i - 1) = Around(b, i)
    BY <2>1, AroundNext
  <2>3. new[i] = buf[Around(b, i)]
    BY <1>3, <2>2
  <2>4. old[i + 1] = buf[Around(b, i)]
    BY <1>2, <2>1
  <2> QED BY <2>3, <2>4
<1> HIDE DEF old, new
<1>6. old # <<>> /\ Head(old) = old[1]
  BY <1>2
<1>7. Tail(old) = new
  <2> DEFINE rest == Tail(old)
  <2>1. rest \in Seq(Nat) /\ Len(rest) = Len(new)
    BY <1>2, <1>3
  <2>2. ASSUME NEW i \in 1 .. Len(new) PROVE rest[i] = new[i]
    BY <1>2, <1>3, <1>5
  <2> HIDE DEF rest
  <2>3. rest = new
    BY <2>1, <2>2, <1>3
  <2> QED BY <2>3 DEF rest
<1> QED
  BY <1>4, <1>6, <1>7 DEF old, new

LEMMA ContentsSlide ==
  ASSUME NEW buf \in [Slot -> Nat], NEW b \in Slot, NEW x \in Nat
  PROVE  Contents([buf EXCEPT ![b] = x], Advance(b), XSTAT_NBUF)
           = Append(Tail(Contents(buf, b, XSTAT_NBUF)), x)
<1> DEFINE m == XSTAT_NBUF - 1
<1>1. /\ m \in 0 .. XSTAT_NBUF - 1 /\ m + 1 = XSTAT_NBUF /\ XSTAT_NBUF \in 1 .. XSTAT_NBUF
      /\ Advance(b) \in Slot
  BY AdvanceIs, BufferAssumption
<1>2. Around(Advance(b), m) = b
  <2>1. Around(Advance(b), m) = Around(b, m + 1)
    BY <1>1, AroundNext
  <2> QED BY <1>1, <2>1, AroundEnds
<1>3. Tail(Contents(buf, b, XSTAT_NBUF)) = Contents(buf, Advance(b), m)
  BY <1>1, ContentsShrink
<1>4. Contents([buf EXCEPT ![Around(Advance(b), m)] = x], Advance(b), m + 1)
        = Append(Contents(buf, Advance(b), m), x)
  BY <1>1, ContentsGrow
<1> QED
  BY <1>1, <1>2, <1>3, <1>4

LEMMA InitImplements == Init => Log!Init
<1> SUFFICES ASSUME Init PROVE Log!Init
  OBVIOUS
<1>1. TypeOK
  BY InitType
<1>2. buffer \in [Slot -> Nat] /\ buffer_base \in Slot /\ buffer_size = 0
  BY <1>1 DEF Init, TypeOK
<1>3. Unread = <<>>
  BY <1>2, ContentsEmpty DEF Unread
<1>4. buffer[BufferLast] = 0
  BY <1>1, BeforeIs DEF Init, TypeOK, BufferLast
<1> QED
  BY <1>3, <1>4 DEF Init, Log!Init

(* Storing a sample is adding it to the log.                               *)
LEMMA PublishImplements == IInv /\ IInv' /\ Publish => Log!Next
<1> SUFFICES ASSUME IInv, IInv', Publish PROVE Log!Add(working_buf) /\ working_buf \in 1 .. MaxSample
  BY DEF Log!Next
<1>1. /\ XSTAT_NBUF \in Nat \ {0}
      /\ buffer_base \in Slot /\ buffer_next \in Slot /\ buffer_size \in 0 .. XSTAT_NBUF
      /\ buffer \in [Slot -> Nat] /\ working_buf \in Nat
  BY BufferAssumption DEF IInv, TypeOK
<1>2. working_buf \in 1 .. MaxSample
  BY BufferAssumption DEF IInv, TypeOK, RunningThread, Publish
<1>3. /\ buffer' = [buffer EXCEPT ![buffer_next] = working_buf]
      /\ buffer_next' = Advance(buffer_next)
      /\ buffer_next = Around(buffer_base, buffer_size)
      /\ UNCHANGED <<page, seen>>
  BY DEF Publish, IInv, RingShape, SlotOf
<1>4. Unread \in Seq(Nat) /\ Len(Unread) = buffer_size
  BY <1>1, ContentsIs DEF Unread
<1>5. buffer'[BufferLast'] = working_buf
  BY <1>1, <1>3, BeforeAdvance DEF BufferLast
<1>6. CASE ~RingFull
  <2>1. /\ buffer_size' = buffer_size + 1 /\ buffer_base' = buffer_base
        /\ buffer_size \in 0 .. XSTAT_NBUF - 1 /\ Len(Unread) < XSTAT_NBUF
    BY <1>1, <1>4, <1>6 DEF Publish, RingFull
  <2>2. Contents(buffer', buffer_base, buffer_size + 1) = Append(Unread, working_buf)
    BY <1>1, <1>3, <2>1, ContentsGrow DEF Unread
  <2>3. Unread' = Append(Unread, working_buf)
    BY <2>1, <2>2 DEF Unread
  <2> QED BY <1>2, <1>3, <1>5, <2>1, <2>3 DEF Log!Add
<1>7. CASE RingFull
  <2>1. /\ buffer_size' = XSTAT_NBUF /\ buffer_size = XSTAT_NBUF
        /\ buffer_base' = Advance(buffer_base) /\ Len(Unread) = XSTAT_NBUF
    BY <1>1, <1>4, <1>7 DEF Publish, RingFull
  <2>2. buffer_next = buffer_base
    BY <1>1, <1>3, <2>1, AroundEnds
  <2>3. Contents(buffer', Advance(buffer_base), XSTAT_NBUF) = Append(Tail(Unread), working_buf)
    BY <1>1, <1>3, <2>1, <2>2, ContentsSlide DEF Unread
  <2>4. Unread' = Append(Tail(Unread), working_buf)
    BY <2>1, <2>3 DEF Unread
  <2> QED BY <1>2, <1>3, <1>5, <2>1, <2>4 DEF Log!Add
<1> QED
  BY <1>6, <1>7

(* One turn of show_stat_attr's loop takes the oldest sample of the log.   *)
LEMMA StatPrintImplements ==
  ASSUME NEW r \in Reader, IInv, StatPrint(r)
  PROVE  Log!Take(r)
<1>1. /\ XSTAT_NBUF \in Nat \ {0} /\ buffer \in [Slot -> Nat]
      /\ buffer_base \in Slot /\ buffer_size \in 1 .. XSTAT_NBUF
  BY BufferAssumption DEF IInv, TypeOK, StatPrint, MoreToPrint
<1>2. /\ Unread # <<>> /\ Head(Unread) = buffer[buffer_base]
      /\ Tail(Unread) = Contents(buffer, Advance(buffer_base), buffer_size - 1)
  BY <1>1, ContentsShrink DEF Unread
<1>3. Unread' = Contents(buffer, Advance(buffer_base), buffer_size - 1)
  BY DEF StatPrint, Unread
<1>4. buffer'[BufferLast'] = buffer[BufferLast] /\ seen' = seen
  BY DEF StatPrint, BufferLast
<1>5. page' = [page EXCEPT ![r] = Append(page[r], Head(Unread))]
  BY <1>2 DEF StatPrint
<1> QED
  BY <1>2, <1>3, <1>4, <1>5 DEF Log!Take

LEMMA ResetImplements ==
  ASSUME NEW r \in Reader, IInv, Reset(r)
  PROVE  Log!Clear
<1>1. buffer \in [Slot -> Nat] /\ buffer_next \in Slot
  BY DEF IInv, TypeOK
<1>2. Unread' = <<>>
  BY <1>1, ContentsEmpty DEF Reset, Unread
<1>3. buffer'[BufferLast'] = buffer[BufferLast] /\ UNCHANGED <<page, seen>>
  BY DEF Reset, BufferLast
<1> QED
  BY <1>2, <1>3 DEF Log!Clear

LEMMA NextImplements == IInv /\ IInv' /\ [Next]_vars => [Log!Next]_Log!vars
<1> SUFFICES ASSUME IInv, IInv', [Next]_vars PROVE [Log!Next]_Log!vars
  OBVIOUS
<1>1. CASE Publish
  BY <1>1, PublishImplements
<1>2. ASSUME NEW r \in Reader, StatPrint(r) PROVE Log!Next
  BY <1>2, StatPrintImplements DEF Log!Next
<1>3. ASSUME NEW r \in Reader, Reset(r) PROVE Log!Next
  BY <1>3, ResetImplements DEF Log!Next
<1>4. ASSUME NEW r \in Reader, StatOpen(r) PROVE Log!Next
  BY <1>4 DEF StatOpen, ring, Unread, BufferLast, Log!Next, Log!Open
<1>5. ASSUME NEW r \in Reader, ShowLast(r) PROVE Log!Next
  BY <1>5 DEF ShowLast, ring, Unread, BufferLast, Log!Next, Log!Peek
<1>6. CASE Restart \/ (\E r \in Reader : StatReturn(r)) \/ UNCHANGED vars
  BY <1>6 DEF Restart, StatReturn, vars, ring, Unread, BufferLast, Log!vars
<1> QED
  BY <1>1, <1>2, <1>3, <1>4, <1>5, <1>6 DEF Next, Thread, Process

(* The ring with its indices, its lock and its page limit is a log of at   *)
(* most XSTAT_NBUF samples that forgets its oldest when it is full.        *)
THEOREM Implements == Spec => ImplementsLog
<1>1. Init => Log!Init
  BY InitImplements
<1>2. IInv /\ IInv' /\ [Next]_vars => [Log!Next]_Log!vars
  BY NextImplements
<1> QED
  BY <1>1, <1>2, Inductive, PTL DEF Spec, ImplementsLog, Log!Spec
=============================================================================
