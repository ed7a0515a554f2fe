----------------------------- MODULE StatBuffer -----------------------------
(***************************************************************************)
(* The sample ring of haswellstat, sbstat and micstat: one for the whole   *)
(* machine, and static.  Threads compute a sample in working_buf, which    *)
(* they share, and copy it into the ring under buffer_lock; processes      *)
(* drain the ring through stat, and with haswellstat and micstat look at   *)
(* the newest sample through last and empty the ring through clear.        *)
(* haswellstat and sbstat hold ctrl_lock while a sample is taken, micstat  *)
(* does not.  A full ring of sbstat refuses samples, the others overwrite. *)
(*                                                                         *)
(* There ought to be one thread; StatCtl says when there are more.  A      *)
(* sample is its number, kept in the first and in the last of its counters *)
(* (ts and oh); 0 is what the static buffers begin with.                   *)
(***************************************************************************)
EXTENDS Integers, Sequences, FiniteSets

CONSTANTS
  Driver,        \* "haswellstat", "sbstat" or "micstat"
  MICSTAT_NBUF,  \* slots of the ring
  PAGE_SIZE,     \* bytes sysfs gives a read
  RecordLen,     \* lengths the text of one sample may have
  Sampler,       \* threads that run kthread_function
  Reader,        \* processes using the class's files
  Nobody,        \* the value of a lock when it is free
  MaxSample      \* bound: samples begun

ASSUME BufferAssumption ==
  /\ Driver \in {"haswellstat", "sbstat", "micstat"}
  /\ MICSTAT_NBUF \in Nat \ {0}
  /\ PAGE_SIZE \in Nat \ {0}
  (* No driver checks it; the longest text, micstat's, has some 1200 bytes  *)
  (* where half a page is 2048.                                             *)
  /\ RecordLen \subseteq 1 .. (PAGE_SIZE \div 2)
  /\ Nobody \notin Reader \cup Sampler
  /\ MaxSample \in Nat

VARIABLES
  buffer, buffer_base, buffer_next, buffer_size,   \* the ring
  working_buf,   \* what the threads compute
  buffer_lock,   \* the reader inside micstat_show_stat, or Nobody
  ctrl_lock,     \* the thread that takes a sample, or Nobody
  kpc,           \* kpc[k]: where k is in kthread_function
  number,        \* number[k]: the sample k takes, or took last
  taken,         \* samples begun
  rpc,           \* rpc[r]: is r inside the loop of micstat_show_stat?
  limit,         \* limit[r]: bytes of the page r's loop has left
  page,          \* page[r]: the samples printed into r's page
  seen           \* seen[r]: the last sample r was shown through last

ring    == <<buffer, buffer_base, buffer_next, buffer_size>>
threads == <<working_buf, ctrl_lock, kpc, number, taken>>
readers == <<rpc, limit, page, seen>>
vars    == <<ring, threads, buffer_lock, readers>>

Slot == 0 .. MICSTAT_NBUF - 1
Blank == [ts |-> 0, oh |-> 0]

(* The slot after x; i slots after x.                                      *)
Advance(x) == (x + 1) % MICSTAT_NBUF
Around(x, i) == (x + i) % MICSTAT_NBUF

RingFull == buffer_size >= MICSTAT_NBUF

Init ==
  /\ buffer = [s \in Slot |-> Blank]
  /\ buffer_base = 0
  /\ buffer_next = 0
  /\ buffer_size = 0
  /\ working_buf = Blank
  /\ buffer_lock = Nobody
  /\ ctrl_lock = Nobody
  /\ kpc = [k \in Sampler |-> "sleep"]
  /\ number = [k \in Sampler |-> 0]
  /\ taken = 0
  /\ rpc = [r \in Reader |-> "idle"]
  /\ limit = [r \in Reader |-> 0]
  /\ page = [r \in Reader |-> <<>>]
  /\ seen = [r \in Reader |-> 0]

-----------------------------------------------------------------------------
(* The threads.                                                            *)

(* kthread_function of haswellstat and sbstat takes ctrl_lock before the   *)
(* sample. The mutant goes without it.                                     *)
CtrlLockFree == TRUE
CtrlLock == Driver # "micstat" => ctrl_lock = Nobody

(* k awakes and reads the first counter ...                                *)
RestartFirst(k) ==
  /\ kpc[k] = "sleep"
  /\ taken < MaxSample
  /\ CtrlLock
  /\ ctrl_lock' = IF Driver = "micstat" THEN Nobody ELSE k
  /\ taken' = taken + 1
  /\ number' = [number EXCEPT ![k] = taken + 1]
  /\ working_buf' = [working_buf EXCEPT !.ts = taken + 1]
  /\ kpc' = [kpc EXCEPT ![k] = "restart"]
  /\ UNCHANGED <<ring, buffer_lock, readers>>

(* ... and the last one.                                                   *)
RestartLast(k) ==
  /\ kpc[k] = "restart"
  /\ working_buf' = [working_buf EXCEPT !.oh = number[k]]
  /\ kpc' = [kpc EXCEPT ![k] = "publish"]
  /\ UNCHANGED <<ring, buffer_lock, ctrl_lock, number, taken, readers>>

(* The rest of roll_buffer in haswellstat and micstat, one critical        *)
(* section: a full ring loses its oldest sample.                           *)
PublishOver ==
  /\ buffer' = [buffer EXCEPT ![buffer_next] = working_buf]
  /\ buffer_next' = Advance(buffer_next)
  /\ \/ ~RingFull /\ buffer_size' = buffer_size + 1 /\ UNCHANGED buffer_base
     \/ RingFull /\ buffer_base' = Advance(buffer_base) /\ UNCHANGED buffer_size

(* The same in sbstat: a full ring stays as it is.  The mutant drops the   *)
(* sample with a slot to spare.                                            *)
PublishEarly ==
  \/ /\ buffer_size < MICSTAT_NBUF - 1
     /\ buffer' = [buffer EXCEPT ![buffer_next] = working_buf]
     /\ buffer_next' = Advance(buffer_next)
     /\ buffer_size' = buffer_size + 1
     /\ UNCHANGED buffer_base
  \/ buffer_size >= MICSTAT_NBUF - 1 /\ UNCHANGED ring

PublishIfRoom ==
  \/ /\ ~RingFull
     /\ buffer' = [buffer EXCEPT ![buffer_next] = working_buf]
     /\ buffer_next' = Advance(buffer_next)
     /\ buffer_size' = buffer_size + 1
     /\ UNCHANGED buffer_base
  \/ RingFull /\ UNCHANGED ring

Publish(k) ==
  /\ kpc[k] = "publish"
  /\ buffer_lock = Nobody
  /\ \/ Driver # "sbstat" /\ PublishOver
     \/ Driver = "sbstat" /\ PublishIfRoom
  /\ kpc' = [kpc EXCEPT ![k] = "unlock"]
  /\ UNCHANGED <<working_buf, ctrl_lock, number, taken, buffer_lock, readers>>

(* The sleep is computed, and ctrl_lock released.                          *)
Unlock(k) ==
  /\ kpc[k] = "unlock"
  /\ ctrl_lock' = Nobody
  /\ kpc' = [kpc EXCEPT ![k] = "sleep"]
  /\ UNCHANGED <<ring, working_buf, number, taken, buffer_lock, readers>>

-----------------------------------------------------------------------------
(* The processes.                                                          *)

(* What print_buffer adds to a page with room for lim bytes when the whole *)
(* text has len of them: scnprintf stops one byte short of its limit.      *)
Printed(len, lim) == IF len < lim THEN len ELSE lim - 1

MoreToPrint(r) ==
  /\ limit[r] > PAGE_SIZE \div 2
  /\ buffer_size > 0

(* r enters micstat_show_stat and takes the lock.                          *)
StatOpen(r) ==
  /\ rpc[r] = "idle"
  /\ buffer_lock = Nobody
  /\ buffer_lock' = r
  /\ rpc' = [rpc EXCEPT ![r] = "print"]
  /\ limit' = [limit EXCEPT ![r] = PAGE_SIZE]
  /\ page' = [page EXCEPT ![r] = <<>>]
  /\ UNCHANGED <<ring, threads, seen>>

(* One turn of the loop: the oldest sample goes to the page and leaves the *)
(* ring.  "ret < 0" is never true: scnprintf returns no error.             *)
StatPrint(r) ==
  /\ rpc[r] = "print"
  /\ MoreToPrint(r)
  /\ \E len \in RecordLen : limit' = [limit EXCEPT ![r] = @ - Printed(len, @)]
  /\ page' = [page EXCEPT ![r] = Append(@, buffer[buffer_base])]
  /\ buffer_base' = Advance(buffer_base)
  /\ buffer_size' = buffer_size - 1
  /\ UNCHANGED <<buffer, buffer_next, threads, buffer_lock, rpc, seen>>

(* The loop ends; the lock is released. The mutant keeps it.               *)
StatReturnLocked(r) ==
  /\ rpc[r] = "print"
  /\ ~MoreToPrint(r)
  /\ rpc' = [rpc EXCEPT ![r] = "idle"]
  /\ limit' = [limit EXCEPT ![r] = 0]
  /\ UNCHANGED <<ring, threads, buffer_lock, page, seen>>

StatReturn(r) ==
  /\ rpc[r] = "print"
  /\ ~MoreToPrint(r)
  /\ buffer_lock' = Nobody
  /\ rpc' = [rpc EXCEPT ![r] = "idle"]
  /\ limit' = [limit EXCEPT ![r] = 0]
  /\ UNCHANGED <<ring, threads, page, seen>>

(* The slot micstat_show_last prints. The mutant prints the one after it.  *)
BufferLastPlusOne == Around(buffer_base, buffer_size)
BufferLast == (buffer_base + buffer_size - 1) % MICSTAT_NBUF

(* The whole of micstat_show_last, which sbstat does not have.  An empty   *)
(* ring gives an empty text.                                               *)
ShowLast(r) ==
  /\ Driver # "sbstat"
  /\ rpc[r] = "idle"
  /\ buffer_lock = Nobody
  /\ buffer_size > 0
  /\ seen' = [seen EXCEPT ![r] = buffer[BufferLast].ts]
  /\ UNCHANGED <<ring, threads, buffer_lock, rpc, limit, page>>

(* The whole of micstat_store_clear for "on" or "1", which sbstat does not *)
(* have either. The mutant leaves buffer_next.                             *)
ClearForgetsNext(r) ==
  /\ Driver # "sbstat"
  /\ rpc[r] = "idle"
  /\ buffer_lock = Nobody
  /\ buffer_size' = 0
  /\ UNCHANGED <<buffer, buffer_base, buffer_next, threads, buffer_lock, readers>>

Clear(r) ==
  /\ Driver # "sbstat"
  /\ rpc[r] = "idle"
  /\ buffer_lock = Nobody
  /\ buffer_size' = 0
  /\ buffer_next' = buffer_base
  /\ UNCHANGED <<buffer, buffer_base, threads, buffer_lock, readers>>

Thread(k)  == RestartFirst(k) \/ RestartLast(k) \/ Publish(k) \/ Unlock(k)
Process(r) == StatOpen(r) \/ StatPrint(r) \/ StatReturn(r) \/ ShowLast(r) \/ Clear(r)

Next == (\E k \in Sampler : Thread(k)) \/ (\E r \in Reader : Process(r))

Spec == Init /\ [][Next]_vars

(* A thread that has begun a sample goes on with it, and the spinlocks go  *)
(* round among those who want them. Nobody is obliged to begin a sample or *)
(* a read.                                                                 *)
Fairness ==
  /\ \A k \in Sampler : WF_vars(RestartLast(k) \/ Unlock(k)) /\ SF_vars(Publish(k))
  /\ \A r \in Reader : WF_vars(StatPrint(r) \/ StatReturn(r))

FairSpec == Spec /\ Fairness

-----------------------------------------------------------------------------
(* Properties.                                                             *)

Sample == [ts : 0 .. MaxSample, oh : 0 .. MaxSample]

TypeOK ==
  /\ buffer \in [Slot -> Sample]
  /\ buffer_base \in Slot
  /\ buffer_next \in Slot
  /\ buffer_size \in 0 .. MICSTAT_NBUF
  /\ working_buf \in Sample
  /\ buffer_lock \in Reader \cup {Nobody}
  /\ ctrl_lock \in Sampler \cup {Nobody}
  /\ kpc \in [Sampler -> {"sleep", "restart", "publish", "unlock"}]
  /\ number \in [Sampler -> 0 .. MaxSample]
  /\ taken \in 0 .. MaxSample
  /\ rpc \in [Reader -> {"idle", "print"}]
  /\ limit \in [Reader -> 0 .. PAGE_SIZE]
  /\ page \in [Reader -> Seq(Sample)]
  /\ seen \in [Reader -> 0 .. MaxSample]

(* The unread samples, oldest first.                                       *)
Unread == [i \in 1 .. buffer_size |-> buffer[Around(buffer_base, i - 1)]]

(* Every sample in the ring or in a page has all its counters from one run *)
(* of roll_buffer, though two threads may share working_buf: where they    *)
(* do, ctrl_lock keeps them apart.                                         *)
Whole(s) == s.ts = s.oh

WholeSamples ==
  /\ \A i \in 1 .. buffer_size : Whole(Unread[i])
  /\ \A r \in Reader : \A i \in 1 .. Len(page[r]) : Whole(page[r][i])

(* What makes WholeSamples inductive: who takes a sample holds ctrl_lock,  *)
(* or is the only thread; what it has written to working_buf is still      *)
(* there; and no slot, unread or not, holds a mixture.                     *)
OneThread == Driver = "micstat" => \A j, k \in Sampler : j = k

LockInv ==
  Driver # "micstat" => \A k \in Sampler : kpc[k] # "sleep" => ctrl_lock = k

WorkInv ==
  \A k \in Sampler :
    /\ kpc[k] = "restart" => working_buf.ts = number[k]
    /\ kpc[k] = "publish" => Whole(working_buf)

SlotsWhole == \A s \in Slot : Whole(buffer[s])

PagesWhole == \A r \in Reader : \A i \in 1 .. Len(page[r]) : Whole(page[r][i])

IInv == TypeOK /\ LockInv /\ WorkInv /\ SlotsWhole /\ PagesWhole

(* sbstat: a sample that is in the ring leaves it only to be read; nothing *)
(* overwrites it.                                                          *)
KeptUntilRead ==
  [][\A i \in 1 .. buffer_size :
       \/ \E j \in 1 .. buffer_size' : Unread'[j] = Unread[i]
       \/ \E r \in Reader : page'[r] = Append(page[r], Unread[i])]_vars

(* The number of the sample that last came to the ring, taken in or not.   *)
InHand == {k \in Sampler : kpc[k] \in {"restart", "publish"}}
Arrived == taken - Cardinality(InHand)

(* The numbers of the samples in the ring, oldest first.                   *)
Numbers == [s \in Slot |-> buffer[s].ts]
Contents(buf, b, n) == [i \in 1 .. n |-> buf[Around(b, i - 1)]]

(* The ring is a log: order is kept, reads take from the old end, last is  *)
(* the newest unread sample, and a full ring forgets the oldest (of        *)
(* haswellstat and micstat) or refuses the newest sample (of sbstat).      *)
Number(s) == s.ts

Log == INSTANCE SampleLog WITH
         Capacity <- MICSTAT_NBUF,
         ForgetsOldest <- Driver # "sbstat",
         Sample   <- 1 .. MaxSample,
         NoSample <- 0,
         log      <- [i \in 1 .. buffer_size |-> Number(Unread[i])],
         latest   <- Arrived,
         page     <- [r \in Reader |-> [i \in 1 .. Len(page[r]) |-> Number(page[r][i])]]

ImplementsLog == Log!Spec

(* What makes the steps of one thread steps of the log: the ring's three   *)
(* fields agree, a sample in hand is the one begun last, and the newest    *)
(* slot holds what arrived last, unless the ring refused it.               *)
RingInv ==
  /\ buffer_next = Around(buffer_base, buffer_size)
  /\ \A k \in InHand : number[k] = taken /\ taken > 0
  /\ \A k \in Sampler : kpc[k] = "publish" => working_buf.ts = number[k]
  /\ Driver # "sbstat" /\ buffer_size > 0 => buffer[BufferLast].ts = Arrived

(* A thread that has computed a sample gets buffer_lock, however often     *)
(* processes read, so that ctrl_lock, which it holds meanwhile, is free    *)
(* again some time.                                                        *)
SamplerNotStarved == \A k \in Sampler : kpc[k] = "publish" ~> kpc[k] = "sleep"
=============================================================================
