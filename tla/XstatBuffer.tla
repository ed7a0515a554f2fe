---------------------------- MODULE XstatBuffer ----------------------------
(***************************************************************************)
(* The sample ring of one xstat node (struct xstat_node in xstat.c): the   *)
(* node's kernel thread reads the counters into working_buf without a      *)
(* lock and copies them into the ring under node->lock, while processes    *)
(* drain the ring through stat<n>, look at its newest slot through         *)
(* last<n> and empty it through reset<n>, each under the same lock.        *)
(*                                                                         *)
(* A sample is its number: 1 for the first one the thread computed; 0 is   *)
(* what kzalloc left in the buffers.  A sample's text is its length.       *)
(***************************************************************************)
EXTENDS Integers, Sequences

CONSTANTS
  XSTAT_NBUF,   \* slots of the ring
  PAGE_SIZE,    \* bytes sysfs gives a read
  RecordLen,    \* lengths the text of one sample may have
  Reader,       \* processes using the node's files
  Nobody,       \* the value of lock when it is free
  MaxSample     \* bound: samples taken

ASSUME BufferAssumption ==
  /\ XSTAT_NBUF \in Nat \ {0}
  /\ PAGE_SIZE \in Nat \ {0}
  (* xstat.c never checks it: 16 counters make a text of at most some 750   *)
  (* bytes, where half a page is 2048.                                      *)
  /\ RecordLen \subseteq 1 .. (PAGE_SIZE \div 2)
  /\ Nobody \notin Reader
  /\ MaxSample \in Nat

VARIABLES
  buffer, buffer_base, buffer_next, buffer_size,   \* the ring
  working_buf,   \* the sample the thread computed last
  lock,          \* node->lock: the reader inside show_stat_attr, or Nobody
  kpc,           \* where the thread is in roll_buffer
  rpc,           \* rpc[r]: is r inside the loop of show_stat_attr?
  limit,         \* limit[r]: bytes of the page r's loop has left
  page,          \* page[r]: the samples printed into r's page
  seen,          \* seen[r]: the sample r's last read of last<n> printed
  delivered,     \* history: the newest sample handed out through stat<n>
  cut            \* history: some sample's text lost its end

ring == <<buffer, buffer_base, buffer_next, buffer_size>>
vars == <<ring, working_buf, lock, kpc, rpc, limit, page, seen, delivered, cut>>

Slot == 0 .. XSTAT_NBUF - 1

(* The slot after x; the one before x; the one i slots after x.            *)
Advance(x) == (x + 1) % XSTAT_NBUF
Before(x) == (XSTAT_NBUF + x - 1) % XSTAT_NBUF
Around(x, i) == (x + i) % XSTAT_NBUF

(* roll_buffer's choice between growing and overwriting. The mutant gets   *)
(* its bound wrong by one.                                                 *)
RingFullLate == buffer_size > XSTAT_NBUF
RingFull == buffer_size >= XSTAT_NBUF

(* spin_lock_bh(&node->lock) succeeds. The mutant does not take the lock.  *)
UnlockedAlways == TRUE
Unlocked == lock = Nobody

Init ==
  /\ buffer = [s \in Slot |-> 0]
  /\ buffer_base = 0
  /\ buffer_next = 0
  /\ buffer_size = 0
  /\ working_buf = 0
  /\ lock = Nobody
  /\ kpc = "restart"
  /\ rpc = [r \in Reader |-> "idle"]
  /\ limit = [r \in Reader |-> 0]
  /\ page = [r \in Reader |-> <<>>]
  /\ seen = [r \in Reader |-> 0]
  /\ delivered = 0
  /\ cut = FALSE

-----------------------------------------------------------------------------
(* The thread.                                                             *)

(* roll_buffer reads every counter, before it takes the lock.              *)
Restart ==
  /\ kpc = "restart"
  /\ working_buf < MaxSample
  /\ working_buf' = working_buf + 1
  /\ kpc' = "publish"
  /\ UNCHANGED <<ring, lock, rpc, limit, page, seen, delivered, cut>>

(* The rest of roll_buffer, a critical section nothing can see half done.  *)
Publish ==
  /\ kpc = "publish"
  /\ Unlocked
  /\ buffer' = [buffer EXCEPT ![buffer_next] = working_buf]
  /\ buffer_next' = Advance(buffer_next)
  /\ \/ /\ ~RingFull
        /\ buffer_size' = buffer_size + 1
        /\ UNCHANGED buffer_base
     \/ /\ RingFull
        /\ buffer_base' = Advance(buffer_base)
        /\ UNCHANGED buffer_size
  /\ kpc' = "restart"
  /\ UNCHANGED <<working_buf, lock, rpc, limit, page, seen, delivered, cut>>

-----------------------------------------------------------------------------
(* The processes.                                                          *)

(* What print_buffer adds to a page with room for lim bytes when the whole *)
(* text has len of them: scnprintf stops one byte short of its limit.      *)
Printed(len, lim) == IF len < lim THEN len ELSE lim - 1

(* The condition of show_stat_attr's loop. The mutant prints once more.    *)
MoreToPrintAtHalf(r) ==
  /\ limit[r] >= PAGE_SIZE \div 2
  /\ buffer_size > 0

MoreToPrint(r) ==
  /\ limit[r] > PAGE_SIZE \div 2
  /\ buffer_size > 0

(* r enters show_stat_attr and takes the lock.                             *)
StatOpen(r) ==
  /\ rpc[r] = "idle"
  /\ Unlocked
  /\ lock' = r
  /\ rpc' = [rpc EXCEPT ![r] = "print"]
  /\ limit' = [limit EXCEPT ![r] = PAGE_SIZE]
  /\ page' = [page EXCEPT ![r] = <<>>]
  /\ UNCHANGED <<ring, working_buf, kpc, seen, delivered, cut>>

(* One turn of the loop: the oldest sample goes to the page and leaves the *)
(* ring.  The "ret < 0" exit is never taken: scnprintf returns no error.   *)
StatPrint(r) ==
  /\ rpc[r] = "print"
  /\ MoreToPrint(r)
  /\ \E len \in RecordLen :
       LET ret == Printed(len, limit[r]) IN
       /\ limit' = [limit EXCEPT ![r] = @ - ret]
       /\ cut' = (cut \/ ret < len)
  /\ page' = [page EXCEPT ![r] = Append(@, buffer[buffer_base])]
  /\ delivered' = buffer[buffer_base]
  /\ buffer_base' = Advance(buffer_base)
  /\ buffer_size' = buffer_size - 1
  /\ UNCHANGED <<buffer, buffer_next, working_buf, lock, kpc, rpc, seen>>

(* The loop ends; the lock is released. The mutant keeps it.               *)
StatReturnLocked(r) ==
  /\ rpc[r] = "print"
  /\ ~MoreToPrint(r)
  /\ rpc' = [rpc EXCEPT ![r] = "idle"]
  /\ limit' = [limit EXCEPT ![r] = 0]
  /\ UNCHANGED <<ring, working_buf, lock, kpc, page, seen, delivered, cut>>

StatReturn(r) ==
  /\ rpc[r] = "print"
  /\ ~MoreToPrint(r)
  /\ lock' = Nobody
  /\ rpc' = [rpc EXCEPT ![r] = "idle"]
  /\ limit' = [limit EXCEPT ![r] = 0]
  /\ UNCHANGED <<ring, working_buf, kpc, page, seen, delivered, cut>>

(* The slot show_last_attr prints. The mutant prints the one after it.     *)
BufferLastPlusOne == buffer_next
BufferLast == Before(buffer_next)

(* The whole of show_last_attr: one record, whether or not it was ever     *)
(* written, and into a whole page.                                         *)
ShowLast(r) ==
  /\ rpc[r] = "idle"
  /\ Unlocked
  /\ seen' = [seen EXCEPT ![r] = buffer[BufferLast]]
  /\ \E len \in RecordLen : cut' = (cut \/ Printed(len, PAGE_SIZE) < len)
  /\ UNCHANGED <<ring, working_buf, lock, kpc, rpc, limit, page, delivered>>

(* The whole of store_reset_attr, for a write of at least one byte. The    *)
(* mutant forgets one of its two assignments.                              *)
ResetForgetsSize(r) ==
  /\ rpc[r] = "idle"
  /\ Unlocked
  /\ buffer_base' = buffer_next
  /\ UNCHANGED <<buffer, buffer_next, buffer_size, working_buf, lock, kpc, rpc,
                 limit, page, seen, delivered, cut>>

Reset(r) ==
  /\ rpc[r] = "idle"
  /\ Unlocked
  /\ buffer_size' = 0
  /\ buffer_base' = buffer_next
  /\ UNCHANGED <<buffer, buffer_next, working_buf, lock, kpc, rpc, limit, page,
                 seen, delivered, cut>>

Thread == Restart \/ Publish
Process(r) == StatOpen(r) \/ StatPrint(r) \/ StatReturn(r) \/ ShowLast(r) \/ Reset(r)

Next == Thread \/ \E r \in Reader : Process(r)

Spec == Init /\ [][Next]_vars

(* A thread in the kernel keeps running, and the spinlocks hand themselves *)
(* out in the order they were asked for, so that whoever wants one gets it.*)
(* Nothing makes the thread take another sample, nor a process come back.  *)
Fairness ==
  /\ SF_vars(Publish)
  /\ \A r \in Reader : WF_vars(StatPrint(r) \/ StatReturn(r))

FairSpec == Spec /\ Fairness

-----------------------------------------------------------------------------
(* Properties.                                                             *)

TypeOK ==
  /\ buffer \in [Slot -> 0 .. MaxSample]
  /\ buffer_base \in Slot
  /\ buffer_next \in Slot
  /\ buffer_size \in 0 .. XSTAT_NBUF
  /\ working_buf \in 0 .. MaxSample
  /\ lock \in Reader \cup {Nobody}
  /\ kpc \in {"restart", "publish"}
  /\ rpc \in [Reader -> {"idle", "print"}]
  /\ limit \in [Reader -> 0 .. PAGE_SIZE]
  /\ page \in [Reader -> Seq(0 .. MaxSample)]
  /\ seen \in [Reader -> 0 .. MaxSample]
  /\ delivered \in 0 .. MaxSample
  /\ cut \in BOOLEAN

(* The sample that went into the ring last.                                *)
Published == IF kpc = "publish" THEN working_buf - 1 ELSE working_buf

(* The slot of the i-th oldest sample in the ring, counting from 0.        *)
SlotOf(i) == Around(buffer_base, i)

(* The three fields that describe the ring are updated by three functions  *)
(* in four different ways; they always agree on where the unread samples   *)
(* end.                                                                    *)
RingShape == buffer_next = SlotOf(buffer_size)

(* The n slots of buf from slot b on hold the samples up to number last.   *)
Window(buf, b, n, last) ==
  \A i \in 0 .. n - 1 : buf[Around(b, i)] = last - n + 1 + i

(* What the ring holds unread is the newest samples without a gap, oldest  *)
(* first: overwriting, draining and resetting in any order lose samples at *)
(* the old end only.                                                       *)
WindowIsNewest == Window(buffer, buffer_base, buffer_size, Published)

(* last<n> shows the sample stored last even when stat<n> has drained the  *)
(* ring or reset<n> emptied it, and however often the ring has wrapped.    *)
LastIsNewest == buffer[BufferLast] = Published

(* No sample is handed out through stat<n> twice, whoever reads: what the  *)
(* ring still holds is newer than anything any process was given.          *)
NoDoubleDelivery ==
  \A i \in 0 .. buffer_size - 1 : buffer[SlotOf(i)] > delivered

(* One read of stat<n> returns consecutive samples, though the thread adds *)
(* and overwrites and other processes drain and reset all the while.       *)
PageIsRun ==
  \A r \in Reader : \A i \in 1 .. Len(page[r]) - 1 : page[r][i+1] = page[r][i] + 1

(* The half page show_stat_attr keeps in hand is enough for every record:  *)
(* none is cut at the end of the page.                                     *)
NoCutRecord == ~cut

(* What makes these invariants inductive: the ring never claims a sample   *)
(* that was handed out, and a process inside the loop of show_stat_attr    *)
(* has the lock, so that the sample it printed last is still the one just  *)
(* before the window.                                                      *)
RunningThread == kpc = "publish" => working_buf >= 1

DeliveredIsOld == delivered + buffer_size <= Published

LoopHoldsLock == \A r \in Reader : rpc[r] = "print" <=> lock = r

PageMeetsWindow ==
  \A r \in Reader : rpc[r] = "print" /\ page[r] # <<>> =>
    page[r][Len(page[r])] = Published - buffer_size

IInv ==
  /\ TypeOK
  /\ RingShape
  /\ WindowIsNewest
  /\ LastIsNewest
  /\ PageIsRun
  /\ NoCutRecord
  /\ RunningThread
  /\ DeliveredIsOld
  /\ LoopHoldsLock
  /\ PageMeetsWindow

(* The ring as a log: drops the oldest of XSTAT_NBUF samples when full,    *)
(* hands each out once and in order, and always knows the newest.          *)
Contents(buf, b, n) == [i \in 1 .. n |-> buf[Around(b, i - 1)]]
Unread == Contents(buffer, buffer_base, buffer_size)

Log == INSTANCE SampleLog WITH
         Capacity <- XSTAT_NBUF,
         ForgetsOldest <- TRUE,
         Sample   <- 1 .. MaxSample,
         NoSample <- 0,
         log      <- Unread,
         latest   <- buffer[BufferLast]

ImplementsLog == Log!Spec

(* Readers that come back for ever cannot keep the thread from storing the *)
(* sample it has computed: every read of stat<n> ends and gives the lock   *)
(* up.                                                                     *)
ThreadNotStarved == kpc = "publish" ~> kpc = "restart"
=============================================================================
