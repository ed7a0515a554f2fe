----------------------------- MODULE SampleLog -----------------------------
(***************************************************************************)
(* What the sample buffer of an xstats driver promises to the processes    *)
(* that read its sysfs files, with no ring, no index and no lock: a log of *)
(* at most Capacity samples that keeps their order, hands each one out at  *)
(* most once through "stat", and shows the newest one through "last".      *)
(***************************************************************************)
EXTENDS Naturals, Sequences

CONSTANTS
  Capacity,    \* samples the log can hold
  ForgetsOldest, \* does a full log make room, or refuse what comes?
  Reader,      \* processes with one of the buffer's sysfs files open
  Sample,      \* the samples there are
  NoSample     \* what "last" shows before anything was logged

VARIABLES
  log,         \* the samples not yet handed out, oldest first
  latest,      \* the sample that came last, whatever happened to it since
  page,        \* page[r]: the samples r's current (or last) read of "stat" got
  seen         \* seen[r]: what r's last read of "last" showed

vars == <<log, latest, page, seen>>

Init ==
  /\ log    = <<>>
  /\ latest = NoSample
  /\ page   = [r \in Reader |-> <<>>]
  /\ seen   = [r \in Reader |-> NoSample]

(* The sampler logs s. A full log forgets its oldest sample to make room,   *)
(* or does not take s.                                                      *)
Add(s) ==
  /\ \/ /\ Len(log) < Capacity
        /\ log' = Append(log, s)
     \/ /\ Len(log) = Capacity
        /\ ForgetsOldest
        /\ log' = Append(Tail(log), s)
     \/ /\ Len(log) = Capacity
        /\ ~ForgetsOldest
        /\ UNCHANGED log
  /\ latest' = s
  /\ UNCHANGED <<page, seen>>

(* r starts a read of "stat" ...                                            *)
Open(r) ==
  /\ page' = [page EXCEPT ![r] = <<>>]
  /\ UNCHANGED <<log, latest, seen>>

(* ... and is handed the oldest sample of the log, which leaves the log.    *)
Take(r) ==
  /\ log # <<>>
  /\ page' = [page EXCEPT ![r] = Append(page[r], Head(log))]
  /\ log'  = Tail(log)
  /\ UNCHANGED <<latest, seen>>

(* r reads "last", which leaves the log as it is.                           *)
Peek(r) ==
  /\ seen' = [seen EXCEPT ![r] = latest]
  /\ UNCHANGED <<log, latest, page>>

(* "reset" empties the log.                                                 *)
Clear ==
  /\ log' = <<>>
  /\ UNCHANGED <<latest, page, seen>>

Next ==
  \/ \E s \in Sample : Add(s)
  \/ \E r \in Reader : Open(r) \/ Take(r) \/ Peek(r)
  \/ Clear

Spec == Init /\ [][Next]_vars
=============================================================================
