------------------------- MODULE OrchestratorInvariants -------------------------
(***************************************************************************)
(* The inductive invariants behind the theorems of OrchestratorProofs,     *)
(* apart from the proofs so that TLC can check them as invariants too.     *)
(***************************************************************************)
EXTENDS Orchestrator

\* A worker holds a job exactly at the suspension points inside a job.
HeldWhileBusy == \A w \in Workers : wpc[w] \in Busy <=> held[w] # NoJob

\* A job is in one place at most: not submitted, blocked in put(), in the
\* queue, or with one worker.
OnePlace ==
  /\ \A j \in queue \union blocked : status[j] # "new"
  /\ \A j \in blocked : j \notin queue
  /\ \A w \in Holding : held[w] \notin blocked /\ status[held[w]] # "new"

\* Inductive; ExactAccounting is its main part.
AccountingInv == TypeOK /\ HeldWhileBusy /\ OnePlace /\ ExactAccounting

\* The jobs that submit() or a worker will still take further, and the remembered ones.
InHand ==
  queue \union blocked
    \union {held[w] : w \in {v \in Workers : wpc[v] \in {"started", "running"}}}
Recorded == {history[i] : i \in 1..Len(history)}

\* Only what is over is remembered, and so only that is ever evicted.  Inductive,
\* given AccountingInv; QueuedJobsTracked is a part of it.
RecordsInv ==
  /\ InHand \subseteq tracked
  /\ \A j \in Recorded : status[j] # "new" /\ j \notin InHand

-----------------------------------------------------------------------------
(* What a drain is there for, over any stops and restarts.                 *)

Present(j) == j \in queue \/ \E w \in Holding : held[w] = j
Entered(j) == status[j] # "new" /\ j \notin blocked

\* A job a drain is there for has entered the queue and is there, or with a worker,
\* or over; it never comes back, so that nothing is present once join() was woken.
\* Inductive, given AccountingInv and RecordsInv; it gives DrainSeesThemOut.
SeenOutInv ==
  /\ \A w \in Workers : wpc[w] = "reporting" => status[held[w]] \in Terminal
  /\ released \subseteq Joining
  /\ \A s \in Joining : \A j \in owed[s] :
       /\ Entered(j)
       /\ Present(j) \/ status[j] \in Terminal
       /\ s \in released => ~Present(j)

-----------------------------------------------------------------------------
(* With one task that calls stop(), over any number of starts.             *)

OneStopper == \A s, t \in Stoppers : s = t

AllOff == \A w \in Workers : wpc[w] = "off"

\* start() and stop() exclude each other, and neither overlaps a second start.
PhasesExclusive ==
  /\ starter # "idle" => running
  /\ \A s \in Stoppers : stopper[s] # "idle" => running /\ starter = "idle"
  /\ \A s \in Stoppers : stopper[s] = "gather" => listed \subseteq awaited[s]
  /\ \A s \in Stoppers : stopper[s] = "services" => AllOff

\* A stopped orchestrator has neither tasks nor services.
StoppedIsEmpty == ~running => AllOff /\ started = <<>>

\* Before the workers exist, start() has up exactly the services it passed.
StartInOrder ==
  /\ cursor <= Len(registered)
  /\ servicesFirst /\ starter # "idle" => AllOff
  /\ servicesFirst /\ starter = "services" => started = SubSeq(registered, 1, cursor)

\* Inductive under OneStopper, given AccountingInv; WorkOnlyBehindServices is its main part.
PostureInv ==
  /\ LiveWorkersListed /\ PhasesExclusive /\ StoppedIsEmpty
  /\ StartInOrder /\ WorkOnlyBehindServices

-----------------------------------------------------------------------------
(* In one lifecycle, with any number of tasks that call stop().            *)

OneLifecycle == MaxStarts <= 1 /\ HistorySize >= 1

\* Once stop() was called no worker is ever created again.
NoRevival ==
  /\ running => starts = 1
  /\ starter # "idle" => starts = 1 /\ ~shuttingDown
  /\ shuttingDown => starts = 1
  /\ starts = 0 => AllOff
  /\ LiveWorkersListed
  /\ \A s \in Stoppers : stopper[s] # "idle" => shuttingDown
  /\ \A s \in Stoppers : stopper[s] = "gather" => listed \subseteq awaited[s]
  /\ \A s \in Stoppers : stopper[s] = "services" => listed = {}

\* What the status of a job says about where it is, and the other way round.
StatusAgrees ==
  /\ \A w \in Workers : wpc[w] \in {"started", "running"} => status[held[w]] = "running"
  /\ \A w \in Workers : wpc[w] = "reporting" => status[held[w]] \in Terminal
  /\ \A j \in Jobs \ tracked : status[j] \in Terminal \union {"new"}
  /\ \A j \in tracked : status[j] # "new"
  /\ \A j \in signalled : status[j] \in Terminal
  /\ \A i \in 1..Len(history) : status[history[i]] \in Terminal
  /\ \A j \in queue \union blocked :
       status[j] = "pending" \/ (status[j] \in Terminal /\ shuttingDown /\ listed = {})

\* Inductive under OneLifecycle, given AccountingInv; it carries the refinement of JobService.
LedgerInv == NoRevival /\ StatusAgrees
=============================================================================
