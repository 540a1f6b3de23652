--------------------------- MODULE CommitPipeline ---------------------------
(***************************************************************************)
(* From a committed operation to the tables: the transaction logs of a     *)
(* node (TrLog), the UNIQUE "log changed" event of the bus (EventBus) and  *)
(* the committer (Committer), composed.  Each part is reduced to what the  *)
(* other modules establish about it: a log is a number of committed and of *)
(* applied operations, the bus holds at most one "log changed" event, and  *)
(* a log has at most one job.                                              *)
(***************************************************************************)
EXTENDS Naturals, Sequences

CONSTANTS
    Logs,           \* transaction logs of the node
    Handlers,       \* threads of the event bus
    MaxOps,         \* bound on the operations committed to a log
    MaxCrashes      \* bound on the crashes

ASSUME PipelineAssumption == MaxOps \in Nat /\ MaxCrashes \in Nat

VARIABLES
    committed,      \* operations committed to each log (durable)
    applied,        \* operations applied to the tables (durable)
    opened,         \* logs opened since the process started
    notify,         \* commits of each log that are about to be announced
    gen,            \* events_gen of MDV_EVT_TRLOG_CHANGED
    queue,          \* "log changed" events in the bus
    hpc, hlog,      \* a thread of the bus and its event's log
    requests,       \* the committer's counter of each log
    jpc, jreq,      \* the job of each log and its local "requests"
    crashes         \* crashes so far

vars == <<committed, applied, opened, notify, gen, queue, hpc, hlog, requests, jpc, jreq, crashes>>

TypeOK ==
    /\ committed \in [Logs -> 0..MaxOps]
    /\ applied \in [Logs -> 0..MaxOps]
    /\ opened \subseteq Logs
    /\ notify \in [Logs -> 0..MaxOps]
    /\ gen \in {0, 1}
    /\ queue \in Seq(Logs) /\ Len(queue) <= 1
    /\ hpc \in [Handlers -> {"idle", "popped", "start"}]
    /\ hlog \in [Handlers -> Logs]
    /\ requests \in [Logs -> Nat]
    /\ jpc \in [Logs -> {"none", "queued", "apply", "cas"}]
    /\ jreq \in [Logs -> Nat]
    /\ crashes \in 0..MaxCrashes

Init ==
    /\ committed = [l \in Logs |-> 0]
    /\ applied = [l \in Logs |-> 0]
    /\ opened = {}
    /\ notify = [l \in Logs |-> 0]
    /\ gen = 0 /\ queue = <<>>
    /\ hpc = [h \in Handlers |-> "idle"] /\ hlog \in [Handlers -> Logs]
    /\ requests = [l \in Logs |-> 0]
    /\ jpc = [l \in Logs |-> "none"]
    /\ jreq = [l \in Logs |-> 0]
    /\ crashes = 0

(* The log is opened when needed; mdv_trlog_add_op or mdv_trlog_add, up to *)
(* the commit.                                                              *)
Commit(l) ==
    /\ committed[l] < MaxOps
    /\ committed' = [committed EXCEPT ![l] = @ + 1]
    /\ notify' = [notify EXCEPT ![l] = @ + 1]
    /\ opened' = opened \cup {l}
    /\ UNCHANGED <<applied, gen, queue, hpc, hlog, requests, jpc, jreq, crashes>>

(* Mutant of Notify: a publication that is not UNIQUE. *)
NotifyAlways(l) ==
    /\ notify[l] > 0
    /\ notify' = [notify EXCEPT ![l] = @ - 1]
    /\ gen' = 1 /\ queue' = Append(queue, l)
    /\ UNCHANGED <<opened, committed, applied, hpc, hlog, requests, jpc, jreq, crashes>>

(* mdv_trlog_changed_notify: a UNIQUE publication, dropped when an event of *)
(* this type is in the bus already.                                         *)
Notify(l) ==
    /\ notify[l] > 0
    /\ notify' = [notify EXCEPT ![l] = @ - 1]
    /\ \/ gen = 0 /\ gen' = 1 /\ queue' = Append(queue, l)
       \/ gen # 0 /\ UNCHANGED <<gen, queue>>
    /\ UNCHANGED <<opened, committed, applied, hpc, hlog, requests, jpc, jreq, crashes>>

(* mdv_ebus_evt_handler *)
Pop(h) ==
    /\ hpc[h] = "idle" /\ queue # <<>>
    /\ hlog' = [hlog EXCEPT ![h] = Head(queue)]
    /\ queue' = Tail(queue)
    /\ hpc' = [hpc EXCEPT ![h] = "popped"]
    /\ UNCHANGED <<opened, committed, applied, notify, gen, requests, jpc, jreq, crashes>>

(* Mutant of Uncount: the counter is not taken back. *)
UncountForgotten(h) ==
    /\ hpc[h] = "popped"
    /\ hpc' = [hpc EXCEPT ![h] = "start"]
    /\ UNCHANGED <<opened, committed, applied, notify, gen, queue, hlog, requests, jpc, jreq, crashes>>

Uncount(h) ==
    /\ hpc[h] = "popped"
    /\ gen' = gen - 1
    /\ hpc' = [hpc EXCEPT ![h] = "start"]
    /\ UNCHANGED <<opened, committed, applied, notify, queue, hlog, requests, jpc, jreq, crashes>>

(* mdv_committer_start *)
Start(h) ==
    /\ hpc[h] = "start"
    /\ LET l == hlog[h] IN
        /\ requests' = [requests EXCEPT ![l] = @ + 1]
        /\ jpc' = IF requests[l] = 0 THEN [jpc EXCEPT ![l] = "queued"] ELSE jpc
    /\ hpc' = [hpc EXCEPT ![h] = "idle"]
    /\ UNCHANGED <<opened, committed, applied, notify, gen, queue, hlog, jreq, crashes>>

(* mdv_committer_fn *)
JobLoad(l) ==
    /\ jpc[l] = "queued"
    /\ jreq' = [jreq EXCEPT ![l] = requests[l]]
    /\ jpc' = [jpc EXCEPT ![l] = "apply"]
    /\ UNCHANGED <<opened, committed, applied, notify, gen, queue, hpc, hlog, requests, crashes>>

JobApply(l) ==
    /\ jpc[l] = "apply"
    /\ applied' = [applied EXCEPT ![l] = committed[l]]
    /\ jpc' = [jpc EXCEPT ![l] = "cas"]
    /\ UNCHANGED <<opened, committed, notify, gen, queue, hpc, hlog, requests, jreq, crashes>>

(* Mutant of JobCas: the counter is stored to instead of compared. *)
JobCasAlwaysResets(l) ==
    /\ jpc[l] = "cas"
    /\ requests' = [requests EXCEPT ![l] = 0]
    /\ jpc' = [jpc EXCEPT ![l] = "none"]
    /\ UNCHANGED <<opened, committed, applied, notify, gen, queue, hpc, hlog, jreq, crashes>>

JobCas(l) ==
    /\ jpc[l] = "cas"
    /\ \/ /\ requests[l] = jreq[l]
          /\ requests' = [requests EXCEPT ![l] = 0]
          /\ jpc' = [jpc EXCEPT ![l] = "none"]
          /\ jreq' = jreq
       \/ /\ requests[l] # jreq[l]
          /\ jreq' = [jreq EXCEPT ![l] = requests[l]]
          /\ jpc' = [jpc EXCEPT ![l] = "apply"]
          /\ requests' = requests
    /\ UNCHANGED <<opened, committed, applied, notify, gen, queue, hpc, hlog, crashes>>

(* The process dies and is started again: only the storages survive, and no *)
(* log is opened, let alone applied, before somebody writes to it.          *)
Crash ==
    /\ crashes < MaxCrashes
    /\ crashes' = crashes + 1
    /\ opened' = {}
    /\ notify' = [l \in Logs |-> 0]
    /\ gen' = 0 /\ queue' = <<>>
    /\ hpc' = [h \in Handlers |-> "idle"]
    /\ requests' = [l \in Logs |-> 0]
    /\ jpc' = [l \in Logs |-> "none"]
    /\ jreq' = [l \in Logs |-> 0]
    /\ UNCHANGED <<committed, applied, hlog>>

HandlerStep(h) == Pop(h) \/ Uncount(h) \/ Start(h)
JobStep(l) == JobLoad(l) \/ JobApply(l) \/ JobCas(l)

Next ==
    \/ \E l \in Logs : Commit(l) \/ Notify(l) \/ JobStep(l)
    \/ \E h \in Handlers : HandlerStep(h)
    \/ Crash

(* Writers announce what they have committed; bus threads and workers run. *)
Fairness ==
    /\ \A l \in Logs : WF_vars(Notify(l)) /\ WF_vars(JobStep(l))
    /\ \A h \in Handlers : WF_vars(HandlerStep(h))

Spec == Init /\ [][Next]_vars /\ Fairness

-----------------------------------------------------------------------------

(* Somebody is still going to look at log l: a writer, an event of the bus, *)
(* a thread that has popped one, or a job that has not begun to apply.      *)
Announced(l) ==
    \/ notify[l] > 0
    \/ \E i \in DOMAIN queue : queue[i] = l
    \/ \E h \in Handlers : hpc[h] # "idle" /\ hlog[h] = l
    \/ jpc[l] \in {"queued", "apply"}
    \/ jpc[l] = "cas" /\ requests[l] # jreq[l]

(* An operation of an open log that is not applied is on its way: the       *)
(* UNIQUE event, the early countdown of events_gen and the committer's      *)
(* compare-and-exchange together lose no announcement of a single log, and  *)
(* what a crash has left behind is taken along.                             *)
NoLostWakeup ==
    \A l \in opened : applied[l] < committed[l] => Announced(l)

(* A log that stays open catches up with everything committed to it. *)
OpenLogCatchesUp ==
    \A l \in Logs : \A n \in 1..MaxOps :
        l \in opened /\ committed[l] >= n ~> applied[l] >= n \/ l \notin opened

(* README: "Support eventual consistency model."  Every committed operation *)
(* is applied to the tables in the end.                                     *)
EventuallyApplied ==
    \A l \in Logs : \A n \in 1..MaxOps : committed[l] >= n ~> applied[l] >= n
=============================================================================
