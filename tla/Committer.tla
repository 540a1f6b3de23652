----------------------------- MODULE Committer -----------------------------
(***************************************************************************)
(* The data committer (mdv_core/mdv_committer.c).  Threads of the event    *)
(* bus call its handler for "transaction log changed"; the first request   *)
(* for a log emits a job; a worker of the jobber runs the job, which asks  *)
(* for the log to be applied until no request has come in meanwhile.  The  *)
(* owner (mdv_core) drops its reference at shutdown, and whoever drops the *)
(* last reference runs mdv_committer_free.                                 *)
(*                                                                         *)
(* The jobs waiting in the round-robin queues of the jobber are counted by *)
(* log: their order is not relied upon.  active_jobs is a size_t: a        *)
(* decrement below zero gives a huge value, so "> 0" is "# 0" here.        *)
(***************************************************************************)
EXTENDS Integers, FiniteSets, FiniteSetsExt

CONSTANTS
    Logs,           \* transaction logs
    Handlers,       \* threads of the event bus
    Workers,        \* threads of the committer's jobber
    Main,           \* the thread that owns the committer
    Capacity,       \* jobs the jobber's queues hold
    MaxRequests     \* bound on the notifications per log

ASSUME ThreadAssumption ==
    Handlers \cap Workers = {} /\ Main \notin Handlers \cup Workers
ASSUME LogsAssumption == Logs # {}
ASSUME LimitAssumption == Capacity \in Nat /\ MaxRequests \in Nat

Threads == Handlers \cup Workers \cup {Main}

VARIABLES
    requests,       \* requests of each log's mdv_log_committer
    rc,             \* committer->rc
    activeJobs,     \* committer->active_jobs
    subscribed,     \* the committer is in the bus's subscriber lists
    ebusRefs,       \* references to the event bus the committer holds
    queued,         \* jobs of each log waiting in the jobber
    hpc, hlog,      \* a handler's place and its event's log
    wpc, wlog, wreq,\* a worker's place, its job's log and local "requests"
    fpc,            \* each thread's place in mdv_committer_free
    owned,          \* the owner still has its reference
    freed,          \* the memory is given back
    notified,       \* history: requests counted for each log
    served,         \* history: requests counted when the last apply began
    refused         \* history: logs whose job found the queues full

jobvars == <<requests, queued, wpc, wlog, wreq, notified, served, refused>>
lifevars == <<rc, activeJobs, subscribed, ebusRefs, fpc, owned, freed>>
vars == <<requests, rc, activeJobs, subscribed, ebusRefs, queued, hpc, hlog,
          wpc, wlog, wreq, fpc, owned, freed, notified, served, refused>>

TypeOK ==
    /\ requests \in [Logs -> Nat]
    /\ rc \in Int
    /\ activeJobs \in Int
    /\ subscribed \in BOOLEAN
    /\ ebusRefs \in Int
    /\ queued \in [Logs -> Nat]
    /\ hpc \in [Handlers -> {"idle", "retain", "push", "count"}]
    /\ hlog \in [Handlers -> Logs]
    /\ wpc \in [Workers -> {"idle", "load", "publish", "cas", "release", "uncount"}]
    /\ wlog \in [Workers -> Logs]
    /\ wreq \in [Workers -> Nat]
    /\ fpc \in [Threads -> {"none", "unsubscribe", "drain", "wait", "stop", "done"}]
    /\ owned \in BOOLEAN
    /\ freed \in BOOLEAN
    /\ notified \in [Logs -> Nat]
    /\ served \in [Logs -> Nat]
    /\ refused \subseteq Logs

(* What hlog and wlog hold before they are first set is never looked at. *)
AnyLog == CHOOSE l \in Logs : TRUE

(* mdv_committer_create: subscribed, one reference, no job. *)
Init ==
    /\ requests = [l \in Logs |-> 0]
    /\ rc = 1 /\ activeJobs = 0 /\ subscribed = TRUE /\ ebusRefs = 1
    /\ queued = [l \in Logs |-> 0]
    /\ hpc = [h \in Handlers |-> "idle"] /\ hlog = [h \in Handlers |-> AnyLog]
    /\ wpc = [w \in Workers |-> "idle"] /\ wlog = [w \in Workers |-> AnyLog]
    /\ wreq = [w \in Workers |-> 0]
    /\ fpc = [t \in Threads |-> "none"]
    /\ owned = TRUE /\ freed = FALSE
    /\ notified = [l \in Logs |-> 0] /\ served = [l \in Logs |-> 0]
    /\ refused = {}

(* mdv_committer_release by thread t: the last one frees the committer. *)
Release(t) ==
    /\ rc' = rc - 1
    /\ fpc' = IF rc = 1 THEN [fpc EXCEPT ![t] = "unsubscribe"] ELSE fpc

(* A thread that is inside mdv_committer_free does nothing else. *)
Running(t) == fpc[t] \in {"none", "done"}

-----------------------------------------------------------------------------
(* mdv_committer_evt_trlog_changed, mdv_committer_start, mdv_committer_job_emit *)

(* Mutants of Start: every request emits a job, or the wrong one does. *)
StartAlwaysEmits(h, l) ==
    /\ subscribed /\ hpc[h] = "idle"
    /\ notified[l] < MaxRequests
    /\ requests' = [requests EXCEPT ![l] = @ + 1]
    /\ notified' = [notified EXCEPT ![l] = @ + 1]
    /\ hlog' = [hlog EXCEPT ![h] = l]
    /\ hpc' = [hpc EXCEPT ![h] = "retain"]
    /\ UNCHANGED <<lifevars, queued, wpc, wlog, wreq, served, refused>>

StartSecondEmits(h, l) ==
    /\ subscribed /\ hpc[h] = "idle"
    /\ notified[l] < MaxRequests
    /\ requests' = [requests EXCEPT ![l] = @ + 1]
    /\ notified' = [notified EXCEPT ![l] = @ + 1]
    /\ hlog' = [hlog EXCEPT ![h] = l]
    /\ hpc' = [hpc EXCEPT ![h] = IF requests[l] = 1 THEN "retain" ELSE "idle"]
    /\ UNCHANGED <<lifevars, queued, wpc, wlog, wreq, served, refused>>

Start(h, l) ==
    /\ subscribed /\ hpc[h] = "idle"
    /\ notified[l] < MaxRequests
    /\ requests' = [requests EXCEPT ![l] = @ + 1]
    /\ notified' = [notified EXCEPT ![l] = @ + 1]
    /\ hlog' = [hlog EXCEPT ![h] = l]
    /\ hpc' = [hpc EXCEPT ![h] = IF requests[l] = 0 THEN "retain" ELSE "idle"]
    /\ UNCHANGED <<lifevars, queued, wpc, wlog, wreq, served, refused>>

EmitRetain(h) ==
    /\ hpc[h] = "retain"
    /\ rc' = rc + 1
    /\ hpc' = [hpc EXCEPT ![h] = "push"]
    /\ UNCHANGED <<jobvars, activeJobs, subscribed, ebusRefs, hlog, fpc, owned, freed>>

InQueues == SumFunction(queued)

EmitPush(h) ==
    /\ hpc[h] = "push"
    /\ InQueues < Capacity
    /\ queued' = [queued EXCEPT ![hlog[h]] = @ + 1]
    /\ hpc' = [hpc EXCEPT ![h] = "count"]
    /\ UNCHANGED <<lifevars, requests, hlog, wpc, wlog, wreq, notified, served, refused>>

(* The queues stay full for all push attempts: the request is left counted. *)
EmitFail(h) ==
    /\ hpc[h] = "push"
    /\ InQueues >= Capacity
    /\ Release(h)
    /\ hpc' = [hpc EXCEPT ![h] = "idle"]
    /\ refused' = refused \cup {hlog[h]}
    /\ UNCHANGED <<activeJobs, subscribed, ebusRefs, owned, freed, requests, queued,
                   hlog, wpc, wlog, wreq, notified, served>>

EmitCount(h) ==
    /\ hpc[h] = "count"
    /\ activeJobs' = activeJobs + 1
    /\ hpc' = [hpc EXCEPT ![h] = "idle"]
    /\ UNCHANGED <<jobvars, rc, subscribed, ebusRefs, hlog, fpc, owned, freed>>

-----------------------------------------------------------------------------
(* mdv_job_handler of the jobber, mdv_committer_fn and mdv_committer_finalize *)

(* Mutant of Take: a worker goes on although the queue was empty. *)
TakeFromEmpty(w, l) ==
    /\ wpc[w] = "idle" /\ Running(w) /\ ~freed
    /\ queued' = [queued EXCEPT ![l] = @ - 1]
    /\ wlog' = [wlog EXCEPT ![w] = l]
    /\ wpc' = [wpc EXCEPT ![w] = "load"]
    /\ UNCHANGED <<lifevars, requests, hpc, hlog, wreq, notified, served, refused>>

Take(w, l) ==
    /\ wpc[w] = "idle" /\ Running(w) /\ ~freed
    /\ queued[l] > 0
    /\ queued' = [queued EXCEPT ![l] = @ - 1]
    /\ wlog' = [wlog EXCEPT ![w] = l]
    /\ wpc' = [wpc EXCEPT ![w] = "load"]
    /\ UNCHANGED <<lifevars, requests, hpc, hlog, wreq, notified, served, refused>>

Load(w) ==
    /\ wpc[w] = "load"
    /\ wreq' = [wreq EXCEPT ![w] = requests[wlog[w]]]
    /\ wpc' = [wpc EXCEPT ![w] = "publish"]
    /\ UNCHANGED <<lifevars, requests, queued, hpc, hlog, wlog, notified, served, refused>>

(* MDV_EVT_TRLOG_APPLY, synchronously: what is committed by now is applied. *)
Publish(w) ==
    /\ wpc[w] = "publish"
    /\ served' = [served EXCEPT ![wlog[w]] = notified[wlog[w]]]
    /\ wpc' = [wpc EXCEPT ![w] = "cas"]
    /\ UNCHANGED <<lifevars, requests, queued, hpc, hlog, wlog, wreq, notified, refused>>

(* Mutant of Cas: the counter is stored to instead of compared. *)
CasAlwaysResets(w) ==
    /\ wpc[w] = "cas"
    /\ requests' = [requests EXCEPT ![wlog[w]] = 0]
    /\ wpc' = [wpc EXCEPT ![w] = "release"]
    /\ UNCHANGED <<lifevars, queued, hpc, hlog, wlog, wreq, notified, served, refused>>

Cas(w) ==
    /\ wpc[w] = "cas"
    /\ LET l == wlog[w] IN
        \/ /\ requests[l] = wreq[w]
           /\ requests' = [requests EXCEPT ![l] = 0]
           /\ wpc' = [wpc EXCEPT ![w] = "release"]
           /\ wreq' = wreq
        \/ /\ requests[l] # wreq[w]
           /\ wreq' = [wreq EXCEPT ![w] = requests[l]]
           /\ wpc' = [wpc EXCEPT ![w] = "publish"]
           /\ requests' = requests
    /\ UNCHANGED <<lifevars, queued, hpc, hlog, wlog, notified, served, refused>>

FinalizeRelease(w) ==
    /\ wpc[w] = "release"
    /\ Release(w)
    /\ wpc' = [wpc EXCEPT ![w] = "uncount"]
    /\ UNCHANGED <<activeJobs, subscribed, ebusRefs, owned, freed, requests, queued,
                   hpc, hlog, wlog, wreq, notified, served, refused>>

FinalizeUncount(w) ==
    /\ wpc[w] = "uncount" /\ Running(w)
    /\ activeJobs' = activeJobs - 1
    /\ wpc' = [wpc EXCEPT ![w] = "idle"]
    /\ UNCHANGED <<rc, subscribed, ebusRefs, fpc, owned, freed, requests, queued,
                   hpc, hlog, wlog, wreq, notified, served, refused>>

-----------------------------------------------------------------------------
(* mdv_committer_release by the owner, mdv_committer_free *)

OwnerRelease ==
    /\ owned
    /\ owned' = FALSE
    /\ Release(Main)
    /\ UNCHANGED <<jobvars, activeJobs, subscribed, ebusRefs, hpc, hlog, freed>>

(* mdv_ebus_unsubscribe_all takes the committer out of the lists; only the  *)
(* call that finds it there waits for the handlers that are being executed. *)
FreeUnsubscribe(t) ==
    /\ fpc[t] = "unsubscribe"
    /\ subscribed' = FALSE
    /\ fpc' = [fpc EXCEPT ![t] = IF subscribed THEN "drain" ELSE "wait"]
    /\ ebusRefs' = IF subscribed THEN ebusRefs ELSE ebusRefs - 1
    /\ UNCHANGED <<jobvars, rc, activeJobs, hpc, hlog, owned, freed>>

FreeDrain(t) ==
    /\ fpc[t] = "drain"
    /\ \A h \in Handlers : hpc[h] = "idle" /\ Running(h)
    /\ ebusRefs' = ebusRefs - 1
    /\ fpc' = [fpc EXCEPT ![t] = "wait"]
    /\ UNCHANGED <<jobvars, rc, activeJobs, subscribed, hpc, hlog, owned, freed>>

(* Mutant of FreeWait: the jobs are not waited for. *)
FreeWaitSkipped(t) ==
    /\ fpc[t] = "wait"
    /\ fpc' = [fpc EXCEPT ![t] = "stop"]
    /\ UNCHANGED <<jobvars, rc, activeJobs, subscribed, ebusRefs, hpc, hlog, owned, freed>>

FreeWait(t) ==
    /\ fpc[t] = "wait"
    /\ activeJobs = 0
    /\ fpc' = [fpc EXCEPT ![t] = "stop"]
    /\ UNCHANGED <<jobvars, rc, activeJobs, subscribed, ebusRefs, hpc, hlog, owned, freed>>

(* mdv_jobber_release joins the workers, then the memory is freed. *)
FreeStop(t) ==
    /\ fpc[t] = "stop"
    /\ \A w \in Workers : wpc[w] = "idle" /\ Running(w)
    /\ freed' = TRUE
    /\ fpc' = [fpc EXCEPT ![t] = "done"]
    /\ UNCHANGED <<jobvars, rc, activeJobs, subscribed, ebusRefs, hpc, hlog, owned>>

-----------------------------------------------------------------------------

HandlerStep(h) ==
    /\ Running(h)
    /\ \/ \E l \in Logs : Start(h, l)
       \/ EmitRetain(h) \/ EmitPush(h) \/ EmitFail(h) \/ EmitCount(h)

WorkerStep(w) ==
    \/ \E l \in Logs : Take(w, l)
    \/ Load(w) \/ Publish(w) \/ Cas(w) \/ FinalizeRelease(w) \/ FinalizeUncount(w)

FreeStep(t) == FreeUnsubscribe(t) \/ FreeDrain(t) \/ FreeWait(t) \/ FreeStop(t)

Next ==
    \/ \E h \in Handlers : HandlerStep(h)
    \/ \E w \in Workers : WorkerStep(w)
    \/ \E t \in Threads : FreeStep(t)
    \/ OwnerRelease

Spec == Init /\ [][Next]_vars

(* Every thread that can run is scheduled; nobody has to shut down. *)
FairSpec ==
    /\ Spec
    /\ \A h \in Handlers : WF_vars(Running(h) /\ (EmitRetain(h) \/ EmitPush(h)
                                                  \/ EmitFail(h) \/ EmitCount(h)))
    /\ \A w \in Workers : WF_vars(WorkerStep(w))
    /\ \A t \in Threads : WF_vars(FreeStep(t))

-----------------------------------------------------------------------------

(* The threads on whose behalf a job of log l exists and is not finished. *)
Emitting(l) == {h \in Handlers : hpc[h] \in {"retain", "push"} /\ hlog[h] = l}
Applying(l) == {w \in Workers : wpc[w] \in {"load", "publish", "cas"} /\ wlog[w] = l}

(* A log is never applied by two workers at once, which mdv_trlog_apply    *)
(* relies on: from the first request to the reset of the counter there is  *)
(* at most one job, be it about to be pushed, queued or running.           *)
OneJobPerLog ==
    \A l \in Logs :
        /\ \A a, b \in Emitting(l) \cup Applying(l) : a = b
        /\ queued[l] = 0 \/ (queued[l] = 1 /\ Emitting(l) \cup Applying(l) = {})

(* The counter goes back to zero only when an application has begun after  *)
(* the last request: no notification is swallowed by a job on its way out. *)
NoRequestSwallowed ==
    \A l \in Logs : requests[l] = 0 => served[l] = notified[l]

(* A counted request has somebody who will serve it, unless the queues of *)
(* the jobber were full when its log's job was pushed.                    *)
RequestHasJob ==
    \A l \in Logs : requests[l] > 0 =>
        Emitting(l) # {} \/ queued[l] > 0 \/ Applying(l) # {} \/ l \in refused

(* Once freed the committer is not touched any more: no handler and no job *)
(* is in progress, and no job is left that would read it.                  *)
NoUseAfterFree ==
    freed => /\ \A h \in Handlers : hpc[h] = "idle"
             /\ \A w \in Workers : wpc[w] = "idle"
             /\ \A l \in Logs : queued[l] = 0

(* Until the owner shuts down, every request is followed by an application *)
(* of its log, also when it comes in while a job is on its way out; only a  *)
(* job that found the queues full stops the log from being applied.         *)
RequestsServed ==
    \A l \in Logs : notified[l] > served[l]
        ~> served[l] = notified[l] \/ ~owned \/ l \in refused

(* mdv_committer_release: "When the reference counter reaches zero, the data *)
(* committer is stopped and freed."                                          *)
FreedWhenUnreferenced == rc = 0 ~> freed
=============================================================================
