-------------------------- MODULE CommitterProofs --------------------------
(***************************************************************************)
(* Proofs about the committer's requests and jobs, for any number of logs, *)
(* bus threads and workers, with failing pushes and during shutdown.       *)
(***************************************************************************)
EXTENDS Committer, TLAPS

(* A log without counted requests has no job. *)
IdleLog ==
    \A l \in Logs : requests[l] = 0 => queued[l] = 0 /\ Emitting(l) \cup Applying(l) = {}

(* What a job has seen: its local "requests" is not ahead of the counter, and *)
(* the requests it has not served are all newer than that local value.        *)
JobSeen ==
    /\ \A l \in Logs : served[l] <= notified[l]
    /\ \A w \in Workers : wpc[w] \in {"publish", "cas"} => wreq[w] <= requests[wlog[w]]
    /\ \A w \in Workers : wpc[w] = "cas" =>
            notified[wlog[w]] - served[wlog[w]] <= requests[wlog[w]] - wreq[w]

IInv ==
    TypeOK /\ OneJobPerLog /\ IdleLog /\ JobSeen /\ NoRequestSwallowed /\ RequestHasJob

-----------------------------------------------------------------------------

(* The committer as mdv_committer_create leaves it satisfies the invariant. *)
LEMMA InitInv == Init => IInv
<1> SUFFICES ASSUME Init PROVE IInv
  OBVIOUS
<1>1. TypeOK
  <2>1. /\ requests \in [Logs -> Nat] /\ queued \in [Logs -> Nat]
        /\ notified \in [Logs -> Nat] /\ served \in [Logs -> Nat]
        /\ wreq \in [Workers -> Nat] /\ refused \subseteq Logs
    BY DEF Init
  <2>5. AnyLog \in Logs
    BY LogsAssumption DEF AnyLog
  <2>6. hlog \in [Handlers -> Logs] /\ wlog \in [Workers -> Logs]
    BY <2>5 DEF Init
  <2>2. /\ hpc \in [Handlers -> {"idle", "retain", "push", "count"}]
        /\ wpc \in [Workers -> {"idle", "load", "publish", "cas", "release", "uncount"}]
        /\ fpc \in [Threads -> {"none", "unsubscribe", "drain", "wait", "stop", "done"}]
    BY DEF Init
  <2>3. subscribed \in BOOLEAN /\ owned \in BOOLEAN /\ freed \in BOOLEAN
    BY DEF Init
  <2>4. rc \in Int /\ activeJobs \in Int /\ ebusRefs \in Int
    BY DEF Init
  <2> QED  BY <2>1, <2>2, <2>3, <2>4, <2>6 DEF TypeOK
<1>2. OneJobPerLog /\ IdleLog
  BY DEF Init, OneJobPerLog, IdleLog, Emitting, Applying
<1>3. JobSeen /\ NoRequestSwallowed /\ RequestHasJob
  BY DEF Init, JobSeen, NoRequestSwallowed, RequestHasJob
<1> QED  BY <1>1, <1>2, <1>3 DEF IInv

(* Every step preserves the invariant. *)
LEMMA StepInv == IInv /\ [Next]_vars => IInv'
<1> SUFFICES ASSUME IInv, [Next]_vars PROVE IInv'
  OBVIOUS
<1> USE ThreadAssumption DEF IInv
<1>0. CASE UNCHANGED vars
  BY <1>0 DEF vars, TypeOK, OneJobPerLog, IdleLog, JobSeen, NoRequestSwallowed,
              RequestHasJob, Emitting, Applying
<1>1. ASSUME NEW h \in Handlers, NEW l \in Logs, Start(h, l) PROVE IInv'
  <2> USE <1>1 DEF Start, lifevars, jobvars, Release
  <2>1. TypeOK'
    BY DEF TypeOK, Threads
  <2>2. OneJobPerLog' /\ IdleLog'
    BY DEF TypeOK, OneJobPerLog, IdleLog, Emitting, Applying
  <2>3. JobSeen' /\ NoRequestSwallowed'
    BY DEF TypeOK, OneJobPerLog, IdleLog, JobSeen, NoRequestSwallowed, Emitting, Applying
  <2>4. RequestHasJob'
    BY DEF TypeOK, RequestHasJob, Emitting, Applying
  <2> QED  BY <2>1, <2>2, <2>3, <2>4
<1>2. ASSUME NEW h \in Handlers, EmitRetain(h) PROVE IInv'
  <2> USE <1>2 DEF EmitRetain, lifevars, jobvars, Release
  <2>1. TypeOK'
    BY DEF TypeOK, Threads
  <2>2. OneJobPerLog' /\ IdleLog'
    BY DEF TypeOK, OneJobPerLog, IdleLog, Emitting, Applying
  <2>3. JobSeen' /\ NoRequestSwallowed'
    BY DEF TypeOK, OneJobPerLog, IdleLog, JobSeen, NoRequestSwallowed, Emitting, Applying
  <2>4. RequestHasJob'
    BY DEF TypeOK, RequestHasJob, Emitting, Applying
  <2> QED  BY <2>1, <2>2, <2>3, <2>4
<1>3. ASSUME NEW h \in Handlers, EmitPush(h) PROVE IInv'
  <2> USE <1>3 DEF EmitPush, lifevars, jobvars, Release
  <2>1. TypeOK'
    BY DEF TypeOK, Threads
  <2>2. OneJobPerLog' /\ IdleLog'
    BY DEF TypeOK, OneJobPerLog, IdleLog, Emitting, Applying
  <2>3. JobSeen' /\ NoRequestSwallowed'
    BY DEF TypeOK, OneJobPerLog, IdleLog, JobSeen, NoRequestSwallowed, Emitting, Applying
  <2>4. RequestHasJob'
    BY DEF TypeOK, RequestHasJob, Emitting, Applying
  <2> QED  BY <2>1, <2>2, <2>3, <2>4
<1>4. ASSUME NEW h \in Handlers, EmitFail(h) PROVE IInv'
  <2> USE <1>4 DEF EmitFail, lifevars, jobvars, Release
  <2>1. TypeOK'
    BY DEF TypeOK, Threads
  <2>2. OneJobPerLog' /\ IdleLog'
    BY DEF TypeOK, OneJobPerLog, IdleLog, Emitting, Applying
  <2>3. JobSeen' /\ NoRequestSwallowed'
    BY DEF TypeOK, OneJobPerLog, IdleLog, JobSeen, NoRequestSwallowed, Emitting, Applying
  <2>4. RequestHasJob'
    BY DEF TypeOK, RequestHasJob, Emitting, Applying
  <2> QED  BY <2>1, <2>2, <2>3, <2>4
<1>5. ASSUME NEW h \in Handlers, EmitCount(h) PROVE IInv'
  <2> USE <1>5 DEF EmitCount, lifevars, jobvars, Release
  <2>1. TypeOK'
    BY DEF TypeOK, Threads
  <2>2. OneJobPerLog' /\ IdleLog'
    BY DEF TypeOK, OneJobPerLog, IdleLog, Emitting, Applying
  <2>3. JobSeen' /\ NoRequestSwallowed'
    BY DEF TypeOK, OneJobPerLog, IdleLog, JobSeen, NoRequestSwallowed, Emitting, Applying
  <2>4. RequestHasJob'
    BY DEF TypeOK, RequestHasJob, Emitting, Applying
  <2> QED  BY <2>1, <2>2, <2>3, <2>4
<1>6. ASSUME NEW w \in Workers, NEW l \in Logs, Take(w, l) PROVE IInv'
  <2> USE <1>6 DEF Take, lifevars, jobvars, Release
  <2>1. TypeOK'
    BY DEF TypeOK, Threads
  <2>2. OneJobPerLog' /\ IdleLog'
    BY DEF TypeOK, OneJobPerLog, IdleLog, Emitting, Applying
  <2>3. JobSeen' /\ NoRequestSwallowed'
    BY DEF TypeOK, OneJobPerLog, IdleLog, JobSeen, NoRequestSwallowed, Emitting, Applying
  <2>4. RequestHasJob'
    BY DEF TypeOK, RequestHasJob, Emitting, Applying
  <2> QED  BY <2>1, <2>2, <2>3, <2>4
<1>7. ASSUME NEW w \in Workers, Load(w) PROVE IInv'
  <2> USE <1>7 DEF Load, lifevars, jobvars, Release
  <2>1. TypeOK'
    BY DEF TypeOK, Threads
  <2>2. OneJobPerLog' /\ IdleLog'
    BY DEF TypeOK, OneJobPerLog, IdleLog, Emitting, Applying
  <2>3. JobSeen' /\ NoRequestSwallowed'
    BY DEF TypeOK, OneJobPerLog, IdleLog, JobSeen, NoRequestSwallowed, Emitting, Applying
  <2>4. RequestHasJob'
    BY DEF TypeOK, RequestHasJob, Emitting, Applying
  <2> QED  BY <2>1, <2>2, <2>3, <2>4
<1>8. ASSUME NEW w \in Workers, Publish(w) PROVE IInv'
  <2> USE <1>8 DEF Publish, lifevars, jobvars, Release
  <2>1. TypeOK'
    BY DEF TypeOK, Threads
  <2>2. OneJobPerLog' /\ IdleLog'
    BY DEF TypeOK, OneJobPerLog, IdleLog, Emitting, Applying
  <2>3. JobSeen' /\ NoRequestSwallowed'
    BY DEF TypeOK, OneJobPerLog, IdleLog, JobSeen, NoRequestSwallowed, Emitting, Applying
  <2>4. RequestHasJob'
    BY DEF TypeOK, RequestHasJob, Emitting, Applying
  <2> QED  BY <2>1, <2>2, <2>3, <2>4
<1>9. ASSUME NEW w \in Workers, Cas(w) PROVE IInv'
  <2> USE <1>9 DEF Cas, lifevars, jobvars, Release
  <2>1. TypeOK'
    BY DEF TypeOK, Threads
  <2>2. OneJobPerLog' /\ IdleLog'
    BY DEF TypeOK, OneJobPerLog, IdleLog, Emitting, Applying
  <2>3. JobSeen' /\ NoRequestSwallowed'
    <3>1. CASE requests[wlog[w]] = wreq[w] /\ requests' = [requests EXCEPT ![wlog[w]] = 0]
                  /\ wpc' = [wpc EXCEPT ![w] = "release"] /\ wreq' = wreq
      <4>1. served[wlog[w]] = notified[wlog[w]]
        BY <3>1 DEF TypeOK, JobSeen
      <4>2. \A v \in Workers : wpc'[v] \in {"publish", "cas"} => wlog[v] # wlog[w]
        BY <3>1 DEF TypeOK, OneJobPerLog, Applying
      <4> QED  BY <3>1, <4>1, <4>2 DEF TypeOK, JobSeen, NoRequestSwallowed
    <3>2. CASE requests[wlog[w]] # wreq[w] /\ wreq' = [wreq EXCEPT ![w] = requests[wlog[w]]]
                  /\ wpc' = [wpc EXCEPT ![w] = "publish"] /\ requests' = requests
      BY <3>2 DEF TypeOK, JobSeen, NoRequestSwallowed
    <3> QED  BY <3>1, <3>2
  <2>4. RequestHasJob'
    BY DEF TypeOK, RequestHasJob, Emitting, Applying
  <2> QED  BY <2>1, <2>2, <2>3, <2>4
<1>10. ASSUME NEW w \in Workers, FinalizeRelease(w) PROVE IInv'
  <2> USE <1>10 DEF FinalizeRelease, lifevars, jobvars, Release
  <2>1. TypeOK'
    BY DEF TypeOK, Threads
  <2>2. OneJobPerLog' /\ IdleLog'
    BY DEF TypeOK, OneJobPerLog, IdleLog, Emitting, Applying
  <2>3. JobSeen' /\ NoRequestSwallowed'
    BY DEF TypeOK, OneJobPerLog, IdleLog, JobSeen, NoRequestSwallowed, Emitting, Applying
  <2>4. RequestHasJob'
    BY DEF TypeOK, RequestHasJob, Emitting, Applying
  <2> QED  BY <2>1, <2>2, <2>3, <2>4
<1>11. ASSUME NEW w \in Workers, FinalizeUncount(w) PROVE IInv'
  <2> USE <1>11 DEF FinalizeUncount, lifevars, jobvars, Release
  <2>1. TypeOK'
    BY DEF TypeOK, Threads
  <2>2. OneJobPerLog' /\ IdleLog'
    BY DEF TypeOK, OneJobPerLog, IdleLog, Emitting, Applying
  <2>3. JobSeen' /\ NoRequestSwallowed'
    BY DEF TypeOK, OneJobPerLog, IdleLog, JobSeen, NoRequestSwallowed, Emitting, Applying
  <2>4. RequestHasJob'
    BY DEF TypeOK, RequestHasJob, Emitting, Applying
  <2> QED  BY <2>1, <2>2, <2>3, <2>4
<1>12. CASE OwnerRelease
  <2> USE <1>12 DEF OwnerRelease, lifevars, jobvars, Release
  <2>1. TypeOK'
    <3>1. owned' \in BOOLEAN
      OBVIOUS
    <3>2. fpc' \in [Threads -> {"none", "unsubscribe", "drain", "wait", "stop", "done"}]
      BY DEF TypeOK, Threads
    <3>3. rc' \in Int /\ ebusRefs' \in Int
      BY DEF TypeOK
    <3> QED  BY <3>1, <3>2, <3>3 DEF TypeOK
  <2>2. OneJobPerLog' /\ IdleLog'
    BY DEF TypeOK, OneJobPerLog, IdleLog, Emitting, Applying
  <2>3. JobSeen' /\ NoRequestSwallowed'
    BY DEF TypeOK, OneJobPerLog, IdleLog, JobSeen, NoRequestSwallowed, Emitting, Applying
  <2>4. RequestHasJob'
    BY DEF TypeOK, RequestHasJob, Emitting, Applying
  <2> QED  BY <2>1, <2>2, <2>3, <2>4
<1>13. ASSUME NEW t \in Threads, FreeUnsubscribe(t) PROVE IInv'
  <2> USE <1>13 DEF FreeUnsubscribe, lifevars, jobvars, Release
  <2>1. TypeOK'
    <3>1. subscribed' \in BOOLEAN
      OBVIOUS
    <3>2. fpc' \in [Threads -> {"none", "unsubscribe", "drain", "wait", "stop", "done"}]
      BY DEF TypeOK, Threads
    <3>3. rc' \in Int /\ ebusRefs' \in Int
      BY DEF TypeOK
    <3> QED  BY <3>1, <3>2, <3>3 DEF TypeOK
  <2>2. OneJobPerLog' /\ IdleLog'
    BY DEF TypeOK, OneJobPerLog, IdleLog, Emitting, Applying
  <2>3. JobSeen' /\ NoRequestSwallowed'
    BY DEF TypeOK, OneJobPerLog, IdleLog, JobSeen, NoRequestSwallowed, Emitting, Applying
  <2>4. RequestHasJob'
    BY DEF TypeOK, RequestHasJob, Emitting, Applying
  <2> QED  BY <2>1, <2>2, <2>3, <2>4
<1>14. ASSUME NEW t \in Threads, FreeDrain(t) PROVE IInv'
  <2> USE <1>14 DEF FreeDrain, lifevars, jobvars, Release
  <2>1. TypeOK'
    BY DEF TypeOK, Threads
  <2>2. OneJobPerLog' /\ IdleLog'
    BY DEF TypeOK, OneJobPerLog, IdleLog, Emitting, Applying
  <2>3. JobSeen' /\ NoRequestSwallowed'
    BY DEF TypeOK, OneJobPerLog, IdleLog, JobSeen, NoRequestSwallowed, Emitting, Applying
  <2>4. RequestHasJob'
    BY DEF TypeOK, RequestHasJob, Emitting, Applying
  <2> QED  BY <2>1, <2>2, <2>3, <2>4
<1>15. ASSUME NEW t \in Threads, FreeWait(t) PROVE IInv'
  <2> USE <1>15 DEF FreeWait, lifevars, jobvars, Release
  <2>1. TypeOK'
    BY DEF TypeOK, Threads
  <2>2. OneJobPerLog' /\ IdleLog'
    BY DEF TypeOK, OneJobPerLog, IdleLog, Emitting, Applying
  <2>3. JobSeen' /\ NoRequestSwallowed'
    BY DEF TypeOK, OneJobPerLog, IdleLog, JobSeen, NoRequestSwallowed, Emitting, Applying
  <2>4. RequestHasJob'
    BY DEF TypeOK, RequestHasJob, Emitting, Applying
  <2> QED  BY <2>1, <2>2, <2>3, <2>4
<1>16. ASSUME NEW t \in Threads, FreeStop(t) PROVE IInv'
  <2> USE <1>16 DEF FreeStop, lifevars, jobvars, Release
  <2>1. TypeOK'
    BY DEF TypeOK, Threads
  <2>2. OneJobPerLog' /\ IdleLog'
    BY DEF TypeOK, OneJobPerLog, IdleLog, Emitting, Applying
  <2>3. JobSeen' /\ NoRequestSwallowed'
    BY DEF TypeOK, OneJobPerLog, IdleLog, JobSeen, NoRequestSwallowed, Emitting, Applying
  <2>4. RequestHasJob'
    BY DEF TypeOK, RequestHasJob, Emitting, Applying
  <2> QED  BY <2>1, <2>2, <2>3, <2>4
<1> QED
  BY <1>0, <1>1, <1>2, <1>3, <1>4, <1>5, <1>6, <1>7, <1>8, <1>9, <1>10, <1>11, <1>12,
     <1>13, <1>14, <1>15, <1>16 DEF Next, HandlerStep, WorkerStep, FreeStep

-----------------------------------------------------------------------------

(* The invariant holds in every state. *)
LEMMA InvHolds == Spec => []IInv
BY InitInv, StepInv, PTL DEF Spec

(* Type correctness of the committer. *)
THEOREM CommitterTypeOK == Spec => []TypeOK
<1>1. IInv => TypeOK
  BY DEF IInv
<1> QED  BY InvHolds, <1>1, PTL

(* Between the first request for a log and the reset of its counter there is *)
(* at most one job: the log is never applied by two workers at once.         *)
THEOREM CommitterOneJobPerLog == Spec => []OneJobPerLog
<1>1. IInv => OneJobPerLog
  BY DEF IInv
<1> QED  BY InvHolds, <1>1, PTL

(* The counter of a log is zero only when an application of the log began *)
(* after its last request: the compare-and-exchange swallows nothing.     *)
THEOREM CommitterNoRequestSwallowed == Spec => []NoRequestSwallowed
<1>1. IInv => NoRequestSwallowed
  BY DEF IInv
<1> QED  BY InvHolds, <1>1, PTL

(* A counted request has a job, on its way, queued or running, unless the *)
(* queues were full when that job was pushed.                             *)
THEOREM CommitterRequestHasJob == Spec => []RequestHasJob
<1>1. IInv => RequestHasJob
  BY DEF IInv
<1> QED  BY InvHolds, <1>1, PTL
=============================================================================
