---------------------------- MODULE Replication ----------------------------
(***************************************************************************)
(* Replication of one node's transaction log to a neighbour over one       *)
(* connection: mdv_core/mdv_syncerlog.c on the source node, mdv_syncer.c   *)
(* on the neighbour, and the handlers of mdv_peer.c between them.          *)
(*                                                                         *)
(* The source asks with SYNC, the neighbour answers STATE with the top of  *)
(* its copy, and the source cuts the rest of its log into ranges, each     *)
(* sent as DATA by a job.  Every message becomes an event of the bus and   *)
(* DATA becomes a job: both are spread over several queues and threads, so *)
(* what is under way is unordered.  A synchronizer lives from a connection *)
(* to its loss (an epoch), and beyond that as long as its jobs do.         *)
(***************************************************************************)
EXTENDS Naturals, FiniteSets

CONSTANTS
    Handlers,       \* threads of the source's bus that handle STATE
    BatchSize,      \* MDV_CONFIG.datasync.batch_size
    MaxOps,         \* bound on the operations written
    Scenarios       \* bounds: the threads that work, the losses of the connection,
                    \*   and the failed pushes and commits

ASSUME ReplicationAssumption ==
    /\ BatchSize \in Nat \ {0} /\ MaxOps \in Nat
    /\ Scenarios \subseteq [threads : SUBSET Handlers, breaks : Nat, faults : Nat]

Ids == 0..(MaxOps - 1)

VARIABLES
    scenario,       \* the scenario of this behaviour
    log, top,       \* the source's log and its trlog->top
    changed,        \* a "log changed" event is in the source's bus
    link,           \* the connection is up
    epoch,          \* the synchronizers made before the present one
    requests,       \* syncerlog->requests
    synced,         \* syncerlog->synced
    tosend,         \* SYNC messages about to be sent
    sched,          \* what each thread does with a STATE event
    jobs,           \* ranges to be sent: <<epoch, from, to>>
    syncs, states,  \* SYNC messages, and how many STATE messages of each top
    data,           \* DATA messages: <<epoch, operations>>
    saves,          \* DATA the neighbour has received and is to save
    saving,         \* the save whose LMDB transaction is active
    replies,        \* saves about to report the top of the copy
    copy, copyTop,  \* the neighbour's copy of the log and its top
    applied, stored,\* the copy's position, the operations in its tables
    faults,         \* failures so far
    scheduled       \* history: operations the synchronizer has made jobs of

srcvars == <<scenario, log, top, changed>>
connvars == <<link, epoch>>
reqvars == <<requests, tosend>>
jobvars == <<jobs, scheduled>>
netvars == <<syncs, states, data>>
savevars == <<saves, saving, replies>>
copyvars == <<copy, copyTop, applied, stored>>
vars == <<srcvars, connvars, reqvars, synced, sched, jobvars, netvars, savevars,
          copyvars, faults>>

Positions == 0..MaxOps
Rows == Nat \X SUBSET Ids
Range(a, b) == {i \in Ids : a <= i /\ i < b}

(* The locals of mdv_syncerlog_schedule *)
Locals == [pc : {"idle", "load", "top", "cas", "emit", "req"}, requests : Nat,
           synced : Positions, top : Positions, rrange : Positions]
Idle == [pc |-> "idle", requests |-> 0, synced |-> 0, top |-> 0, rrange |-> 0]

TypeOK ==
    /\ scenario \in Scenarios
    /\ log \subseteq Ids /\ top \in Positions /\ changed \in BOOLEAN
    /\ link \in BOOLEAN /\ epoch \in 0..scenario.breaks
    /\ requests \in Nat /\ tosend \in Nat
    /\ synced \in Positions /\ sched \in [Handlers -> Locals]
    /\ jobs \subseteq Nat \X Positions \X Positions
    /\ scheduled \subseteq Ids
    /\ syncs \in Nat /\ states \in [Positions -> Nat] /\ data \subseteq Rows
    /\ saves \subseteq Rows /\ saving \subseteq saves /\ replies \in Nat
    /\ copy \subseteq Ids /\ copyTop \in Positions
    /\ applied \in Positions /\ stored \subseteq copy
    /\ faults \in 0..scenario.faults

(* A new connection between two nodes, the neighbour without a copy. *)
Init ==
    /\ scenario \in Scenarios
    /\ log = {} /\ top = 0 /\ changed = FALSE
    /\ link = TRUE /\ epoch = 0
    /\ requests = 0 /\ tosend = 0 /\ synced = 0 /\ sched = [h \in Handlers |-> Idle]
    /\ jobs = {} /\ scheduled = {}
    /\ syncs = 0 /\ states = [p \in Positions |-> 0] /\ data = {}
    /\ saves = {} /\ saving = {} /\ replies = 0
    /\ copy = {} /\ copyTop = 0 /\ applied = 0 /\ stored = {}
    /\ faults = 0

Fault == faults < scenario.faults /\ faults' = faults + 1

-----------------------------------------------------------------------------
(* The source *)

(* An operation of the source's log is committed, or fails and leaves a hole; *)
(* readers of the log wait for the transaction (module TrLog).                *)
Write ==
    /\ top < MaxOps
    /\ top' = top + 1
    /\ \/ log' = log \cup {top} /\ changed' = TRUE
       \/ UNCHANGED <<log, changed>>
    /\ UNCHANGED <<scenario, connvars, reqvars, synced, sched, jobvars, netvars, savevars,
                   copyvars, faults>>

(* mdv_syncerlog_start, with r requests and t messages to send: the first *)
(* request is sent on.                                                    *)
Start(r, t) ==
    IF top = 0
    THEN requests' = r /\ tosend' = t
    ELSE requests' = r + 1 /\ tosend' = t + (IF r = 0 THEN 1 ELSE 0)

(* mdv_syncerlog_evt_changed *)
Changed ==
    /\ changed
    /\ changed' = FALSE
    /\ Start(requests, tosend)
    /\ UNCHANGED <<scenario, log, top, connvars, synced, sched, jobvars, netvars, savevars,
                   copyvars, faults>>

(* The SYNC event reaches the connection; without one the handler of a dying *)
(* connection fails and the request is taken back, or nobody minds.          *)
SendSync ==
    /\ tosend > 0
    /\ tosend' = tosend - 1
    /\ \/ link /\ syncs' = syncs + 1 /\ requests' = requests
       \/ ~link /\ syncs' = syncs /\ requests' \in {0, requests}
    /\ UNCHANGED <<srcvars, connvars, synced, sched, jobvars, states, data, savevars,
                   copyvars, faults>>

-----------------------------------------------------------------------------
(* mdv_syncerlog_evt_trlog_state and mdv_syncerlog_schedule, by thread h *)

(* The requests are loaded, then synced. *)
State(h, p) ==
    /\ h \in scenario.threads /\ sched[h].pc = "idle" /\ states[p] > 0
    /\ states' = [states EXCEPT ![p] = @ - 1]
    /\ sched' = [sched EXCEPT ![h] = [Idle EXCEPT !.pc = "load", !.requests = requests,
                                                 !.synced = p]]
    /\ UNCHANGED <<srcvars, connvars, reqvars, synced, jobvars, syncs, data, savevars,
                   copyvars, faults>>

LoadSynced(h) ==
    /\ sched[h].pc = "load"
    /\ sched' = [sched EXCEPT ![h].pc = "top",
                              ![h].synced = IF synced < @ THEN @ ELSE synced]
    /\ UNCHANGED <<srcvars, connvars, reqvars, synced, jobvars, netvars, savevars,
                   copyvars, faults>>

(* The end of the next range: at most one batch further. *)
RangeEnd(from, t) == IF t > from + BatchSize THEN from + BatchSize ELSE t

LoadTop(h) ==
    /\ sched[h].pc = "top"
    /\ LET from == sched[h].synced IN
        \/ /\ from >= top
           /\ sched' = [sched EXCEPT ![h].pc = "req", ![h].top = top, ![h].rrange = top]
        \/ /\ from < top
           /\ sched' = [sched EXCEPT ![h].pc = "cas", ![h].top = top,
                                     ![h].rrange = RangeEnd(from, top)]
    /\ UNCHANGED <<srcvars, connvars, reqvars, synced, jobvars, netvars, savevars,
                   copyvars, faults>>

(* Mutant of CasSynced: synced moves to the top of the log. *)
CasSyncedToTop(h) ==
    /\ sched[h].pc = "cas"
    /\ \/ /\ synced = sched[h].synced
          /\ synced' = sched[h].top
          /\ sched' = [sched EXCEPT ![h].pc = "emit"]
       \/ /\ synced # sched[h].synced
          /\ sched' = [sched EXCEPT ![h].pc = "top", ![h].synced = synced]
          /\ synced' = synced
    /\ UNCHANGED <<srcvars, connvars, reqvars, jobvars, netvars, savevars, copyvars, faults>>

(* Mutant of CasSynced: a thread that lost the exchange sends its range too. *)
CasSyncedLoserEmits(h) ==
    /\ sched[h].pc = "cas"
    /\ \/ /\ synced >= sched[h].synced
          /\ synced' = IF synced = sched[h].synced THEN sched[h].rrange ELSE synced
          /\ sched' = [sched EXCEPT ![h].pc = "emit"]
       \/ /\ synced < sched[h].synced
          /\ sched' = [sched EXCEPT ![h].pc = "top", ![h].synced = synced]
          /\ synced' = synced
    /\ UNCHANGED <<srcvars, connvars, reqvars, jobvars, netvars, savevars, copyvars, faults>>

(* A failed exchange loads what synced is, and so forgets the top that the *)
(* neighbour has reported.  The exchange is a weak one; that it may fail   *)
(* for no reason, and be tried again, is left out.                         *)
CasSynced(h) ==
    /\ sched[h].pc = "cas"
    /\ \/ /\ synced = sched[h].synced
          /\ synced' = sched[h].rrange
          /\ sched' = [sched EXCEPT ![h].pc = "emit"]
       \/ /\ synced # sched[h].synced
          /\ sched' = [sched EXCEPT ![h].pc = "top", ![h].synced = synced]
          /\ synced' = synced
    /\ UNCHANGED <<srcvars, connvars, reqvars, jobvars, netvars, savevars, copyvars, faults>>

(* mdv_syncerlog_data_send_job_emit; a job that cannot be pushed is dropped. *)
EmitSend(h) ==
    /\ sched[h].pc = "emit"
    /\ LET l == sched[h] IN
        /\ \/ /\ jobs' = jobs \cup {<<epoch, l.synced, l.rrange>>}
              /\ scheduled' = scheduled \cup Range(l.synced, l.rrange)
              /\ faults' = faults
           \/ Fault /\ UNCHANGED jobvars
        /\ sched' = [sched EXCEPT ![h].pc = IF l.rrange < l.top THEN "top" ELSE "req",
                                  ![h].synced = l.rrange]
    /\ UNCHANGED <<srcvars, connvars, reqvars, synced, netvars, savevars, copyvars>>

(* Mutant of CasRequests: requests that came in meanwhile are forgotten. *)
CasRequestsAlways(h) ==
    /\ sched[h].pc = "req"
    /\ requests' = 0
    /\ sched' = [sched EXCEPT ![h] = Idle]
    /\ UNCHANGED <<srcvars, connvars, tosend, synced, jobvars, netvars, savevars,
                   copyvars, faults>>

(* Requests that came in meanwhile make another round. *)
CasRequests(h) ==
    /\ sched[h].pc = "req"
    /\ \/ /\ requests = sched[h].requests
          /\ requests' = 0
          /\ sched' = [sched EXCEPT ![h] = Idle]
       \/ /\ requests # sched[h].requests
          /\ sched' = [sched EXCEPT ![h].pc = "top", ![h].requests = requests]
          /\ requests' = requests
    /\ UNCHANGED <<srcvars, connvars, tosend, synced, jobvars, netvars, savevars,
                   copyvars, faults>>

(* Mutant of SendData: operations that were not committed are read too. *)
SendDataUncommitted(j) ==
    /\ jobs' = jobs \ {j}
    /\ data' = IF link THEN data \cup {<<j[1], Range(j[2], j[3])>>} ELSE data
    /\ UNCHANGED <<srcvars, connvars, reqvars, synced, sched, scheduled, syncs, states,
                   savevars, copyvars, faults>>

(* mdv_syncerlog_data_send_fn: the committed operations of the range, if any, *)
(* go to whatever connection there is to the peer.                            *)
SendData(j) ==
    /\ jobs' = jobs \ {j}
    /\ LET rows == log \cap Range(j[2], j[3]) IN
        \/ link /\ rows # {} /\ data' = data \cup {<<j[1], rows>>}
        \/ (~link \/ rows = {}) /\ data' = data
    /\ UNCHANGED <<srcvars, connvars, reqvars, synced, sched, scheduled, syncs, states,
                   savevars, copyvars, faults>>

-----------------------------------------------------------------------------
(* The neighbour *)

(* A STATE event is posted to the source if there is a connection to it. *)
Reply == states' = IF link THEN [states EXCEPT ![copyTop] = @ + 1] ELSE states

(* mdv_peer_trlog_sync_handler, mdv_syncer_evt_trlog_sync *)
HandleSync ==
    /\ syncs > 0
    /\ syncs' = syncs - 1
    /\ Reply
    /\ UNCHANGED <<srcvars, connvars, reqvars, synced, sched, jobvars, data, savevars,
                   copyvars, faults>>

(* mdv_peer_trlog_data_handler, mdv_syncer_evt_trlog_data; the rows of a job *)
(* that cannot be pushed are dropped.                                        *)
HandleData(d) ==
    /\ data' = data \ {d}
    /\ \/ saves' = saves \cup {d} /\ faults' = faults
       \/ Fault /\ saves' = saves
    /\ UNCHANGED <<srcvars, connvars, reqvars, synced, sched, jobvars, syncs, states,
                   saving, replies, copyvars>>

(* mdv_trlog_id_maximize over the operations put *)
Maximized(t, rows) ==
    CHOOSE m \in Positions : /\ m = t \/ \E i \in rows : m = i + 1
                             /\ t <= m /\ \A i \in rows : i < m

(* mdv_trlog_add: top moves with every put, inside the transaction. *)
SavePut(d) ==
    /\ saving = {}
    /\ saving' = {d}
    /\ copyTop' = Maximized(copyTop, d[2] \ copy)
    /\ UNCHANGED <<srcvars, connvars, reqvars, synced, sched, jobvars, netvars, saves,
                   replies, copy, applied, stored, faults>>

(* The commit may fail: top has moved all the same. *)
SaveCommit(d) ==
    /\ saving' = {}
    /\ saves' = saves \ {d}
    /\ replies' = replies + 1
    /\ \/ copy' = copy \cup d[2] /\ faults' = faults
       \/ Fault /\ copy' = copy
    /\ UNCHANGED <<srcvars, connvars, reqvars, synced, sched, jobvars, netvars, copyTop,
                   applied, stored>>

(* mdv_syncer_data_save_fn ends with the top as it is by then. *)
SaveReply ==
    /\ replies > 0
    /\ replies' = replies - 1
    /\ Reply
    /\ UNCHANGED <<srcvars, connvars, reqvars, synced, sched, jobvars, syncs, data, saves,
                   saving, copyvars, faults>>

(* Mutant of ApplyCopy: everything below the top is taken to be there. *)
ApplyCopyToTop ==
    /\ saving = {} /\ applied < copyTop
    /\ stored' = stored \cup Range(applied, copyTop)
    /\ applied' = copyTop
    /\ UNCHANGED <<srcvars, connvars, reqvars, synced, sched, jobvars, netvars, savevars,
                   copy, copyTop, faults>>

(* The committer applies the copy from its position on (module TrLog). *)
ApplyCopy ==
    /\ saving = {} /\ applied < Maximized(applied, copy)
    /\ stored' = stored \cup {i \in copy : i >= applied}
    /\ applied' = Maximized(applied, copy)
    /\ UNCHANGED <<srcvars, connvars, reqvars, synced, sched, jobvars, netvars, savevars,
                   copy, copyTop, faults>>

-----------------------------------------------------------------------------
(* The connection *)

(* Messages are lost, except those that are events of a bus already. *)
Disconnect ==
    /\ link /\ epoch < scenario.breaks
    /\ link' = FALSE
    /\ syncs' \in 0..syncs /\ data' = {}
    /\ \E gone \in SUBSET {p \in Positions : states[p] > 0} :
          states' = [p \in Positions |-> IF p \in gone THEN 0 ELSE states[p]]
    /\ UNCHANGED <<srcvars, epoch, reqvars, synced, sched, jobvars, savevars,
                   copyvars, faults>>

(* The neighbour dies and restarts: mdv_trlog_init finds the last key. *)
Crash ==
    /\ link /\ epoch < scenario.breaks
    /\ link' = FALSE
    /\ syncs' = 0 /\ data' = {} /\ states' = [p \in Positions |-> 0]
    /\ saves' = {} /\ saving' = {} /\ replies' = 0
    /\ copyTop' = Maximized(0, copy)
    /\ UNCHANGED <<srcvars, epoch, reqvars, synced, sched, jobvars, copy, applied,
                   stored, faults>>

(* The peer connects again.  mdv_syncer_topology_changed has cancelled the     *)
(* synchronizer, whose end waits for its handlers, and makes a new one, whose  *)
(* creation starts with a request.  Jobs of the old one that have not run yet  *)
(* use the new connection.  (While it has such jobs the old synchronizer also  *)
(* stays subscribed; what it would schedule once more is left out.)            *)
Reconnect ==
    /\ ~link /\ tosend = 0 /\ \A h \in Handlers : sched[h].pc = "idle"
    /\ link' = TRUE
    /\ epoch' = epoch + 1
    /\ Start(0, 0)
    /\ synced' = 0 /\ scheduled' = {}
    /\ UNCHANGED <<srcvars, sched, jobs, netvars, savevars, copyvars, faults>>

-----------------------------------------------------------------------------

Schedule(h) ==
    LoadSynced(h) \/ LoadTop(h) \/ CasSynced(h) \/ EmitSend(h) \/ CasRequests(h)
HandleState(h) == \E p \in Positions : State(h, p)
Save == (\E d \in saves : SavePut(d)) \/ (\E d \in saving : SaveCommit(d)) \/ SaveReply

Next ==
    \/ Write \/ Changed \/ SendSync \/ HandleSync \/ Save \/ ApplyCopy
    \/ \E h \in Handlers : HandleState(h) \/ Schedule(h)
    \/ \E j \in jobs : SendData(j)
    \/ \E d \in data : HandleData(d)
    \/ Disconnect \/ Crash \/ Reconnect

Spec == Init /\ [][Next]_vars

(* The threads of both nodes run; a lost connection is made again. *)
FairSpec ==
    /\ Spec
    /\ WF_vars(Changed) /\ WF_vars(HandleSync) /\ WF_vars(ApplyCopy)
    /\ WF_vars(\E d \in saves : SavePut(d)) /\ WF_vars(\E d \in saving : SaveCommit(d))
    /\ WF_vars(SaveReply) /\ WF_vars(SendSync)
    /\ \A h \in Handlers : WF_vars(Schedule(h)) /\ WF_vars(HandleState(h))
    /\ WF_vars(\E j \in jobs : SendData(j)) /\ WF_vars(\E d \in data : HandleData(d))
    /\ WF_vars(Reconnect)

-----------------------------------------------------------------------------

(* A synchronizer schedules every operation at most once, though several     *)
(* threads cut ranges at the same time: the exchange of synced in            *)
(* mdv_syncerlog_schedule hands each range to one of them.                   *)
ScheduledOnce ==
    [][\A j \in jobs' \ jobs : Range(j[2], j[3]) \cap scheduled = {}]_vars

(* Whatever lies below synced has been made a job, or a thread that has won *)
(* the exchange is about to make it one.                                    *)
SyncedIsScheduled ==
    faults = 0 => \A i \in Range(0, synced) :
        \/ i \in scheduled
        \/ \E h \in Handlers : /\ sched[h].pc = "emit"
                               /\ i \in Range(sched[h].synced, sched[h].rrange)

(* The neighbour never reports more than the source has committed: the      *)
(* operation below the top of the copy is one of the source's log, although *)
(* mdv_trlog_add moves the top before it commits, and also after a crash.   *)
ReportedIsCommitted ==
    \A p \in Positions : (p = copyTop \/ states[p] > 0) /\ p > 0 => p - 1 \in log

(* An operation the source commits reaches the copy of the neighbour, if no *)
(* push and no commit fails: always while the connection lasts, and after   *)
(* the connection was lost unless the top of the copy makes the neighbour   *)
(* look complete.                                                           *)
Delivered ==
    \A i \in Ids :
        i \in log ~> \/ i \in copy
                     \/ copyTop = top /\ (epoch > 0 \/ ~link)
                     \/ faults > 0

(* "Support eventual consistency model.": what the source has committed is *)
(* some day in the tables of the connected neighbour.                      *)
EventuallyStored ==
    \A i \in Ids : i \in log ~> i \in stored \/ epoch > 0 \/ ~link \/ faults > 0
=============================================================================
