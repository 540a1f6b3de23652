------------------------- MODULE ReplicationProofs -------------------------
(***************************************************************************)
(* Proofs about the scheduling of ranges (mdv_syncerlog_schedule), for any *)
(* number of threads, any batch size and any scenario of lost connections, *)
(* restarts and failures.                                                  *)
(***************************************************************************)
EXTENDS Replication, TLAPS

(* The range in the hands of thread h. *)
Held(h) == Range(sched[h].synced, sched[h].rrange)

(* The variables that the scheduling reads and writes. *)
SchedType ==
    /\ top \in Positions /\ requests \in Nat /\ synced \in Positions /\ faults \in Nat
    /\ scheduled \subseteq Ids
    /\ sched \in [Handlers -> Locals]

(* A range won is not empty and lies below synced, nobody else holds a part of *)
(* it, and it is not scheduled yet.                                            *)
RangesApart ==
    /\ \A i \in scheduled : i < synced
    /\ \A h \in Handlers : sched[h].pc = "cas" => sched[h].synced < sched[h].rrange
    /\ \A h \in Handlers : sched[h].pc = "emit" =>
        /\ sched[h].rrange <= synced
        /\ Held(h) \cap scheduled = {}
        /\ \A g \in Handlers \ {h} : sched[g].pc = "emit" => Held(h) \cap Held(g) = {}

IInv == SchedType /\ RangesApart /\ SyncedIsScheduled

-----------------------------------------------------------------------------

(* A new synchronizer satisfies the invariant. *)
LEMMA InitInv == Init => IInv
<1> SUFFICES ASSUME Init PROVE IInv
  OBVIOUS
<1>1. Idle \in Locals
  BY ReplicationAssumption DEF Idle, Locals, Positions
<1>2. SchedType
  BY <1>1, ReplicationAssumption DEF Init, SchedType, Positions
<1>3. \A h \in Handlers : sched[h].pc = "idle"
  BY DEF Init, Idle
<1> QED  BY <1>2, <1>3, ReplicationAssumption DEF Init, IInv, RangesApart, SyncedIsScheduled, Range, Ids

(* A step that leaves the scheduling alone, however it changes top, requests *)
(* and the count of failures.                                                *)
LEMMA ElsewhereInv ==
    ASSUME IInv, UNCHANGED <<synced, sched, scheduled>>,
           top' \in Positions, requests' \in Nat, faults' \in Nat, faults <= faults'
    PROVE  IInv'
<1>1. SchedType'
  BY DEF IInv, SchedType, Positions, Ids, Locals
<1>2. RangesApart'
  BY DEF IInv, RangesApart, Held, Range, Ids
<1>3. SyncedIsScheduled'
  BY DEF IInv, SchedType, SyncedIsScheduled, Range, Ids
<1> QED  BY <1>1, <1>2, <1>3 DEF IInv

(* Thread h moves on without a range, from a place where it has none. *)
LEMMA MoveInv ==
    ASSUME IInv, NEW h \in Handlers, NEW l \in Locals, sched[h].pc # "emit", l.pc # "emit",
           l.pc = "cas" => l.synced < l.rrange,
           sched' = [sched EXCEPT ![h] = l], requests' \in Nat,
           UNCHANGED <<top, synced, scheduled, faults>>
    PROVE  IInv'
<1> USE DEF IInv
<1>1. SchedType'
  BY DEF SchedType, Positions, Ids, Locals
<1>2. sched'[h] = l /\ \A g \in Handlers \ {h} : sched'[g] = sched[g]
  BY DEF SchedType
<1>3. RangesApart'
  BY <1>2 DEF RangesApart, Held, Range, Ids
<1>4. SyncedIsScheduled'
  BY <1>2 DEF SyncedIsScheduled, Range, Ids
<1> QED  BY <1>1, <1>3, <1>4

(* The range of an exchange starts at synced: it is nobody's yet. *)
LEMMA CasSyncedInv ==
    ASSUME IInv, NEW h \in Handlers, CasSynced(h)
    PROVE  IInv'
<1> USE ReplicationAssumption DEF IInv
<1>0. /\ sched[h] \in Locals /\ sched[h].pc = "cas" /\ sched[h].synced < sched[h].rrange
      /\ UNCHANGED <<top, requests, scheduled, faults>>
  BY DEF CasSynced, SchedType, RangesApart, srcvars, reqvars, jobvars
<1>1. CASE synced # sched[h].synced /\ synced' = synced
           /\ sched' = [sched EXCEPT ![h].pc = "top", ![h].synced = synced]
  <2> DEFINE l == [sched[h] EXCEPT !.pc = "top", !.synced = synced]
  <2>1. l \in Locals /\ l.pc = "top"
    BY <1>0 DEF SchedType, Locals
  <2>2. sched' = [sched EXCEPT ![h] = l]
    BY <1>1 DEF SchedType
  <2>3. requests' \in Nat
    BY <1>0 DEF SchedType
  <2> HIDE DEF l
  <2> QED  BY <1>0, <1>1, <2>1, <2>2, <2>3, MoveInv
<1>2. CASE synced = sched[h].synced /\ synced' = sched[h].rrange
           /\ sched' = [sched EXCEPT ![h].pc = "emit"]
  <2>1. /\ sched'[h].pc = "emit" /\ sched'[h].synced = synced /\ sched'[h].rrange = synced'
        /\ \A g \in Handlers \ {h} : sched'[g] = sched[g]
    BY <1>0, <1>2 DEF SchedType, Locals
  <2>2. SchedType'
    <3>1. [sched[h] EXCEPT !.pc = "emit"] \in Locals
      BY <1>0 DEF Locals
    <3>2. sched' \in [Handlers -> Locals]
      BY <1>2, <3>1 DEF SchedType
    <3>3. synced' \in Positions
      BY <1>0, <1>2 DEF Locals
    <3> QED  BY <1>0, <3>2, <3>3 DEF SchedType, Positions, Ids, Locals
  <2>3. synced < synced' /\ synced \in Nat /\ synced' \in Nat
    BY <1>0, <1>2 DEF SchedType, Positions, Locals
  <2>4. RangesApart'
    <3>1. \A i \in scheduled' : i < synced'
      BY <1>0, <2>3 DEF RangesApart, SchedType, Ids
    <3>2. \A g \in Handlers : sched'[g].pc = "cas" => sched'[g].synced < sched'[g].rrange
      BY <2>1 DEF RangesApart
    <3>3. Held(h)' \cap scheduled' = {}
      BY <1>0, <2>1, <2>3 DEF RangesApart, Held, Range, Ids
    <3>4. \A g \in Handlers \ {h} : sched[g].pc = "emit" =>
             /\ Held(g)' = Held(g) /\ sched[g].rrange <= synced
             /\ Held(g) \cap scheduled = {}
      BY <2>1 DEF RangesApart, Held, Range, Ids
    <3>5. \A g \in Handlers \ {h} : sched[g].pc = "emit" => Held(g)' \cap Held(h)' = {}
      BY <2>1, <2>3, <3>4 DEF Held, Range, Ids, SchedType, Locals, Positions
    <3>6. \A g \in Handlers \ {h} : sched'[g].pc = "emit" => sched'[g].rrange <= synced'
      BY <2>1, <2>3, <3>4 DEF SchedType, Locals, Positions
    <3>7. \A g, k \in Handlers \ {h} : g # k /\ sched'[g].pc = "emit" /\ sched'[k].pc = "emit" =>
             Held(g)' \cap Held(k)' = {}
      BY <2>1, <3>4 DEF RangesApart
    <3> QED
      <4>1. SUFFICES ASSUME NEW g \in Handlers, sched'[g].pc = "emit"
                     PROVE  /\ sched'[g].rrange <= synced'
                            /\ Held(g)' \cap scheduled' = {}
                            /\ \A k \in Handlers \ {g} : sched'[k].pc = "emit" =>
                                   Held(g)' \cap Held(k)' = {}
        BY <3>1, <3>2 DEF RangesApart
      <4>2. CASE g = h
        BY <2>1, <2>3, <3>3, <3>5, <4>2
      <4>3. CASE g # h
        BY <1>0, <2>1, <3>4, <3>5, <3>6, <3>7, <4>1, <4>3
      <4> QED  BY <4>2, <4>3
  <2>5. SyncedIsScheduled'
    <3> SUFFICES ASSUME faults = 0, NEW i \in Range(0, synced)'
                 PROVE  i \in scheduled \/ \E g \in Handlers : sched'[g].pc = "emit" /\ i \in Held(g)'
      BY <1>0 DEF SyncedIsScheduled, Held
    <3>1. CASE i < synced
      <4>1. i \in scheduled \/ \E g \in Handlers : sched[g].pc = "emit" /\ i \in Held(g)
        BY <3>1 DEF SyncedIsScheduled, Held, Range
      <4> QED  BY <1>0, <2>1, <4>1 DEF Held
    <3>2. CASE ~(i < synced)
      <4>1. i \in Held(h)'
        BY <2>1, <2>3, <3>2 DEF Held, Range, Ids
      <4> QED  BY <2>1, <4>1
    <3> QED  BY <3>1, <3>2
  <2> QED  BY <2>2, <2>4, <2>5
<1> QED  BY <1>1, <1>2 DEF CasSynced

(* The range in hand becomes a job, or is dropped by a failure. *)
LEMMA EmitSendInv ==
    ASSUME IInv, NEW h \in Handlers, EmitSend(h)
    PROVE  IInv'
<1> USE ReplicationAssumption DEF IInv
<1> DEFINE l == [sched[h] EXCEPT !.pc = IF sched[h].rrange < sched[h].top THEN "top" ELSE "req",
                                 !.synced = sched[h].rrange]
<1>1. /\ sched[h] \in Locals /\ sched[h].pc = "emit" /\ UNCHANGED <<top, requests, synced>>
      /\ sched' = [sched EXCEPT ![h] = l]
  BY DEF EmitSend, SchedType, srcvars, reqvars
<1>2. l \in Locals /\ l.pc \in {"top", "req"}
  BY <1>1 DEF Locals
<1> HIDE DEF l
<1>3. sched'[h] = l /\ \A g \in Handlers \ {h} : sched'[g] = sched[g] /\ Held(g)' = Held(g)
  BY <1>1 DEF SchedType, Held, Range, Ids
<1>4. \/ scheduled' = scheduled \cup Held(h) /\ faults' = faults
      \/ scheduled' = scheduled /\ faults' = faults + 1
  BY DEF EmitSend, Held, Fault, jobvars
<1>5. SchedType'
  <2>1. scheduled' \subseteq Ids /\ faults' \in Nat
    BY <1>4 DEF SchedType, Held, Range
  <2> QED  BY <1>1, <1>2, <2>1 DEF SchedType, Positions, Ids, Locals
<1>6. RangesApart'
  <2>1. \A i \in Held(h) : i < synced
    BY <1>1 DEF RangesApart, Held, Range, Ids, SchedType, Locals, Positions
  <2>2. \A i \in scheduled' : i < synced'
    BY <1>1, <1>4, <2>1 DEF RangesApart
  <2>3. \A g \in Handlers : sched'[g].pc = "cas" => sched'[g].synced < sched'[g].rrange
    BY <1>2, <1>3 DEF RangesApart
  <2>4. \A g \in Handlers : sched'[g].pc = "emit" => g # h /\ sched[g].pc = "emit"
    BY <1>2, <1>3
  <2>5. \A g \in Handlers : sched'[g].pc = "emit" =>
            sched'[g].rrange <= synced' /\ Held(g)' \cap scheduled' = {}
    BY <1>1, <1>3, <1>4, <2>4 DEF RangesApart
  <2>6. \A g, k \in Handlers : g # k /\ sched'[g].pc = "emit" /\ sched'[k].pc = "emit" =>
            Held(g)' \cap Held(k)' = {}
    BY <1>3, <2>4 DEF RangesApart
  <2> QED  BY <2>2, <2>3, <2>5, <2>6 DEF RangesApart
<1>7. SyncedIsScheduled'
  <2> SUFFICES ASSUME faults' = 0, NEW i \in Range(0, synced)'
               PROVE  i \in scheduled' \/ \E g \in Handlers : sched'[g].pc = "emit" /\ i \in Held(g)'
    BY DEF SyncedIsScheduled, Held
  <2>1. faults = 0 /\ scheduled' = scheduled \cup Held(h)
    BY <1>4 DEF SchedType
  <2>2. i \in scheduled \/ \E g \in Handlers : sched[g].pc = "emit" /\ i \in Held(g)
    BY <1>1, <2>1 DEF SyncedIsScheduled, Held, Range, Ids
  <2> QED  BY <1>3, <2>1, <2>2
<1> QED  BY <1>5, <1>6, <1>7

(* The steps of a thread that only look. *)
LEMMA LookInv ==
    ASSUME IInv, NEW h \in Handlers,
           HandleState(h) \/ LoadSynced(h) \/ LoadTop(h) \/ CasRequests(h)
    PROVE  IInv'
<1> USE ReplicationAssumption DEF IInv
<1>0. Idle \in Locals /\ sched[h] \in Locals
  BY DEF Idle, Locals, Positions, SchedType
<1>1. CASE HandleState(h)
  <2>1. PICK p \in Positions : State(h, p)
    BY <1>1 DEF HandleState
  <2> DEFINE l == [Idle EXCEPT !.pc = "load", !.requests = requests, !.synced = p]
  <2>2. l \in Locals /\ l.pc = "load"
    BY <1>0 DEF Locals, Idle, SchedType
  <2>3. sched[h].pc = "idle" /\ sched' = [sched EXCEPT ![h] = l]
    BY <2>1 DEF State
  <2> HIDE DEF l
  <2>4. UNCHANGED <<top, requests, synced, scheduled, faults>> /\ requests' \in Nat
    BY <2>1 DEF State, srcvars, reqvars, jobvars, SchedType
  <2> QED  BY <2>2, <2>3, <2>4, MoveInv
<1>2. CASE LoadSynced(h)
  <2> DEFINE l == [sched[h] EXCEPT !.pc = "top",
                                   !.synced = IF synced < sched[h].synced THEN sched[h].synced ELSE synced]
  <2>1. l \in Locals /\ l.pc = "top"
    BY <1>0 DEF Locals, SchedType
  <2>2. sched[h].pc = "load" /\ sched' = [sched EXCEPT ![h] = l]
    BY <1>2 DEF LoadSynced, SchedType
  <2> HIDE DEF l
  <2>3. UNCHANGED <<top, requests, synced, scheduled, faults>> /\ requests' \in Nat
    BY <1>2 DEF LoadSynced, srcvars, reqvars, jobvars, SchedType
  <2> QED  BY <2>1, <2>2, <2>3, MoveInv
<1>3. CASE LoadTop(h)
  <2>1. PICK l \in Locals : /\ sched' = [sched EXCEPT ![h] = l] /\ l.pc \in {"req", "cas"}
                            /\ l.pc = "cas" => l.synced < l.rrange
    <3>1. CASE sched[h].synced >= top /\
               sched' = [sched EXCEPT ![h].pc = "req", ![h].top = top, ![h].rrange = top]
      <4> DEFINE k == [sched[h] EXCEPT !.pc = "req", !.top = top, !.rrange = top]
      <4>1. k \in Locals /\ k.pc = "req"
        BY <1>0 DEF Locals, SchedType
      <4>2. sched' = [sched EXCEPT ![h] = k]
        BY <3>1 DEF SchedType
      <4> HIDE DEF k
      <4> QED  BY <4>1, <4>2
    <3>2. CASE sched[h].synced < top /\
               sched' = [sched EXCEPT ![h].pc = "cas", ![h].top = top,
                                      ![h].rrange = RangeEnd(sched[h].synced, top)]
      <4> DEFINE k == [sched[h] EXCEPT !.pc = "cas", !.top = top,
                                       !.rrange = RangeEnd(sched[h].synced, top)]
      <4>1. RangeEnd(sched[h].synced, top) \in Positions /\ sched[h].synced < RangeEnd(sched[h].synced, top)
        BY <1>0, <3>2 DEF RangeEnd, Positions, Locals, SchedType
      <4>2. k \in Locals /\ k.pc = "cas" /\ k.synced < k.rrange
        BY <1>0, <4>1 DEF Locals, SchedType
      <4>3. sched' = [sched EXCEPT ![h] = k]
        BY <3>2 DEF SchedType
      <4> HIDE DEF k
      <4> QED  BY <4>2, <4>3
    <3> QED  BY <1>3, <3>1, <3>2 DEF LoadTop
  <2>2. sched[h].pc = "top" /\ UNCHANGED <<top, requests, synced, scheduled, faults>> /\ requests' \in Nat
    BY <1>3 DEF LoadTop, srcvars, reqvars, jobvars, SchedType
  <2> QED  BY <2>1, <2>2, MoveInv
<1>4. CASE CasRequests(h)
  <2>1. PICK l \in Locals : sched' = [sched EXCEPT ![h] = l] /\ l.pc \in {"idle", "top"}
    <3>1. CASE sched' = [sched EXCEPT ![h] = Idle]
      BY <1>0, <3>1 DEF Idle
    <3>2. CASE sched' = [sched EXCEPT ![h].pc = "top", ![h].requests = requests]
      <4> DEFINE k == [sched[h] EXCEPT !.pc = "top", !.requests = requests]
      <4>1. k \in Locals /\ k.pc = "top"
        BY <1>0 DEF Locals, SchedType
      <4>2. sched' = [sched EXCEPT ![h] = k]
        BY <3>2 DEF SchedType
      <4> HIDE DEF k
      <4> QED  BY <4>1, <4>2
    <3> QED  BY <1>4, <3>1, <3>2 DEF CasRequests
  <2>2. /\ sched[h].pc = "req" /\ UNCHANGED <<top, synced, scheduled, faults>>
        /\ requests' \in Nat
    BY <1>4 DEF CasRequests, srcvars, jobvars, SchedType
  <2> QED  BY <2>1, <2>2, MoveInv
<1> QED  BY <1>1, <1>2, <1>3, <1>4

(* Every step keeps the invariant. *)
LEMMA StepInv == IInv /\ [Next]_vars => IInv'
<1> SUFFICES ASSUME IInv, [Next]_vars PROVE IInv'
  OBVIOUS
<1> USE ReplicationAssumption
<1>0. /\ top \in Positions /\ requests \in Nat /\ faults \in Nat
      /\ \A r \in Nat : r + 1 \in Nat
  BY DEF IInv, SchedType
<1>1. CASE Write
  <2>1. top' \in Positions
    BY <1>0, <1>1 DEF Write, Positions
  <2> QED  BY <1>0, <1>1, <2>1, ElsewhereInv DEF Write, reqvars, jobvars
<1>2. CASE Changed \/ SendSync
  <2>1. requests' \in Nat
    BY <1>0, <1>2 DEF Changed, SendSync, Start
  <2> QED  BY <1>0, <1>2, <2>1, ElsewhereInv DEF Changed, SendSync, srcvars, jobvars
<1>3. CASE HandleSync \/ Save \/ ApplyCopy \/ \E d \in data : HandleData(d)
  <2>1. UNCHANGED <<top, requests, synced, sched, scheduled>> /\ faults' \in {faults, faults + 1}
    BY <1>3 DEF HandleSync, Save, SavePut, SaveCommit, SaveReply, ApplyCopy, HandleData, Fault,
                srcvars, reqvars, jobvars
  <2> QED  BY <1>0, <2>1, ElsewhereInv
<1>4. ASSUME NEW h \in Handlers, HandleState(h) \/ Schedule(h) PROVE IInv'
  BY <1>4, LookInv, CasSyncedInv, EmitSendInv DEF Schedule
<1>5. CASE (\E j \in jobs : SendData(j)) \/ Disconnect \/ Crash
  <2>1. UNCHANGED <<top, requests, synced, sched, scheduled, faults>>
    BY <1>5 DEF SendData, Disconnect, Crash, srcvars, reqvars, jobvars
  <2> QED  BY <1>0, <2>1, ElsewhereInv
<1>6. CASE Reconnect
  <2>1. /\ requests' \in Nat /\ synced' = 0 /\ scheduled' = {} /\ UNCHANGED <<top, sched, faults>>
        /\ \A h \in Handlers : sched[h].pc = "idle"
    BY <1>6 DEF Reconnect, Start, srcvars
  <2>2. SchedType'
    BY <2>1 DEF IInv, SchedType, Positions, Ids, Locals
  <2> QED  BY <2>1, <2>2 DEF IInv, RangesApart, SyncedIsScheduled, Range, Ids
<1>7. CASE UNCHANGED vars
  <2>1. UNCHANGED <<top, requests, synced, sched, scheduled, faults>>
    BY <1>7 DEF vars, srcvars, reqvars, jobvars
  <2> QED  BY <1>0, <2>1, ElsewhereInv
<1> QED  BY <1>1, <1>2, <1>3, <1>4, <1>5, <1>6, <1>7 DEF Next

(* The invariant holds in every reachable state. *)
LEMMA InvHolds == Spec => []IInv
BY InitInv, StepInv, PTL DEF Spec

(* No operation below synced is forgotten by mdv_syncerlog_schedule, however *)
(* many threads handle STATE events at once, unless a push has failed.       *)
THEOREM ReplicationSyncedIsScheduled == Spec => []SyncedIsScheduled
<1>1. IInv => SyncedIsScheduled
  BY DEF IInv
<1> QED  BY InvHolds, <1>1, PTL

(* A synchronizer makes at most one job of an operation: the exchange of *)
(* synced gives every range to one thread.                               *)
THEOREM ReplicationScheduledOnce == Spec => ScheduledOnce
<1>1. ASSUME IInv, [Next]_vars, NEW j \in jobs' \ jobs
      PROVE  Range(j[2], j[3]) \cap scheduled = {}
  <2>1. PICK h \in Handlers : EmitSend(h)
    BY <1>1 DEF Next, vars, jobvars, Write, Changed, SendSync, HandleSync, Save, SavePut, SaveCommit,
       SaveReply, ApplyCopy, HandleState, State, Schedule, LoadSynced, LoadTop, CasSynced,
       CasRequests, SendData, HandleData, Disconnect, Crash, Reconnect
  <2>2. j = <<epoch, sched[h].synced, sched[h].rrange>> /\ sched[h].pc = "emit"
    BY <1>1, <2>1 DEF EmitSend, jobvars
  <2> QED  BY <1>1, <2>2 DEF IInv, RangesApart, Held
<1>2. IInv /\ [Next]_vars => [\A j \in jobs' \ jobs : Range(j[2], j[3]) \cap scheduled = {}]_vars
  BY <1>1
<1> QED  BY InvHolds, <1>2, PTL DEF Spec, ScheduledOnce
=============================================================================
