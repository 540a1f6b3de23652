---------------------------- MODULE TrLogProofs ----------------------------
(***************************************************************************)
(* Proofs about a node's own log, for any number of writers, any batch     *)
(* size, any set of failures and any number of crashes.                    *)
(***************************************************************************)
EXTENDS TrLog, TLAPS

(* A position is zero or follows a committed operation. *)
IsPosition(p) == p = 0 \/ \E i \in trlog : p = i + 1

(* The transaction serialises the writers, and a closed log is at rest. *)
WriterInv ==
    /\ \A w \in Writers : wpc[w] # "idle" => txn = w
    /\ ~opened => apc = "idle" /\ applied = 0 /\ \A w \in Writers : wpc[w] = "idle"

(* Identifiers are given out above everything that is committed. *)
IdInv ==
    /\ opened => \A i \in trlog : i < top
    /\ \A w \in Writers : wpc[w] = "numbered" => wid < top /\ \A j \in trlog : j < wid

(* What the three positions are. *)
PositionInv ==
    /\ IsPosition(appliedPos) /\ IsPosition(applied) /\ IsPosition(newApplied)
    /\ opened => appliedPos <= applied
    /\ apc \in {"apply", "set"} => applied <= newApplied
    /\ apc = "apply" /\ n = 0 => newApplied = applied
    /\ apc = "persist" => newApplied = applied

(* What has taken effect, and what the applier has in hand. *)
StoredInv ==
    /\ Settled \subseteq trlog
    /\ AppliedInOrder
    /\ NothingSkipped
    /\ apc \in {"apply", "set"} => \A i \in trlog : i < newApplied => i \in Settled
    /\ apc = "apply" =>
        /\ batch \subseteq trlog
        /\ \A i \in batch : newApplied <= i
        /\ \A i \in batch, j \in trlog : newApplied <= j /\ j < i => j \in batch

(* What was applied in this run lies below the position. *)
DoneInv ==
    \A i \in done : i < applied \/ (apc \in {"apply", "set"} /\ i < newApplied)

IInv == TypeOK /\ WriterInv /\ IdInv /\ PositionInv /\ StoredInv /\ DoneInv

-----------------------------------------------------------------------------

(* A log that was never used satisfies the invariant. *)
LEMMA InitInv == Init => IInv
<1> SUFFICES ASSUME Init PROVE IInv
  OBVIOUS
<1>1. TypeOK
  <2>1. wpc \in [Writers -> {"idle", "begun", "numbered"}]
    BY DEF Init
  <2>2. /\ trlog = {} /\ stored = {} /\ dropped = {} /\ batch = {} /\ done = {}
        /\ appliedPos = 0 /\ top = 0 /\ applied = 0 /\ wid = 0 /\ newApplied = 0 /\ n = 0
        /\ txn = NoWriter /\ apc = "idle"
    BY DEF Init
  <2>3. opened \in BOOLEAN
    BY DEF Init
  <2> QED  BY <2>1, <2>2, <2>3, BoundsAssumption DEF TypeOK, Ids
<1>2. WriterInv /\ IdInv
  BY DEF Init, WriterInv, IdInv
<1>3. PositionInv /\ StoredInv /\ DoneInv
  BY DEF Init, PositionInv, StoredInv, DoneInv, IsPosition, AppliedInOrder, NothingSkipped, Settled
<1> QED  BY <1>1, <1>2, <1>3 DEF IInv

(* Every step of the log preserves the invariant. *)
LEMMA StepInv ==
    ASSUME IInv, [Next]_vars
    PROVE  IInv'
<1> USE WriterAssumption, BoundsAssumption
<1>0. CASE UNCHANGED vars
  BY <1>0 DEF vars, IInv, TypeOK, WriterInv, IdInv, PositionInv, StoredInv, DoneInv,
              IsPosition, AppliedInOrder, NothingSkipped, Settled
<1>1. CASE Open
  <2> USE <1>1 DEF Open, IInv, durable, wvars, avars, Ids
  <2>1. TypeOK'
    BY DEF TypeOK, Least, IsBatch, AfterLast
  <2>2. WriterInv'
    BY DEF TypeOK, WriterInv
  <2>3. IdInv'
    BY DEF TypeOK, WriterInv, IdInv, AfterLast
  <2>4. PositionInv'
    BY DEF TypeOK, WriterInv, PositionInv, StoredInv, IsPosition
  <2>5. StoredInv'
    BY DEF TypeOK, WriterInv, IdInv, PositionInv, StoredInv, IsPosition, AppliedInOrder, NothingSkipped, Settled, Least, IsBatch
  <2>6. DoneInv'
    BY DEF TypeOK, WriterInv, PositionInv, StoredInv, DoneInv, Least
  <2> QED  BY <2>1, <2>2, <2>3, <2>4, <2>5, <2>6
<1>2. CASE Crash
  <2>1. TypeOK'
    <3>1. wpc' \in [Writers -> {"idle", "begun", "numbered"}]
      BY <1>2 DEF Crash
    <3>2. /\ batch' = {} /\ done' = {}
          /\ top' = 0 /\ applied' = 0 /\ wid' = 0 /\ newApplied' = 0 /\ n' = 0
          /\ txn' = NoWriter /\ apc' = "idle"
          /\ trlog' = trlog /\ appliedPos' = appliedPos /\ stored' = stored
          /\ dropped' = dropped
      BY <1>2 DEF Crash, durable
    <3>3. opened' \in BOOLEAN
      BY <1>2 DEF Crash
    <3> QED  BY <3>1, <3>2, <3>3 DEF IInv, TypeOK, Ids
  <2>2. WriterInv' /\ IdInv'
    BY <1>2 DEF Crash, durable, WriterInv, IdInv
  <2>3. PositionInv' /\ StoredInv' /\ DoneInv'
    BY <1>2 DEF Crash, durable, IInv, TypeOK, PositionInv, StoredInv, DoneInv, IsPosition,
                AppliedInOrder, NothingSkipped, Settled, Ids
  <2> QED  BY <2>1, <2>2, <2>3 DEF IInv
<1>3. ASSUME NEW w \in Writers, AddOpBegin(w) PROVE IInv'
  <2> USE <1>3 DEF AddOpBegin, IInv, durable, wvars, avars, Ids
  <2>1. TypeOK'
    BY DEF TypeOK, Least, IsBatch, AfterLast
  <2>2. WriterInv'
    BY DEF TypeOK, WriterInv
  <2>3. IdInv'
    BY DEF TypeOK, WriterInv, IdInv, AfterLast
  <2>4. PositionInv'
    BY DEF TypeOK, WriterInv, PositionInv, StoredInv, IsPosition
  <2>5. StoredInv'
    BY DEF TypeOK, WriterInv, IdInv, PositionInv, StoredInv, IsPosition, AppliedInOrder, NothingSkipped, Settled, Least, IsBatch
  <2>6. DoneInv'
    BY DEF TypeOK, WriterInv, PositionInv, StoredInv, DoneInv, Least
  <2> QED  BY <2>1, <2>2, <2>3, <2>4, <2>5, <2>6
<1>4. ASSUME NEW w \in Writers, AddOpNewId(w) PROVE IInv'
  <2> USE <1>4 DEF AddOpNewId, IInv, durable, wvars, avars, Ids
  <2>1. TypeOK'
    BY DEF TypeOK, Least, IsBatch, AfterLast
  <2>2. WriterInv'
    BY DEF TypeOK, WriterInv
  <2>3. IdInv'
    BY DEF TypeOK, WriterInv, IdInv, AfterLast
  <2>4. PositionInv'
    BY DEF TypeOK, WriterInv, PositionInv, StoredInv, IsPosition
  <2>5. StoredInv'
    BY DEF TypeOK, WriterInv, IdInv, PositionInv, StoredInv, IsPosition, AppliedInOrder, NothingSkipped, Settled, Least, IsBatch
  <2>6. DoneInv'
    BY DEF TypeOK, WriterInv, PositionInv, StoredInv, DoneInv, Least
  <2> QED  BY <2>1, <2>2, <2>3, <2>4, <2>5, <2>6
<1>5. ASSUME NEW w \in Writers, AddOpCommit(w) PROVE IInv'
  <2> USE <1>5 DEF AddOpCommit, IInv, durable, wvars, avars, Ids
  <2>1. TypeOK'
    BY DEF TypeOK, Least, IsBatch, AfterLast
  <2>2. WriterInv'
    BY DEF TypeOK, WriterInv
  <2>3. IdInv'
    BY DEF TypeOK, WriterInv, IdInv, AfterLast
  <2>4. PositionInv'
    BY DEF TypeOK, WriterInv, PositionInv, StoredInv, IsPosition
  <2>5. StoredInv'
    BY DEF TypeOK, WriterInv, IdInv, PositionInv, StoredInv, IsPosition, AppliedInOrder, NothingSkipped, Settled, Least, IsBatch
  <2>6. DoneInv'
    BY DEF TypeOK, WriterInv, PositionInv, StoredInv, DoneInv, Least
  <2> QED  BY <2>1, <2>2, <2>3, <2>4, <2>5, <2>6
<1>6. ASSUME NEW w \in Writers, AddOpFail(w) PROVE IInv'
  <2> USE <1>6 DEF AddOpFail, IInv, durable, wvars, avars, Ids
  <2>1. TypeOK'
    BY DEF TypeOK, Least, IsBatch, AfterLast
  <2>2. WriterInv'
    BY DEF TypeOK, WriterInv
  <2>3. IdInv'
    BY DEF TypeOK, WriterInv, IdInv, AfterLast
  <2>4. PositionInv'
    BY DEF TypeOK, WriterInv, PositionInv, StoredInv, IsPosition
  <2>5. StoredInv'
    BY DEF TypeOK, WriterInv, IdInv, PositionInv, StoredInv, IsPosition, AppliedInOrder, NothingSkipped, Settled, Least, IsBatch
  <2>6. DoneInv'
    BY DEF TypeOK, WriterInv, PositionInv, StoredInv, DoneInv, Least
  <2> QED  BY <2>1, <2>2, <2>3, <2>4, <2>5, <2>6
<1>7. CASE ApplyStart
  <2> USE <1>7 DEF ApplyStart, IInv, durable, wvars, avars, Ids
  <2>1. TypeOK'
    BY DEF TypeOK, Least, IsBatch, AfterLast
  <2>2. WriterInv'
    BY DEF TypeOK, WriterInv
  <2>3. IdInv'
    BY DEF TypeOK, WriterInv, IdInv, AfterLast
  <2>4. PositionInv'
    BY DEF TypeOK, WriterInv, PositionInv, StoredInv, IsPosition
  <2>5. StoredInv'
    BY DEF TypeOK, WriterInv, IdInv, PositionInv, StoredInv, IsPosition, AppliedInOrder, NothingSkipped, Settled, Least, IsBatch
  <2>6. DoneInv'
    BY DEF TypeOK, WriterInv, PositionInv, StoredInv, DoneInv, Least
  <2> QED  BY <2>1, <2>2, <2>3, <2>4, <2>5, <2>6
<1>8. CASE ApplyCheck
  <2> USE <1>8 DEF ApplyCheck, IInv, durable, wvars, avars, Ids
  <2>1. TypeOK'
    BY DEF TypeOK, Least, IsBatch, AfterLast
  <2>2. WriterInv'
    BY DEF TypeOK, WriterInv
  <2>3. IdInv'
    BY DEF TypeOK, WriterInv, IdInv, AfterLast
  <2>4. PositionInv'
    BY DEF TypeOK, WriterInv, PositionInv, StoredInv, IsPosition
  <2>5. StoredInv'
    BY DEF TypeOK, WriterInv, IdInv, PositionInv, StoredInv, IsPosition, AppliedInOrder, NothingSkipped, Settled, Least, IsBatch
  <2>6. DoneInv'
    BY DEF TypeOK, WriterInv, PositionInv, StoredInv, DoneInv, Least
  <2> QED  BY <2>1, <2>2, <2>3, <2>4, <2>5, <2>6
<1>9. CASE ApplyRead
  <2> USE <1>9 DEF ApplyRead, IInv, durable, wvars, avars, Ids
  <2>1. TypeOK'
    BY DEF TypeOK, Least, IsBatch, AfterLast
  <2>2. WriterInv'
    BY DEF TypeOK, WriterInv
  <2>3. IdInv'
    BY DEF TypeOK, WriterInv, IdInv, AfterLast
  <2>4. PositionInv'
    BY DEF TypeOK, WriterInv, PositionInv, StoredInv, IsPosition
  <2>5. StoredInv'
    BY DEF TypeOK, WriterInv, IdInv, PositionInv, StoredInv, IsPosition, AppliedInOrder, NothingSkipped, Settled, Least, IsBatch
  <2>6. DoneInv'
    BY DEF TypeOK, WriterInv, PositionInv, StoredInv, DoneInv, Least
  <2> QED  BY <2>1, <2>2, <2>3, <2>4, <2>5, <2>6
<1>10. CASE ApplyOp
  <2> USE <1>10 DEF ApplyOp, IInv, durable, wvars, avars, Ids
  <2>a. PICK i \in batch :
        /\ Least(i, batch) /\ batch' = batch \ {i} /\ Settled' = Settled \cup {i}
        /\ stored' \subseteq stored \cup {i} /\ dropped' \subseteq dropped \cup {i}
        /\ newApplied' = i + 1 /\ done' = done \cup {i}
        /\ apc' = IF batch = {i} THEN "set" ELSE "apply"
    BY DEF Settled
  <2>1. TypeOK'
    BY <2>a DEF TypeOK
  <2>2. WriterInv'
    BY DEF TypeOK, WriterInv
  <2>3. IdInv'
    BY DEF TypeOK, WriterInv, IdInv, AfterLast
  <2>4. PositionInv'
    BY <2>a DEF TypeOK, WriterInv, PositionInv, StoredInv, IsPosition
  <2>5. StoredInv'
    <3>1. Settled' \subseteq trlog' /\ \A j \in trlog : j < i + 1 => j \in Settled'
      BY <2>a DEF TypeOK, StoredInv, Least
    <3>2. AppliedInOrder' /\ NothingSkipped'
      BY <2>a, <3>1 DEF TypeOK, StoredInv, AppliedInOrder, NothingSkipped
    <3>3. /\ batch' \subseteq trlog'
          /\ \A j \in batch' : i + 1 <= j
          /\ \A j \in batch', k \in trlog : i + 1 <= k /\ k < j => k \in batch'
      BY <2>a DEF TypeOK, StoredInv, Least
    <3> QED  BY <2>a, <3>1, <3>2, <3>3 DEF StoredInv
  <2>6. DoneInv'
    BY DEF TypeOK, WriterInv, PositionInv, StoredInv, DoneInv, Least
  <2> QED  BY <2>1, <2>2, <2>3, <2>4, <2>5, <2>6
<1>11. CASE ApplyOpFail
  <2> USE <1>11 DEF ApplyOpFail, IInv, durable, wvars, avars, Ids
  <2>1. TypeOK'
    BY DEF TypeOK, Least, IsBatch, AfterLast
  <2>2. WriterInv'
    BY DEF TypeOK, WriterInv
  <2>3. IdInv'
    BY DEF TypeOK, WriterInv, IdInv, AfterLast
  <2>4. PositionInv'
    BY DEF TypeOK, WriterInv, PositionInv, StoredInv, IsPosition
  <2>5. StoredInv'
    BY DEF TypeOK, WriterInv, IdInv, PositionInv, StoredInv, IsPosition, AppliedInOrder, NothingSkipped, Settled, Least, IsBatch
  <2>6. DoneInv'
    BY DEF TypeOK, WriterInv, PositionInv, StoredInv, DoneInv, Least
  <2> QED  BY <2>1, <2>2, <2>3, <2>4, <2>5, <2>6
<1>12. CASE ApplySet
  <2> USE <1>12 DEF ApplySet, IInv, durable, wvars, avars, Ids
  <2>1. TypeOK'
    BY DEF TypeOK, Least, IsBatch, AfterLast
  <2>2. WriterInv'
    BY DEF TypeOK, WriterInv
  <2>3. IdInv'
    BY DEF TypeOK, WriterInv, IdInv, AfterLast
  <2>4. PositionInv'
    BY DEF TypeOK, WriterInv, PositionInv, StoredInv, IsPosition
  <2>5. StoredInv'
    BY DEF TypeOK, WriterInv, IdInv, PositionInv, StoredInv, IsPosition, AppliedInOrder, NothingSkipped, Settled, Least, IsBatch
  <2>6. DoneInv'
    BY DEF TypeOK, WriterInv, PositionInv, StoredInv, DoneInv, Least
  <2> QED  BY <2>1, <2>2, <2>3, <2>4, <2>5, <2>6
<1>13. CASE ApplyPersist
  <2> USE <1>13 DEF ApplyPersist, IInv, durable, wvars, avars, Ids
  <2>1. TypeOK'
    BY DEF TypeOK, Least, IsBatch, AfterLast
  <2>2. WriterInv'
    BY DEF TypeOK, WriterInv
  <2>3. IdInv'
    BY DEF TypeOK, WriterInv, IdInv, AfterLast
  <2>4. PositionInv'
    BY DEF TypeOK, WriterInv, PositionInv, StoredInv, IsPosition
  <2>5. StoredInv'
    BY DEF TypeOK, WriterInv, IdInv, PositionInv, StoredInv, IsPosition, AppliedInOrder, NothingSkipped, Settled, Least, IsBatch
  <2>6. DoneInv'
    BY DEF TypeOK, WriterInv, PositionInv, StoredInv, DoneInv, Least
  <2> QED  BY <2>1, <2>2, <2>3, <2>4, <2>5, <2>6
<1> QED
  BY <1>0, <1>1, <1>2, <1>3, <1>4, <1>5, <1>6, <1>7, <1>8, <1>9, <1>10, <1>11, <1>12, <1>13 DEF Next, AddOp, Apply

-----------------------------------------------------------------------------

(* The invariant holds in every reachable state of the log. *)
LEMMA InvHolds == Spec => []IInv
<1>1. IInv /\ [Next]_vars => IInv'
  BY StepInv
<1> QED  BY InitInv, <1>1, PTL DEF Spec

(* Type correctness of the log. *)
THEOREM TrLogTypeOK == Spec => []TypeOK
<1>1. IInv => TypeOK
  BY DEF IInv
<1> QED  BY InvHolds, <1>1, PTL

(* No committed operation below either application position is missing from *)
(* the tables, across any crashes and failures: the applier loses nothing.  *)
THEOREM TrLogNothingSkipped == Spec => []NothingSkipped
<1>1. IInv => NothingSkipped
  BY DEF IInv, StoredInv
<1> QED  BY InvHolds, <1>1, PTL

(* Operations of the log take effect in the order of their identifiers. *)
THEOREM TrLogAppliedInOrder == Spec => []AppliedInOrder
<1>1. IInv => AppliedInOrder
  BY DEF IInv, StoredInv
<1> QED  BY InvHolds, <1>1, PTL

(* mdv_trlog_new_id never returns an identifier at or below a committed one. *)
THEOREM TrLogFreshIds == Spec => []FreshIds
<1>1. IInv => FreshIds
  BY DEF IInv, IdInv, FreshIds
<1> QED  BY InvHolds, <1>1, PTL

(* The insertion position of an open log is past every committed key, and *)
(* neither application position is ahead of it.                           *)
THEOREM TrLogTopCoversLog == Spec => []TopCoversLog
<1>1. IInv => TopCoversLog
  BY DEF IInv, TypeOK, IdInv, PositionInv, IsPosition, TopCoversLog, Ids
<1> QED  BY InvHolds, <1>1, PTL

(* The applier never hands an operation to the tables twice in one run. *)
THEOREM TrLogAppliedOncePerRun == Spec => AppliedOncePerRun
<1>1. ASSUME IInv, [Next]_vars, n' = n + 1
      PROVE  (batch \ batch') \cap done = {}
  <2>1. CASE ApplyOp
    <3>1. PICK i \in batch : batch' = batch \ {i}
      BY <2>1 DEF ApplyOp
    <3> QED  BY <1>1, <2>1, <3>1 DEF ApplyOp, IInv, TypeOK, DoneInv, PositionInv, StoredInv, Ids
  <2>2. CASE ~ApplyOp
    <3>1. n' = n \/ n' = 0
      BY <1>1, <2>2 DEF Next, AddOp, Apply, vars, avars, wvars, Open, Crash, AddOpBegin,
         AddOpNewId, AddOpCommit, AddOpFail, ApplyStart, ApplyCheck, ApplyRead, ApplyOpFail,
         ApplySet, ApplyPersist
    <3> QED  BY <1>1, <3>1 DEF IInv, TypeOK
  <2> QED  BY <2>1, <2>2
<1>2. IInv /\ [Next]_vars => [n' = n + 1 => (batch \ batch') \cap done = {}]_vars
  BY <1>1
<1> QED  BY InvHolds, <1>2, PTL DEF Spec, AppliedOncePerRun

(* The log implements AppendOnlyLog: every commit appends above all *)
(* earlier operations, every application is the next effect or invisible. *)
THEOREM TrLogRefinement == Spec => ImplementsAppendOnlyLog
<1>1. Init => Abstract!LogInit
  BY DEF Init, Settled, Abstract!LogInit
<1>2. ASSUME IInv, [Next]_vars
      PROVE  [Abstract!LogNext]_(Abstract!lvars)
  <2>1. ASSUME NEW w \in Writers, AddOpCommit(w)
        PROVE  Abstract!Append
    BY <1>2, <2>1 DEF AddOpCommit, IInv, IdInv, TypeOK, Settled, Abstract!Append
  <2>2. CASE ApplyOp
    <3>1. PICK i \in batch : Least(i, batch) /\ Settled' = Settled \cup {i}
      BY <1>2, <2>2 DEF ApplyOp, Settled
    <3>2. trlog' = trlog /\ i \in trlog /\ \A j \in trlog : j < i => j \in Settled
      BY <1>2, <2>2, <3>1 DEF ApplyOp, IInv, TypeOK, StoredInv, Least, Ids
    <3>3. CASE i \in Settled
      BY <3>1, <3>2, <3>3 DEF Abstract!lvars
    <3>4. CASE i \notin Settled
      BY <3>1, <3>2, <3>4 DEF Abstract!LogNext, Abstract!TakeEffect
    <3> QED  BY <3>3, <3>4
  <2>3. CASE ~ApplyOp /\ ~\E w \in Writers : AddOpCommit(w)
    BY <1>2, <2>3 DEF Next, AddOp, Apply, vars, durable, Open, Crash, AddOpBegin,
       AddOpNewId, AddOpFail, ApplyStart, ApplyCheck, ApplyRead, ApplyOpFail,
       ApplySet, ApplyPersist, Settled, Abstract!lvars
  <2> QED  BY <2>1, <2>2, <2>3 DEF Abstract!LogNext
<1> QED  BY InvHolds, <1>1, <1>2, PTL DEF Spec, ImplementsAppendOnlyLog, Abstract!LogSpec
=============================================================================
