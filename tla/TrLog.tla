------------------------------- MODULE TrLog -------------------------------
(***************************************************************************)
(* A node's own transaction log (mdv_core/storage/mdv_trlog.c) with the    *)
(* threads that use it: the writers, which call mdv_trlog_add_op, and the  *)
(* one job of the committer that applies the log to the tables             *)
(* (mdv_tablespace_log_apply).  The copies of other nodes' logs are the    *)
(* subject of module Replication.                                          *)
(*                                                                         *)
(* The LMDB transactions of one storage are all opened for writing, so at  *)
(* most one of them is active: txn is its owner.  The maps of the storage  *)
(* and the tables survive a crash; the atomics top and applied do not.     *)
(* A failure the code handles happens only when Faults names it.           *)
(***************************************************************************)
EXTENDS Naturals, FiniteSets

CONSTANTS
    Writers,        \* threads that add to the log
    NoWriter,       \* not a writer: no transaction is active
    BatchSize,      \* MDV_CONFIG.committer.batch_size
    MaxId,          \* bound on the identifiers given out
    Faults          \* failures that may happen, a subset of FaultKinds

FaultKinds == {"put", "commit", "apply", "persist", "rowdata"}

ASSUME WriterAssumption == NoWriter \notin Writers
ASSUME BoundsAssumption == MaxId \in Nat /\ BatchSize \in Nat \ {0}
ASSUME FaultsAssumption == Faults \subseteq FaultKinds

VARIABLES
    trlog,          \* MDV_MAP_TRLOG: committed identifiers (durable)
    appliedPos,     \* MDV_MAP_APPLIED: saved application position (durable)
    stored,         \* identifiers whose effect is in the tables (durable)
    dropped,        \* history: identifiers reported as applied without effect
    opened,         \* the log is open in this run of the process
    top,            \* trlog->top
    applied,        \* trlog->applied
    txn,            \* owner of the active LMDB transaction
    wpc,            \* what each writer is doing
    wid,            \* the identifier mdv_trlog_add_op got
    apc,            \* where the applier is
    batch,          \* operations it has read and not applied yet
    newApplied,     \* new_applied_pos
    n,              \* operations of the batch that are applied
    done            \* history: operations applied since the log was opened

durable == <<trlog, appliedPos, stored, dropped>>
wvars == <<txn, wpc, wid>>
avars == <<apc, batch, newApplied, n>>
vars == <<trlog, appliedPos, stored, dropped, opened, top, applied, txn, wpc, wid,
          apc, batch, newApplied, n, done>>

Ids == 0..MaxId

TypeOK ==
    /\ trlog \subseteq Ids
    /\ appliedPos \in 0..(MaxId + 1)
    /\ stored \subseteq Ids
    /\ dropped \subseteq Ids
    /\ opened \in BOOLEAN
    /\ top \in 0..(MaxId + 1)
    /\ applied \in 0..(MaxId + 1)
    /\ txn \in Writers \cup {NoWriter}
    /\ wpc \in [Writers -> {"idle", "begun", "numbered"}]
    /\ wid \in Ids
    /\ apc \in {"idle", "check", "read", "apply", "set", "persist"}
    /\ batch \subseteq Ids
    /\ newApplied \in 0..(MaxId + 1)
    /\ n \in Nat
    /\ done \subseteq Ids

Least(i, S) == i \in S /\ \A j \in S : i <= j

-----------------------------------------------------------------------------

(* A node that has never run: every map is empty, no log is open. *)
Init ==
    /\ trlog = {} /\ appliedPos = 0 /\ stored = {} /\ dropped = {}
    /\ opened = FALSE /\ top = 0 /\ applied = 0
    /\ txn = NoWriter /\ wpc = [w \in Writers |-> "idle"]
    /\ wid = 0
    /\ apc = "idle" /\ batch = {} /\ newApplied = 0 /\ n = 0
    /\ done = {}

(* Mutant of AfterLast: the last key itself, without the increment. *)
AfterLastKey(S, t) ==
    \/ S = {} /\ t = 0
    \/ \E i \in S : (\A j \in S : j <= i) /\ t = i

(* The first insertion position after the last key of the map. *)
AfterLast(S, t) ==
    \/ S = {} /\ t = 0
    \/ \E i \in S : (\A j \in S : j <= i) /\ t = i + 1

(* mdv_trlog_open with mdv_trlog_init: both positions come from the maps. *)
Open ==
    /\ ~opened
    /\ opened' = TRUE
    /\ \E t \in 0..(MaxId + 1) : AfterLast(trlog, t) /\ top' = t
    /\ applied' = appliedPos
    /\ done' = {}
    /\ UNCHANGED <<durable, wvars, avars>>

(* The process dies: an uncommitted transaction leaves nothing behind. *)
Crash ==
    /\ opened
    /\ opened' = FALSE /\ top' = 0 /\ applied' = 0
    /\ txn' = NoWriter /\ wpc' = [w \in Writers |-> "idle"]
    /\ wid' = 0
    /\ apc' = "idle" /\ batch' = {} /\ newApplied' = 0 /\ n' = 0
    /\ done' = {}
    /\ UNCHANGED durable

-----------------------------------------------------------------------------
(* mdv_trlog_add_op: an operation of this node, under a new identifier. *)

AddOpBegin(w) ==
    /\ opened /\ wpc[w] = "idle" /\ txn = NoWriter
    /\ txn' = w
    /\ wpc' = [wpc EXCEPT ![w] = "begun"]
    /\ UNCHANGED <<durable, opened, top, applied, wid, avars, done>>

(* mdv_trlog_new_id: atomic_fetch_add on top, inside the transaction. *)
AddOpNewId(w) ==
    /\ wpc[w] = "begun"
    /\ top <= MaxId
    /\ wid' = top
    /\ top' = top + 1
    /\ wpc' = [wpc EXCEPT ![w] = "numbered"]
    /\ UNCHANGED <<durable, opened, applied, txn, avars, done>>

(* mdv_map_put_unique succeeds only for a key that is not there. *)
AddOpCommit(w) ==
    /\ wpc[w] = "numbered"
    /\ wid \notin trlog
    /\ trlog' = trlog \cup {wid}
    /\ txn' = NoWriter
    /\ wpc' = [wpc EXCEPT ![w] = "idle"]
    /\ UNCHANGED <<appliedPos, stored, dropped, opened, top, applied, wid, avars, done>>

(* The rollback of a failed put or commit; the identifier is not given back. *)
AddOpFail(w) ==
    /\ wpc[w] = "numbered"
    /\ wid \in trlog \/ Faults \cap {"put", "commit"} # {}
    /\ txn' = NoWriter
    /\ wpc' = [wpc EXCEPT ![w] = "idle"]
    /\ UNCHANGED <<durable, opened, top, applied, wid, avars, done>>

-----------------------------------------------------------------------------
(* mdv_tablespace_log_apply: mdv_trlog_apply until a batch is not full. *)

ApplyStart ==
    /\ opened /\ apc = "idle"
    /\ apc' = "check"
    /\ UNCHANGED <<durable, opened, top, applied, wvars, batch, newApplied, n, done>>

ApplyCheck ==
    /\ apc = "check"
    /\ apc' = IF applied >= top THEN "idle" ELSE "read"
    /\ UNCHANGED <<durable, opened, top, applied, wvars, batch, newApplied, n, done>>

(* Mutant of IsBatch: the range begins after pos instead of at it. *)
IsBatchAfter(b, pos) ==
    /\ b \subseteq trlog
    /\ \A i \in b : i > pos
    /\ \A i \in b, j \in trlog : pos < j /\ j < i => j \in b
    /\ Cardinality(b) <= BatchSize
    /\ Cardinality(b) = BatchSize \/ \A j \in trlog : j > pos => j \in b

(* The first BatchSize operations at or after pos (MDV_CURSOR_SET_RANGE). *)
IsBatch(b, pos) ==
    /\ b \subseteq trlog
    /\ \A i \in b : i >= pos
    /\ \A i \in b, j \in trlog : pos <= j /\ j < i => j \in b
    /\ Cardinality(b) <= BatchSize
    /\ Cardinality(b) = BatchSize \/ \A j \in trlog : j >= pos => j \in b

(* mdv_trlog_read: a transaction of its own, so it waits for the writers'. *)
ApplyRead ==
    /\ apc = "read" /\ txn = NoWriter
    /\ \E b \in SUBSET trlog :
        /\ IsBatch(b, applied)
        /\ batch' = b
        /\ apc' = IF b = {} THEN "idle" ELSE "apply"
    /\ newApplied' = applied
    /\ n' = 0
    /\ UNCHANGED <<durable, opened, top, applied, wvars, done>>

(* Mutants of ApplyOp: the position skips one, or the batch has no order. *)
ApplyOpSkipsOne ==
    /\ apc = "apply"
    /\ \E i \in batch :
        /\ Least(i, batch)
        /\ batch' = batch \ {i}
        /\ stored' = stored \cup {i} /\ dropped' = dropped
        /\ newApplied' = i + 2
        /\ done' = done \cup {i}
        /\ apc' = IF batch = {i} THEN "set" ELSE "apply"
    /\ n' = n + 1
    /\ UNCHANGED <<trlog, appliedPos, opened, top, applied, wvars>>

ApplyOpAnyOrder ==
    /\ apc = "apply"
    /\ \E i \in batch :
        /\ batch' = batch \ {i}
        /\ stored' = stored \cup {i} /\ dropped' = dropped
        /\ newApplied' = i + 1
        /\ done' = done \cup {i}
        /\ apc' = IF batch = {i} THEN "set" ELSE "apply"
    /\ n' = n + 1
    /\ UNCHANGED <<trlog, appliedPos, opened, top, applied, wvars>>

(* mdv_tablespace_trlog_apply of the next operation of the batch.  When the *)
(* table's rowdata cannot be opened the operation is reported as applied.   *)
ApplyOp ==
    /\ apc = "apply"
    /\ \E i \in batch :
        /\ Least(i, batch)
        /\ batch' = batch \ {i}
        /\ \/ stored' = stored \cup {i} /\ dropped' = dropped
           \/ "rowdata" \in Faults /\ dropped' = dropped \cup {i} /\ stored' = stored
        /\ newApplied' = i + 1
        /\ done' = done \cup {i}
        /\ apc' = IF batch = {i} THEN "set" ELSE "apply"
    /\ n' = n + 1
    /\ UNCHANGED <<trlog, appliedPos, opened, top, applied, wvars>>

(* Mutant of ApplyOpFail: the batch goes on after the failed operation. *)
ApplyOpFailGoesOn ==
    /\ apc = "apply" /\ "apply" \in Faults
    /\ \E i \in batch : Least(i, batch) /\ batch' = batch \ {i}
    /\ apc' = IF batch' # {} THEN "apply" ELSE IF n > 0 THEN "set" ELSE "idle"
    /\ UNCHANGED <<durable, opened, top, applied, wvars, newApplied, n, done>>

(* The operation fails: the rest of the batch is dropped. *)
ApplyOpFail ==
    /\ apc = "apply" /\ "apply" \in Faults
    /\ batch' = {}
    /\ apc' = IF n > 0 THEN "set" ELSE "idle"
    /\ UNCHANGED <<durable, opened, top, applied, wvars, newApplied, n, done>>

(* Mutant of ApplySet: only the saved position moves. *)
ApplySetSavedOnly ==
    /\ apc = "set"
    /\ apc' = "persist"
    /\ UNCHANGED <<durable, opened, top, applied, wvars, batch, newApplied, n, done>>

(* mdv_trlog_applied_pos_set: the atomic first, then its own transaction. *)
ApplySet ==
    /\ apc = "set"
    /\ applied' = newApplied
    /\ apc' = "persist"
    /\ UNCHANGED <<durable, opened, top, wvars, batch, newApplied, n, done>>

ApplyPersist ==
    /\ apc = "persist" /\ txn = NoWriter
    /\ \/ appliedPos' = newApplied
       \/ "persist" \in Faults /\ appliedPos' = appliedPos
    /\ apc' = IF n >= BatchSize THEN "check" ELSE "idle"
    /\ UNCHANGED <<trlog, stored, dropped, opened, top, applied, wvars, batch, newApplied, n, done>>

Apply == ApplyStart \/ ApplyCheck \/ ApplyRead \/ ApplyOp \/ ApplyOpFail
            \/ ApplySet \/ ApplyPersist

-----------------------------------------------------------------------------

AddOp == \E w \in Writers : AddOpBegin(w) \/ AddOpNewId(w) \/ AddOpCommit(w) \/ AddOpFail(w)

Next == Open \/ Crash \/ AddOp \/ Apply

Spec == Init /\ [][Next]_vars

-----------------------------------------------------------------------------

(* The operations mdv_tablespace_trlog_apply has returned true for. *)
Settled == stored \cup dropped

(* Every operation below the application position has been applied: nothing *)
(* the applier passes is lost.  The durable position must be as truthful as *)
(* the one in memory, since a restart continues from it (mdv_trlog_init).   *)
NothingSkipped ==
    /\ \A i \in trlog : i < applied => i \in Settled
    /\ \A i \in trlog : i < appliedPos => i \in Settled

(* Operations take effect in the order of the log: an effect is never in the *)
(* tables while an earlier committed operation has still to be applied.      *)
AppliedInOrder ==
    \A i \in Settled, j \in trlog : j < i => j \in Settled

(* mdv_trlog_new_id never hands out an identifier that is in the log, also *)
(* when failed insertions and restarts have left holes behind.             *)
FreshIds ==
    \A w \in Writers : wpc[w] = "numbered" => \A j \in trlog : j < wid

(* While the log is open its insertion position is past every committed   *)
(* key and never behind the applied position, in memory or saved.         *)
TopCoversLog ==
    opened => /\ \A i \in trlog : i < top
              /\ appliedPos <= applied /\ applied <= top

(* Between two restarts no operation is applied twice: mdv_trlog_apply does *)
(* not hand an operation to the tables again.                               *)
AppliedOncePerRun ==
    [][n' = n + 1 => (batch \ batch') \cap done = {}]_vars

Abstract == INSTANCE AppendOnlyLog WITH Id <- Ids, log <- trlog, data <- Settled

(* The log implements AppendOnlyLog: transactions, batches, repeated *)
(* application after a crash and failures are invisible outside.           *)
ImplementsAppendOnlyLog == Abstract!LogSpec
=============================================================================
