------------------------------ MODULE EventBus ------------------------------
(***************************************************************************)
(* The queues of the event bus (mdv_platform/mdv_ebus.c).  Any thread may  *)
(* publish; events are spread over several bounded queues in turn; a pool  *)
(* of threads pops them and calls the handlers.  events_gen counts, for    *)
(* each event type, the events that are in the bus, and makes a UNIQUE     *)
(* publication a no-op while one is.  Which handlers are called is the     *)
(* subject of module Subscribers.                                          *)
(***************************************************************************)
EXTENDS Naturals, Sequences, FiniteSets

CONSTANTS
    Publishers,     \* threads that publish
    Threads,        \* threads of the bus
    UniqueTypes,    \* event types published with MDV_EVT_UNIQUE
    DefaultTypes,   \* event types published with MDV_EVT_DEFAULT
    QueueCount,     \* number of queues (ebus->size)
    QueueSize,      \* MDV_EBUS_QUEUE_SIZE
    PushAttempts,   \* MDV_EBUS_QUEUE_PUSH_ATTEMPTS
    MaxEvents       \* bound on the events published

ASSUME TypesAssumption == UniqueTypes \cap DefaultTypes = {}
ASSUME SizesAssumption ==
    /\ QueueCount \in Nat \ {0} /\ QueueSize \in Nat \ {0}
    /\ PushAttempts \in Nat \ {0} /\ MaxEvents \in Nat

Types == UniqueTypes \cup DefaultTypes
QueueIds == 0..(QueueCount - 1)
EventIds == 1..MaxEvents

VARIABLES
    gen,            \* events_gen
    idx,            \* ebus->idx
    queues,         \* the queues, of event identifiers
    type,           \* type of every event published so far: a sequence
    ppc,            \* where a publisher is
    pevt,           \* the event it publishes
    pidx,           \* the queue it has drawn
    tries,          \* its push attempts
    tpc,            \* where a thread of the bus is
    tevt,           \* the event it has popped
    accepted,       \* history: events whose publication returned MDV_OK
    handled,        \* history: how often each event was processed
    failed          \* history: events whose publication returned MDV_FAILED

vars == <<gen, idx, queues, type, ppc, pevt, pidx, tries, tpc, tevt, accepted, handled, failed>>

TypeOK ==
    /\ gen \in [Types -> Nat]
    /\ idx \in QueueIds
    /\ queues \in [QueueIds -> Seq(EventIds)]
    /\ \A q \in QueueIds : Len(queues[q]) <= QueueSize
    /\ type \in Seq(Types)
    /\ ppc \in [Publishers -> {"idle", "route", "push"}]
    /\ pevt \in [Publishers -> EventIds \cup {0}]
    /\ pidx \in [Publishers -> QueueIds]
    /\ tries \in [Publishers -> 0..PushAttempts]
    /\ tpc \in [Threads -> {"idle", "popped", "process"}]
    /\ tevt \in [Threads -> EventIds \cup {0}]
    /\ accepted \subseteq EventIds
    /\ handled \in [EventIds -> Nat]
    /\ failed \subseteq EventIds

Init ==
    /\ gen = [t \in Types |-> 0]
    /\ idx = 0
    /\ queues = [q \in QueueIds |-> <<>>]
    /\ type = <<>>
    /\ ppc = [p \in Publishers |-> "idle"]
    /\ pevt = [p \in Publishers |-> 0]
    /\ pidx = [p \in Publishers |-> 0]
    /\ tries = [p \in Publishers |-> 0]
    /\ tpc = [t \in Threads |-> "idle"]
    /\ tevt = [t \in Threads |-> 0]
    /\ accepted = {}
    /\ handled = [e \in EventIds |-> 0]
    /\ failed = {}

-----------------------------------------------------------------------------
(* mdv_ebus_publish *)

(* The event passes the counter of its type and goes on to a queue. *)
Admit(p, t) ==
    /\ type' = Append(type, t)
    /\ pevt' = [pevt EXCEPT ![p] = Len(type) + 1]
    /\ ppc' = [ppc EXCEPT ![p] = "route"]
    /\ UNCHANGED <<idx, queues, pidx, tries, tpc, tevt, accepted, handled, failed>>

(* Mutant of PublishUnique: the counter is stored to instead of compared. *)
PublishUniqueUnchecked(p, t) ==
    /\ ppc[p] = "idle" /\ Len(type) < MaxEvents
    /\ gen' = [gen EXCEPT ![t] = 1]
    /\ Admit(p, t)

(* MDV_EVT_UNIQUE: compare-and-exchange 0 -> 1; otherwise MDV_EEXIST is      *)
(* returned and nothing changes.                                             *)
PublishUnique(p, t) ==
    /\ ppc[p] = "idle" /\ Len(type) < MaxEvents
    /\ gen[t] = 0
    /\ gen' = [gen EXCEPT ![t] = 1]
    /\ Admit(p, t)

PublishDefault(p, t) ==
    /\ ppc[p] = "idle" /\ Len(type) < MaxEvents
    /\ gen' = [gen EXCEPT ![t] = @ + 1]
    /\ Admit(p, t)

(* The compare-and-exchange loop on idx is one step. *)
Route(p) ==
    /\ ppc[p] = "route"
    /\ idx' = (idx + 1) % QueueCount
    /\ pidx' = [pidx EXCEPT ![p] = idx']
    /\ tries' = [tries EXCEPT ![p] = 0]
    /\ ppc' = [ppc EXCEPT ![p] = "push"]
    /\ UNCHANGED <<gen, queues, type, pevt, tpc, tevt, accepted, handled, failed>>

(* Mutant of Push: the queue's size is not looked at. *)
PushUnlimited(p) ==
    /\ ppc[p] = "push"
    /\ queues' = [queues EXCEPT ![pidx[p]] = Append(@, pevt[p])]
    /\ accepted' = accepted \cup {pevt[p]}
    /\ ppc' = [ppc EXCEPT ![p] = "idle"]
    /\ UNCHANGED <<gen, idx, type, pevt, pidx, tries, tpc, tevt, handled, failed>>

Push(p) ==
    /\ ppc[p] = "push"
    /\ Len(queues[pidx[p]]) < QueueSize
    /\ queues' = [queues EXCEPT ![pidx[p]] = Append(@, pevt[p])]
    /\ accepted' = accepted \cup {pevt[p]}
    /\ ppc' = [ppc EXCEPT ![p] = "idle"]
    /\ UNCHANGED <<gen, idx, type, pevt, pidx, tries, tpc, tevt, handled, failed>>

(* Mutant of PushFull: the counter is taken back at every failed attempt. *)
PushFullUncounts(p) ==
    /\ ppc[p] = "push"
    /\ Len(queues[pidx[p]]) = QueueSize
    /\ tries' = [tries EXCEPT ![p] = @ + 1]
    /\ gen' = [gen EXCEPT ![type[pevt[p]]] = @ - 1]
    /\ \/ /\ tries'[p] = PushAttempts
          /\ ppc' = [ppc EXCEPT ![p] = "idle"]
          /\ failed' = failed \cup {pevt[p]}
       \/ tries'[p] < PushAttempts /\ UNCHANGED <<ppc, failed>>
    /\ UNCHANGED <<idx, queues, type, pevt, pidx, tpc, tevt, accepted, handled>>

(* The queue is full: yield and try again, or give up with MDV_FAILED.  The *)
(* counter of the type is not taken back.                                   *)
PushFull(p) ==
    /\ ppc[p] = "push"
    /\ Len(queues[pidx[p]]) = QueueSize
    /\ tries' = [tries EXCEPT ![p] = @ + 1]
    /\ \/ /\ tries'[p] = PushAttempts
          /\ ppc' = [ppc EXCEPT ![p] = "idle"]
          /\ failed' = failed \cup {pevt[p]}
       \/ tries'[p] < PushAttempts /\ UNCHANGED <<ppc, failed>>
    /\ UNCHANGED <<gen, idx, queues, type, pevt, pidx, tpc, tevt, accepted, handled>>

-----------------------------------------------------------------------------
(* mdv_ebus_evt_handler *)

(* Mutants of Pop: the event stays in the queue, or one queue is served. *)
PopPeeks(b, q) ==
    /\ tpc[b] = "idle"
    /\ queues[q] # <<>>
    /\ tevt' = [tevt EXCEPT ![b] = Head(queues[q])]
    /\ tpc' = [tpc EXCEPT ![b] = "popped"]
    /\ UNCHANGED <<gen, idx, queues, type, ppc, pevt, pidx, tries, accepted, handled, failed>>

PopFirstQueue(b, q) ==
    /\ q = 0
    /\ tpc[b] = "idle"
    /\ queues[q] # <<>>
    /\ tevt' = [tevt EXCEPT ![b] = Head(queues[q])]
    /\ queues' = [queues EXCEPT ![q] = Tail(@)]
    /\ tpc' = [tpc EXCEPT ![b] = "popped"]
    /\ UNCHANGED <<gen, idx, type, ppc, pevt, pidx, tries, accepted, handled, failed>>

Pop(b, q) ==
    /\ tpc[b] = "idle"
    /\ queues[q] # <<>>
    /\ tevt' = [tevt EXCEPT ![b] = Head(queues[q])]
    /\ queues' = [queues EXCEPT ![q] = Tail(@)]
    /\ tpc' = [tpc EXCEPT ![b] = "popped"]
    /\ UNCHANGED <<gen, idx, type, ppc, pevt, pidx, tries, accepted, handled, failed>>

(* The counter goes down before the handlers are called. *)
Uncount(b) ==
    /\ tpc[b] = "popped"
    /\ gen' = [gen EXCEPT ![type[tevt[b]]] = @ - 1]
    /\ tpc' = [tpc EXCEPT ![b] = "process"]
    /\ UNCHANGED <<idx, queues, type, ppc, pevt, pidx, tries, tevt, accepted, handled, failed>>

Process(b) ==
    /\ tpc[b] = "process"
    /\ handled' = [handled EXCEPT ![tevt[b]] = @ + 1]
    /\ tpc' = [tpc EXCEPT ![b] = "idle"]
    /\ UNCHANGED <<gen, idx, queues, type, ppc, pevt, pidx, tries, tevt, accepted, failed>>

-----------------------------------------------------------------------------

PublisherStep(p) == Route(p) \/ Push(p) \/ PushFull(p)
ThreadStep(b) == (\E q \in QueueIds : Pop(b, q)) \/ Uncount(b) \/ Process(b)

Next ==
    \/ \E p \in Publishers : \/ \E t \in UniqueTypes : PublishUnique(p, t)
                             \/ \E t \in DefaultTypes : PublishDefault(p, t)
                             \/ PublisherStep(p)
    \/ \E b \in Threads : ThreadStep(b)

Spec == Init /\ [][Next]_vars

(* The threads of the bus run; a call of mdv_ebus_publish returns. *)
FairSpec ==
    /\ Spec
    /\ \A p \in Publishers : WF_vars(PublisherStep(p))
    /\ \A b \in Threads : WF_vars(ThreadStep(b))

-----------------------------------------------------------------------------

(* Where an event of the bus can be: with its publisher, in a queue, or   *)
(* popped by a thread that has not counted it down yet.                   *)
Publishing(t) == {p \in Publishers : ppc[p] # "idle" /\ type[pevt[p]] = t}
Popped(t) == {b \in Threads : tpc[b] = "popped" /\ type[tevt[b]] = t}
Places(t) == {<<q, i>> \in QueueIds \X (1..QueueSize) :
                i <= Len(queues[q]) /\ type[queues[q][i]] = t}
InBus(t) == Cardinality(Publishing(t)) + Cardinality(Places(t)) + Cardinality(Popped(t))

(* MDV_EVT_UNIQUE: "New event is stored in internal queue only once." *)
UniqueOnce == \A t \in UniqueTypes : InBus(t) <= 1

(* The counter is exact but for the publications that failed: as long as no *)
(* queue has overflowed, a UNIQUE event is refused only if one is in the     *)
(* bus, and what an overflow leaves behind does not grow.                    *)
GenExact ==
    \A t \in Types : gen[t] = InBus(t) + Cardinality({e \in failed : type[e] = t})

(* An event whose publication succeeded is processed exactly once, whichever *)
(* queue and thread it goes through; one that was refused never is.          *)
HandledOnce ==
    \A e \in EventIds :
        LET pending == \/ \E q \in QueueIds : \E i \in 1..Len(queues[q]) : queues[q][i] = e
                       \/ \E b \in Threads : tpc[b] # "idle" /\ tevt[b] = e
        IN  handled[e] = IF e \in accepted /\ ~pending THEN 1 ELSE 0

(* Nothing that was accepted stays in the bus for ever. *)
AcceptedHandled == \A e \in EventIds : e \in accepted ~> handled[e] = 1
=============================================================================
