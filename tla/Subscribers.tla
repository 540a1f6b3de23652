---------------------------- MODULE Subscribers ----------------------------
(***************************************************************************)
(* The subscriber list of one event type of the bus                        *)
(* (mdv_platform/mdv_ebus.c) and the lifetime of the objects in it.  The   *)
(* list is a reference-counted vector that is copied on every change.  A   *)
(* thread that processes an event retains the current vector and calls     *)
(* every handler in it.  Unsubscribing swaps the vector for a copy without *)
(* the subscriber and then waits until nobody else holds the old one.      *)
(*                                                                         *)
(* A subscriber is an object that is freed by mdv_peer_free and the like:  *)
(* unsubscribe first, then give the memory back.  The handlers of the      *)
(* Retaining ones (mdv_peer.c, mdv_user.c) hold a reference to the object  *)
(* while they post a message, so that they may be the ones that drop the   *)
(* last reference.                                                         *)
(***************************************************************************)
EXTENDS Naturals, Sequences, FiniteSets

CONSTANTS
    Subs,           \* objects that subscribe
    Retaining,      \* those whose handlers retain the object
    Threads,        \* threads that process events
    Manager,        \* the thread that creates and closes the objects
    MaxVersions     \* bound on the vectors created

ASSUME SubscribersAssumption ==
    Retaining \subseteq Subs /\ Manager \notin Threads /\ MaxVersions \in Nat \ {0}

VARIABLES
    vec,            \* every vector created: a sequence of sets of subscribers
    refs,           \* the reference counter of each vector
    cur,            \* handlers->subscribers
    rc,             \* the reference counter of each object
    state,          \* the object's life
    freer,          \* the thread that frees the object
    old,            \* the vector its unsubscription has replaced
    bpc,            \* where a thread of the bus is
    bvec,           \* the vector it holds
    todo,           \* subscribers of that vector it has still to call
    call            \* the subscriber whose handler it is in

vars == <<vec, refs, cur, rc, state, freer, old, bpc, bvec, todo, call>>

Versions == 1..MaxVersions

TypeOK ==
    /\ vec \in Seq(SUBSET Subs) /\ Len(vec) \in Versions
    /\ refs \in [DOMAIN vec -> Nat]
    /\ cur \in DOMAIN vec
    /\ rc \in [Subs -> Nat]
    /\ state \in [Subs -> {"new", "in", "closing", "free", "waiting", "freed"}]
    /\ freer \in [Subs -> Threads \cup {Manager}]
    /\ old \in [Subs -> Versions]
    /\ bpc \in [Threads -> {"idle", "next", "handler", "posting"}]
    /\ bvec \in [Threads -> Versions]
    /\ todo \in [Threads -> SUBSET Subs]
    /\ call \in [Threads -> Subs]

Init ==
    /\ vec = <<{}>> /\ refs = <<1>> /\ cur = 1
    /\ rc = [s \in Subs |-> 0]
    /\ state = [s \in Subs |-> "new"]
    /\ freer = [s \in Subs |-> Manager]
    /\ old = [s \in Subs |-> 1]
    /\ bpc = [b \in Threads |-> "idle"]
    /\ bvec = [b \in Threads |-> 1]
    /\ todo = [b \in Threads |-> {}]
    /\ call \in [Threads -> Subs]

busvars == <<bpc, bvec, todo, call>>

(* A new vector becomes the current one. *)
Swap(S) ==
    /\ Len(vec) < MaxVersions
    /\ vec' = Append(vec, S)
    /\ cur' = Len(vec) + 1

(* mdv_ebus_subscribe_unsafe: copy with the subscriber, release the original. *)
Subscribe(s) ==
    /\ state[s] = "new"
    /\ Swap(vec[cur] \cup {s})
    /\ refs' = Append([refs EXCEPT ![cur] = @ - 1], 1)
    /\ state' = [state EXCEPT ![s] = "in"]
    /\ rc' = [rc EXCEPT ![s] = 1]
    /\ UNCHANGED <<freer, old, busvars>>

(* Dropping a reference to the object: the last one makes t free it. *)
Release(s, t) ==
    /\ rc' = [rc EXCEPT ![s] = @ - 1]
    /\ state' = [state EXCEPT ![s] = IF rc[s] = 1 THEN "free" ELSE "closing"]
    /\ freer' = IF rc[s] = 1 THEN [freer EXCEPT ![s] = t] ELSE freer

(* The connection is closed, or the owner shuts the component down. *)
Close(s) ==
    /\ state[s] = "in"
    /\ Release(s, Manager)
    /\ UNCHANGED <<vec, refs, cur, old, busvars>>

(* Mutant of UnsubscribeSwap: the old vector is released at once, as when *)
(* subscribing.                                                           *)
UnsubscribeSwapReleases(s) ==
    /\ state[s] = "free"
    /\ Swap(vec[cur] \ {s})
    /\ refs' = Append([refs EXCEPT ![cur] = @ - 1], 1)
    /\ old' = [old EXCEPT ![s] = cur]
    /\ state' = [state EXCEPT ![s] = "waiting"]
    /\ UNCHANGED <<rc, freer, busvars>>

(* mdv_ebus_unsubscribe_unsafe: the reference of the list to the old vector *)
(* passes to the thread that unsubscribes.                                  *)
UnsubscribeSwap(s) ==
    /\ state[s] = "free"
    /\ Swap(vec[cur] \ {s})
    /\ refs' = Append(refs, 1)
    /\ old' = [old EXCEPT ![s] = cur]
    /\ state' = [state EXCEPT ![s] = "waiting"]
    /\ UNCHANGED <<rc, freer, busvars>>

(* Mutant of UnsubscribeWait: no waiting for the other holders. *)
UnsubscribeNoWait(s) ==
    /\ state[s] = "waiting"
    /\ refs' = [refs EXCEPT ![old[s]] = @ - 1]
    /\ state' = [state EXCEPT ![s] = "freed"]
    /\ UNCHANGED <<vec, cur, rc, freer, old, busvars>>

(* mdv_ebus_subscribers_wait_and_release, and the memory is given back. *)
UnsubscribeWait(s) ==
    /\ state[s] = "waiting"
    /\ refs[old[s]] <= 1
    /\ refs' = [refs EXCEPT ![old[s]] = @ - 1]
    /\ state' = [state EXCEPT ![s] = "freed"]
    /\ UNCHANGED <<vec, cur, rc, freer, old, busvars>>

-----------------------------------------------------------------------------
(* mdv_ebus_event_process *)

(* A thread that frees an object is busy until that is over. *)
Free(b) == \A s \in Subs : state[s] \in {"free", "waiting"} => freer[s] # b

GetSubscribers(b) ==
    /\ bpc[b] = "idle" /\ Free(b)
    /\ refs' = [refs EXCEPT ![cur] = @ + 1]
    /\ bvec' = [bvec EXCEPT ![b] = cur]
    /\ todo' = [todo EXCEPT ![b] = vec[cur]]
    /\ bpc' = [bpc EXCEPT ![b] = "next"]
    /\ UNCHANGED <<vec, cur, rc, state, freer, old, call>>

CallHandler(b) ==
    /\ bpc[b] = "next" /\ Free(b)
    /\ \E s \in todo[b] :
        /\ todo' = [todo EXCEPT ![b] = @ \ {s}]
        /\ call' = [call EXCEPT ![b] = s]
    /\ bpc' = [bpc EXCEPT ![b] = "handler"]
    /\ UNCHANGED <<vec, refs, cur, rc, state, freer, old, bvec>>

(* Mutant of HandlerRetain: an object without references is revived. *)
HandlerRetainAlways(b) ==
    /\ bpc[b] = "handler" /\ call[b] \in Retaining
    /\ rc' = [rc EXCEPT ![call[b]] = @ + 1]
    /\ bpc' = [bpc EXCEPT ![b] = "posting"]
    /\ UNCHANGED <<vec, refs, cur, state, freer, old, bvec, todo, call>>

(* mdv_peer_retain_impl refuses an object that has no reference any more. *)
HandlerRetain(b) ==
    /\ bpc[b] = "handler" /\ call[b] \in Retaining
    /\ rc[call[b]] > 0
    /\ rc' = [rc EXCEPT ![call[b]] = @ + 1]
    /\ bpc' = [bpc EXCEPT ![b] = "posting"]
    /\ UNCHANGED <<vec, refs, cur, state, freer, old, bvec, todo, call>>

HandlerReturns(b) ==
    /\ bpc[b] = "handler"
    /\ call[b] \in Retaining => rc[call[b]] = 0
    /\ bpc' = [bpc EXCEPT ![b] = "next"]
    /\ UNCHANGED <<vec, refs, cur, rc, state, freer, old, bvec, todo, call>>

(* mdv_peer_post: the message is sent, the reference is dropped. *)
HandlerReleases(b) ==
    /\ bpc[b] = "posting"
    /\ bpc' = [bpc EXCEPT ![b] = "next"]
    /\ \/ /\ state[call[b]] = "in"
          /\ rc' = [rc EXCEPT ![call[b]] = @ - 1]
          /\ UNCHANGED <<state, freer>>
       \/ state[call[b]] # "in" /\ Release(call[b], b)
    /\ UNCHANGED <<vec, refs, cur, old, bvec, todo, call>>

(* Mutants of PutSubscribers: the current vector is released instead of the *)
(* retained one, or none is.                                                *)
PutCurrentSubscribers(b) ==
    /\ bpc[b] = "next" /\ todo[b] = {} /\ Free(b)
    /\ refs' = [refs EXCEPT ![cur] = @ - 1]
    /\ bpc' = [bpc EXCEPT ![b] = "idle"]
    /\ UNCHANGED <<vec, cur, rc, state, freer, old, bvec, todo, call>>

PutSubscribersForgotten(b) ==
    /\ bpc[b] = "next" /\ todo[b] = {} /\ Free(b)
    /\ bpc' = [bpc EXCEPT ![b] = "idle"]
    /\ UNCHANGED <<vec, refs, cur, rc, state, freer, old, bvec, todo, call>>

PutSubscribers(b) ==
    /\ bpc[b] = "next" /\ todo[b] = {} /\ Free(b)
    /\ refs' = [refs EXCEPT ![bvec[b]] = @ - 1]
    /\ bpc' = [bpc EXCEPT ![b] = "idle"]
    /\ UNCHANGED <<vec, cur, rc, state, freer, old, bvec, todo, call>>

-----------------------------------------------------------------------------

EventStep(b) == CallHandler(b) \/ HandlerRetain(b) \/ HandlerReturns(b)
                    \/ HandlerReleases(b) \/ PutSubscribers(b)
FreeStep(s) == UnsubscribeSwap(s) \/ UnsubscribeWait(s)

Next ==
    \/ \E s \in Subs : Subscribe(s) \/ Close(s) \/ FreeStep(s)
    \/ \E b \in Threads : GetSubscribers(b) \/ EventStep(b)

Spec == Init /\ [][Next]_vars

(* Handlers return, the threads of the bus and the freeing threads run. *)
FairSpec ==
    /\ Spec
    /\ \A s \in Subs : WF_vars(FreeStep(s))
    /\ \A b \in Threads : WF_vars(EventStep(b))

-----------------------------------------------------------------------------

Holders(v) == {b \in Threads : bpc[b] # "idle" /\ bvec[b] = v}
Waiters(v) == {s \in Subs : state[s] = "waiting" /\ old[s] = v}

(* The counter of a vector is the number of its holders, so that a vector *)
(* somebody walks over is never freed and the current one is never gone.  *)
RefsExact ==
    \A v \in DOMAIN vec :
        refs[v] = Cardinality(Holders(v)) + Cardinality(Waiters(v)) + (IF v = cur THEN 1 ELSE 0)

(* The wait does what it can: when it is over no thread is left that took  *)
(* the vector this unsubscription has replaced.                            *)
ReplacedVectorDrained ==
    \A s \in Subs : state[s] = "freed" => Holders(old[s]) = {}

(* mdv_ebus_subscribers_wait_and_release: "Waiting for handlers completion". *)
(* No handler runs on an object whose unsubscription has returned.           *)
NoCallAfterUnsubscribe ==
    \A b \in Threads : bpc[b] \in {"handler", "posting"} => state[call[b]] # "freed"

(* The reference counter of an object never drops to zero twice: it is freed *)
(* by one thread only, and no freed object is released again.                *)
FreedByOne ==
    [][\A s \in Subs : /\ state[s] \in {"free", "waiting", "freed"} => freer'[s] = freer[s]
                       /\ state[s] = "freed" => rc'[s] = rc[s]]_vars

(* A thread of the bus frees an object from inside one of its handlers, and *)
(* waits for the vector that it holds itself.                                *)
FreedInHandler ==
    \E s \in Subs : state[s] \in {"free", "waiting"} /\ freer[s] \in Threads

(* An object without references is freed: mdv_ebus_unsubscribe_all returns, *)
(* unless a handler has dropped the last reference to an object.             *)
UnsubscribeReturns ==
    \A s \in Subs : state[s] = "free" ~> state[s] = "freed" \/ FreedInHandler
=============================================================================
