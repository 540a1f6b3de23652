----------------------------- MODULE Dispatcher -----------------------------
(***************************************************************************)
(* The message dispatcher of a connection (mdv_net/mdv_dispatcher.c) as    *)
(* the client library uses it: threads send requests over one connection   *)
(* and wait for the answers, each on a condition variable from a small     *)
(* pool; the thread that reads the connection matches answers by their     *)
(* number and wakes the sender.                                            *)
(***************************************************************************)
EXTENDS Naturals

CONSTANTS
    Senders,        \* threads that call mdv_dispatcher_send
    CVs,            \* the condition variables, MDV_DISP_REQS of them
    NoCV,
    MaxRequests     \* bound on the requests; below 2^16, so numbers are fresh

ASSUME DispatcherAssumption == NoCV \notin CVs /\ MaxRequests \in Nat

Numbers == 0..(MaxRequests - 1)

VARIABLES
    open,           \* the connection is open
    id,             \* pd->id
    cvs,            \* pd->cvs, the unused condition variables
    requests,       \* numbers in pd->requests
    ready,          \* numbers whose entry has ready set
    crashed,        \* the process has dereferenced a null pointer
    pc, num, cv,    \* each sender: its place, the number and variable of its request
    err,            \* each sender: its err, and what its last call returned
    resp,           \* each sender: the number its response buffer answers, if any
    asked, answers  \* messages under way: requests to the server, its answers

vars == <<open, id, cvs, requests, ready, crashed, pc, num, cv, err, resp, asked, answers>>

NoNumber == MaxRequests

TypeOK ==
    /\ open \in BOOLEAN /\ crashed \in BOOLEAN
    /\ id \in 0..MaxRequests /\ cvs \subseteq CVs
    /\ requests \subseteq Numbers /\ ready \subseteq requests
    /\ pc \in [Senders -> {"idle", "write", "check", "enter", "wait", "finish"}]
    /\ num \in [Senders -> Numbers \cup {NoNumber}] /\ cv \in [Senders -> CVs \cup {NoCV}]
    /\ err \in [Senders -> {"none", "MDV_OK", "MDV_FAILED", "MDV_ETIMEDOUT"}]
    /\ resp \in [Senders -> Numbers \cup {NoNumber}]
    /\ asked \subseteq Numbers /\ answers \subseteq Numbers

Init ==
    /\ open = TRUE /\ crashed = FALSE
    /\ id = 0 /\ cvs = CVs /\ requests = {} /\ ready = {}
    /\ pc = [s \in Senders |-> "idle"] /\ num = [s \in Senders |-> NoNumber]
    /\ cv = [s \in Senders |-> NoCV] /\ err = [s \in Senders |-> "none"]
    /\ resp = [s \in Senders |-> NoNumber]
    /\ asked = {} /\ answers = {}

-----------------------------------------------------------------------------
(* mdv_dispatcher_send *)

(* A new number and, under the mutex of the requests, a condition variable   *)
(* (no one sees the number in between).  mdv_stack_pop of an empty pool      *)
(* returns a null pointer, and *pcv reads through it before MDV_BUSY could   *)
(* be returned.                                                              *)
Register(s) ==
    /\ pc[s] = "idle" /\ id < MaxRequests
    /\ id' = id + 1
    /\ \/ /\ cvs = {}
          /\ crashed' = TRUE
          /\ UNCHANGED <<cvs, requests, pc, num, cv, err, resp>>
       \/ /\ \E c \in cvs : cvs' = cvs \ {c} /\ cv' = [cv EXCEPT ![s] = c]
          /\ requests' = requests \cup {id}
          /\ num' = [num EXCEPT ![s] = id]
          /\ err' = [err EXCEPT ![s] = "MDV_OK"]
          /\ resp' = [resp EXCEPT ![s] = NoNumber]
          /\ pc' = [pc EXCEPT ![s] = "write"]
          /\ crashed' = crashed
    /\ UNCHANGED <<open, ready, asked, answers>>

(* Mutants: the entry, its ready flag or its condition variable is forgotten. *)
UnregisterKeepsEntry(s) ==
    /\ cvs' = cvs \cup {cv[s]}
    /\ cv' = [cv EXCEPT ![s] = NoCV]
    /\ pc' = [pc EXCEPT ![s] = "idle"]
    /\ UNCHANGED <<requests, ready>>

UnregisterKeepsReady(s) ==
    /\ cvs' = cvs \cup {cv[s]}
    /\ cv' = [cv EXCEPT ![s] = NoCV]
    /\ requests' = requests \ {num[s]}
    /\ ready' = ready
    /\ pc' = [pc EXCEPT ![s] = "idle"]

UnregisterLosesCV(s) ==
    /\ cvs' = cvs
    /\ cv' = [cv EXCEPT ![s] = NoCV]
    /\ requests' = requests \ {num[s]}
    /\ ready' = ready \ {num[s]}
    /\ pc' = [pc EXCEPT ![s] = "idle"]

(* The request of s leaves the map and its condition variable the hands of s. *)
Unregister(s) ==
    /\ cvs' = cvs \cup {cv[s]}
    /\ cv' = [cv EXCEPT ![s] = NoCV]
    /\ requests' = requests \ {num[s]}
    /\ ready' = ready \ {num[s]}
    /\ pc' = [pc EXCEPT ![s] = "idle"]

WriteRequest(s) ==
    /\ pc[s] = "write"
    /\ \/ /\ open
          /\ asked' = asked \cup {num[s]}
          /\ pc' = [pc EXCEPT ![s] = "check"]
          /\ UNCHANGED <<cvs, requests, ready, cv, err>>
       \/ /\ ~open
          /\ err' = [err EXCEPT ![s] = "MDV_FAILED"]
          /\ Unregister(s)
          /\ asked' = asked
    /\ UNCHANGED <<open, id, crashed, num, resp, answers>>

(* The wait loop.  ready is read without a lock, and the condition variable is *)
(* locked only afterwards.  The client library's timeouts are whole seconds,   *)
(* for which the deadline of mdv_condvar_timedwait is always valid.  Wakeups   *)
(* without a signal are left out.                                              *)
CheckReady(s) ==
    /\ pc[s] = "check"
    /\ pc' = [pc EXCEPT ![s] = IF num[s] \in ready THEN "finish" ELSE "enter"]
    /\ UNCHANGED <<open, id, cvs, requests, ready, crashed, num, cv, err, resp, asked, answers>>

EnterWait(s) ==
    /\ pc[s] = "enter"
    /\ pc' = [pc EXCEPT ![s] = "wait"]
    /\ UNCHANGED <<open, id, cvs, requests, ready, crashed, num, cv, err, resp, asked, answers>>

(* Mutant: the wait loop goes on after a timeout. *)
TimeoutRetries(s) ==
    /\ pc[s] = "wait"
    /\ pc' = [pc EXCEPT ![s] = "check"]
    /\ UNCHANGED <<open, id, cvs, requests, ready, crashed, num, cv, err, resp, asked, answers>>

Timeout(s) ==
    /\ pc[s] = "wait"
    /\ err' = [err EXCEPT ![s] = "MDV_ETIMEDOUT"]
    /\ pc' = [pc EXCEPT ![s] = "finish"]
    /\ UNCHANGED <<open, id, cvs, requests, ready, crashed, num, cv, resp, asked, answers>>

(* Mutant: the call forgets how its wait ended. *)
FinishForgetsError(s) ==
    /\ pc[s] = "finish"
    /\ err' = [err EXCEPT ![s] = "MDV_OK"]
    /\ Unregister(s)
    /\ UNCHANGED <<open, id, crashed, num, resp, asked, answers>>

Finish(s) ==
    /\ pc[s] = "finish"
    /\ err' = IF num[s] \notin ready /\ err[s] = "MDV_OK"
              THEN [err EXCEPT ![s] = "MDV_ETIMEDOUT"] ELSE err
    /\ Unregister(s)
    /\ UNCHANGED <<open, id, crashed, num, resp, asked, answers>>

-----------------------------------------------------------------------------

(* The server answers a request when it likes, or never. *)
Answer(n) ==
    /\ asked' = asked \ {n}
    /\ answers' = answers \cup {n}
    /\ UNCHANGED <<open, id, cvs, requests, ready, crashed, pc, num, cv, err, resp>>

(* mdv_chaman_recv_handler closes the connection after an error. *)
Disconnect == open' = FALSE /\ asked' = {} /\ answers' = {}

(* mdv_dispatcher_read: a matching request gets the answer, and a signal that *)
(* is lost when its sender does not wait yet.  A message without request and  *)
(* without handler is an error (so is one for mdv_channel_status_handler).    *)
Read(n) ==
    /\ \/ \E s \in Senders :
             /\ n \in requests /\ num[s] = n
             /\ resp' = [resp EXCEPT ![s] = n]
             /\ ready' = ready \cup {n}
             /\ pc' = IF pc[s] = "wait" THEN [pc EXCEPT ![s] = "check"] ELSE pc
             /\ answers' = answers \ {n}
             /\ UNCHANGED <<open, asked>>
       \/ n \notin requests /\ Disconnect /\ UNCHANGED <<resp, ready, pc>>
    /\ UNCHANGED <<id, cvs, requests, crashed, num, cv, err>>

(* The server goes away. *)
Close ==
    /\ open
    /\ Disconnect
    /\ UNCHANGED <<id, cvs, requests, ready, crashed, pc, num, cv, err, resp>>

Step(s) ==
    WriteRequest(s) \/ CheckReady(s) \/ EnterWait(s) \/ Timeout(s) \/ Finish(s)

Next ==
    /\ ~crashed
    /\ \/ \E s \in Senders : Register(s) \/ Step(s)
       \/ \E n \in asked : Answer(n)
       \/ \E n \in answers : Read(n)
       \/ Close

Spec == Init /\ [][Next]_vars

(* Senders run and timers expire; the server owes nothing. *)
FairSpec == Spec /\ \A s \in Senders : WF_vars(~crashed /\ Step(s))

-----------------------------------------------------------------------------

(* The senders inside mdv_dispatcher_send, past the registration. *)
Active == {s \in Senders : pc[s] # "idle"}

(* The pool is exact: a condition variable is unused or belongs to one sender  *)
(* inside a call, and the map holds the requests of those calls and no others, *)
(* across failed writes, timeouts and late answers (mdv_stack_push and         *)
(* mdv_hashmap_erase on every way out).                                        *)
PoolExact ==
    /\ cvs = CVs \ {cv[s] : s \in Active}
    /\ requests = {num[s] : s \in Active}
    /\ \A s, t \in Active : s # t => cv[s] # cv[t] /\ num[s] # num[t]

(* The reader writes an answer only into the buffer of a call that has not *)
(* returned, and only the answer to the request of that call.              *)
NoLateWrite ==
    [][\A s \in Senders : resp'[s] \notin {resp[s], NoNumber} =>
            s \in Active /\ resp'[s] = num[s]]_vars

(* "MDV_OK if message is successfully sent and 'resp' contains response from *)
(* remote peer": a call that returns MDV_OK has its answer.                  *)
OkHasAnswer ==
    \A s \in Senders : pc[s] = "idle" /\ err[s] = "MDV_OK" => resp[s] = num[s]

(* Every call returns, with an answer, an error or a timeout. *)
SendReturns == \A s \in Senders : pc[s] = "write" ~> pc[s] = "idle" \/ crashed

(* "MDV_BUSY if there is no free slots for request. At this case caller should *)
(* wait and try again later.": no number of senders takes the process down.    *)
BusyWhenFull == ~crashed
=============================================================================
