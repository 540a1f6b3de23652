-------------------------- MODULE DispatcherProofs --------------------------
(***************************************************************************)
(* Proofs about the dispatcher, for any number of senders and condition    *)
(* variables and any number of requests below the wrap of the counter.     *)
(***************************************************************************)
EXTENDS Dispatcher, TLAPS

(* Every request number given out lies below the counter. *)
NumbersFresh == \A s \in Senders : num[s] = NoNumber \/ num[s] < id

(* A sender inside a call holds a condition variable, and an entry that is *)
(* ready has its answer in the buffer of its sender.                       *)
ReadyHasAnswer ==
    \A s \in Active : cv[s] \in CVs /\ (num[s] \in ready => resp[s] = num[s])

(* An entry is erased before its sender returns: no number of an idle sender *)
(* is in the map.                                                            *)
IdleErased == \A s \in Senders : num[s] \in requests => s \in Active

IInv == TypeOK /\ PoolExact /\ NumbersFresh /\ ReadyHasAnswer /\ IdleErased /\ OkHasAnswer

-----------------------------------------------------------------------------

(* A new dispatcher satisfies the invariant. *)
LEMMA InitInv == Init => IInv
<1> SUFFICES ASSUME Init PROVE IInv
  OBVIOUS
<1> USE DispatcherAssumption
<1>1. Active = {}
  BY DEF Init, Active
<1>2. TypeOK
  <2>1. /\ pc \in [Senders -> {"idle", "write", "check", "enter", "wait", "finish"}]
        /\ err \in [Senders -> {"none", "MDV_OK", "MDV_FAILED", "MDV_ETIMEDOUT"}]
    BY DEF Init
  <2>2. /\ num \in [Senders -> Numbers \cup {NoNumber}] /\ cv \in [Senders -> CVs \cup {NoCV}]
        /\ resp \in [Senders -> Numbers \cup {NoNumber}]
    BY DEF Init
  <2>3. open \in BOOLEAN /\ crashed \in BOOLEAN
    BY DEF Init
  <2>4. id \in 0..MaxRequests
    BY DEF Init
  <2> QED  BY <2>1, <2>2, <2>3, <2>4 DEF Init, TypeOK
<1>3. PoolExact
  BY <1>1 DEF Init, PoolExact
<1> QED  BY <1>1, <1>2, <1>3 DEF Init, IInv, NumbersFresh, ReadyHasAnswer, IdleErased, OkHasAnswer

(* Leaving the call: the entry and the condition variable go back together. *)
LEMMA UnregisterInv ==
    ASSUME IInv, NEW s \in Active, Unregister(s), UNCHANGED <<id, num, resp>>
    PROVE  /\ PoolExact' /\ ReadyHasAnswer' /\ IdleErased' /\ NumbersFresh'
           /\ Active' = Active \ {s} /\ ready' \subseteq requests'
           /\ pc'[s] = "idle" /\ \A t \in Senders \ {s} : pc'[t] = pc[t]
<1> USE DispatcherAssumption DEF IInv
<1>1. /\ s \in Senders /\ pc'[s] = "idle" /\ cv'[s] = NoCV
      /\ \A t \in Senders \ {s} : pc'[t] = pc[t] /\ cv'[t] = cv[t]
  BY DEF Unregister, TypeOK, Active
<1>2. Active' = Active \ {s}
  BY <1>1 DEF Active
<1>3. PoolExact'
  <2>1. cvs' = CVs \ {cv'[t] : t \in Active'}
    BY <1>1, <1>2 DEF PoolExact, Unregister, ReadyHasAnswer, Active
  <2>2. requests' = {num'[t] : t \in Active'}
    BY <1>2 DEF PoolExact, Unregister
  <2>3. \A t, u \in Active' : t # u => cv'[t] # cv'[u] /\ num'[t] # num'[u]
    BY <1>1, <1>2 DEF PoolExact, Active
  <2> QED  BY <2>1, <2>2, <2>3 DEF PoolExact
<1>4. ReadyHasAnswer' /\ IdleErased' /\ NumbersFresh'
  BY <1>1, <1>2 DEF ReadyHasAnswer, IdleErased, NumbersFresh, Unregister, Active, NoNumber
<1>5. ready' \subseteq requests'
  BY DEF Unregister, TypeOK
<1> QED  BY <1>1, <1>2, <1>3, <1>4, <1>5

(* A step of one sender that moves it inside its call changes neither the pool *)
(* nor the map.                                                                *)
LEMMA MoveInv ==
    ASSUME IInv, NEW s \in Active, NEW p \in {"check", "enter", "wait", "finish"},
           pc' = [pc EXCEPT ![s] = p], UNCHANGED <<id, cvs, requests, ready, num, cv, resp>>
    PROVE  PoolExact' /\ ReadyHasAnswer' /\ IdleErased' /\ NumbersFresh' /\ Active' = Active
<1> USE DEF IInv
<1>1. Active' = Active
  BY DEF Active, TypeOK
<1> QED  BY <1>1 DEF PoolExact, ReadyHasAnswer, IdleErased, NumbersFresh, NoNumber

(* mdv_dispatcher_send, first part: the number is fresh. *)
LEMMA RegisterInv ==
    ASSUME IInv, NEW s \in Senders, Register(s)
    PROVE  IInv'
<1> USE DispatcherAssumption DEF IInv
<1>1. CASE cvs = {} /\ crashed' = TRUE /\ UNCHANGED <<cvs, requests, pc, num, cv, err, resp>>
  <2>1. Active' = Active
    BY <1>1 DEF Active
  <2>2. id \in Nat /\ id' = id + 1 /\ id < MaxRequests /\ UNCHANGED <<ready, open, asked, answers>>
    BY DEF Register, TypeOK
  <2>3. NumbersFresh'
    BY <1>1, <2>2 DEF NumbersFresh, TypeOK, NoNumber, Numbers
  <2>4. TypeOK'
    BY <1>1, <2>2 DEF TypeOK, NoNumber, Numbers
  <2> QED
    BY <1>1, <2>1, <2>2, <2>3, <2>4 DEF PoolExact, ReadyHasAnswer, IdleErased, OkHasAnswer, NoNumber
<1>2. CASE ~(cvs = {} /\ crashed' = TRUE /\ UNCHANGED <<cvs, requests, pc, num, cv, err, resp>>)
  <2>1. PICK c \in cvs : cvs' = cvs \ {c} /\ cv' = [cv EXCEPT ![s] = c]
    BY <1>2 DEF Register
  <2>2. /\ requests' = requests \cup {id} /\ num' = [num EXCEPT ![s] = id]
        /\ err' = [err EXCEPT ![s] = "MDV_OK"] /\ resp' = [resp EXCEPT ![s] = NoNumber]
        /\ pc' = [pc EXCEPT ![s] = "write"] /\ crashed' = crashed
    BY <1>2 DEF Register
  <2>3. /\ pc[s] = "idle" /\ id \in Nat /\ id' = id + 1 /\ id < MaxRequests /\ id \in Numbers
        /\ UNCHANGED <<ready, open, asked, answers>>
    BY DEF Register, TypeOK, Numbers
  <2>4. s \notin Active /\ Active' = Active \cup {s}
    BY <2>2, <2>3 DEF Active, TypeOK
  <2>5. \A t \in Senders : num[t] # id
    BY <2>3 DEF NumbersFresh, NoNumber
  <2>6. TypeOK'
    <3>1. open' \in BOOLEAN /\ crashed' \in BOOLEAN
      BY <2>2, <2>3 DEF TypeOK
    <3>2. pc' \in [Senders -> {"idle", "write", "check", "enter", "wait", "finish"}]
      BY <2>2 DEF TypeOK
    <3>3. err' \in [Senders -> {"none", "MDV_OK", "MDV_FAILED", "MDV_ETIMEDOUT"}]
      BY <2>2 DEF TypeOK
    <3>4. num' \in [Senders -> Numbers \cup {NoNumber}] /\ resp' \in [Senders -> Numbers \cup {NoNumber}]
      BY <2>2, <2>3 DEF TypeOK, NoNumber, Numbers
    <3>5. cvs' \subseteq CVs /\ cv' \in [Senders -> CVs \cup {NoCV}]
      BY <2>1 DEF TypeOK
    <3>6. id' \in 0..MaxRequests /\ requests' \subseteq Numbers /\ ready' \subseteq requests'
      BY <2>2, <2>3 DEF TypeOK, Numbers
    <3> QED  BY <2>3, <3>1, <3>2, <3>3, <3>4, <3>5, <3>6 DEF TypeOK, NoNumber, Numbers
  <2>7. /\ cv'[s] = c /\ num'[s] = id /\ resp'[s] = NoNumber
        /\ \A t \in Senders \ {s} : cv'[t] = cv[t] /\ num'[t] = num[t] /\ resp'[t] = resp[t]
    BY <2>1, <2>2 DEF TypeOK
  <2>8. PoolExact'
    <3>1. cvs' = CVs \ {cv'[t] : t \in Active'}
      BY <2>1, <2>4, <2>7 DEF PoolExact, Active
    <3>2. requests' = {num'[t] : t \in Active'}
      BY <2>2, <2>4, <2>7 DEF PoolExact, Active
    <3>3. \A t, u \in Active' : t # u => cv'[t] # cv'[u] /\ num'[t] # num'[u]
      BY <2>1, <2>4, <2>5, <2>7 DEF PoolExact, Active
    <3> QED  BY <3>1, <3>2, <3>3 DEF PoolExact
  <2>9. NumbersFresh'
    BY <2>3, <2>7 DEF NumbersFresh, TypeOK, NoNumber, Numbers
  <2>10. id \notin ready
    BY <2>4, <2>5 DEF TypeOK, PoolExact, Active
  <2>11. ReadyHasAnswer'
    BY <2>1, <2>3, <2>4, <2>7, <2>10 DEF ReadyHasAnswer, TypeOK, Active
  <2>12. IdleErased'
    BY <2>2, <2>4, <2>5, <2>7 DEF IdleErased
  <2>13. OkHasAnswer'
    BY <2>2, <2>7 DEF OkHasAnswer, TypeOK
  <2> QED  BY <2>6, <2>8, <2>9, <2>11, <2>12, <2>13
<1> QED  BY <1>1, <1>2

(* A step of the network alone: the dispatcher does not notice. *)
LEMMA NetworkInv ==
    ASSUME IInv, UNCHANGED <<id, cvs, requests, ready, crashed, pc, num, cv, err, resp>>,
           open' \in BOOLEAN, asked' \subseteq Numbers, answers' \subseteq Numbers
    PROVE  IInv'
<1> USE DEF IInv
<1>1. Active' = Active
  BY DEF Active
<1>2. crashed' \in BOOLEAN
  BY DEF TypeOK
<1>3. TypeOK'
  BY <1>2 DEF TypeOK, Numbers, NoNumber
<1> QED  BY <1>1, <1>3 DEF PoolExact, NumbersFresh, ReadyHasAnswer, IdleErased, OkHasAnswer, NoNumber

(* The write, and the ways out of the wait. *)
LEMMA SenderInv ==
    ASSUME IInv, NEW s \in Senders, Step(s)
    PROVE  IInv'
<1> USE DispatcherAssumption DEF IInv
<1>0. s \in Active
  BY DEF Step, WriteRequest, CheckReady, EnterWait, Timeout, Finish, Active
<1>1. CASE WriteRequest(s)
  <2>1. CASE open /\ pc' = [pc EXCEPT ![s] = "check"] /\ UNCHANGED <<cvs, requests, ready, cv, err>>
    <3>1. asked' \subseteq Numbers
      BY <1>0, <1>1 DEF WriteRequest, TypeOK, PoolExact, Disconnect
    <3>2. PoolExact' /\ ReadyHasAnswer' /\ IdleErased' /\ NumbersFresh' /\ Active' = Active
      BY <1>0, <1>1, <2>1, MoveInv DEF WriteRequest
    <3>3. TypeOK'
      BY <1>1, <2>1, <3>1 DEF WriteRequest, TypeOK, Numbers, NoNumber
    <3>4. OkHasAnswer'
      BY <1>1, <2>1 DEF WriteRequest, TypeOK, OkHasAnswer
    <3> QED  BY <3>2, <3>3, <3>4
  <2>2. CASE err' = [err EXCEPT ![s] = "MDV_FAILED"] /\ Unregister(s) /\ asked' = asked
    <3>1. /\ PoolExact' /\ ReadyHasAnswer' /\ IdleErased' /\ NumbersFresh'
          /\ ready' \subseteq requests' /\ pc'[s] = "idle" /\ \A t \in Senders \ {s} : pc'[t] = pc[t]
      BY <1>0, <1>1, <2>2, UnregisterInv DEF WriteRequest
    <3>2. TypeOK'
      BY <1>0, <1>1, <2>2, <3>1 DEF WriteRequest, TypeOK, Unregister, ReadyHasAnswer, Numbers, NoNumber
    <3>3. OkHasAnswer'
      BY <1>1, <2>2, <3>1 DEF WriteRequest, TypeOK, OkHasAnswer
    <3> QED  BY <3>1, <3>2, <3>3
  <2> QED  BY <1>1, <2>1, <2>2 DEF WriteRequest
<1>2. CASE CheckReady(s)
  <2>1. PICK p \in {"finish", "enter"} : pc' = [pc EXCEPT ![s] = p]
    BY <1>2 DEF CheckReady
  <2>2. PoolExact' /\ ReadyHasAnswer' /\ IdleErased' /\ NumbersFresh'
    BY <1>0, <1>2, <2>1, MoveInv DEF CheckReady
  <2>3. TypeOK' /\ OkHasAnswer'
    BY <1>2, <2>1 DEF CheckReady, TypeOK, OkHasAnswer, Numbers, NoNumber
  <2> QED  BY <2>2, <2>3
<1>3. CASE EnterWait(s)
  <2>1. PoolExact' /\ ReadyHasAnswer' /\ IdleErased' /\ NumbersFresh'
    BY <1>0, <1>3, MoveInv DEF EnterWait
  <2>2. TypeOK' /\ OkHasAnswer'
    BY <1>3 DEF EnterWait, TypeOK, OkHasAnswer, Numbers, NoNumber
  <2> QED  BY <2>1, <2>2
<1>4. CASE Timeout(s)
  <2>1. PoolExact' /\ ReadyHasAnswer' /\ IdleErased' /\ NumbersFresh'
    BY <1>0, <1>4, MoveInv DEF Timeout
  <2>2. TypeOK' /\ OkHasAnswer'
    BY <1>4 DEF Timeout, TypeOK, OkHasAnswer, Numbers, NoNumber
  <2> QED  BY <2>1, <2>2
<1>5. CASE Finish(s)
  <2>1. /\ PoolExact' /\ ReadyHasAnswer' /\ IdleErased' /\ NumbersFresh'
        /\ ready' \subseteq requests' /\ pc'[s] = "idle" /\ \A t \in Senders \ {s} : pc'[t] = pc[t]
    BY <1>0, <1>5, UnregisterInv DEF Finish
  <2>2. TypeOK'
    BY <1>0, <1>5, <2>1 DEF Finish, TypeOK, Unregister, ReadyHasAnswer, Numbers, NoNumber
  <2>3. OkHasAnswer'
    <3>1. \A t \in Senders \ {s} : err'[t] = err[t]
      BY <1>5 DEF Finish, TypeOK
    <3>2. err'[s] = "MDV_OK" => resp[s] = num[s]
      BY <1>0, <1>5 DEF Finish, TypeOK, ReadyHasAnswer
    <3> QED  BY <1>5, <2>1, <3>1, <3>2 DEF Finish, OkHasAnswer
  <2> QED  BY <2>1, <2>2, <2>3
<1> QED  BY <1>1, <1>2, <1>3, <1>4, <1>5 DEF Step

(* The answer goes to the one call that waits for it. *)
LEMMA ReadInv ==
    ASSUME IInv, NEW m \in answers, Read(m)
    PROVE  IInv'
<1> USE DispatcherAssumption DEF IInv
<1>1. ASSUME NEW s \in Senders, m \in requests, num[s] = m,
             resp' = [resp EXCEPT ![s] = m], ready' = ready \cup {m},
             pc' = IF pc[s] = "wait" THEN [pc EXCEPT ![s] = "check"] ELSE pc,
             answers' = answers \ {m}, UNCHANGED <<open, asked>>
      PROVE  IInv'
  <2>1. s \in Active /\ Active' = Active /\ UNCHANGED <<id, cvs, requests, crashed, num, cv, err>>
    BY <1>1 DEF Read, IdleErased, Active, TypeOK
  <2>2. TypeOK'
    BY <1>1, <2>1 DEF TypeOK, Numbers, NoNumber
  <2>3. PoolExact' /\ NumbersFresh' /\ IdleErased'
    BY <2>1 DEF PoolExact, NumbersFresh, IdleErased, NoNumber
  <2>4. resp'[s] = num[s] /\ \A t \in Senders \ {s} : resp'[t] = resp[t] /\ pc'[t] = pc[t]
    BY <1>1 DEF TypeOK
  <2>5. ReadyHasAnswer'
    BY <1>1, <2>1, <2>4 DEF ReadyHasAnswer, PoolExact, Active
  <2>6. OkHasAnswer'
    BY <1>1, <2>1, <2>4 DEF OkHasAnswer, Active
  <2> QED  BY <2>2, <2>3, <2>5, <2>6
<1>2. CASE m \notin requests /\ Disconnect /\ UNCHANGED <<resp, ready, pc>>
  BY <1>2, NetworkInv DEF Read, Disconnect
<1> QED  BY <1>1, <1>2 DEF Read

(* Every step keeps the invariant. *)
LEMMA StepInv == IInv /\ [Next]_vars => IInv'
<1> SUFFICES ASSUME IInv, [Next]_vars PROVE IInv'
  OBVIOUS
<1>1. ASSUME NEW s \in Senders, Register(s) PROVE IInv'
  BY <1>1, RegisterInv
<1>2. ASSUME NEW s \in Senders, Step(s) PROVE IInv'
  BY <1>2, SenderInv
<1>3. ASSUME NEW m \in asked, Answer(m) PROVE IInv'
  <2>1. open' \in BOOLEAN
    BY <1>3 DEF Answer, IInv, TypeOK
  <2>2. asked' \subseteq Numbers /\ answers' \subseteq Numbers
    BY <1>3 DEF Answer, IInv, TypeOK
  <2> QED  BY <1>3, <2>1, <2>2, NetworkInv DEF Answer
<1>4. ASSUME NEW m \in answers, Read(m) PROVE IInv'
  BY <1>4, ReadInv
<1>5. CASE Close
  BY <1>5, NetworkInv DEF Close, Disconnect
<1>6. CASE UNCHANGED vars
  <2>1. open' \in BOOLEAN
    BY <1>6 DEF vars, IInv, TypeOK
  <2>2. asked' \subseteq Numbers /\ answers' \subseteq Numbers
    BY <1>6 DEF vars, IInv, TypeOK
  <2> QED  BY <1>6, <2>1, <2>2, NetworkInv DEF vars
<1> QED  BY <1>1, <1>2, <1>3, <1>4, <1>5, <1>6 DEF Next

(* The invariant holds in every reachable state. *)
LEMMA InvHolds == Spec => []IInv
BY InitInv, StepInv, PTL DEF Spec

(* Type correctness of the dispatcher. *)
THEOREM DispatcherTypeOK == Spec => []TypeOK
<1>1. IInv => TypeOK
  BY DEF IInv
<1> QED  BY InvHolds, <1>1, PTL

(* No condition variable is lost or given to two calls, and no entry of the   *)
(* map outlives its call, whichever way the calls end.                        *)
THEOREM DispatcherPoolExact == Spec => []PoolExact
<1>1. IInv => PoolExact
  BY DEF IInv
<1> QED  BY InvHolds, <1>1, PTL

(* mdv_dispatcher_send returns MDV_OK only with the answer to its own request. *)
THEOREM DispatcherOkHasAnswer == Spec => []OkHasAnswer
<1>1. IInv => OkHasAnswer
  BY DEF IInv
<1> QED  BY InvHolds, <1>1, PTL

(* mdv_dispatcher_read never writes into the buffer of a call that has *)
(* returned, nor an answer into the buffer of another call.            *)
THEOREM DispatcherNoLateWrite == Spec => NoLateWrite
<1>1. ASSUME IInv, [Next]_vars, NEW s \in Senders, resp'[s] \notin {resp[s], NoNumber}
      PROVE  s \in Active /\ resp'[s] = num[s]
  <2>1. PICK m \in answers : Read(m)
    <3>1. ASSUME NEW t \in Senders, Register(t) PROVE FALSE
      BY <1>1, <3>1 DEF Register, IInv, TypeOK
    <3> QED  BY <1>1, <3>1 DEF Next, vars, Step, WriteRequest, CheckReady, EnterWait, Timeout,
                              Finish, Answer, Close
  <2>2. PICK t \in Senders : m \in requests /\ num[t] = m /\ resp' = [resp EXCEPT ![t] = m]
    BY <1>1, <2>1 DEF Read
  <2>3. s = t /\ resp'[s] = num[s]
    BY <1>1, <2>2 DEF IInv, TypeOK
  <2> QED  BY <1>1, <2>2, <2>3 DEF IInv, IdleErased
<1>2. IInv /\ [Next]_vars => [\A s \in Senders : resp'[s] \notin {resp[s], NoNumber} =>
                                   s \in Active /\ resp'[s] = num[s]]_vars
  BY <1>1
<1> QED  BY InvHolds, <1>2, PTL DEF Spec, NoLateWrite
=============================================================================
