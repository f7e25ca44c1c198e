-------------------------- MODULE Supervisor_proofs --------------------------
(***************************************************************************)
(* Proofs about the memory store and the shutdown that closes it, for any   *)
(* number of threads that may hold its lock, wait for it or come late.      *)
(***************************************************************************)
EXTENDS Supervisor, TLAPS

-----------------------------------------------------------------------------
(* The store. *)

Inside == {"holding", "found", "running"}

StoreTypeOK ==
  /\ made \in Nat
  /\ conn \in 1..made \cup {None}
  /\ closing \in 1..made \cup {None}
  /\ call \in [Callers -> Progress]
  /\ using \in [Callers -> Nat \cup {None}]
  /\ holder \in Callers \cup {None}
  /\ closer \in {"idle", "waiting", "done"}

(* The lock is held by the one caller that is inside. *)
LockHeld == \A c \in Callers : holder = c <=> call[c] \in Inside

(* A connection is open while self._conn or close() refers to it, and never  *)
(* do both: what close() took is not what a late caller finds or makes.     *)
OpenIsKnown ==
  /\ opened = {conn, closing} \ {None}
  /\ conn = closing => conn = None
  /\ closer = "waiting" <=> closing # None

StoreInv == StoreTypeOK /\ LockHeld /\ OpenIsKnown /\ NoUseAfterClose

(* What the supervisor may do to the store: a call, a step of a thread,      *)
(* close(), or the end of the calls no thread has begun.                   *)
CallsAbandoned ==
  /\ call' = Abandoned
  /\ UNCHANGED <<conn, made, opened, using, holder, closer, closing>>

StoreNext ==
  \/ \E c \in Callers : Submit(c)
  \/ Threads \/ Close \/ CallsAbandoned

LEMMA NoneApart == None \notin Callers /\ None \notin Nat /\ Loop \in Callers
  BY StoreAssumption DEF StoreAssumption

LEMMA StoreInitInv == StoreInit => StoreInv
<1> SUFFICES ASSUME StoreInit PROVE StoreInv
  OBVIOUS
<1>1. StoreTypeOK
  BY DEF StoreInit, StoreTypeOK, Progress
<1>2. LockHeld
  BY NoneApart DEF StoreInit, LockHeld, Inside
<1>3. OpenIsKnown
  BY NoneApart DEF StoreInit, OpenIsKnown
<1>4. NoUseAfterClose
  BY DEF StoreInit, NoUseAfterClose
<1>5. QED
  BY <1>1, <1>2, <1>3, <1>4 DEF StoreInv

(* A caller that moves without entering or leaving the lock. *)
LEMMA MovesOutside ==
  ASSUME StoreInv, NEW c \in Callers, call[c] \notin Inside,
         NEW to \in Progress \ Inside, call' = [call EXCEPT ![c] = to],
         UNCHANGED <<conn, made, opened, using, holder, closer, closing>>
  PROVE  StoreInv'
<1>1. StoreTypeOK'
  BY DEF StoreInv, StoreTypeOK
<1>2. LockHeld'
  BY DEF StoreInv, StoreTypeOK, LockHeld
<1>3. OpenIsKnown'
  BY DEF StoreInv, OpenIsKnown
<1>4. NoUseAfterClose'
  BY DEF StoreInv, StoreTypeOK, NoUseAfterClose, Inside
<1>5. QED
  BY <1>1, <1>2, <1>3, <1>4 DEF StoreInv

LEMMA SubmitInv == ASSUME StoreInv, NEW c \in Callers, Submit(c) PROVE StoreInv'
<1>1. call[c] \notin Inside /\ {"waiting", "queued"} \subseteq Progress \ Inside
  BY DEF Submit, Inside, Progress
<1>2. QED
  BY <1>1, MovesOutside DEF Submit

LEMMA StartThreadInv == ASSUME StoreInv, NEW c \in Callers, StartThread(c) PROVE StoreInv'
<1>1. call[c] \notin Inside /\ "waiting" \in Progress \ Inside
  BY DEF StartThread, Inside, Progress
<1>2. QED
  BY <1>1, MovesOutside DEF StartThread

LEMMA AbandonedInv == StoreInv /\ CallsAbandoned => StoreInv'
<1> SUFFICES ASSUME StoreInv, CallsAbandoned PROVE StoreInv'
  OBVIOUS
<1>1. \A c \in Callers : call'[c] = call[c] \/ (call[c] = "queued" /\ call'[c] = "idle")
  BY DEF CallsAbandoned, Abandoned
<1>2. call' \in [Callers -> Progress]
  BY DEF CallsAbandoned, Abandoned, StoreInv, StoreTypeOK, Progress
<1>3. StoreTypeOK'
  BY <1>2 DEF CallsAbandoned, StoreInv, StoreTypeOK
<1>4. LockHeld'
  BY <1>1 DEF CallsAbandoned, StoreInv, LockHeld, Inside
<1>5. OpenIsKnown'
  BY DEF CallsAbandoned, StoreInv, OpenIsKnown
<1>6. NoUseAfterClose'
  BY <1>1 DEF CallsAbandoned, StoreInv, NoUseAfterClose
<1>7. QED
  BY <1>3, <1>4, <1>5, <1>6 DEF StoreInv

LEMMA AcquireInv == ASSUME StoreInv, NEW c \in Callers, Acquire(c) PROVE StoreInv'
<1>1. StoreTypeOK'
  BY DEF Acquire, StoreInv, StoreTypeOK, Progress
<1>2. LockHeld'
  BY NoneApart DEF Acquire, StoreInv, StoreTypeOK, LockHeld, Inside
<1>3. OpenIsKnown'
  BY DEF Acquire, StoreInv, OpenIsKnown
<1>4. NoUseAfterClose'
  BY DEF Acquire, StoreInv, StoreTypeOK, NoUseAfterClose
<1>5. QED
  BY <1>1, <1>2, <1>3, <1>4 DEF StoreInv

(* Whoever is inside is alone there. *)
LEMMA AloneInside ==
  ASSUME LockHeld, NEW c \in Callers, call[c] \in Inside
  PROVE  holder = c /\ \A d \in Callers \ {c} : call[d] \notin Inside
  BY DEF LockHeld

LEMMA EnsureConnInv == ASSUME StoreInv, NEW c \in Callers, EnsureConn(c) PROVE StoreInv'
<1>1. call[c] \in Inside /\ call' = [call EXCEPT ![c] = "found"] /\ call \in [Callers -> Progress]
  BY DEF EnsureConn, Inside, StoreInv, StoreTypeOK
<1>2. \A d \in Callers \ {c} : call[d] \notin Inside
  BY <1>1, AloneInside DEF StoreInv
<1>3. UNCHANGED <<using, holder, closer, closing>>
  BY DEF EnsureConn
<1>4. LockHeld'
  BY <1>1, <1>3 DEF StoreInv, LockHeld, Inside
<1>5. NoUseAfterClose'
  BY <1>1, <1>2 DEF NoUseAfterClose, Inside
<1>6. CASE conn # None /\ UNCHANGED <<conn, made, opened>>
  BY <1>1, <1>3, <1>4, <1>5, <1>6 DEF StoreInv, StoreTypeOK, OpenIsKnown, Progress
<1>7. CASE conn = None /\ made' = made + 1 /\ conn' = made' /\ opened' = opened \cup {made'}
  <2>1. made \in Nat /\ closing \in 1..made \cup {None} /\ made + 1 \in Nat
    BY DEF StoreInv, StoreTypeOK
  <2>2. conn' = made + 1 /\ conn' \in 1..made' /\ closing \in 1..made' \cup {None}
    BY <1>7, <2>1
  <2>3. StoreTypeOK'
    BY <1>1, <1>3, <1>7, <2>1, <2>2 DEF StoreInv, StoreTypeOK, Progress
  <2>4. made + 1 # closing /\ made + 1 # None
    BY <2>1, NoneApart
  <2>5. OpenIsKnown'
    BY <1>3, <1>7, <2>2, <2>4 DEF StoreInv, OpenIsKnown
  <2>6. QED
    BY <1>4, <1>5, <2>3, <2>5 DEF StoreInv
<1>8. QED
  BY <1>6, <1>7 DEF EnsureConn

LEMMA ReturnConnInv == ASSUME StoreInv, NEW c \in Callers, ReturnConn(c) PROVE StoreInv'
<1>1. call[c] \in Inside /\ UNCHANGED <<conn, made, opened, closer, closing>>
  BY DEF ReturnConn, Inside
<1>2. holder = c /\ \A d \in Callers \ {c} : call[d] \notin Inside
  BY <1>1, AloneInside DEF StoreInv
<1>3. OpenIsKnown'
  BY <1>1 DEF StoreInv, OpenIsKnown
<1>4. CASE conn # None
  <2>1. /\ using' = [using EXCEPT ![c] = conn] /\ call' = [call EXCEPT ![c] = "running"]
        /\ UNCHANGED holder
    BY <1>4 DEF ReturnConn
  <2>2. conn \in Nat /\ conn \in opened
    BY <1>4 DEF StoreInv, StoreTypeOK, OpenIsKnown
  <2>3. StoreTypeOK'
    BY <1>1, <2>1, <2>2 DEF StoreInv, StoreTypeOK, Progress
  <2>4. LockHeld'
    BY <1>1, <2>1 DEF StoreInv, StoreTypeOK, LockHeld, Inside
  <2>5. NoUseAfterClose'
    BY <1>1, <1>2, <2>1, <2>2 DEF StoreInv, StoreTypeOK, NoUseAfterClose, Inside
  <2>6. QED
    BY <1>3, <2>3, <2>4, <2>5 DEF StoreInv
<1>5. CASE conn = None
  <2>1. /\ call' = [call EXCEPT ![c] = "idle"] /\ holder' = None /\ UNCHANGED using
    BY <1>5 DEF ReturnConn
  <2>2. StoreTypeOK'
    BY <1>1, <2>1 DEF StoreInv, StoreTypeOK, Progress
  <2>3. LockHeld'
    BY <1>2, <2>1, NoneApart DEF StoreInv, StoreTypeOK, LockHeld, Inside
  <2>4. NoUseAfterClose'
    BY <1>2, <2>1 DEF StoreInv, StoreTypeOK, NoUseAfterClose, Inside
  <2>5. QED
    BY <1>3, <2>2, <2>3, <2>4 DEF StoreInv
<1>6. QED
  BY <1>4, <1>5

LEMMA FinishInv == ASSUME StoreInv, NEW c \in Callers, Finish(c) PROVE StoreInv'
<1>1. /\ call[c] \in Inside /\ call' = [call EXCEPT ![c] = "idle"]
      /\ using' = [using EXCEPT ![c] = None] /\ holder' = None
      /\ UNCHANGED <<conn, made, opened, closer, closing>>
  BY DEF Finish, Inside
<1>2. holder = c /\ \A d \in Callers \ {c} : call[d] \notin Inside
  BY <1>1, AloneInside DEF StoreInv
<1>3. StoreTypeOK'
  BY <1>1 DEF StoreInv, StoreTypeOK, Progress
<1>4. LockHeld'
  BY <1>1, <1>2, NoneApart DEF StoreInv, StoreTypeOK, LockHeld, Inside
<1>5. OpenIsKnown'
  BY <1>1 DEF StoreInv, OpenIsKnown
<1>6. NoUseAfterClose'
  BY <1>1, <1>2 DEF StoreInv, StoreTypeOK, NoUseAfterClose, Inside
<1>7. QED
  BY <1>3, <1>4, <1>5, <1>6 DEF StoreInv

(* close() takes the connection away, but it stays open for whoever works   *)
(* on it...                                                                *)
LEMMA CloseInv == StoreInv /\ Close => StoreInv'
<1> SUFFICES ASSUME StoreInv, Close PROVE StoreInv'
  OBVIOUS
<1>1. closing = None
  BY DEF Close, StoreInv, StoreTypeOK, OpenIsKnown
<1>2. StoreTypeOK'
  BY DEF Close, StoreInv, StoreTypeOK
<1>3. LockHeld'
  BY DEF Close, StoreInv, LockHeld
<1>4. OpenIsKnown'
  BY <1>1 DEF Close, StoreInv, OpenIsKnown
<1>5. NoUseAfterClose'
  BY DEF Close, StoreInv, NoUseAfterClose
<1>6. QED
  BY <1>2, <1>3, <1>4, <1>5 DEF StoreInv

(* ... until the lock is free, and then nobody does. *)
LEMMA CloseConnInv == StoreInv /\ CloseConn => StoreInv'
<1> SUFFICES ASSUME StoreInv, CloseConn PROVE StoreInv'
  OBVIOUS
<1>1. \A c \in Callers : call[c] \notin Inside
  BY NoneApart DEF CloseConn, StoreInv, LockHeld
<1>2. StoreTypeOK'
  BY DEF CloseConn, StoreInv, StoreTypeOK
<1>3. LockHeld'
  BY DEF CloseConn, StoreInv, LockHeld
<1>4. OpenIsKnown'
  BY DEF CloseConn, StoreInv, OpenIsKnown
<1>5. NoUseAfterClose'
  BY <1>1 DEF CloseConn, NoUseAfterClose, Inside
<1>6. QED
  BY <1>2, <1>3, <1>4, <1>5 DEF StoreInv

LEMMA StoreStep == StoreInv /\ [StoreNext]_storeVars => StoreInv'
<1> SUFFICES ASSUME StoreInv, [StoreNext]_storeVars PROVE StoreInv'
  OBVIOUS
<1>1. CASE Threads
  BY <1>1, StartThreadInv, AcquireInv, EnsureConnInv, ReturnConnInv, FinishInv, CloseConnInv
     DEF Threads
<1>2. CASE UNCHANGED storeVars
  BY <1>2 DEF storeVars, StoreInv, StoreTypeOK, LockHeld, OpenIsKnown, NoUseAfterClose
<1>3. QED
  BY <1>1, <1>2, SubmitInv, CloseInv, AbandonedInv DEF StoreNext
-----------------------------------------------------------------------------
(* The supervisor as the store sees it. *)

LEMMA NextIsStoreNext == [Next]_vars => [StoreNext]_storeVars
<1> SUFFICES ASSUME [Next]_vars PROVE [StoreNext]_storeVars
  OBVIOUS
<1>1. CASE Bootstrap
  BY <1>1 DEF Bootstrap, Wakes, Awaited, ClosesStore, Exits, StoreNext
<1>2. CASE Runtime
  BY <1>2 DEF Runtime, HandlerStarts, HandlerCalls, HandlerCallsNoMore, HandlerEnds,
              RuntimeReturns, RuntimeRaises, RuntimeCancelled, CallsAbandoned, StoreNext
<1>3. CASE Server
  BY <1>3 DEF Server, ServerReturns, ServerRaises, ServerExits
<1>4. CASE Signal
  BY <1>4 DEF Signal
<1>5. CASE Threads
  BY <1>5 DEF StoreNext
<1>6. CASE UNCHANGED vars
  BY <1>6 DEF vars
<1>7. QED
  BY <1>1, <1>2, <1>3, <1>4, <1>5, <1>6 DEF Next

LEMMA StoreInvHolds == Spec => []StoreInv
<1>1. Init => StoreInv
  BY StoreInitInv DEF Init
<1>2. StoreInv /\ [Next]_vars => StoreInv'
  BY NextIsStoreNext, StoreStep
<1>3. QED
  BY <1>1, <1>2, PTL DEF Spec

(* However many threads outlive the calls that started them, and however     *)
(* close() falls between their steps, none runs on a closed connection.     *)
THEOREM NoUseAfterCloseHolds == Spec => []NoUseAfterClose
<1>1. StoreInv => NoUseAfterClose
  BY DEF StoreInv
<1>2. QED
  BY <1>1, StoreInvHolds, PTL

-----------------------------------------------------------------------------
(* The shutdown. *)

BootTypeOK ==
  /\ phase \in {"waiting", "awaiting", "closing", "exited"}
  /\ runtime \in {"sleeping", "stepping", "gathering", "cancelling"} \cup Over
  /\ server \in {"serving"} \cup Over
  /\ signalled \in BOOLEAN /\ stopping \in BOOLEAN /\ torn \in BOOLEAN
  /\ failed \subseteq {"runtime", "server"}
  /\ exit \in {None, 0, 1}

(* What is true of a shutdown nobody tears down: a step that ended left no   *)
(* call behind, the store is closed after the last step, and nobody         *)
(* connects again.                                                         *)
Orderly ==
  /\ runtime # "cancelling"
  /\ runtime \notin {"stepping", "gathering"} => Unfinished = {}
  /\ phase \in {"closing", "exited"} => runtime \in Over
  /\ closer # "idle" => conn = None

ShutdownInv ==
  /\ BootTypeOK
  /\ closer # "idle" => phase \in {"closing", "exited"}
  /\ phase = "exited" => closer = "done"
  /\ phase # "exited" => exit = None
  /\ phase = "waiting" => failed = {}
  /\ ~torn => Orderly

LEMMA InitShutdown == Init => ShutdownInv
  BY DEF Init, StoreInit, ShutdownInv, BootTypeOK, Orderly, Over, Unfinished

LEMMA BootstrapShutdown == ShutdownInv /\ Bootstrap => ShutdownInv'
<1> SUFFICES ASSUME ShutdownInv, Bootstrap PROVE ShutdownInv'
  OBVIOUS
<1>1. CASE Wakes
  BY <1>1 DEF Wakes, Woken, Raised, ShutdownInv, BootTypeOK, Orderly, Unfinished, storeVars
<1>2. CASE Awaited
  BY <1>2 DEF Awaited, BothAwaited, ShutdownInv, BootTypeOK, Orderly, Unfinished, storeVars
<1>3. CASE ClosesStore
  BY <1>3 DEF ClosesStore, Close, ShutdownInv, BootTypeOK, Orderly, Unfinished, bootVars
<1>4. CASE Exits
  BY <1>4 DEF Exits, ShutdownInv, BootTypeOK, Orderly, Unfinished, storeVars
<1>5. QED
  BY <1>1, <1>2, <1>3, <1>4 DEF Bootstrap

LEMMA RuntimeShutdown == ShutdownInv /\ Runtime => ShutdownInv'
<1> SUFFICES ASSUME ShutdownInv, Runtime PROVE ShutdownInv'
  OBVIOUS
<1>1. CASE HandlerStarts \/ HandlerCallsNoMore
  BY <1>1 DEF HandlerStarts, HandlerCallsNoMore, ShutdownInv, BootTypeOK, Orderly, Unfinished,
              Over, storeVars, bootVars
<1>2. ASSUME NEW c \in Callers, HandlerCalls(c) PROVE ShutdownInv'
  BY <1>2 DEF HandlerCalls, Submit, ShutdownInv, BootTypeOK, Orderly, Over, bootVars
<1>3. CASE HandlerEnds
  BY <1>3 DEF HandlerEnds, ShutdownInv, BootTypeOK, Orderly, Unfinished, Over, storeVars, bootVars
<1>4. CASE RuntimeReturns \/ RuntimeRaises
  BY <1>4 DEF RuntimeReturns, RuntimeRaises, ShutdownInv, BootTypeOK, Orderly, Unfinished, Over,
              storeVars, bootVars
<1>5. CASE RuntimeCancelled
  BY <1>5 DEF RuntimeCancelled, ShutdownInv, BootTypeOK, Orderly, Over, bootVars
<1>6. QED
  BY <1>1, <1>2, <1>3, <1>4, <1>5 DEF Runtime

LEMMA ServerShutdown == ShutdownInv /\ Server => ShutdownInv'
<1> SUFFICES ASSUME ShutdownInv, Server PROVE ShutdownInv'
  OBVIOUS
<1>1. CASE ServerReturns
  BY <1>1 DEF ServerReturns, ShutdownInv, BootTypeOK, Orderly, Unfinished, Over, storeVars, bootVars
<1>2. CASE ServerRaises
  BY <1>2 DEF ServerRaises, ShutdownInv, BootTypeOK, Orderly, Unfinished, Over, storeVars, bootVars
<1>3. CASE ServerExits
  BY <1>3 DEF ServerExits, ShutdownInv, BootTypeOK, Over, storeVars
<1>4. QED
  BY <1>1, <1>2, <1>3 DEF Server

(* No thread moves once every call is answered, so none connects again. *)
LEMMA ThreadsShutdown ==
  ASSUME StoreTypeOK, ShutdownInv, Threads, UNCHANGED <<bootVars, runtime, server>>
  PROVE  ShutdownInv'
<1>0. UNCHANGED <<phase, signalled, stopping, torn, failed, exit, runtime, server>>
  BY DEF bootVars
<1>1. BootTypeOK'
  BY <1>0 DEF ShutdownInv, BootTypeOK
<1>2. CASE CloseConn
  BY <1>0, <1>1, <1>2 DEF CloseConn, ShutdownInv, Orderly, Unfinished
<1>3. ASSUME NEW c \in Callers,
             StartThread(c) \/ Acquire(c) \/ EnsureConn(c) \/ ReturnConn(c) \/ Finish(c)
      PROVE  ShutdownInv'
  <2>1. c \in Unfinished /\ UNCHANGED closer
    BY <1>3 DEF StartThread, Acquire, EnsureConn, ReturnConn, Finish, Unfinished
  <2>2. ~torn => runtime \in {"stepping", "gathering"} /\ phase \in {"waiting", "awaiting"}
    BY <2>1 DEF ShutdownInv, BootTypeOK, Orderly, Over
  <2>3. QED
    BY <1>0, <1>1, <2>1, <2>2 DEF ShutdownInv, Orderly
<1>4. QED
  BY <1>2, <1>3 DEF Threads

LEMMA StepShutdown == StoreTypeOK /\ ShutdownInv /\ [Next]_vars => ShutdownInv'
<1> SUFFICES ASSUME StoreTypeOK, ShutdownInv, [Next]_vars PROVE ShutdownInv'
  OBVIOUS
<1>1. CASE Signal
  BY <1>1 DEF Signal, ShutdownInv, BootTypeOK, Orderly, Unfinished, storeVars
<1>2. CASE UNCHANGED vars
  BY <1>2 DEF vars, storeVars, bootVars, ShutdownInv, BootTypeOK, Orderly, Unfinished
<1>3. QED
  BY <1>1, <1>2, BootstrapShutdown, RuntimeShutdown, ServerShutdown, ThreadsShutdown DEF Next

LEMMA ShutdownInvHolds == Spec => [](StoreInv /\ ShutdownInv)
<1>1. StoreInv => StoreTypeOK
  BY DEF StoreInv
<1>2. QED
  BY <1>1, InitShutdown, StepShutdown, StoreInvHolds, PTL DEF Spec

(* The state of the process and of its store is well formed. *)
THEOREM TypeCorrect == Spec => [](StoreTypeOK /\ BootTypeOK)
<1>1. StoreInv /\ ShutdownInv => StoreTypeOK /\ BootTypeOK
  BY DEF StoreInv, ShutdownInv
<1>2. QED
  BY <1>1, ShutdownInvHolds, PTL

(* An orderly shutdown leaves no connection open, however many calls were    *)
(* under way when it began.                                                *)
THEOREM NothingLeftOpenHolds == Spec => []NothingLeftOpen
<1>1. StoreInv /\ ShutdownInv => NothingLeftOpen
  BY DEF StoreInv, OpenIsKnown, ShutdownInv, Orderly, NothingLeftOpen
<1>2. QED
  BY <1>1, ShutdownInvHolds, PTL

(* A failure is remembered from the wait that could see it to the exit.      *)
FailureSeen == phase = "waiting" /\ Raised # {}
Told == exit = None \/ exit = 1
Remembered == FailureSeen \/ failed # {} \/ torn

LEMMA FailureRemembered ==
  ASSUME ShutdownInv, Remembered /\ Told, [Next]_vars
  PROVE  (Remembered /\ Told)'
<1>1. CASE Bootstrap
  <2>1. CASE Wakes
    <3>1. phase = "waiting" /\ failed' = Raised /\ torn' = torn /\ exit' = exit
      BY <2>1 DEF Wakes, Woken
    <3>2. Raised # {} \/ torn
      BY <3>1 DEF ShutdownInv, Remembered, FailureSeen
    <3>3. QED
      BY <3>1, <3>2 DEF Remembered, Told
  <2>2. CASE Awaited
    BY <2>2 DEF Awaited, Remembered, FailureSeen, Told
  <2>3. CASE ClosesStore
    BY <2>3 DEF ClosesStore, Remembered, FailureSeen, Told, bootVars
  <2>4. CASE Exits
    BY <2>4 DEF Exits, Remembered, FailureSeen, Told
  <2>5. QED
    BY <1>1, <2>1, <2>2, <2>3, <2>4 DEF Bootstrap
<1>2. CASE Runtime
  <2>1. UNCHANGED <<bootVars, server>> /\ (runtime = "raised" => runtime' = "raised")
    BY <1>2 DEF Runtime, HandlerStarts, HandlerCalls, HandlerCallsNoMore, HandlerEnds,
                RuntimeReturns, RuntimeRaises, RuntimeCancelled
  <2>2. QED
    BY <2>1 DEF Remembered, FailureSeen, Told, Raised, bootVars
<1>3. CASE Server
  BY <1>3 DEF Server, ServerReturns, ServerRaises, ServerExits, Remembered, FailureSeen, Told,
              Raised, bootVars
<1>4. CASE Signal
  BY <1>4 DEF Signal, Remembered, FailureSeen, Told, Raised
<1>5. CASE UNCHANGED <<bootVars, runtime, server>> \/ UNCHANGED vars
  BY <1>5 DEF vars, bootVars, Remembered, FailureSeen, Told, Raised
<1>6. QED
  BY <1>1, <1>2, <1>3, <1>4, <1>5 DEF Next

(* The safety half of FailureTold: once the wait could see a failure, no     *)
(* interleaving of signals, cancellations and closing lets the process      *)
(* claim success.                                                          *)
THEOREM FailureNeverHidden == Spec => [](FailureSeen => []Told)
<1>1. ShutdownInv /\ FailureSeen => Remembered /\ Told
  BY DEF ShutdownInv, FailureSeen, Remembered, Told
<1>2. ShutdownInv /\ (Remembered /\ Told) /\ [Next]_vars => (Remembered /\ Told)'
  BY FailureRemembered
<1>3. QED
  BY <1>1, <1>2, ShutdownInvHolds, PTL DEF Spec
=============================================================================
