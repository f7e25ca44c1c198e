---------------------------- MODULE MemoryStore ----------------------------
(***************************************************************************)
(* The one SQLite connection of memory/store.py and the threads that use   *)
(* it: every async operation runs its body in a worker thread under a lock, *)
(* a synchronous one in the thread of the event loop, and close() takes the *)
(* connection away from whoever comes later.                               *)
(*                                                                         *)
(* Cancelling a call does not stop its thread.  What is read and written   *)
(* is left out: under the lock an operation is one transaction.            *)
(***************************************************************************)
EXTENDS Naturals

CONSTANTS Callers,           \* who may have an operation under way
          Loop,              \* ... of them, the thread of the event loop
          None

ASSUME StoreAssumption == Loop \in Callers /\ None \notin Callers \cup Nat

VARIABLES conn,              \* self._conn
          made,              \* history: connections made so far
          opened,            \* history: those that are not closed
          call,              \* how far the operation of each caller is
          using,             \* the connection it works on
          holder,            \* who holds _conn_lock
          closer,            \* how far close() is
          closing            \* the connection it took

storeVars == <<conn, made, opened, call, using, holder, closer, closing>>

Progress == {"idle", "queued", "waiting", "holding", "found", "running"}

(* create_schema, at start-up, opened the first connection. *)
StoreInit ==
  /\ made = 1 /\ conn = 1 /\ opened = {1}
  /\ call = [c \in Callers |-> "idle"]
  /\ using = [c \in Callers |-> None]
  /\ holder = None
  /\ closer = "idle" /\ closing = None

-----------------------------------------------------------------------------
(* asyncio.to_thread queues the body; add_dialog_turn_sync and the iterators *)
(* go for the lock at once and keep the loop waiting with them.            *)
Submit(c) ==
  /\ call[c] = "idle"
  /\ call' = [call EXCEPT ![c] = IF c = Loop THEN "waiting" ELSE "queued"]
  /\ UNCHANGED <<conn, made, opened, using, holder, closer, closing>>

LoopIsFree == call[Loop] = "idle"

Unfinished == {c \in Callers : call[c] # "idle"}

(* Every caller that awaited a worker is cancelled: what no thread began is *)
(* not begun, the rest goes on.                                            *)
Abandoned == [c \in Callers |-> IF call[c] = "queued" THEN "idle" ELSE call[c]]

StartThread(c) ==
  /\ call[c] = "queued"
  /\ call' = [call EXCEPT ![c] = "waiting"]
  /\ UNCHANGED <<conn, made, opened, using, holder, closer, closing>>

Acquire(c) ==
  /\ call[c] = "waiting" /\ holder = None
  /\ holder' = c
  /\ call' = [call EXCEPT ![c] = "holding"]
  /\ UNCHANGED <<conn, made, opened, using, closer, closing>>

(* _ensure_conn tests self._conn, connects if there is none... *)
EnsureConn(c) ==
  /\ call[c] = "holding"
  /\ call' = [call EXCEPT ![c] = "found"]
  /\ \/ conn # None /\ UNCHANGED <<conn, made, opened>>
     \/ /\ conn = None
        /\ made' = made + 1
        /\ conn' = made'
        /\ opened' = opened \cup {made'}
  /\ UNCHANGED <<using, holder, closer, closing>>

(* ... and returns what self._conn is then: with None the body raises. *)
ReturnConn(c) ==
  /\ call[c] = "found"
  /\ IF conn # None
     THEN /\ using' = [using EXCEPT ![c] = conn]
          /\ call' = [call EXCEPT ![c] = "running"]
          /\ UNCHANGED holder
     ELSE /\ call' = [call EXCEPT ![c] = "idle"]
          /\ holder' = None
          /\ UNCHANGED using
  /\ UNCHANGED <<conn, made, opened, closer, closing>>

(* The transaction ends, committed or rolled back. *)
Finish(c) ==
  /\ call[c] = "running"
  /\ call' = [call EXCEPT ![c] = "idle"]
  /\ using' = [using EXCEPT ![c] = None]
  /\ holder' = None
  /\ UNCHANGED <<conn, made, opened, closer, closing>>

(* close(), on the loop: take the connection and have a thread close it... *)
Close ==
  /\ closer = "idle"
  /\ closing' = conn
  /\ conn' = None
  /\ closer' = IF conn = None THEN "done" ELSE "waiting"
  /\ UNCHANGED <<made, opened, call, using, holder>>

(* ... at once, as it was before the lock was taken for it. *)
CloseConnUnlocked ==
  /\ closer = "waiting"
  /\ opened' = opened \ {closing}
  /\ closer' = "done" /\ closing' = None
  /\ UNCHANGED <<conn, made, call, using, holder>>

(* ... under the lock: _close_under_lock. *)
CloseConn ==
  /\ closer = "waiting" /\ holder = None
  /\ opened' = opened \ {closing}
  /\ closer' = "done" /\ closing' = None
  /\ UNCHANGED <<conn, made, call, using, holder>>

Threads ==
  \/ \E c \in Callers :
       StartThread(c) \/ Acquire(c) \/ EnsureConn(c) \/ ReturnConn(c) \/ Finish(c)
  \/ CloseConn

-----------------------------------------------------------------------------
(* No statement runs on a connection that was closed, whoever was cancelled *)
(* in the middle of a call and however late its thread comes (the SIGSEGV   *)
(* that store.py:368 tells of).                                            *)
NoUseAfterClose == \A c \in Callers : call[c] = "running" => using[c] \in opened

=============================================================================
