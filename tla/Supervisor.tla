----------------------------- MODULE Supervisor -----------------------------
(***************************************************************************)
(* The life of the process: bootstrap.py starts the world runtime and the  *)
(* web server, waits for the first of them or for a signal, stops both,    *)
(* awaits them and closes the memory store, whose threads the runtime's    *)
(* cognition steps keep busy.                                              *)
(*                                                                         *)
(* The server may also end the process at once (uvicorn calls sys.exit      *)
(* when its port is taken): asyncio.run then cancels every task, and the   *)
(* store is closed while the runtime is still being cancelled.             *)
(***************************************************************************)
EXTENDS MemoryStore

VARIABLES phase,             \* where bootstrap is
          runtime,           \* the task of WorldRuntime.run
          server,            \* the task of uvicorn.Server.serve
          signalled,         \* stop_event, set by SIGINT and SIGTERM
          stopping,          \* should_exit is set and stop() was called
          torn,              \* asyncio.run cancels every task
          failed,            \* the tasks of `done` that hold an exception
          exit               \* the exit code, once there is one

bootVars == <<phase, signalled, stopping, torn, failed, exit>>
vars == <<storeVars, bootVars, runtime, server>>

Over == {"returned", "raised", "cancelled"}

Init ==
  /\ StoreInit
  /\ phase = "waiting"
  /\ runtime = "sleeping" /\ server = "serving"
  /\ signalled = FALSE /\ stopping = FALSE /\ torn = FALSE
  /\ failed = {} /\ exit = None

-----------------------------------------------------------------------------
(* The runtime: a handler calls the store for several agents at once, comes *)
(* to the last of its calls, and ends when all of them were answered.      *)
HandlerStarts ==
  /\ runtime = "sleeping" /\ ~stopping
  /\ runtime' = "stepping"
  /\ UNCHANGED <<storeVars, bootVars, server>>

HandlerCalls(c) ==
  /\ runtime = "stepping"
  /\ Submit(c)
  /\ UNCHANGED <<bootVars, runtime, server>>

HandlerCallsNoMore ==
  /\ runtime = "stepping"
  /\ runtime' = "gathering"
  /\ UNCHANGED <<storeVars, bootVars, server>>

HandlerEnds ==
  /\ runtime = "gathering" /\ Unfinished = {}
  /\ runtime' = "sleeping"
  /\ UNCHANGED <<storeVars, bootVars, server>>

RuntimeReturns ==
  /\ runtime = "sleeping" /\ stopping
  /\ runtime' = "returned"
  /\ UNCHANGED <<storeVars, bootVars, server>>

RuntimeRaises ==
  /\ runtime = "sleeping"
  /\ runtime' = "raised"
  /\ UNCHANGED <<storeVars, bootVars, server>>

RuntimeCancelled ==
  /\ runtime = "cancelling"
  /\ runtime' = "cancelled"
  /\ call' = Abandoned
  /\ UNCHANGED <<conn, made, opened, using, holder, closer, closing, bootVars, server>>

(* The server: it ends when told to, by itself, or with an exception. *)
ServerReturns ==
  /\ server = "serving"
  /\ server' = "returned"
  /\ UNCHANGED <<storeVars, bootVars, runtime>>

ServerRaises ==
  /\ server = "serving"
  /\ server' = "raised"
  /\ UNCHANGED <<storeVars, bootVars, runtime>>

Signal ==
  /\ phase # "exited" /\ ~signalled
  /\ signalled' = TRUE
  /\ UNCHANGED <<storeVars, phase, stopping, torn, failed, exit, runtime, server>>

-----------------------------------------------------------------------------
(* _supervise *)

Raised == (IF runtime = "raised" THEN {"runtime"} ELSE {})
            \cup (IF server = "raised" THEN {"server"} ELSE {})

Woken == phase = "waiting" /\ (runtime \in Over \/ server \in Over \/ signalled)

(* asyncio.wait(FIRST_COMPLETED) returned: both are told to stop. *)
WakesTellingServerOnly ==
  /\ Woken
  /\ phase' = "awaiting"
  /\ stopping' = (server \notin Over)
  /\ failed' = Raised
  /\ UNCHANGED <<storeVars, signalled, torn, exit, runtime, server>>

WakesForSignalFirst ==
  /\ Woken
  /\ phase' = "awaiting"
  /\ stopping' = TRUE
  /\ failed' = IF signalled THEN {} ELSE Raised
  /\ UNCHANGED <<storeVars, signalled, torn, exit, runtime, server>>

Wakes ==
  /\ Woken
  /\ phase' = "awaiting"
  /\ stopping' = TRUE
  /\ failed' = Raised
  /\ UNCHANGED <<storeVars, signalled, torn, exit, runtime, server>>

(* Every pending task was awaited; what they raised meanwhile is logged. *)
ServerAwaited == server \in Over

BothAwaited == runtime \in Over /\ server \in Over

Awaited ==
  /\ phase = "awaiting" /\ BothAwaited
  /\ phase' = "closing"
  /\ UNCHANGED <<storeVars, signalled, stopping, torn, failed, exit, runtime, server>>

(* SystemExit leaves the loop and asyncio.run cancels what is not done. *)
ServerExits ==
  /\ phase \in {"waiting", "awaiting"} /\ server = "serving"
  /\ server' = "raised"
  /\ torn' = TRUE
  /\ phase' = "closing"
  /\ runtime' = IF runtime \in Over THEN runtime ELSE "cancelling"
  /\ UNCHANGED <<storeVars, signalled, stopping, failed, exit>>

(* AsyncExitStack calls back in LIFO order: the clients, then the store. *)
ClosesStore ==
  /\ phase = "closing"
  /\ Close
  /\ UNCHANGED <<bootVars, runtime, server>>

(* asyncio.run awaits the tasks it cancelled and the threads of its executor. *)
Exits ==
  /\ phase = "closing" /\ closer = "done"
  /\ runtime \in Over /\ Unfinished = {}
  /\ phase' = "exited"
  /\ exit' = IF failed # {} \/ torn THEN 1 ELSE 0
  /\ UNCHANGED <<storeVars, signalled, stopping, torn, failed, runtime, server>>

Bootstrap == Wakes \/ Awaited \/ ClosesStore \/ Exits

Runtime ==
  \/ HandlerStarts \/ HandlerCallsNoMore \/ HandlerEnds \/ RuntimeReturns \/ RuntimeRaises \/ RuntimeCancelled
  \/ \E c \in Callers : HandlerCalls(c)

Server == ServerReturns \/ ServerRaises \/ ServerExits

(* All but the threads and the signal run on the loop, which a synchronous *)
(* call of the store keeps waiting.                                        *)
Next ==
  \/ LoopIsFree /\ (Bootstrap \/ Runtime \/ Server)
  \/ Signal
  \/ UNCHANGED <<bootVars, runtime, server>> /\ Threads

(* Threads are scheduled and the lock is granted, a step has only so many   *)
(* calls to make, and uvicorn ends once should_exit is set.                *)
Fairness ==
  /\ \A c \in Callers :
       WF_vars(/\ StartThread(c) \/ EnsureConn(c) \/ ReturnConn(c) \/ Finish(c)
               /\ UNCHANGED <<bootVars, runtime, server>>)
  /\ \A c \in Callers : SF_vars(Acquire(c) /\ UNCHANGED <<bootVars, runtime, server>>)
  /\ SF_vars(CloseConn /\ UNCHANGED <<bootVars, runtime, server>>)
  /\ SF_vars(LoopIsFree /\ (HandlerCallsNoMore \/ HandlerEnds))
  /\ SF_vars(LoopIsFree /\ (RuntimeReturns \/ RuntimeCancelled))
  /\ SF_vars(LoopIsFree /\ stopping /\ ServerReturns)
  /\ SF_vars(LoopIsFree /\ Bootstrap)

Spec == Init /\ [][Next]_vars /\ Fairness

-----------------------------------------------------------------------------
(* After an orderly shutdown no connection is open: no thread of a cognition *)
(* step comes after close() and opens another one, which nobody would close  *)
(* (bootstrap's exit stack; it is what a torn shutdown may leave).          *)
NothingLeftOpen == phase = "exited" /\ ~torn => opened = {}

(* A failure of the runtime or of the server that the wait saw makes the     *)
(* process exit non-zero, also when a signal or the other's end came with it *)
(* (_supervise re-raises "so the CLI exits non-zero").                      *)
FailureTold == (phase = "waiting" /\ Raised # {}) ~> exit = 1

(* Whatever ended the wait, both are stopped and the process ends. *)
ShutdownEnds == phase # "waiting" ~> phase = "exited"

=============================================================================
