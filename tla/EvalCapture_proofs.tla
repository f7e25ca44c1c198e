------------------------- MODULE EvalCapture_proofs -------------------------
(***************************************************************************)
(* Proofs about the files a capture leaves, for every target and any number *)
(* of runs and rows.                                                        *)
(***************************************************************************)
EXTENDS EvalCapture, TLAPS

InRun == {"starting", "capturing", "draining", "closing", "publishing", "renaming"}

\* The file is checkpointed and tells how its run ended.
Sealed == temp.whole /\ temp.end = Status(sink) /\ temp.drained = sink.drained

\* The file follows the counters, no fatal error is forgotten, and what is
\* about to be renamed is sealed and described by its sidecar.
Shape ==
  /\ phase \in InRun => /\ temp # NoFile /\ temp.attempt = attempt
                        /\ temp.focal = sink.focal /\ temp.total = sink.total
  /\ ~sink.drained => sink.fatal # "none"
  /\ sink.focal <= sink.total
  /\ phase = "publishing" => sink.fatal # "none" \/ Sealed
  /\ phase = "renaming" => /\ Sealed /\ Status(sink) # "fatal"
                           /\ sidecar \in Sidecar /\ sidecar.status = Status(sink)
                           /\ sidecar.focal = sink.focal /\ sidecar.total = sink.total
  /\ output # NoFile => output.whole /\ output.drained /\ output.end # "fatal"

\* What may be thrown away next was either never recorded or given up.
Free(file) == file # NoFile => file.attempt \notin recorded \/ file.attempt \in told

Kept ==
  /\ \A a \in recorded : a <= attempt
  /\ phase \notin {"idle", "renaming"} => attempt \notin recorded
  /\ phase = "idle" => sidecar # NoFile \/ Free(temp)
  /\ phase = "opening" => Free(temp)
  /\ phase = "connecting" => temp = NoFile
  /\ (phase # "idle" /\ output # NoFile) => output.attempt \in told
  /\ FinishedIsKept

IInv == TypeOK /\ Shape /\ Kept

LEMMA Files ==
  /\ NoFile # Corrupt /\ NoFile \notin Database /\ NoFile \notin Sidecar
  /\ Corrupt \notin Sidecar
  /\ Target \in Nat \ {0} /\ MaxRows \in Nat /\ MaxAttempts \in Nat
  BY CaptureAssumption

LEMMA StatusType ==
  ASSUME NEW s \in Sink
  PROVE  /\ Status(s) \in {"complete", "partial", "fatal"}
         /\ StopReason(s) \in Reasons \cup {"complete", "wall_timeout",
                                            "fatal_incomplete_before_target"}
         /\ s.fatal # "none" => Status(s) = "fatal"
         /\ Status(s) = "complete" => s.focal >= Target
  BY Files DEF Sink, Status, StopReason, Reasons

\* Recording a failure keeps the type and the counters, and never loses an
\* earlier one.
LEMMA SetFatalType ==
  ASSUME NEW s \in Sink, NEW why \in Reasons
  PROVE  /\ SetFatal(s, why) \in Sink
         /\ SetFatal(s, why).fatal # "none"
         /\ SetFatal(s, why).focal = s.focal /\ SetFatal(s, why).total = s.total
<1>1. CASE s.fatal # "none"
  BY <1>1 DEF Sink, SetFatal
<1>2. CASE s.fatal = "none"
  <2>1. SetFatal(s, why) = [s EXCEPT !.fatal = why]
    BY <1>2 DEF SetFatal
  <2>2. why # "none"
    BY DEF Reasons
  <2>3. QED
    BY <2>1, <2>2 DEF Sink
<1>3. QED
  BY <1>1, <1>2

LEMMA FreshType ==
  /\ FreshSink \in Sink /\ FreshSink.drained
  /\ FreshSink.focal = 0 /\ FreshSink.total = 0
  /\ \A a \in Nat : Blank(a) \in Database
  /\ \A a : Blank(a).attempt = a /\ Blank(a).focal = 0 /\ Blank(a).total = 0
<1>1. /\ FreshSink \in Sink /\ FreshSink.drained
      /\ FreshSink.focal = 0 /\ FreshSink.total = 0
  BY DEF FreshSink, Sink
<1>2. \A a : Blank(a).attempt = a /\ Blank(a).focal = 0 /\ Blank(a).total = 0
  BY DEF Blank
<1>3. \A a \in Nat : Blank(a) \in Database
  BY DEF Blank, Database
<1>4. QED
  BY <1>1, <1>2, <1>3

LEMMA InitInv == Init => IInv
<1> SUFFICES ASSUME Init PROVE IInv
  OBVIOUS
<1>1. TypeOK
  BY FreshType DEF Init, TypeOK, Phases
<1>2. Shape
  BY FreshType DEF Init, Shape, InRun
<1>3. Kept
  BY DEF Init, Kept, FinishedIsKept, RunOf, Free
<1>4. QED
  BY <1>1, <1>2, <1>3 DEF IInv

-----------------------------------------------------------------------------
(* One lemma per action. *)

LEMMA RefusedInv ==
  ASSUME IInv, NEW flags \in SUBSET Flags, Refused(flags)
  PROVE  IInv'
<1> USE DEF IInv, files, history
<1>1. TypeOK'
  BY Files DEF TypeOK, Phases, Refused
<1>2. Shape'
  BY Files DEF Shape, Sealed, InRun, TypeOK, Database, Sink, Refused
<1>3. Kept'
  BY Files DEF Kept, FinishedIsKept, RunOf, Free, TypeOK, Database, Refused
<1>4. QED
  BY <1>1, <1>2, <1>3

LEMMA DiscardInv ==
  ASSUME IInv, Discard
  PROVE  IInv'
<1> USE DEF IInv, files, history
<1>1. TypeOK'
  BY Files DEF TypeOK, Phases, Discard
<1>2. Shape'
  BY Files DEF Shape, Sealed, InRun, TypeOK, Database, Sink, Discard
<1>3. Kept'
  BY Files DEF Kept, FinishedIsKept, RunOf, Free, TypeOK, Database, Discard
<1>4. QED
  BY <1>1, <1>2, <1>3

LEMMA StartInv ==
  ASSUME IInv, StartRuntime
  PROVE  IInv'
<1> USE DEF IInv, files, history
<1>1. TypeOK'
  BY Files DEF TypeOK, Phases, StartRuntime
<1>2. Shape'
  BY Files DEF Shape, Sealed, InRun, TypeOK, Database, Sink, StartRuntime
<1>3. Kept'
  BY Files DEF Kept, FinishedIsKept, RunOf, Free, TypeOK, Database, StartRuntime
<1>4. QED
  BY <1>1, <1>2, <1>3

LEMMA InsertFailsInv ==
  ASSUME IInv, NEW why \in Reasons, InsertFails(why)
  PROVE  IInv'
<1> USE DEF IInv, files, history
<1>1. TypeOK'
  BY Files, SetFatalType DEF TypeOK, Phases, InsertFails, Recording
<1>2. Shape'
  BY Files, SetFatalType DEF Shape, Sealed, InRun, TypeOK, Database, Sink, InsertFails, Recording
<1>3. Kept'
  BY Files DEF Kept, FinishedIsKept, RunOf, Free, TypeOK, Database, InsertFails, Recording
<1>4. QED
  BY <1>1, <1>2, <1>3

LEMMA ReturnsInv ==
  ASSUME IInv, RuntimeReturns
  PROVE  IInv'
<1> USE DEF IInv, files, history
<1>1. TypeOK'
  BY Files DEF TypeOK, Phases, RuntimeReturns, Recording
<1>2. Shape'
  BY Files DEF Shape, Sealed, InRun, TypeOK, Database, Sink, RuntimeReturns, Recording
<1>3. Kept'
  BY Files DEF Kept, FinishedIsKept, RunOf, Free, TypeOK, Database, RuntimeReturns, Recording
<1>4. QED
  BY <1>1, <1>2, <1>3

LEMMA RaisesInv ==
  ASSUME IInv, RuntimeRaises
  PROVE  IInv'
<1> USE DEF IInv, files, history
<1>1. TypeOK'
  BY Files DEF TypeOK, Phases, RuntimeRaises, Recording
<1>2. Shape'
  BY Files DEF Shape, Sealed, InRun, TypeOK, Database, Sink, RuntimeRaises, Recording
<1>3. Kept'
  BY Files DEF Kept, FinishedIsKept, RunOf, Free, TypeOK, Database, RuntimeRaises, Recording
<1>4. QED
  BY <1>1, <1>2, <1>3

LEMMA WallInv ==
  ASSUME IInv, WallElapses
  PROVE  IInv'
<1> USE DEF IInv, files, history
<1>1. TypeOK'
  BY Files DEF TypeOK, Phases, WallElapses
<1>2. Shape'
  BY Files DEF Shape, Sealed, InRun, TypeOK, Database, Sink, WallElapses
<1>3. Kept'
  BY Files DEF Kept, FinishedIsKept, RunOf, Free, TypeOK, Database, WallElapses
<1>4. QED
  BY <1>1, <1>2, <1>3

LEMMA BatteryInv ==
  ASSUME IInv, BatteryEnds
  PROVE  IInv'
<1> USE DEF IInv, files, history
<1>1. TypeOK'
  BY Files DEF TypeOK, Phases, BatteryEnds
<1>2. Shape'
  BY Files DEF Shape, Sealed, InRun, TypeOK, Database, Sink, BatteryEnds
<1>3. Kept'
  BY Files DEF Kept, FinishedIsKept, RunOf, Free, TypeOK, Database, BatteryEnds
<1>4. QED
  BY <1>1, <1>2, <1>3

LEMMA RenameInv ==
  ASSUME IInv, Rename
  PROVE  IInv'
<1> USE DEF IInv, files, history
<1>1. TypeOK'
  BY Files, StatusType DEF TypeOK, Phases, Rename
<1>2. Shape'
  BY Files, StatusType DEF Shape, Sealed, InRun, TypeOK, Database, Sink, Rename
<1>3. Kept'
  BY Files DEF Kept, FinishedIsKept, RunOf, Free, TypeOK, Database, Rename
<1>4. QED
  BY <1>1, <1>2, <1>3

LEMMA CrashInv ==
  ASSUME IInv, Crash
  PROVE  IInv'
<1> USE DEF IInv, files, history
<1>1. TypeOK'
  BY Files DEF TypeOK, Phases, Crash, InRun
<1>2. Shape'
  BY Files DEF Shape, Sealed, InRun, TypeOK, Database, Sink, Crash, Phases
<1>3. phase \in InRun => temp # NoFile /\ temp.attempt = attempt
  BY DEF Crash, Shape, InRun
<1>4. phase = "renaming" => sidecar # NoFile
  BY Files DEF Shape
<1>5. Kept'
  BY Files, <1>3, <1>4 DEF Kept, FinishedIsKept, RunOf, Free, TypeOK, Database, Crash, InRun, Phases
<1>6. QED
  BY <1>1, <1>2, <1>5

LEMMA CorruptInv ==
  ASSUME IInv, CorruptSidecar
  PROVE  IInv'
<1> USE DEF IInv, files, history
<1>1. TypeOK'
  BY Files DEF TypeOK, Phases, CorruptSidecar
<1>2. Shape'
  BY Files DEF Shape, Sealed, InRun, TypeOK, Database, Sink, CorruptSidecar
<1>3. Kept'
  BY Files DEF Kept, FinishedIsKept, RunOf, Free, TypeOK, Database, CorruptSidecar
<1>4. QED
  BY <1>1, <1>2, <1>3

LEMMA LaunchInv ==
  ASSUME IInv, NEW flags \in SUBSET Flags, Launch(flags)
  PROVE  IInv'
<1>1. /\ phase = "idle" /\ phase' = "opening"
      /\ attempt \in Nat /\ attempt' = attempt + 1
      /\ UNCHANGED <<temp, output, sink, recorded>>
      /\ UNCHANGED <<condition, runtime, expired, exit>>
  BY DEF IInv, TypeOK, Launch
<1>2. sidecar' \in Sidecar \cup {NoFile, Corrupt}
  BY DEF IInv, TypeOK, Launch
<1>3. RunOf(temp) \subseteq Nat /\ RunOf(output) \subseteq Nat
  BY DEF IInv, TypeOK, RunOf, Database
<1>4. told \subseteq told' /\ told' \subseteq Nat
  BY <1>3 DEF IInv, TypeOK, Launch
<1>5. output # NoFile => output.attempt \in told'
  BY DEF Launch, Refuses, RunOf
<1>6. Free(temp)'
  <2>1. CASE temp # NoFile /\ sidecar = NoFile
    BY <1>1, <1>4, <2>1 DEF IInv, Kept, Free
  <2>2. CASE temp # NoFile /\ sidecar # NoFile
    <3>1. flags \cap {"allow_partial_rescue", "force_rescue"} # {}
      BY <2>2 DEF Launch, Refuses
    <3>2. QED
      BY <1>1, <2>2, <3>1 DEF Launch, RunOf, Free
  <2>3. QED
    BY <1>1, <2>1, <2>2 DEF Free
<1>7. TypeOK'
  BY <1>1, <1>2, <1>4 DEF IInv, TypeOK, Phases
<1>8. Shape'
  BY <1>1 DEF IInv, Shape, InRun
<1>9. Kept'
  <2>1. \A a \in recorded' : a <= attempt' /\ a # attempt'
    BY <1>1 DEF IInv, Kept, TypeOK
  <2>2. FinishedIsKept'
    BY <1>1, <1>4 DEF IInv, Kept, FinishedIsKept
  <2>3. QED
    BY <1>1, <1>5, <1>6, <2>1, <2>2 DEF Kept
<1>10. QED
  BY <1>7, <1>8, <1>9 DEF IInv

LEMMA ConnectInv ==
  ASSUME IInv, Connect
  PROVE  IInv'
<1>1. /\ phase = "connecting" /\ phase' = "starting" /\ attempt \in Nat
      /\ temp' = Blank(attempt) /\ sink' = FreshSink
      /\ UNCHANGED <<output, sidecar, attempt, recorded, told>>
      /\ UNCHANGED <<condition, runtime, expired, exit>>
  BY DEF IInv, TypeOK, Connect, history
<1>2. /\ temp' \in Database /\ temp' # NoFile /\ temp'.attempt = attempt
      /\ temp'.focal = 0 /\ temp'.total = 0
  BY <1>1, FreshType, Files
<1>3. sink' \in Sink /\ sink'.drained /\ sink'.focal = 0 /\ sink'.total = 0
  BY <1>1, FreshType
<1>4. TypeOK'
  BY <1>1, <1>2, <1>3 DEF IInv, TypeOK, Phases
<1>5. Shape'
  BY <1>1, <1>2, <1>3 DEF IInv, Shape, InRun
<1>6. Kept'
  <2>1. FinishedIsKept'
    BY <1>1 DEF IInv, Kept, FinishedIsKept, RunOf
  <2>2. QED
    BY <1>1, <2>1 DEF IInv, Kept
<1>7. QED
  BY <1>4, <1>5, <1>6 DEF IInv

LEMMA HealthInv ==
  ASSUME IInv, HealthCheckFails
  PROVE  IInv'
<1>1. /\ temp \in Database /\ sink \in Sink /\ temp # NoFile
      /\ temp.attempt = attempt /\ temp.focal = sink.focal /\ temp.total = sink.total
      /\ phase = "starting" /\ phase' = "publishing"
      /\ UNCHANGED <<output, sidecar, attempt, recorded, told>>
      /\ UNCHANGED <<condition, runtime, expired, exit>>
  BY Files DEF IInv, TypeOK, Shape, InRun, HealthCheckFails, history
<1>2. /\ temp' \in Database /\ temp'.attempt = temp.attempt
      /\ temp'.focal = temp.focal /\ temp'.total = temp.total
  BY <1>1 DEF HealthCheckFails, Database
<1>3. /\ sink' \in Sink /\ sink'.fatal # "none"
      /\ sink'.focal = sink.focal /\ sink'.total = sink.total
  BY <1>1, SetFatalType DEF HealthCheckFails, Reasons
<1>4. temp' # NoFile
  BY <1>2, Files
<1>5. TypeOK'
  BY <1>1, <1>2, <1>3 DEF IInv, TypeOK, Phases
<1>6. Shape'
  BY <1>1, <1>2, <1>3, <1>4 DEF IInv, Shape, InRun
<1>7. Kept'
  <2>1. RunOf(temp') = RunOf(temp) /\ RunOf(output') = RunOf(output)
    BY <1>1, <1>2, <1>4 DEF RunOf
  <2>2. QED
    BY <1>1, <2>1 DEF IInv, Kept, FinishedIsKept
<1>8. QED
  BY <1>5, <1>6, <1>7 DEF IInv

LEMMA InsertInv ==
  ASSUME IInv, NEW focal \in {0, 1}, Insert(focal)
  PROVE  IInv'
<1>1. /\ temp \in Database /\ sink \in Sink /\ phase \in InRun /\ temp # NoFile
      /\ temp.attempt = attempt /\ temp.focal = sink.focal /\ temp.total = sink.total
      /\ sink.focal <= sink.total /\ phase \in {"capturing", "draining"}
  BY Files DEF IInv, TypeOK, Shape, InRun, Insert, Recording
<1>2. sink.focal \in Nat /\ sink.total \in Nat
  BY <1>1 DEF Sink
<1>3. PICK n \in Nat, k \in Nat : n = sink.total + 1 /\ k = sink.focal + focal
  BY <1>2
<1>4. /\ temp' = [temp EXCEPT !.total = n, !.focal = k]
      /\ sink' = [sink EXCEPT !.total = n, !.focal = k]
  BY <1>1, <1>3 DEF Insert
<1>5. /\ temp' \in Database /\ temp'.attempt = attempt
       /\ temp'.focal = k /\ temp'.total = n
  BY <1>1, <1>4 DEF Database
<1>6. /\ sink' \in Sink /\ sink'.fatal = sink.fatal /\ sink'.drained = sink.drained
       /\ sink'.focal = k /\ sink'.total = n
  BY <1>1, <1>4 DEF Sink
<1>7. /\ UNCHANGED <<output, sidecar, phase, attempt, recorded, told>>
      /\ UNCHANGED <<condition, runtime, expired, exit>>
  BY DEF Insert, history
<1>8. TypeOK'
  BY <1>7, <1>5, <1>6 DEF IInv, TypeOK
<1>9. Shape'
  <2>1. sink'.focal <= sink'.total
    BY <1>1, <1>2, <1>3, <1>6
  <2>2. temp' # NoFile /\ temp'.focal = sink'.focal /\ temp'.total = sink'.total
    BY <1>5, <1>6, Files
  <2>3. QED
    BY <1>1, <1>7, <1>5, <1>6, <2>1, <2>2 DEF IInv, Shape
<1>10. Kept'
  <2>1. RunOf(temp') = RunOf(temp) /\ RunOf(output') = RunOf(output)
    BY <1>1, <1>7, <1>5, Files DEF RunOf
  <2>2. QED
    BY <1>1, <1>7, <2>1 DEF IInv, Kept, FinishedIsKept
<1>11. QED
  BY <1>8, <1>9, <1>10 DEF IInv

LEMMA WatchdogInv ==
  ASSUME IInv, WatchdogReturns
  PROVE  IInv'
<1>1. /\ sink \in Sink /\ phase = "capturing" /\ phase' = "draining"
      /\ UNCHANGED <<temp, output, sidecar, attempt, recorded, told>>
      /\ UNCHANGED <<condition, runtime, expired, exit>>
  BY DEF IInv, TypeOK, WatchdogReturns, files, history
<1>2. /\ sink' \in Sink /\ sink'.fatal = sink.fatal /\ sink'.drained = sink.drained
      /\ sink'.focal = sink.focal /\ sink'.total = sink.total
  <2>1. sink' = sink \/ sink' = [sink EXCEPT !.soft = TRUE]
    BY DEF WatchdogReturns
  <2>2. QED
    BY <1>1, <2>1 DEF Sink
<1>3. TypeOK'
  BY <1>1, <1>2 DEF IInv, TypeOK, Phases
<1>4. Shape'
  BY <1>1, <1>2 DEF IInv, Shape, InRun
<1>5. Kept'
  BY <1>1 DEF IInv, Kept, FinishedIsKept, RunOf, Free
<1>6. QED
  BY <1>3, <1>4, <1>5 DEF IInv

LEMMA DrainInv ==
  ASSUME IInv, Drain
  PROVE  IInv'
<1>1. /\ sink \in Sink /\ phase = "draining" /\ phase' = "closing"
      /\ UNCHANGED <<temp, output, sidecar, attempt, recorded, told>>
      /\ UNCHANGED <<condition, expired, exit>>
      /\ runtime' \in {"running", "returned", "raised"}
  BY DEF IInv, TypeOK, Drain, Drained, DrainRaises, DrainTimesOut, files, history
<1>2. /\ sink' \in Sink
      /\ sink'.drained => sink'.drained = sink.drained
      /\ sink'.drained \/ sink'.fatal # "none" \/ sink' = sink
      /\ sink'.focal = sink.focal /\ sink'.total = sink.total
  <2>1. CASE Drained
    BY <1>1, <2>1 DEF Drained
  <2>2. CASE DrainRaises
    <3>1. SetFatal(sink, "fatal_runtime_exception") \in Sink
          /\ SetFatal(sink, "fatal_runtime_exception").fatal # "none"
          /\ SetFatal(sink, "fatal_runtime_exception").focal = sink.focal
          /\ SetFatal(sink, "fatal_runtime_exception").total = sink.total
      BY <1>1, SetFatalType DEF Reasons
    <3>2. QED
      BY <2>2, <3>1 DEF DrainRaises, Sink
  <2>3. CASE DrainTimesOut
    <3>1. SetFatal(sink, "fatal_drain_timeout") \in Sink
          /\ SetFatal(sink, "fatal_drain_timeout").fatal # "none"
          /\ SetFatal(sink, "fatal_drain_timeout").focal = sink.focal
          /\ SetFatal(sink, "fatal_drain_timeout").total = sink.total
      BY <1>1, SetFatalType DEF Reasons
    <3>2. QED
      BY <2>3, <3>1 DEF DrainTimesOut, Sink
  <2>4. QED
    BY <2>1, <2>2, <2>3 DEF Drain
<1>3. TypeOK'
  BY <1>1, <1>2 DEF IInv, TypeOK, Phases
<1>4. Shape'
  BY <1>1, <1>2 DEF IInv, Shape, InRun
<1>5. Kept'
  BY <1>1 DEF IInv, Kept, FinishedIsKept, RunOf, Free
<1>6. QED
  BY <1>3, <1>4, <1>5 DEF IInv

LEMMA CloseInv ==
  ASSUME IInv, Close
  PROVE  IInv'
<1>1. /\ temp \in Database /\ sink \in Sink /\ temp # NoFile
      /\ temp.attempt = attempt /\ temp.focal = sink.focal /\ temp.total = sink.total
      /\ phase = "closing" /\ phase' = "publishing"
      /\ UNCHANGED <<output, sidecar, attempt, recorded, told>>
      /\ UNCHANGED <<condition, sink, runtime, expired, exit>>
  BY Files DEF IInv, TypeOK, Shape, InRun, Close, history
<1>2. sink.drained \in BOOLEAN /\ Status(sink) \in {"complete", "partial", "fatal"}
  BY <1>1, StatusType DEF Sink
<1>3. /\ temp' \in Database /\ temp'.attempt = temp.attempt
      /\ temp'.focal = temp.focal /\ temp'.total = temp.total
      /\ temp'.whole /\ temp'.end = Status(sink) /\ temp'.drained = sink.drained
  BY <1>1, <1>2 DEF Close, Database
<1>4. temp' # NoFile /\ Sealed'
  BY <1>1, <1>3, Files DEF Sealed, Status
<1>5. TypeOK'
  BY <1>1, <1>3 DEF IInv, TypeOK, Phases
<1>6. Shape'
  BY <1>1, <1>3, <1>4 DEF IInv, Shape, InRun
<1>7. Kept'
  <2>1. RunOf(temp') = RunOf(temp) /\ RunOf(output') = RunOf(output)
    BY <1>1, <1>3, <1>4 DEF RunOf
  <2>2. QED
    BY <1>1, <2>1 DEF IInv, Kept, FinishedIsKept
<1>8. QED
  BY <1>5, <1>6, <1>7 DEF IInv

LEMMA SidecarInv ==
  ASSUME IInv, WriteSidecar
  PROVE  IInv'
<1>1. /\ temp \in Database /\ sink \in Sink /\ temp # NoFile /\ attempt \in Nat
      /\ temp.attempt = attempt /\ temp.focal = sink.focal /\ temp.total = sink.total
      /\ phase = "publishing" /\ recorded' = recorded \cup {attempt}
      /\ phase' = (IF Status(sink) = "fatal" THEN "idle" ELSE "renaming")
      /\ UNCHANGED <<temp, output, attempt, sink, told>>
      /\ UNCHANGED <<condition, runtime, expired>>
      /\ exit' \in {0, 1, 2, 3, 130}
  BY Files DEF IInv, TypeOK, Shape, InRun, WriteSidecar
<1>2. /\ Status(sink) \in {"complete", "partial", "fatal"}
      /\ sink.fatal # "none" => Status(sink) = "fatal"
      /\ StopReason(sink) \in Reasons \cup {"complete", "wall_timeout",
                                            "fatal_incomplete_before_target"}
      /\ sink.focal \in Nat /\ sink.total \in Nat
      /\ sink.drained \in BOOLEAN /\ sink.drainTimeout \in BOOLEAN
  BY <1>1, StatusType DEF Sink
<1>3. /\ sidecar' \in Sidecar /\ sidecar'.status = Status(sink)
      /\ sidecar'.focal = sink.focal /\ sidecar'.total = sink.total
  BY <1>2 DEF WriteSidecar, Sidecar
<1>4. sidecar' # NoFile /\ Status(sink') = Status(sink) /\ (Sealed <=> Sealed')
  BY <1>1, <1>3, Files DEF Sealed
<1>5. TypeOK'
  BY <1>1, <1>3 DEF IInv, TypeOK, Phases
<1>6. Shape'
  BY <1>1, <1>2, <1>3, <1>4 DEF IInv, Shape, InRun
<1>7. Kept'
  <2>1. \A a \in recorded' : a <= attempt'
    BY <1>1 DEF IInv, Kept
  <2>2. FinishedIsKept'
    BY <1>1 DEF IInv, Kept, FinishedIsKept, RunOf
  <2>3. QED
    BY <1>1, <1>4, <2>1, <2>2 DEF IInv, Kept
<1>8. QED
  BY <1>5, <1>6, <1>7 DEF IInv

LEMMA NextInv == IInv /\ [Next]_vars => IInv'
<1> SUFFICES ASSUME IInv, [Next]_vars PROVE IInv'
  OBVIOUS
<1>1. CASE UNCHANGED vars
  BY <1>1 DEF vars, files, history, IInv, TypeOK, Shape, Kept, FinishedIsKept,
     Sealed, Free
<1>2. CASE Next
  BY <1>2, RefusedInv, LaunchInv, DiscardInv, ConnectInv, HealthInv, StartInv,
     InsertInv, InsertFailsInv, ReturnsInv, RaisesInv, WallInv, WatchdogInv,
     DrainInv, BatteryInv, CloseInv, SidecarInv, RenameInv, CrashInv, CorruptInv
  DEF Next, Reasons
<1>3. QED
  BY <1>1, <1>2

LEMMA SpecInv == Spec => []IInv
<1>1. QED
  BY InitInv, NextInv, PTL DEF Spec

\* The variables of a capture stay in their types, in every phase and after
\* every crash.
THEOREM TypesKept == Spec => []TypeOK
<1>1. IInv => TypeOK
  BY DEF IInv
<1>2. QED
  BY <1>1, SpecInv, PTL

\* A cell the audit passes holds a checkpointed, drained database of a run
\* without a fatal error.
THEOREM AuditsSound == Spec => []AuditedIsSound
<1>1. Audit(TRUE) = 0 => output # NoFile
  BY DEF Audit, SameRows, Accepted
<1>2. IInv => AuditedIsSound
  BY <1>1 DEF IInv, Shape, AuditedIsSound
<1>3. QED
  BY <1>2, SpecInv, PTL

\* No crash loses the database of a run that wrote its sidecar.
THEOREM FinishedKept == Spec => []FinishedIsKept
<1>1. IInv => FinishedIsKept
  BY DEF IInv, Kept
<1>2. QED
  BY <1>1, SpecInv, PTL

-----------------------------------------------------------------------------
(* The exit codes. *)

ExitInv == IInv /\ ExitTellsAudit

LEMMA PublishedAudit ==
  ASSUME ExitInv, Rename
  PROVE  ExitTellsAudit'
<1>1. /\ phase = "renaming" /\ output' = temp /\ sidecar' = sidecar
      /\ exit' = IF Status(sink) = "complete" THEN 0 ELSE 3
  BY DEF Rename
<1>2. /\ temp # NoFile /\ sidecar \notin {NoFile, Corrupt}
      /\ temp.focal = sink.focal /\ temp.total = sink.total
      /\ sidecar.status = Status(sink)
      /\ sidecar.focal = sink.focal /\ sidecar.total = sink.total
      /\ Status(sink) # "fatal" /\ sink.focal <= sink.total
  BY <1>1, Files DEF ExitInv, IInv, Shape, InRun
<1>3. /\ sink \in Sink /\ sink.focal \in Nat /\ sink.total \in Nat
      /\ Status(sink) = "complete" => sink.focal >= Target /\ sink.total # 0
      /\ Status(sink) \in {"complete", "partial"}
  BY <1>2, StatusType, Files DEF ExitInv, IInv, TypeOK, Sink
<1>4. /\ Status(sink) = "complete" => Audit(FALSE)' = 0
      /\ Status(sink) = "partial" => /\ Audit(FALSE)' # 0
                                     /\ sink.total # 0 => Audit(TRUE)' = 0
  BY <1>1, <1>2, <1>3, Files DEF Audit, SameRows, Accepted
<1>5. QED
  <2>1. Status(sink) = "complete" => exit' = 0 /\ Audit(FALSE)' = 0
    BY <1>1, <1>4
  <2>2. Status(sink) = "partial" =>
          exit' = 3 /\ Audit(FALSE)' # 0 /\ (sidecar'.total # 0 => Audit(TRUE)' = 0)
    BY <1>1, <1>2, <1>4
  <2>3. QED
    BY <1>3, <2>1, <2>2 DEF ExitTellsAudit, Audit, SameRows, Accepted

LEMMA ExitStep == ExitInv /\ [Next]_vars => ExitInv'
<1> SUFFICES ASSUME ExitInv, [Next]_vars PROVE ExitTellsAudit'
  BY NextInv DEF ExitInv
<1>1. CASE Rename
  BY <1>1, PublishedAudit
<1>2. CASE WriteSidecar
  <2>1. CASE Status(sink) = "fatal"
    <3>1. /\ exit' = 2 /\ sidecar'.status = "fatal"
      BY <1>2, <2>1 DEF WriteSidecar
    <3>2. Audit(TRUE)' # 0
      BY <3>1 DEF Audit, Accepted
    <3>3. QED
      BY <3>1, <3>2 DEF ExitTellsAudit, Audit, SameRows, Accepted
  <2>2. CASE Status(sink) # "fatal"
    BY <1>2, <2>2 DEF WriteSidecar, ExitTellsAudit
  <2>3. QED
    BY <2>1, <2>2
<1>3. CASE phase' # "idle" \/ exit' \in {1, 130}
  BY <1>3 DEF ExitTellsAudit, Audit, SameRows, Accepted
<1>4. CASE UNCHANGED vars
  BY <1>4 DEF vars, files, history, ExitInv, ExitTellsAudit, Audit, SameRows, Accepted
<1>5. ASSUME Next, ~Rename, ~WriteSidecar
      PROVE  phase' # "idle" \/ exit' \in {1, 130}
  BY <1>5 DEF Next, Refused, Launch, Discard, Connect, HealthCheckFails, StartRuntime,
     Insert, InsertFails, Recording, RuntimeReturns, RuntimeRaises, WallElapses,
     WatchdogReturns, Drain, BatteryEnds, Close, Crash, CorruptSidecar
<1>6. QED
  BY <1>1, <1>2, <1>3, <1>4, <1>5

\* The exit code of a run agrees with the audit of what it left.
THEOREM ExitsTell == Spec => []ExitTellsAudit
<1>1. Init => ExitInv
  BY InitInv DEF ExitInv, Init, ExitTellsAudit
<1>2. ExitInv => ExitTellsAudit
  BY DEF ExitInv
<1>3. QED
  BY <1>1, <1>2, ExitStep, PTL DEF Spec
=============================================================================
