---------------------------- MODULE EvalCapture ----------------------------
(***************************************************************************)
(* One cell of an evaluation (cli/eval_run_golden.py): the operator runs   *)
(* the capture of one output path again and again, each run records dialog *)
(* turns into <output>.tmp, ends by a budget, a wall timeout or a failure, *)
(* and publishes with two renames, the sidecar's and the database's. The   *)
(* process may die between any two steps. eval_audit reads what is left.   *)
(***************************************************************************)
EXTENDS Naturals

CONSTANTS Target,       \* --turn-count, the focal turns a capture must record
          MaxRows,      \* bound: turns recorded by one run
          MaxAttempts,  \* bound: runs of the command that get past its checks
          NoFile,       \* no file at a path
          Corrupt       \* a sidecar that read_sidecar rejects

VARIABLES
    condition,   \* --condition of the cell
    temp,        \* <output>.tmp
    output,      \* the published database
    sidecar,     \* <output>.capture.json
    phase,       \* where the command is, "idle" when it does not run
    attempt,     \* how often it got past its checks
    sink,        \* _SinkState, the in-process account of the run
    runtime,     \* the task of WorldRuntime.run, or the thread of the battery
    expired,     \* the wall deadline is over
    exit,        \* the last exit code; 1 promises nothing
    recorded,    \* history: the runs that wrote their sidecar
    told         \* history: the runs a later flag allowed to be discarded

files == <<temp, output, sidecar>>
history == <<recorded, told>>
vars == <<condition, files, phase, attempt, sink, runtime, expired, exit, history>>

Flags == {"overwrite", "allow_partial_rescue", "force_rescue"}
Conditions == {"natural", "stimulus"}
Phases == {"idle", "opening", "connecting", "starting", "capturing",
           "draining", "closing", "publishing", "renaming"}

\* A capture file: its rows, whether it was checkpointed, and, which the file
\* does not hold, the run it comes from and how that run ended.
Database == [attempt : Nat, focal : Nat, total : Nat, whole : BOOLEAN,
             end : {"open", "complete", "partial", "fatal"}, drained : BOOLEAN]

Reasons == {"fatal_duckdb_insert", "fatal_ollama", "fatal_drain_timeout",
            "fatal_runtime_exception"}

Sidecar == [status : {"complete", "partial", "fatal"},
            stop_reason : Reasons \cup {"complete", "wall_timeout",
                                        "fatal_incomplete_before_target"},
            focal : Nat, total : Nat, drained : BOOLEAN, drainTimeout : BOOLEAN]

ASSUME CaptureAssumption ==
    /\ Target \in Nat \ {0}
    /\ MaxRows \in Nat
    /\ MaxAttempts \in Nat
    /\ NoFile # Corrupt
    /\ NoFile \notin Database \cup Sidecar
    /\ Corrupt \notin Sidecar

Sink == [fatal : Reasons \cup {"none"}, soft : BOOLEAN, drained : BOOLEAN,
         drainTimeout : BOOLEAN, focal : Nat, total : Nat]

FreshSink == [fatal |-> "none", soft |-> FALSE, drained |-> TRUE,
              drainTimeout |-> FALSE, focal |-> 0, total |-> 0]

Blank(a) == [attempt |-> a, focal |-> 0, total |-> 0, whole |-> FALSE,
             end |-> "open", drained |-> FALSE]

RunOf(file) == IF file = NoFile THEN {} ELSE {file.attempt}

Init ==
    /\ condition \in Conditions
    /\ temp = NoFile /\ output = NoFile /\ sidecar = NoFile
    /\ phase = "idle" /\ attempt = 0
    /\ sink = FreshSink /\ runtime = "returned" /\ expired = FALSE
    /\ exit = 1
    /\ recorded = {} /\ told = {}

-----------------------------------------------------------------------------
(* Getting past the checks.                                                *)

\* Mutant: a stale temporary file is discarded without asking.
RefusesOnlyOutput(flags) == output # NoFile /\ "overwrite" \notin flags

\* _resolve_output_paths raises FileExistsError for what it may not discard.
Refuses(flags) ==
    \/ output # NoFile /\ "overwrite" \notin flags
    \/ /\ temp # NoFile
       /\ \/ sidecar = Corrupt /\ "force_rescue" \notin flags
          \/ sidecar \notin {NoFile, Corrupt} /\ "allow_partial_rescue" \notin flags

Refused(flags) ==
    /\ phase = "idle"
    /\ Refuses(flags)
    /\ exit' = 1
    /\ UNCHANGED <<condition, files, phase, attempt, sink, runtime, expired, history>>

\* The sidecar beside a stale temporary file goes first. It may be the one of
\* the published file: the two share its path.
Launch(flags) ==
    /\ phase = "idle" /\ attempt < MaxAttempts
    /\ ~Refuses(flags)
    /\ attempt' = attempt + 1
    /\ sidecar' = IF temp = NoFile THEN sidecar ELSE NoFile
    /\ told' = told \cup (IF "overwrite" \in flags THEN RunOf(output) ELSE {})
                    \cup (IF flags \cap {"allow_partial_rescue", "force_rescue"} = {}
                          THEN {} ELSE RunOf(temp))
    /\ phase' = "opening"
    /\ UNCHANGED <<condition, temp, output, sink, runtime, expired, exit, recorded>>

\* Then the temporary file.
Discard ==
    /\ phase = "opening"
    /\ temp' = NoFile
    /\ phase' = "connecting"
    /\ UNCHANGED <<condition, output, sidecar, attempt, sink, runtime, expired, exit, history>>

Connect ==
    /\ phase = "connecting"
    /\ temp' = Blank(attempt)
    /\ sink' = FreshSink
    /\ phase' = "starting"
    /\ UNCHANGED <<condition, output, sidecar, attempt, runtime, expired, exit, history>>

-----------------------------------------------------------------------------
(* The account of the run.                                                 *)

\* Mutant: whatever came first stays, a soft timeout too.
SetFatalUnlessSoft(s, why) ==
    IF s.fatal = "none" /\ ~s.soft THEN [s EXCEPT !.fatal = why] ELSE s

\* set_fatal: the first reason stays.
SetFatal(s, why) == IF s.fatal = "none" THEN [s EXCEPT !.fatal = why] ELSE s

\* Mutant: a run whose task just ended counts as complete.
StatusAnyCount(s) == IF s.fatal # "none" THEN "fatal"
                     ELSE IF s.soft THEN "partial" ELSE "complete"

\* _resolve_publish_outcome: fatal before partial before short of the target.
Status(s) == IF s.fatal # "none" THEN "fatal"
             ELSE IF s.soft THEN "partial"
             ELSE IF s.focal < Target THEN "fatal" ELSE "complete"

StopReason(s) == IF s.fatal # "none" THEN s.fatal
                 ELSE IF s.soft THEN "wall_timeout"
                 ELSE IF s.focal < Target THEN "fatal_incomplete_before_target"
                 ELSE "complete"

-----------------------------------------------------------------------------
(* The capture.                                                            *)

\* Only the natural condition gives up when the model server is down. Nothing
\* is drained then, and the connection is not checkpointed.
HealthCheckFails ==
    /\ phase = "starting" /\ condition = "natural"
    /\ sink' = SetFatal(sink, "fatal_ollama")
    /\ temp' = [temp EXCEPT !.end = "fatal"]
    /\ phase' = "publishing"
    /\ UNCHANGED <<condition, output, sidecar, attempt, runtime, expired, exit, history>>

StartRuntime ==
    /\ phase = "starting"
    /\ runtime' = "running" /\ expired' = FALSE
    /\ phase' = "capturing"
    /\ UNCHANGED <<condition, files, attempt, sink, exit, history>>

\* The runtime goes on recording while it is drained.
Recording == phase \in {"capturing", "draining"} /\ runtime = "running"

\* The turn sink: an INSERT, then the counters; nothing after a fatal error.
Insert(focal) ==
    /\ Recording
    /\ sink.fatal = "none" /\ sink.total < MaxRows
    /\ temp' = [temp EXCEPT !.total = @ + 1, !.focal = @ + focal]
    /\ sink' = [sink EXCEPT !.total = @ + 1, !.focal = @ + focal]
    /\ UNCHANGED <<condition, output, sidecar, phase, attempt, runtime, expired, exit, history>>

\* An INSERT of the turn sink or of a trace sink raises; the scheduler logs it.
InsertFails(why) ==
    /\ Recording
    /\ why = "fatal_runtime_exception" => condition = "natural"
    /\ sink.fatal = "none"
    /\ sink' = SetFatal(sink, why)
    /\ UNCHANGED <<condition, files, phase, attempt, runtime, expired, exit, history>>

\* The battery ends, or is ended by CaptureFatalError; run() ends once stopped.
RuntimeReturns ==
    /\ Recording
    /\ condition = "stimulus" \/ phase = "draining"
    /\ runtime' = "returned"
    /\ UNCHANGED <<condition, files, phase, attempt, sink, expired, exit, history>>

RuntimeRaises ==
    /\ Recording /\ condition = "natural"
    /\ runtime' = "raised"
    /\ UNCHANGED <<condition, files, phase, attempt, sink, expired, exit, history>>

WallElapses ==
    /\ phase = "capturing" /\ condition = "natural" /\ ~expired
    /\ expired' = TRUE
    /\ UNCHANGED <<condition, files, phase, attempt, sink, runtime, exit, history>>

\* The watchdog looks every half second, in this order: a fatal error, the
\* focal budget, the task, the deadline.
Ended == sink.fatal # "none" \/ sink.focal >= Target \/ runtime # "running"

\* Mutant: the watchdog only waits for the run to end by itself.
WatchdogReturnsOnEndOnly ==
    /\ phase = "capturing" /\ condition = "natural"
    /\ Ended /\ UNCHANGED sink
    /\ phase' = "draining"
    /\ UNCHANGED <<condition, files, attempt, runtime, expired, exit, history>>

WatchdogReturns ==
    /\ phase = "capturing" /\ condition = "natural"
    /\ \/ Ended /\ UNCHANGED sink
       \/ ~Ended /\ expired /\ sink' = [sink EXCEPT !.soft = TRUE]
    /\ phase' = "draining"
    /\ UNCHANGED <<condition, files, attempt, runtime, expired, exit, history>>

\* stop(), then wait_for(runtime_task, grace): it returned, it raised, or the
\* grace is over and it is cancelled.
Drained ==
    /\ runtime = "returned"
    /\ UNCHANGED <<sink, runtime>>

DrainRaises ==
    /\ runtime = "raised"
    /\ sink' = [SetFatal(sink, "fatal_runtime_exception") EXCEPT !.drained = FALSE]
    /\ UNCHANGED runtime

DrainTimesOut ==
    /\ runtime = "running"
    /\ sink' = [SetFatal(sink, "fatal_drain_timeout")
                    EXCEPT !.drained = FALSE, !.drainTimeout = TRUE]
    /\ runtime' = "returned"

Drain ==
    /\ phase = "draining"
    /\ Drained \/ DrainRaises \/ DrainTimesOut
    /\ phase' = "closing"
    /\ UNCHANGED <<condition, files, attempt, expired, exit, history>>

BatteryEnds ==
    /\ phase = "capturing" /\ condition = "stimulus" /\ runtime = "returned"
    /\ phase' = "closing"
    /\ UNCHANGED <<condition, files, attempt, sink, runtime, expired, exit, history>>

\* write_with_checkpoint and the clients' close().
Close ==
    /\ phase = "closing"
    /\ temp' = [temp EXCEPT !.whole = TRUE, !.end = Status(sink),
                            !.drained = sink.drained]
    /\ phase' = "publishing"
    /\ UNCHANGED <<condition, output, sidecar, attempt, sink, runtime, expired, exit, history>>

-----------------------------------------------------------------------------
(* Publishing: the sidecar first, then, unless fatal, the database.        *)

WriteSidecar ==
    /\ phase = "publishing"
    /\ sidecar' = [status |-> Status(sink), stop_reason |-> StopReason(sink),
                   focal |-> sink.focal, total |-> sink.total,
                   drained |-> sink.drained, drainTimeout |-> sink.drainTimeout]
    /\ recorded' = recorded \cup {attempt}
    /\ IF Status(sink) = "fatal" THEN phase' = "idle" /\ exit' = 2
                                 ELSE phase' = "renaming" /\ UNCHANGED exit
    /\ UNCHANGED <<condition, temp, output, attempt, sink, runtime, expired, told>>

Rename ==
    /\ phase = "renaming"
    /\ output' = temp /\ temp' = NoFile
    /\ exit' = IF Status(sink) = "complete" THEN 0 ELSE 3
    /\ phase' = "idle"
    /\ UNCHANGED <<condition, sidecar, attempt, sink, runtime, expired, history>>

\* The process dies, is interrupted, or an exception nobody catches ends it.
Crash ==
    /\ phase # "idle"
    /\ phase' = "idle" /\ exit' = 130
    /\ UNCHANGED <<condition, files, attempt, sink, runtime, expired, history>>

\* The file is damaged outside the program, in a copy between two machines.
CorruptSidecar ==
    /\ phase = "idle" /\ sidecar \notin {NoFile, Corrupt}
    /\ sidecar' = Corrupt /\ exit' = 1
    /\ UNCHANGED <<condition, temp, output, phase, attempt, sink, runtime, expired, history>>

-----------------------------------------------------------------------------
(* eval_audit: the cell as it is on disk, without and with --allow-partial.*)

SameRows ==
    output.total = sidecar.total /\ output.focal = sidecar.focal /\ output.total # 0

Accepted(allowPartial) ==
    \/ sidecar.status = "complete" /\ output.focal >= Target
    \/ sidecar.status = "partial" /\ allowPartial

Audit(allowPartial) ==
    IF sidecar = NoFile THEN 4
    ELSE IF sidecar = Corrupt \/ output = NoFile THEN 5
    ELSE IF ~SameRows THEN 5
    ELSE IF Accepted(allowPartial) THEN 0 ELSE 6

Next ==
    \/ \E flags \in SUBSET Flags : Refused(flags) \/ Launch(flags)
    \/ Discard \/ Connect \/ HealthCheckFails \/ StartRuntime
    \/ \E focal \in {0, 1} : Insert(focal)
    \/ \E why \in {"fatal_duckdb_insert", "fatal_runtime_exception"} : InsertFails(why)
    \/ RuntimeReturns \/ RuntimeRaises \/ WallElapses \/ WatchdogReturns
    \/ Drain \/ BatteryEnds \/ Close \/ WriteSidecar \/ Rename
    \/ Crash \/ CorruptSidecar

\* The watchdog polls, its deadline and the drain's grace are wall time, and the
\* battery is a finite list whose calls are retried a bounded number of times.
Fairness ==
    /\ WF_vars(Discard) /\ WF_vars(Connect)
    /\ WF_vars(HealthCheckFails \/ StartRuntime)
    /\ WF_vars(condition = "stimulus" /\ RuntimeReturns) /\ WF_vars(BatteryEnds)
    /\ WF_vars(WallElapses) /\ WF_vars(WatchdogReturns) /\ WF_vars(Drain)
    /\ WF_vars(Close) /\ WF_vars(WriteSidecar) /\ WF_vars(Rename)

Spec == Init /\ [][Next]_vars /\ Fairness

-----------------------------------------------------------------------------
(* Properties.                                                             *)

\* Every variable has its type (_SinkState, SidecarV1, the files of a cell).
TypeOK ==
    /\ condition \in Conditions
    /\ temp \in Database \cup {NoFile}
    /\ output \in Database \cup {NoFile}
    /\ sidecar \in Sidecar \cup {NoFile, Corrupt}
    /\ phase \in Phases
    /\ attempt \in Nat
    /\ sink \in Sink
    /\ runtime \in {"running", "returned", "raised"}
    /\ expired \in BOOLEAN
    /\ exit \in {0, 1, 2, 3, 130}
    /\ recorded \subseteq Nat /\ told \subseteq Nat

\* A cell that eval_audit passes, with or without --allow-partial, holds a
\* database that was checkpointed after its runtime had been drained and whose
\* run had no fatal error: also when the fatal error came after the soft timeout
\* or the budget, and also when a crash left the sidecar of another run beside
\* it (_publish_capture, _SinkState.set_fatal).
AuditedIsSound ==
    Audit(TRUE) = 0 => output.whole /\ output.drained /\ output.end # "fatal"

\* The exit code of a run agrees with the audit of the cell it leaves: 0 passes,
\* 3 passes only with --allow-partial (and if it recorded anything: a database
\* without rows has no run_id to match), 2 never passes, although an earlier
\* run's database may still be published there (_publish_capture, _audit_single).
ExitTellsAudit ==
    phase = "idle" =>
        /\ exit = 0 => Audit(FALSE) = 0
        /\ exit = 3 => Audit(FALSE) # 0 /\ (sidecar.total # 0 => Audit(TRUE) = 0)
        /\ exit = 2 => Audit(TRUE) # 0

\* The database of a run that got as far as its sidecar stays on disk, under one
\* of its two names, until a later run is started with a flag that gives it up:
\* no crash between two steps of resolving, capturing or publishing loses it
\* (_resolve_output_paths).
FinishedIsKept == recorded \subseteq RunOf(temp) \cup RunOf(output) \cup told

\* Every run ends, whatever hangs: the watchdog has its deadline and the drain
\* its grace (capture_natural, capture_stimulus).
CaptureEnds == phase # "idle" ~> phase = "idle"
=============================================================================
