------------------------------ MODULE SandboxExec ------------------------------
(***************************************************************************)
(* Consecutive uses of one sandbox, internal/runtime/sandbox: Exec and     *)
(* Reset of local.go (gvisor.go has the same steps around "docker run"),   *)
(* with the processes a use leaves behind.                                 *)
(*                                                                         *)
(* exec.CommandContext kills the process it started and no other, and      *)
(* cmd.Run waits until nobody holds the pipes of the output.               *)
(***************************************************************************)
EXTENDS Integers

CONSTANT MaxUses  \* bound: uses of the sandbox

ASSUME ExecAssumption == MaxUses \in Nat

Uses == 1..MaxUses

\* The process that Exec starts, and one it starts itself.
Main(u)  == <<u, "main">>
Child(u) == <<u, "child">>
Procs    == Uses \X {"main", "child"}

VARIABLES
  use,     \* the current use
  at,      \* "ready", "start", "run", "returned", "reset", "gone"
  ctx,     \* runCtx: "live", "deadline", "cancelled"
  alive,   \* processes that run
  pipes,   \* those that hold the stdout and stderr of their use
  forked,  \* uses whose process has started a second one
  exit,    \* how the process of the current use ended: "none", "zero", "other", "killed"
  dir,     \* files of the sandbox's directory, by the use that wrote them
  listed,  \* those in the listing Reset works from
  stuck,   \* history: uses with a file that RemoveAll could not remove
  result   \* per use: what Exec returned

execVars == <<use, at, ctx, alive, pipes, forked, exit, dir, listed, stuck, result>>

Outcomes == {"none", "zero", "other", "killed", "timeout", "error"}

ExecInit ==
  /\ use = 0 /\ at = "ready" /\ ctx = "live" /\ exit = "none"
  /\ alive = {} /\ pipes = {} /\ forked = {}
  /\ dir = {} /\ listed = {} /\ stuck = {}
  /\ result = [u \in Uses |-> "none"]

Returns(what) == result' = [result EXCEPT ![use] = what] /\ at' = "returned"

-----------------------------------------------------------------------------
(* Exec.                                                                    *)

\* Exec is called and writes the input files; the timer starts after them.
Exec ==
  /\ at = "ready" /\ use < MaxUses
  /\ use' = use + 1
  /\ dir' = dir \union {use + 1}
  /\ ctx' = "live" /\ exit' = "none" /\ at' = "start"
  /\ UNCHANGED <<alive, pipes, forked, listed, result, stuck>>

\* A file cannot be written, with some written before it.
WriteFails ==
  /\ at = "ready" /\ use < MaxUses
  /\ use' = use + 1
  /\ dir' \in {dir, dir \union {use + 1}}
  /\ ctx' = "live" /\ exit' = "none"
  /\ result' = [result EXCEPT ![use + 1] = "error"] /\ at' = "returned"
  /\ UNCHANGED <<alive, pipes, forked, listed, stuck>>

\* The timer of runCtx, and the cancellation of the caller's context.
Deadline ==
  /\ at \in {"start", "run"} /\ ctx = "live"
  /\ ctx' = "deadline"
  /\ UNCHANGED <<use, at, alive, pipes, forked, exit, dir, listed, result, stuck>>

Cancel ==
  /\ at \in {"start", "run"} /\ ctx = "live"
  /\ ctx' = "cancelled"
  /\ UNCHANGED <<use, at, alive, pipes, forked, exit, dir, listed, result, stuck>>

\* cmd.Start looks at the context first.
StartProc ==
  /\ at = "start" /\ ctx = "live"
  /\ alive' = alive \union {Main(use)} /\ pipes' = pipes \union {Main(use)}
  /\ at' = "run"
  /\ UNCHANGED <<use, ctx, forked, exit, dir, listed, result, stuck>>

\* The context is done, or the command cannot be started.
StartFails ==
  /\ at = "start"
  /\ Returns(IF ctx = "deadline" THEN "timeout" ELSE "error")
  /\ UNCHANGED <<use, ctx, alive, pipes, forked, exit, dir, listed, stuck>>

Ended(how) ==
  /\ alive' = alive \ {Main(use)} /\ pipes' = pipes \ {Main(use)}
  /\ exit' = how
  /\ UNCHANGED <<use, at, ctx, forked, dir, listed, result, stuck>>

Exits(how) ==
  /\ at = "run" /\ Main(use) \in alive
  /\ Ended(how)

\* Deliberate error used as a mutant: the command is bound to the caller's context.
Kill_Caller ==
  /\ at = "run" /\ ctx = "cancelled" /\ Main(use) \in alive
  /\ Ended("killed")

\* The goroutine of cmd that watches the context kills the process.
Kill ==
  /\ at = "run" /\ ctx # "live" /\ Main(use) \in alive
  /\ Ended("killed")

\* Deliberate error used as a mutant: the exit status is looked at before the context.
Return_ExitFirst ==
  /\ at = "run" /\ Main(use) \notin alive
  /\ \A p \in pipes : p[1] # use
  /\ Returns(exit)
  /\ UNCHANGED <<use, ctx, alive, pipes, forked, exit, dir, listed, stuck>>

\* cmd.Run returns once the pipes are closed, and Exec looks at the context, then
\* at the exit.  A process that ended just as its context was cancelled may give
\* the context's error.
Return ==
  /\ at = "run" /\ Main(use) \notin alive
  /\ \A p \in pipes : p[1] # use
  /\ IF ctx = "deadline" THEN Returns("timeout")
     ELSE \/ Returns(exit)
          \/ ctx = "cancelled" /\ exit = "zero" /\ Returns("error")
  /\ UNCHANGED <<use, ctx, alive, pipes, forked, exit, dir, listed, stuck>>

-----------------------------------------------------------------------------
(* The processes.                                                           *)

\* A process starts another, which keeps the pipes or has its output elsewhere.
Fork ==
  /\ Main(use) \in alive /\ use \notin forked
  /\ alive' = alive \union {Child(use)} /\ forked' = forked \union {use}
  /\ \/ pipes' = pipes \union {Child(use)}
     \/ UNCHANGED pipes
  /\ UNCHANGED <<use, at, ctx, exit, dir, listed, result, stuck>>

\* It ends, if ever, by itself.
ChildEnds(u) ==
  /\ Child(u) \in alive
  /\ alive' = alive \ {Child(u)} /\ pipes' = pipes \ {Child(u)}
  /\ UNCHANGED <<use, at, ctx, forked, exit, dir, listed, result, stuck>>

\* A process writes a file that no earlier listing has.
Writes(p) ==
  /\ p \in alive
  /\ dir' = dir \union {p[1]} /\ listed' = listed \ {p[1]}
  /\ UNCHANGED <<use, at, ctx, alive, pipes, forked, exit, result, stuck>>

-----------------------------------------------------------------------------
(* Reset, by the pool's Release.                                            *)

\* os.ReadDir
ListDir ==
  /\ at = "returned"
  /\ listed' = dir
  /\ at' = "reset"
  /\ UNCHANGED <<use, ctx, alive, pipes, forked, exit, dir, result, stuck>>

\* It fails, and Release destroys the sandbox: its directory is removed.
ListFails ==
  /\ at = "returned"
  /\ dir' = {} /\ at' = "gone"
  /\ UNCHANGED <<use, ctx, alive, pipes, forked, exit, listed, result, stuck>>

\* Deliberate error used as a mutant: nothing is removed.
RemoveListed_Keep ==
  /\ at = "reset"
  /\ listed' = {} /\ at' = "ready"
  /\ UNCHANGED <<use, ctx, alive, pipes, forked, exit, dir, result, stuck>>

\* The entries of the listing are removed; the error of RemoveAll is dropped, so
\* some may stay.
RemoveListed ==
  /\ at = "reset"
  /\ \E left \in SUBSET listed :
       dir' = (dir \ listed) \union left /\ stuck' = stuck \union left
  /\ listed' = {} /\ at' = "ready"
  /\ UNCHANGED <<use, ctx, alive, pipes, forked, exit, result>>

ExecStep == Exec \/ Deadline \/ StartProc \/ StartFails \/ Kill \/ Return

ExecNext ==
  \/ ExecStep \/ WriteFails \/ Cancel
  \/ Exits("zero") \/ Exits("other")
  \/ Fork \/ \E u \in Uses : ChildEnds(u)
  \/ \E p \in Procs : Writes(p)
  \/ ListDir \/ ListFails \/ RemoveListed

ExecSpec == ExecInit /\ [][ExecNext]_execVars

\* Timers fire, the kernel kills and the goroutines of Exec run; no process has to end.
ExecFairSpec == ExecSpec /\ WF_execVars(Deadline) /\ WF_execVars(StartProc \/ StartFails)
                         /\ WF_execVars(Kill) /\ WF_execVars(Return)

-----------------------------------------------------------------------------
(* Properties.                                                              *)

\* The variables hold values of their types; a process belongs to a use that began.
ExecTypeOK ==
  /\ use \in 0..MaxUses
  /\ at \in {"ready", "start", "run", "returned", "reset", "gone"}
  /\ at # "ready" => use \in Uses
  /\ ctx \in {"live", "deadline", "cancelled"}
  /\ alive \in SUBSET Procs /\ pipes \in SUBSET alive
  /\ \A p \in alive : p[1] \in 1..use
  /\ forked \in SUBSET Uses
  /\ exit \in {"none", "zero", "other", "killed"}
  /\ dir \in SUBSET Uses /\ listed \in SUBSET Uses /\ stuck \in SUBSET Uses
  /\ result \in [Uses -> Outcomes]

InExec == at \in {"start", "run"}

\* Exit code 0 is what the process itself gave, in a use whose deadline had not
\* passed when Exec returned; a use past its deadline is reported as timed out, and
\* as nothing else.  What Exec returns is complete: the process has ended and nobody
\* can write to the output any more.
ResultIsHonest ==
  /\ at = "returned" =>
       /\ result[use] = "zero" => exit = "zero" /\ ctx # "deadline"
       /\ result[use] = "timeout" <=> ctx = "deadline"
  /\ \A u \in 1..use : ~(InExec /\ u = use) =>
       Main(u) \notin alive /\ \A p \in pipes : p[1] # u

\* Files of an earlier use are in the directory of a later one only if that use had
\* left a process behind, which may write after Reset had its listing, or RemoveAll
\* failed: what a use wrote while it was running is removed.
StaleFilesHaveWriter ==
  at \in {"ready", "start", "run"} =>
    \A u \in dir : u < use \/ (u = use /\ at = "ready") => u \in forked \union stuck

\* Exec returns, timed out or not; the one thing that can keep it waiting for ever is a
\* process the command left behind that never closes the output pipes.
ExecReturns ==
  \/ []<>~InExec
  \/ <>[](InExec /\ Child(use) \in pipes)

-----------------------------------------------------------------------------
(* Statements of the documentation that the code does not keep (README,     *)
(* "Divergences").  They are no part of what the runs check.                *)

\* procattr_unix.go:10 "puts the child in its own process group so a timeout kills
\* the whole group, preventing orphaned runaway processes" (contradicted: the group is
\* made, but what is killed is the one process).
GroupIsKilled ==
  at = "returned" /\ result[use] = "timeout" => \A p \in alive : p[1] # use

=============================================================================
