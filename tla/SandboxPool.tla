----------------------------- MODULE SandboxPool -----------------------------
(***************************************************************************)
(* The warm pool of sandboxes, internal/runtime/pool/pool.go, with its     *)
(* only client, runInSandbox of internal/mcp/broker.go.                    *)
(*                                                                         *)
(* The goroutines are the HTTP handlers that run a tool (Clients), one     *)
(* refill goroutine `go p.replenish()` for every sandbox whose Reset       *)
(* failed (named by that sandbox, which fails at most once), the           *)
(* constructor New, and the caller of Close.  A step is what happens       *)
(* between two points at which another goroutine may run: a channel        *)
(* operation, a section under p.mu, or one call of the driver.             *)
(*                                                                         *)
(* A sandbox is a directory: `disk` is the set of those that exist.  The   *)
(* files in one are SandboxExec's subject.                                 *)
(***************************************************************************)
EXTENDS Integers, Sequences, FiniteSets

CONSTANTS Clients,     \* handlers that call runInSandbox
          Sandboxes,   \* sandbox ids driver.New may draw (a bound; ids are random)
          Size,        \* the size given to New (config sandbox pool size)
          Undeletable, \* those whose directory os.RemoveAll may fail to remove (a bound)
          None         \* no sandbox (Go's nil)

ASSUME PoolAssumption ==
  /\ Size \in Int
  /\ Clients \intersect Sandboxes = {}
  /\ None \notin Clients \union Sandboxes

\* The refill goroutine spawned after sandbox s failed to reset is named s.
Goroutines == Clients \union Sandboxes

\* New: a size below one becomes one; this is also the channel's capacity.
Cap == IF Size < 1 THEN 1 ELSE Size

VARIABLES
  phase,     \* "warming" in New, "up", "failed" (New returned an error), "crashed"
  ready,     \* buffer of the channel p.ready
  all,       \* p.all, the tracked sandboxes
  closer,    \* progress of Close
  closing,   \* Close's local copy of p.all, what is left to destroy
  born,      \* sandboxes the driver has made
  disk,      \* sandboxes whose directory exists
  pc, held,  \* per goroutine: next step, and the sandbox in its variable sb
  refills,   \* history: refill goroutines ever spawned
  lost,      \* history: refill goroutines that gave up on a driver error
  undeleted  \* history: sandboxes whose last Destroy failed

vars == <<phase, ready, all, closer, closing, born, disk, pc, held,
          refills, lost, undeleted>>

\* The histories, which no guard reads.
history == <<refills, lost, undeleted>>

closed   == closer # "none"                 \* p.closed
chanOpen == closer \in {"none", "marked"}   \* close(p.ready) not reached yet

ToSet(q) == {q[i] : i \in 1..Len(q)}
Distinct(q) == \A i, j \in 1..Len(q) : q[i] = q[j] => i = j

Goto(g, l) == pc' = [pc EXCEPT ![g] = l]
Drop(g)    == held' = [held EXCEPT ![g] = None]

\* driver.Destroy, os.RemoveAll of the directory: if it fails, every caller drops the
\* error and goes on; a directory that is gone already is no error.
Destroy(s) ==
  \/ disk' = disk \ {s} /\ undeleted' = undeleted \ {s}
  \/ /\ s \in disk \intersect Undeletable
     /\ undeleted' = undeleted \union {s} /\ UNCHANGED disk

Init ==
  /\ phase = "warming" /\ closer = "none"
  /\ ready = <<>> /\ all = {} /\ closing = {}
  /\ born = {} /\ disk = {}
  /\ pc = [g \in Goroutines |-> "idle"] /\ held = [g \in Goroutines |-> None]
  /\ refills = {} /\ lost = {} /\ undeleted = {}

-----------------------------------------------------------------------------
(* The constructor: no other goroutine knows the pool yet.                  *)

\* One iteration of the loop: driver.New, track, p.ready <- sb.
Warm(s) ==
  /\ phase = "warming" /\ Len(ready) < Cap
  /\ s \in Sandboxes \ born
  /\ born' = born \union {s} /\ disk' = disk \union {s}
  /\ all' = all \union {s} /\ ready' = Append(ready, s)
  /\ UNCHANGED <<phase, closer, closing, pc, held, history>>

\* driver.New failed: New calls p.Close() and returns the error.
WarmFail ==
  /\ phase = "warming" /\ Len(ready) < Cap
  /\ phase' = "failed"
  /\ closer' = "marked" /\ closing' = all /\ all' = {}
  /\ UNCHANGED <<ready, born, disk, pc, held, history>>

WarmDone ==
  /\ phase = "warming" /\ Len(ready) = Cap
  /\ phase' = "up"
  /\ UNCHANGED <<ready, all, closer, closing, born, disk, pc, held, history>>

-----------------------------------------------------------------------------
(* A handler in runInSandbox: Acquire, Exec, deferred Release.              *)

Call(c) ==
  /\ phase = "up" /\ pc[c] = "idle"
  /\ Goto(c, "acquire")
  /\ UNCHANGED <<phase, ready, all, closer, closing, born, disk, held, history>>

\* Deliberate error used as a mutant: the receive leaves the sandbox in the channel.
AcquireReady_Peek(c) ==
  /\ phase = "up" /\ pc[c] = "acquire" /\ ready # <<>>
  /\ held' = [held EXCEPT ![c] = Head(ready)]
  /\ Goto(c, "using")
  /\ UNCHANGED <<phase, ready, all, closer, closing, born, disk, history>>

\* `case sb := <-p.ready` finds a buffered sandbox (open or closed channel alike).
AcquireReady(c) ==
  /\ phase = "up" /\ pc[c] = "acquire" /\ ready # <<>>
  /\ ready' = Tail(ready)
  /\ held' = [held EXCEPT ![c] = Head(ready)]
  /\ Goto(c, "using")
  /\ UNCHANGED <<phase, all, closer, closing, born, disk, history>>

\* On the closed, drained channel the same receive yields (nil, nil).
AcquireNil(c) ==
  /\ phase = "up" /\ pc[c] = "acquire" /\ ready = <<>> /\ ~chanOpen
  /\ Goto(c, "using") /\ Drop(c)
  /\ UNCHANGED <<phase, ready, all, closer, closing, born, disk, history>>

\* The select takes its default branch.
AcquireEmpty(c) ==
  /\ phase = "up" /\ pc[c] = "acquire" /\ ready = <<>> /\ chanOpen
  /\ Goto(c, "create")
  /\ UNCHANGED <<phase, ready, all, closer, closing, born, disk, held, history>>

\* sb.Exec on a nil interface panics; net/http recovers it, the goroutine is gone.
ExecNil(c) ==
  /\ phase = "up" /\ pc[c] = "using" /\ held[c] = None
  /\ Goto(c, "panicked")
  /\ UNCHANGED <<phase, ready, all, closer, closing, born, disk, held, history>>

\* Exec writes the request's files; MkdirAll remakes a directory that is gone.
ExecWrite(c) ==
  /\ phase = "up" /\ pc[c] = "using" /\ held[c] # None
  /\ disk' = disk \union {held[c]}
  /\ Goto(c, "running")
  /\ UNCHANGED <<phase, ready, all, closer, closing, born, held, history>>

\* Writing the files fails (or the request is refused) before anything ran.
ExecError(c) ==
  /\ phase = "up" /\ pc[c] = "using" /\ held[c] # None
  /\ Goto(c, "release")
  /\ UNCHANGED <<phase, ready, all, closer, closing, born, disk, held, history>>

\* The command ends (any exit, or the timeout); it may have removed its directory.
ExecEnd(c) ==
  /\ phase = "up" /\ pc[c] = "running"
  /\ disk' \in {disk, disk \ {held[c]}}
  /\ Goto(c, "release")
  /\ UNCHANGED <<phase, ready, all, closer, closing, born, held, history>>

\* Deliberate error used as a mutant: Release on a closed pool just returns.
ReleaseClosed_Keep(c) ==
  /\ phase = "up" /\ pc[c] = "release" /\ closed
  /\ Goto(c, "idle") /\ Drop(c)
  /\ UNCHANGED <<phase, ready, all, closer, closing, born, disk, history>>

\* Release on a closed pool destroys the sandbox.
ReleaseClosed(c) ==
  /\ phase = "up" /\ pc[c] = "release" /\ closed
  /\ Destroy(held[c])
  /\ Goto(c, "idle") /\ Drop(c)
  /\ UNCHANGED <<phase, ready, all, closer, closing, born, refills, lost>>

\* Release on an open pool goes on to Reset; the lock is no longer held.
ReleaseOpen(c) ==
  /\ phase = "up" /\ pc[c] = "release" /\ ~closed
  /\ Goto(c, "reset")
  /\ UNCHANGED <<phase, ready, all, closer, closing, born, disk, held, history>>

\* Deliberate error used as a mutant: Reset reports success for a missing directory.
ResetOk_Blind(c) ==
  /\ phase = "up" /\ pc[c] = "reset"
  /\ Goto(c, "send")
  /\ UNCHANGED <<phase, ready, all, closer, closing, born, disk, held, history>>

\* Reset ignores the errors of RemoveAll: it may return nil with files left.
ResetOk(c) ==
  /\ phase = "up" /\ pc[c] = "reset" /\ held[c] \in disk
  /\ Goto(c, "send")
  /\ UNCHANGED <<phase, ready, all, closer, closing, born, disk, held, history>>

\* ReadDir fails (always, when the directory is gone): Release destroys the sandbox.
ResetFail(c) ==
  /\ phase = "up" /\ pc[c] = "reset"
  /\ Destroy(held[c])
  /\ Goto(c, "forget")
  /\ UNCHANGED <<phase, ready, all, closer, closing, born, held, refills, lost>>

\* Deliberate error used as a mutant: no replacement is created.
Forget_NoRefill(c) ==
  /\ phase = "up" /\ pc[c] = "forget"
  /\ all' = all \ {held[c]}
  /\ Goto(c, "idle") /\ Drop(c)
  /\ UNCHANGED <<phase, ready, closer, closing, born, disk, history>>

\* delete(p.all, id), then `go p.replenish()`.
Forget(c) ==
  /\ phase = "up" /\ pc[c] = "forget"
  /\ all' = all \ {held[c]}
  /\ pc' = [pc EXCEPT ![c] = "idle", ![held[c]] = "spawned"]
  /\ refills' = refills \union {held[c]}
  /\ Drop(c)
  /\ UNCHANGED <<phase, ready, closer, closing, born, disk, lost, undeleted>>

-----------------------------------------------------------------------------
(* Steps that Acquire, Release and replenish share.                         *)

\* replenish reads p.closed under the lock and lets it go.
RefillCheck(r) ==
  /\ phase = "up" /\ pc[r] = "spawned"
  /\ Goto(r, IF closed THEN "idle" ELSE "create")
  /\ UNCHANGED <<phase, ready, all, closer, closing, born, disk, held, history>>

Create(g, s) ==
  /\ phase = "up" /\ pc[g] = "create" /\ s \in Sandboxes \ born
  /\ born' = born \union {s} /\ disk' = disk \union {s}
  /\ held' = [held EXCEPT ![g] = s]
  /\ Goto(g, "track")
  /\ UNCHANGED <<phase, ready, all, closer, closing, history>>

\* driver.New fails: Acquire returns the error, replenish gives up silently.
CreateFail(g) ==
  /\ phase = "up" /\ pc[g] = "create"
  /\ Goto(g, "idle")
  /\ lost' = lost \union ({g} \intersect Sandboxes)
  /\ UNCHANGED <<phase, ready, all, closer, closing, born, disk, held,
                 refills, undeleted>>

\* track: under the lock, whatever the value of p.closed.
Track(g) ==
  /\ phase = "up" /\ pc[g] = "track"
  /\ all' = all \union {held[g]}
  /\ Goto(g, IF g \in Clients THEN "using" ELSE "send")
  /\ UNCHANGED <<phase, ready, closer, closing, born, disk, held, history>>

\* `case p.ready <- sb` with room in the buffer.
SendReady(g) ==
  /\ phase = "up" /\ pc[g] = "send" /\ chanOpen /\ Len(ready) < Cap
  /\ ready' = Append(ready, held[g])
  /\ Goto(g, "idle") /\ Drop(g)
  /\ UNCHANGED <<phase, all, closer, closing, born, disk, history>>

\* Deliberate error used as a mutant: the surplus sandbox is forgotten, not destroyed.
SendFull_Leak(g) ==
  /\ phase = "up" /\ pc[g] = "send" /\ chanOpen /\ Len(ready) >= Cap
  /\ Goto(g, "untrack")
  /\ UNCHANGED <<phase, ready, all, closer, closing, born, disk, held, history>>

\* The default branch: the surplus sandbox is destroyed.
SendFull(g) ==
  /\ phase = "up" /\ pc[g] = "send" /\ chanOpen /\ Len(ready) >= Cap
  /\ Destroy(held[g])
  /\ Goto(g, "untrack")
  /\ UNCHANGED <<phase, ready, all, closer, closing, born, held, refills, lost>>

\* A send on the closed channel panics even in a select with a default: in a
\* handler net/http recovers it, in a refill goroutine the process dies.
SendClosed(g) ==
  /\ phase = "up" /\ pc[g] = "send" /\ ~chanOpen
  /\ Goto(g, "panicked")
  /\ phase' = IF g \in Clients THEN phase ELSE "crashed"
  /\ UNCHANGED <<ready, all, closer, closing, born, disk, held, history>>

\* delete(p.all, id) after the surplus was destroyed.
Untrack(g) ==
  /\ phase = "up" /\ pc[g] = "untrack"
  /\ all' = all \ {held[g]}
  /\ Goto(g, "idle") /\ Drop(g)
  /\ UNCHANGED <<phase, ready, closer, closing, born, disk, history>>

-----------------------------------------------------------------------------
(* Close, called once by Engine.Close (or by New on failure); a second call *)
(* returns at once.                                                         *)

Close ==
  /\ phase = "up" /\ closer = "none"
  /\ closer' = "marked" /\ closing' = all /\ all' = {}
  /\ UNCHANGED <<phase, ready, born, disk, pc, held, history>>

CloseChannel ==
  /\ phase \in {"up", "failed"} /\ closer = "marked"
  /\ closer' = "draining"
  /\ UNCHANGED <<phase, ready, all, closing, born, disk, pc, held, history>>

\* `for range p.ready`: one receive, or the end of the loop.
Drain ==
  /\ phase \in {"up", "failed"} /\ closer = "draining"
  /\ \/ /\ ready # <<>>
        /\ ready' = Tail(ready) /\ UNCHANGED closer
     \/ /\ ready = <<>>
        /\ closer' = "destroying" /\ UNCHANGED ready
  /\ UNCHANGED <<phase, all, closing, born, disk, pc, held, history>>

\* One iteration over the captured map, in any order.
DestroyOne(s) ==
  /\ phase \in {"up", "failed"} /\ closer = "destroying" /\ s \in closing
  /\ Destroy(s) /\ closing' = closing \ {s}
  /\ UNCHANGED <<phase, ready, all, closer, born, pc, held, refills, lost>>

CloseDone ==
  /\ phase \in {"up", "failed"} /\ closer = "destroying" /\ closing = {}
  /\ closer' = "done"
  /\ UNCHANGED <<phase, ready, all, closing, born, disk, pc, held, history>>

-----------------------------------------------------------------------------

\* The steps a client takes on its own once it has called runInSandbox.
ClientStep(c) ==
  \/ AcquireReady(c) \/ AcquireNil(c) \/ AcquireEmpty(c)
  \/ ExecNil(c) \/ ExecWrite(c) \/ ExecError(c) \/ ExecEnd(c)
  \/ ReleaseClosed(c) \/ ReleaseOpen(c)
  \/ ResetOk(c) \/ ResetFail(c) \/ Forget(c)

\* The steps of a client or of a refill goroutine.
SharedStep(g) ==
  \/ \E s \in Sandboxes : Create(g, s)
  \/ CreateFail(g) \/ Track(g)
  \/ SendReady(g) \/ SendFull(g) \/ SendClosed(g) \/ Untrack(g)

CloserStep ==
  \/ CloseChannel \/ Drain
  \/ \E s \in Sandboxes : DestroyOne(s)
  \/ CloseDone

Next ==
  \/ \E s \in Sandboxes : Warm(s)
  \/ WarmFail \/ WarmDone
  \/ \E c \in Clients : Call(c) \/ ClientStep(c)
  \/ \E r \in Sandboxes : RefillCheck(r)
  \/ \E g \in Goroutines : SharedStep(g)
  \/ Close \/ CloserStep

Spec == Init /\ [][Next]_vars

\* The Go scheduler runs every goroutine that can run, and Exec ends by its
\* timeout.  Nothing forces a handler to call or the daemon to close the pool.
Fairness ==
  /\ \A c \in Clients : WF_vars(ClientStep(c))
  /\ \A g \in Goroutines : WF_vars(SharedStep(g))
  /\ \A r \in Sandboxes : WF_vars(RefillCheck(r))
  /\ WF_vars(CloserStep)
  /\ WF_vars(WarmDone \/ \E s \in Sandboxes : Warm(s))

FairSpec == Spec /\ Fairness

-----------------------------------------------------------------------------
(* Properties.                                                              *)

PCs == {"idle", "acquire", "create", "track", "using", "running", "release",
        "reset", "forget", "send", "untrack", "spawned", "panicked"}

\* The variables hold values of their types; the channel never exceeds its capacity.
TypeOK ==
  /\ phase \in {"warming", "up", "failed", "crashed"}
  /\ closer \in {"none", "marked", "draining", "destroying", "done"}
  /\ ready \in Seq(Sandboxes) /\ Len(ready) <= Cap
  /\ all \in SUBSET Sandboxes /\ closing \in SUBSET Sandboxes
  /\ born \in SUBSET Sandboxes /\ disk \in SUBSET Sandboxes
  /\ pc \in [Goroutines -> PCs]
  /\ held \in [Goroutines -> Sandboxes \union {None}]
  /\ refills \in SUBSET Sandboxes /\ lost \in SUBSET Sandboxes
  /\ undeleted \in SUBSET Sandboxes

HeldBy(G) == {held[g] : g \in G} \ {None}

\* A sandbox has one owner: it is once in the channel, or in the hands of one
\* goroutine (Acquire, Release and replenish never share or duplicate it).
ExclusiveOwnership ==
  /\ Distinct(ready)
  /\ \A g \in Goroutines : held[g] \notin ToSet(ready)
  /\ \A g, h \in Goroutines : held[g] = held[h] /\ held[g] # None => g = h

\* Until Close, a sandbox that waits in the channel or has just been acquired
\* still has its directory: Release passes on only what Reset found in place.  Acquire
\* returns no sandbox without an error only after Close has closed the channel.
LentIsAlive ==
  /\ ~closed => /\ ToSet(ready) \subseteq disk
                /\ \A c \in Clients : pc[c] = "using" => held[c] \in disk
  /\ chanOpen => \A c \in Clients : pc[c] = "using" => held[c] # None

\* Until Close, p.all is exactly what is in the channel or in use, so that Close
\* can find it, and a directory that nobody owns is one whose Destroy has failed.
OpenPoolAccounts ==
  ~closed => /\ all = ToSet(ready) \union HeldBy({g \in Goroutines : pc[g] # "track"})
             /\ disk \subseteq ToSet(ready) \union HeldBy(Goroutines) \union undeleted

\* No goroutine is inside a pool operation or a run.
Quiet == \A g \in Goroutines : pc[g] \in {"idle", "panicked"}

\* Once Close has returned and the goroutines still running have finished, a directory
\* is left in two ways only: a Destroy failed on it, or a refill goroutine had its
\* sandbox tracked in p.all after Close took the map.  Sandboxes created or returned
\* by handlers while Close runs are destroyed.  It holds too if New failed.
CloseReclaims ==
  closer = "done" /\ Quiet =>
    disk \subseteq undeleted \union (IF refills = {} THEN {} ELSE all)

\* pool.go:124 "Close destroys all sandboxes" (contradicted: a refill that passed
\* its check before Close tracks and sends its sandbox after Close took the map).
CloseDestroysAll ==
  closer = "done" /\ Quiet /\ phase = "up" => disk \subseteq undeleted

\* If from some point on nobody calls, Close is never called and no refill fails,
\* the pool becomes and stays fully warm: replenishing is asynchronous but happens.
EventuallyWarm ==
  (/\ <>[](\A c \in Clients : pc[c] = "idle")
   /\ [](phase # "failed" /\ ~closed /\ lost = {}))
  => <>[](Len(ready) = Cap)

-----------------------------------------------------------------------------
(* Statements of the documentation that the code does not keep (README,     *)
(* "Divergences").  They are no part of what the runs check.                *)

\* pool.go:2 "keeping a configured number pre-baked" (contradicted: replenish
\* gives up on a driver error and nothing tries again).
KeepsWarm ==
  phase = "up" /\ ~closed /\ Quiet => Len(ready) = Cap

\* pool.go:54 "Acquire returns a ready sandbox" (contradicted after Close: a
\* receive from the closed channel returns a nil sandbox and a nil error).
AcquireGivesSandbox ==
  \A c \in Clients : pc[c] = "using" => held[c] # None

-----------------------------------------------------------------------------
(* The inductive invariant behind ExclusiveOwnership, LentIsAlive,           *)
(* OpenPoolAccounts and CloseReclaims.                                       *)

Empty == {"idle", "acquire", "create", "spawned"}
Busy  == {"track", "running", "release", "reset", "forget", "send", "untrack"}

\* A goroutine at one of these steps has a sandbox in hand.
HandsFull == \A g \in Goroutines : pc[g] \in Busy => held[g] # None

\* Goroutines between two sandboxes have none in hand;
\* only sandboxes the driver made are owned or on disk; a sandbox whose refill was
\* spawned has left the pool; nobody runs while New is warming.
Origins ==
  /\ \A g \in Goroutines : pc[g] \in Empty => held[g] = None
  /\ disk \subseteq born
  /\ ToSet(ready) \subseteq born
  /\ \A g \in Goroutines : held[g] \in born \union {None}
  /\ refills \subseteq born
  /\ \A r \in refills : r \notin ToSet(ready) /\ \A g \in Goroutines : held[g] # r
  /\ \A r \in Sandboxes : pc[r] # "idle" => r \in refills
  /\ phase = "warming" => ~closed /\ \A g \in Goroutines : pc[g] = "idle"

\* The directory of a sandbox, step by step.
Directories ==
  /\ \A g \in Goroutines : pc[g] \in {"forget", "untrack"} =>
        held[g] \notin disk \ undeleted
  /\ ~closed => \A g \in Goroutines :
                  pc[g] \in {"track", "using", "send"} => held[g] \in disk

\* After Close took the map, a directory is still to be destroyed by Close, or in the
\* hands of a client that will find the pool closed, or a Destroy failed on it, or a
\* refill made it and it is tracked in the new map, or about to be.
ClosingCovers ==
  closed =>
    \A s \in disk \ undeleted :
      \/ s \in closing
      \/ \E c \in Clients : /\ held[c] = s
                            /\ pc[c] \in {"track", "using", "running", "release"}
      \/ /\ refills # {}
         /\ s \in all \/ \E r \in Sandboxes : held[r] = s /\ pc[r] = "track"

\* Close is through with its map once it is done.
DoneIsDone == closer = "done" => closing = {}

-----------------------------------------------------------------------------
(* What the pool promises its clients, PoolContract, under the mapping: a    *)
(* client borrows a sandbox from Acquire's return to the send in Release; a  *)
(* refill's sandbox exists for the clients when it is in the channel.        *)

Lent(c) == IF pc[c] \in {"using", "running", "release", "reset", "send"}
           THEN held[c] ELSE None

\* A refill's or an Acquire's sandbox that is made but not yet handed out.
InMaking == HeldBy({g \in Goroutines : pc[g] = "track"})
            \union HeldBy({r \in Sandboxes : pc[r] = "send"})

HandedOut == {Lent(c) : c \in Clients} \ {None}

LentTo  == [c \in Clients |-> Lent(c)]
Retired == born \ (ToSet(ready) \union InMaking \union HandedOut)

Contract == INSTANCE PoolContract WITH
  idle <- ToSet(ready), lent <- LentTo, retired <- Retired

\* The pool implements the contract: a sandbox is lent to one client at a time,
\* and one that was retired is never lent again.
ImplementsContract == Contract!Spec

=============================================================================
