------------------------------ MODULE EbdPool ------------------------------
(***************************************************************************)
(* The pool of ebuild processors (ebuild/processor.py) under a threaded    *)
(* metadata regeneration (operations/repo.py, operations/regen.py,         *)
(* util/thread_pool.py, _RegenOpHelper of ebuild/repository.py).           *)
(*                                                                         *)
(* The main thread makes a helper per worker, each with a processor of its *)
(* own, feeds the packages to a queue, joins the workers, releases the     *)
(* processors, and then looks at every package once more by itself.  The   *)
(* pool's two lists are guarded by one lock that is not reentrant.  SIGINT *)
(* is handled by the main thread in the middle of whatever it does.        *)
(*                                                                         *)
(* What a processor and its daemon say to each other is in EbdProtocol.    *)
(***************************************************************************)
EXTENDS Naturals, Sequences, SequencesExt

CONSTANTS
    Main,       \* the main thread
    Workers,    \* the threads of the regeneration
    Procs,      \* bound: processors that exist at a time
    PkgList,    \* the packages of the repository, in order
    Worlds,     \* what the packages, their cache entries and the options are
    Sentinel,   \* klass.sentinel, which ends a worker
    MaxFaults,  \* bound: interrupts, and daemons killed from outside
    None

Pkgs == {PkgList[i] : i \in DOMAIN PkgList}
Threads == Workers \cup {Main}

(***************************************************************************)
(* ok: sources well.  dies: the ebuild dies.  bad: sources, but is refused *)
(* with the daemon alive (a failed phase, another EAPI than was parsed).   *)
(* odd: the daemon says something nobody handles.                          *)
(***************************************************************************)
Outcomes == {"ok", "dies", "bad", "odd"}
Entries == {"none", "stale", "own"}

(***************************************************************************)
(* What is in the pipe of a daemon between two exchanges.  clear: nothing. *)
(* yep: an answer to "alive" nobody read; it is idle, then.  rest: the     *)
(* rest of an answer, so that the next question reads it.  none: nothing,  *)
(* nor will there be: the daemon waits for something nobody will say.      *)
(***************************************************************************)
Pipes == {"clear", "yep", "rest", "none"}

ASSUME PoolAssumption ==
    /\ IsFiniteSet(Workers) /\ Main \notin Workers
    /\ None \notin Procs \cup Threads \cup Pkgs
    /\ PkgList \in Seq(Pkgs) /\ IsInjective(PkgList)
    /\ Sentinel \notin Pkgs
    /\ Worlds \subseteq
         [outcome : [Pkgs -> Outcomes], cache : [Pkgs -> Entries], force : BOOLEAN,
          caching : BOOLEAN, idle : {s \in Seq(Procs) : IsInjective(s)}]
    \* An entry was only ever written for what could be sourced.
    /\ \A o \in Worlds : \A p \in Pkgs : o.cache[p] = "own" => o.outcome[p] = "ok"
    /\ MaxFaults \in Nat

VARIABLES
    opts,      \* the member of Worlds; its cache and idle are only initial
    active,    \* active_ebp_list
    inactive,  \* inactive_ebp_list
    alive,     \* the processors whose daemon runs
    pipe,      \* what their pipes hold
    lock,      \* who holds _global_ebp_lock
    th,        \* the threads
    queue,     \* the queue between them
    cache,     \* the metadata cache
    reported,  \* packages whose exception the workers yielded
    masked,    \* _bad_masked: packages whose metadata is bad
    phase,     \* what the main thread is about
    fed,       \* how many packages were put into the queue
    todo,      \* packages the main thread has yet to look at
    aborted,   \* the main thread unwinds from an exception
    faults     \* how many faults there were

lists == <<active, inactive>>
books == <<cache, reported, masked>>
course == <<phase, fed, todo, aborted>>
vars == <<opts, lists, alive, pipe, lock, th, queue, books, course, faults>>

(***************************************************************************)
(* A thread.  at: where it is; item: the package it has in hand; ebp: its  *)
(* processor; i: its place in the list it walks.                           *)
(***************************************************************************)
Thread(at) == [at |-> at, item |-> None, ebp |-> None, i |-> 0]

Init ==
    /\ opts \in Worlds
    /\ active = <<>>
    /\ inactive = opts.idle
    /\ alive = Range(opts.idle)
    /\ pipe = [p \in Procs |-> "clear"]
    /\ lock = None
    /\ th = [t \in Threads |-> Thread(IF t = Main THEN "go" ELSE "new")]
    /\ queue = <<>>
    /\ cache = opts.cache
    /\ reported = {} /\ masked = {}
    /\ phase = "helpers"
    /\ fed = 0 /\ todo = {} /\ aborted = FALSE /\ faults = 0

Held == {th[t].ebp : t \in Threads} \ {None}
Listed == Range(active) \cup Range(inactive)

\* A processor that can be started; one whose daemon was ever out of step is not
\* used for another, which keeps a record of it.
Free == {p \in Procs \ (alive \cup Listed \cup Held) : pipe[p] = "clear"}

\* is_responsive, of a daemon that runs: the next line of its pipe answers "alive".
Responsive(p) == pipe[p] \in {"clear", "yep"}

\* A line nobody handles ends an exchange: what may be left in the pipe by then.
LeavesIn(p) ==
    \E left \in IF pipe[p] = "yep" THEN {"rest"} ELSE {"clear", "rest", "none"} :
      pipe' = [pipe EXCEPT ![p] = left]

\* Thread t goes on elsewhere.
At(t, at) == th' = [th EXCEPT ![t].at = at]

-----------------------------------------------------------------------------
(* The pool: every operation takes the lock first.                         *)

\* Where a thread is that waits for the lock, and once it has it.
Inside == [request |-> "scan", drop |-> "dropping", release |-> "releasing"]

Acquire(t) ==
    /\ th[t].at \in DOMAIN Inside
    /\ lock = None
    /\ lock' = t
    /\ th' = [th EXCEPT ![t].at = Inside[@], ![t].i = 1]
    /\ UNCHANGED <<opts, lists, alive, pipe, queue, books, course, faults>>

\* A processor is handed out: to the worker a helper is made for, to the one that
\* asked for a replacement, or to the main thread for one package.
Grant(t, p) ==
    /\ active' = Append(active, p)
    /\ lock' = None
    /\ IF t = Main /\ phase = "helpers"
         THEN LET w == CHOOSE w \in Workers : th[w].ebp = None IN
                th' = [th EXCEPT ![w].ebp = p, ![Main].at = "go"]
         ELSE th' = [th EXCEPT ![t].ebp = p, ![t].at = IF t = Main THEN "ask" ELSE "idle"]

\* request_ebuild_processor walks the idle processors.  It removes the dead ones
\* from the list it walks, and so passes over what follows them.
ScanDead(t) ==
    /\ th[t].at = "scan"
    /\ th[t].i <= Len(inactive)
    /\ inactive[th[t].i] \notin alive
    /\ inactive' = RemoveAt(inactive, th[t].i)
    /\ th' = [th EXCEPT ![t].i = @ + 1]
    /\ UNCHANGED <<opts, active, alive, pipe, lock, queue, books, course, faults>>

ScanAlive ==
    /\ th[Main].at = "scan"
    /\ th[Main].i <= Len(inactive)
    /\ inactive[th[Main].i] \in alive
    /\ Responsive(inactive[th[Main].i])
    /\ inactive' = RemoveAt(inactive, th[Main].i)
    /\ Grant(Main, inactive[th[Main].i])
    /\ UNCHANGED <<opts, alive, pipe, queue, books, course, faults>>

\* One that does not answer is removed like a dead one; nothing refers to it then, so
\* its pipes are closed, and it ends.  If what is left in the pipe is a die()
\* message, its handler wants the lock the request holds.
ScanMute ==
    /\ th[Main].at = "scan"
    /\ th[Main].i <= Len(inactive)
    /\ inactive[th[Main].i] \in alive
    /\ LET p == inactive[th[Main].i] IN
         /\ ~Responsive(p)
         /\ \/ /\ inactive' = RemoveAt(inactive, th[Main].i)
               /\ alive' = alive \ {p}
               /\ th' = [th EXCEPT ![Main].i = @ + 1]
            \/ /\ pipe[p] = "rest"
               /\ At(Main, "stuck")
               /\ UNCHANGED <<inactive, alive>>
    /\ UNCHANGED <<opts, active, pipe, lock, queue, books, course, faults>>

\* Only the main thread may set the alarm is_responsive waits with: elsewhere a
\* ValueError ends the request, and the answer is left in the pipe.
ScanAlarmed(w) ==
    /\ th[w].at = "scan"
    /\ th[w].i <= Len(inactive)
    /\ inactive[th[w].i] \in alive
    /\ pipe' = [pipe EXCEPT ![inactive[th[w].i]] = IF @ = "clear" THEN "yep" ELSE @]
    /\ reported' = reported \cup {th[w].item}
    /\ lock' = None
    /\ At(w, "idle")
    /\ UNCHANGED <<opts, lists, alive, queue, cache, masked, course, faults>>

Spawn(t) ==
    /\ th[t].at = "scan"
    /\ th[t].i > Len(inactive)
    /\ Free # {}
    /\ LET p == CHOOSE p \in Free : TRUE IN
         /\ alive' = alive \cup {p}
         /\ Grant(t, p)
    /\ UNCHANGED <<opts, inactive, pipe, queue, books, course, faults>>

\* Mutant: dropped, but not shut down.
DropAlive(t) ==
    /\ th[t].at = "dropping"
    /\ active' = RemoveFirst(active, th[t].ebp)
    /\ inactive' = RemoveFirst(inactive, th[t].ebp)
    /\ lock' = None
    /\ At(t, IF t = Main THEN "release" ELSE "request")
    /\ UNCHANGED <<opts, alive, pipe, queue, books, course, faults>>

\* drop_ebuild_processor, and the forced shutdown of the handlers that call it.
Drop(t) ==
    /\ th[t].at = "dropping"
    /\ active' = RemoveFirst(active, th[t].ebp)
    /\ inactive' = RemoveFirst(inactive, th[t].ebp)
    /\ alive' = alive \ {th[t].ebp}
    /\ lock' = None
    /\ At(t, IF t = Main THEN "release" ELSE "request")
    /\ UNCHANGED <<opts, pipe, queue, books, course, faults>>

\* Mutant: the processor stays among the active ones.
ReleaseKept ==
    /\ th[Main].at = "releasing"
    /\ inactive' = IF th[Main].ebp \in Range(active)
                     THEN Append(inactive, th[Main].ebp) ELSE inactive
    /\ lock' = None
    /\ th' = [th EXCEPT ![Main].at = "go", ![Main].ebp = None]
    /\ phase' = IF aborted THEN "exit" ELSE phase
    /\ UNCHANGED <<opts, active, alive, pipe, queue, books, fed, todo, aborted, faults>>

\* release_ebuild_processor: what is not active is none of its business.
Release ==
    /\ th[Main].at = "releasing"
    /\ active' = RemoveFirst(active, th[Main].ebp)
    /\ inactive' = IF th[Main].ebp \in Range(active)
                     THEN Append(inactive, th[Main].ebp) ELSE inactive
    /\ lock' = None
    /\ th' = [th EXCEPT ![Main].at = "go", ![Main].ebp = None]
    /\ phase' = IF aborted THEN "exit" ELSE phase
    /\ UNCHANGED <<opts, alive, pipe, queue, books, fed, todo, aborted, faults>>

-----------------------------------------------------------------------------
(* A worker: regen_iter over iter_queue.                                   *)

Take(w) ==
    /\ th[w].at = "idle"
    /\ queue # <<>>
    /\ queue' = Tail(queue)
    /\ th' = IF Head(queue) = Sentinel THEN [th EXCEPT ![w].at = "ended"]
             ELSE [th EXCEPT ![w].at = "look", ![w].item = Head(queue)]
    /\ UNCHANGED <<opts, lists, alive, pipe, lock, books, course, faults>>

\* An entry that is taken for the package's own; a wrong one is another's.
Valid(pkg) == cache[pkg] \in {"own", "wrong"}

\* _get_metadata: a valid entry is taken, one that is not is deleted.
Look(w) ==
    /\ th[w].at = "look"
    /\ \/ /\ opts.force
          /\ At(w, "ask")
          /\ UNCHANGED cache
       \/ /\ ~opts.force /\ Valid(th[w].item)
          /\ At(w, "idle")
          /\ UNCHANGED cache
       \/ /\ ~opts.force /\ ~Valid(th[w].item)
          /\ At(w, "ask")
          /\ cache' = [cache EXCEPT ![th[w].item] = "none"]
    /\ UNCHANGED <<opts, lists, alive, pipe, lock, queue, reported, masked, course, faults>>

\* get_keys writes to its daemon.  A broken pipe is a RuntimeError, which
\* regen_iter raises again: the thread is over.
Ask(w) ==
    /\ th[w].at = "ask"
    /\ At(w, IF th[w].ebp \in alive THEN "wait" ELSE "died")
    /\ UNCHANGED <<opts, lists, alive, pipe, lock, queue, books, course, faults>>

\* ... and reads.  What is no ProcessorError is yielded and the processor kept.
AnswerOdd(w) ==
    /\ th[w].at = "wait"
    /\ \/ /\ th[w].ebp \notin alive
          /\ UNCHANGED pipe
       \/ /\ th[w].ebp \in alive /\ pipe[th[w].ebp] = "clear"
          /\ opts.outcome[th[w].item] = "odd"
          /\ LeavesIn(th[w].ebp)
    /\ reported' = reported \cup {th[w].item}
    /\ At(w, "idle")
    /\ UNCHANGED <<opts, lists, alive, lock, queue, cache, masked, course, faults>>

AnswerKeys(w) ==
    /\ th[w].at = "wait"
    /\ th[w].ebp \in alive /\ pipe[th[w].ebp] = "clear"
    /\ opts.outcome[th[w].item] = "ok"
    /\ cache' = [cache EXCEPT ![th[w].item] = "own"]
    /\ At(w, "idle")
    /\ UNCHANGED <<opts, lists, alive, pipe, lock, queue, reported, masked, course, faults>>

\* A MetadataException has the helper ask for another processor, whether the one it
\* has is dead or not; one that is not stays active, and nobody's.
AnswerError(w) ==
    /\ th[w].at = "wait"
    /\ th[w].ebp \in alive /\ pipe[th[w].ebp] = "clear"
    /\ opts.outcome[th[w].item] \in {"dies", "bad"}
    /\ At(w, IF opts.outcome[th[w].item] = "dies" THEN "drop" ELSE "request")
    /\ UNCHANGED <<opts, lists, alive, pipe, lock, queue, books, course, faults>>

\* A daemon that is out of step: the worker reads what is left of an earlier answer,
\* be that metadata, an error or something nobody handles; the daemon may take the
\* next question for what it waits for, and end of it or wait for good.
AnswerRest(w) ==
    /\ th[w].at = "wait"
    /\ th[w].ebp \in alive /\ pipe[th[w].ebp] = "rest"
    /\ \/ /\ cache' = [cache EXCEPT ![th[w].item] = "wrong"]
          /\ At(w, "idle")
          /\ UNCHANGED reported
       \/ /\ reported' = reported \cup {th[w].item}
          /\ At(w, "idle")
          /\ UNCHANGED cache
       \/ /\ \E at \in {"drop", "request"} : At(w, at)
          /\ UNCHANGED <<cache, reported>>
    /\ alive' \in {alive, alive \ {th[w].ebp}}
    /\ \E left \in {"rest", "none"} : pipe' = [pipe EXCEPT ![th[w].ebp] = left]
    /\ UNCHANGED <<opts, lists, lock, queue, masked, course, faults>>

Worker(w) ==
    \/ Acquire(w) \/ ScanDead(w) \/ ScanAlarmed(w) \/ Spawn(w) \/ Drop(w)
    \/ Take(w) \/ Look(w) \/ Ask(w) \/ AnswerOdd(w) \/ AnswerKeys(w) \/ AnswerError(w)
    \/ AnswerRest(w)

-----------------------------------------------------------------------------
(* The main thread: map_async.                                             *)

\* A helper for each worker; when all have one the threads are started.
MakeHelper ==
    /\ phase = "helpers"
    /\ th[Main].at = "go"
    /\ IF \E w \in Workers : th[w].ebp = None
         THEN At(Main, "request") /\ UNCHANGED phase
         ELSE /\ th' = [t \in Threads |-> IF t = Main THEN th[t] ELSE [th[t] EXCEPT !.at = "idle"]]
              /\ phase' = "feed"
    /\ UNCHANGED <<opts, lists, alive, pipe, lock, queue, books, fed, todo, aborted, faults>>


\* klass.sentinel once for each thread.
Sentinels == [w \in 1 .. Cardinality(Workers) |-> Sentinel]

\* The packages are queued, and then one sentinel per thread.
Feed ==
    /\ phase = "feed"
    /\ th[Main].at = "go"
    /\ IF fed < Len(PkgList)
         THEN /\ queue' = Append(queue, PkgList[fed + 1])
              /\ fed' = fed + 1
              /\ UNCHANGED phase
         ELSE /\ queue' = queue \o Sentinels
              /\ phase' = "join"
              /\ UNCHANGED fed
    /\ UNCHANGED <<opts, lists, alive, pipe, lock, th, books, todo, aborted, faults>>

Over == \A w \in Workers : th[w].at \in {"new", "ended", "died"}

Join ==
    /\ phase = "join"
    /\ th[Main].at = "go"
    /\ Over
    /\ phase' = IF aborted THEN "exit" ELSE "release"
    /\ UNCHANGED <<opts, lists, alive, pipe, lock, th, queue, books, fed, todo, aborted, faults>>

(***************************************************************************)
(* disable_eclass_caching, of a daemon that runs: one that answers is told *)
(* to forget its eclasses, and shut down, as the answer expected is        *)
(* misspelt.  One that is out of step does not: the line that was read is  *)
(* gone from its pipe, and if it was a die() message it is dropped.        *)
(* (An unread yep would be taken for the answers in turn, and the shutdown *)
(* wait for good; only idle processors ever have one.)                     *)
(***************************************************************************)
Forget(p) ==
    \/ /\ pipe[p] = "clear"
       /\ alive' = alive \ {p}
       /\ th'[Main].at = "release"
       /\ UNCHANGED pipe
    \/ /\ pipe[p] = "rest"
       /\ \/ /\ \E left \in {"rest", "yep"} : pipe' = [pipe EXCEPT ![p] = left]
             /\ th'[Main].at = "release"
          \/ /\ th'[Main].at = "drop"
             /\ UNCHANGED pipe
       /\ UNCHANGED alive
    \/ /\ pipe[p] = "none"
       /\ th'[Main].at = "release"
       /\ UNCHANGED <<alive, pipe>>

\* _RegenOpHelper.__del__.
DropHelper ==
    /\ phase = "release"
    /\ th[Main].at = "go"
    /\ IF \E w \in Workers : th[w].ebp # None
         THEN LET w == CHOOSE w \in Workers : th[w].ebp # None IN
                /\ \E at \in {"release", "drop"} :
                     th' = [th EXCEPT ![w].ebp = None, ![Main].ebp = th[w].ebp, ![Main].at = at]
                /\ IF opts.caching /\ th[w].ebp \in alive THEN Forget(th[w].ebp)
                   ELSE th'[Main].at = "release" /\ UNCHANGED <<alive, pipe>>
                /\ UNCHANGED <<phase, todo>>
         ELSE /\ phase' = "second"
              /\ todo' = Pkgs
              /\ UNCHANGED <<th, alive, pipe>>
    /\ UNCHANGED <<opts, lists, lock, queue, books, fed, aborted, faults>>

-----------------------------------------------------------------------------
(* The main thread, once more through the repository: _pkg_filter.         *)

\* Mutant: what a worker reported is not looked at again.
InspectUnreported ==
    /\ phase = "second"
    /\ th[Main].at = "go"
    /\ \E p \in todo :
         /\ todo' = todo \ {p}
         /\ IF Valid(p) \/ p \in reported
              THEN UNCHANGED <<th, cache>>
              ELSE /\ cache' = [cache EXCEPT ![p] = "none"]
                   /\ th' = [th EXCEPT ![Main].item = p, ![Main].at = "request"]
    /\ UNCHANGED <<opts, lists, alive, pipe, lock, queue, reported, masked, phase, fed,
                   aborted, faults>>

Inspect ==
    /\ phase = "second"
    /\ th[Main].at = "go"
    /\ \E p \in todo :
         /\ todo' = todo \ {p}
         /\ IF Valid(p)
              THEN UNCHANGED <<th, cache>>
              ELSE /\ cache' = [cache EXCEPT ![p] = "none"]
                   /\ th' = [th EXCEPT ![Main].item = p, ![Main].at = "request"]
    /\ UNCHANGED <<opts, lists, alive, pipe, lock, queue, reported, masked, phase, fed,
                   aborted, faults>>

\* reuse_or_request and get_keys.  An exception that is no MetadataException ends
\* the regeneration, once the processor is released.
Borrow ==
    /\ th[Main].at \in {"ask", "wait"}
    /\ LET p == th[Main].item
           ebp == th[Main].ebp
           sound == ebp \in alive /\ pipe[ebp] = "clear"
       IN \/ /\ th[Main].at = "ask" /\ ebp \in alive
             /\ At(Main, "wait")
             /\ UNCHANGED <<pipe, cache, masked, aborted>>
          \/ /\ th[Main].at = "wait" /\ sound /\ opts.outcome[p] = "ok"
             /\ cache' = [cache EXCEPT ![p] = "own"]
             /\ At(Main, "release")
             /\ UNCHANGED <<pipe, masked, aborted>>
          \/ /\ th[Main].at = "wait" /\ sound /\ opts.outcome[p] \in {"dies", "bad"}
             /\ masked' = masked \cup {p}
             /\ At(Main, IF opts.outcome[p] = "dies" THEN "drop" ELSE "release")
             /\ UNCHANGED <<pipe, cache, aborted>>
          \/ /\ \/ ebp \notin alive /\ UNCHANGED pipe
                \/ /\ th[Main].at = "wait" /\ ebp \in alive
                   /\ pipe[ebp] = "yep" \/ (sound /\ opts.outcome[p] = "odd")
                   /\ LeavesIn(ebp)
             /\ aborted' = TRUE
             /\ At(Main, "release")
             /\ UNCHANGED <<cache, masked>>
    /\ UNCHANGED <<opts, lists, alive, lock, queue, reported, phase, fed, todo, faults>>

\* clean_cache: what is not among the packages that passed has no entry.
CleanCache ==
    /\ phase = "second"
    /\ th[Main].at = "go"
    /\ todo = {}
    /\ cache' = [p \in Pkgs |-> IF p \in masked THEN "none" ELSE cache[p]]
    /\ phase' = "exit"
    /\ UNCHANGED <<opts, lists, alive, pipe, lock, th, queue, reported, masked, fed, todo,
                   aborted, faults>>

\* The interpreter waits for its threads and runs shutdown_all_processors, which holds
\* the lock until it is done.
Shutdown ==
    /\ phase = "exit"
    /\ th[Main].at = "go"
    /\ Over
    /\ lock = None
    /\ lock' = Main
    /\ At(Main, "closing")
    /\ UNCHANGED <<opts, lists, alive, pipe, queue, books, course, faults>>

\* The processor it shuts down next: the active ones from the last, then the others.
Closing == IF active # <<>> THEN Last(active) ELSE Last(inactive)

\* shutdown_processor waits for the daemon, for as long as it runs: one that did not
\* say that it is alive was not told to end either.
Exit ==
    /\ th[Main].at = "closing"
    /\ IF Listed # {}
         THEN /\ Closing \in alive => Responsive(Closing)
              /\ alive' = alive \ {Closing}
              /\ active' = IF active # <<>> THEN Front(active) ELSE active
              /\ inactive' = IF active # <<>> THEN inactive ELSE Front(inactive)
              /\ UNCHANGED <<lock, th, phase>>
         ELSE /\ lock' = None
              /\ At(Main, "go")
              /\ phase' = "ended"
              /\ UNCHANGED <<lists, alive>>
    /\ UNCHANGED <<opts, pipe, queue, books, fed, todo, aborted, faults>>

-----------------------------------------------------------------------------
\* SIGINT: the handler needs the lock for every processor it knows, and never gets
\* it when the main thread was interrupted while it held it.  (Left out: another one
\* while the interpreter waits for threads that an interrupt gave up.)
Interrupt ==
    /\ faults < MaxFaults
    /\ phase # "ended"
    /\ phase = "exit" => Over
    /\ th[Main].at \notin {"handler", "stuck"}
    /\ faults' = faults + 1
    /\ th' = [th EXCEPT ![Main].at = IF lock = Main /\ Listed # {} THEN "stuck" ELSE "handler",
                        ![Main].item = "active", ![Main].i = 1]
    /\ lock' = IF lock = Main /\ Listed = {} THEN None ELSE lock
    /\ UNCHANGED <<opts, lists, alive, pipe, queue, books, course>>

Walked == IF th[Main].item = "active" THEN active ELSE inactive

\* It walks the lists it takes the processors from, and so passes over every other.
Chuck ==
    /\ th[Main].at = "handler"
    /\ th[Main].i <= Len(Walked)
    /\ lock = None
    /\ LET p == Walked[th[Main].i] IN
         /\ active' = RemoveFirst(active, p)
         /\ inactive' = RemoveFirst(inactive, p)
         /\ alive' = alive \ {p}
    /\ th' = [th EXCEPT ![Main].i = @ + 1]
    /\ UNCHANGED <<opts, pipe, lock, queue, books, course, faults>>

\* ... and raises KeyboardInterrupt: the sentinels are queued on the way out of the
\* feeding, joining is given up.  Raised in the __del__ of a helper it has no effect
\* but that the helper's processor is not released.
Chucked ==
    /\ th[Main].at = "handler"
    /\ th[Main].i > Len(Walked)
    /\ IF th[Main].item = "active"
         THEN /\ th' = [th EXCEPT ![Main].item = "inactive", ![Main].i = 1]
              /\ UNCHANGED <<queue, phase, aborted>>
         ELSE /\ th' = [th EXCEPT ![Main].at = "go", ![Main].item = None, ![Main].ebp = None]
              /\ queue' = IF phase = "feed" THEN queue \o Sentinels ELSE queue
              /\ IF phase = "release" /\ th[Main].ebp # None
                   THEN UNCHANGED <<phase, aborted>>
                   ELSE /\ phase' = IF phase = "feed" THEN "join" ELSE "exit"
                        /\ aborted' = TRUE
    /\ UNCHANGED <<opts, lists, alive, pipe, lock, books, fed, todo, faults>>

\* A daemon is killed from outside (external).
Killed ==
    /\ faults < MaxFaults
    /\ \E p \in alive : alive' = alive \ {p}
    /\ faults' = faults + 1
    /\ UNCHANGED <<opts, lists, pipe, lock, th, queue, books, course>>

MainThread ==
    \/ Acquire(Main) \/ ScanDead(Main) \/ ScanAlive \/ ScanMute \/ Spawn(Main) \/ Drop(Main)
    \/ Release \/ MakeHelper \/ Feed \/ Join \/ DropHelper \/ Inspect \/ Borrow \/ CleanCache
    \/ Shutdown \/ Exit \/ Chuck \/ Chucked

Next == (\E w \in Workers : Worker(w)) \/ MainThread \/ Interrupt \/ Killed

Spec == Init /\ [][Next]_vars

\* Every thread gets its turns.
FairSpec == Spec /\ WF_vars(MainThread) /\ \A w \in Workers : WF_vars(Worker(w))

-----------------------------------------------------------------------------
\* A processor has one holder, is on one list once, and idle only if nobody holds
\* it: two threads never talk to one daemon, whatever died, was dropped, replaced
\* or interrupted.
OneHolder ==
    /\ \A t, u \in Threads : t # u /\ th[t].ebp # None => th[t].ebp # th[u].ebp
    /\ Range(inactive) \cap (Held \cup Range(active)) = {}
    /\ IsInjective(active) /\ IsInjective(inactive)

Returned == phase \in {"exit", "ended"} /\ ~aborted

\* A regeneration that comes to its end has settled every package, whatever became
\* of its workers: those that can be sourced have their entry, the others are
\* masked, to be reported, and have none; and no entry is there that a daemon out of
\* step gave for another package, as the ebuild that put it out of step ends the
\* second pass.  A worker is lost, with the package it had in hand, only to a daemon
\* killed under it or out of step, or to an alarm set outside of the main thread.
EverythingSettled ==
    /\ Returned =>
         \A p \in Pkgs :
           IF opts.outcome[p] = "ok" THEN cache[p] = "own"
           ELSE p \in masked /\ cache[p] = "none"
    /\ (\E w \in Workers : th[w].at = "died") =>
         faults > 0 \/ \E e \in Procs : pipe[e] # "clear"

\* No daemon outlives the program, also one that was interrupted or lost workers.
NoneOutlives == phase = "ended" => alive = {}

\* What the program can wait for without end: the main thread for the lock, in a
\* handler that it runs while it holds it itself; a thread for the answer of a daemon
\* that waits for something else; shutdown_processor for a daemon that is out of step.
Blocked ==
    \/ th[Main].at = "stuck"
    \/ \E t \in Threads :
         th[t].at = "wait" /\ th[t].ebp \in alive /\ pipe[th[t].ebp] = "none"
    \/ th[Main].at = "closing" /\ Listed # {} /\ Closing \in alive /\ ~Responsive(Closing)

=============================================================================
