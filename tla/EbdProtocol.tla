---------------------------- MODULE EbdProtocol ----------------------------
(***************************************************************************)
(* ebuild/processor.py and data/lib/pkgcore/ebd: one EbuildProcessor and   *)
(* the bash daemon behind it.  They talk through two pipes, a line (or a   *)
(* line with its payload) at a time, and neither numbers its messages: an  *)
(* answer belongs to a question only because both sides are in step.       *)
(*                                                                         *)
(* The processor serves one holder at a time.  A "helper" (metadata regen, *)
(* repository.py) keeps it for many packages and queues eclass preloads    *)
(* behind each; a "reader" (ebuild_src.py) borrows it for one package; a   *)
(* "phase" (ebd.py, run_generic_phase) runs one build phase on it.         *)
(*                                                                         *)
(* A dropped or abandoned processor is succeeded by a new one, whose life  *)
(* starts with the handshake.                                              *)
(***************************************************************************)
EXTENDS Naturals, Sequences, FiniteSets

CONSTANTS
    Pkgs,      \* packages whose metadata is asked for
    Inherits,  \* the eclasses each of them inherits
    Eclasses,  \* the eclasses the eclass cache knows
    FaultSets, \* what may go wrong, one choice for a whole behaviour; see FaultKinds
    MaxLate,   \* bound: questions whose answer is late at a time
    None

(***************************************************************************)
(* envkey: an environment holds a name bash does not allow.  envfail: the  *)
(* daemon fails to evaluate one.  preload: bash -n refuses an eclass that  *)
(* sources well.  sandboxlog: a failing phase left sandbox violations.     *)
(* slow: the daemon leaves a timed question unanswered for too long.       *)
(* ipc: the Python side of a helper command has a bug.                     *)
(***************************************************************************)
FaultKinds == {"envkey", "envfail", "preload", "sandboxlog", "slow", "ipc"}

AllEclasses == UNION {Inherits[p] : p \in Pkgs}

ASSUME ConstantsAssumption ==
    /\ Inherits \in [Pkgs -> SUBSET AllEclasses]
    /\ Eclasses \subseteq AllEclasses
    /\ FaultSets \subseteq SUBSET FaultKinds
    /\ MaxLate \in Nat
    /\ None \notin Pkgs \cup AllEclasses

Holders == {"helper", "reader", "phase"}

\* A line, with the package or eclass it is about.
Msg(cmd, arg) == [cmd |-> cmd, arg |-> arg]
Line(cmd) == Msg(cmd, None)

VARIABLES
    down,    \* the pipe to the daemon
    open,    \* Python still holds its ends of the pipes
    up,      \* the pipe from the daemon
    py,      \* where the Python side is; "idle" between calls
    cont,    \* where it goes on when the lines it expects have come
    closer,  \* where it goes on after shutdown_processor
    val,     \* what expect or is_responsive returned last
    got,     \* the lines read so far of those expected
    err,     \* the exception under way, or that ended the last call
    holder,  \* who holds the processor
    wanted,  \* it was requested with file descriptors of its own
    job,     \* the package, or phase, the holder works on
    keys,    \* the packages whose keys were received
    updates, \* eclasses inherited through Python
    result,  \* the last metadata returned: to whom, for which package, and its keys
    ebp,     \* the EbuildProcessor's own attributes
    ebd,     \* the daemon
    faults   \* what can go wrong in this behaviour

pyvars == <<py, cont, closer, val, got, err>>
taskvars == <<wanted, job, keys, updates, result>>
jobvars == <<holder, taskvars>>
vars == <<down, open, up, pyvars, jobvars, ebp, ebd, faults>>

(***************************************************************************)
(* listed: the list the pool keeps the processor in.  proc: _proc is set.  *)
(* expects: _outstanding_expects, known: _preloaded_eclasses, paths:       *)
(* _metadata_paths is set, fds: custom_fds, timer: SIGALRM is armed.       *)
(***************************************************************************)
Fresh(fds) == [listed |-> "new", proc |-> TRUE, locked |-> TRUE, expects |-> <<>>,
               known |-> {}, paths |-> FALSE, fds |-> fds, timer |-> FALSE]

\* at: what the daemon does; src: what it sources or runs; left: the eclasses
\* still to be inherited; known: PKGCORE_PRELOADED_ECLASSES.
Boot == [at |-> "boot", src |-> None, left |-> {}, known |-> {}]

Init ==
    /\ down = <<>> /\ up = <<>> /\ open = FALSE
    /\ py = "idle" /\ cont = "idle" /\ closer = "idle"
    /\ val = FALSE /\ got = <<>> /\ err = "none"
    /\ holder = "none" /\ wanted = FALSE /\ job = None /\ keys = {} /\ updates = {}
    /\ result = [by |-> "none", p |-> None, keys |-> {}]
    /\ ebp = [Fresh(FALSE) EXCEPT !.listed = "dropped", !.proc = FALSE,
                                  !.locked = FALSE]
    /\ ebd = [Boot EXCEPT !.at = "exited"]
    /\ faults \in FaultSets

-----------------------------------------------------------------------------
(* The Python side: what the calls are made of.                            *)

Send(lines) == down' = down \o lines

Goto(pc) == py' = pc

Raise(e) == py' = "raise" /\ err' = e

\* expect: the line wanted queues behind the outstanding ones.
Expect(want, next) ==
    /\ ebp' = [ebp EXCEPT !.expects = Append(@, want)]
    /\ got' = <<>>
    /\ cont' = next
    /\ Goto("expect")

\* is_responsive, of a processor that has a process: the question is timed.
AskAlive(next) ==
    /\ Send(<<Line("alive")>>)
    /\ ebp' = [ebp EXCEPT !.expects = Append(@, Line("yep!")), !.timer = TRUE]
    /\ got' = <<>>
    /\ cont' = next
    /\ Goto("expect")

\* readlines, within expect: "dying" is acted upon wherever it turns up.
ReadExpected ==
    /\ py = "expect"
    /\ Len(got) < Len(ebp.expects)
    /\ up # <<>>
    /\ up' = Tail(up)
    /\ \/ /\ Head(up).cmd = "dying"
          /\ Goto("dying")
          /\ UNCHANGED got
       \/ /\ Head(up).cmd # "dying"
          /\ got' = Append(got, Head(up))
          /\ UNCHANGED py
    /\ UNCHANGED <<down, open, cont, closer, val, err, jobvars, ebp, ebd>>

\* Only is_responsive sets a timer, and only its lone question disarms it.
Disarmed ==
    [ebp EXCEPT !.expects = <<>>, !.timer = @ /\ ebp.expects # <<Line("yep!")>>]

\* Every expected line is there: expect returns whether they are the right ones.
Expected ==
    /\ py = "expect"
    /\ Len(got) = Len(ebp.expects)
    /\ val' = (got = ebp.expects)
    /\ ebp' = Disarmed
    /\ got' = <<>>
    /\ Goto(cont)
    /\ UNCHANGED <<down, open, up, cont, closer, err, jobvars, ebd>>

\* SIGALRM, while lines are read.  A lone question is answered no; behind
\* outstanding expects the exception is not caught.
TimesOut ==
    /\ "slow" \in faults
    /\ py \in {"expect", "dying"}
    /\ ebp.timer
    /\ up = <<>>
    /\ Cardinality({i \in DOMAIN down : down[i].cmd = "alive"}) <= MaxLate
    /\ \/ /\ Len(ebp.expects) = 1
          /\ ebp' = [ebp EXCEPT !.expects = <<>>, !.timer = FALSE]
          /\ val' = FALSE
          /\ Goto(cont)
          /\ UNCHANGED err
       \/ /\ Len(ebp.expects) # 1
          /\ ebp' = [ebp EXCEPT !.timer = FALSE, !.locked = FALSE]
          /\ Raise("timeout")
          /\ UNCHANGED val
    /\ got' = <<>>
    /\ UNCHANGED <<down, open, up, cont, closer, jobvars, ebd>>

\* A processor is dropped from the lists and its process group killed.
Dropped(e) == [e EXCEPT !.listed = "dropped", !.proc = FALSE, !.locked = FALSE]
Killed(d) == [d EXCEPT !.at = "exited"]

\* The pool's lock is held throughout a request and a release.
PoolHeld ==
    \/ cont \in {"requested", "hello", "spawned"}
    \/ cont = "down" /\ closer = "released"

\* chuck_DyingInterrupt: the message is read to its end, and the processor dropped,
\* for which the pool's lock is taken: it is not reentrant.
Dying ==
    /\ py = "dying"
    /\ up # <<>>
    /\ up' = Tail(up)
    /\ \/ /\ Head(up).cmd = "dead"
          /\ ~PoolHeld
          /\ ebp' = Dropped(Disarmed)
          /\ ebd' = Killed(ebd)
          /\ Raise("processor")
       \/ /\ Head(up).cmd # "dead"
          /\ UNCHANGED <<ebp, ebd, py, err>>
    /\ UNCHANGED <<down, open, cont, closer, val, got, jobvars>>

-----------------------------------------------------------------------------
(* request_ebuild_processor, and the handshake of a new processor.         *)

Spawn(fds) ==
    /\ ebp' = [Fresh(fds) EXCEPT !.expects = <<Line("ebd!")>>]
    /\ ebd' = Boot
    /\ down' = <<Line("ebd?")>>
    /\ up' = <<>>
    /\ open' = TRUE
    /\ got' = <<>>
    /\ cont' = "hello"
    /\ Goto("expect")

\* One that lies in the inactive list is asked whether it is responsive; only
\* the pretend phase asks for file descriptors of its own.
Request(h, fds) ==
    /\ py = "idle"
    /\ holder = "none"
    /\ fds => h = "phase"
    /\ holder' = h
    /\ \/ /\ ebp.listed = "inactive"
          /\ ebp.proc
          /\ AskAlive("requested")
          /\ UNCHANGED <<open, up, ebd>>
       \/ /\ ~(ebp.listed = "inactive" /\ ebp.proc)
          /\ Spawn(fds)
    /\ wanted' = fds
    /\ err' = "none"
    /\ closer' = "idle"
    /\ UNCHANGED <<val, job, keys, updates, result>>

Hello ==
    /\ py = "hello"
    /\ Send(<<Line("sandbox?")>>)
    /\ Expect(Line("readonly"), "spawned")
    /\ UNCHANGED <<open, up, closer, val, err, jobvars, ebd>>

Active(e) == [e EXCEPT !.listed = "active"]

Spawned ==
    /\ py = "spawned"
    /\ ebp' = Active([ebp EXCEPT !.locked = FALSE])
    /\ Goto("idle")
    /\ UNCHANGED <<down, open, up, cont, closer, val, got, err, jobvars, ebd>>

\* Mutant: the answer is not looked at.
RequestedUnasked ==
    /\ py = "requested"
    /\ ebp' = Active(ebp)
    /\ Goto("idle")
    /\ UNCHANGED <<down, open, up, cont, closer, val, got, err, jobvars, ebd>>

\* One that does not answer is taken off the list, and another one spawned.
Requested ==
    /\ py = "requested"
    /\ \/ /\ val
          /\ ebp' = Active(ebp)
          /\ Goto("idle")
          /\ UNCHANGED <<down, open, up, cont, got, ebd>>
       \/ /\ ~val
          /\ Spawn(wanted)
    /\ UNCHANGED <<closer, val, err, jobvars>>

-----------------------------------------------------------------------------
(* Metadata: get_keys and get_ebuild_environment.                          *)

Holding(h) == py = "idle" /\ holder = h

SendGen(p) == down' = down \o <<Msg("gen", p)>>

\* _ensure_metadata_paths, once in the life of a processor.
Gen(p) ==
    /\ Holding("helper") \/ Holding("reader")
    /\ job' = p
    /\ keys' = {}
    /\ updates' = {}
    /\ err' = "none"
    /\ \/ /\ ~ebp.paths
          /\ Send(<<Line("set_metadata_path")>>)
          /\ Expect(Line("metadata_path_received"), "path")
       \/ /\ ebp.paths
          /\ SendGen(p)
          /\ Goto("sync")
          /\ UNCHANGED <<cont, got, ebp>>
    /\ UNCHANGED <<open, up, closer, val, holder, wanted, result, ebd>>

PathSet ==
    /\ py = "path"
    /\ ebp' = [ebp EXCEPT !.paths = val]
    /\ SendGen(job)
    /\ Goto("sync")
    /\ UNCHANGED <<open, up, cont, closer, val, got, err, jobvars, ebd>>

\* generic_handler: what is outstanding is consumed before the first command.
Sync ==
    /\ py = "sync"
    /\ ebp' = [ebp EXCEPT !.locked = TRUE]
    /\ \/ /\ ebp.expects = <<>>
          /\ Goto("handler")
          /\ UNCHANGED <<cont, got>>
       \/ /\ ebp.expects # <<>>
          /\ got' = <<>>
          /\ cont' = "synced"
          /\ Goto("expect")
    /\ UNCHANGED <<down, open, up, closer, val, err, jobvars, ebd>>

\* The lock is given up however the handler ends.
Unlocked(e) == [e EXCEPT !.locked = FALSE]

\* Mutant: the consumption is outside of the try.
SyncedLocked ==
    /\ py = "synced"
    /\ \/ /\ val
          /\ Goto("handler")
          /\ UNCHANGED err
       \/ /\ ~val
          /\ Raise("unhandled")
    /\ UNCHANGED <<down, open, up, cont, closer, val, got, jobvars, ebp, ebd>>

Synced ==
    /\ py = "synced"
    /\ \/ /\ val
          /\ Goto("handler")
          /\ UNCHANGED <<err, ebp>>
       \/ /\ ~val
          /\ Raise("unhandled")
          /\ ebp' = Unlocked(ebp)
    /\ UNCHANGED <<down, open, up, cont, closer, val, got, jobvars, ebd>>

\* The commands generic_handler is given handlers for.
Handled == {"request_inherit", "phases", "dying"} \cup
           (IF holder = "phase" THEN {"ipc", "request_bashrcs"} ELSE {"key"})

Received(cmd) ==
    /\ py = "handler"
    /\ up # <<>>
    /\ Head(up).cmd = cmd
    /\ cmd \in Handled
    /\ up' = Tail(up)

HandleKey ==
    /\ Received("key")
    /\ keys' = keys \cup {Head(up).arg}
    /\ UNCHANGED <<down, open, pyvars, holder, wanted, job, updates, result, ebp, ebd>>

\* inherit_handler; an eclass the cache does not know costs the processor.
HandleInherit ==
    /\ Received("request_inherit")
    /\ LET e == Head(up).arg IN
       \/ /\ e \in Eclasses
          /\ Send(<<Line("path")>>)
          /\ updates' = updates \cup {e}
          /\ UNCHANGED <<py, err, ebp, ebd>>
       \/ /\ e \notin Eclasses
          /\ ebp' = Dropped(ebp)
          /\ ebd' = Killed(ebd)
          /\ Raise("processor")
          /\ UNCHANGED <<down, updates>>
    /\ UNCHANGED <<open, cont, closer, val, got, holder, wanted, job, keys, result>>

\* IpcCommand: answered; or refused with an error, which is sent to the daemon
\* by run_generic_phase, or, if the command is nonfatal, at once.
HandleIpc ==
    /\ Received("ipc")
    /\ \/ /\ Send(<<Line("status")>>)
          /\ UNCHANGED <<py, err, ebp>>
       \/ /\ \/ Raise("ipc")
             \/ "ipc" \in faults /\ Raise("ipc_internal")
          /\ ebp' = Unlocked(ebp)
          /\ UNCHANGED down
    /\ UNCHANGED <<open, cont, closer, val, got, jobvars, ebd>>

HandleBashrcs ==
    /\ Received("request_bashrcs")
    /\ Send(<<Line("path")>>)
    /\ Expect(Line("next"), "bashrc")
    /\ UNCHANGED <<open, closer, val, err, jobvars, ebd>>

BashrcSent ==
    /\ py = "bashrc"
    /\ \/ /\ val
          /\ Send(<<Line("end_request")>>)
          /\ Goto("handler")
          /\ UNCHANGED <<err, ebp>>
       \/ /\ ~val
          /\ Raise("unhandled")
          /\ ebp' = Unlocked(ebp)
          /\ UNCHANGED down
    /\ UNCHANGED <<open, up, cont, closer, val, got, jobvars, ebd>>

HandleDying ==
    /\ Received("dying")
    /\ Goto("dying")
    /\ cont' = "handler"
    /\ UNCHANGED <<down, open, closer, val, got, err, jobvars, ebp, ebd>>

HandleUnknown ==
    /\ py = "handler"
    /\ up # <<>>
    /\ Head(up).cmd \notin Handled
    /\ up' = Tail(up)
    /\ Raise("unhandled")
    /\ ebp' = Unlocked(ebp)
    /\ UNCHANGED <<down, open, cont, closer, val, got, jobvars, ebd>>

\* chuck_StoppingCommand.
HandlePhases ==
    /\ Received("phases")
    /\ \/ /\ Head(up).arg = "succeeded"
          /\ result' = IF holder = "phase" THEN result ELSE [by |-> holder, p |-> job, keys |-> keys]
          /\ Goto("returned")
          /\ UNCHANGED err
       \/ /\ Head(up).arg = "failed"
          /\ Raise("processor")
          /\ UNCHANGED result
    /\ ebp' = Unlocked(ebp)
    /\ UNCHANGED <<down, open, cont, closer, val, got, holder, wanted, job, keys, updates,
                   ebd>>

\* preload_eclasses, of those inherited while caching is on.  The answer stays
\* outstanding, and the eclass counts as known at once.
NotPreloaded == IF holder = "helper" THEN updates \ ebp.known ELSE {}

\* Mutant: nothing is expected in return.
PreloadUnexpected ==
    /\ py = "returned"
    /\ \E e \in NotPreloaded :
         /\ Send(<<Msg("preload", e)>>)
         /\ ebp' = [ebp EXCEPT
                      !.known = @ \cup {e}]
    /\ UNCHANGED <<open, up, pyvars, jobvars, ebd>>

Preload ==
    /\ py = "returned"
    /\ \E e \in NotPreloaded :
         /\ Send(<<Msg("preload", e)>>)
         /\ ebp' = [ebp EXCEPT
                      !.known = @ \cup {e},
                      !.expects = Append(@, Line("preload_eclass succeeded"))]
    /\ UNCHANGED <<open, up, pyvars, jobvars, ebd>>

\* The call is over.  A helper keeps the processor unless the package turns out
\* to have another EAPI than was parsed from it, which it takes for a dead one.
Returned ==
    /\ py = "returned"
    /\ NotPreloaded = {}
    /\ \/ /\ holder = "helper"
          /\ Goto("idle")
          /\ holder' \in {"helper", "none"}
       \/ /\ holder # "helper"
          /\ Goto("release")
          /\ UNCHANGED holder
    /\ UNCHANGED <<down, open, up, cont, closer, val, got, err, taskvars, ebp, ebd>>

-----------------------------------------------------------------------------
(* run_phase.                                                              *)

\* A lenient phase is run with failure_allowed.
Phase(how) ==
    /\ Holding("phase")
    /\ job' = how
    /\ \/ /\ Send(<<Line("process_ebuild"), Line("start_receiving_env")>>)
          /\ Expect(Line("env_received"), "env")
          /\ UNCHANGED err
       \/ /\ "envkey" \in faults
          /\ Send(<<Line("process_ebuild")>>)
          /\ Raise("key")
          /\ UNCHANGED <<cont, got, ebp>>
    /\ UNCHANGED <<open, up, closer, val, holder, wanted, keys, updates, result, ebd>>

\* run_phase returned False.
Refused ==
    /\ \/ job = "lenient" /\ Goto("release") /\ UNCHANGED err
       \/ job = "strict" /\ Raise("build")
    /\ UNCHANGED <<down, cont, got, ebp>>

EnvSent ==
    /\ py = "env"
    /\ \/ /\ val
          /\ Send(<<Line("set_sandbox_state"), Line("logging")>>)
          /\ Expect(Line("logging_ack"), "logging")
          /\ UNCHANGED err
       \/ /\ val
          /\ Send(<<Line("set_sandbox_state"), Line("start_processing")>>)
          /\ Goto("sync")
          /\ UNCHANGED <<cont, got, err, ebp>>
       \/ /\ ~val
          /\ Refused
    /\ UNCHANGED <<open, up, closer, val, jobvars, ebd>>

LoggingSet ==
    /\ py = "logging"
    /\ \/ /\ val
          /\ Send(<<Line("start_processing")>>)
          /\ Goto("sync")
          /\ UNCHANGED <<cont, got, err, ebp>>
       \/ /\ ~val
          /\ Refused
    /\ UNCHANGED <<open, up, closer, val, jobvars, ebd>>

-----------------------------------------------------------------------------
(* The ends of a call.                                                     *)

\* shutdown_processor, not forced.
Shutdown(next) ==
    /\ closer' = next
    /\ IF ebp.proc THEN AskAlive("down")
       ELSE Goto(next) /\ UNCHANGED <<down, cont, got, ebp>>

\* Mutant: a responsive daemon is waited for without being told.
AskedDownUntold ==
    /\ py = "down"
    /\ Goto("wait")
    /\ UNCHANGED <<down, open, up, cont, closer, val, got, err, jobvars, ebp, ebd>>

AskedDown ==
    /\ py = "down"
    /\ \/ /\ val
          /\ Send(<<Line("shutdown_daemon")>>)
          /\ open' = FALSE
       \/ /\ ~val
          /\ UNCHANGED <<down, open>>
    /\ Goto("wait")
    /\ UNCHANGED <<up, cont, closer, val, got, err, jobvars, ebp, ebd>>

\* proc.wait: it has no time limit.
Waited ==
    /\ py = "wait"
    /\ ebd.at = "exited"
    /\ ebp' = [ebp EXCEPT !.proc = FALSE]
    /\ Goto(closer)
    /\ UNCHANGED <<down, open, up, cont, closer, val, got, err, jobvars, ebd>>

Leave == Goto("idle") /\ holder' = "none"

\* What a helper makes of an exception: a ProcessorError becomes a
\* MetadataException, on which the helper asks for another processor; any other
\* one is reported for the package and the processor kept.  One that leaves
\* __del__ is lost.
RaisedToHelper ==
    /\ py = "raise"
    /\ holder = "helper"
    /\ Goto("idle")
    /\ holder' = IF err = "processor" \/ closer = "release" THEN "none" ELSE holder
    /\ UNCHANGED <<down, open, up, cont, closer, val, got, err, taskvars, ebp, ebd>>

RaisedToReader ==
    /\ py = "raise"
    /\ holder = "reader"
    /\ Goto("release")
    /\ UNCHANGED <<down, open, up, cont, closer, val, got, err, jobvars, ebp, ebd>>

\* run_generic_phase: the daemon is told of an IPC error, then shut down; a bug in
\* the Python side of a command kills it and leaves at once.  A die that turns
\* up during the shutdown is caught.
RaisedToPhase ==
    /\ py = "raise"
    /\ holder = "phase"
    /\ \/ /\ closer = "release"
          /\ Goto("release")
          /\ UNCHANGED <<down, holder, ebp, ebd>>
       \/ /\ closer = "idle"
          /\ err = "ipc"
          /\ Send(<<Line("error")>>)
          /\ Goto("stop")
          /\ UNCHANGED <<holder, ebp, ebd>>
       \/ /\ closer = "idle"
          /\ err = "ipc_internal"
          /\ ebp' = [ebp EXCEPT !.proc = FALSE]
          /\ ebd' = Killed(ebd)
          /\ Leave
          /\ UNCHANGED down
       \/ /\ closer = "idle"
          /\ err \notin {"ipc", "ipc_internal"}
          /\ Goto("stop")
          /\ UNCHANGED <<down, holder, ebp, ebd>>
    /\ UNCHANGED <<open, up, cont, closer, val, got, err, taskvars>>

Stop ==
    /\ py = "stop"
    /\ Shutdown("release")
    /\ UNCHANGED <<open, up, val, err, jobvars, ebd>>

\* release_ebuild_processor; one with descriptors of its own is shut down.
Release ==
    /\ py = "release"
    /\ \/ /\ ebp.listed = "active"
          /\ ~ebp.locked
          /\ ~ebp.fds
          /\ ebp' = [ebp EXCEPT !.listed = "inactive"]
          /\ Leave
          /\ UNCHANGED <<down, cont, closer, got>>
       \/ /\ ebp.listed = "active"
          /\ ebp.locked \/ ebp.fds
          /\ closer' = "released"
          /\ UNCHANGED holder
          /\ \/ /\ ebp.proc
                /\ Send(<<Line("alive")>>)
                /\ ebp' = [ebp EXCEPT !.listed = "dropped", !.timer = TRUE,
                                      !.expects = Append(@, Line("yep!"))]
                /\ got' = <<>>
                /\ cont' = "down"
                /\ Goto("expect")
             \/ /\ ~ebp.proc
                /\ ebp' = [ebp EXCEPT !.listed = "dropped"]
                /\ Goto("released")
                /\ UNCHANGED <<down, cont, got>>
       \/ /\ ebp.listed # "active"
          /\ Leave
          /\ UNCHANGED <<down, cont, closer, got, ebp>>
    /\ UNCHANGED <<open, up, val, err, taskvars, ebd>>

Released ==
    /\ py = "released"
    /\ Leave
    /\ UNCHANGED <<down, open, up, cont, closer, val, got, err, taskvars, ebp, ebd>>

\* disable_eclass_caching, by which a helper ends: clear_preloaded_eclasses, then
\* the release.
Finish ==
    /\ Holding("helper")
    /\ closer' = "release"
    /\ IF ebp.proc THEN AskAlive("clear")
       ELSE Goto("forget") /\ UNCHANGED <<down, cont, got, ebp>>
    /\ UNCHANGED <<open, up, val, err, jobvars, ebd>>

Cleared == Line("clear_preload_eclasses succeeded")

Clear ==
    /\ py = "clear"
    /\ \/ /\ val
          /\ Send(<<Line("clear_preloaded_eclasses")>>)
          /\ Expect(Cleared, "cleared")
       \/ /\ ~val
          /\ Goto("forget")
          /\ UNCHANGED <<down, cont, got, ebp>>
    /\ UNCHANGED <<open, up, closer, val, err, jobvars, ebd>>

ClearAnswered ==
    /\ py = "cleared"
    /\ \/ /\ val
          /\ Goto("forget")
          /\ UNCHANGED <<down, cont, closer, got, ebp>>
       \/ /\ ~val
          /\ Shutdown("release")
    /\ UNCHANGED <<open, up, val, err, jobvars, ebd>>

Forget ==
    /\ py = "forget"
    /\ ebp' = [ebp EXCEPT !.known = {}]
    /\ Goto("release")
    /\ UNCHANGED <<down, open, up, cont, closer, val, got, err, jobvars, ebd>>

-----------------------------------------------------------------------------
(* The daemon.                                                             *)

Daemon(at) == ebd.at = at /\ UNCHANGED <<open, pyvars, jobvars, ebp>>

Reads(cmd) == down # <<>> /\ Head(down).cmd = cmd /\ down' = Tail(down)
ReadsOther(cmds) == down # <<>> /\ Head(down).cmd \notin cmds /\ down' = Tail(down)

Writes(lines) == up' = up \o lines

Phases(how) == Msg("phases", how)

\* die, in the subshell of a job; the daemon then reports that the job failed.
Dies == Writes(<<Line("dying"), Line("error text"), Line("dead"), Phases("failed")>>)

Back(d) == [d EXCEPT !.at = "main", !.src = None, !.left = {}]

DaemonBoots ==
    /\ Daemon("boot")
    /\ \/ Reads("ebd?") /\ Writes(<<Line("ebd!")>>) /\ UNCHANGED ebd
       \/ Reads("sandbox?") /\ Writes(<<Line("readonly")>>) /\ ebd' = Back(ebd)

\* The commands the main loop answers at once.
DaemonAnswers ==
    /\ Daemon("main")
    /\ \/ Reads("alive") /\ Writes(<<Line("yep!")>>) /\ UNCHANGED ebd
       \/ /\ Reads("set_metadata_path")
          /\ Writes(<<Line("metadata_path_received")>>)
          /\ UNCHANGED ebd
       \/ /\ Reads("clear_preloaded_eclasses")
          /\ Writes(<<Line("clear_preloaded_eclasses succeeded")>>)
          /\ ebd' = [ebd EXCEPT !.known = {}]
       \/ /\ Reads("preload")
          /\ \/ /\ Writes(<<Line("preload_eclass succeeded")>>)
                /\ ebd' = [ebd EXCEPT !.known = @ \cup {Head(down).arg}]
             \/ /\ "preload" \in faults
                /\ Writes(<<Line("preload_eclass failed")>>)
                /\ UNCHANGED ebd

MainCommands == {"alive", "set_metadata_path", "clear_preloaded_eclasses", "preload",
                 "gen", "process_ebuild", "shutdown_daemon"}

\* It leaves when told to, or when the other end has hung up; on a command it does
\* not know it dies.
DaemonLeaves ==
    /\ Daemon("main")
    /\ \/ Reads("shutdown_daemon") /\ UNCHANGED up
       \/ down = <<>> /\ ~open /\ UNCHANGED <<down, up>>
       \/ /\ ReadsOther(MainCommands)
          /\ Writes(<<Line("dying"), Line("error text"), Line("dead")>>)
    /\ ebd' = Killed(ebd)

DaemonStarts ==
    /\ Daemon("main")
    /\ \/ /\ Reads("gen")
          /\ ebd' = [ebd EXCEPT !.at = "job", !.src = Head(down).arg,
                                !.left = Inherits[Head(down).arg]]
       \/ /\ Reads("process_ebuild")
          /\ ebd' = [ebd EXCEPT !.at = "phases"]
    /\ UNCHANGED up

PhasesCommands == {"start_receiving_env", "logging", "set_sandbox_state",
                   "start_processing", "shutdown_daemon", "alive"}

\* The loop that receives a phase's environment, in a subshell.
DaemonPrepares ==
    /\ Daemon("phases")
    /\ \/ Reads("alive") /\ Writes(<<Line("yep!")>>) /\ UNCHANGED ebd
       \/ Reads("logging") /\ Writes(<<Line("logging_ack")>>) /\ UNCHANGED ebd
       \/ Reads("set_sandbox_state") /\ UNCHANGED <<up, ebd>>
       \/ /\ Reads("start_receiving_env")
          /\ \/ Writes(<<Line("env_received")>>) /\ UNCHANGED ebd
             \/ /\ "envfail" \in faults
                /\ Writes(<<Line("env_receiving_failed"), Phases("failed")>>)
                /\ ebd' = Back(ebd)
       \/ Reads("start_processing") /\ ebd' = [ebd EXCEPT !.at = "job"] /\ UNCHANGED up
       \/ Reads("shutdown_daemon") /\ Writes(<<Phases("succeeded")>>) /\ ebd' = Back(ebd)
       \/ ReadsOther(PhasesCommands) /\ Dies /\ ebd' = Back(ebd)

\* A preloaded eclass is at hand; another one is asked for.
DaemonInherits ==
    /\ Daemon("job")
    /\ \E e \in ebd.left :
         \/ /\ e \in ebd.known
            /\ ebd' = [ebd EXCEPT !.left = @ \ {e}]
            /\ UNCHANGED <<down, up>>
         \/ /\ e \notin ebd.known
            /\ Writes(<<Msg("request_inherit", e)>>)
            /\ ebd' = [ebd EXCEPT !.left = @ \ {e}, !.at = "inherit"]
            /\ UNCHANGED down

\* What a phase asks of Python: a helper's work, or the profile's bashrcs.
DaemonAsks ==
    /\ Daemon("job")
    /\ ebd.src = None
    /\ \/ Writes(<<Line("ipc")>>) /\ ebd' = [ebd EXCEPT !.at = "ipc"]
       \/ Writes(<<Line("request_bashrcs")>>) /\ ebd' = [ebd EXCEPT !.at = "bashrcs"]
    /\ UNCHANGED down

\* The reply: what makes no sense is died upon, a helper's error too unless the
\* command was run as nonfatal.
DaemonIsAnswered ==
    /\ down # <<>>
    /\ \/ /\ Daemon("inherit")
          /\ \/ Reads("path") /\ UNCHANGED up /\ ebd' = [ebd EXCEPT !.at = "job"]
             \/ ReadsOther({"path"}) /\ Dies /\ ebd' = Back(ebd)
       \/ /\ Daemon("ipc")
          /\ \/ Reads("status") /\ UNCHANGED up /\ ebd' = [ebd EXCEPT !.at = "job"]
             \/ ReadsOther({"status"}) /\ Dies /\ ebd' = Back(ebd)
       \/ /\ Daemon("bashrcs")
          /\ \/ Reads("path") /\ Writes(<<Line("next")>>) /\ UNCHANGED ebd
             \/ Reads("end_request") /\ UNCHANGED up /\ ebd' = [ebd EXCEPT !.at = "job"]
             \/ /\ ReadsOther({"path", "end_request"})
                /\ Writes(<<Line("failed"), Line("dying"), Line("error text"),
                            Line("dead"), Phases("failed")>>)
                /\ ebd' = Back(ebd)

\* The end of a job: it succeeds, dies, or fails; if it was sandboxed and left a
\* log of violations, Python is asked for a summary first.
DaemonEnds ==
    /\ Daemon("job")
    /\ \/ /\ ebd.left = {}
          /\ Writes(IF ebd.src = None THEN <<Phases("succeeded")>>
                    ELSE <<Msg("key", ebd.src), Phases("succeeded")>>)
          /\ ebd' = Back(ebd)
       \/ Dies /\ ebd' = Back(ebd)
       \/ Writes(<<Phases("failed")>>) /\ ebd' = Back(ebd)
       \/ /\ "sandboxlog" \in faults
          /\ Writes(<<Line("__request_sandbox_summary")>>)
          /\ ebd' = [ebd EXCEPT !.at = "summary"]
    /\ UNCHANGED down

\* Everything up to the end of the summary is echoed.  Python never sends that end:
\* its handler is registered under another name than the one asked for.
DaemonEchoes ==
    /\ Daemon("summary")
    /\ ReadsOther({"end_sandbox_summary"})
    /\ UNCHANGED <<up, ebd>>

-----------------------------------------------------------------------------
\* What Python does once a call was made.
Python ==
    \/ ReadExpected \/ Expected \/ TimesOut \/ Dying
    \/ Hello \/ Spawned \/ Requested
    \/ PathSet \/ Sync \/ Synced
    \/ HandleKey \/ HandleInherit \/ HandleIpc \/ HandleBashrcs \/ BashrcSent
    \/ HandlePhases \/ HandleDying \/ HandleUnknown
    \/ Preload \/ Returned \/ EnvSent \/ LoggingSet
    \/ AskedDown \/ Waited \/ RaisedToHelper \/ RaisedToReader \/ RaisedToPhase
    \/ Stop \/ Release \/ Released \/ Clear \/ ClearAnswered \/ Forget

Bash ==
    \/ DaemonBoots \/ DaemonAnswers \/ DaemonLeaves \/ DaemonStarts
    \/ DaemonPrepares \/ DaemonInherits \/ DaemonAsks \/ DaemonIsAnswered
    \/ DaemonEnds \/ DaemonEchoes

Next ==
    /\ \/ \E h \in Holders, fds \in BOOLEAN : Request(h, fds)
       \/ \E p \in Pkgs : Gen(p)
       \/ \E how \in {"strict", "lenient"} : Phase(how)
       \/ Finish
       \/ Python
       \/ Bash
    /\ UNCHANGED faults

Spec == Init /\ [][Next]_vars

(***************************************************************************)
(* Fairness: the Python side runs when it can, so does bash, and a job     *)
(* does not ask for helpers and bashrcs for ever.                          *)
(***************************************************************************)
FairSpec ==
    /\ Spec
    /\ WF_vars(Python /\ UNCHANGED faults)
    /\ WF_vars(Bash /\ UNCHANGED faults)
    /\ SF_vars(DaemonEnds /\ UNCHANGED faults)

-----------------------------------------------------------------------------
ErrKinds == {"none", "processor", "unhandled", "key", "build", "timeout",
             "ipc", "ipc_internal"}

Commands == MainCommands \cup PhasesCommands \cup
    {"ebd?", "sandbox?", "path", "status", "error", "end_request"}

\* Every variable holds what the code puts there.
TypeOK ==
    /\ \A i \in DOMAIN down : down[i].cmd \in Commands
    /\ open \in BOOLEAN
    /\ val \in BOOLEAN
    /\ err \in ErrKinds
    /\ holder \in Holders \cup {"none"}
    /\ wanted \in BOOLEAN
    /\ job \in Pkgs \cup {None, "strict", "lenient"}
    /\ keys \subseteq Pkgs
    /\ updates \subseteq Eclasses
    /\ result.p \in Pkgs \cup {None}
    /\ ebp.listed \in {"new", "active", "inactive", "dropped"}
    /\ {ebp.proc, ebp.locked, ebp.paths, ebp.fds, ebp.timer} \subseteq BOOLEAN
    /\ ebp.known \subseteq Eclasses
    /\ ebd.at \in {"boot", "main", "phases", "job", "inherit", "ipc", "bashrcs",
                   "summary", "exited"}
    /\ ebd.src \in Pkgs \cup {None}
    /\ ebd.left \subseteq AllEclasses
    /\ ebd.known \subseteq Eclasses

\* Metadata is the requested package's own: neither side numbers its messages, so
\* an answer left over in the pipe would be taken for that of a later package,
\* and be cached under its name.
KeysAreThePackagesOwn == result.keys \subseteq {result.p}

\* One that borrows a processor for a single package never gets another package's
\* metadata, whatever went wrong before: a processor that is out of step is found
\* out by the question is_responsive asks.  (One late answer at a time; after two
\* it does.)
ReadersGetTheirOwn == result.by = "reader" => result.keys \subseteq {result.p}

\* The lock outlives no handler, whatever exception ends it, and a processor that
\* has no process any more has no daemon any more: a failure alone costs neither
\* the processor nor leaves bash behind.
LockEnds == py \in {"idle", "raise", "stop", "release"} => ~ebp.locked
ProcessIsGone == ~ebp.proc => ebd.at = "exited"
NothingLingers == LockEnds /\ ProcessIsGone

\* Between calls the daemon is in its main loop or on its way through queued
\* preloads, and the pipes hold exactly the lines that are still expected.
PipesAgree ==
    py = "idle" /\ holder # "none" /\ err = "none" =>
      /\ ebp.proc
      /\ ebd.at = "main"
      /\ Len(up) + Len(down) = Len(ebp.expects)
      /\ \A i \in DOMAIN down : down[i].cmd = "preload"
      /\ \A i \in DOMAIN up : up[i] = Line("preload_eclass succeeded")

\* What each of the daemon's loops makes sense of.
Understood ==
    [at \in {"boot", "main", "phases", "inherit", "ipc", "bashrcs"} |->
       CASE at = "boot"    -> {"ebd?", "sandbox?"}
         [] at = "main"    -> MainCommands
         [] at = "phases"  -> PhasesCommands
         [] at = "inherit" -> {"path"}
         [] at = "ipc"     -> {"status", "error"}
         [] at = "bashrcs" -> {"path", "end_request"}]

\* The daemon never finds a line in its pipe that was meant for another of its
\* loops, or for a reader it has left.
CommandsFit ==
    down # <<>> /\ ebd.at \in DOMAIN Understood =>
      Head(down).cmd \in Understood[ebd.at]

\* An eclass Python will not send again is one the daemon has, or is about to read.
PreloadsAreKnown ==
    py = "idle" /\ holder # "none" /\ err = "none" =>
      ebp.known \subseteq ebd.known \cup {down[i].arg : i \in DOMAIN down}

\* No SIGALRM is left armed when a call is over.
TimerStopped == py = "idle" => ~ebp.timer

\* The faults that put nobody out of step: an environment bash refuses.
Harmless == faults \subseteq {"envkey"}

\* As long as nothing worse goes wrong than a bad variable name, the two sides stay
\* in step: each answer goes with its question, no line is lost and no payload
\* read as a command, a package is never sourced with less than Python believes is
\* loaded, and no call leaves its alarm behind for the next.
InStep ==
    Harmless =>
      KeysAreThePackagesOwn /\ PipesAgree /\ CommandsFit /\ PreloadsAreKnown /\ TimerStopped

\* A call that was made returns, with a result or an exception.
CallsReturn == Harmless /\ py # "idle" ~> py = "idle"
=============================================================================
