---------------------------- MODULE HlsPackager ----------------------------
(***************************************************************************)
(* The ffmpeg processes of one playback session                            *)
(* (apps/api/src/stream/hls-packager.service.ts): the maps sessionPack,     *)
(* starting and processes, the directory the segments are written to, and   *)
(* the requests that start, await, seek and clean up a packaging.  Every    *)
(* map is keyed by session id, so the sessions are independent.             *)
(*                                                                         *)
(* A task is one call of ensureFirstSegment or cleanup; its steps are what  *)
(* runs between two awaits.  raced is a history variable that names how     *)
(* the bookkeeping can lose a process; no action reads it.                 *)
(***************************************************************************)
EXTENDS Integers, FiniteSets

CONSTANTS Asked,   \* start positions asked for, in seconds
          Plan,    \* transcode plans, as packagingPlanKey tells them apart
          Child,   \* ffmpeg processes (bound)
          Task,    \* calls served at once (bound)
          MayCrash,  \* the API process may restart
          None

Request == [start : {s \in Asked : s >= 0} \cup {0}, plan : Plan]

\* Mutant: a position before the beginning is kept.
Clamp_Not(s) == s
Clamp(s) == IF s < 0 THEN 0 ELSE s
Wanted == {[start |-> Clamp(s), plan |-> p] : s \in Asked, p \in Plan}

ASSUME PackagerAssumption ==
    /\ Asked \subseteq Int
    /\ None \notin Child \cup Task \cup Request

VARIABLES
    pack,      \* sessionPack: the request packaged last
    starting,  \* the task whose job the starting map holds
    proc,      \* the process the processes map holds
    child,     \* child[c]: what became of the process
    made,      \* made[c]: the request it was spawned for
    present,   \* the directory exists
    shown,     \* the request the first segments in it are of
    pc, req, prior, job, own, victim,
    raced

calls == <<pc, req, prior, job, own, victim>>
dir == <<present, shown>>
vars == <<pack, starting, proc, child, made, dir, calls, raced>>

Alive == {"running", "signalled", "killed"}
RaceName == {"twoJobs", "stoppedMidStart", "cleanedMidStart", "unkilled", "timedOut",
             "notRemoved", "restarted"}
Living == {c \in Child : child[c] \in Alive}
\* The promise of runPackaging is pending.
JobPc == {"mkdir", "poll"}

\* The type of every variable.
TypeOK ==
    /\ pack \in Request \cup {None}
    /\ starting \in Task \cup {None}
    /\ proc \in Child \cup {None}
    /\ child \in [Child -> Alive \cup {"unused", "failed", "closed"}]
    /\ made \in [Child -> Request \cup {None}]
    /\ present \in BOOLEAN
    /\ shown \in Request \cup {None}
    /\ pc \in [Task -> {"idle", "term", "kill", "rm", "removed", "check", "await"} \cup JobPc]
    /\ req \in [Task -> Request \cup {None}]      \* None: cleanup
    /\ prior \in [Task -> Request \cup {None}]
    /\ job \in [Task -> Task \cup {None}]
    /\ own \in [Task -> Child \cup {None}]
    /\ victim \in [Task -> Child \cup {None}]
    /\ raced \in SUBSET RaceName

Init ==
    /\ pack = None /\ starting = None /\ proc = None
    /\ child = [c \in Child |-> "unused"]
    /\ made = [c \in Child |-> None]
    /\ present = FALSE /\ shown = None
    /\ pc = [t \in Task |-> "idle"]
    /\ req = [t \in Task |-> None]
    /\ prior = [t \in Task |-> None]
    /\ job = [t \in Task |-> None]
    /\ own = [t \in Task |-> None]
    /\ victim = [t \in Task |-> None]
    /\ raced = {}

-----------------------------------------------------------------------------
Goto(t, label) == pc' = [pc EXCEPT ![t] = label]
Note(h, condition) == raced' = IF condition THEN raced \cup {h} ELSE raced

\* The call of t returns, and so does every call in S.
Return(S) ==
    /\ pc' = [t \in Task |-> IF t \in S THEN "idle" ELSE pc[t]]
    /\ req' = [t \in Task |-> IF t \in S THEN None ELSE req[t]]
    /\ prior' = [t \in Task |-> IF t \in S THEN None ELSE prior[t]]
    /\ job' = [t \in Task |-> IF t \in S THEN None ELSE job[t]]
    /\ own' = [t \in Task |-> IF t \in S THEN None ELSE own[t]]
    /\ victim' = [t \in Task |-> IF t \in S THEN None ELSE victim[t]]

\* stopPackaging up to its first await: SIGTERM, or straight to the directory.
Signal(t) ==
    \/ /\ proc # None
       /\ child' = [child EXCEPT ![proc] = IF @ = "running" THEN "signalled" ELSE @]
       /\ victim' = [victim EXCEPT ![t] = proc]
       /\ Goto(t, "term")
       /\ UNCHANGED <<starting, raced>>
    \/ /\ proc = None
       /\ starting' = None
       /\ Note("stoppedMidStart", \E k \in Task \ {t} : pc[k] \in JobPc \cup {"check"})
       /\ Goto(t, "rm")
       /\ UNCHANGED <<child, victim>>

\* ensureFirstSegment once the old packaging, if any, is out of the way.
Resume(t, r) ==
    /\ pack' = r
    /\ job' = [job EXCEPT ![t] = starting]
    /\ Goto(t, IF starting = None THEN "check" ELSE "await")

-----------------------------------------------------------------------------
(* The calls.                                                              *)

EnsureSame(t, r) ==
    /\ pc[t] = "idle"
    /\ pack \in {None, r}
    /\ req' = [req EXCEPT ![t] = r]
    /\ prior' = [prior EXCEPT ![t] = pack]
    /\ Resume(t, r)
    /\ UNCHANGED <<starting, proc, child, made, dir, own, victim, raced>>

\* A seek, or another sound track: the running packaging is stopped first.
EnsureOther(t, r) ==
    /\ pc[t] = "idle"
    /\ pack \notin {None, r}
    /\ req' = [req EXCEPT ![t] = r]
    /\ prior' = [prior EXCEPT ![t] = pack]
    /\ Signal(t)
    /\ UNCHANGED <<pack, proc, made, dir, job, own>>

Cleanup(t) ==
    /\ pc[t] = "idle"
    /\ Signal(t)
    /\ UNCHANGED <<pack, proc, made, dir, req, prior, job, own>>

Forget(t) == proc' = IF proc = victim[t] THEN None ELSE proc

\* The process is gone, or it was given up on.
StopEnd(t) ==
    /\ Forget(t)
    /\ victim' = [victim EXCEPT ![t] = None]
    /\ starting' = None
    /\ Note("stoppedMidStart", \E k \in Task \ {t} : pc[k] \in JobPc \cup {"check"})
    /\ Goto(t, "rm")

\* Mutant: the exit of the process is not awaited.
Terminated_NoWait(t) ==
    /\ pc[t] = "term"
    /\ StopEnd(t)
    /\ UNCHANGED <<pack, child, made, dir, req, prior, job, own>>

Terminated(t) ==
    /\ pc[t] = "term"
    /\ child[victim[t]] \notin Alive
    /\ StopEnd(t)
    /\ UNCHANGED <<pack, child, made, dir, req, prior, job, own>>

\* It did not exit within 3 s: SIGKILL.
TermTimeout(t) ==
    /\ pc[t] = "term"
    /\ child[victim[t]] \in Alive
    /\ child' = [child EXCEPT ![victim[t]] = "killed"]
    /\ Goto(t, "kill")
    /\ UNCHANGED <<pack, starting, proc, made, dir, req, prior, job, own, victim, raced>>

Killed(t) ==
    /\ pc[t] = "kill"
    /\ child[victim[t]] \notin Alive
    /\ StopEnd(t)
    /\ UNCHANGED <<pack, child, made, dir, req, prior, job, own>>

\* Nor within 2 s of it: the entry is dropped all the same.
KillTimeout(t) ==
    /\ pc[t] = "kill"
    /\ child[victim[t]] \in Alive
    /\ Forget(t)
    /\ victim' = [victim EXCEPT ![t] = None]
    /\ starting' = None
    /\ Note("unkilled", TRUE)
    /\ Goto(t, "rm")
    /\ UNCHANGED <<pack, child, made, dir, req, prior, job, own>>

\* Mutant: a seek leaves the segments of the old start where they are.
RemoveDir_Keeps(t) ==
    /\ pc[t] = "rm"
    /\ Goto(t, "removed")
    /\ UNCHANGED <<pack, starting, proc, child, made, dir, req, prior, job, own, victim, raced>>

\* An error of the removal is ignored.
RemoveDir(t) ==
    /\ pc[t] = "rm"
    /\ \/ present' = FALSE /\ shown' = None /\ UNCHANGED raced
       \/ Note("notRemoved", present) /\ UNCHANGED dir
    /\ Goto(t, "removed")
    /\ UNCHANGED <<pack, starting, proc, child, made, req, prior, job, own, victim>>

CleanedUp(t) ==
    /\ pc[t] = "removed"
    /\ req[t] = None
    /\ pack' = None
    /\ Note("cleanedMidStart", \E k \in Task \ {t} : req[k] # None)
    /\ Return({t})
    /\ UNCHANGED <<starting, proc, child, made, dir>>

Restart(t) ==
    /\ pc[t] = "removed"
    /\ req[t] # None
    /\ Resume(t, req[t])
    /\ UNCHANGED <<starting, proc, child, made, dir, req, prior, own, victim, raced>>

\* assertSegmentsReady only asks whether the first segments are there.
Ready == shown # None
Reusable(t) == Ready /\ (prior[t] # None => prior[t].start = req[t].start)

AlreadyThere(t) ==
    /\ pc[t] = "check"
    /\ Reusable(t)
    /\ Return({t})
    /\ UNCHANGED <<pack, starting, proc, child, made, dir, raced>>

\* The job is started without looking at the starting map again.
StartJob(t) ==
    /\ pc[t] = "check"
    /\ ~Reusable(t)
    /\ starting' = t
    /\ Note("twoJobs", \E k \in Task \ {t} : pc[k] \in JobPc \cup {"check", "term", "kill", "rm", "removed"})
    /\ Goto(t, "mkdir")
    /\ UNCHANGED <<pack, proc, child, made, dir, req, prior, job, own, victim>>

Spawn(t) ==
    /\ pc[t] = "mkdir"
    /\ present' = TRUE
    /\ \E c \in Child :
          /\ child[c] = "unused"
          /\ child' = [child EXCEPT ![c] = "running"]
          /\ made' = [made EXCEPT ![c] = req[t]]
          /\ proc' = c
          /\ own' = [own EXCEPT ![t] = c]
    /\ Goto(t, "poll")
    /\ UNCHANGED <<pack, starting, shown, req, prior, job, victim, raced>>

\* The promise of the job settles: its owner drops the entry of the starting
\* map, whichever job it is of, and those who await it return with it.
Awaiting(t) == {k \in Task : pc[k] = "await" /\ job[k] = t}
\* Mutant: the entry of the map outlives a job that failed.
FailedEntry_Kept(t) == UNCHANGED starting
FailedEntry(t) == starting' = None

\* No directory, no ffmpeg, or (bound) no process left.
SpawnFails(t) ==
    /\ pc[t] = "mkdir"
    /\ present' \in {present, TRUE}
    /\ FailedEntry(t)
    /\ Return({t} \cup Awaiting(t))
    /\ UNCHANGED <<pack, proc, child, made, shown, raced>>

PollReady(t) ==
    /\ pc[t] = "poll"
    /\ Ready
    /\ starting' = None
    /\ Return({t} \cup Awaiting(t))
    /\ UNCHANGED <<pack, proc, child, made, dir, raced>>

PollFailed(t) ==
    /\ pc[t] = "poll"
    /\ ~Ready
    /\ child[own[t]] = "failed"
    /\ FailedEntry(t)
    /\ Return({t} \cup Awaiting(t))
    /\ UNCHANGED <<pack, proc, child, made, dir, raced>>

\* Mutant: the poll has no deadline.
PollDeadline_Never(t) == pc[t] = "poll" /\ FALSE /\ UNCHANGED vars
\* The deadline: the process is asked to go, and nobody waits for it.
PollDeadline(t) ==
    /\ pc[t] = "poll"
    /\ ~Ready
    /\ child' = [child EXCEPT ![own[t]] = IF @ = "running" THEN "signalled" ELSE @]
    /\ Note("timedOut", child[own[t]] \in Alive)
    /\ FailedEntry(t)
    /\ Return({t} \cup Awaiting(t))
    /\ UNCHANGED <<pack, proc, made, dir>>

-----------------------------------------------------------------------------
(* ffmpeg.                                                                 *)

\* The first segments are complete; an older process may overwrite them.
Write(c) ==
    /\ child[c] \in {"running", "signalled"}
    /\ present
    /\ shown' = made[c]
    /\ UNCHANGED <<pack, starting, proc, child, made, present, calls, raced>>

\* Mutant: the close handler leaves the entry in the map.
Closed_Leaves(c) == UNCHANGED proc
Closed(c) == proc' = IF proc = c THEN None ELSE proc

\* ffmpeg ends well, fails with an exit code, also in answer to SIGTERM, or dies
\* of the signal, which leaves exitCode null.
Close(c) ==
    /\ child[c] \in Alive
    /\ \E end \in IF child[c] = "killed" THEN {"closed"} ELSE {"closed", "failed"} :
          child' = [child EXCEPT ![c] = end]
    /\ made' = [made EXCEPT ![c] = None]
    /\ Closed(c)
    /\ UNCHANGED <<pack, starting, dir, calls, raced>>

\* The API restarts: its maps are empty, the directory stays, and a process
\* may survive it.
Crash ==
    /\ MayCrash
    /\ pack' = None /\ starting' = None /\ proc' = None
    /\ \E D \in SUBSET Living :
          /\ child' = [c \in Child |-> IF c \in D THEN "closed" ELSE child[c]]
          /\ made' = [c \in Child |-> IF c \in D THEN None ELSE made[c]]
    /\ raced' = raced \cup {"restarted"}
    /\ Return(Task)
    /\ UNCHANGED dir

Serve(t) ==
    \/ Terminated(t) \/ TermTimeout(t) \/ Killed(t) \/ KillTimeout(t)
    \/ RemoveDir(t) \/ CleanedUp(t) \/ Restart(t)
    \/ AlreadyThere(t) \/ StartJob(t) \/ Spawn(t) \/ SpawnFails(t)
    \/ PollReady(t) \/ PollFailed(t) \/ PollDeadline(t)

Next ==
    \/ \E t \in Task : \/ \E r \in Wanted : EnsureSame(t, r) \/ EnsureOther(t, r)
                       \/ Cleanup(t)
                       \/ Serve(t)
    \/ \E c \in Child : Write(c) \/ Close(c)
    \/ Crash

Spec == Init /\ [][Next]_vars

\* Every await returns: the waits, the poll and the promises of the file
\* system are bounded.
FairSpec == Spec /\ \A t \in Task : WF_vars(Serve(t))

-----------------------------------------------------------------------------
(* Properties.                                                             *)

\* The starting map never holds a promise that has settled: whoever joins it
\* (existing in ensureFirstSegment) is answered when its job is.
StartingIsPending == starting # None => pc[starting] \in JobPc

\* The processes map never holds a process that has closed, whatever
\* overlapped: stopPackaging does not wait for, nor signal, a dead one.
TrackedIsAlive == proc # None => child[proc] \in Alive

\* Unless two jobs overlapped, a stop met a job that had not spawned yet, a
\* process was given up on, a directory stayed or the API restarted, one process
\* at most works for the session and the processes map holds it, so that cleanup
\* can reach it.
OneTrackedChild ==
    raced = {} => Living \subseteq {proc} \ {None}

\* Unless one of those happened, a call that finds or awaits segments is
\* answered with the segments of the start and the plan it asked for.
ServedAsAsked ==
    [][\A t \in Task :
          /\ raced = {} /\ req[t] # None /\ req'[t] = None
          /\ pc[IF pc[t] = "await" THEN job[t] ELSE t] \in {"check", "poll"}
          /\ Ready
          => shown = req[t]]_vars

\* Every call returns.
CallsReturn == \A t \in Task : pc[t] # "idle" ~> pc[t] = "idle"
=============================================================================
