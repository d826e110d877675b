------------------------- MODULE HlsPackager_proofs -------------------------
(* Theorems about HlsPackager.                                             *)
EXTENDS HlsPackager, TLAPS

-----------------------------------------------------------------------------
(* The inductive invariant.                                                *)

\* What a call or a process carries at each of its steps.
Shape ==
    /\ \A t \in Task : pc[t] \in {"term", "kill"} => victim[t] \in Child
    /\ \A t \in Task : pc[t] = "poll" => own[t] \in Child
    /\ \A t \in Task : pc[t] \in {"check"} \cup JobPc => req[t] \in Request
    /\ \A c \in Living : made[c] \in Request

\* A pending job is the one the starting map holds; nobody clears the
\* directory, or is about to start a job, beside it.
OneJob ==
    /\ \A t \in Task : pc[t] \in JobPc => starting = t
    /\ \A t, k \in Task :
          pc[t] \in {"rm", "removed", "check"} /\ pc[k] \in JobPc => FALSE
    /\ \A t, k \in Task : pc[t] \in {"term", "kill"} => pc[k] # "mkdir"

\* Who may still be at work, as each call knows it.
Known ==
    /\ Living \subseteq {proc} \ {None}
    /\ \A t \in Task : pc[t] \in {"mkdir", "rm", "removed"} => Living = {}
    /\ \A t \in Task : pc[t] = "poll" => Living \subseteq {own[t]}
    /\ \A t \in Task : pc[t] \in {"term", "kill"} => Living \subseteq {victim[t]}
    /\ \A t \in Task :
          pc[t] = "check" /\ prior[t] # None /\ prior[t].start # req[t].start
             => Living = {}

\* A process at work has shown its first segments, or somebody attends to it.
Attended ==
    Living # {} => \/ Ready
                   \/ \E t \in Task : pc[t] \in {"poll", "term", "kill"}

\* What is at work, and what was shown, is of the request packaged last. A call that
\* another has left behind finds nothing, and cannot start a job beside that other.
Aimed ==
    /\ shown # None => present /\ shown = pack
    /\ \A c \in Living : made[c] = pack
    /\ pack = None => \A t \in Task : req[t] = None
    /\ \A t \in Task : pc[t] = "removed" => shown = None
    /\ \A t \in Task : pc[t] \in JobPc => req[t] = pack
    /\ \A t \in Task :
          pc[t] = "check" /\ req[t] # pack
             => shown = None /\ Living = {} /\ \E k \in Task : pc[k] = "check" /\ req[k] = pack
    /\ \A t \in Task :
          pc[t] = "await" => job[t] \in Task /\ pc[job[t]] \in JobPc /\ req[t] = pack

Calm == raced = {} => OneJob /\ Known /\ Attended /\ Aimed

Inv == TypeOK /\ Shape /\ StartingIsPending /\ TrackedIsAlive /\ Calm

-----------------------------------------------------------------------------
(* Preservation.                                                           *)

\* The position a client asks for, clamped, is one of a request.
LEMMA WantedIsRequest == Wanted \subseteq Request
  BY PackagerAssumption DEF Wanted, Request, Clamp

\* What the beginning of stopPackaging leaves behind, by type.
LEMMA SignalTypes ==
    ASSUME TypeOK, NEW t \in Task, Signal(t)
    PROVE  /\ child' \in [Child -> Alive \cup {"unused", "failed", "closed"}]
           /\ victim' \in [Task -> Child \cup {None}]
           /\ pc' \in [Task -> {"idle", "term", "kill", "rm", "removed", "check", "await"} \cup JobPc]
           /\ starting' \in Task \cup {None}
           /\ raced' \in SUBSET RaceName
<1>1. CASE proc # None
  <2>1. child' = [child EXCEPT ![proc] = IF @ = "running" THEN "signalled" ELSE @]
    BY <1>1 DEF Signal
  <2>2. child' \in [Child -> Alive \cup {"unused", "failed", "closed"}]
    BY <2>1 DEF TypeOK, Alive
  <2>3. /\ victim' = [victim EXCEPT ![t] = proc]
        /\ pc' = [pc EXCEPT ![t] = "term"]
        /\ UNCHANGED <<starting, raced>>
    BY <1>1 DEF Signal, Goto
  <2> QED
    BY <2>2, <2>3 DEF TypeOK
<1>2. CASE proc = None
  BY <1>2 DEF Signal, TypeOK, Goto, Note, RaceName
<1> QED
  BY <1>1, <1>2

\* Every step keeps the types.
LEMMA TypeStep ==
    ASSUME TypeOK, Shape, [Next]_vars
    PROVE  TypeOK'
<1> USE PackagerAssumption DEF TypeOK, Shape, JobPc, Alive, RaceName, Living, dir, calls
<1>1.  ASSUME NEW t \in Task, NEW r \in Request, EnsureSame(t, r) PROVE TypeOK'
  BY <1>1 DEF EnsureSame, Resume, Goto
<1>2.  ASSUME NEW t \in Task, NEW r \in Request, EnsureOther(t, r) PROVE TypeOK'
  BY <1>2, WantedIsRequest, SignalTypes DEF EnsureOther
<1>3.  ASSUME NEW t \in Task, Cleanup(t) PROVE TypeOK'
  BY <1>3, SignalTypes DEF Cleanup
<1>4.  ASSUME NEW t \in Task, Terminated(t) PROVE TypeOK'
  BY <1>4 DEF Terminated, StopEnd, Forget, Goto, Note
<1>5.  ASSUME NEW t \in Task, TermTimeout(t) PROVE TypeOK'
  BY <1>5 DEF TermTimeout, Goto
<1>6.  ASSUME NEW t \in Task, Killed(t) PROVE TypeOK'
  BY <1>6 DEF Killed, StopEnd, Forget, Goto, Note
<1>7.  ASSUME NEW t \in Task, KillTimeout(t) PROVE TypeOK'
  BY <1>7 DEF KillTimeout, Forget, Goto, Note
<1>8.  ASSUME NEW t \in Task, RemoveDir(t) PROVE TypeOK'
  <2>1. /\ present' \in BOOLEAN /\ shown' \in Request \cup {None}
        /\ raced' \in SUBSET RaceName
    <3>1. CASE present' = FALSE /\ shown' = None /\ UNCHANGED raced
      BY <3>1
    <3>2. CASE Note("notRemoved", present) /\ UNCHANGED dir
      BY <3>2 DEF Note
    <3> QED
      BY <1>8, <3>1, <3>2 DEF RemoveDir
  <2>2. /\ pc' = [pc EXCEPT ![t] = "removed"]
        /\ UNCHANGED <<pack, starting, proc, child, made, req, prior, job, own, victim>>
    BY <1>8 DEF RemoveDir, Goto
  <2> QED
    BY <2>1, <2>2
<1>9.  ASSUME NEW t \in Task, CleanedUp(t) PROVE TypeOK'
  BY <1>9 DEF CleanedUp, Return, Note
<1>10.  ASSUME NEW t \in Task, Restart(t) PROVE TypeOK'
  BY <1>10 DEF Restart, Resume, Goto
<1>11.  ASSUME NEW t \in Task, AlreadyThere(t) PROVE TypeOK'
  BY <1>11 DEF AlreadyThere, Return
<1>12.  ASSUME NEW t \in Task, StartJob(t) PROVE TypeOK'
  BY <1>12 DEF StartJob, Reusable, Goto, Note
<1>13.  ASSUME NEW t \in Task, Spawn(t) PROVE TypeOK'
  BY <1>13 DEF Spawn, Goto
<1>14.  ASSUME NEW t \in Task, SpawnFails(t) PROVE TypeOK'
  BY <1>14 DEF SpawnFails, FailedEntry, Return
<1>15.  ASSUME NEW t \in Task, PollReady(t) PROVE TypeOK'
  BY <1>15 DEF PollReady, Return
<1>16.  ASSUME NEW t \in Task, PollFailed(t) PROVE TypeOK'
  BY <1>16 DEF PollFailed, FailedEntry, Return
<1>17.  ASSUME NEW t \in Task, PollDeadline(t) PROVE TypeOK'
  BY <1>17 DEF PollDeadline, FailedEntry, Return, Note
<1>18.  ASSUME NEW c \in Child, Write(c) PROVE TypeOK'
  BY <1>18 DEF Write
<1>19.  ASSUME NEW c \in Child, Close(c) PROVE TypeOK'
  BY <1>19 DEF Close, Closed
<1>20.  ASSUME Crash PROVE TypeOK'
  BY <1>20 DEF Crash, Return
<1>21. CASE UNCHANGED vars
  BY <1>21 DEF vars, calls, dir
<1> QED
  BY <1>1, <1>2, <1>3, <1>4, <1>5, <1>6, <1>7, <1>8, <1>9, <1>10, <1>11, <1>12, <1>13, <1>14, <1>15, <1>16, <1>17, <1>18, <1>19, <1>20, <1>21, WantedIsRequest DEF Next, Serve

\* Every step keeps what calls and processes carry.
LEMMA ShapeStep ==
    ASSUME TypeOK, Shape, [Next]_vars
    PROVE  Shape'
<1> USE PackagerAssumption DEF TypeOK, Shape, JobPc, Alive, Living, dir, calls
<1>1.  ASSUME NEW t \in Task, NEW r \in Request, EnsureSame(t, r) PROVE Shape'
  BY <1>1 DEF EnsureSame, Resume, Goto
<1>2.  ASSUME NEW t \in Task, NEW r \in Request, EnsureOther(t, r) PROVE Shape'
  BY <1>2 DEF EnsureOther, Signal, Goto, Note
<1>3.  ASSUME NEW t \in Task, Cleanup(t) PROVE Shape'
  BY <1>3 DEF Cleanup, Signal, Goto, Note
<1>4.  ASSUME NEW t \in Task, Terminated(t) PROVE Shape'
  BY <1>4 DEF Terminated, StopEnd, Forget, Goto, Note
<1>5.  ASSUME NEW t \in Task, TermTimeout(t) PROVE Shape'
  BY <1>5 DEF TermTimeout, Goto
<1>6.  ASSUME NEW t \in Task, Killed(t) PROVE Shape'
  BY <1>6 DEF Killed, StopEnd, Forget, Goto, Note
<1>7.  ASSUME NEW t \in Task, KillTimeout(t) PROVE Shape'
  BY <1>7 DEF KillTimeout, Forget, Goto, Note
<1>8.  ASSUME NEW t \in Task, RemoveDir(t) PROVE Shape'
  BY <1>8 DEF RemoveDir, Goto, Note
<1>9.  ASSUME NEW t \in Task, CleanedUp(t) PROVE Shape'
  BY <1>9 DEF CleanedUp, Return, Note
<1>10.  ASSUME NEW t \in Task, Restart(t) PROVE Shape'
  BY <1>10 DEF Restart, Resume, Goto
<1>11.  ASSUME NEW t \in Task, AlreadyThere(t) PROVE Shape'
  BY <1>11 DEF AlreadyThere, Return
<1>12.  ASSUME NEW t \in Task, StartJob(t) PROVE Shape'
  BY <1>12 DEF StartJob, Reusable, Goto, Note
<1>13.  ASSUME NEW t \in Task, Spawn(t) PROVE Shape'
  BY <1>13 DEF Spawn, Goto
<1>14.  ASSUME NEW t \in Task, SpawnFails(t) PROVE Shape'
  BY <1>14 DEF SpawnFails, FailedEntry, Return
<1>15.  ASSUME NEW t \in Task, PollReady(t) PROVE Shape'
  BY <1>15 DEF PollReady, Return
<1>16.  ASSUME NEW t \in Task, PollFailed(t) PROVE Shape'
  BY <1>16 DEF PollFailed, FailedEntry, Return
<1>17.  ASSUME NEW t \in Task, PollDeadline(t) PROVE Shape'
  BY <1>17 DEF PollDeadline, FailedEntry, Return, Note
<1>18.  ASSUME NEW c \in Child, Write(c) PROVE Shape'
  BY <1>18 DEF Write
<1>19.  ASSUME NEW c \in Child, Close(c) PROVE Shape'
  BY <1>19 DEF Close, Closed
<1>20.  ASSUME Crash PROVE Shape'
  BY <1>20 DEF Crash, Return
<1>21. CASE UNCHANGED vars
  BY <1>21 DEF vars, calls, dir
<1> QED
  BY <1>1, <1>2, <1>3, <1>4, <1>5, <1>6, <1>7, <1>8, <1>9, <1>10, <1>11, <1>12, <1>13, <1>14, <1>15, <1>16, <1>17, <1>18, <1>19, <1>20, <1>21, WantedIsRequest DEF Next, Serve

\* The starting map keeps to pending jobs: only a job itself leaves its own
\* pending steps, and it clears the map.
LEMMA PendingStep ==
    ASSUME TypeOK, StartingIsPending, [Next]_vars
    PROVE  StartingIsPending'
<1> USE PackagerAssumption DEF TypeOK, StartingIsPending, JobPc, dir, calls
<1>1.  ASSUME NEW t \in Task, NEW r \in Request, EnsureSame(t, r) PROVE StartingIsPending'
  BY <1>1 DEF EnsureSame, Resume, Goto
<1>2.  ASSUME NEW t \in Task, NEW r \in Request, EnsureOther(t, r) PROVE StartingIsPending'
  BY <1>2 DEF EnsureOther, Signal, Goto, Note
<1>3.  ASSUME NEW t \in Task, Cleanup(t) PROVE StartingIsPending'
  BY <1>3 DEF Cleanup, Signal, Goto, Note
<1>4.  ASSUME NEW t \in Task, Terminated(t) PROVE StartingIsPending'
  BY <1>4 DEF Terminated, StopEnd, Forget, Goto, Note
<1>5.  ASSUME NEW t \in Task, TermTimeout(t) PROVE StartingIsPending'
  BY <1>5 DEF TermTimeout, Goto
<1>6.  ASSUME NEW t \in Task, Killed(t) PROVE StartingIsPending'
  BY <1>6 DEF Killed, StopEnd, Forget, Goto, Note
<1>7.  ASSUME NEW t \in Task, KillTimeout(t) PROVE StartingIsPending'
  BY <1>7 DEF KillTimeout, Forget, Goto, Note
<1>8.  ASSUME NEW t \in Task, RemoveDir(t) PROVE StartingIsPending'
  BY <1>8 DEF RemoveDir, Goto, Note
<1>9.  ASSUME NEW t \in Task, CleanedUp(t) PROVE StartingIsPending'
  BY <1>9 DEF CleanedUp, Return, Note
<1>10.  ASSUME NEW t \in Task, Restart(t) PROVE StartingIsPending'
  BY <1>10 DEF Restart, Resume, Goto
<1>11.  ASSUME NEW t \in Task, AlreadyThere(t) PROVE StartingIsPending'
  BY <1>11 DEF AlreadyThere, Return
<1>12.  ASSUME NEW t \in Task, StartJob(t) PROVE StartingIsPending'
  BY <1>12 DEF StartJob, Reusable, Goto, Note
<1>13.  ASSUME NEW t \in Task, Spawn(t) PROVE StartingIsPending'
  BY <1>13 DEF Spawn, Goto
<1>14.  ASSUME NEW t \in Task, SpawnFails(t) PROVE StartingIsPending'
  BY <1>14 DEF SpawnFails, FailedEntry, Return
<1>15.  ASSUME NEW t \in Task, PollReady(t) PROVE StartingIsPending'
  BY <1>15 DEF PollReady, Return
<1>16.  ASSUME NEW t \in Task, PollFailed(t) PROVE StartingIsPending'
  BY <1>16 DEF PollFailed, FailedEntry, Return
<1>17.  ASSUME NEW t \in Task, PollDeadline(t) PROVE StartingIsPending'
  BY <1>17 DEF PollDeadline, FailedEntry, Return, Note
<1>18.  ASSUME NEW c \in Child, Write(c) PROVE StartingIsPending'
  BY <1>18 DEF Write
<1>19.  ASSUME NEW c \in Child, Close(c) PROVE StartingIsPending'
  BY <1>19 DEF Close, Closed
<1>20.  ASSUME Crash PROVE StartingIsPending'
  BY <1>20 DEF Crash, Return
<1>21. CASE UNCHANGED vars
  BY <1>21 DEF vars, calls, dir
<1> QED
  BY <1>1, <1>2, <1>3, <1>4, <1>5, <1>6, <1>7, <1>8, <1>9, <1>10, <1>11, <1>12, <1>13, <1>14, <1>15, <1>16, <1>17, <1>18, <1>19, <1>20, <1>21, WantedIsRequest DEF Next, Serve

\* The processes map keeps to living processes: close clears its entry.
LEMMA AliveStep ==
    ASSUME TypeOK, TrackedIsAlive, [Next]_vars
    PROVE  TrackedIsAlive'
<1> USE PackagerAssumption DEF TypeOK, TrackedIsAlive, Alive, dir, calls
<1>1.  ASSUME NEW t \in Task, NEW r \in Request, EnsureSame(t, r) PROVE TrackedIsAlive'
  BY <1>1 DEF EnsureSame, Resume, Goto
<1>2.  ASSUME NEW t \in Task, NEW r \in Request, EnsureOther(t, r) PROVE TrackedIsAlive'
  BY <1>2 DEF EnsureOther, Signal, Goto, Note
<1>3.  ASSUME NEW t \in Task, Cleanup(t) PROVE TrackedIsAlive'
  BY <1>3 DEF Cleanup, Signal, Goto, Note
<1>4.  ASSUME NEW t \in Task, Terminated(t) PROVE TrackedIsAlive'
  BY <1>4 DEF Terminated, StopEnd, Forget, Goto, Note
<1>5.  ASSUME NEW t \in Task, TermTimeout(t) PROVE TrackedIsAlive'
  BY <1>5 DEF TermTimeout, Goto
<1>6.  ASSUME NEW t \in Task, Killed(t) PROVE TrackedIsAlive'
  BY <1>6 DEF Killed, StopEnd, Forget, Goto, Note
<1>7.  ASSUME NEW t \in Task, KillTimeout(t) PROVE TrackedIsAlive'
  BY <1>7 DEF KillTimeout, Forget, Goto, Note
<1>8.  ASSUME NEW t \in Task, RemoveDir(t) PROVE TrackedIsAlive'
  BY <1>8 DEF RemoveDir, Goto, Note
<1>9.  ASSUME NEW t \in Task, CleanedUp(t) PROVE TrackedIsAlive'
  BY <1>9 DEF CleanedUp, Return, Note
<1>10.  ASSUME NEW t \in Task, Restart(t) PROVE TrackedIsAlive'
  BY <1>10 DEF Restart, Resume, Goto
<1>11.  ASSUME NEW t \in Task, AlreadyThere(t) PROVE TrackedIsAlive'
  BY <1>11 DEF AlreadyThere, Return
<1>12.  ASSUME NEW t \in Task, StartJob(t) PROVE TrackedIsAlive'
  BY <1>12 DEF StartJob, Reusable, Goto, Note
<1>13.  ASSUME NEW t \in Task, Spawn(t) PROVE TrackedIsAlive'
  BY <1>13 DEF Spawn, Goto
<1>14.  ASSUME NEW t \in Task, SpawnFails(t) PROVE TrackedIsAlive'
  BY <1>14 DEF SpawnFails, FailedEntry, Return
<1>15.  ASSUME NEW t \in Task, PollReady(t) PROVE TrackedIsAlive'
  BY <1>15 DEF PollReady, Return
<1>16.  ASSUME NEW t \in Task, PollFailed(t) PROVE TrackedIsAlive'
  BY <1>16 DEF PollFailed, FailedEntry, Return
<1>17.  ASSUME NEW t \in Task, PollDeadline(t) PROVE TrackedIsAlive'
  BY <1>17 DEF PollDeadline, FailedEntry, Return, Note
<1>18.  ASSUME NEW c \in Child, Write(c) PROVE TrackedIsAlive'
  BY <1>18 DEF Write
<1>19.  ASSUME NEW c \in Child, Close(c) PROVE TrackedIsAlive'
  BY <1>19 DEF Close, Closed
<1>20.  ASSUME Crash PROVE TrackedIsAlive'
  BY <1>20 DEF Crash, Return
<1>21. CASE UNCHANGED vars
  BY <1>21 DEF vars, calls, dir
<1> QED
  BY <1>1, <1>2, <1>3, <1>4, <1>5, <1>6, <1>7, <1>8, <1>9, <1>10, <1>11, <1>12, <1>13, <1>14, <1>15, <1>16, <1>17, <1>18, <1>19, <1>20, <1>21, WantedIsRequest DEF Next, Serve

\* In the calm, one job at a time, and nobody clears its directory.
LEMMA OneJobStep ==
    ASSUME Inv, raced' = {}, [Next]_vars
    PROVE  OneJob'
<1> USE PackagerAssumption DEF Inv, TypeOK, Shape, StartingIsPending, TrackedIsAlive, Calm, OneJob, Known, Attended, JobPc, Alive, Living, Ready, dir, calls
<1>1.  ASSUME NEW t \in Task, NEW r \in Request, EnsureSame(t, r) PROVE OneJob'
  BY <1>1 DEF EnsureSame, Resume, Goto
<1>2.  ASSUME NEW t \in Task, NEW r \in Request, EnsureOther(t, r) PROVE OneJob'
  <2>1. Signal(t) /\ UNCHANGED proc
    BY <1>2 DEF EnsureOther
  <2>2. ASSUME proc # None PROVE OneJob'
    <3>1. proc \in Living /\ raced = {}
      BY <2>1, <2>2 DEF Signal
    <3>2. OneJob /\ \A k \in Task : pc[k] # "mkdir"
      BY <3>1
    <3>3. starting' = starting /\ pc' = [pc EXCEPT ![t] = "term"]
      BY <2>1, <2>2 DEF Signal, Goto
    <3> QED
      BY <1>2, <3>2, <3>3 DEF EnsureOther
  <2>3. ASSUME proc = None PROVE OneJob'
    <3>1. \A k \in Task \ {t} : pc[k] \notin JobPc
      BY <2>1, <2>3 DEF Signal, Note
    <3>2. pc' = [pc EXCEPT ![t] = "rm"]
      BY <2>1, <2>3 DEF Signal, Goto
    <3> QED
      BY <1>2, <3>1, <3>2 DEF EnsureOther
  <2> QED
    BY <2>2, <2>3
<1>3.  ASSUME NEW t \in Task, Cleanup(t) PROVE OneJob'
  <2>1. Signal(t) /\ UNCHANGED proc
    BY <1>3 DEF Cleanup
  <2>2. ASSUME proc # None PROVE OneJob'
    <3>1. proc \in Living /\ raced = {}
      BY <2>1, <2>2 DEF Signal
    <3>2. OneJob /\ \A k \in Task : pc[k] # "mkdir"
      BY <3>1
    <3>3. starting' = starting /\ pc' = [pc EXCEPT ![t] = "term"]
      BY <2>1, <2>2 DEF Signal, Goto
    <3> QED
      BY <1>3, <3>2, <3>3 DEF Cleanup
  <2>3. ASSUME proc = None PROVE OneJob'
    <3>1. \A k \in Task \ {t} : pc[k] \notin JobPc
      BY <2>1, <2>3 DEF Signal, Note
    <3>2. pc' = [pc EXCEPT ![t] = "rm"]
      BY <2>1, <2>3 DEF Signal, Goto
    <3> QED
      BY <1>3, <3>1, <3>2 DEF Cleanup
  <2> QED
    BY <2>2, <2>3
<1>4.  ASSUME NEW t \in Task, Terminated(t) PROVE OneJob'
  BY <1>4 DEF Terminated, StopEnd, Forget, Goto, Note
<1>5.  ASSUME NEW t \in Task, TermTimeout(t) PROVE OneJob'
  BY <1>5 DEF TermTimeout, Goto
<1>6.  ASSUME NEW t \in Task, Killed(t) PROVE OneJob'
  BY <1>6 DEF Killed, StopEnd, Forget, Goto, Note
<1>7.  ASSUME NEW t \in Task, KillTimeout(t) PROVE OneJob'
  BY <1>7 DEF KillTimeout, Forget, Goto, Note
<1>8.  ASSUME NEW t \in Task, RemoveDir(t) PROVE OneJob'
  BY <1>8 DEF RemoveDir, Goto, Note
<1>9.  ASSUME NEW t \in Task, CleanedUp(t) PROVE OneJob'
  BY <1>9 DEF CleanedUp, Return, Note
<1>10.  ASSUME NEW t \in Task, Restart(t) PROVE OneJob'
  BY <1>10 DEF Restart, Resume, Goto
<1>11.  ASSUME NEW t \in Task, AlreadyThere(t) PROVE OneJob'
  BY <1>11 DEF AlreadyThere, Return
<1>12.  ASSUME NEW t \in Task, StartJob(t) PROVE OneJob'
  BY <1>12, SMTT(40) DEF StartJob, Reusable, Goto, Note
<1>13.  ASSUME NEW t \in Task, Spawn(t) PROVE OneJob'
  BY <1>13 DEF Spawn, Goto
<1>14.  ASSUME NEW t \in Task, SpawnFails(t) PROVE OneJob'
  BY <1>14 DEF SpawnFails, FailedEntry, Return
<1>15.  ASSUME NEW t \in Task, PollReady(t) PROVE OneJob'
  BY <1>15 DEF PollReady, Return
<1>16.  ASSUME NEW t \in Task, PollFailed(t) PROVE OneJob'
  BY <1>16 DEF PollFailed, FailedEntry, Return
<1>17.  ASSUME NEW t \in Task, PollDeadline(t) PROVE OneJob'
  BY <1>17 DEF PollDeadline, FailedEntry, Return, Note
<1>18.  ASSUME NEW c \in Child, Write(c) PROVE OneJob'
  BY <1>18 DEF Write
<1>19.  ASSUME NEW c \in Child, Close(c) PROVE OneJob'
  BY <1>19 DEF Close, Closed
<1>20.  ASSUME Crash PROVE OneJob'
  BY <1>20 DEF Crash, Return
<1>21. CASE UNCHANGED vars
  BY <1>21 DEF vars, calls, dir
<1> QED
  BY <1>1, <1>2, <1>3, <1>4, <1>5, <1>6, <1>7, <1>8, <1>9, <1>10, <1>11, <1>12, <1>13, <1>14, <1>15, <1>16, <1>17, <1>18, <1>19, <1>20, <1>21, WantedIsRequest DEF Next, Serve

\* In the calm, the processes at work are those the calls know of.
LEMMA KnownStep ==
    ASSUME Inv, raced' = {}, [Next]_vars
    PROVE  Known'
<1> USE PackagerAssumption DEF Inv, TypeOK, Shape, StartingIsPending, TrackedIsAlive, Calm, OneJob, Known, Attended, JobPc, Alive, Living, Ready, dir, calls
<1>1.  ASSUME NEW t \in Task, NEW r \in Request, EnsureSame(t, r) PROVE Known'
  BY <1>1 DEF EnsureSame, Resume, Goto
<1>2.  ASSUME NEW t \in Task, NEW r \in Request, EnsureOther(t, r) PROVE Known'
  BY <1>2 DEF EnsureOther, Signal, Goto, Note
<1>3.  ASSUME NEW t \in Task, Cleanup(t) PROVE Known'
  BY <1>3 DEF Cleanup, Signal, Goto, Note
<1>4.  ASSUME NEW t \in Task, Terminated(t) PROVE Known'
  BY <1>4 DEF Terminated, StopEnd, Forget, Goto, Note
<1>5.  ASSUME NEW t \in Task, TermTimeout(t) PROVE Known'
  BY <1>5 DEF TermTimeout, Goto
<1>6.  ASSUME NEW t \in Task, Killed(t) PROVE Known'
  BY <1>6 DEF Killed, StopEnd, Forget, Goto, Note
<1>7.  ASSUME NEW t \in Task, KillTimeout(t) PROVE Known'
  BY <1>7 DEF KillTimeout, Forget, Goto, Note
<1>8.  ASSUME NEW t \in Task, RemoveDir(t) PROVE Known'
  BY <1>8 DEF RemoveDir, Goto, Note
<1>9.  ASSUME NEW t \in Task, CleanedUp(t) PROVE Known'
  BY <1>9 DEF CleanedUp, Return, Note
<1>10.  ASSUME NEW t \in Task, Restart(t) PROVE Known'
  BY <1>10 DEF Restart, Resume, Goto
<1>11.  ASSUME NEW t \in Task, AlreadyThere(t) PROVE Known'
  BY <1>11 DEF AlreadyThere, Return
<1>12.  ASSUME NEW t \in Task, StartJob(t) PROVE Known'
  BY <1>12 DEF StartJob, Reusable, Goto, Note
<1>13.  ASSUME NEW t \in Task, Spawn(t) PROVE Known'
  BY <1>13 DEF Spawn, Goto
<1>14.  ASSUME NEW t \in Task, SpawnFails(t) PROVE Known'
  BY <1>14 DEF SpawnFails, FailedEntry, Return
<1>15.  ASSUME NEW t \in Task, PollReady(t) PROVE Known'
  BY <1>15 DEF PollReady, Return
<1>16.  ASSUME NEW t \in Task, PollFailed(t) PROVE Known'
  BY <1>16 DEF PollFailed, FailedEntry, Return
<1>17.  ASSUME NEW t \in Task, PollDeadline(t) PROVE Known'
  BY <1>17 DEF PollDeadline, FailedEntry, Return, Note
<1>18.  ASSUME NEW c \in Child, Write(c) PROVE Known'
  BY <1>18 DEF Write
<1>19.  ASSUME NEW c \in Child, Close(c) PROVE Known'
  BY <1>19 DEF Close, Closed
<1>20.  ASSUME Crash PROVE Known'
  BY <1>20 DEF Crash, Return
<1>21. CASE UNCHANGED vars
  BY <1>21 DEF vars, calls, dir
<1> QED
  BY <1>1, <1>2, <1>3, <1>4, <1>5, <1>6, <1>7, <1>8, <1>9, <1>10, <1>11, <1>12, <1>13, <1>14, <1>15, <1>16, <1>17, <1>18, <1>19, <1>20, <1>21, WantedIsRequest DEF Next, Serve

\* In the calm, a process without segments is attended to.
LEMMA AttendedStep ==
    ASSUME Inv, raced' = {}, [Next]_vars
    PROVE  Attended'
<1> USE PackagerAssumption DEF Inv, TypeOK, Shape, StartingIsPending, TrackedIsAlive, Calm, OneJob, Known, Attended, JobPc, Alive, Living, Ready, dir, calls
<1>1.  ASSUME NEW t \in Task, NEW r \in Request, EnsureSame(t, r) PROVE Attended'
  BY <1>1 DEF EnsureSame, Resume, Goto
<1>2.  ASSUME NEW t \in Task, NEW r \in Request, EnsureOther(t, r) PROVE Attended'
  BY <1>2 DEF EnsureOther, Signal, Goto, Note
<1>3.  ASSUME NEW t \in Task, Cleanup(t) PROVE Attended'
  BY <1>3 DEF Cleanup, Signal, Goto, Note
<1>4.  ASSUME NEW t \in Task, Terminated(t) PROVE Attended'
  BY <1>4 DEF Terminated, StopEnd, Forget, Goto, Note
<1>5.  ASSUME NEW t \in Task, TermTimeout(t) PROVE Attended'
  BY <1>5 DEF TermTimeout, Goto
<1>6.  ASSUME NEW t \in Task, Killed(t) PROVE Attended'
  BY <1>6 DEF Killed, StopEnd, Forget, Goto, Note
<1>7.  ASSUME NEW t \in Task, KillTimeout(t) PROVE Attended'
  BY <1>7 DEF KillTimeout, Forget, Goto, Note
<1>8.  ASSUME NEW t \in Task, RemoveDir(t) PROVE Attended'
  BY <1>8 DEF RemoveDir, Goto, Note
<1>9.  ASSUME NEW t \in Task, CleanedUp(t) PROVE Attended'
  BY <1>9 DEF CleanedUp, Return, Note
<1>10.  ASSUME NEW t \in Task, Restart(t) PROVE Attended'
  BY <1>10 DEF Restart, Resume, Goto
<1>11.  ASSUME NEW t \in Task, AlreadyThere(t) PROVE Attended'
  BY <1>11 DEF AlreadyThere, Return
<1>12.  ASSUME NEW t \in Task, StartJob(t) PROVE Attended'
  BY <1>12 DEF StartJob, Reusable, Goto, Note
<1>13.  ASSUME NEW t \in Task, Spawn(t) PROVE Attended'
  BY <1>13 DEF Spawn, Goto
<1>14.  ASSUME NEW t \in Task, SpawnFails(t) PROVE Attended'
  BY <1>14 DEF SpawnFails, FailedEntry, Return
<1>15.  ASSUME NEW t \in Task, PollReady(t) PROVE Attended'
  BY <1>15 DEF PollReady, Return
<1>16.  ASSUME NEW t \in Task, PollFailed(t) PROVE Attended'
  BY <1>16 DEF PollFailed, FailedEntry, Return
<1>17.  ASSUME NEW t \in Task, PollDeadline(t) PROVE Attended'
  <2>1. child[own[t]] \notin Alive /\ own[t] \in Child
    BY <1>17 DEF PollDeadline, Note
  <2>2. Living = {}
    <3>1. raced = {}
      BY <1>17 DEF PollDeadline, Note
    <3>2. Living \subseteq {own[t]}
      BY <3>1, <1>17 DEF PollDeadline
    <3> QED
      BY <2>1, <3>2
  <2>3. child' = child
    BY <1>17, <2>1 DEF PollDeadline
  <2> QED
    BY <2>2, <2>3
<1>18.  ASSUME NEW c \in Child, Write(c) PROVE Attended'
  BY <1>18 DEF Write
<1>19.  ASSUME NEW c \in Child, Close(c) PROVE Attended'
  BY <1>19 DEF Close, Closed
<1>20.  ASSUME Crash PROVE Attended'
  BY <1>20 DEF Crash, Return
<1>21. CASE UNCHANGED vars
  BY <1>21 DEF vars, calls, dir
<1> QED
  BY <1>1, <1>2, <1>3, <1>4, <1>5, <1>6, <1>7, <1>8, <1>9, <1>10, <1>11, <1>12, <1>13, <1>14, <1>15, <1>16, <1>17, <1>18, <1>19, <1>20, <1>21, WantedIsRequest DEF Next, Serve

\* Calls that return take nothing from the others: those who await a job of theirs return
\* too, and the one that holds others up has found its segments.
LEMMA ReturnAimed ==
    ASSUME Inv, raced = {}, NEW S \in SUBSET Task, Return(S),
           UNCHANGED <<pack, made, shown>>, present => present',
           Living' \subseteq Living, present' \in BOOLEAN,
           \A k \in Task \ S : pc[k] = "await" => job[k] \notin S,
           \A k \in S : pc[k] # "check" \/ Ready
    PROVE  Aimed'
<1> USE DEF Ready
<1>1. Aimed /\ TypeOK
  BY DEF Inv, Calm
<1>2. \A k \in Task : pc'[k] = (IF k \in S THEN "idle" ELSE pc[k])
  BY DEF Return
<1>3. \A k \in Task : /\ k \notin S => req'[k] = req[k] /\ job'[k] = job[k] /\ pc'[k] = pc[k]
                      /\ k \in S => req'[k] = None /\ pc'[k] = "idle"
  BY DEF Return
<1>4. /\ shown' # None => present' /\ shown' = pack'
      /\ \A c \in Living' : made'[c] = pack'
      /\ pack' = None => \A t \in Task : req'[t] = None
      /\ \A t \in Task : pc'[t] = "removed" => shown' = None
  BY <1>1, <1>3 DEF Aimed
<1>5. \A t \in Task : pc'[t] \in JobPc => req'[t] = pack'
  BY <1>1, <1>3 DEF Aimed, JobPc
<1>6. ASSUME NEW t \in Task, pc'[t] = "check", req'[t] # pack'
      PROVE  shown' = None /\ Living' = {} /\ \E k \in Task : pc'[k] = "check" /\ req'[k] = pack'
  <2>1. pc[t] = "check" /\ req[t] # pack
    BY <1>3, <1>6
  <2>2. shown = None /\ Living = {}
    BY <1>1, <2>1 DEF Aimed
  <2>3. PICK k \in Task : pc[k] = "check" /\ req[k] = pack
    BY <1>1, <2>1 DEF Aimed
  <2>4. k \notin S
    BY <2>2, <2>3
  <2> QED
    BY <1>3, <2>2, <2>3, <2>4
<1>7. ASSUME NEW t \in Task, pc'[t] = "await"
      PROVE  job'[t] \in Task /\ pc'[job'[t]] \in JobPc /\ req'[t] = pack'
  <2>1. t \notin S /\ pc[t] = "await" /\ job'[t] = job[t] /\ req'[t] = req[t]
    BY <1>3, <1>7
  <2>2. job[t] \in Task /\ pc[job[t]] \in JobPc /\ req[t] = pack /\ job[t] \notin S
    BY <1>1, <2>1 DEF Aimed
  <2> QED
    BY <1>3, <2>1, <2>2
<1> QED
  BY <1>4, <1>5, <1>6, <1>7 DEF Aimed

\* A job that settles returns with those who await it.
LEMMA SettledAimed ==
    ASSUME Inv, raced = {}, NEW t \in Task, pc[t] \in JobPc, Return({t} \cup Awaiting(t)),
           UNCHANGED <<pack, made, shown>>, present => present',
           Living' \subseteq Living, present' \in BOOLEAN
    PROVE  Aimed'
<1>1. Aimed /\ {t} \cup Awaiting(t) \in SUBSET Task
  BY DEF Inv, Calm, Awaiting
<1>2. \A k \in Task \ ({t} \cup Awaiting(t)) : pc[k] = "await" => job[k] \notin {t} \cup Awaiting(t)
  <2> TAKE k \in Task \ ({t} \cup Awaiting(t))
  <2> HAVE pc[k] = "await"
  <2>1. job[k] # t /\ pc[job[k]] \in JobPc
    BY <1>1 DEF Awaiting, Aimed
  <2> QED
    BY <2>1 DEF Awaiting, JobPc
<1>3. \A k \in {t} \cup Awaiting(t) : pc[k] # "check" \/ Ready
  BY DEF Awaiting, JobPc
<1> QED
  BY <1>1, <1>2, <1>3, ReturnAimed

\* In the calm, what is shown is what was asked for last.
LEMMA AimedStep ==
    ASSUME Inv, raced' = {}, [Next]_vars
    PROVE  Aimed'
<1> USE PackagerAssumption DEF Inv, TypeOK, Shape, StartingIsPending, TrackedIsAlive, Calm, OneJob, Known, Attended, Aimed, JobPc, Alive, Living, Ready, dir, calls
<1>1.  ASSUME NEW t \in Task, NEW r \in Request, EnsureSame(t, r) PROVE Aimed'
  BY <1>1 DEF EnsureSame, Resume, Goto
<1>2.  ASSUME NEW t \in Task, NEW r \in Request, EnsureOther(t, r) PROVE Aimed'
  BY <1>2 DEF EnsureOther, Signal, Goto, Note
<1>3.  ASSUME NEW t \in Task, Cleanup(t) PROVE Aimed'
  BY <1>3 DEF Cleanup, Signal, Goto, Note
<1>4.  ASSUME NEW t \in Task, Terminated(t) PROVE Aimed'
  BY <1>4 DEF Terminated, StopEnd, Forget, Goto, Note
<1>5.  ASSUME NEW t \in Task, TermTimeout(t) PROVE Aimed'
  BY <1>5 DEF TermTimeout, Goto
<1>6.  ASSUME NEW t \in Task, Killed(t) PROVE Aimed'
  BY <1>6 DEF Killed, StopEnd, Forget, Goto, Note
<1>7.  ASSUME NEW t \in Task, KillTimeout(t) PROVE Aimed'
  BY <1>7 DEF KillTimeout, Forget, Goto, Note
<1>8.  ASSUME NEW t \in Task, RemoveDir(t) PROVE Aimed'
  <2>1. raced = {} /\ pc[t] = "rm" /\ pc' = [pc EXCEPT ![t] = "removed"]
    BY <1>8 DEF RemoveDir, Goto, Note
  <2>2. shown' = None /\ Aimed /\ Known
    BY <1>8, <2>1 DEF RemoveDir, Note
  <2>3. Living = {}
    BY <2>1, <2>2
  <2> QED
    BY <1>8, <2>1, <2>2, <2>3 DEF RemoveDir
<1>9.  ASSUME NEW t \in Task, CleanedUp(t) PROVE Aimed'
  <2>1. /\ pc[t] = "removed" /\ shown = None /\ Living = {} /\ raced = {} /\ UNCHANGED <<shown, child>>
        /\ pack' = None /\ \A k \in Task \ {t} : req[k] = None
    BY <1>9 DEF CleanedUp, Note
  <2>2. /\ \A k \in Task \ {t} : pc'[k] = pc[k] /\ req'[k] = req[k] /\ job'[k] = job[k]
        /\ pc'[t] = "idle" /\ req'[t] = None
    BY <1>9 DEF CleanedUp, Return
  <2>3. \A k \in Task \ {t} : pc[k] \notin {"check", "await"} \cup JobPc
    BY <2>1
  <2> QED
    BY <2>1, <2>2, <2>3
<1>10.  ASSUME NEW t \in Task, Restart(t) PROVE Aimed'
  BY <1>10 DEF Restart, Resume, Goto
<1>11.  ASSUME NEW t \in Task, AlreadyThere(t) PROVE Aimed'
  <2>1. {t} \in SUBSET Task /\ raced = {} /\ Living' = Living /\ present' \in BOOLEAN
    BY <1>11 DEF AlreadyThere
  <2>2. pc[t] = "check" /\ shown # None
    BY <1>11 DEF AlreadyThere, Reusable
  <2>3. \A k \in Task \ {t} : pc[k] = "await" => job[k] \notin {t}
    BY <2>1, <2>2
  <2> QED
    BY <1>11, <2>1, <2>2, <2>3, ReturnAimed DEF AlreadyThere
<1>12.  ASSUME NEW t \in Task, StartJob(t) PROVE Aimed'
  <2>1. /\ pc[t] = "check" /\ raced = {} /\ UNCHANGED <<pack, shown, present, child, made, req, job>>
        /\ \A k \in Task \ {t} : pc[k] # "check"
    BY <1>12 DEF StartJob, Note
  <2>2. req[t] = pack
    BY <2>1
  <2>3. pc'[t] = "mkdir" /\ \A k \in Task \ {t} : pc'[k] = pc[k]
    BY <1>12 DEF StartJob, Goto
  <2>4. \A k \in Task : pc'[k] \in JobPc => pc[k] \in JobPc \/ k = t
    BY <2>3
  <2> QED
    BY <2>1, <2>2, <2>3, <2>4
<1>13.  ASSUME NEW t \in Task, Spawn(t) PROVE Aimed'
  BY <1>13 DEF Spawn, Goto
<1>14.  ASSUME NEW t \in Task, SpawnFails(t) PROVE Aimed'
  <2>1. raced = {} /\ Living' = Living
    BY <1>14 DEF SpawnFails
  <2>2. present' = present \/ present' = TRUE
    BY <1>14 DEF SpawnFails
  <2>3. present \in BOOLEAN
    OBVIOUS
  <2>4. present' \in BOOLEAN /\ (present => present')
    BY <2>2, <2>3, Zenon
  <2> QED
    BY <1>14, <2>1, <2>4, SettledAimed DEF SpawnFails
<1>15.  ASSUME NEW t \in Task, PollReady(t) PROVE Aimed'
  <2>1. raced = {} /\ Living' = Living /\ present' \in BOOLEAN /\ (present => present')
    BY <1>15 DEF PollReady
  <2> QED
    BY <1>15, <2>1, SettledAimed DEF PollReady
<1>16.  ASSUME NEW t \in Task, PollFailed(t) PROVE Aimed'
  <2>1. raced = {} /\ Living' = Living /\ present' \in BOOLEAN /\ (present => present')
    BY <1>16 DEF PollFailed
  <2> QED
    BY <1>16, <2>1, SettledAimed DEF PollFailed
<1>17.  ASSUME NEW t \in Task, PollDeadline(t) PROVE Aimed'
  <2>1. raced = {} /\ child[own[t]] \notin Alive /\ own[t] \in Child
    BY <1>17 DEF PollDeadline, Note
  <2>2. child' = child
    BY <1>17, <2>1 DEF PollDeadline
  <2>3. Living' = Living /\ present' \in BOOLEAN
    BY <1>17, <2>2 DEF PollDeadline
  <2> QED
    BY <1>17, <2>1, <2>3, SettledAimed DEF PollDeadline
<1>18.  ASSUME NEW c \in Child, Write(c) PROVE Aimed'
  BY <1>18 DEF Write
<1>19.  ASSUME NEW c \in Child, Close(c) PROVE Aimed'
  BY <1>19 DEF Close, Closed
<1>20.  ASSUME Crash PROVE Aimed'
  BY <1>20 DEF Crash, Return
<1>21. CASE UNCHANGED vars
  BY <1>21 DEF vars, calls, dir
<1> QED
  BY <1>1, <1>2, <1>3, <1>4, <1>5, <1>6, <1>7, <1>8, <1>9, <1>10, <1>11, <1>12, <1>13, <1>14, <1>15, <1>16, <1>17, <1>18, <1>19, <1>20, <1>21, WantedIsRequest DEF Next, Serve

-----------------------------------------------------------------------------
(* The theorems.                                                           *)

\* Inv holds of every reachable state.
LEMMA Invariance == Spec => []Inv
<1>1. Init => Inv
  <2> SUFFICES ASSUME Init PROVE Inv
    OBVIOUS
  <2>1. TypeOK /\ Shape
    BY PackagerAssumption DEF Init, TypeOK, Shape, JobPc, Alive, Living, RaceName
  <2>2. Living = {}
    BY DEF Init, Living, Alive
  <2>3. OneJob /\ Known /\ Attended /\ Aimed
    BY <2>2 DEF Init, OneJob, Known, Attended, Aimed, JobPc
  <2> QED
    BY <2>1, <2>3 DEF Init, Inv, StartingIsPending, TrackedIsAlive, Calm
<1>2. Inv /\ [Next]_vars => Inv'
  <2> SUFFICES ASSUME Inv, [Next]_vars PROVE Inv'
    OBVIOUS
  <2>1. TypeOK' /\ Shape' /\ StartingIsPending' /\ TrackedIsAlive'
    BY TypeStep, ShapeStep, PendingStep, AliveStep DEF Inv
  <2>2. Calm'
    BY OneJobStep, KnownStep, AttendedStep, AimedStep DEF Calm
  <2> QED
    BY <2>1, <2>2 DEF Inv
<1> QED
  BY <1>1, <1>2, PTL DEF Spec

\* The types of the packager, for any requests, processes and calls at once.
THEOREM PackagerTypeCorrect == Spec => []TypeOK
  BY Invariance, PTL DEF Inv

\* Whatever overlaps, the starting map holds no settled promise.
THEOREM JobsArePending == Spec => []StartingIsPending
  BY Invariance, PTL DEF Inv

\* Whatever overlaps, the processes map holds no dead process.
THEOREM TrackedProcessesLive == Spec => []TrackedIsAlive
  BY Invariance, PTL DEF Inv

\* Outside the races that raced names, one process at most works for the
\* session, and cleanup finds it.
THEOREM OneProcess == Spec => []OneTrackedChild
<1>1. Inv => OneTrackedChild
  BY DEF Inv, Calm, Known, OneTrackedChild
<1> QED
  BY <1>1, Invariance, PTL

\* A call that is answered, by the segments it found or by a job that showed them.
LEMMA AnsweredAsAsked ==
    ASSUME Inv, raced = {}, Ready, NEW t \in Task, req[t] # None, req'[t] = None,
           pc[IF pc[t] = "await" THEN job[t] ELSE t] \in {"check", "poll"}
    PROVE  shown = req[t]
<1>1. Aimed
  BY DEF Inv, Calm
<1>2. shown = pack
  BY <1>1 DEF Aimed, Ready
<1>3. CASE pc[t] = "await"
  BY <1>1, <1>2, <1>3 DEF Aimed
<1>4. CASE pc[t] = "check"
  BY <1>1, <1>2, <1>4 DEF Aimed, Ready
<1>5. CASE pc[t] = "poll"
  BY <1>1, <1>2, <1>5 DEF Aimed, JobPc
<1> QED
  BY <1>3, <1>4, <1>5

\* Outside the races, a call that is answered is answered with the start and the plan it
\* asked for.
THEOREM AnswersFit == Spec => ServedAsAsked
<1>1. Inv /\ [Next]_vars => [\A t \in Task :
          /\ raced = {} /\ req[t] # None /\ req'[t] = None
          /\ pc[IF pc[t] = "await" THEN job[t] ELSE t] \in {"check", "poll"}
          /\ Ready
          => shown = req[t]]_vars
  BY AnsweredAsAsked
<1> QED
  BY <1>1, Invariance, PTL DEF Spec, ServedAsAsked
=============================================================================
