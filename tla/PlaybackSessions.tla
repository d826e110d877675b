-------------------------- MODULE PlaybackSessions --------------------------
(***************************************************************************)
(* The server-issued playback sessions of apps/api/src/stream: the Redis   *)
(* keys and Mongo records PlaybackSessionStore keeps, and the StreamService *)
(* handlers that open, keep alive, list, stop and revoke them.             *)
(*                                                                         *)
(* Node runs one handler until its next await, so a step of a task is one  *)
(* Redis or Mongo command with the synchronous code around it, and any     *)
(* other task may run between two steps.  Time is relative: sess, indexLeft *)
(* and lock hold what is left of a key's PX lifetime, 0 for an absent key. *)
(* Every write of a session stamps lastHeartbeat = now with the same ttl,  *)
(* so the age test of the code and the expiry of the key agree.            *)
(*                                                                         *)
(* hazard is a history variable: it names the windows in which the code    *)
(* may lose track of a session, and no action reads it.                    *)
(***************************************************************************)
EXTENDS Naturals, FiniteSets

CONSTANTS User,        \* accounts
          Device,      \* device keys the clients send
          Media,       \* movies and episodes
          Sid,         \* session ids randomBytes may return (bound)
          Task,        \* requests served at once (bound)
          Op,          \* the kinds of request the instance allows
          MaxStreams,  \* entitlement.maxStreams of the plan
          SessionTtl,  \* STREAM_SESSION_TTL_MS in ticks
          LockTtl,     \* the 4000 ms of stream:lock in ticks
          None         \* no value

OpName == {"open", "heartbeat", "tracks", "stop", "list", "stopAll",
           "stopDevice", "unpublish", "remove", "publish", "sweep",
           "abort", "crash"}

Info == [user : User, dev : Device, media : Media]

ASSUME PlaybackAssumption ==
    /\ IsFiniteSet(Sid)
    /\ Op \subseteq OpName
    /\ MaxStreams \in Nat \ {0}
    /\ SessionTtl \in Nat \ {0}
    /\ LockTtl \in Nat \ {0}
    /\ None \notin OpName \cup User \cup Device \cup Media \cup Sid \cup Info

VARIABLES
    sess,       \* sess[s]: life left of stream:session:<s>
    info,       \* info[s]: the user, device and media the session was created with
    index,      \* index[u]: the ids listed in stream:user:<u>
    indexLeft,  \* indexLeft[u]: life left of that key
    lock,       \* lock[u]: life left of stream:lock:<u>
    rec,        \* rec[s]: the PlaybackRecord row, by its endedAt and endReason
    known,      \* ids a client can have learnt from a reply
    catalog,    \* media the catalogue publishes
    pc,         \* pc[t]: where the request served by t stands
    op,         \* op[t], user[t], dev[t], media[t]: what was asked, for whom
    user, dev, media,
    sid,        \* sid[t]: the session the handler works on
    ids,        \* ids[t]: the list it read from stream:user:<u>
    todo,       \* todo[t]: the ids it has yet to look at
    found,      \* found[t]: the sessions it collected so far
    hazard      \* history: the windows that opened so far

store == <<sess, info, index, indexLeft, lock, rec, known, catalog>>
request == <<op, user, dev, media>>
scratch == <<sid, ids, todo, found>>
vars == <<store, pc, request, scratch, hazard>>

HazardName == {"indexLapsed", "lockLapsed", "overwritten", "revived", "orphaned"}
RecState == {"none", "open", "stopped", "revoked", "expired"}
IndexTtl == SessionTtl * 4

PcName == {"idle", "lock", "ids", "probe", "drop", "create", "createRec", "addIds",
           "addWrite", "replace", "replaceRec", "unlock", "get", "playable",
           "get2", "touch", "touchRec", "stopGet", "stopMiss", "stopDel",
           "stopIds", "stopWrite", "stopRec", "next", "rows", "revokeGet",
           "mark", "sweepGet"}

Born(s) == info[s] # None
LiveOf(u) == {s \in Sid : sess[s] > 0 /\ Born(s) /\ info[s].user = u}

\* A session is being created: its key is set and its id is not yet listed.
CreatingPc == {"createRec", "addIds", "addWrite"}
SectionPc == {"create", "replace", "replaceRec", "unlock"} \cup CreatingPc
ListingPc == {"ids", "probe", "drop"}

\* The function runExclusive was given is running, or its lock is about to go.
InSection(t) ==
    /\ op[t] = "open"
    /\ pc[t] \in SectionPc \cup ListingPc

\* The type of every variable.
TypeOK ==
    /\ sess \in [Sid -> 0 .. SessionTtl]
    /\ info \in [Sid -> Info \cup {None}]
    /\ index \in [User -> SUBSET Sid]
    /\ indexLeft \in [User -> 0 .. IndexTtl]
    /\ lock \in [User -> 0 .. LockTtl]
    /\ rec \in [Sid -> RecState]
    /\ known \in SUBSET Sid
    /\ catalog \in SUBSET Media
    /\ pc \in [Task -> PcName]
    /\ op \in [Task -> OpName \cup {None}]
    /\ user \in [Task -> User \cup {None}]
    /\ dev \in [Task -> Device \cup {None}]
    /\ media \in [Task -> Media \cup {None}]
    /\ sid \in [Task -> Sid \cup {None}]
    /\ ids \in [Task -> SUBSET Sid]
    /\ todo \in [Task -> SUBSET Sid]
    /\ found \in [Task -> SUBSET Sid]
    /\ hazard \in SUBSET HazardName

Init ==
    /\ sess = [s \in Sid |-> 0]
    /\ info = [s \in Sid |-> None]
    /\ index = [u \in User |-> {}]
    /\ indexLeft = [u \in User |-> 0]
    /\ lock = [u \in User |-> 0]
    /\ rec = [s \in Sid |-> "none"]
    /\ known = {}
    /\ catalog = Media
    /\ pc = [t \in Task |-> "idle"]
    /\ op = [t \in Task |-> None]
    /\ user = [t \in Task |-> None]
    /\ dev = [t \in Task |-> None]
    /\ media = [t \in Task |-> None]
    /\ sid = [t \in Task |-> None]
    /\ ids = [t \in Task |-> {}]
    /\ todo = [t \in Task |-> {}]
    /\ found = [t \in Task |-> {}]
    /\ hazard = {}

-----------------------------------------------------------------------------
(* The keys and rows.                                                      *)

Note(h, condition) == hazard' = IF condition THEN hazard \cup {h} ELSE hazard

Put(f, t, value) == [f EXCEPT ![t] = value]
Goto(t, label) == pc' = Put(pc, t, label)
Move(t, label) == Goto(t, label) /\ UNCHANGED <<request, scratch>>

\* The reply is sent: what the handler held is gone.
Drop(t) ==
    /\ sid' = Put(sid, t, None)
    /\ ids' = Put(ids, t, {})
    /\ todo' = Put(todo, t, {})
    /\ found' = Put(found, t, {})

Finish(t) ==
    /\ Goto(t, "idle")
    /\ op' = Put(op, t, None)
    /\ user' = Put(user, t, None)
    /\ dev' = Put(dev, t, None)
    /\ media' = Put(media, t, None)
    /\ Drop(t)

\* Mutant: the key of a session lives as long as the list.
SetKey_ListTtl(s) == sess' = [sess EXCEPT ![s] = IndexTtl]

\* SET stream:session:<s> PX ttl.  Nothing checks that the key still exists.
SetKey(s) == sess' = [sess EXCEPT ![s] = SessionTtl]
DelKey(s) == sess' = [sess EXCEPT ![s] = 0]

\* SET stream:user:<u> PX ttl*4.  An empty list reads as an absent key.
\* Another request may have listed a session since this one read the ids.
SetIndex(t, S) ==
    LET u == user[t]
    IN /\ index' = [index EXCEPT ![u] = S]
       /\ indexLeft' = [indexLeft EXCEPT ![u] = IF S = {} THEN 0 ELSE IndexTtl]
       /\ Note("overwritten", \E s \in index[u] \ ids[t] : sess[s] > 0)

\* persist of a session object read earlier: its key may be gone by now.
Persist(s) == SetKey(s) /\ Note("revived", sess[s] = 0)

-----------------------------------------------------------------------------
(* A request arrives.                                                      *)

Begin(t, label, o, u, d, m) ==
    /\ o \in Op
    /\ pc[t] = "idle"
    /\ Goto(t, label)
    /\ op' = Put(op, t, o)
    /\ user' = Put(user, t, u)
    /\ dev' = Put(dev, t, d)
    /\ media' = Put(media, t, m)
    /\ UNCHANGED <<sess, info, index, indexLeft, lock, rec, known, hazard,
                   ids, todo, found>>

\* POST .../playback, once the title was found published and entitled.
BeginOpen(t, u, d, m) ==
    /\ m \in catalog
    /\ Begin(t, "lock", "open", u, d, m)
    /\ UNCHANGED <<catalog, sid>>

\* POST stream/:id/heartbeat and PATCH stream/:id/tracks.
BeginTouch(t, o, u, s) ==
    /\ s \in known
    /\ Begin(t, "get", o, u, None, None)
    /\ sid' = Put(sid, t, s)
    /\ UNCHANGED catalog

\* DELETE stream/:id.
BeginStop(t, u, s) ==
    /\ s \in known
    /\ Begin(t, "stopGet", "stop", u, None, None)
    /\ sid' = Put(sid, t, s)
    /\ UNCHANGED catalog

\* GET stream/active, and the logouts that stop what it lists.
BeginList(t, o, u, d) ==
    /\ Begin(t, "ids", o, u, d, None)
    /\ UNCHANGED <<catalog, sid>>

\* Unpublishing writes the title and then revokes; deleting revokes first.
BeginUnpublish(t, m) ==
    /\ m \in catalog
    /\ Begin(t, "rows", "unpublish", None, None, m)
    /\ catalog' = catalog \ {m}
    /\ UNCHANGED sid

BeginRemove(t, m) ==
    /\ m \in catalog
    /\ Begin(t, "rows", "remove", None, None, m)
    /\ UNCHANGED <<catalog, sid>>

BeginSweep(t) ==
    /\ Begin(t, "rows", "sweep", None, None, None)
    /\ UNCHANGED <<catalog, sid>>

Publish(m) ==
    /\ "publish" \in Op
    /\ m \notin catalog
    /\ catalog' = catalog \cup {m}
    /\ UNCHANGED <<sess, info, index, indexLeft, lock, rec, known, pc, request,
                   scratch, hazard>>

-----------------------------------------------------------------------------
(* runExclusive: SET NX with a lifetime, tried for about a second.         *)

\* Mutant: SET without NX.
Lock_NotExclusive(t) ==
    /\ pc[t] = "lock"
    /\ lock' = [lock EXCEPT ![user[t]] = LockTtl]
    /\ Move(t, "ids")
    /\ UNCHANGED <<sess, info, index, indexLeft, rec, known, catalog, hazard>>

Lock(t) ==
    /\ pc[t] = "lock"
    /\ lock[user[t]] = 0
    /\ lock' = [lock EXCEPT ![user[t]] = LockTtl]
    /\ Move(t, "ids")
    /\ UNCHANGED <<sess, info, index, indexLeft, rec, known, catalog, hazard>>

\* Mutant: the attempts never run out.
GiveUp_Never(t) == pc[t] = "lock" /\ FALSE /\ UNCHANGED vars

\* The attempts ran out: 429.
GiveUp(t) ==
    /\ pc[t] = "lock"
    /\ lock[user[t]] > 0
    /\ Finish(t)
    /\ UNCHANGED <<store, hazard>>

\* finally: the key is deleted whoever set it.
Unlock(t) ==
    /\ pc[t] = "unlock"
    /\ lock' = [lock EXCEPT ![user[t]] = 0]
    /\ Finish(t)
    /\ UNCHANGED <<sess, info, index, indexLeft, rec, known, catalog, hazard>>

\* A command, a probe of the file, or the device limit threw in the section.
Abort(t) ==
    /\ "abort" \in Op
    /\ InSection(t) /\ pc[t] # "unlock"
    /\ Note("orphaned", pc[t] \in CreatingPc)
    /\ Goto(t, "unlock")
    /\ Drop(t)
    /\ UNCHANGED <<store, request>>

-----------------------------------------------------------------------------
(* listActive: read the ids, look at each session, write back the live.    *)

ReadIds(t) ==
    /\ pc[t] = "ids"
    /\ ids' = Put(ids, t, index[user[t]])
    /\ todo' = Put(todo, t, index[user[t]])
    /\ Goto(t, "probe")
    /\ UNCHANGED <<store, hazard, request, sid, found>>

ProbeLive(t) ==
    /\ pc[t] = "probe"
    /\ \E s \in todo[t] :
          /\ sess[s] > 0
          /\ todo' = Put(todo, t, todo[t] \ {s})
          /\ found' = Put(found, t, found[t] \cup {s})
    /\ UNCHANGED <<store, hazard, request, pc, sid, ids>>

ProbeDead(t) ==
    /\ pc[t] = "probe"
    /\ \E s \in todo[t] :
          /\ sess[s] = 0
          /\ todo' = Put(todo, t, todo[t] \ {s})
          /\ sid' = Put(sid, t, s)
    /\ Goto(t, "drop")
    /\ UNCHANGED <<store, hazard, request, ids, found>>

DropDead(t) ==
    /\ pc[t] = "drop"
    /\ DelKey(sid[t])
    /\ Goto(t, "probe")
    /\ sid' = Put(sid, t, None)
    /\ UNCHANGED <<info, index, indexLeft, lock, rec, known, catalog, hazard,
                   request, ids, todo, found>>

WriteLive(t) ==
    /\ pc[t] = "probe"
    /\ todo[t] = {}
    /\ SetIndex(t, found[t])
    /\ UNCHANGED <<sess, info, lock, rec, known, catalog>>

\* assertStreamSlot: the session of that device and title, else a free slot.
Matching(t) ==
    {s \in found[t] : info[s].dev = dev[t] /\ info[s].media = media[t]}
\* Mutants: one stream too many; only the streams of that title count.
SlotTaken_OffByOne(t) == Cardinality(found[t]) > MaxStreams
SlotTaken_SameTitle(t) ==
    Cardinality({s \in found[t] : info[s].media = media[t]}) >= MaxStreams
SlotTaken(t) == Cardinality(found[t]) >= MaxStreams

AssertSlot(t) ==
    /\ op[t] = "open"
    /\ WriteLive(t)
    /\ \/ \E s \in Matching(t) : Goto(t, "replace") /\ sid' = Put(sid, t, s)
       \/ /\ Matching(t) = {}
          /\ Goto(t, IF SlotTaken(t) THEN "unlock" ELSE "create")
          /\ UNCHANGED sid
    /\ ids' = Put(ids, t, {})
    /\ found' = Put(found, t, {})
    /\ UNCHANGED <<request, todo>>

ReplyList(t) ==
    /\ op[t] = "list"
    /\ WriteLive(t)
    /\ Finish(t)

\* stopAllForUser stops the sessions listed, stopForDevice those of a device.
StopListed(t) ==
    /\ op[t] \in {"stopAll", "stopDevice"}
    /\ WriteLive(t)
    /\ found' = Put(found, t, {s \in found[t] : op[t] = "stopAll" \/ info[s].dev = dev[t]})
    /\ Goto(t, "next")
    /\ ids' = Put(ids, t, {})
    /\ UNCHANGED <<request, sid, todo>>

-----------------------------------------------------------------------------
(* open, under the lock: a new session, or the one of that device and title. *)

Create(t) ==
    /\ pc[t] = "create"
    /\ \E s \in Sid :
          /\ ~Born(s)
          /\ info' = [info EXCEPT ![s] = [user |-> user[t], dev |-> dev[t], media |-> media[t]]]
          /\ SetKey(s)
          /\ sid' = Put(sid, t, s)
    /\ Goto(t, "createRec")
    /\ UNCHANGED <<index, indexLeft, lock, rec, known, catalog, hazard,
                   request, ids, todo, found>>

\* Bound: an instance has no ids left to draw from Sid; the opening ends here.
OutOfIds(t) ==
    /\ pc[t] = "create"
    /\ \A s \in Sid : Born(s)
    /\ Move(t, "unlock")
    /\ UNCHANGED <<store, hazard>>

\* upsertRecord opens the row again whatever closed it.
OpenRecord(s) == rec' = [rec EXCEPT ![s] = "open"]

CreateRecord(t) ==
    /\ pc[t] = "createRec"
    /\ OpenRecord(sid[t])
    /\ Move(t, "addIds")
    /\ UNCHANGED <<sess, info, index, indexLeft, lock, known, catalog, hazard>>

AddReadIds(t) ==
    /\ pc[t] = "addIds"
    /\ ids' = Put(ids, t, index[user[t]])
    /\ Goto(t, "addWrite")
    /\ UNCHANGED <<store, hazard, request, sid, todo, found>>

\* From here a client can learn the id, from the reply or from GET stream/active.
AddWrite(t) ==
    /\ pc[t] = "addWrite"
    /\ SetIndex(t, ids[t] \cup {sid[t]})
    /\ known' = known \cup {sid[t]}
    /\ Move(t, "unlock")
    /\ UNCHANGED <<sess, info, lock, rec, catalog>>

Replace(t) ==
    /\ pc[t] = "replace"
    /\ Persist(sid[t])
    /\ Move(t, "replaceRec")
    /\ UNCHANGED <<info, index, indexLeft, lock, rec, known, catalog>>

ReplaceRecord(t) ==
    /\ pc[t] = "replaceRec"
    /\ OpenRecord(sid[t])
    /\ Move(t, "unlock")
    /\ UNCHANGED <<sess, info, index, indexLeft, lock, known, catalog, hazard>>

-----------------------------------------------------------------------------
(* heartbeat and selectTracks: the session read is written back later.     *)

Usable(s, u) == sess[s] > 0 /\ info[s].user = u

\* requireOwned refuses a dead session and another account's.
Refuse(t) ==
    /\ pc[t] \in {"get", "get2"}
    /\ ~Usable(sid[t], user[t])
    /\ Finish(t)
    /\ UNCHANGED <<store, hazard>>

Get(t) ==
    /\ pc[t] = "get"
    /\ Usable(sid[t], user[t])
    /\ Move(t, "playable")
    /\ UNCHANGED <<store, hazard>>

\* Mutant: the title is not looked up again.
Playable_Unchecked(t) ==
    /\ pc[t] = "playable"
    /\ Move(t, IF op[t] = "heartbeat" THEN "get2" ELSE "touch")
    /\ UNCHANGED <<store, hazard>>

\* ensurePlayable stops the session of a title that was withdrawn.
Playable(t) ==
    /\ pc[t] = "playable"
    /\ Move(t, IF info[sid[t]].media \notin catalog THEN "stopGet"
               ELSE IF op[t] = "heartbeat" THEN "get2" ELSE "touch")
    /\ UNCHANGED <<store, hazard>>

\* The store's heartbeat reads the session again.
GetAgain(t) ==
    /\ pc[t] = "get2"
    /\ Usable(sid[t], user[t])
    /\ Move(t, "touch")
    /\ UNCHANGED <<store, hazard>>

Touch(t) ==
    /\ pc[t] = "touch"
    /\ Persist(sid[t])
    /\ Move(t, "touchRec")
    /\ UNCHANGED <<info, index, indexLeft, lock, rec, known, catalog>>

TouchRecord(t) ==
    /\ pc[t] = "touchRec"
    /\ OpenRecord(sid[t])
    /\ Finish(t)
    /\ UNCHANGED <<sess, info, index, indexLeft, lock, known, catalog, hazard>>

-----------------------------------------------------------------------------
(* stop, alone or for each session of a loop.                              *)

\* Mutant: the account is not compared.
StopGet_AnyOwner(t) ==
    /\ pc[t] = "stopGet"
    /\ Move(t, IF sess[sid[t]] = 0 THEN "stopMiss" ELSE "stopDel")
    /\ UNCHANGED <<store, hazard>>

StopGet(t) ==
    /\ pc[t] = "stopGet"
    /\ \/ sess[sid[t]] = 0 /\ Move(t, "stopMiss")
       \/ Usable(sid[t], user[t]) /\ Move(t, "stopDel")
       \/ sess[sid[t]] > 0 /\ info[sid[t]].user # user[t] /\ Finish(t)
    /\ UNCHANGED <<store, hazard>>

\* Nothing was read: the key is deleted all the same, the list is left alone.
StopMiss(t) ==
    /\ pc[t] = "stopMiss"
    /\ DelKey(sid[t])
    /\ Move(t, "next")
    /\ UNCHANGED <<info, index, indexLeft, lock, rec, known, catalog, hazard>>

StopDelete(t) ==
    /\ pc[t] = "stopDel"
    /\ DelKey(sid[t])
    /\ Move(t, "stopIds")
    /\ UNCHANGED <<info, index, indexLeft, lock, rec, known, catalog, hazard>>

StopReadIds(t) ==
    /\ pc[t] = "stopIds"
    /\ ids' = Put(ids, t, index[user[t]])
    /\ Goto(t, "stopWrite")
    /\ UNCHANGED <<store, hazard, request, sid, todo, found>>

\* Mutant: the whole list goes with the session.
StopWrite_Clears(t) ==
    /\ pc[t] = "stopWrite"
    /\ SetIndex(t, {})
    /\ ids' = Put(ids, t, {})
    /\ Goto(t, "stopRec")
    /\ UNCHANGED <<sess, info, lock, rec, known, catalog, request, sid, todo, found>>

StopWrite(t) ==
    /\ pc[t] = "stopWrite"
    /\ SetIndex(t, ids[t] \ {sid[t]})
    /\ ids' = Put(ids, t, {})
    /\ Goto(t, "stopRec")
    /\ UNCHANGED <<sess, info, lock, rec, known, catalog, request, sid, todo, found>>

\* updateOne without upsert: a row that was never written stays unwritten.
CloseRecord(s, why) ==
    rec' = [rec EXCEPT ![s] = IF rec[s] = "none" THEN "none" ELSE why]

StopRecord(t) ==
    /\ pc[t] = "stopRec"
    /\ CloseRecord(sid[t], "stopped")
    /\ Move(t, "next")
    /\ UNCHANGED <<sess, info, index, indexLeft, lock, known, catalog, hazard>>

Revoking(t) == op[t] \in {"unpublish", "remove"}

\* The next session of the loop.
NextVictim(t) ==
    /\ pc[t] = "next"
    /\ \E s \in found[t] :
          /\ sid' = Put(sid, t, s)
          /\ found' = Put(found, t, found[t] \ {s})
    /\ Goto(t, IF Revoking(t) THEN "revokeGet" ELSE "stopGet")
    /\ UNCHANGED <<store, hazard, request, ids, todo>>

\* remove() deletes the title after its loop.
EndLoop(t) ==
    /\ pc[t] = "next"
    /\ found[t] = {}
    /\ catalog' = IF op[t] = "remove" THEN catalog \ {media[t]} ELSE catalog
    /\ Finish(t)
    /\ UNCHANGED <<sess, info, index, indexLeft, lock, rec, known, hazard>>

-----------------------------------------------------------------------------
(* stopForMediaIds walks the open rows; listAllLive closes the stale ones. *)

OpenRows == {s \in Sid : rec[s] = "open"}

ReadRows(t) ==
    /\ pc[t] = "rows"
    /\ Revoking(t)
    /\ found' = Put(found, t, {s \in OpenRows : info[s].media = media[t]})
    /\ Goto(t, "next")
    /\ UNCHANGED <<store, hazard, request, sid, ids, todo>>

\* Mutant: the row is closed and the session left alone.
RevokeGet_MarksOnly(t) ==
    /\ pc[t] = "revokeGet"
    /\ Goto(t, "mark")
    /\ UNCHANGED <<store, hazard, request, scratch>>

\* A session that is still there is stopped for its own account.
RevokeGet(t) ==
    /\ pc[t] = "revokeGet"
    /\ IF sess[sid[t]] > 0
       THEN /\ Goto(t, "stopGet")
            /\ user' = Put(user, t, info[sid[t]].user)
       ELSE Goto(t, "mark") /\ UNCHANGED user
    /\ UNCHANGED <<store, hazard, op, dev, media, scratch>>

MarkRevoked(t) ==
    /\ pc[t] = "mark"
    /\ CloseRecord(sid[t], "revoked")
    /\ Move(t, "next")
    /\ UNCHANGED <<sess, info, index, indexLeft, lock, known, catalog, hazard>>

\* The query leaves out rows no heartbeat reached for two lifetimes.
ReadLiveRows(t) ==
    /\ pc[t] = "rows"
    /\ op[t] = "sweep"
    /\ \E R \in SUBSET OpenRows :
          /\ \A s \in OpenRows : sess[s] > 0 => s \in R
          /\ todo' = Put(todo, t, R)
    /\ Goto(t, "sweepGet")
    /\ UNCHANGED <<store, hazard, request, sid, ids, found>>

SweepGet(t) ==
    /\ pc[t] = "sweepGet"
    /\ \E s \in todo[t] :
          /\ todo' = Put(todo, t, todo[t] \ {s})
          /\ found' = Put(found, t, IF sess[s] > 0 THEN found[t] ELSE found[t] \cup {s})
    /\ UNCHANGED <<store, hazard, request, pc, sid, ids>>

SweepMark(t) ==
    /\ pc[t] = "sweepGet"
    /\ todo[t] = {}
    /\ \E s \in found[t] :
          /\ CloseRecord(s, "expired")
          /\ found' = Put(found, t, found[t] \ {s})
    /\ UNCHANGED <<sess, info, index, indexLeft, lock, known, catalog, hazard,
                   request, pc, sid, ids, todo>>

SweepEnd(t) ==
    /\ pc[t] = "sweepGet"
    /\ todo[t] = {} /\ found[t] = {}
    /\ Finish(t)
    /\ UNCHANGED <<store, hazard>>

-----------------------------------------------------------------------------
(* Time, and the process.                                                  *)

Less(n) == IF n = 0 THEN 0 ELSE n - 1

\* Mutant: the lock was set without a lifetime.
LockAged_NoPx == lock
LockAged == [u \in User |-> Less(lock[u])]

\* A tick of the clock: Redis expires the keys whose life ran out.
Tick ==
    /\ sess' = [s \in Sid |-> Less(sess[s])]
    /\ lock' = LockAged
    /\ indexLeft' = [u \in User |-> Less(indexLeft[u])]
    /\ index' = [u \in User |-> IF indexLeft[u] <= 1 THEN {} ELSE index[u]]
    /\ hazard' = hazard
         \cup {h \in {"indexLapsed"} : \E u \in User : \E s \in index[u] :
                                          indexLeft[u] = 1 /\ sess[s] > 1}
         \cup {h \in {"lockLapsed"} : \E t \in Task :
                                          InSection(t) /\ lock[user[t]] = 1}
    /\ UNCHANGED <<info, rec, known, catalog, pc, request, scratch>>

\* The API process dies and is restarted: the requests are gone, Redis stays.
Crash ==
    /\ "crash" \in Op
    /\ Note("orphaned", \E t \in Task : pc[t] \in CreatingPc)
    /\ pc' = [t \in Task |-> "idle"]
    /\ op' = [t \in Task |-> None]
    /\ user' = [t \in Task |-> None]
    /\ dev' = [t \in Task |-> None]
    /\ media' = [t \in Task |-> None]
    /\ sid' = [t \in Task |-> None]
    /\ ids' = [t \in Task |-> {}]
    /\ todo' = [t \in Task |-> {}]
    /\ found' = [t \in Task |-> {}]
    /\ UNCHANGED store

Open(t) ==
    \/ Lock(t) \/ GiveUp(t) \/ Unlock(t) \/ Abort(t) \/ AssertSlot(t)
    \/ Create(t) \/ OutOfIds(t) \/ CreateRecord(t) \/ AddReadIds(t) \/ AddWrite(t)
    \/ Replace(t) \/ ReplaceRecord(t)

List(t) ==
    \/ ReadIds(t) \/ ProbeLive(t) \/ ProbeDead(t) \/ DropDead(t)
    \/ ReplyList(t) \/ StopListed(t)

Keep(t) == Refuse(t) \/ Get(t) \/ Playable(t) \/ GetAgain(t) \/ Touch(t) \/ TouchRecord(t)

Stop(t) ==
    \/ StopGet(t) \/ StopMiss(t) \/ StopDelete(t) \/ StopReadIds(t) \/ StopWrite(t)
    \/ StopRecord(t) \/ NextVictim(t) \/ EndLoop(t)

Rows(t) ==
    \/ ReadRows(t) \/ RevokeGet(t) \/ MarkRevoked(t)
    \/ ReadLiveRows(t) \/ SweepGet(t) \/ SweepMark(t) \/ SweepEnd(t)

Serve(t) == Open(t) \/ List(t) \/ Keep(t) \/ Stop(t) \/ Rows(t)

Arrive(t) ==
    \/ \E u \in User, d \in Device, m \in Media : BeginOpen(t, u, d, m)
    \/ \E o \in {"heartbeat", "tracks"}, u \in User, s \in Sid : BeginTouch(t, o, u, s)
    \/ \E u \in User, s \in Sid : BeginStop(t, u, s)
    \/ \E o \in {"list", "stopAll"}, u \in User : BeginList(t, o, u, None)
    \/ \E u \in User, d \in Device : BeginList(t, "stopDevice", u, d)
    \/ \E m \in Media : BeginUnpublish(t, m) \/ BeginRemove(t, m)
    \/ BeginSweep(t)

Next ==
    \/ \E t \in Task : Arrive(t) \/ Serve(t)
    \/ \E m \in Media : Publish(m)
    \/ Tick
    \/ Crash

Spec == Init /\ [][Next]_vars

\* Redis and Mongo answer every command, and time passes.
Fairness ==
    /\ \A t \in Task : WF_vars(Serve(t))
    /\ WF_vars(Tick)

FairSpec == Spec /\ Fairness

-----------------------------------------------------------------------------
(* Properties.                                                             *)

\* runExclusive serialises the openings of an account as long as no section
\* outlived its lock: the delete in its finally block then only ever removes
\* the lock of the task that runs it.
OneOpenerPerUser ==
    "lockLapsed" \notin hazard =>
        \A t1, t2 \in Task :
            InSection(t1) /\ InSection(t2) /\ t1 # t2 => user[t1] # user[t2]

\* The plan's limit on simultaneous streams (assertStreamSlot) can only be
\* exceeded through one of the five windows hazard names: as long as none of
\* them opened, an account never has more live sessions than its plan allows.
StreamLimitUnlessHazard ==
    hazard = {} => \A u \in User : Cardinality(LiveOf(u)) <= MaxStreams

\* The limit itself, as the pricing page states it for a plan
\* ("simultaneous stream"): no condition on how the requests interleave.
StreamLimit == \A u \in User : Cardinality(LiveOf(u)) <= MaxStreams

\* The list assertStreamSlot counts has every live session of the account but
\* the one being created: what stop, listActive and create do to the key never
\* hides a session outside the windows.
CountedOrCreating ==
    hazard = {} =>
        \A s \in Sid : sess[s] > 0 =>
            \/ s \in index[info[s].user]
            \/ \E t \in Task : sid[t] = s /\ pc[t] \in CreatingPc

\* revokeMedia finds sessions through their open rows: a live session has one,
\* unless it is being created, or a stopped one came back to life.
LiveIsRecorded ==
    hazard \cap {"revived", "orphaned"} = {} =>
        \A s \in Sid : sess[s] > 0 =>
            \/ rec[s] = "open"
            \/ \E t \in Task : sid[t] = s /\ pc[t] = "createRec"

\* A session that was stopped stays stopped: no key of an id whose row says
\* "stopped" comes back.
StoppedStaysStopped ==
    [][\A s \in Sid : rec[s] = "stopped" /\ sess[s] = 0 => sess'[s] = 0]_vars

\* A request only ever changes the keys of sessions of its own account:
\* requireOwned and stop refuse another's, and the revocations act for the owner.
\* (stop deletes the key of a session it did not find, whoever owns it, so a
\* session must not come back to life between the two.)
OnlyTheOwnerActs ==
    [][\A s \in Sid : hazard = {} /\ pc' # pc /\ sess'[s] # sess[s] =>
          \E t \in Task : pc'[t] # pc[t] /\ user[t] = (info'[s]).user]_vars

\* The lock of an account is freed, by its holder or by its lifetime, even
\* when the process died in the section.
LockIsFreed == \A u \in User : lock[u] > 0 ~> lock[u] = 0

\* Every request is answered: the attempts of runExclusive are bounded and the
\* loops of stop and revoke walk a list read once.
RequestsReturn == \A t \in Task : pc[t] # "idle" ~> pc[t] = "idle"

\* A title that stays withdrawn is, in the end, watched by nobody: what
\* revokeMedia missed is stopped by ensurePlayable at its next heartbeat or
\* expires without one.
WithdrawnMediaDrains ==
    \A m \in Media :
        <>[](m \notin catalog) =>
            <>[](\A s \in Sid : Born(s) /\ info[s].media = m => sess[s] = 0)

\* What all this promises: a bounded set of slots per account.
LiveSids == {s \in Sid : sess[s] > 0}
OwnerOf == [s \in Sid |-> IF Born(s) THEN info[s].user ELSE None]
Trusted == hazard = {}

Slots == INSTANCE StreamSlots WITH live <- LiveSids, owner <- OwnerOf, trusted <- Trusted

\* Until a window opens, the interleaved handlers implement the atomic slots.
ImplementsSlots == Slots!Spec
=============================================================================
