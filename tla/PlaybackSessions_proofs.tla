---------------------- MODULE PlaybackSessions_proofs ----------------------
(* Theorems about PlaybackSessions, for every value of its constants.      *)
EXTENDS PlaybackSessions, FiniteSetTheorems, TLAPS

OpenPc == {"lock", "create", "createRec", "addIds", "addWrite", "replace",
           "replaceRec", "unlock"}
OwnSidPc == {"createRec", "addIds", "addWrite", "replace", "replaceRec",
             "playable", "get2", "touch", "touchRec", "stopDel", "stopIds",
             "stopWrite", "stopRec"}
AnySidPc == {"drop", "get", "stopGet", "stopMiss", "revokeGet", "mark"}
ForUser == {"open", "heartbeat", "tracks", "stop", "list", "stopAll", "stopDevice"}
StopPc == {"stopGet", "stopMiss", "stopDel", "stopIds", "stopWrite", "stopRec"}

ReadPc == {"probe", "drop", "addWrite", "stopWrite"}

OwnedBy(s, u) == Born(s) /\ info[s].user = u

\* What a task holds where it stands.
Shape(t) ==
    /\ pc[t] \in OpenPc => op[t] = "open"
    /\ pc[t] \in ListingPc => op[t] \in {"open", "list", "stopAll", "stopDevice"}
    /\ op[t] = "open" => dev[t] \in Device /\ media[t] \in Media /\ pc[t] \in OpenPc \cup ListingPc
    /\ op[t] \in ForUser => user[t] \in User
    /\ pc[t] \in StopPc => user[t] \in User
    /\ pc[t] \in OwnSidPc => sid[t] \in Sid /\ OwnedBy(sid[t], user[t]) /\ user[t] \in User
    /\ pc[t] \in AnySidPc => sid[t] \in Sid
    /\ pc[t] \in {"idle", "lock", "ids", "rows"} => todo[t] = {} /\ found[t] = {}
    /\ pc[t] \in {"get", "get2"} => op[t] \in {"heartbeat", "tracks"}
    /\ pc[t] = "sweepGet" => op[t] = "sweep"
    /\ pc[t] = "rows" => op[t] \in {"unpublish", "remove", "sweep"}
    /\ pc[t] \notin {"idle", "rows", "sweepGet"} => op[t] \in ForUser \cup {"unpublish", "remove"}

\* The lists only name sessions that exist, of the account they belong to.
Lists ==
    /\ \A s \in Sid : sess[s] > 0 => Born(s)
    /\ \A u \in User : \A s \in index[u] : OwnedBy(s, u)
    /\ \A t \in Task : pc[t] \in ReadPc =>
          \A s \in ids[t] : OwnedBy(s, user[t])
    /\ \A t \in Task : pc[t] \in {"probe", "drop"} =>
          \A s \in todo[t] \cup found[t] : OwnedBy(s, user[t])

TypeInv == TypeOK /\ (\A t \in Task : Shape(t)) /\ Lists

LEMMA Ranges ==
    /\ LockTtl \in 0 .. LockTtl /\ 0 \in 0 .. LockTtl
    /\ SessionTtl \in 0 .. SessionTtl /\ 0 \in 0 .. SessionTtl
    /\ IndexTtl \in 0 .. IndexTtl /\ 0 \in 0 .. IndexTtl
    /\ LockTtl > 0 /\ SessionTtl > 0 /\ IndexTtl > 0
  BY PlaybackAssumption DEF IndexTtl

LEMMA NoneNames == None \notin OpName /\ None \notin User
  BY PlaybackAssumption

LEMMA OwnerType ==
  ASSUME TypeOK, NEW s \in Sid, Born(s)
  PROVE  info[s] \in Info /\ info[s].user \in User
  BY DEF TypeOK, Born, Info

LEMMA LessType ==
  ASSUME NEW n \in Nat, NEW k \in 0 .. n
  PROVE  Less(k) \in 0 .. n
  BY DEF Less

LEMMA InitTypeInv == Init => TypeInv
  <1> SUFFICES ASSUME Init PROVE TypeInv
    OBVIOUS
  <1> USE PlaybackAssumption
  <1>1. TypeOK
    BY DEF Init, TypeOK, HazardName, RecState, IndexTtl, PcName, OpName
  <1>2. \A t \in Task : Shape(t)
    BY NoneNames DEF Init, Shape, OpenPc, ListingPc, ForUser, StopPc, OwnSidPc,
       AnySidPc, OpName
  <1>3. Lists
    BY DEF Init, Lists, ReadPc
  <1> QED
    BY <1>1, <1>2, <1>3 DEF TypeInv

\* A request arrives at a free task and touches nothing but that task.
LEMMA ArriveFrame ==
  ASSUME TypeOK, NEW t \in Task, Arrive(t)
  PROVE  /\ UNCHANGED <<sess, info, index, indexLeft, lock, rec, known, hazard, ids, todo, found>>
         /\ pc[t] = "idle"
         /\ pc'[t] \in {"lock", "get", "stopGet", "ids", "rows"}
         /\ op'[t] = "open" => pc'[t] = "lock"
         /\ \A k \in Task : k # t => /\ pc'[k] = pc[k] /\ op'[k] = op[k]
                                     /\ user'[k] = user[k] /\ dev'[k] = dev[k]
                                     /\ media'[k] = media[k] /\ sid'[k] = sid[k]
  <1> DEFINE Frame(label, o) ==
         /\ UNCHANGED <<sess, info, index, indexLeft, lock, rec, known, hazard, ids, todo, found>>
         /\ pc[t] = "idle"
         /\ pc'[t] = label /\ op'[t] = o
         /\ \A k \in Task : k # t => /\ pc'[k] = pc[k] /\ op'[k] = op[k]
                                     /\ user'[k] = user[k] /\ dev'[k] = dev[k]
                                     /\ media'[k] = media[k]
  <1>1. ASSUME NEW label, NEW o, NEW u, NEW d, NEW m, Begin(t, label, o, u, d, m)
        PROVE  Frame(label, o)
    BY <1>1 DEF Begin, Goto, Put, TypeOK
  <1> HIDE DEF Frame
  <1>2. \A k \in Task : k # t => sid'[k] = sid[k]
    BY DEF Arrive, BeginOpen, BeginTouch, BeginStop, BeginList, BeginUnpublish,
       BeginRemove, BeginSweep, Put, TypeOK
  <1>3. \E label \in {"lock", "get", "stopGet", "ids", "rows"}, o \in OpName :
           Frame(label, o) /\ (o = "open" => label = "lock")
    <2>1. ASSUME NEW u \in User, NEW d \in Device, NEW m \in Media, BeginOpen(t, u, d, m)
          PROVE  Frame("lock", "open")
      BY <1>1, <2>1 DEF BeginOpen
    <2>2. ASSUME NEW o \in {"heartbeat", "tracks"}, NEW u \in User, NEW s \in Sid,
                 BeginTouch(t, o, u, s)
          PROVE  Frame("get", o)
      BY <1>1, <2>2 DEF BeginTouch
    <2>3. ASSUME NEW u \in User, NEW s \in Sid, BeginStop(t, u, s)
          PROVE  Frame("stopGet", "stop")
      BY <1>1, <2>3 DEF BeginStop
    <2>4. ASSUME NEW o, NEW u \in User, NEW d, BeginList(t, o, u, d)
          PROVE  Frame("ids", o)
      BY <1>1, <2>4 DEF BeginList
    <2>5. ASSUME NEW m \in Media, BeginUnpublish(t, m)
          PROVE  Frame("rows", "unpublish")
      BY <1>1, <2>5 DEF BeginUnpublish
    <2>6. ASSUME NEW m \in Media, BeginRemove(t, m)
          PROVE  Frame("rows", "remove")
      BY <1>1, <2>6 DEF BeginRemove
    <2>7. ASSUME BeginSweep(t)
          PROVE  Frame("rows", "sweep")
      BY <1>1, <2>7 DEF BeginSweep
    <2> QED
      BY <2>1, <2>2, <2>3, <2>4, <2>5, <2>6, <2>7 DEF Arrive, OpName
  <1> QED
    BY <1>2, <1>3 DEF Frame

LEMMA TypeStep ==
  ASSUME TypeInv, [Next]_vars
  PROVE  TypeOK'
  <1> USE Ranges, NoneNames DEF TypeInv, Shape, Lists, AnySidPc, OwnSidPc,
     OpenPc, ListingPc, TypeOK, PcName, HazardName, RecState, OpName
  <1>1. ASSUME NEW t \in Task, Lock(t)  PROVE TypeOK'
    BY <1>1 DEF Lock, Move, Goto, Put, request, scratch
  <1>2. ASSUME NEW t \in Task, GiveUp(t)  PROVE TypeOK'
    BY <1>2 DEF GiveUp, Finish, Put, Goto, Drop, store
  <1>3. ASSUME NEW t \in Task, Unlock(t)  PROVE TypeOK'
    BY <1>3 DEF Unlock, Finish, Put, Goto, Drop
  <1>4. ASSUME NEW t \in Task, Abort(t)  PROVE TypeOK'
    BY <1>4 DEF Abort, Note, Goto, Put, Drop, store, request
  <1>5. ASSUME NEW t \in Task, ReadIds(t)  PROVE TypeOK'
    BY <1>5 DEF ReadIds, Put, Goto, store, request
  <1>6. ASSUME NEW t \in Task, ProbeLive(t)  PROVE TypeOK'
    BY <1>6 DEF ProbeLive, Put, store, request
  <1>7. ASSUME NEW t \in Task, ProbeDead(t)  PROVE TypeOK'
    BY <1>7 DEF ProbeDead, Put, Goto, store, request
  <1>8. ASSUME NEW t \in Task, DropDead(t)  PROVE TypeOK'
    BY <1>8 DEF DropDead, Put, Goto, DelKey, request
  <1>9. ASSUME NEW t \in Task, AssertSlot(t)  PROVE TypeOK'
    <2>1. index' \in [User -> SUBSET Sid]
      BY <1>9 DEF AssertSlot, WriteLive, SetIndex
    <2>2. indexLeft' \in [User -> 0 .. IndexTtl] /\ hazard' \in SUBSET HazardName
      BY <1>9 DEF AssertSlot, WriteLive, SetIndex, Note
    <2>3. Matching(t) \subseteq Sid
      BY DEF Matching
    <2>4. sid' \in [Task -> Sid \cup {None}]
      BY <1>9, <2>3 DEF AssertSlot, Put
    <2>5. pc' \in [Task -> PcName]
      BY <1>9 DEF AssertSlot, Goto, Put
    <2> QED
      BY <1>9, <2>1, <2>2, <2>4, <2>5 DEF AssertSlot, WriteLive, Put, request
  <1>10. ASSUME NEW t \in Task, ReplyList(t)  PROVE TypeOK'
    BY <1>10 DEF ReplyList, Finish, Put, Goto, Drop, WriteLive, SetIndex, Note
  <1>11. ASSUME NEW t \in Task, StopListed(t)  PROVE TypeOK'
    BY <1>11 DEF StopListed, Put, Goto, WriteLive, SetIndex, Note, request
  <1>12. ASSUME NEW t \in Task, Create(t)  PROVE TypeOK'
    <2>1. PICK s \in Sid :
             /\ ~Born(s)
             /\ info' = [info EXCEPT ![s] = [user |-> user[t], dev |-> dev[t], media |-> media[t]]]
             /\ SetKey(s)
             /\ sid' = Put(sid, t, s)
      BY <1>12 DEF Create
    <2>2. [user |-> user[t], dev |-> dev[t], media |-> media[t]] \in Info
      BY <1>12 DEF Create, Info
    <2>3. info' \in [Sid -> Info \cup {None}]
      BY <2>1, <2>2
    <2> QED
      BY <1>12, <2>1, <2>3 DEF Create, SetKey, Goto, Put, request
  <1>13. ASSUME NEW t \in Task, OutOfIds(t)  PROVE TypeOK'
    BY <1>13 DEF OutOfIds, Move, Goto, Put, request, scratch, store
  <1>14. ASSUME NEW t \in Task, CreateRecord(t)  PROVE TypeOK'
    BY <1>14 DEF CreateRecord, Move, Goto, Put, request, scratch, OpenRecord
  <1>15. ASSUME NEW t \in Task, AddReadIds(t)  PROVE TypeOK'
    BY <1>15 DEF AddReadIds, Put, Goto, store, request
  <1>16. ASSUME NEW t \in Task, AddWrite(t)  PROVE TypeOK'
    BY <1>16 DEF AddWrite, Move, Goto, Put, request, scratch, SetIndex, Note
  <1>17. ASSUME NEW t \in Task, Replace(t)  PROVE TypeOK'
    BY <1>17 DEF Replace, Move, Goto, Put, request, scratch, Persist, Note,
       SetKey
  <1>18. ASSUME NEW t \in Task, ReplaceRecord(t)  PROVE TypeOK'
    BY <1>18 DEF ReplaceRecord, Move, Goto, Put, request, scratch, OpenRecord
  <1>19. ASSUME NEW t \in Task, Refuse(t)  PROVE TypeOK'
    BY <1>19 DEF Refuse, Finish, Put, Goto, Drop, Usable, store
  <1>20. ASSUME NEW t \in Task, Get(t)  PROVE TypeOK'
    BY <1>20 DEF Get, Move, Goto, Put, request, scratch, Usable, store
  <1>21. ASSUME NEW t \in Task, Playable(t)  PROVE TypeOK'
    BY <1>21 DEF Playable, Move, Goto, Put, request, scratch, store
  <1>22. ASSUME NEW t \in Task, GetAgain(t)  PROVE TypeOK'
    BY <1>22 DEF GetAgain, Move, Goto, Put, request, scratch, Usable, store
  <1>23. ASSUME NEW t \in Task, Touch(t)  PROVE TypeOK'
    BY <1>23 DEF Touch, Move, Goto, Put, request, scratch, Persist, Note,
       SetKey
  <1>24. ASSUME NEW t \in Task, TouchRecord(t)  PROVE TypeOK'
    BY <1>24 DEF TouchRecord, Finish, Put, Goto, Drop, OpenRecord
  <1>25. ASSUME NEW t \in Task, StopGet(t)  PROVE TypeOK'
    <2>1. CASE Finish(t)
      BY <1>25, <2>1 DEF StopGet, Finish, Drop, Goto, Put, store
    <2>2. ASSUME NEW l \in {"stopMiss", "stopDel"}, Move(t, l)  PROVE TypeOK'
      BY <1>25, <2>2 DEF StopGet, Move, Goto, Put, store, request, scratch
    <2> QED
      BY <1>25, <2>1, <2>2 DEF StopGet
  <1>26. ASSUME NEW t \in Task, StopMiss(t)  PROVE TypeOK'
    BY <1>26 DEF StopMiss, Move, Goto, Put, request, scratch, DelKey
  <1>27. ASSUME NEW t \in Task, StopDelete(t)  PROVE TypeOK'
    BY <1>27 DEF StopDelete, Move, Goto, Put, request, scratch, DelKey
  <1>28. ASSUME NEW t \in Task, StopReadIds(t)  PROVE TypeOK'
    BY <1>28 DEF StopReadIds, Put, Goto, store, request
  <1>29. ASSUME NEW t \in Task, StopWrite(t)  PROVE TypeOK'
    BY <1>29 DEF StopWrite, Put, Goto, SetIndex, Note, request
  <1>30. ASSUME NEW t \in Task, StopRecord(t)  PROVE TypeOK'
    BY <1>30 DEF StopRecord, Move, Goto, Put, request, scratch, CloseRecord
  <1>31. ASSUME NEW t \in Task, NextVictim(t)  PROVE TypeOK'
    BY <1>31 DEF NextVictim, Put, Goto, Revoking, store, request
  <1>32. ASSUME NEW t \in Task, EndLoop(t)  PROVE TypeOK'
    BY <1>32 DEF EndLoop, Finish, Put, Goto, Drop
  <1>33. ASSUME NEW t \in Task, ReadRows(t)  PROVE TypeOK'
    BY <1>33 DEF ReadRows, Put, Goto, Revoking, OpenRows, store, request
  <1>34. ASSUME NEW t \in Task, RevokeGet(t)  PROVE TypeOK'
    <2>1. user' \in [Task -> User \cup {None}]
      BY <1>34, OwnerType DEF RevokeGet, Put
    <2> QED
      BY <1>34, <2>1 DEF RevokeGet, Goto, Put, store, scratch
  <1>35. ASSUME NEW t \in Task, MarkRevoked(t)  PROVE TypeOK'
    BY <1>35 DEF MarkRevoked, Move, Goto, Put, request, scratch, CloseRecord
  <1>36. ASSUME NEW t \in Task, ReadLiveRows(t)  PROVE TypeOK'
    BY <1>36 DEF ReadLiveRows, Put, Goto, OpenRows, store, request
  <1>37. ASSUME NEW t \in Task, SweepGet(t)  PROVE TypeOK'
    BY <1>37 DEF SweepGet, Put, store, request
  <1>38. ASSUME NEW t \in Task, SweepMark(t)  PROVE TypeOK'
    BY <1>38 DEF SweepMark, Put, CloseRecord, request
  <1>39. ASSUME NEW t \in Task, SweepEnd(t)  PROVE TypeOK'
    BY <1>39 DEF SweepEnd, Finish, Put, Goto, Drop, store
  <1>40. ASSUME NEW t \in Task, Arrive(t)  PROVE TypeOK'
    <2>1. ASSUME NEW u \in User, NEW d \in Device, NEW m \in Media,
       BeginOpen(t, u, d, m) PROVE TypeOK'
      BY <2>1 DEF BeginOpen, Begin, Put, Goto
    <2>2. ASSUME NEW o \in {"heartbeat", "tracks"}, NEW u \in User, NEW s \in
       Sid, BeginTouch(t, o, u, s) PROVE TypeOK'
      BY <2>2 DEF BeginTouch, Put, Begin, Goto
    <2>3. ASSUME NEW u \in User, NEW s \in Sid, BeginStop(t, u, s) PROVE
       TypeOK'
      BY <2>3 DEF BeginStop, Put, Begin, Goto
    <2>4. ASSUME NEW o \in {"list", "stopAll"}, NEW u \in User, BeginList(t,
       o, u, None) PROVE TypeOK'
      BY <2>4 DEF BeginList, Begin, Put, Goto
    <2>5. ASSUME NEW u \in User, NEW d \in Device, BeginList(t, "stopDevice",
       u, d) PROVE TypeOK'
      BY <2>5 DEF BeginList, Begin, Put, Goto
    <2>6. ASSUME NEW m \in Media, BeginUnpublish(t, m) PROVE TypeOK'
      BY <2>6 DEF BeginUnpublish, Begin, Put, Goto
    <2>7. ASSUME NEW m \in Media, BeginRemove(t, m) PROVE TypeOK'
      BY <2>7 DEF BeginRemove, Begin, Put, Goto
    <2>8. ASSUME BeginSweep(t) PROVE TypeOK'
      BY <2>8 DEF BeginSweep, Begin, Put, Goto
    <2> QED
      BY <1>40, <2>1, <2>2, <2>3, <2>4, <2>5, <2>6, <2>7, <2>8 DEF Arrive
  <1>41. ASSUME NEW m \in Media, Publish(m)  PROVE TypeOK'
    BY <1>41 DEF Publish, store, request, scratch
  <1>42. CASE Tick
    <2>1. sess' \in [Sid -> 0 .. SessionTtl] /\ lock' \in [User -> 0 .. LockTtl]
      BY <1>42, LessType, PlaybackAssumption DEF Tick, LockAged
    <2>2. IndexTtl \in Nat
      BY PlaybackAssumption DEF IndexTtl
    <2>3. indexLeft' \in [User -> 0 .. IndexTtl]
      BY <1>42, LessType, <2>2 DEF Tick
    <2>4. index' \in [User -> SUBSET Sid] /\ hazard' \in SUBSET HazardName
      BY <1>42 DEF Tick
    <2> QED
      BY <1>42, <2>1, <2>3, <2>4 DEF Tick, request, scratch
  <1>43. CASE Crash
    BY <1>43 DEF Crash, Note, store
  <1>44. CASE UNCHANGED vars
    BY <1>44 DEF vars, store, request, scratch
  <1> QED
    BY <1>1, <1>2, <1>3, <1>4, <1>5, <1>6, <1>7, <1>8, <1>9, <1>10, <1>11,
       <1>12, <1>13, <1>14, <1>15, <1>16, <1>17, <1>18, <1>19, <1>20, <1>21,
       <1>22, <1>23, <1>24, <1>25, <1>26, <1>27, <1>28, <1>29, <1>30, <1>31,
       <1>32, <1>33, <1>34, <1>35, <1>36, <1>37, <1>38, <1>39, <1>40, <1>41,
       <1>42, <1>43, <1>44 DEF Next, Serve, Open, List, Keep, Stop, Rows

LEMMA ShapeStep ==
  ASSUME TypeInv, TypeOK', NEW k \in Task, [Next]_vars
  PROVE  Shape(k)'
  <1> USE NoneNames DEF TypeInv, Shape, Lists, OwnedBy, AnySidPc, OwnSidPc,
     OpenPc, ListingPc, ForUser, StopPc, ReadPc, OpName, SectionPc,
     CreatingPc, InSection, Born, TypeOK
  <1>1. ASSUME NEW t \in Task, Lock(t)  PROVE Shape(k)'
    BY <1>1 DEF Lock, Move, Goto, Put, request, scratch
  <1>2. ASSUME NEW t \in Task, GiveUp(t)  PROVE Shape(k)'
    BY <1>2 DEF GiveUp, Finish, Put, Goto, Drop, store
  <1>3. ASSUME NEW t \in Task, Unlock(t)  PROVE Shape(k)'
    BY <1>3 DEF Unlock, Finish, Put, Goto, Drop
  <1>4. ASSUME NEW t \in Task, Abort(t)  PROVE Shape(k)'
    BY <1>4 DEF Abort, Note, Goto, Put, Drop, store, request
  <1>5. ASSUME NEW t \in Task, ReadIds(t)  PROVE Shape(k)'
    BY <1>5 DEF ReadIds, Put, Goto, store, request
  <1>6. ASSUME NEW t \in Task, ProbeLive(t)  PROVE Shape(k)'
    BY <1>6 DEF ProbeLive, Put, store, request
  <1>7. ASSUME NEW t \in Task, ProbeDead(t)  PROVE Shape(k)'
    BY <1>7 DEF ProbeDead, Put, Goto, store, request
  <1>8. ASSUME NEW t \in Task, DropDead(t)  PROVE Shape(k)'
    BY <1>8 DEF DropDead, Put, Goto, DelKey, request
  <1>9. ASSUME NEW t \in Task, AssertSlot(t)  PROVE Shape(k)'
    BY <1>9 DEF AssertSlot, Put, Goto, WriteLive, SetIndex, Note, Matching,
       SlotTaken, request
  <1>10. ASSUME NEW t \in Task, ReplyList(t)  PROVE Shape(k)'
    BY <1>10 DEF ReplyList, Finish, Put, Goto, Drop, WriteLive, SetIndex, Note
  <1>11. ASSUME NEW t \in Task, StopListed(t)  PROVE Shape(k)'
    BY <1>11 DEF StopListed, Put, Goto, WriteLive, SetIndex, Note, request
  <1>12. ASSUME NEW t \in Task, Create(t)  PROVE Shape(k)'
    <2>1. PICK s \in Sid :
             /\ ~Born(s)
             /\ info' = [info EXCEPT ![s] = [user |-> user[t], dev |-> dev[t], media |-> media[t]]]
             /\ SetKey(s)
             /\ sid' = Put(sid, t, s)
      BY <1>12 DEF Create
    <2>2. [user |-> user[t], dev |-> dev[t], media |-> media[t]] \in Info
      BY <1>12 DEF Create, Info
    <2>3. None \notin Info
      BY PlaybackAssumption
    <2> QED
      BY <1>12, <2>1, <2>2, <2>3 DEF Create, SetKey, Goto, Put, request
  <1>13. ASSUME NEW t \in Task, OutOfIds(t)  PROVE Shape(k)'
    BY <1>13 DEF OutOfIds, Move, Goto, Put, request, scratch, store
  <1>14. ASSUME NEW t \in Task, CreateRecord(t)  PROVE Shape(k)'
    BY <1>14 DEF CreateRecord, Move, Goto, Put, request, scratch, OpenRecord
  <1>15. ASSUME NEW t \in Task, AddReadIds(t)  PROVE Shape(k)'
    BY <1>15 DEF AddReadIds, Put, Goto, store, request
  <1>16. ASSUME NEW t \in Task, AddWrite(t)  PROVE Shape(k)'
    BY <1>16 DEF AddWrite, Move, Goto, Put, request, scratch, SetIndex, Note
  <1>17. ASSUME NEW t \in Task, Replace(t)  PROVE Shape(k)'
    BY <1>17 DEF Replace, Move, Goto, Put, request, scratch, Persist, Note,
       SetKey
  <1>18. ASSUME NEW t \in Task, ReplaceRecord(t)  PROVE Shape(k)'
    BY <1>18 DEF ReplaceRecord, Move, Goto, Put, request, scratch, OpenRecord
  <1>19. ASSUME NEW t \in Task, Refuse(t)  PROVE Shape(k)'
    BY <1>19 DEF Refuse, Finish, Put, Goto, Drop, Usable, store
  <1>20. ASSUME NEW t \in Task, Get(t)  PROVE Shape(k)'
    BY <1>20 DEF Get, Move, Goto, Put, request, scratch, Usable, store
  <1>21. ASSUME NEW t \in Task, Playable(t)  PROVE Shape(k)'
    BY <1>21 DEF Playable, Move, Goto, Put, request, scratch, store
  <1>22. ASSUME NEW t \in Task, GetAgain(t)  PROVE Shape(k)'
    BY <1>22 DEF GetAgain, Move, Goto, Put, request, scratch, Usable, store
  <1>23. ASSUME NEW t \in Task, Touch(t)  PROVE Shape(k)'
    BY <1>23 DEF Touch, Move, Goto, Put, request, scratch, Persist, Note,
       SetKey
  <1>24. ASSUME NEW t \in Task, TouchRecord(t)  PROVE Shape(k)'
    BY <1>24 DEF TouchRecord, Finish, Put, Goto, Drop, OpenRecord
  <1>25. ASSUME NEW t \in Task, StopGet(t)  PROVE Shape(k)'
    BY <1>25 DEF StopGet, Move, Goto, Put, request, scratch, Finish, Drop,
       Usable, store
  <1>26. ASSUME NEW t \in Task, StopMiss(t)  PROVE Shape(k)'
    BY <1>26 DEF StopMiss, Move, Goto, Put, request, scratch, DelKey
  <1>27. ASSUME NEW t \in Task, StopDelete(t)  PROVE Shape(k)'
    BY <1>27 DEF StopDelete, Move, Goto, Put, request, scratch, DelKey
  <1>28. ASSUME NEW t \in Task, StopReadIds(t)  PROVE Shape(k)'
    BY <1>28 DEF StopReadIds, Put, Goto, store, request
  <1>29. ASSUME NEW t \in Task, StopWrite(t)  PROVE Shape(k)'
    BY <1>29 DEF StopWrite, Put, Goto, SetIndex, Note, request
  <1>30. ASSUME NEW t \in Task, StopRecord(t)  PROVE Shape(k)'
    BY <1>30 DEF StopRecord, Move, Goto, Put, request, scratch, CloseRecord
  <1>31. ASSUME NEW t \in Task, NextVictim(t)  PROVE Shape(k)'
    BY <1>31 DEF NextVictim, Put, Goto, Revoking, store, request
  <1>32. ASSUME NEW t \in Task, EndLoop(t)  PROVE Shape(k)'
    BY <1>32 DEF EndLoop, Finish, Put, Goto, Drop
  <1>33. ASSUME NEW t \in Task, ReadRows(t)  PROVE Shape(k)'
    BY <1>33 DEF ReadRows, Put, Goto, Revoking, OpenRows, store, request
  <1>34. ASSUME NEW t \in Task, RevokeGet(t)  PROVE Shape(k)'
    <2>1. CASE sess[sid[t]] > 0
      <3>1. info[sid[t]].user \in User
        BY <1>34, <2>1, OwnerType DEF RevokeGet
      <3> QED
        BY <1>34, <2>1, <3>1 DEF RevokeGet, Put, Goto, store, scratch
    <2>2. CASE ~(sess[sid[t]] > 0)
      BY <1>34, <2>2 DEF RevokeGet, Put, Goto, store, scratch
    <2> QED
      BY <2>1, <2>2
  <1>35. ASSUME NEW t \in Task, MarkRevoked(t)  PROVE Shape(k)'
    BY <1>35 DEF MarkRevoked, Move, Goto, Put, request, scratch, CloseRecord
  <1>36. ASSUME NEW t \in Task, ReadLiveRows(t)  PROVE Shape(k)'
    BY <1>36 DEF ReadLiveRows, Put, Goto, OpenRows, store, request
  <1>37. ASSUME NEW t \in Task, SweepGet(t)  PROVE Shape(k)'
    BY <1>37 DEF SweepGet, Put, store, request
  <1>38. ASSUME NEW t \in Task, SweepMark(t)  PROVE Shape(k)'
    BY <1>38 DEF SweepMark, Put, CloseRecord, request
  <1>39. ASSUME NEW t \in Task, SweepEnd(t)  PROVE Shape(k)'
    BY <1>39 DEF SweepEnd, Finish, Put, Goto, Drop, store
  <1>40. ASSUME NEW t \in Task, Arrive(t)  PROVE Shape(k)'
    <2>1. ASSUME NEW u \in User, NEW d \in Device, NEW m \in Media,
       BeginOpen(t, u, d, m) PROVE Shape(k)'
      BY <2>1 DEF BeginOpen, Begin, Put, Goto
    <2>2. ASSUME NEW o \in {"heartbeat", "tracks"}, NEW u \in User, NEW s \in
       Sid, BeginTouch(t, o, u, s) PROVE Shape(k)'
      BY <2>2 DEF BeginTouch, Put, Begin, Goto
    <2>3. ASSUME NEW u \in User, NEW s \in Sid, BeginStop(t, u, s) PROVE
       Shape(k)'
      BY <2>3 DEF BeginStop, Put, Begin, Goto
    <2>4. ASSUME NEW o \in {"list", "stopAll"}, NEW u \in User, BeginList(t,
       o, u, None) PROVE Shape(k)'
      BY <2>4 DEF BeginList, Begin, Put, Goto
    <2>5. ASSUME NEW u \in User, NEW d \in Device, BeginList(t, "stopDevice",
       u, d) PROVE Shape(k)'
      BY <2>5 DEF BeginList, Begin, Put, Goto
    <2>6. ASSUME NEW m \in Media, BeginUnpublish(t, m) PROVE Shape(k)'
      BY <2>6 DEF BeginUnpublish, Begin, Put, Goto
    <2>7. ASSUME NEW m \in Media, BeginRemove(t, m) PROVE Shape(k)'
      BY <2>7 DEF BeginRemove, Begin, Put, Goto
    <2>8. ASSUME BeginSweep(t) PROVE Shape(k)'
      BY <2>8 DEF BeginSweep, Begin, Put, Goto
    <2> QED
      <3> HIDE DEF TypeInv, TypeOK, Shape
      <3> QED
        BY <1>40, <2>1, <2>2, <2>3, <2>4, <2>5, <2>6, <2>7, <2>8 DEF Arrive
  <1>41. ASSUME NEW m \in Media, Publish(m)  PROVE Shape(k)'
    BY <1>41 DEF Publish, store, request, scratch
  <1>42. CASE Tick
    BY <1>42 DEF Tick, LockAged, Less, request, scratch
  <1>43. CASE Crash
    BY <1>43 DEF Crash, Note, store
  <1>44. CASE UNCHANGED vars
    BY <1>44 DEF vars, store, request, scratch
  <1> QED
    BY <1>1, <1>2, <1>3, <1>4, <1>5, <1>6, <1>7, <1>8, <1>9, <1>10, <1>11,
       <1>12, <1>13, <1>14, <1>15, <1>16, <1>17, <1>18, <1>19, <1>20, <1>21,
       <1>22, <1>23, <1>24, <1>25, <1>26, <1>27, <1>28, <1>29, <1>30, <1>31,
       <1>32, <1>33, <1>34, <1>35, <1>36, <1>37, <1>38, <1>39, <1>40, <1>41,
       <1>42, <1>43, <1>44 DEF Next, Serve, Open, List, Keep, Stop, Rows

LEMMA ListsStep ==
  ASSUME TypeInv, TypeOK', [Next]_vars
  PROVE  Lists'
  <1> USE NoneNames DEF TypeInv, Shape, Lists, OwnedBy, AnySidPc, OwnSidPc,
     OpenPc, ListingPc, ForUser, StopPc, ReadPc, OpName, SectionPc,
     CreatingPc, InSection, Born, TypeOK
  <1>1. ASSUME NEW t \in Task, Lock(t)  PROVE Lists'
    BY <1>1 DEF Lock, Move, Goto, Put, request, scratch
  <1>2. ASSUME NEW t \in Task, GiveUp(t)  PROVE Lists'
    BY <1>2 DEF GiveUp, Finish, Put, Goto, Drop, store
  <1>3. ASSUME NEW t \in Task, Unlock(t)  PROVE Lists'
    BY <1>3 DEF Unlock, Finish, Put, Goto, Drop
  <1>4. ASSUME NEW t \in Task, Abort(t)  PROVE Lists'
    BY <1>4 DEF Abort, Note, Goto, Put, Drop, store, request
  <1>5. ASSUME NEW t \in Task, ReadIds(t)  PROVE Lists'
    BY <1>5 DEF ReadIds, Put, Goto, store, request
  <1>6. ASSUME NEW t \in Task, ProbeLive(t)  PROVE Lists'
    BY <1>6 DEF ProbeLive, Put, store, request
  <1>7. ASSUME NEW t \in Task, ProbeDead(t)  PROVE Lists'
    BY <1>7 DEF ProbeDead, Put, Goto, store, request
  <1>8. ASSUME NEW t \in Task, DropDead(t)  PROVE Lists'
    BY <1>8 DEF DropDead, Put, Goto, DelKey, request
  <1>9. ASSUME NEW t \in Task, AssertSlot(t)  PROVE Lists'
    BY <1>9 DEF AssertSlot, Put, Goto, WriteLive, SetIndex, Note, Matching,
       SlotTaken, request
  <1>10. ASSUME NEW t \in Task, ReplyList(t)  PROVE Lists'
    BY <1>10 DEF ReplyList, Finish, Put, Goto, Drop, WriteLive, SetIndex, Note
  <1>11. ASSUME NEW t \in Task, StopListed(t)  PROVE Lists'
    BY <1>11 DEF StopListed, Put, Goto, WriteLive, SetIndex, Note, request
  <1>12. ASSUME NEW t \in Task, Create(t)  PROVE Lists'
    <2>1. PICK s \in Sid :
             /\ ~Born(s)
             /\ info' = [info EXCEPT ![s] = [user |-> user[t], dev |-> dev[t], media |-> media[t]]]
             /\ SetKey(s)
             /\ sid' = Put(sid, t, s)
      BY <1>12 DEF Create
    <2>2. [user |-> user[t], dev |-> dev[t], media |-> media[t]] \in Info
      BY <1>12 DEF Create, Info
    <2>3. None \notin Info
      BY PlaybackAssumption
    <2> QED
      BY <1>12, <2>1, <2>2, <2>3 DEF Create, SetKey, Goto, Put, request
  <1>13. ASSUME NEW t \in Task, OutOfIds(t)  PROVE Lists'
    BY <1>13 DEF OutOfIds, Move, Goto, Put, request, scratch, store
  <1>14. ASSUME NEW t \in Task, CreateRecord(t)  PROVE Lists'
    BY <1>14 DEF CreateRecord, Move, Goto, Put, request, scratch, OpenRecord
  <1>15. ASSUME NEW t \in Task, AddReadIds(t)  PROVE Lists'
    BY <1>15 DEF AddReadIds, Put, Goto, store, request
  <1>16. ASSUME NEW t \in Task, AddWrite(t)  PROVE Lists'
    BY <1>16 DEF AddWrite, Move, Goto, Put, request, scratch, SetIndex, Note
  <1>17. ASSUME NEW t \in Task, Replace(t)  PROVE Lists'
    BY <1>17 DEF Replace, Move, Goto, Put, request, scratch, Persist, Note,
       SetKey
  <1>18. ASSUME NEW t \in Task, ReplaceRecord(t)  PROVE Lists'
    BY <1>18 DEF ReplaceRecord, Move, Goto, Put, request, scratch, OpenRecord
  <1>19. ASSUME NEW t \in Task, Refuse(t)  PROVE Lists'
    BY <1>19 DEF Refuse, Finish, Put, Goto, Drop, Usable, store
  <1>20. ASSUME NEW t \in Task, Get(t)  PROVE Lists'
    BY <1>20 DEF Get, Move, Goto, Put, request, scratch, Usable, store
  <1>21. ASSUME NEW t \in Task, Playable(t)  PROVE Lists'
    BY <1>21 DEF Playable, Move, Goto, Put, request, scratch, store
  <1>22. ASSUME NEW t \in Task, GetAgain(t)  PROVE Lists'
    BY <1>22 DEF GetAgain, Move, Goto, Put, request, scratch, Usable, store
  <1>23. ASSUME NEW t \in Task, Touch(t)  PROVE Lists'
    BY <1>23 DEF Touch, Move, Goto, Put, request, scratch, Persist, Note,
       SetKey
  <1>24. ASSUME NEW t \in Task, TouchRecord(t)  PROVE Lists'
    BY <1>24 DEF TouchRecord, Finish, Put, Goto, Drop, OpenRecord
  <1>25. ASSUME NEW t \in Task, StopGet(t)  PROVE Lists'
    <2>1. UNCHANGED <<sess, info, index>>
      BY <1>25 DEF StopGet, store
    <2>2. CASE Finish(t)
      BY <2>1, <2>2 DEF Finish, Drop, Goto, Put
    <2>3. ASSUME NEW l \in {"stopMiss", "stopDel"}, Move(t, l)  PROVE Lists'
      BY <2>1, <2>3 DEF Move, Goto, Put, request, scratch
    <2> QED
      BY <1>25, <2>2, <2>3 DEF StopGet
  <1>26. ASSUME NEW t \in Task, StopMiss(t)  PROVE Lists'
    BY <1>26 DEF StopMiss, Move, Goto, Put, request, scratch, DelKey
  <1>27. ASSUME NEW t \in Task, StopDelete(t)  PROVE Lists'
    BY <1>27 DEF StopDelete, Move, Goto, Put, request, scratch, DelKey
  <1>28. ASSUME NEW t \in Task, StopReadIds(t)  PROVE Lists'
    BY <1>28 DEF StopReadIds, Put, Goto, store, request
  <1>29. ASSUME NEW t \in Task, StopWrite(t)  PROVE Lists'
    BY <1>29 DEF StopWrite, Put, Goto, SetIndex, Note, request
  <1>30. ASSUME NEW t \in Task, StopRecord(t)  PROVE Lists'
    BY <1>30 DEF StopRecord, Move, Goto, Put, request, scratch, CloseRecord
  <1>31. ASSUME NEW t \in Task, NextVictim(t)  PROVE Lists'
    BY <1>31 DEF NextVictim, Put, Goto, Revoking, store, request
  <1>32. ASSUME NEW t \in Task, EndLoop(t)  PROVE Lists'
    BY <1>32 DEF EndLoop, Finish, Put, Goto, Drop
  <1>33. ASSUME NEW t \in Task, ReadRows(t)  PROVE Lists'
    BY <1>33 DEF ReadRows, Put, Goto, Revoking, OpenRows, store, request
  <1>34. ASSUME NEW t \in Task, RevokeGet(t)  PROVE Lists'
    <2>1. UNCHANGED <<sess, info, index, ids, todo, found>>
      BY <1>34 DEF RevokeGet, store, scratch
    <2>2. \A k \in Task : k # t => pc'[k] = pc[k] /\ user'[k] = user[k]
      BY <1>34 DEF RevokeGet, Goto, Put
    <2>3. pc'[t] \in {"stopGet", "mark"}
      BY <1>34 DEF RevokeGet, Goto, Put
    <2>4. ASSUME NEW k \in Task, pc'[k] \in ReadPc  PROVE k # t /\ pc[k] \in ReadPc
      BY <2>2, <2>3, <2>4
    <2>5. \A k \in Task : pc'[k] \in ReadPc => \A s \in ids'[k] : OwnedBy(s, user[k])'
      BY <2>1, <2>2, <2>4
    <2>6. \A k \in Task : pc'[k] \in {"probe", "drop"} =>
             \A s \in todo'[k] \cup found'[k] : OwnedBy(s, user[k])'
      BY <2>1, <2>2, <2>3
    <2>7. /\ \A s \in Sid : sess'[s] > 0 => Born(s)'
          /\ \A u \in User : \A s \in index'[u] : OwnedBy(s, u)'
      BY <2>1
    <2> QED
      BY <2>5, <2>6, <2>7
  <1>35. ASSUME NEW t \in Task, MarkRevoked(t)  PROVE Lists'
    BY <1>35 DEF MarkRevoked, Move, Goto, Put, request, scratch, CloseRecord
  <1>36. ASSUME NEW t \in Task, ReadLiveRows(t)  PROVE Lists'
    BY <1>36 DEF ReadLiveRows, Put, Goto, OpenRows, store, request
  <1>37. ASSUME NEW t \in Task, SweepGet(t)  PROVE Lists'
    BY <1>37 DEF SweepGet, Put, store, request
  <1>38. ASSUME NEW t \in Task, SweepMark(t)  PROVE Lists'
    BY <1>38 DEF SweepMark, Put, CloseRecord, request
  <1>39. ASSUME NEW t \in Task, SweepEnd(t)  PROVE Lists'
    BY <1>39 DEF SweepEnd, Finish, Put, Goto, Drop, store
  <1>40. ASSUME NEW t \in Task, Arrive(t)  PROVE Lists'
    <2>1. ASSUME NEW u \in User, NEW d \in Device, NEW m \in Media,
       BeginOpen(t, u, d, m) PROVE Lists'
      BY <2>1 DEF BeginOpen, Begin, Put, Goto
    <2>2. ASSUME NEW o \in {"heartbeat", "tracks"}, NEW u \in User, NEW s \in
       Sid, BeginTouch(t, o, u, s) PROVE Lists'
      BY <2>2 DEF BeginTouch, Put, Begin, Goto
    <2>3. ASSUME NEW u \in User, NEW s \in Sid, BeginStop(t, u, s) PROVE
       Lists'
      BY <2>3 DEF BeginStop, Put, Begin, Goto
    <2>4. ASSUME NEW o \in {"list", "stopAll"}, NEW u \in User, BeginList(t,
       o, u, None) PROVE Lists'
      BY <2>4 DEF BeginList, Begin, Put, Goto
    <2>5. ASSUME NEW u \in User, NEW d \in Device, BeginList(t, "stopDevice",
       u, d) PROVE Lists'
      BY <2>5 DEF BeginList, Begin, Put, Goto
    <2>6. ASSUME NEW m \in Media, BeginUnpublish(t, m) PROVE Lists'
      BY <2>6 DEF BeginUnpublish, Begin, Put, Goto
    <2>7. ASSUME NEW m \in Media, BeginRemove(t, m) PROVE Lists'
      BY <2>7 DEF BeginRemove, Begin, Put, Goto
    <2>8. ASSUME BeginSweep(t) PROVE Lists'
      BY <2>8 DEF BeginSweep, Begin, Put, Goto
    <2> QED
      BY <1>40, <2>1, <2>2, <2>3, <2>4, <2>5, <2>6, <2>7, <2>8 DEF Arrive
  <1>41. ASSUME NEW m \in Media, Publish(m)  PROVE Lists'
    BY <1>41 DEF Publish, store, request, scratch
  <1>42. CASE Tick
    BY <1>42 DEF Tick, LockAged, Less, request, scratch
  <1>43. CASE Crash
    BY <1>43 DEF Crash, Note, store
  <1>44. CASE UNCHANGED vars
    BY <1>44 DEF vars, store, request, scratch
  <1> QED
    BY <1>1, <1>2, <1>3, <1>4, <1>5, <1>6, <1>7, <1>8, <1>9, <1>10, <1>11,
       <1>12, <1>13, <1>14, <1>15, <1>16, <1>17, <1>18, <1>19, <1>20, <1>21,
       <1>22, <1>23, <1>24, <1>25, <1>26, <1>27, <1>28, <1>29, <1>30, <1>31,
       <1>32, <1>33, <1>34, <1>35, <1>36, <1>37, <1>38, <1>39, <1>40, <1>41,
       <1>42, <1>43, <1>44 DEF Next, Serve, Open, List, Keep, Stop, Rows

\* Every variable of the store and of the handlers keeps its type, whatever
\* the plan, the lifetimes, the accounts and the number of requests served.
THEOREM TypeCorrect == Spec => []TypeOK
  <1>1. TypeInv /\ [Next]_vars => TypeInv'
    BY TypeStep, ShapeStep, ListsStep DEF TypeInv
  <1>2. TypeInv => TypeOK
    BY DEF TypeInv
  <1> QED
    BY InitTypeInv, <1>1, <1>2, PTL DEF Spec

\* The rows, and the loops over them, only name sessions that were created.
RowsInv ==
    /\ \A s \in Sid : rec[s] = "open" => Born(s)
    /\ \A t \in Task : op[t] \in {"unpublish", "remove", "sweep"} =>
          \A s \in todo[t] \cup found[t] : Born(s)
    /\ \A t \in Task : pc[t] \in {"revokeGet", "mark"} => Born(sid[t])

\* What is about to be written as ended has no key.
Ending ==
    /\ \A t \in Task : pc[t] \in {"stopIds", "stopWrite", "stopRec", "mark"} =>
          sess[sid[t]] = 0
    /\ \A t \in Task : pc[t] = "sweepGet" => \A s \in found[t] : sess[s] = 0

Recorded(s) == rec[s] = "open" \/ \E t \in Task : sid[t] = s /\ pc[t] = "createRec"

EndingInv == "revived" \notin hazard => Ending

RecordInv ==
    hazard \cap {"revived", "orphaned"} = {} =>
        \A s \in Sid : sess[s] > 0 => Recorded(s)

\* A section of the account runs under its lock, and alone.
LockInv ==
    "lockLapsed" \notin hazard =>
        /\ \A t \in Task : InSection(t) => lock[user[t]] > 0
        /\ \A t1, t2 \in Task :
              InSection(t1) /\ InSection(t2) /\ t1 # t2 => user[t1] # user[t2]

LEMMA RowsStep ==
  ASSUME TypeInv, RowsInv, [Next]_vars
  PROVE  RowsInv'
  <1> USE DEF TypeInv, Shape, Lists, OwnedBy, AnySidPc, OwnSidPc, OpenPc,
     ListingPc, ForUser, StopPc, OpName, Born, TypeOK, RowsInv
  <1>1. ASSUME NEW t \in Task, Lock(t)  PROVE RowsInv'
    BY <1>1 DEF Lock, Move, Goto, Put, request, scratch
  <1>2. ASSUME NEW t \in Task, GiveUp(t)  PROVE RowsInv'
    BY <1>2 DEF GiveUp, Finish, Put, Goto, Drop, store
  <1>3. ASSUME NEW t \in Task, Unlock(t)  PROVE RowsInv'
    BY <1>3 DEF Unlock, Finish, Put, Goto, Drop
  <1>4. ASSUME NEW t \in Task, Abort(t)  PROVE RowsInv'
    BY <1>4 DEF Abort, Note, Goto, Put, Drop, store, request
  <1>5. ASSUME NEW t \in Task, ReadIds(t)  PROVE RowsInv'
    BY <1>5 DEF ReadIds, Put, Goto, store, request
  <1>6. ASSUME NEW t \in Task, ProbeLive(t)  PROVE RowsInv'
    BY <1>6 DEF ProbeLive, Put, store, request
  <1>7. ASSUME NEW t \in Task, ProbeDead(t)  PROVE RowsInv'
    BY <1>7 DEF ProbeDead, Put, Goto, store, request
  <1>8. ASSUME NEW t \in Task, DropDead(t)  PROVE RowsInv'
    BY <1>8 DEF DropDead, Put, Goto, DelKey, request
  <1>9. ASSUME NEW t \in Task, AssertSlot(t)  PROVE RowsInv'
    BY <1>9 DEF AssertSlot, Put, Goto, WriteLive, SetIndex, Note, Matching,
       SlotTaken, request
  <1>10. ASSUME NEW t \in Task, ReplyList(t)  PROVE RowsInv'
    BY <1>10 DEF ReplyList, Finish, Put, Goto, Drop, WriteLive, SetIndex, Note
  <1>11. ASSUME NEW t \in Task, StopListed(t)  PROVE RowsInv'
    BY <1>11 DEF StopListed, Put, Goto, WriteLive, SetIndex, Note, request
  <1>12. ASSUME NEW t \in Task, Create(t)  PROVE RowsInv'
    BY <1>12 DEF Create, Put, Goto, SetKey, request
  <1>13. ASSUME NEW t \in Task, OutOfIds(t)  PROVE RowsInv'
    BY <1>13 DEF OutOfIds, Move, Goto, Put, request, scratch, store
  <1>14. ASSUME NEW t \in Task, CreateRecord(t)  PROVE RowsInv'
    BY <1>14 DEF CreateRecord, Move, Goto, Put, request, scratch, OpenRecord
  <1>15. ASSUME NEW t \in Task, AddReadIds(t)  PROVE RowsInv'
    BY <1>15 DEF AddReadIds, Put, Goto, store, request
  <1>16. ASSUME NEW t \in Task, AddWrite(t)  PROVE RowsInv'
    BY <1>16 DEF AddWrite, Move, Goto, Put, request, scratch, SetIndex, Note
  <1>17. ASSUME NEW t \in Task, Replace(t)  PROVE RowsInv'
    BY <1>17 DEF Replace, Move, Goto, Put, request, scratch, Persist, Note,
       SetKey
  <1>18. ASSUME NEW t \in Task, ReplaceRecord(t)  PROVE RowsInv'
    BY <1>18 DEF ReplaceRecord, Move, Goto, Put, request, scratch, OpenRecord
  <1>19. ASSUME NEW t \in Task, Refuse(t)  PROVE RowsInv'
    BY <1>19 DEF Refuse, Finish, Put, Goto, Drop, Usable, store
  <1>20. ASSUME NEW t \in Task, Get(t)  PROVE RowsInv'
    BY <1>20 DEF Get, Move, Goto, Put, request, scratch, Usable, store
  <1>21. ASSUME NEW t \in Task, Playable(t)  PROVE RowsInv'
    BY <1>21 DEF Playable, Move, Goto, Put, request, scratch, store
  <1>22. ASSUME NEW t \in Task, GetAgain(t)  PROVE RowsInv'
    BY <1>22 DEF GetAgain, Move, Goto, Put, request, scratch, Usable, store
  <1>23. ASSUME NEW t \in Task, Touch(t)  PROVE RowsInv'
    BY <1>23 DEF Touch, Move, Goto, Put, request, scratch, Persist, Note,
       SetKey
  <1>24. ASSUME NEW t \in Task, TouchRecord(t)  PROVE RowsInv'
    BY <1>24 DEF TouchRecord, Finish, Put, Goto, Drop, OpenRecord
  <1>25. ASSUME NEW t \in Task, StopGet(t)  PROVE RowsInv'
    BY <1>25, SMTT(40) DEF StopGet, Move, Goto, Put, request, scratch, Finish, Drop,
       Usable, store
  <1>26. ASSUME NEW t \in Task, StopMiss(t)  PROVE RowsInv'
    BY <1>26 DEF StopMiss, Move, Goto, Put, request, scratch, DelKey
  <1>27. ASSUME NEW t \in Task, StopDelete(t)  PROVE RowsInv'
    BY <1>27 DEF StopDelete, Move, Goto, Put, request, scratch, DelKey
  <1>28. ASSUME NEW t \in Task, StopReadIds(t)  PROVE RowsInv'
    BY <1>28 DEF StopReadIds, Put, Goto, store, request
  <1>29. ASSUME NEW t \in Task, StopWrite(t)  PROVE RowsInv'
    BY <1>29 DEF StopWrite, Put, Goto, SetIndex, Note, request
  <1>30. ASSUME NEW t \in Task, StopRecord(t)  PROVE RowsInv'
    BY <1>30 DEF StopRecord, Move, Goto, Put, request, scratch, CloseRecord
  <1>31. ASSUME NEW t \in Task, NextVictim(t)  PROVE RowsInv'
    BY <1>31 DEF NextVictim, Put, Goto, Revoking, store, request
  <1>32. ASSUME NEW t \in Task, EndLoop(t)  PROVE RowsInv'
    BY <1>32 DEF EndLoop, Finish, Put, Goto, Drop
  <1>33. ASSUME NEW t \in Task, ReadRows(t)  PROVE RowsInv'
    BY <1>33 DEF ReadRows, Put, Goto, Revoking, OpenRows, store, request
  <1>34. ASSUME NEW t \in Task, RevokeGet(t)  PROVE RowsInv'
    BY <1>34 DEF RevokeGet, Put, Goto, store, scratch
  <1>35. ASSUME NEW t \in Task, MarkRevoked(t)  PROVE RowsInv'
    BY <1>35 DEF MarkRevoked, Move, Goto, Put, request, scratch, CloseRecord
  <1>36. ASSUME NEW t \in Task, ReadLiveRows(t)  PROVE RowsInv'
    BY <1>36 DEF ReadLiveRows, Put, Goto, OpenRows, store, request
  <1>37. ASSUME NEW t \in Task, SweepGet(t)  PROVE RowsInv'
    BY <1>37 DEF SweepGet, Put, store, request
  <1>38. ASSUME NEW t \in Task, SweepMark(t)  PROVE RowsInv'
    BY <1>38 DEF SweepMark, Put, CloseRecord, request
  <1>39. ASSUME NEW t \in Task, SweepEnd(t)  PROVE RowsInv'
    BY <1>39 DEF SweepEnd, Finish, Put, Goto, Drop, store
  <1>40. ASSUME NEW t \in Task, Arrive(t)  PROVE RowsInv'
    <2>1. ASSUME NEW u \in User, NEW d \in Device, NEW m \in Media,
       BeginOpen(t, u, d, m) PROVE RowsInv'
      BY <2>1 DEF BeginOpen, Begin, Put, Goto
    <2>2. ASSUME NEW o \in {"heartbeat", "tracks"}, NEW u \in User, NEW s \in
       Sid, BeginTouch(t, o, u, s) PROVE RowsInv'
      BY <2>2 DEF BeginTouch, Put, Begin, Goto
    <2>3. ASSUME NEW u \in User, NEW s \in Sid, BeginStop(t, u, s) PROVE
       RowsInv'
      BY <2>3 DEF BeginStop, Put, Begin, Goto
    <2>4. ASSUME NEW o \in {"list", "stopAll"}, NEW u \in User, BeginList(t,
       o, u, None) PROVE RowsInv'
      BY <2>4 DEF BeginList, Begin, Put, Goto
    <2>5. ASSUME NEW u \in User, NEW d \in Device, BeginList(t, "stopDevice",
       u, d) PROVE RowsInv'
      BY <2>5 DEF BeginList, Begin, Put, Goto
    <2>6. ASSUME NEW m \in Media, BeginUnpublish(t, m) PROVE RowsInv'
      BY <2>6 DEF BeginUnpublish, Begin, Put, Goto
    <2>7. ASSUME NEW m \in Media, BeginRemove(t, m) PROVE RowsInv'
      BY <2>7 DEF BeginRemove, Begin, Put, Goto
    <2>8. ASSUME BeginSweep(t) PROVE RowsInv'
      BY <2>8 DEF BeginSweep, Begin, Put, Goto
    <2> QED
      BY <1>40, <2>1, <2>2, <2>3, <2>4, <2>5, <2>6, <2>7, <2>8 DEF Arrive
  <1>41. ASSUME NEW m \in Media, Publish(m)  PROVE RowsInv'
    BY <1>41 DEF Publish, store, request, scratch
  <1>42. CASE Tick
    BY <1>42 DEF Tick, LockAged, Less, request, scratch
  <1>43. CASE Crash
    BY <1>43 DEF Crash, Note, store
  <1>44. CASE UNCHANGED vars
    BY <1>44 DEF vars, store, request, scratch
  <1> QED
    BY <1>1, <1>2, <1>3, <1>4, <1>5, <1>6, <1>7, <1>8, <1>9, <1>10, <1>11,
       <1>12, <1>13, <1>14, <1>15, <1>16, <1>17, <1>18, <1>19, <1>20, <1>21,
       <1>22, <1>23, <1>24, <1>25, <1>26, <1>27, <1>28, <1>29, <1>30, <1>31,
       <1>32, <1>33, <1>34, <1>35, <1>36, <1>37, <1>38, <1>39, <1>40, <1>41,
       <1>42, <1>43, <1>44 DEF Next, Serve, Open, List, Keep, Stop, Rows

LEMMA EndingStep ==
  ASSUME TypeInv, RowsInv, EndingInv, [Next]_vars
  PROVE  EndingInv'
  <1> USE DEF TypeInv, Shape, Lists, OwnedBy, AnySidPc, OwnSidPc, Born,
     TypeOK, RowsInv, EndingInv, Ending
  <1>1. ASSUME NEW t \in Task, Lock(t)  PROVE EndingInv'
    BY <1>1 DEF Lock, Move, Goto, Put, request, scratch
  <1>2. ASSUME NEW t \in Task, GiveUp(t)  PROVE EndingInv'
    BY <1>2 DEF GiveUp, Finish, Put, Goto, Drop, store
  <1>3. ASSUME NEW t \in Task, Unlock(t)  PROVE EndingInv'
    BY <1>3 DEF Unlock, Finish, Put, Goto, Drop
  <1>4. ASSUME NEW t \in Task, Abort(t)  PROVE EndingInv'
    BY <1>4 DEF Abort, Note, Goto, Put, Drop, store, request
  <1>5. ASSUME NEW t \in Task, ReadIds(t)  PROVE EndingInv'
    BY <1>5 DEF ReadIds, Put, Goto, store, request
  <1>6. ASSUME NEW t \in Task, ProbeLive(t)  PROVE EndingInv'
    BY <1>6 DEF ProbeLive, Put, store, request
  <1>7. ASSUME NEW t \in Task, ProbeDead(t)  PROVE EndingInv'
    BY <1>7 DEF ProbeDead, Put, Goto, store, request
  <1>8. ASSUME NEW t \in Task, DropDead(t)  PROVE EndingInv'
    BY <1>8 DEF DropDead, Put, Goto, DelKey, request
  <1>9. ASSUME NEW t \in Task, AssertSlot(t)  PROVE EndingInv'
    <2>1. UNCHANGED <<sess, op>> /\ pc[t] = "probe" /\ pc'[t] \in {"replace", "unlock", "create"}
      BY <1>9 DEF AssertSlot, WriteLive, Goto, Put, request
    <2>2. \A k \in Task : k # t => pc'[k] = pc[k] /\ sid'[k] = sid[k] /\ found'[k] = found[k]
      BY <1>9 DEF AssertSlot, Goto, Put
    <2>3. hazard \subseteq hazard'
      BY <1>9 DEF AssertSlot, WriteLive, SetIndex, Note
    <2> QED
      BY <2>1, <2>2, <2>3
  <1>10. ASSUME NEW t \in Task, ReplyList(t)  PROVE EndingInv'
    BY <1>10 DEF ReplyList, Finish, Put, Goto, Drop, WriteLive, SetIndex, Note
  <1>11. ASSUME NEW t \in Task, StopListed(t)  PROVE EndingInv'
    BY <1>11 DEF StopListed, Put, Goto, WriteLive, SetIndex, Note, request
  <1>12. ASSUME NEW t \in Task, Create(t)  PROVE EndingInv'
    <2>1. PICK s \in Sid : ~Born(s) /\ SetKey(s) /\ sid' = Put(sid, t, s)
      BY <1>12 DEF Create
    <2>2. pc[t] = "create" /\ pc'[t] = "createRec" /\ UNCHANGED <<hazard, found, op>>
      BY <1>12 DEF Create, Goto, Put, request
    <2>3. \A k \in Task : k # t => pc'[k] = pc[k] /\ sid'[k] = sid[k]
      BY <1>12, <2>1 DEF Create, Goto, Put
    <2>4. ASSUME NEW r \in Sid, Born(r)  PROVE sess'[r] = sess[r]
      BY <2>1, <2>4 DEF SetKey
    <2> QED
      BY <2>1, <2>2, <2>3, <2>4
  <1>13. ASSUME NEW t \in Task, OutOfIds(t)  PROVE EndingInv'
    BY <1>13 DEF OutOfIds, Move, Goto, Put, request, scratch, store
  <1>14. ASSUME NEW t \in Task, CreateRecord(t)  PROVE EndingInv'
    BY <1>14 DEF CreateRecord, Move, Goto, Put, request, scratch, OpenRecord
  <1>15. ASSUME NEW t \in Task, AddReadIds(t)  PROVE EndingInv'
    BY <1>15 DEF AddReadIds, Put, Goto, store, request
  <1>16. ASSUME NEW t \in Task, AddWrite(t)  PROVE EndingInv'
    BY <1>16 DEF AddWrite, Move, Goto, Put, request, scratch, SetIndex, Note
  <1>17. ASSUME NEW t \in Task, Replace(t)  PROVE EndingInv'
    BY <1>17 DEF Replace, Move, Goto, Put, request, scratch, Persist, Note,
       SetKey
  <1>18. ASSUME NEW t \in Task, ReplaceRecord(t)  PROVE EndingInv'
    BY <1>18 DEF ReplaceRecord, Move, Goto, Put, request, scratch, OpenRecord
  <1>19. ASSUME NEW t \in Task, Refuse(t)  PROVE EndingInv'
    BY <1>19 DEF Refuse, Finish, Put, Goto, Drop, Usable, store
  <1>20. ASSUME NEW t \in Task, Get(t)  PROVE EndingInv'
    BY <1>20 DEF Get, Move, Goto, Put, request, scratch, Usable, store
  <1>21. ASSUME NEW t \in Task, Playable(t)  PROVE EndingInv'
    BY <1>21 DEF Playable, Move, Goto, Put, request, scratch, store
  <1>22. ASSUME NEW t \in Task, GetAgain(t)  PROVE EndingInv'
    BY <1>22 DEF GetAgain, Move, Goto, Put, request, scratch, Usable, store
  <1>23. ASSUME NEW t \in Task, Touch(t)  PROVE EndingInv'
    BY <1>23 DEF Touch, Move, Goto, Put, request, scratch, Persist, Note,
       SetKey
  <1>24. ASSUME NEW t \in Task, TouchRecord(t)  PROVE EndingInv'
    BY <1>24 DEF TouchRecord, Finish, Put, Goto, Drop, OpenRecord
  <1>25. ASSUME NEW t \in Task, StopGet(t)  PROVE EndingInv'
    BY <1>25 DEF StopGet, Move, Goto, Put, request, scratch, Finish, Drop,
       Usable, store
  <1>26. ASSUME NEW t \in Task, StopMiss(t)  PROVE EndingInv'
    BY <1>26 DEF StopMiss, Move, Goto, Put, request, scratch, DelKey
  <1>27. ASSUME NEW t \in Task, StopDelete(t)  PROVE EndingInv'
    BY <1>27 DEF StopDelete, Move, Goto, Put, request, scratch, DelKey
  <1>28. ASSUME NEW t \in Task, StopReadIds(t)  PROVE EndingInv'
    BY <1>28 DEF StopReadIds, Put, Goto, store, request
  <1>29. ASSUME NEW t \in Task, StopWrite(t)  PROVE EndingInv'
    BY <1>29 DEF StopWrite, Put, Goto, SetIndex, Note, request
  <1>30. ASSUME NEW t \in Task, StopRecord(t)  PROVE EndingInv'
    BY <1>30 DEF StopRecord, Move, Goto, Put, request, scratch, CloseRecord
  <1>31. ASSUME NEW t \in Task, NextVictim(t)  PROVE EndingInv'
    BY <1>31 DEF NextVictim, Put, Goto, Revoking, store, request
  <1>32. ASSUME NEW t \in Task, EndLoop(t)  PROVE EndingInv'
    BY <1>32 DEF EndLoop, Finish, Put, Goto, Drop
  <1>33. ASSUME NEW t \in Task, ReadRows(t)  PROVE EndingInv'
    BY <1>33 DEF ReadRows, Put, Goto, Revoking, OpenRows, store, request
  <1>34. ASSUME NEW t \in Task, RevokeGet(t)  PROVE EndingInv'
    <2>1. UNCHANGED <<sess, sid, found, hazard>> /\ pc[t] = "revokeGet"
      BY <1>34 DEF RevokeGet, store, scratch
    <2>2. \/ Goto(t, "stopGet")
          \/ Goto(t, "mark") /\ ~(sess[sid[t]] > 0)
      BY <1>34 DEF RevokeGet
    <2>3. ASSUME NEW l, Goto(t, l)
          PROVE  pc'[t] = l /\ \A k \in Task : k # t => pc'[k] = pc[k]
      BY <2>3 DEF Goto, Put
    <2>4. CASE Goto(t, "stopGet")
      BY <2>1, <2>3, <2>4
    <2>5. CASE Goto(t, "mark") /\ ~(sess[sid[t]] > 0)
      BY <2>1, <2>3, <2>5
    <2> QED
      BY <2>2, <2>4, <2>5
  <1>35. ASSUME NEW t \in Task, MarkRevoked(t)  PROVE EndingInv'
    BY <1>35 DEF MarkRevoked, Move, Goto, Put, request, scratch, CloseRecord
  <1>36. ASSUME NEW t \in Task, ReadLiveRows(t)  PROVE EndingInv'
    BY <1>36 DEF ReadLiveRows, Put, Goto, OpenRows, store, request
  <1>37. ASSUME NEW t \in Task, SweepGet(t)  PROVE EndingInv'
    BY <1>37 DEF SweepGet, Put, store, request
  <1>38. ASSUME NEW t \in Task, SweepMark(t)  PROVE EndingInv'
    BY <1>38 DEF SweepMark, Put, CloseRecord, request
  <1>39. ASSUME NEW t \in Task, SweepEnd(t)  PROVE EndingInv'
    BY <1>39 DEF SweepEnd, Finish, Put, Goto, Drop, store
  <1>40. ASSUME NEW t \in Task, Arrive(t)  PROVE EndingInv'
    <2>1. UNCHANGED <<sess, found, hazard>>
      BY <1>40, ArriveFrame
    <2>2. \A k \in Task : k # t => pc'[k] = pc[k] /\ sid'[k] = sid[k]
      BY <1>40, ArriveFrame
    <2>3. pc'[t] \notin {"stopIds", "stopWrite", "stopRec", "mark", "sweepGet"}
      BY <1>40, ArriveFrame
    <2> QED
      BY <2>1, <2>2, <2>3, SMTT(40)
  <1>41. ASSUME NEW m \in Media, Publish(m)  PROVE EndingInv'
    BY <1>41 DEF Publish, store, request, scratch
  <1>42. CASE Tick
    BY <1>42 DEF Tick, LockAged, Less, request, scratch
  <1>43. CASE Crash
    BY <1>43 DEF Crash, Note, store
  <1>44. CASE UNCHANGED vars
    BY <1>44 DEF vars, store, request, scratch
  <1> QED
    BY <1>1, <1>2, <1>3, <1>4, <1>5, <1>6, <1>7, <1>8, <1>9, <1>10, <1>11,
       <1>12, <1>13, <1>14, <1>15, <1>16, <1>17, <1>18, <1>19, <1>20, <1>21,
       <1>22, <1>23, <1>24, <1>25, <1>26, <1>27, <1>28, <1>29, <1>30, <1>31,
       <1>32, <1>33, <1>34, <1>35, <1>36, <1>37, <1>38, <1>39, <1>40, <1>41,
       <1>42, <1>43, <1>44 DEF Next, Serve, Open, List, Keep, Stop, Rows

\* Who has read that a session is gone still finds it so when its key is deleted: ids are
\* used once, and a session that came back is noted.
GoneInv ==
    /\ \A s \in known : Born(s)
    /\ \A t \in Task : \A s \in todo[t] \cup found[t] : Born(s)
    /\ \A t \in Task : pc[t] \in {"stopGet", "stopMiss", "drop"} => Born(sid[t])
    /\ "revived" \notin hazard =>
          \A t \in Task : pc[t] \in {"stopMiss", "drop"} => sess[sid[t]] = 0

LEMMA GoneStep ==
  ASSUME TypeInv, RowsInv, GoneInv, [Next]_vars
  PROVE  GoneInv'
  <1> USE DEF TypeInv, Shape, Lists, OwnedBy, AnySidPc, OwnSidPc, Born,
     TypeOK, RowsInv, GoneInv
  <1>1. ASSUME NEW t \in Task, Lock(t)  PROVE GoneInv'
    BY <1>1 DEF Lock, Move, Goto, Put, request, scratch
  <1>2. ASSUME NEW t \in Task, GiveUp(t)  PROVE GoneInv'
    BY <1>2 DEF GiveUp, Finish, Put, Goto, Drop, store
  <1>3. ASSUME NEW t \in Task, Unlock(t)  PROVE GoneInv'
    BY <1>3 DEF Unlock, Finish, Put, Goto, Drop
  <1>4. ASSUME NEW t \in Task, Abort(t)  PROVE GoneInv'
    BY <1>4 DEF Abort, Note, Goto, Put, Drop, store, request
  <1>5. ASSUME NEW t \in Task, ReadIds(t)  PROVE GoneInv'
    BY <1>5 DEF ReadIds, ListingPc, ForUser, Put, Goto, store, request
  <1>6. ASSUME NEW t \in Task, ProbeLive(t)  PROVE GoneInv'
    BY <1>6 DEF ProbeLive, Put, store, request
  <1>7. ASSUME NEW t \in Task, ProbeDead(t)  PROVE GoneInv'
    BY <1>7 DEF ProbeDead, Put, Goto, store, request
  <1>8. ASSUME NEW t \in Task, DropDead(t)  PROVE GoneInv'
    BY <1>8 DEF DropDead, Put, Goto, DelKey, request
  <1>9. ASSUME NEW t \in Task, AssertSlot(t)  PROVE GoneInv'
    <2>1. UNCHANGED <<sess, info, known>> /\ pc[t] = "probe" /\ pc'[t] \in {"replace", "unlock", "create"}
      BY <1>9 DEF AssertSlot, WriteLive, Goto, Put, request
    <2>2. /\ \A k \in Task : k # t => pc'[k] = pc[k] /\ sid'[k] = sid[k] /\ found'[k] = found[k]
          /\ todo' = todo /\ found'[t] = {}
      BY <1>9 DEF AssertSlot, Goto, Put
    <2>3. hazard \subseteq hazard'
      BY <1>9 DEF AssertSlot, WriteLive, SetIndex, Note
    <2> QED
      BY <2>1, <2>2, <2>3, SMTT(40)
  <1>10. ASSUME NEW t \in Task, ReplyList(t)  PROVE GoneInv'
    BY <1>10 DEF ReplyList, Finish, Put, Goto, Drop, WriteLive, SetIndex, Note
  <1>11. ASSUME NEW t \in Task, StopListed(t)  PROVE GoneInv'
    BY <1>11 DEF StopListed, Put, Goto, WriteLive, SetIndex, Note, request
  <1>12. ASSUME NEW t \in Task, Create(t)  PROVE GoneInv'
    <2>1. PICK s \in Sid : /\ ~Born(s) /\ SetKey(s) /\ sid' = Put(sid, t, s)
                          /\ info' = [info EXCEPT ![s] = [user |-> user[t], dev |-> dev[t], media |-> media[t]]]
      BY <1>12 DEF Create
    <2>2. pc[t] = "create" /\ pc'[t] = "createRec" /\ UNCHANGED <<hazard, found, todo, known>>
      BY <1>12 DEF Create, Goto, Put, request
    <2>3. \A k \in Task : k # t => pc'[k] = pc[k] /\ sid'[k] = sid[k]
      BY <1>12, <2>1 DEF Create, Goto, Put
    <2>4. ASSUME NEW r \in Sid, Born(r)  PROVE sess'[r] = sess[r] /\ info'[r] = info[r]
      BY <2>1, <2>4 DEF SetKey
    <2> QED
      BY <2>1, <2>2, <2>3, <2>4
  <1>13. ASSUME NEW t \in Task, OutOfIds(t)  PROVE GoneInv'
    BY <1>13 DEF OutOfIds, Move, Goto, Put, request, scratch, store
  <1>14. ASSUME NEW t \in Task, CreateRecord(t)  PROVE GoneInv'
    BY <1>14 DEF CreateRecord, Move, Goto, Put, request, scratch, OpenRecord
  <1>15. ASSUME NEW t \in Task, AddReadIds(t)  PROVE GoneInv'
    BY <1>15 DEF AddReadIds, Put, Goto, store, request
  <1>16. ASSUME NEW t \in Task, AddWrite(t)  PROVE GoneInv'
    BY <1>16 DEF AddWrite, Move, Goto, Put, request, scratch, SetIndex, Note
  <1>17. ASSUME NEW t \in Task, Replace(t)  PROVE GoneInv'
    BY <1>17 DEF Replace, Move, Goto, Put, request, scratch, Persist, Note,
       SetKey
  <1>18. ASSUME NEW t \in Task, ReplaceRecord(t)  PROVE GoneInv'
    BY <1>18 DEF ReplaceRecord, Move, Goto, Put, request, scratch, OpenRecord
  <1>19. ASSUME NEW t \in Task, Refuse(t)  PROVE GoneInv'
    BY <1>19 DEF Refuse, Finish, Put, Goto, Drop, Usable, store
  <1>20. ASSUME NEW t \in Task, Get(t)  PROVE GoneInv'
    BY <1>20 DEF Get, Move, Goto, Put, request, scratch, Usable, store
  <1>21. ASSUME NEW t \in Task, Playable(t)  PROVE GoneInv'
    BY <1>21 DEF Playable, Move, Goto, Put, request, scratch, store
  <1>22. ASSUME NEW t \in Task, GetAgain(t)  PROVE GoneInv'
    BY <1>22 DEF GetAgain, Move, Goto, Put, request, scratch, Usable, store
  <1>23. ASSUME NEW t \in Task, Touch(t)  PROVE GoneInv'
    BY <1>23 DEF Touch, Move, Goto, Put, request, scratch, Persist, Note,
       SetKey
  <1>24. ASSUME NEW t \in Task, TouchRecord(t)  PROVE GoneInv'
    BY <1>24 DEF TouchRecord, Finish, Put, Goto, Drop, OpenRecord
  <1>25. ASSUME NEW t \in Task, StopGet(t)  PROVE GoneInv'
    <2>1. /\ UNCHANGED <<sess, info, known, hazard>>
          /\ pc[t] = "stopGet" /\ sid[t] \in Sid /\ Born(sid[t])
      BY <1>25 DEF StopGet, store
    <2>2. CASE Move(t, "stopMiss") /\ sess[sid[t]] = 0
      BY <2>1, <2>2 DEF Move, Goto, Put, scratch
    <2>3. CASE Move(t, "stopDel")
      BY <2>1, <2>3 DEF Move, Goto, Put, scratch
    <2>4. CASE Finish(t)
      BY <2>1, <2>4 DEF Finish, Goto, Put, Drop
    <2> QED
      BY <1>25, <2>2, <2>3, <2>4 DEF StopGet
  <1>26. ASSUME NEW t \in Task, StopMiss(t)  PROVE GoneInv'
    BY <1>26 DEF StopMiss, Move, Goto, Put, request, scratch, DelKey
  <1>27. ASSUME NEW t \in Task, StopDelete(t)  PROVE GoneInv'
    BY <1>27 DEF StopDelete, Move, Goto, Put, request, scratch, DelKey
  <1>28. ASSUME NEW t \in Task, StopReadIds(t)  PROVE GoneInv'
    BY <1>28 DEF StopReadIds, Put, Goto, store, request
  <1>29. ASSUME NEW t \in Task, StopWrite(t)  PROVE GoneInv'
    BY <1>29 DEF StopWrite, Put, Goto, SetIndex, Note, request
  <1>30. ASSUME NEW t \in Task, StopRecord(t)  PROVE GoneInv'
    BY <1>30 DEF StopRecord, Move, Goto, Put, request, scratch, CloseRecord
  <1>31. ASSUME NEW t \in Task, NextVictim(t)  PROVE GoneInv'
    BY <1>31 DEF NextVictim, Put, Goto, Revoking, store, request
  <1>32. ASSUME NEW t \in Task, EndLoop(t)  PROVE GoneInv'
    BY <1>32 DEF EndLoop, Finish, Put, Goto, Drop
  <1>33. ASSUME NEW t \in Task, ReadRows(t)  PROVE GoneInv'
    BY <1>33 DEF ReadRows, Put, Goto, Revoking, OpenRows, store, request
  <1>34. ASSUME NEW t \in Task, RevokeGet(t)  PROVE GoneInv'
    <2>1. UNCHANGED <<sess, info, known, sid, found, todo, hazard>> /\ pc[t] = "revokeGet"
      BY <1>34 DEF RevokeGet, store, scratch
    <2>2. \E l \in {"stopGet", "mark"} : Goto(t, l)
      BY <1>34 DEF RevokeGet
    <2>3. pc'[t] \in {"stopGet", "mark"} /\ \A k \in Task : k # t => pc'[k] = pc[k]
      BY <2>2 DEF Goto, Put
    <2> QED
      BY <2>1, <2>3
  <1>35. ASSUME NEW t \in Task, MarkRevoked(t)  PROVE GoneInv'
    BY <1>35 DEF MarkRevoked, Move, Goto, Put, request, scratch, CloseRecord
  <1>36. ASSUME NEW t \in Task, ReadLiveRows(t)  PROVE GoneInv'
    BY <1>36 DEF ReadLiveRows, Put, Goto, OpenRows, store, request
  <1>37. ASSUME NEW t \in Task, SweepGet(t)  PROVE GoneInv'
    BY <1>37 DEF SweepGet, Put, store, request
  <1>38. ASSUME NEW t \in Task, SweepMark(t)  PROVE GoneInv'
    BY <1>38 DEF SweepMark, Put, CloseRecord, request
  <1>39. ASSUME NEW t \in Task, SweepEnd(t)  PROVE GoneInv'
    BY <1>39 DEF SweepEnd, Finish, Put, Goto, Drop, store
  <1>40. ASSUME NEW t \in Task, Arrive(t)  PROVE GoneInv'
    <2>1. UNCHANGED <<sess, info, known, todo, found, hazard>>
      BY <1>40, ArriveFrame
    <2>2. \A k \in Task : k # t => pc'[k] = pc[k] /\ sid'[k] = sid[k]
      BY <1>40, ArriveFrame
    <2>3. pc'[t] \notin {"stopMiss", "drop"}
      BY <1>40, ArriveFrame
    <2>4. pc'[t] = "stopGet" => sid'[t] \in known
      BY <1>40 DEF Arrive, BeginOpen, BeginTouch, BeginStop, BeginList, BeginUnpublish,
         BeginRemove, BeginSweep, Begin, Goto, Put
    <2>5. \A k \in Task : pc'[k] \in {"stopGet", "stopMiss", "drop"} => Born(sid'[k])
      BY <2>2, <2>3, <2>4
    <2>6. "revived" \notin hazard => \A k \in Task : pc'[k] \in {"stopMiss", "drop"} => sess[sid'[k]] = 0
      BY <2>2, <2>3
    <2> QED
      BY <2>1, <2>5, <2>6
  <1>41. ASSUME NEW m \in Media, Publish(m)  PROVE GoneInv'
    BY <1>41 DEF Publish, store, request, scratch
  <1>42. CASE Tick
    BY <1>42 DEF Tick, LockAged, Less, request, scratch
  <1>43. CASE Crash
    BY <1>43 DEF Crash, Note, store
  <1>44. CASE UNCHANGED vars
    BY <1>44 DEF vars, store, request, scratch
  <1> QED
    BY <1>1, <1>2, <1>3, <1>4, <1>5, <1>6, <1>7, <1>8, <1>9, <1>10, <1>11,
       <1>12, <1>13, <1>14, <1>15, <1>16, <1>17, <1>18, <1>19, <1>20, <1>21,
       <1>22, <1>23, <1>24, <1>25, <1>26, <1>27, <1>28, <1>29, <1>30, <1>31,
       <1>32, <1>33, <1>34, <1>35, <1>36, <1>37, <1>38, <1>39, <1>40, <1>41,
       <1>42, <1>43, <1>44 DEF Next, Serve, Open, List, Keep, Stop, Rows

LEMMA RecordStep ==
  ASSUME TypeInv, EndingInv, RecordInv, [Next]_vars
  PROVE  RecordInv'
  <1> USE DEF TypeInv, Shape, OwnedBy, OwnSidPc, AnySidPc, OpenPc, CreatingPc,
     SectionPc, ListingPc, InSection, Born, TypeOK, EndingInv, Ending,
     RecordInv, Recorded
  <1>1. ASSUME NEW t \in Task, Lock(t)  PROVE RecordInv'
    BY <1>1 DEF Lock, Move, Goto, Put, request, scratch
  <1>2. ASSUME NEW t \in Task, GiveUp(t)  PROVE RecordInv'
    BY <1>2 DEF GiveUp, Finish, Put, Goto, Drop, store
  <1>3. ASSUME NEW t \in Task, Unlock(t)  PROVE RecordInv'
    BY <1>3 DEF Unlock, Finish, Put, Goto, Drop
  <1>4. ASSUME NEW t \in Task, Abort(t)  PROVE RecordInv'
    <2>1. UNCHANGED <<sess, rec>> /\ hazard \subseteq hazard'
      BY <1>4 DEF Abort, Note, store
    <2>2. \A k \in Task : k # t => pc'[k] = pc[k] /\ sid'[k] = sid[k]
      BY <1>4 DEF Abort, Goto, Put, Drop
    <2>3. "orphaned" \notin hazard' => pc[t] # "createRec"
      BY <1>4 DEF Abort, Note
    <2> QED
      BY <2>1, <2>2, <2>3
  <1>5. ASSUME NEW t \in Task, ReadIds(t)  PROVE RecordInv'
    BY <1>5 DEF ReadIds, Put, Goto, store, request
  <1>6. ASSUME NEW t \in Task, ProbeLive(t)  PROVE RecordInv'
    BY <1>6 DEF ProbeLive, Put, store, request
  <1>7. ASSUME NEW t \in Task, ProbeDead(t)  PROVE RecordInv'
    BY <1>7 DEF ProbeDead, Put, Goto, store, request
  <1>8. ASSUME NEW t \in Task, DropDead(t)  PROVE RecordInv'
    BY <1>8 DEF DropDead, Put, Goto, DelKey, request
  <1>9. ASSUME NEW t \in Task, AssertSlot(t)  PROVE RecordInv'
    BY <1>9 DEF AssertSlot, Put, Goto, WriteLive, SetIndex, Note, Matching,
       SlotTaken, request
  <1>10. ASSUME NEW t \in Task, ReplyList(t)  PROVE RecordInv'
    BY <1>10 DEF ReplyList, Finish, Put, Goto, Drop, WriteLive, SetIndex, Note
  <1>11. ASSUME NEW t \in Task, StopListed(t)  PROVE RecordInv'
    BY <1>11 DEF StopListed, Put, Goto, WriteLive, SetIndex, Note, request
  <1>12. ASSUME NEW t \in Task, Create(t)  PROVE RecordInv'
    BY <1>12 DEF Create, Put, Goto, SetKey, request
  <1>13. ASSUME NEW t \in Task, OutOfIds(t)  PROVE RecordInv'
    BY <1>13 DEF OutOfIds, Move, Goto, Put, request, scratch, store
  <1>14. ASSUME NEW t \in Task, CreateRecord(t)  PROVE RecordInv'
    BY <1>14 DEF CreateRecord, Move, Goto, Put, request, scratch, OpenRecord
  <1>15. ASSUME NEW t \in Task, AddReadIds(t)  PROVE RecordInv'
    BY <1>15 DEF AddReadIds, Put, Goto, store, request
  <1>16. ASSUME NEW t \in Task, AddWrite(t)  PROVE RecordInv'
    BY <1>16 DEF AddWrite, Move, Goto, Put, request, scratch, SetIndex, Note
  <1>17. ASSUME NEW t \in Task, Replace(t)  PROVE RecordInv'
    BY <1>17 DEF Replace, Move, Goto, Put, request, scratch, Persist, Note,
       SetKey
  <1>18. ASSUME NEW t \in Task, ReplaceRecord(t)  PROVE RecordInv'
    BY <1>18 DEF ReplaceRecord, Move, Goto, Put, request, scratch, OpenRecord
  <1>19. ASSUME NEW t \in Task, Refuse(t)  PROVE RecordInv'
    BY <1>19 DEF Refuse, Finish, Put, Goto, Drop, Usable, store
  <1>20. ASSUME NEW t \in Task, Get(t)  PROVE RecordInv'
    BY <1>20 DEF Get, Move, Goto, Put, request, scratch, Usable, store
  <1>21. ASSUME NEW t \in Task, Playable(t)  PROVE RecordInv'
    BY <1>21 DEF Playable, Move, Goto, Put, request, scratch, store
  <1>22. ASSUME NEW t \in Task, GetAgain(t)  PROVE RecordInv'
    BY <1>22 DEF GetAgain, Move, Goto, Put, request, scratch, Usable, store
  <1>23. ASSUME NEW t \in Task, Touch(t)  PROVE RecordInv'
    BY <1>23 DEF Touch, Move, Goto, Put, request, scratch, Persist, Note,
       SetKey
  <1>24. ASSUME NEW t \in Task, TouchRecord(t)  PROVE RecordInv'
    BY <1>24 DEF TouchRecord, Finish, Put, Goto, Drop, OpenRecord
  <1>25. ASSUME NEW t \in Task, StopGet(t)  PROVE RecordInv'
    BY <1>25 DEF StopGet, Move, Goto, Put, request, scratch, Finish, Drop,
       Usable, store
  <1>26. ASSUME NEW t \in Task, StopMiss(t)  PROVE RecordInv'
    BY <1>26 DEF StopMiss, Move, Goto, Put, request, scratch, DelKey
  <1>27. ASSUME NEW t \in Task, StopDelete(t)  PROVE RecordInv'
    BY <1>27 DEF StopDelete, Move, Goto, Put, request, scratch, DelKey
  <1>28. ASSUME NEW t \in Task, StopReadIds(t)  PROVE RecordInv'
    BY <1>28 DEF StopReadIds, Put, Goto, store, request
  <1>29. ASSUME NEW t \in Task, StopWrite(t)  PROVE RecordInv'
    BY <1>29 DEF StopWrite, Put, Goto, SetIndex, Note, request
  <1>30. ASSUME NEW t \in Task, StopRecord(t)  PROVE RecordInv'
    BY <1>30 DEF StopRecord, Move, Goto, Put, request, scratch, CloseRecord
  <1>31. ASSUME NEW t \in Task, NextVictim(t)  PROVE RecordInv'
    BY <1>31 DEF NextVictim, Put, Goto, Revoking, store, request
  <1>32. ASSUME NEW t \in Task, EndLoop(t)  PROVE RecordInv'
    BY <1>32 DEF EndLoop, Finish, Put, Goto, Drop
  <1>33. ASSUME NEW t \in Task, ReadRows(t)  PROVE RecordInv'
    BY <1>33 DEF ReadRows, Put, Goto, Revoking, OpenRows, store, request
  <1>34. ASSUME NEW t \in Task, RevokeGet(t)  PROVE RecordInv'
    BY <1>34 DEF RevokeGet, Put, Goto, store, scratch
  <1>35. ASSUME NEW t \in Task, MarkRevoked(t)  PROVE RecordInv'
    BY <1>35 DEF MarkRevoked, Move, Goto, Put, request, scratch, CloseRecord
  <1>36. ASSUME NEW t \in Task, ReadLiveRows(t)  PROVE RecordInv'
    BY <1>36 DEF ReadLiveRows, Put, Goto, OpenRows, store, request
  <1>37. ASSUME NEW t \in Task, SweepGet(t)  PROVE RecordInv'
    BY <1>37 DEF SweepGet, Put, store, request
  <1>38. ASSUME NEW t \in Task, SweepMark(t)  PROVE RecordInv'
    BY <1>38 DEF SweepMark, Put, CloseRecord, request
  <1>39. ASSUME NEW t \in Task, SweepEnd(t)  PROVE RecordInv'
    BY <1>39 DEF SweepEnd, Finish, Put, Goto, Drop, store
  <1>40. ASSUME NEW t \in Task, Arrive(t)  PROVE RecordInv'
    BY <1>40, ArriveFrame
  <1>41. ASSUME NEW m \in Media, Publish(m)  PROVE RecordInv'
    BY <1>41 DEF Publish, store, request, scratch
  <1>42. CASE Tick
    BY <1>42 DEF Tick, LockAged, Less, request, scratch
  <1>43. CASE Crash
    <2>1. UNCHANGED <<sess, rec>> /\ Note("orphaned", \E t \in Task : pc[t] \in CreatingPc)
      BY <1>43 DEF Crash, store
    <2>2. "orphaned" \notin hazard' => hazard' = hazard /\ ~\E t \in Task : pc[t] = "createRec"
      BY <2>1 DEF Note, CreatingPc
    <2> QED
      BY <2>1, <2>2
  <1>44. CASE UNCHANGED vars
    BY <1>44 DEF vars, store, request, scratch
  <1> QED
    BY <1>1, <1>2, <1>3, <1>4, <1>5, <1>6, <1>7, <1>8, <1>9, <1>10, <1>11,
       <1>12, <1>13, <1>14, <1>15, <1>16, <1>17, <1>18, <1>19, <1>20, <1>21,
       <1>22, <1>23, <1>24, <1>25, <1>26, <1>27, <1>28, <1>29, <1>30, <1>31,
       <1>32, <1>33, <1>34, <1>35, <1>36, <1>37, <1>38, <1>39, <1>40, <1>41,
       <1>42, <1>43, <1>44 DEF Next, Serve, Open, List, Keep, Stop, Rows

LEMMA LockStep ==
  ASSUME TypeInv, LockInv, [Next]_vars
  PROVE  LockInv'
  <1> USE DEF TypeInv, Shape, OpenPc, ListingPc, ForUser, SectionPc,
     CreatingPc, TypeOK, InSection, LockInv
  <1>1. ASSUME NEW t \in Task, Lock(t)  PROVE LockInv'
    <2>1. pc[t] = "lock" /\ op[t] = "open" /\ user[t] \in User /\ lock[user[t]] = 0
      BY <1>1 DEF Lock
    <2>2. lock' = [lock EXCEPT ![user[t]] = LockTtl] /\ UNCHANGED <<user, op, hazard>>
      BY <1>1 DEF Lock, Move, request
    <2>3. \A k \in Task : k # t => pc'[k] = pc[k]
      BY <1>1 DEF Lock, Move, Goto, Put
    <2>4. ASSUME "lockLapsed" \notin hazard, NEW k \in Task, InSection(k)
          PROVE  user[k] # user[t]
      BY <2>1, <2>4
    <2>5. ASSUME "lockLapsed" \notin hazard, NEW k \in Task, InSection(k)'
          PROVE  k = t \/ InSection(k)
      BY <2>2, <2>3, <2>5
    <2>6. lock'[user[t]] > 0 /\ \A u \in User : u # user[t] => lock'[u] = lock[u]
      BY <2>1, <2>2, Ranges
    <2> QED
      BY <2>2, <2>4, <2>5, <2>6
  <1>2. ASSUME NEW t \in Task, GiveUp(t)  PROVE LockInv'
    BY <1>2 DEF GiveUp, Finish, Put, Goto, Drop, store
  <1>3. ASSUME NEW t \in Task, Unlock(t)  PROVE LockInv'
    BY <1>3 DEF Unlock, Finish, Put, Goto, Drop
  <1>4. ASSUME NEW t \in Task, Abort(t)  PROVE LockInv'
    BY <1>4 DEF Abort, Note, Goto, Put, Drop, store, request
  <1>5. ASSUME NEW t \in Task, ReadIds(t)  PROVE LockInv'
    BY <1>5 DEF ReadIds, Put, Goto, store, request
  <1>6. ASSUME NEW t \in Task, ProbeLive(t)  PROVE LockInv'
    BY <1>6 DEF ProbeLive, Put, store, request
  <1>7. ASSUME NEW t \in Task, ProbeDead(t)  PROVE LockInv'
    BY <1>7 DEF ProbeDead, Put, Goto, store, request
  <1>8. ASSUME NEW t \in Task, DropDead(t)  PROVE LockInv'
    BY <1>8 DEF DropDead, Put, Goto, DelKey, request
  <1>9. ASSUME NEW t \in Task, AssertSlot(t)  PROVE LockInv'
    BY <1>9 DEF AssertSlot, Put, Goto, WriteLive, SetIndex, Note, Matching,
       SlotTaken, request
  <1>10. ASSUME NEW t \in Task, ReplyList(t)  PROVE LockInv'
    BY <1>10 DEF ReplyList, Finish, Put, Goto, Drop, WriteLive, SetIndex, Note
  <1>11. ASSUME NEW t \in Task, StopListed(t)  PROVE LockInv'
    BY <1>11 DEF StopListed, Put, Goto, WriteLive, SetIndex, Note, request
  <1>12. ASSUME NEW t \in Task, Create(t)  PROVE LockInv'
    BY <1>12 DEF Create, Put, Goto, SetKey, request
  <1>13. ASSUME NEW t \in Task, OutOfIds(t)  PROVE LockInv'
    BY <1>13 DEF OutOfIds, Move, Goto, Put, request, scratch, store
  <1>14. ASSUME NEW t \in Task, CreateRecord(t)  PROVE LockInv'
    BY <1>14 DEF CreateRecord, Move, Goto, Put, request, scratch, OpenRecord
  <1>15. ASSUME NEW t \in Task, AddReadIds(t)  PROVE LockInv'
    BY <1>15 DEF AddReadIds, Put, Goto, store, request
  <1>16. ASSUME NEW t \in Task, AddWrite(t)  PROVE LockInv'
    BY <1>16 DEF AddWrite, Move, Goto, Put, request, scratch, SetIndex, Note
  <1>17. ASSUME NEW t \in Task, Replace(t)  PROVE LockInv'
    BY <1>17 DEF Replace, Move, Goto, Put, request, scratch, Persist, Note,
       SetKey
  <1>18. ASSUME NEW t \in Task, ReplaceRecord(t)  PROVE LockInv'
    BY <1>18 DEF ReplaceRecord, Move, Goto, Put, request, scratch, OpenRecord
  <1>19. ASSUME NEW t \in Task, Refuse(t)  PROVE LockInv'
    BY <1>19 DEF Refuse, Finish, Put, Goto, Drop, Usable, store
  <1>20. ASSUME NEW t \in Task, Get(t)  PROVE LockInv'
    BY <1>20 DEF Get, Move, Goto, Put, request, scratch, Usable, store
  <1>21. ASSUME NEW t \in Task, Playable(t)  PROVE LockInv'
    BY <1>21 DEF Playable, Move, Goto, Put, request, scratch, store
  <1>22. ASSUME NEW t \in Task, GetAgain(t)  PROVE LockInv'
    BY <1>22 DEF GetAgain, Move, Goto, Put, request, scratch, Usable, store
  <1>23. ASSUME NEW t \in Task, Touch(t)  PROVE LockInv'
    BY <1>23 DEF Touch, Move, Goto, Put, request, scratch, Persist, Note,
       SetKey
  <1>24. ASSUME NEW t \in Task, TouchRecord(t)  PROVE LockInv'
    BY <1>24 DEF TouchRecord, Finish, Put, Goto, Drop, OpenRecord
  <1>25. ASSUME NEW t \in Task, StopGet(t)  PROVE LockInv'
    <2>1. UNCHANGED <<lock, hazard>> /\ pc[t] = "stopGet"
      BY <1>25 DEF StopGet, store
    <2>2. CASE Finish(t)
      BY <2>1, <2>2, NoneNames DEF Finish, Goto, Put, OpName
    <2>3. ASSUME NEW l \in {"stopMiss", "stopDel"}, Move(t, l)  PROVE LockInv'
      BY <2>1, <2>3 DEF Move, Goto, Put, request
    <2> QED
      BY <1>25, <2>2, <2>3 DEF StopGet
  <1>26. ASSUME NEW t \in Task, StopMiss(t)  PROVE LockInv'
    BY <1>26 DEF StopMiss, Move, Goto, Put, request, scratch, DelKey
  <1>27. ASSUME NEW t \in Task, StopDelete(t)  PROVE LockInv'
    BY <1>27 DEF StopDelete, Move, Goto, Put, request, scratch, DelKey
  <1>28. ASSUME NEW t \in Task, StopReadIds(t)  PROVE LockInv'
    BY <1>28 DEF StopReadIds, Put, Goto, store, request
  <1>29. ASSUME NEW t \in Task, StopWrite(t)  PROVE LockInv'
    BY <1>29 DEF StopWrite, Put, Goto, SetIndex, Note, request
  <1>30. ASSUME NEW t \in Task, StopRecord(t)  PROVE LockInv'
    BY <1>30 DEF StopRecord, Move, Goto, Put, request, scratch, CloseRecord
  <1>31. ASSUME NEW t \in Task, NextVictim(t)  PROVE LockInv'
    BY <1>31 DEF NextVictim, Put, Goto, Revoking, store, request
  <1>32. ASSUME NEW t \in Task, EndLoop(t)  PROVE LockInv'
    BY <1>32 DEF EndLoop, Finish, Put, Goto, Drop
  <1>33. ASSUME NEW t \in Task, ReadRows(t)  PROVE LockInv'
    BY <1>33 DEF ReadRows, Put, Goto, Revoking, OpenRows, store, request
  <1>34. ASSUME NEW t \in Task, RevokeGet(t)  PROVE LockInv'
    BY <1>34, SMTT(40) DEF RevokeGet, Put, Goto, store, scratch
  <1>35. ASSUME NEW t \in Task, MarkRevoked(t)  PROVE LockInv'
    BY <1>35 DEF MarkRevoked, Move, Goto, Put, request, scratch, CloseRecord
  <1>36. ASSUME NEW t \in Task, ReadLiveRows(t)  PROVE LockInv'
    BY <1>36 DEF ReadLiveRows, Put, Goto, OpenRows, store, request
  <1>37. ASSUME NEW t \in Task, SweepGet(t)  PROVE LockInv'
    BY <1>37 DEF SweepGet, Put, store, request
  <1>38. ASSUME NEW t \in Task, SweepMark(t)  PROVE LockInv'
    BY <1>38 DEF SweepMark, Put, CloseRecord, request
  <1>39. ASSUME NEW t \in Task, SweepEnd(t)  PROVE LockInv'
    BY <1>39 DEF SweepEnd, Finish, Put, Goto, Drop, store
  <1>40. ASSUME NEW t \in Task, Arrive(t)  PROVE LockInv'
    BY <1>40, ArriveFrame, SMTT(40)
  <1>41. ASSUME NEW m \in Media, Publish(m)  PROVE LockInv'
    BY <1>41 DEF Publish, store, request, scratch
  <1>42. CASE Tick
    BY <1>42 DEF Tick, LockAged, Less, request, scratch
  <1>43. CASE Crash
    BY <1>43 DEF Crash, Note, store
  <1>44. CASE UNCHANGED vars
    BY <1>44 DEF vars, store, request, scratch
  <1> QED
    BY <1>1, <1>2, <1>3, <1>4, <1>5, <1>6, <1>7, <1>8, <1>9, <1>10, <1>11,
       <1>12, <1>13, <1>14, <1>15, <1>16, <1>17, <1>18, <1>19, <1>20, <1>21,
       <1>22, <1>23, <1>24, <1>25, <1>26, <1>27, <1>28, <1>29, <1>30, <1>31,
       <1>32, <1>33, <1>34, <1>35, <1>36, <1>37, <1>38, <1>39, <1>40, <1>41,
       <1>42, <1>43, <1>44 DEF Next, Serve, Open, List, Keep, Stop, Rows

\* An expired list is an empty list.
IndexInv == \A u \in User : indexLeft[u] = 0 => index[u] = {}

\* A session of the list a task read that it neither kept nor has yet to look
\* at is dead.
ProbedInv ==
    hazard = {} =>
        \A t \in Task : pc[t] \in {"probe", "drop"} =>
            \A s \in ids[t] : s \in found[t] \/ s \in todo[t] \/ sess[s] = 0

Counted(s) ==
    \/ s \in index[info[s].user]
    \/ \E t \in Task : sid[t] = s /\ pc[t] \in CreatingPc

CountInv == hazard = {} => \A s \in Sid : sess[s] > 0 => Counted(s)

\* No window opened: the condition that would have noted one is false.
LEMMA NoWindow ==
  ASSUME NEW h, NEW c \in BOOLEAN, Note(h, c), hazard' = {}
  PROVE  hazard = {} /\ ~c
  BY DEF Note

LEMMA AboveOne == ASSUME NEW n \in Nat, n # 0, n # 1  PROVE ~(n <= 1)
  OBVIOUS

LEMMA TickLapse ==
  ASSUME Tick, hazard' = {}
  PROVE  hazard = {} /\ \A u \in User : \A s \in index[u] : ~(indexLeft[u] = 1 /\ sess[s] > 1)
  <1>1. hazard = {}
    BY DEF Tick
  <1>2. ASSUME NEW u \in User, NEW s \in index[u], indexLeft[u] = 1, sess[s] > 1
        PROVE  "indexLapsed" \in hazard'
    BY <1>2 DEF Tick
  <1> QED
    BY <1>1, <1>2

LEMMA PersistAlive ==
  ASSUME TypeOK, NEW s \in Sid, Persist(s), hazard' = {}
  PROVE  hazard = {} /\ \A r \in Sid : sess[r] = 0 <=> sess'[r] = 0
  <1>1. hazard = {} /\ sess[s] # 0
    BY NoWindow DEF Persist
  <1>2. sess' = [sess EXCEPT ![s] = SessionTtl]
    BY DEF Persist, SetKey
  <1>3. SessionTtl # 0
    BY PlaybackAssumption
  <1> QED
    BY <1>1, <1>2, <1>3 DEF TypeOK

LEMMA ListWritten ==
  ASSUME TypeOK, NEW t \in Task, user[t] \in User, NEW S, SetIndex(t, S), hazard' = {}
  PROVE  /\ hazard = {}
         /\ index'[user[t]] = S
         /\ \A u \in User : u # user[t] => index'[u] = index[u]
         /\ \A s \in index[user[t]] : s \in ids[t] \/ ~(sess[s] > 0)
  <1>1. Note("overwritten", \E s \in index[user[t]] \ ids[t] : sess[s] > 0)
    BY DEF SetIndex
  <1>2. hazard = {} /\ ~(\E s \in index[user[t]] \ ids[t] : sess[s] > 0)
    BY <1>1, NoWindow
  <1>3. index' = [index EXCEPT ![user[t]] = S]
    BY DEF SetIndex
  <1> QED
    BY <1>2, <1>3 DEF TypeOK

LEMMA IndexStep ==
  ASSUME TypeOK, IndexInv, [Next]_vars
  PROVE  IndexInv'
  <1> USE Ranges DEF TypeOK, IndexInv
  <1>1. ASSUME NEW t \in Task, Lock(t)  PROVE IndexInv'
    BY <1>1 DEF Lock, Move, Goto, Put, request, scratch
  <1>2. ASSUME NEW t \in Task, GiveUp(t)  PROVE IndexInv'
    BY <1>2 DEF GiveUp, Finish, Put, Goto, Drop, store
  <1>3. ASSUME NEW t \in Task, Unlock(t)  PROVE IndexInv'
    BY <1>3 DEF Unlock, Finish, Put, Goto, Drop
  <1>4. ASSUME NEW t \in Task, Abort(t)  PROVE IndexInv'
    BY <1>4 DEF Abort, Note, Goto, Put, Drop, store, request
  <1>5. ASSUME NEW t \in Task, ReadIds(t)  PROVE IndexInv'
    BY <1>5 DEF ReadIds, Put, Goto, store, request
  <1>6. ASSUME NEW t \in Task, ProbeLive(t)  PROVE IndexInv'
    BY <1>6 DEF ProbeLive, Put, store, request
  <1>7. ASSUME NEW t \in Task, ProbeDead(t)  PROVE IndexInv'
    BY <1>7 DEF ProbeDead, Put, Goto, store, request
  <1>8. ASSUME NEW t \in Task, DropDead(t)  PROVE IndexInv'
    BY <1>8 DEF DropDead, Put, Goto, DelKey, request
  <1>9. ASSUME NEW t \in Task, AssertSlot(t)  PROVE IndexInv'
    BY <1>9 DEF AssertSlot, Put, Goto, WriteLive, SetIndex, Note, Matching,
       SlotTaken, request
  <1>10. ASSUME NEW t \in Task, ReplyList(t)  PROVE IndexInv'
    BY <1>10 DEF ReplyList, Finish, Put, Goto, Drop, WriteLive, SetIndex, Note
  <1>11. ASSUME NEW t \in Task, StopListed(t)  PROVE IndexInv'
    BY <1>11 DEF StopListed, Put, Goto, WriteLive, SetIndex, Note, request
  <1>12. ASSUME NEW t \in Task, Create(t)  PROVE IndexInv'
    BY <1>12 DEF Create, Put, Goto, SetKey, request
  <1>13. ASSUME NEW t \in Task, OutOfIds(t)  PROVE IndexInv'
    BY <1>13 DEF OutOfIds, Move, Goto, Put, request, scratch, store
  <1>14. ASSUME NEW t \in Task, CreateRecord(t)  PROVE IndexInv'
    BY <1>14 DEF CreateRecord, Move, Goto, Put, request, scratch, OpenRecord
  <1>15. ASSUME NEW t \in Task, AddReadIds(t)  PROVE IndexInv'
    BY <1>15 DEF AddReadIds, Put, Goto, store, request
  <1>16. ASSUME NEW t \in Task, AddWrite(t)  PROVE IndexInv'
    BY <1>16 DEF AddWrite, Move, Goto, Put, request, scratch, SetIndex, Note
  <1>17. ASSUME NEW t \in Task, Replace(t)  PROVE IndexInv'
    BY <1>17 DEF Replace, Move, Goto, Put, request, scratch, Persist, Note,
       SetKey
  <1>18. ASSUME NEW t \in Task, ReplaceRecord(t)  PROVE IndexInv'
    BY <1>18 DEF ReplaceRecord, Move, Goto, Put, request, scratch, OpenRecord
  <1>19. ASSUME NEW t \in Task, Refuse(t)  PROVE IndexInv'
    BY <1>19 DEF Refuse, Finish, Put, Goto, Drop, Usable, store
  <1>20. ASSUME NEW t \in Task, Get(t)  PROVE IndexInv'
    BY <1>20 DEF Get, Move, Goto, Put, request, scratch, Usable, store
  <1>21. ASSUME NEW t \in Task, Playable(t)  PROVE IndexInv'
    BY <1>21 DEF Playable, Move, Goto, Put, request, scratch, store
  <1>22. ASSUME NEW t \in Task, GetAgain(t)  PROVE IndexInv'
    BY <1>22 DEF GetAgain, Move, Goto, Put, request, scratch, Usable, store
  <1>23. ASSUME NEW t \in Task, Touch(t)  PROVE IndexInv'
    BY <1>23 DEF Touch, Move, Goto, Put, request, scratch, Persist, Note,
       SetKey
  <1>24. ASSUME NEW t \in Task, TouchRecord(t)  PROVE IndexInv'
    BY <1>24 DEF TouchRecord, Finish, Put, Goto, Drop, OpenRecord
  <1>25. ASSUME NEW t \in Task, StopGet(t)  PROVE IndexInv'
    BY <1>25 DEF StopGet, Move, Goto, Put, request, scratch, Finish, Drop,
       Usable, store
  <1>26. ASSUME NEW t \in Task, StopMiss(t)  PROVE IndexInv'
    BY <1>26 DEF StopMiss, Move, Goto, Put, request, scratch, DelKey
  <1>27. ASSUME NEW t \in Task, StopDelete(t)  PROVE IndexInv'
    BY <1>27 DEF StopDelete, Move, Goto, Put, request, scratch, DelKey
  <1>28. ASSUME NEW t \in Task, StopReadIds(t)  PROVE IndexInv'
    BY <1>28 DEF StopReadIds, Put, Goto, store, request
  <1>29. ASSUME NEW t \in Task, StopWrite(t)  PROVE IndexInv'
    BY <1>29 DEF StopWrite, Put, Goto, SetIndex, Note, request
  <1>30. ASSUME NEW t \in Task, StopRecord(t)  PROVE IndexInv'
    BY <1>30 DEF StopRecord, Move, Goto, Put, request, scratch, CloseRecord
  <1>31. ASSUME NEW t \in Task, NextVictim(t)  PROVE IndexInv'
    BY <1>31 DEF NextVictim, Put, Goto, Revoking, store, request
  <1>32. ASSUME NEW t \in Task, EndLoop(t)  PROVE IndexInv'
    BY <1>32 DEF EndLoop, Finish, Put, Goto, Drop
  <1>33. ASSUME NEW t \in Task, ReadRows(t)  PROVE IndexInv'
    BY <1>33 DEF ReadRows, Put, Goto, Revoking, OpenRows, store, request
  <1>34. ASSUME NEW t \in Task, RevokeGet(t)  PROVE IndexInv'
    BY <1>34 DEF RevokeGet, Put, Goto, store, scratch
  <1>35. ASSUME NEW t \in Task, MarkRevoked(t)  PROVE IndexInv'
    BY <1>35 DEF MarkRevoked, Move, Goto, Put, request, scratch, CloseRecord
  <1>36. ASSUME NEW t \in Task, ReadLiveRows(t)  PROVE IndexInv'
    BY <1>36 DEF ReadLiveRows, Put, Goto, OpenRows, store, request
  <1>37. ASSUME NEW t \in Task, SweepGet(t)  PROVE IndexInv'
    BY <1>37 DEF SweepGet, Put, store, request
  <1>38. ASSUME NEW t \in Task, SweepMark(t)  PROVE IndexInv'
    BY <1>38 DEF SweepMark, Put, CloseRecord, request
  <1>39. ASSUME NEW t \in Task, SweepEnd(t)  PROVE IndexInv'
    BY <1>39 DEF SweepEnd, Finish, Put, Goto, Drop, store
  <1>40. ASSUME NEW t \in Task, Arrive(t)  PROVE IndexInv'
    BY <1>40, ArriveFrame
  <1>41. ASSUME NEW m \in Media, Publish(m)  PROVE IndexInv'
    BY <1>41 DEF Publish, store, request, scratch
  <1>42. CASE Tick
    <2>1. ASSUME NEW u \in User, indexLeft'[u] = 0  PROVE index'[u] = {}
      <3>1. indexLeft[u] \in Nat
        BY Ranges
      <3>2. indexLeft[u] <= 1
        BY <1>42, <2>1, <3>1 DEF Tick, Less
      <3> QED
        BY <1>42, <3>2 DEF Tick
    <2> QED
      BY <2>1
  <1>43. CASE Crash
    BY <1>43 DEF Crash, Note, store
  <1>44. CASE UNCHANGED vars
    BY <1>44 DEF vars, store, request, scratch
  <1> QED
    BY <1>1, <1>2, <1>3, <1>4, <1>5, <1>6, <1>7, <1>8, <1>9, <1>10, <1>11,
       <1>12, <1>13, <1>14, <1>15, <1>16, <1>17, <1>18, <1>19, <1>20, <1>21,
       <1>22, <1>23, <1>24, <1>25, <1>26, <1>27, <1>28, <1>29, <1>30, <1>31,
       <1>32, <1>33, <1>34, <1>35, <1>36, <1>37, <1>38, <1>39, <1>40, <1>41,
       <1>42, <1>43, <1>44 DEF Next, Serve, Open, List, Keep, Stop, Rows

LEMMA ProbedStep ==
  ASSUME TypeInv, ProbedInv, [Next]_vars
  PROVE  ProbedInv'
  <1> USE DEF TypeInv, Shape, Lists, OwnedBy, OwnSidPc, AnySidPc, ReadPc,
     Born, TypeOK, ProbedInv
  <1>1. ASSUME NEW t \in Task, Lock(t)  PROVE ProbedInv'
    BY <1>1 DEF Lock, Move, Goto, Put, request, scratch
  <1>2. ASSUME NEW t \in Task, GiveUp(t)  PROVE ProbedInv'
    BY <1>2 DEF GiveUp, Finish, Put, Goto, Drop, store
  <1>3. ASSUME NEW t \in Task, Unlock(t)  PROVE ProbedInv'
    BY <1>3 DEF Unlock, Finish, Put, Goto, Drop
  <1>4. ASSUME NEW t \in Task, Abort(t)  PROVE ProbedInv'
    BY <1>4 DEF Abort, Note, Goto, Put, Drop, store, request
  <1>5. ASSUME NEW t \in Task, ReadIds(t)  PROVE ProbedInv'
    BY <1>5 DEF ReadIds, Put, Goto, store, request
  <1>6. ASSUME NEW t \in Task, ProbeLive(t)  PROVE ProbedInv'
    BY <1>6 DEF ProbeLive, Put, store, request
  <1>7. ASSUME NEW t \in Task, ProbeDead(t)  PROVE ProbedInv'
    BY <1>7 DEF ProbeDead, Put, Goto, store, request
  <1>8. ASSUME NEW t \in Task, DropDead(t)  PROVE ProbedInv'
    BY <1>8 DEF DropDead, Put, Goto, DelKey, request
  <1>9. ASSUME NEW t \in Task, AssertSlot(t)  PROVE ProbedInv'
    BY <1>9 DEF AssertSlot, Put, Goto, WriteLive, SetIndex, Note, Matching,
       SlotTaken, request
  <1>10. ASSUME NEW t \in Task, ReplyList(t)  PROVE ProbedInv'
    BY <1>10 DEF ReplyList, Finish, Put, Goto, Drop, WriteLive, SetIndex, Note
  <1>11. ASSUME NEW t \in Task, StopListed(t)  PROVE ProbedInv'
    BY <1>11 DEF StopListed, Put, Goto, WriteLive, SetIndex, Note, request
  <1>12. ASSUME NEW t \in Task, Create(t)  PROVE ProbedInv'
    BY <1>12 DEF Create, Put, Goto, SetKey, request
  <1>13. ASSUME NEW t \in Task, OutOfIds(t)  PROVE ProbedInv'
    BY <1>13 DEF OutOfIds, Move, Goto, Put, request, scratch, store
  <1>14. ASSUME NEW t \in Task, CreateRecord(t)  PROVE ProbedInv'
    BY <1>14 DEF CreateRecord, Move, Goto, Put, request, scratch, OpenRecord
  <1>15. ASSUME NEW t \in Task, AddReadIds(t)  PROVE ProbedInv'
    BY <1>15 DEF AddReadIds, Put, Goto, store, request
  <1>16. ASSUME NEW t \in Task, AddWrite(t)  PROVE ProbedInv'
    BY <1>16 DEF AddWrite, Move, Goto, Put, request, scratch, SetIndex, Note
  <1>17. ASSUME NEW t \in Task, Replace(t)  PROVE ProbedInv'
    <2>1. sid[t] \in Sid /\ Persist(sid[t])
      BY <1>17 DEF Replace
    <2>2. hazard' = {} => hazard = {} /\ \A r \in Sid : sess[r] = 0 <=> sess'[r] = 0
      BY <2>1, PersistAlive
    <2>3. UNCHANGED <<ids, todo, found, index, info, sid>>
      BY <1>17 DEF Replace, Move, scratch
    <2>4. pc[t] \notin {"probe", "drop"} \cup CreatingPc /\ pc'[t] \notin {"probe", "drop"}
      BY <1>17 DEF Replace, Move, Goto, Put, CreatingPc
    <2>5. \A k \in Task : k # t => pc'[k] = pc[k]
      BY <1>17 DEF Replace, Move, Goto, Put
    <2> QED
      BY <2>2, <2>3, <2>4, <2>5
  <1>18. ASSUME NEW t \in Task, ReplaceRecord(t)  PROVE ProbedInv'
    BY <1>18 DEF ReplaceRecord, Move, Goto, Put, request, scratch, OpenRecord
  <1>19. ASSUME NEW t \in Task, Refuse(t)  PROVE ProbedInv'
    BY <1>19 DEF Refuse, Finish, Put, Goto, Drop, Usable, store
  <1>20. ASSUME NEW t \in Task, Get(t)  PROVE ProbedInv'
    BY <1>20 DEF Get, Move, Goto, Put, request, scratch, Usable, store
  <1>21. ASSUME NEW t \in Task, Playable(t)  PROVE ProbedInv'
    BY <1>21 DEF Playable, Move, Goto, Put, request, scratch, store
  <1>22. ASSUME NEW t \in Task, GetAgain(t)  PROVE ProbedInv'
    BY <1>22 DEF GetAgain, Move, Goto, Put, request, scratch, Usable, store
  <1>23. ASSUME NEW t \in Task, Touch(t)  PROVE ProbedInv'
    <2>1. sid[t] \in Sid /\ Persist(sid[t])
      BY <1>23 DEF Touch
    <2>2. hazard' = {} => hazard = {} /\ \A r \in Sid : sess[r] = 0 <=> sess'[r] = 0
      BY <2>1, PersistAlive
    <2>3. UNCHANGED <<ids, todo, found, index, info, sid>>
      BY <1>23 DEF Touch, Move, scratch
    <2>4. pc[t] \notin {"probe", "drop"} \cup CreatingPc /\ pc'[t] \notin {"probe", "drop"}
      BY <1>23 DEF Touch, Move, Goto, Put, CreatingPc
    <2>5. \A k \in Task : k # t => pc'[k] = pc[k]
      BY <1>23 DEF Touch, Move, Goto, Put
    <2> QED
      BY <2>2, <2>3, <2>4, <2>5
  <1>24. ASSUME NEW t \in Task, TouchRecord(t)  PROVE ProbedInv'
    BY <1>24 DEF TouchRecord, Finish, Put, Goto, Drop, OpenRecord
  <1>25. ASSUME NEW t \in Task, StopGet(t)  PROVE ProbedInv'
    BY <1>25 DEF StopGet, Move, Goto, Put, request, scratch, Finish, Drop,
       Usable, store
  <1>26. ASSUME NEW t \in Task, StopMiss(t)  PROVE ProbedInv'
    BY <1>26 DEF StopMiss, Move, Goto, Put, request, scratch, DelKey
  <1>27. ASSUME NEW t \in Task, StopDelete(t)  PROVE ProbedInv'
    BY <1>27 DEF StopDelete, Move, Goto, Put, request, scratch, DelKey
  <1>28. ASSUME NEW t \in Task, StopReadIds(t)  PROVE ProbedInv'
    BY <1>28 DEF StopReadIds, Put, Goto, store, request
  <1>29. ASSUME NEW t \in Task, StopWrite(t)  PROVE ProbedInv'
    BY <1>29 DEF StopWrite, Put, Goto, SetIndex, Note, request
  <1>30. ASSUME NEW t \in Task, StopRecord(t)  PROVE ProbedInv'
    BY <1>30 DEF StopRecord, Move, Goto, Put, request, scratch, CloseRecord
  <1>31. ASSUME NEW t \in Task, NextVictim(t)  PROVE ProbedInv'
    BY <1>31 DEF NextVictim, Put, Goto, Revoking, store, request
  <1>32. ASSUME NEW t \in Task, EndLoop(t)  PROVE ProbedInv'
    BY <1>32 DEF EndLoop, Finish, Put, Goto, Drop
  <1>33. ASSUME NEW t \in Task, ReadRows(t)  PROVE ProbedInv'
    BY <1>33 DEF ReadRows, Put, Goto, Revoking, OpenRows, store, request
  <1>34. ASSUME NEW t \in Task, RevokeGet(t)  PROVE ProbedInv'
    BY <1>34 DEF RevokeGet, Put, Goto, store, scratch
  <1>35. ASSUME NEW t \in Task, MarkRevoked(t)  PROVE ProbedInv'
    BY <1>35 DEF MarkRevoked, Move, Goto, Put, request, scratch, CloseRecord
  <1>36. ASSUME NEW t \in Task, ReadLiveRows(t)  PROVE ProbedInv'
    BY <1>36 DEF ReadLiveRows, Put, Goto, OpenRows, store, request
  <1>37. ASSUME NEW t \in Task, SweepGet(t)  PROVE ProbedInv'
    BY <1>37 DEF SweepGet, Put, store, request
  <1>38. ASSUME NEW t \in Task, SweepMark(t)  PROVE ProbedInv'
    BY <1>38 DEF SweepMark, Put, CloseRecord, request
  <1>39. ASSUME NEW t \in Task, SweepEnd(t)  PROVE ProbedInv'
    BY <1>39 DEF SweepEnd, Finish, Put, Goto, Drop, store
  <1>40. ASSUME NEW t \in Task, Arrive(t)  PROVE ProbedInv'
    BY <1>40, ArriveFrame
  <1>41. ASSUME NEW m \in Media, Publish(m)  PROVE ProbedInv'
    BY <1>41 DEF Publish, store, request, scratch
  <1>42. CASE Tick
    BY <1>42 DEF Tick, LockAged, Less, request, scratch
  <1>43. CASE Crash
    BY <1>43 DEF Crash, Note, store
  <1>44. CASE UNCHANGED vars
    BY <1>44 DEF vars, store, request, scratch
  <1> QED
    BY <1>1, <1>2, <1>3, <1>4, <1>5, <1>6, <1>7, <1>8, <1>9, <1>10, <1>11,
       <1>12, <1>13, <1>14, <1>15, <1>16, <1>17, <1>18, <1>19, <1>20, <1>21,
       <1>22, <1>23, <1>24, <1>25, <1>26, <1>27, <1>28, <1>29, <1>30, <1>31,
       <1>32, <1>33, <1>34, <1>35, <1>36, <1>37, <1>38, <1>39, <1>40, <1>41,
       <1>42, <1>43, <1>44 DEF Next, Serve, Open, List, Keep, Stop, Rows

\* listActive, done with its list, writes back every session it counts.
LEMMA KeptCounted ==
  ASSUME TypeInv, ProbedInv, CountInv, NEW t \in Task, WriteLive(t),
         user[t] \in User, UNCHANGED <<sess, info>>,
         \A k \in Task : k # t => pc'[k] = pc[k] /\ sid'[k] = sid[k]
  PROVE  CountInv'
  <1> SUFFICES ASSUME hazard' = {}, NEW s \in Sid, sess[s] > 0
               PROVE  Counted(s)'
    BY DEF CountInv
  <1>1. pc[t] = "probe" /\ todo[t] = {} /\ SetIndex(t, found[t])
    BY DEF WriteLive
  <1>2. /\ hazard = {} /\ index'[user[t]] = found[t]
        /\ \A u \in User : u # user[t] => index'[u] = index[u]
        /\ \A r \in index[user[t]] : r \in ids[t] \/ ~(sess[r] > 0)
    BY <1>1, ListWritten DEF TypeInv
  <1>3. Counted(s)
    BY <1>2 DEF CountInv
  <1>4. ASSUME NEW k \in Task, sid[k] = s, pc[k] \in CreatingPc  PROVE Counted(s)'
    <2>1. k # t
      BY <1>1, <1>4 DEF CreatingPc
    <2> QED
      BY <1>4, <2>1 DEF Counted
  <1>5. CASE s \in index[info[s].user]
    <2>1. info[s].user \in User
      BY OwnerType DEF TypeInv, Lists
    <2>2. CASE info[s].user = user[t]
      <3>1. s \in ids[t]
        BY <1>2, <1>5, <2>2
      <3>2. s \in found[t]
        BY <1>1, <1>2, <3>1 DEF ProbedInv, TypeInv, TypeOK
      <3> QED
        BY <1>2, <2>2, <3>2 DEF Counted
    <2>3. CASE info[s].user # user[t]
      BY <1>2, <1>5, <2>1, <2>3 DEF Counted
    <2> QED
      BY <2>2, <2>3
  <1> QED
    BY <1>3, <1>4, <1>5 DEF Counted

LEMMA CountStep ==
  ASSUME TypeInv, IndexInv, EndingInv, ProbedInv, CountInv, [Next]_vars
  PROVE  CountInv'
  <1> USE DEF TypeInv, Shape, Lists, OwnedBy, OwnSidPc, ReadPc, Born, TypeOK,
     CountInv, Counted, CreatingPc
  <1>1. ASSUME NEW t \in Task, Lock(t)  PROVE CountInv'
    BY <1>1 DEF Lock, Move, Goto, Put, request, scratch
  <1>2. ASSUME NEW t \in Task, GiveUp(t)  PROVE CountInv'
    BY <1>2 DEF GiveUp, Finish, Put, Goto, Drop, store
  <1>3. ASSUME NEW t \in Task, Unlock(t)  PROVE CountInv'
    BY <1>3 DEF Unlock, Finish, Put, Goto, Drop
  <1>4. ASSUME NEW t \in Task, Abort(t)  PROVE CountInv'
    <2>1. UNCHANGED <<sess, info, index>> /\ Note("orphaned", pc[t] \in CreatingPc)
      BY <1>4 DEF Abort, store
    <2>2. \A k \in Task : k # t => pc'[k] = pc[k] /\ sid'[k] = sid[k]
      BY <1>4 DEF Abort, Goto, Drop, Put
    <2>3. hazard' = {} => hazard = {} /\ pc[t] \notin CreatingPc
      BY <2>1 DEF Note
    <2> QED
      BY <2>1, <2>2, <2>3
  <1>5. ASSUME NEW t \in Task, ReadIds(t)  PROVE CountInv'
    BY <1>5 DEF ReadIds, Put, Goto, store, request
  <1>6. ASSUME NEW t \in Task, ProbeLive(t)  PROVE CountInv'
    BY <1>6 DEF ProbeLive, Put, store, request
  <1>7. ASSUME NEW t \in Task, ProbeDead(t)  PROVE CountInv'
    BY <1>7 DEF ProbeDead, Put, Goto, store, request
  <1>8. ASSUME NEW t \in Task, DropDead(t)  PROVE CountInv'
    BY <1>8 DEF DropDead, Put, Goto, DelKey, request
  <1>9. ASSUME NEW t \in Task, AssertSlot(t)  PROVE CountInv'
    <2>1. WriteLive(t) /\ user[t] \in User
      BY <1>9 DEF AssertSlot, ForUser
    <2>2. UNCHANGED <<sess, info>>
      BY <1>9 DEF AssertSlot, WriteLive
    <2>3. \A k \in Task : k # t => pc'[k] = pc[k] /\ sid'[k] = sid[k]
      BY <1>9 DEF AssertSlot, Finish, Drop, Goto, Put
    <2> QED
      BY <2>1, <2>2, <2>3, KeptCounted
  <1>10. ASSUME NEW t \in Task, ReplyList(t)  PROVE CountInv'
    <2>1. WriteLive(t) /\ user[t] \in User
      BY <1>10 DEF ReplyList, ForUser
    <2>2. UNCHANGED <<sess, info>>
      BY <1>10 DEF ReplyList, WriteLive
    <2>3. \A k \in Task : k # t => pc'[k] = pc[k] /\ sid'[k] = sid[k]
      BY <1>10 DEF ReplyList, Finish, Drop, Goto, Put
    <2> QED
      BY <2>1, <2>2, <2>3, KeptCounted
  <1>11. ASSUME NEW t \in Task, StopListed(t)  PROVE CountInv'
    <2>1. WriteLive(t) /\ user[t] \in User
      BY <1>11 DEF StopListed, ForUser
    <2>2. UNCHANGED <<sess, info>>
      BY <1>11 DEF StopListed, WriteLive
    <2>3. \A k \in Task : k # t => pc'[k] = pc[k] /\ sid'[k] = sid[k]
      BY <1>11 DEF StopListed, Finish, Drop, Goto, Put
    <2> QED
      BY <2>1, <2>2, <2>3, KeptCounted
  <1>12. ASSUME NEW t \in Task, Create(t)  PROVE CountInv'
    BY <1>12 DEF Create, Put, Goto, SetKey, request
  <1>13. ASSUME NEW t \in Task, OutOfIds(t)  PROVE CountInv'
    BY <1>13 DEF OutOfIds, Move, Goto, Put, request, scratch, store
  <1>14. ASSUME NEW t \in Task, CreateRecord(t)  PROVE CountInv'
    BY <1>14 DEF CreateRecord, Move, Goto, Put, request, scratch, OpenRecord
  <1>15. ASSUME NEW t \in Task, AddReadIds(t)  PROVE CountInv'
    BY <1>15 DEF AddReadIds, Put, Goto, store, request
  <1>16. ASSUME NEW t \in Task, AddWrite(t)  PROVE CountInv'
    <2> SUFFICES ASSUME hazard' = {}, NEW s \in Sid, sess'[s] > 0
                 PROVE  Counted(s)'
      OBVIOUS
    <2>1. /\ SetIndex(t, ids[t] \cup {sid[t]}) /\ user[t] \in User
          /\ info[sid[t]].user = user[t] /\ UNCHANGED <<sess, info, sid>>
      BY <1>16 DEF AddWrite, Move, scratch
    <2>2. /\ hazard = {} /\ index'[user[t]] = ids[t] \cup {sid[t]}
          /\ \A u \in User : u # user[t] => index'[u] = index[u]
          /\ \A r \in index[user[t]] : r \in ids[t] \/ ~(sess[r] > 0)
      BY <2>1, ListWritten
    <2>3. \A k \in Task : k # t => pc'[k] = pc[k]
      BY <1>16 DEF AddWrite, Move, Goto, Put
    <2>4. Counted(s) /\ info[s].user \in User
      BY <2>1, <2>2, OwnerType
    <2>5. CASE s \in index[info[s].user]
      BY <2>1, <2>2, <2>4, <2>5
    <2>6. ASSUME NEW k \in Task, sid[k] = s, pc[k] \in CreatingPc  PROVE Counted(s)'
      <3>1. CASE k = t
        BY <2>1, <2>2, <2>6, <3>1
      <3>2. CASE k # t
        BY <2>1, <2>3, <2>6, <3>2
      <3> QED
        BY <3>1, <3>2
    <2> QED
      BY <2>4, <2>5, <2>6
  <1>17. ASSUME NEW t \in Task, Replace(t)  PROVE CountInv'
    <2>1. sid[t] \in Sid /\ Persist(sid[t])
      BY <1>17 DEF Replace
    <2>2. hazard' = {} => hazard = {} /\ \A r \in Sid : sess[r] = 0 <=> sess'[r] = 0
      BY <2>1, PersistAlive
    <2>3. UNCHANGED <<ids, todo, found, index, info, sid>>
      BY <1>17 DEF Replace, Move, scratch
    <2>4. pc[t] \notin {"probe", "drop"} \cup CreatingPc /\ pc'[t] \notin {"probe", "drop"}
      BY <1>17 DEF Replace, Move, Goto, Put, CreatingPc
    <2>5. \A k \in Task : k # t => pc'[k] = pc[k]
      BY <1>17 DEF Replace, Move, Goto, Put
    <2> QED
      BY <2>2, <2>3, <2>4, <2>5, SMTT(40)
  <1>18. ASSUME NEW t \in Task, ReplaceRecord(t)  PROVE CountInv'
    BY <1>18 DEF ReplaceRecord, Move, Goto, Put, request, scratch, OpenRecord
  <1>19. ASSUME NEW t \in Task, Refuse(t)  PROVE CountInv'
    BY <1>19 DEF Refuse, Finish, Put, Goto, Drop, Usable, store
  <1>20. ASSUME NEW t \in Task, Get(t)  PROVE CountInv'
    BY <1>20 DEF Get, Move, Goto, Put, request, scratch, Usable, store
  <1>21. ASSUME NEW t \in Task, Playable(t)  PROVE CountInv'
    BY <1>21 DEF Playable, Move, Goto, Put, request, scratch, store
  <1>22. ASSUME NEW t \in Task, GetAgain(t)  PROVE CountInv'
    BY <1>22 DEF GetAgain, Move, Goto, Put, request, scratch, Usable, store
  <1>23. ASSUME NEW t \in Task, Touch(t)  PROVE CountInv'
    <2>1. sid[t] \in Sid /\ Persist(sid[t])
      BY <1>23 DEF Touch
    <2>2. hazard' = {} => hazard = {} /\ \A r \in Sid : sess[r] = 0 <=> sess'[r] = 0
      BY <2>1, PersistAlive
    <2>3. UNCHANGED <<ids, todo, found, index, info, sid>>
      BY <1>23 DEF Touch, Move, scratch
    <2>4. pc[t] \notin {"probe", "drop"} \cup CreatingPc /\ pc'[t] \notin {"probe", "drop"}
      BY <1>23 DEF Touch, Move, Goto, Put, CreatingPc
    <2>5. \A k \in Task : k # t => pc'[k] = pc[k]
      BY <1>23 DEF Touch, Move, Goto, Put
    <2> QED
      BY <2>2, <2>3, <2>4, <2>5, SMTT(40)
  <1>24. ASSUME NEW t \in Task, TouchRecord(t)  PROVE CountInv'
    BY <1>24, SMTT(40) DEF TouchRecord, Finish, Put, Goto, Drop, OpenRecord
  <1>25. ASSUME NEW t \in Task, StopGet(t)  PROVE CountInv'
    BY <1>25 DEF StopGet, Move, Goto, Put, request, scratch, Finish, Drop,
       Usable, store
  <1>26. ASSUME NEW t \in Task, StopMiss(t)  PROVE CountInv'
    BY <1>26 DEF StopMiss, Move, Goto, Put, request, scratch, DelKey
  <1>27. ASSUME NEW t \in Task, StopDelete(t)  PROVE CountInv'
    BY <1>27 DEF StopDelete, Move, Goto, Put, request, scratch, DelKey
  <1>28. ASSUME NEW t \in Task, StopReadIds(t)  PROVE CountInv'
    BY <1>28 DEF StopReadIds, Put, Goto, store, request
  <1>29. ASSUME NEW t \in Task, StopWrite(t)  PROVE CountInv'
    <2> SUFFICES ASSUME hazard' = {}, NEW s \in Sid, sess'[s] > 0
                 PROVE  Counted(s)'
      OBVIOUS
    <2>1. /\ SetIndex(t, ids[t] \ {sid[t]}) /\ user[t] \in User
          /\ pc[t] = "stopWrite" /\ UNCHANGED <<sess, info, sid>>
      BY <1>29 DEF StopWrite, StopPc
    <2>2. /\ hazard = {} /\ index'[user[t]] = ids[t] \ {sid[t]}
          /\ \A u \in User : u # user[t] => index'[u] = index[u]
          /\ \A r \in index[user[t]] : r \in ids[t] \/ ~(sess[r] > 0)
      BY <2>1, ListWritten
    <2>3. \A k \in Task : k # t => pc'[k] = pc[k]
      BY <1>29 DEF StopWrite, Goto, Put
    <2>4. Counted(s) /\ info[s].user \in User
      BY <2>1, <2>2, OwnerType
    <2>5. s # sid[t]
      BY <2>1, <2>2 DEF EndingInv, Ending
    <2>6. CASE s \in index[info[s].user]
      BY <2>1, <2>2, <2>4, <2>5, <2>6
    <2>7. ASSUME NEW k \in Task, sid[k] = s, pc[k] \in CreatingPc  PROVE Counted(s)'
      BY <2>1, <2>3, <2>7
    <2> QED
      BY <2>4, <2>6, <2>7
  <1>30. ASSUME NEW t \in Task, StopRecord(t)  PROVE CountInv'
    BY <1>30 DEF StopRecord, Move, Goto, Put, request, scratch, CloseRecord
  <1>31. ASSUME NEW t \in Task, NextVictim(t)  PROVE CountInv'
    BY <1>31 DEF NextVictim, Put, Goto, Revoking, store, request
  <1>32. ASSUME NEW t \in Task, EndLoop(t)  PROVE CountInv'
    BY <1>32 DEF EndLoop, Finish, Put, Goto, Drop
  <1>33. ASSUME NEW t \in Task, ReadRows(t)  PROVE CountInv'
    BY <1>33 DEF ReadRows, Put, Goto, Revoking, OpenRows, store, request
  <1>34. ASSUME NEW t \in Task, RevokeGet(t)  PROVE CountInv'
    BY <1>34 DEF RevokeGet, Put, Goto, store, scratch
  <1>35. ASSUME NEW t \in Task, MarkRevoked(t)  PROVE CountInv'
    BY <1>35 DEF MarkRevoked, Move, Goto, Put, request, scratch, CloseRecord
  <1>36. ASSUME NEW t \in Task, ReadLiveRows(t)  PROVE CountInv'
    BY <1>36 DEF ReadLiveRows, Put, Goto, OpenRows, store, request
  <1>37. ASSUME NEW t \in Task, SweepGet(t)  PROVE CountInv'
    BY <1>37 DEF SweepGet, Put, store, request
  <1>38. ASSUME NEW t \in Task, SweepMark(t)  PROVE CountInv'
    BY <1>38 DEF SweepMark, Put, CloseRecord, request
  <1>39. ASSUME NEW t \in Task, SweepEnd(t)  PROVE CountInv'
    BY <1>39 DEF SweepEnd, Finish, Put, Goto, Drop, store
  <1>40. ASSUME NEW t \in Task, Arrive(t)  PROVE CountInv'
    <2>1. UNCHANGED <<sess, info, index, hazard>> /\ pc[t] = "idle"
      BY <1>40, ArriveFrame
    <2>2. \A k \in Task : k # t => pc'[k] = pc[k] /\ sid'[k] = sid[k]
      BY <1>40, ArriveFrame
    <2> QED
      BY <2>1, <2>2
  <1>41. ASSUME NEW m \in Media, Publish(m)  PROVE CountInv'
    BY <1>41 DEF Publish, store, request, scratch
  <1>42. CASE Tick
    <2> SUFFICES ASSUME hazard' = {}, NEW s \in Sid, sess'[s] > 0
                 PROVE  Counted(s)'
      OBVIOUS
    <2>1. sess[s] > 1 /\ UNCHANGED <<info, sid, pc>>
      BY <1>42, PlaybackAssumption DEF Tick, Less, request, scratch
    <2>2. hazard = {} /\ \A u \in User : \A r \in index[u] : ~(indexLeft[u] = 1 /\ sess[r] > 1)
      BY <1>42, TickLapse
    <2>3. Counted(s) /\ info[s].user \in User
      BY <2>1, <2>2, OwnerType
    <2>4. CASE s \in index[info[s].user]
      <3>1. indexLeft[info[s].user] \in Nat
        BY <2>3, Ranges
      <3>2. indexLeft[info[s].user] # 0 /\ indexLeft[info[s].user] # 1
        BY <2>1, <2>2, <2>3, <2>4 DEF IndexInv
      <3>3. ~(indexLeft[info[s].user] <= 1)
        BY <3>1, <3>2, AboveOne
      <3> QED
        BY <1>42, <2>1, <2>3, <2>4, <3>3 DEF Tick
    <2> QED
      BY <2>1, <2>3, <2>4
  <1>43. CASE Crash
    BY <1>43 DEF Crash, Note, store
  <1>44. CASE UNCHANGED vars
    BY <1>44 DEF vars, store, request, scratch
  <1> QED
    BY <1>1, <1>2, <1>3, <1>4, <1>5, <1>6, <1>7, <1>8, <1>9, <1>10, <1>11,
       <1>12, <1>13, <1>14, <1>15, <1>16, <1>17, <1>18, <1>19, <1>20, <1>21,
       <1>22, <1>23, <1>24, <1>25, <1>26, <1>27, <1>28, <1>29, <1>30, <1>31,
       <1>32, <1>33, <1>34, <1>35, <1>36, <1>37, <1>38, <1>39, <1>40, <1>41,
       <1>42, <1>43, <1>44 DEF Next, Serve, Open, List, Keep, Stop, Rows

\* No session comes to life in the step.
NoNewSession ==
    info' = info /\ \A s \in Sid : sess'[s] > 0 => sess[s] > 0

LEMMA NewSessionStep ==
  ASSUME TypeInv, hazard' = {}, [Next]_vars
  PROVE  hazard = {} /\ (NoNewSession \/ \E k \in Task : Create(k))
  <1> USE DEF TypeInv, Shape, OwnSidPc, TypeOK, NoNewSession
  <1>1. ASSUME NEW t \in Task, Lock(t)  PROVE hazard = {} /\ (NoNewSession \/ \E k \in Task : Create(k))
    BY <1>1 DEF Lock, Move, Goto, Put, request, scratch
  <1>2. ASSUME NEW t \in Task, GiveUp(t)  PROVE hazard = {} /\ (NoNewSession \/ \E k \in Task : Create(k))
    BY <1>2 DEF GiveUp, Finish, Put, Goto, Drop, store
  <1>3. ASSUME NEW t \in Task, Unlock(t)  PROVE hazard = {} /\ (NoNewSession \/ \E k \in Task : Create(k))
    BY <1>3 DEF Unlock, Finish, Put, Goto, Drop
  <1>4. ASSUME NEW t \in Task, Abort(t)  PROVE hazard = {} /\ (NoNewSession \/ \E k \in Task : Create(k))
    BY <1>4 DEF Abort, Note, Goto, Put, Drop, store, request
  <1>5. ASSUME NEW t \in Task, ReadIds(t)  PROVE hazard = {} /\ (NoNewSession \/ \E k \in Task : Create(k))
    BY <1>5 DEF ReadIds, Put, Goto, store, request
  <1>6. ASSUME NEW t \in Task, ProbeLive(t)  PROVE hazard = {} /\ (NoNewSession \/ \E k \in Task : Create(k))
    BY <1>6 DEF ProbeLive, Put, store, request
  <1>7. ASSUME NEW t \in Task, ProbeDead(t)  PROVE hazard = {} /\ (NoNewSession \/ \E k \in Task : Create(k))
    BY <1>7 DEF ProbeDead, Put, Goto, store, request
  <1>8. ASSUME NEW t \in Task, DropDead(t)  PROVE hazard = {} /\ (NoNewSession \/ \E k \in Task : Create(k))
    BY <1>8 DEF DropDead, Put, Goto, DelKey, request
  <1>9. ASSUME NEW t \in Task, AssertSlot(t)  PROVE hazard = {} /\ (NoNewSession \/ \E k \in Task : Create(k))
    BY <1>9 DEF AssertSlot, Put, Goto, WriteLive, SetIndex, Note, Matching,
       SlotTaken, request
  <1>10. ASSUME NEW t \in Task, ReplyList(t)  PROVE hazard = {} /\ (NoNewSession \/ \E k \in Task : Create(k))
    BY <1>10 DEF ReplyList, Finish, Put, Goto, Drop, WriteLive, SetIndex, Note
  <1>11. ASSUME NEW t \in Task, StopListed(t)  PROVE hazard = {} /\ (NoNewSession \/ \E k \in Task : Create(k))
    BY <1>11 DEF StopListed, Put, Goto, WriteLive, SetIndex, Note, request
  <1>12. ASSUME NEW t \in Task, Create(t)  PROVE hazard = {} /\ (NoNewSession \/ \E k \in Task : Create(k))
    BY <1>12 DEF Create
  <1>13. ASSUME NEW t \in Task, OutOfIds(t)  PROVE hazard = {} /\ (NoNewSession \/ \E k \in Task : Create(k))
    BY <1>13 DEF OutOfIds, Move, Goto, Put, request, scratch, store
  <1>14. ASSUME NEW t \in Task, CreateRecord(t)  PROVE hazard = {} /\ (NoNewSession \/ \E k \in Task : Create(k))
    BY <1>14 DEF CreateRecord, Move, Goto, Put, request, scratch, OpenRecord
  <1>15. ASSUME NEW t \in Task, AddReadIds(t)  PROVE hazard = {} /\ (NoNewSession \/ \E k \in Task : Create(k))
    BY <1>15 DEF AddReadIds, Put, Goto, store, request
  <1>16. ASSUME NEW t \in Task, AddWrite(t)  PROVE hazard = {} /\ (NoNewSession \/ \E k \in Task : Create(k))
    BY <1>16 DEF AddWrite, Move, Goto, Put, request, scratch, SetIndex, Note
  <1>17. ASSUME NEW t \in Task, Replace(t)  PROVE hazard = {} /\ (NoNewSession \/ \E k \in Task : Create(k))
    <2>1. sid[t] \in Sid /\ Persist(sid[t]) /\ UNCHANGED info
      BY <1>17 DEF Replace
    <2> QED
      BY <2>1, PersistAlive
  <1>18. ASSUME NEW t \in Task, ReplaceRecord(t)  PROVE hazard = {} /\ (NoNewSession \/ \E k \in Task : Create(k))
    BY <1>18 DEF ReplaceRecord, Move, Goto, Put, request, scratch, OpenRecord
  <1>19. ASSUME NEW t \in Task, Refuse(t)  PROVE hazard = {} /\ (NoNewSession \/ \E k \in Task : Create(k))
    BY <1>19 DEF Refuse, Finish, Put, Goto, Drop, Usable, store
  <1>20. ASSUME NEW t \in Task, Get(t)  PROVE hazard = {} /\ (NoNewSession \/ \E k \in Task : Create(k))
    BY <1>20 DEF Get, Move, Goto, Put, request, scratch, Usable, store
  <1>21. ASSUME NEW t \in Task, Playable(t)  PROVE hazard = {} /\ (NoNewSession \/ \E k \in Task : Create(k))
    BY <1>21 DEF Playable, Move, Goto, Put, request, scratch, store
  <1>22. ASSUME NEW t \in Task, GetAgain(t)  PROVE hazard = {} /\ (NoNewSession \/ \E k \in Task : Create(k))
    BY <1>22 DEF GetAgain, Move, Goto, Put, request, scratch, Usable, store
  <1>23. ASSUME NEW t \in Task, Touch(t)  PROVE hazard = {} /\ (NoNewSession \/ \E k \in Task : Create(k))
    <2>1. sid[t] \in Sid /\ Persist(sid[t]) /\ UNCHANGED info
      BY <1>23 DEF Touch
    <2> QED
      BY <2>1, PersistAlive
  <1>24. ASSUME NEW t \in Task, TouchRecord(t)  PROVE hazard = {} /\ (NoNewSession \/ \E k \in Task : Create(k))
    BY <1>24 DEF TouchRecord, Finish, Put, Goto, Drop, OpenRecord
  <1>25. ASSUME NEW t \in Task, StopGet(t)  PROVE hazard = {} /\ (NoNewSession \/ \E k \in Task : Create(k))
    BY <1>25 DEF StopGet, Move, Goto, Put, request, scratch, Finish, Drop,
       Usable, store
  <1>26. ASSUME NEW t \in Task, StopMiss(t)  PROVE hazard = {} /\ (NoNewSession \/ \E k \in Task : Create(k))
    BY <1>26 DEF StopMiss, Move, Goto, Put, request, scratch, DelKey
  <1>27. ASSUME NEW t \in Task, StopDelete(t)  PROVE hazard = {} /\ (NoNewSession \/ \E k \in Task : Create(k))
    BY <1>27 DEF StopDelete, Move, Goto, Put, request, scratch, DelKey
  <1>28. ASSUME NEW t \in Task, StopReadIds(t)  PROVE hazard = {} /\ (NoNewSession \/ \E k \in Task : Create(k))
    BY <1>28 DEF StopReadIds, Put, Goto, store, request
  <1>29. ASSUME NEW t \in Task, StopWrite(t)  PROVE hazard = {} /\ (NoNewSession \/ \E k \in Task : Create(k))
    BY <1>29 DEF StopWrite, Put, Goto, SetIndex, Note, request
  <1>30. ASSUME NEW t \in Task, StopRecord(t)  PROVE hazard = {} /\ (NoNewSession \/ \E k \in Task : Create(k))
    BY <1>30 DEF StopRecord, Move, Goto, Put, request, scratch, CloseRecord
  <1>31. ASSUME NEW t \in Task, NextVictim(t)  PROVE hazard = {} /\ (NoNewSession \/ \E k \in Task : Create(k))
    BY <1>31 DEF NextVictim, Put, Goto, Revoking, store, request
  <1>32. ASSUME NEW t \in Task, EndLoop(t)  PROVE hazard = {} /\ (NoNewSession \/ \E k \in Task : Create(k))
    BY <1>32 DEF EndLoop, Finish, Put, Goto, Drop
  <1>33. ASSUME NEW t \in Task, ReadRows(t)  PROVE hazard = {} /\ (NoNewSession \/ \E k \in Task : Create(k))
    BY <1>33 DEF ReadRows, Put, Goto, Revoking, OpenRows, store, request
  <1>34. ASSUME NEW t \in Task, RevokeGet(t)  PROVE hazard = {} /\ (NoNewSession \/ \E k \in Task : Create(k))
    BY <1>34 DEF RevokeGet, Put, Goto, store, scratch
  <1>35. ASSUME NEW t \in Task, MarkRevoked(t)  PROVE hazard = {} /\ (NoNewSession \/ \E k \in Task : Create(k))
    BY <1>35 DEF MarkRevoked, Move, Goto, Put, request, scratch, CloseRecord
  <1>36. ASSUME NEW t \in Task, ReadLiveRows(t)  PROVE hazard = {} /\ (NoNewSession \/ \E k \in Task : Create(k))
    BY <1>36 DEF ReadLiveRows, Put, Goto, OpenRows, store, request
  <1>37. ASSUME NEW t \in Task, SweepGet(t)  PROVE hazard = {} /\ (NoNewSession \/ \E k \in Task : Create(k))
    BY <1>37 DEF SweepGet, Put, store, request
  <1>38. ASSUME NEW t \in Task, SweepMark(t)  PROVE hazard = {} /\ (NoNewSession \/ \E k \in Task : Create(k))
    BY <1>38 DEF SweepMark, Put, CloseRecord, request
  <1>39. ASSUME NEW t \in Task, SweepEnd(t)  PROVE hazard = {} /\ (NoNewSession \/ \E k \in Task : Create(k))
    BY <1>39 DEF SweepEnd, Finish, Put, Goto, Drop, store
  <1>40. ASSUME NEW t \in Task, Arrive(t)  PROVE hazard = {} /\ (NoNewSession \/ \E k \in Task : Create(k))
    BY <1>40, ArriveFrame
  <1>41. ASSUME NEW m \in Media, Publish(m)  PROVE hazard = {} /\ (NoNewSession \/ \E k \in Task : Create(k))
    BY <1>41 DEF Publish, store, request, scratch
  <1>42. CASE Tick
    BY <1>42, PlaybackAssumption DEF Tick, Less
  <1>43. CASE Crash
    BY <1>43 DEF Crash, Note, store
  <1>44. CASE UNCHANGED vars
    BY <1>44 DEF vars, store, request, scratch
  <1> QED
    BY <1>1, <1>2, <1>3, <1>4, <1>5, <1>6, <1>7, <1>8, <1>9, <1>10, <1>11,
       <1>12, <1>13, <1>14, <1>15, <1>16, <1>17, <1>18, <1>19, <1>20, <1>21,
       <1>22, <1>23, <1>24, <1>25, <1>26, <1>27, <1>28, <1>29, <1>30, <1>31,
       <1>32, <1>33, <1>34, <1>35, <1>36, <1>37, <1>38, <1>39, <1>40, <1>41,
       <1>42, <1>43, <1>44 DEF Next, Serve, Open, List, Keep, Stop, Rows

\* How a task comes to look at the list of its account, and to create.
SlotMove(k) ==
    /\ op'[k] = "open" /\ pc'[k] \in {"probe", "drop"} =>
          /\ op[k] = "open" /\ user'[k] = user[k]
          /\ (pc[k] \in {"probe", "drop"} /\ ids'[k] = ids[k]) \/ ReadIds(k)
    /\ pc'[k] = "create" =>
          /\ user'[k] = user[k]
          /\ pc[k] = "create" \/ AssertSlot(k)

LEMMA SlotMoveStep ==
  ASSUME TypeInv, NEW k \in Task, [Next]_vars
  PROVE  SlotMove(k)
  <1> USE DEF TypeInv, Shape, ReadPc, TypeOK, SlotMove
  <1>1. ASSUME NEW t \in Task, Lock(t)  PROVE SlotMove(k)
    BY <1>1 DEF Lock, Move, Goto, Put, request, scratch
  <1>2. ASSUME NEW t \in Task, GiveUp(t)  PROVE SlotMove(k)
    BY <1>2 DEF GiveUp, Finish, Put, Goto, Drop, store
  <1>3. ASSUME NEW t \in Task, Unlock(t)  PROVE SlotMove(k)
    BY <1>3 DEF Unlock, Finish, Put, Goto, Drop
  <1>4. ASSUME NEW t \in Task, Abort(t)  PROVE SlotMove(k)
    BY <1>4 DEF Abort, Note, Goto, Put, Drop, store, request
  <1>5. ASSUME NEW t \in Task, ReadIds(t)  PROVE SlotMove(k)
    BY <1>5 DEF ReadIds, Put, Goto, store, request
  <1>6. ASSUME NEW t \in Task, ProbeLive(t)  PROVE SlotMove(k)
    BY <1>6 DEF ProbeLive, Put, store, request
  <1>7. ASSUME NEW t \in Task, ProbeDead(t)  PROVE SlotMove(k)
    BY <1>7 DEF ProbeDead, Put, Goto, store, request
  <1>8. ASSUME NEW t \in Task, DropDead(t)  PROVE SlotMove(k)
    BY <1>8 DEF DropDead, Put, Goto, DelKey, request
  <1>9. ASSUME NEW t \in Task, AssertSlot(t)  PROVE SlotMove(k)
    <2>1. pc'[t] \in {"replace", "unlock", "create"} /\ user' = user
      BY <1>9 DEF AssertSlot, Goto, Put, request
    <2>2. \A j \in Task : j # t => pc'[j] = pc[j] /\ ids'[j] = ids[j]
      BY <1>9 DEF AssertSlot, Goto, Put
    <2>3. op' = op
      BY <1>9 DEF AssertSlot, request
    <2> QED
      BY <1>9, <2>1, <2>2, <2>3
  <1>10. ASSUME NEW t \in Task, ReplyList(t)  PROVE SlotMove(k)
    BY <1>10 DEF ReplyList, Finish, Put, Goto, Drop, WriteLive, SetIndex, Note
  <1>11. ASSUME NEW t \in Task, StopListed(t)  PROVE SlotMove(k)
    BY <1>11 DEF StopListed, Put, Goto, WriteLive, SetIndex, Note, request
  <1>12. ASSUME NEW t \in Task, Create(t)  PROVE SlotMove(k)
    BY <1>12 DEF Create, Put, Goto, SetKey, request
  <1>13. ASSUME NEW t \in Task, OutOfIds(t)  PROVE SlotMove(k)
    BY <1>13 DEF OutOfIds, Move, Goto, Put, request, scratch, store
  <1>14. ASSUME NEW t \in Task, CreateRecord(t)  PROVE SlotMove(k)
    BY <1>14 DEF CreateRecord, Move, Goto, Put, request, scratch, OpenRecord
  <1>15. ASSUME NEW t \in Task, AddReadIds(t)  PROVE SlotMove(k)
    BY <1>15 DEF AddReadIds, Put, Goto, store, request
  <1>16. ASSUME NEW t \in Task, AddWrite(t)  PROVE SlotMove(k)
    BY <1>16 DEF AddWrite, Move, Goto, Put, request, scratch, SetIndex, Note
  <1>17. ASSUME NEW t \in Task, Replace(t)  PROVE SlotMove(k)
    BY <1>17 DEF Replace, Move, Goto, Put, request, scratch, Persist, Note,
       SetKey
  <1>18. ASSUME NEW t \in Task, ReplaceRecord(t)  PROVE SlotMove(k)
    BY <1>18 DEF ReplaceRecord, Move, Goto, Put, request, scratch, OpenRecord
  <1>19. ASSUME NEW t \in Task, Refuse(t)  PROVE SlotMove(k)
    BY <1>19 DEF Refuse, Finish, Put, Goto, Drop, Usable, store
  <1>20. ASSUME NEW t \in Task, Get(t)  PROVE SlotMove(k)
    BY <1>20 DEF Get, Move, Goto, Put, request, scratch, Usable, store
  <1>21. ASSUME NEW t \in Task, Playable(t)  PROVE SlotMove(k)
    BY <1>21 DEF Playable, Move, Goto, Put, request, scratch, store
  <1>22. ASSUME NEW t \in Task, GetAgain(t)  PROVE SlotMove(k)
    BY <1>22 DEF GetAgain, Move, Goto, Put, request, scratch, Usable, store
  <1>23. ASSUME NEW t \in Task, Touch(t)  PROVE SlotMove(k)
    BY <1>23 DEF Touch, Move, Goto, Put, request, scratch, Persist, Note,
       SetKey
  <1>24. ASSUME NEW t \in Task, TouchRecord(t)  PROVE SlotMove(k)
    BY <1>24 DEF TouchRecord, Finish, Put, Goto, Drop, OpenRecord
  <1>25. ASSUME NEW t \in Task, StopGet(t)  PROVE SlotMove(k)
    BY <1>25 DEF StopGet, Move, Goto, Put, request, scratch, Finish, Drop,
       Usable, store
  <1>26. ASSUME NEW t \in Task, StopMiss(t)  PROVE SlotMove(k)
    BY <1>26 DEF StopMiss, Move, Goto, Put, request, scratch, DelKey
  <1>27. ASSUME NEW t \in Task, StopDelete(t)  PROVE SlotMove(k)
    BY <1>27 DEF StopDelete, Move, Goto, Put, request, scratch, DelKey
  <1>28. ASSUME NEW t \in Task, StopReadIds(t)  PROVE SlotMove(k)
    BY <1>28 DEF StopReadIds, Put, Goto, store, request
  <1>29. ASSUME NEW t \in Task, StopWrite(t)  PROVE SlotMove(k)
    BY <1>29 DEF StopWrite, Put, Goto, SetIndex, Note, request
  <1>30. ASSUME NEW t \in Task, StopRecord(t)  PROVE SlotMove(k)
    BY <1>30 DEF StopRecord, Move, Goto, Put, request, scratch, CloseRecord
  <1>31. ASSUME NEW t \in Task, NextVictim(t)  PROVE SlotMove(k)
    BY <1>31 DEF NextVictim, Put, Goto, Revoking, store, request
  <1>32. ASSUME NEW t \in Task, EndLoop(t)  PROVE SlotMove(k)
    BY <1>32 DEF EndLoop, Finish, Put, Goto, Drop
  <1>33. ASSUME NEW t \in Task, ReadRows(t)  PROVE SlotMove(k)
    BY <1>33 DEF ReadRows, Put, Goto, Revoking, OpenRows, store, request
  <1>34. ASSUME NEW t \in Task, RevokeGet(t)  PROVE SlotMove(k)
    BY <1>34 DEF RevokeGet, Put, Goto, store, scratch
  <1>35. ASSUME NEW t \in Task, MarkRevoked(t)  PROVE SlotMove(k)
    BY <1>35 DEF MarkRevoked, Move, Goto, Put, request, scratch, CloseRecord
  <1>36. ASSUME NEW t \in Task, ReadLiveRows(t)  PROVE SlotMove(k)
    BY <1>36 DEF ReadLiveRows, Put, Goto, OpenRows, store, request
  <1>37. ASSUME NEW t \in Task, SweepGet(t)  PROVE SlotMove(k)
    BY <1>37 DEF SweepGet, Put, store, request
  <1>38. ASSUME NEW t \in Task, SweepMark(t)  PROVE SlotMove(k)
    BY <1>38 DEF SweepMark, Put, CloseRecord, request
  <1>39. ASSUME NEW t \in Task, SweepEnd(t)  PROVE SlotMove(k)
    BY <1>39 DEF SweepEnd, Finish, Put, Goto, Drop, store
  <1>40. ASSUME NEW t \in Task, Arrive(t)  PROVE SlotMove(k)
    BY <1>40, ArriveFrame
  <1>41. ASSUME NEW m \in Media, Publish(m)  PROVE SlotMove(k)
    BY <1>41 DEF Publish, store, request, scratch
  <1>42. CASE Tick
    BY <1>42 DEF Tick, LockAged, Less, request, scratch
  <1>43. CASE Crash
    BY <1>43 DEF Crash, Note, store
  <1>44. CASE UNCHANGED vars
    BY <1>44 DEF vars, store, request, scratch
  <1> QED
    BY <1>1, <1>2, <1>3, <1>4, <1>5, <1>6, <1>7, <1>8, <1>9, <1>10, <1>11,
       <1>12, <1>13, <1>14, <1>15, <1>16, <1>17, <1>18, <1>19, <1>20, <1>21,
       <1>22, <1>23, <1>24, <1>25, <1>26, <1>27, <1>28, <1>29, <1>30, <1>31,
       <1>32, <1>33, <1>34, <1>35, <1>36, <1>37, <1>38, <1>39, <1>40, <1>41,
       <1>42, <1>43, <1>44 DEF Next, Serve, Open, List, Keep, Stop, Rows

Watching ==
    \A t \in Task : op[t] = "open" /\ pc[t] \in {"probe", "drop"} =>
        LiveOf(user[t]) \subseteq ids[t]
Room ==
    \A t \in Task : pc[t] = "create" => Cardinality(LiveOf(user[t])) < MaxStreams
Limit == \A u \in User : Cardinality(LiveOf(u)) <= MaxStreams

\* Under the lock: the list read has every live session of the account, and the
\* slot found free stays free.
SlotInv == hazard = {} => Watching /\ Room /\ Limit

Inv ==
    /\ TypeInv /\ RowsInv /\ EndingInv /\ GoneInv /\ RecordInv /\ LockInv
    /\ IndexInv /\ ProbedInv /\ CountInv /\ SlotInv

LEMMA LiveFinite ==
  ASSUME NEW u
  PROVE  IsFiniteSet(LiveOf(u)) /\ Cardinality(LiveOf(u)) \in Nat
  <1>1. LiveOf(u) \subseteq Sid /\ IsFiniteSet(Sid)
    BY PlaybackAssumption DEF LiveOf
  <1> QED
    BY <1>1, FS_Subset, FS_CardinalityType

\* While a section of the account runs no other one does, so the list misses
\* no session of the account.
LEMMA ListIsComplete ==
  ASSUME TypeInv, LockInv, CountInv, hazard = {}, NEW t \in Task,
         op[t] = "open", pc[t] = "ids"
  PROVE  LiveOf(user[t]) \subseteq index[user[t]]
  <1> SUFFICES ASSUME NEW s \in LiveOf(user[t])
               PROVE  s \in index[user[t]]
    OBVIOUS
  <1>1. s \in Sid /\ sess[s] > 0 /\ info[s].user = user[t]
    BY DEF LiveOf
  <1>2. Counted(s)
    BY <1>1 DEF CountInv
  <1>3. ASSUME NEW k \in Task, sid[k] = s, pc[k] \in CreatingPc  PROVE FALSE
    <2>1. k # t /\ InSection(t)
      BY <1>3 DEF CreatingPc, InSection, ListingPc
    <2>2. InSection(k) /\ user[k] = user[t]
      BY <1>1, <1>3 DEF TypeInv, Shape, InSection, SectionPc, CreatingPc, OpenPc,
         OwnSidPc, OwnedBy
    <2> QED
      BY <2>1, <2>2 DEF LockInv
  <1> QED
    BY <1>1, <1>2, <1>3 DEF Counted

LEMMA SlotIsFree ==
  ASSUME TypeInv, ProbedInv, SlotInv, hazard = {}, NEW t \in Task,
         AssertSlot(t), pc'[t] = "create"
  PROVE  Cardinality(LiveOf(user[t])) < MaxStreams
  <1>1. pc[t] = "probe" /\ todo[t] = {} /\ op[t] = "open"
    BY DEF AssertSlot, WriteLive
  <1>2. ~SlotTaken(t)
    <2>1. pc'[t] = IF SlotTaken(t) THEN "unlock" ELSE "create"
      BY DEF AssertSlot, Goto, Put, TypeInv, TypeOK
    <2> QED
      BY <2>1
  <1>3. LiveOf(user[t]) \subseteq found[t]
    <2> SUFFICES ASSUME NEW s \in LiveOf(user[t])  PROVE s \in found[t]
      OBVIOUS
    <2>1. s \in ids[t]
      BY <1>1 DEF SlotInv, Watching
    <2>2. sess[s] > 0 /\ s \in Sid
      BY DEF LiveOf
    <2> QED
      BY <1>1, <2>1, <2>2 DEF ProbedInv
  <1>4. found[t] \subseteq Sid /\ IsFiniteSet(Sid)
    BY PlaybackAssumption DEF TypeInv, TypeOK
  <1>5. IsFiniteSet(found[t]) /\ Cardinality(found[t]) \in Nat
    BY <1>4, FS_Subset, FS_CardinalityType
  <1>6. Cardinality(LiveOf(user[t])) <= Cardinality(found[t])
    BY <1>3, <1>5, FS_Subset
  <1>7. MaxStreams \in Nat
    BY PlaybackAssumption
  <1> QED
    BY <1>2, <1>5, <1>6, <1>7, LiveFinite DEF SlotTaken

LEMMA SlotStep ==
  ASSUME Inv, [Next]_vars
  PROVE  SlotInv'
  <1> SUFFICES ASSUME hazard' = {}  PROVE (Watching /\ Room /\ Limit)'
    BY DEF SlotInv
  <1>1. hazard = {} /\ (NoNewSession \/ \E k \in Task : Create(k))
    BY NewSessionStep DEF Inv
  <1>2. Watching /\ Room /\ Limit
    BY <1>1 DEF Inv, SlotInv
  <1>3. \A k \in Task : SlotMove(k)
    BY SlotMoveStep DEF Inv
  <1>4. CASE NoNewSession
    <2>1. \A u : LiveOf(u)' \subseteq LiveOf(u)
      BY <1>4 DEF NoNewSession, LiveOf, Born
    <2>2. \A u : Cardinality(LiveOf(u)') <= Cardinality(LiveOf(u)) /\ Cardinality(LiveOf(u)') \in Nat
      BY <2>1, LiveFinite, FS_Subset, FS_CardinalityType
    <2>3. ASSUME NEW k \in Task, op'[k] = "open", pc'[k] \in {"probe", "drop"}
          PROVE  LiveOf(user[k])' \subseteq ids'[k]
      <3>1. user'[k] = user[k] /\ op[k] = "open"
        BY <1>3, <2>3 DEF SlotMove
      <3>2. CASE pc[k] \in {"probe", "drop"} /\ ids'[k] = ids[k]
        BY <1>2, <2>1, <3>1, <3>2 DEF Watching
      <3>3. CASE ReadIds(k)
        <4>1. pc[k] = "ids" /\ ids'[k] = index[user[k]]
          BY <3>3 DEF ReadIds, Put, Inv, TypeInv, TypeOK
        <4>2. LiveOf(user[k]) \subseteq index[user[k]]
          BY <1>1, <3>1, <4>1, ListIsComplete DEF Inv
        <4> QED
          BY <2>1, <3>1, <4>1, <4>2
      <3> QED
        BY <1>3, <2>3, <3>2, <3>3 DEF SlotMove
    <2>4. ASSUME NEW k \in Task, pc'[k] = "create"
          PROVE  Cardinality(LiveOf(user[k])') < MaxStreams
      <3>1. user'[k] = user[k]
        BY <1>3, <2>4 DEF SlotMove
      <3>2. Cardinality(LiveOf(user[k])) < MaxStreams
        BY <1>1, <1>2, <1>3, <2>4, SlotIsFree DEF SlotMove, Room, Inv
      <3> QED
        BY <2>2, <3>1, <3>2, LiveFinite, PlaybackAssumption
    <2>5. ASSUME NEW u \in User  PROVE Cardinality(LiveOf(u)') <= MaxStreams
      BY <1>2, <2>2, LiveFinite, PlaybackAssumption DEF Limit
    <2> QED
      BY <2>3, <2>4, <2>5 DEF Watching, Room, Limit
  <1>5. ASSUME NEW t \in Task, Create(t)  PROVE (Watching /\ Room /\ Limit)'
    <2>1. PICK s \in Sid :
             /\ ~Born(s)
             /\ info' = [info EXCEPT ![s] = [user |-> user[t], dev |-> dev[t], media |-> media[t]]]
             /\ sess' = [sess EXCEPT ![s] = SessionTtl]
      BY <1>5 DEF Create, SetKey
    <2>2. pc[t] = "create" /\ pc'[t] = "createRec" /\ UNCHANGED <<user, op, ids>>
      BY <1>5 DEF Create, Goto, Put, request, Inv, TypeInv, TypeOK
    <2>3. \A k \in Task : k # t => pc'[k] = pc[k]
      BY <1>5 DEF Create, Goto, Put, Inv, TypeInv, TypeOK
    <2>4. InSection(t)
      BY <2>2 DEF InSection, SectionPc, Inv, TypeInv, Shape, OpenPc
    <2>5. LiveOf(user[t])' \subseteq LiveOf(user[t]) \cup {s}
      BY <2>1, <2>2 DEF LiveOf, Born, Inv, TypeInv, TypeOK
    <2>6. ASSUME NEW u, u # user[t]  PROVE LiveOf(u)' \subseteq LiveOf(u)
      BY <2>1, <2>6 DEF LiveOf, Born, Inv, TypeInv, TypeOK
    <2>7. ASSUME NEW k \in Task, k # t, InSection(k)  PROVE user[k] # user[t]
      BY <1>1, <2>4, <2>7 DEF Inv, LockInv
    <2>8. ASSUME NEW u, u # user[t]
          PROVE  Cardinality(LiveOf(u)') <= Cardinality(LiveOf(u)) /\ Cardinality(LiveOf(u)') \in Nat
      BY <2>6, <2>8, LiveFinite, FS_Subset, FS_CardinalityType
    <2>9. ASSUME NEW k \in Task, op'[k] = "open", pc'[k] \in {"probe", "drop"}
          PROVE  LiveOf(user[k])' \subseteq ids'[k]
      <3>1. k # t /\ op[k] = "open" /\ pc[k] \in {"probe", "drop"}
        BY <2>2, <2>3, <2>9
      <3>2. LiveOf(user[k]) \subseteq ids[k]
        BY <1>2, <3>1 DEF Watching
      <3>3. user[k] # user[t]
        BY <2>7, <3>1 DEF InSection, ListingPc
      <3> QED
        BY <2>2, <2>6, <3>2, <3>3
    <2>10. ASSUME NEW k \in Task, pc'[k] = "create"
           PROVE  Cardinality(LiveOf(user[k])') < MaxStreams
      <3>1. k # t /\ pc[k] = "create"
        BY <2>2, <2>3, <2>10
      <3>2. user[k] # user[t]
        BY <2>7, <3>1 DEF InSection, SectionPc, Inv, TypeInv, Shape, OpenPc
      <3>3. Cardinality(LiveOf(user[k])) < MaxStreams
        BY <1>2, <3>1 DEF Room
      <3> QED
        BY <2>2, <2>8, <3>2, <3>3, LiveFinite, PlaybackAssumption
    <2>11. Cardinality(LiveOf(user[t])') <= MaxStreams
      <3>1. Cardinality(LiveOf(user[t])) < MaxStreams
        BY <1>2, <2>2 DEF Room
      <3>2. /\ IsFiniteSet(LiveOf(user[t]) \cup {s})
            /\ Cardinality(LiveOf(user[t]) \cup {s}) \in Nat
            /\ Cardinality(LiveOf(user[t]) \cup {s}) <= Cardinality(LiveOf(user[t])) + 1
        <4>1. IsFiniteSet(LiveOf(user[t])) /\ Cardinality(LiveOf(user[t])) \in Nat
          BY LiveFinite
        <4>2. IsFiniteSet(LiveOf(user[t]) \cup {s})
          BY <4>1, FS_AddElement
        <4>3. Cardinality(LiveOf(user[t]) \cup {s}) \in {Cardinality(LiveOf(user[t])), Cardinality(LiveOf(user[t])) + 1}
          BY <4>1, FS_AddElement
        <4> QED
          BY <4>1, <4>2, <4>3
      <3>3. Cardinality(LiveOf(user[t])') <= Cardinality(LiveOf(user[t]) \cup {s}) /\ Cardinality(LiveOf(user[t])') \in Nat
        BY <2>5, <3>2, FS_Subset, FS_CardinalityType
      <3> QED
        BY <3>1, <3>2, <3>3, LiveFinite, PlaybackAssumption
    <2>12. ASSUME NEW u \in User  PROVE Cardinality(LiveOf(u)') <= MaxStreams
      <3>1. CASE u = user[t]
        BY <2>2, <2>11, <3>1
      <3>2. CASE u # user[t]
        BY <1>2, <2>8, <3>2, LiveFinite, PlaybackAssumption DEF Limit
      <3> QED
        BY <3>1, <3>2
    <2> QED
      BY <2>9, <2>10, <2>12 DEF Watching, Room, Limit
  <1> QED
    BY <1>1, <1>4, <1>5

LEMMA InitInv == Init => Inv
  <1> SUFFICES ASSUME Init PROVE Inv
    OBVIOUS
  <1>1. TypeInv
    BY InitTypeInv
  <1>2. RowsInv /\ EndingInv /\ GoneInv /\ RecordInv
    BY NoneNames DEF Init, RowsInv, EndingInv, Ending, GoneInv, RecordInv, OpName
  <1>3. LockInv /\ IndexInv /\ ProbedInv /\ CountInv
    BY NoneNames DEF Init, LockInv, IndexInv, ProbedInv, CountInv, InSection,
       OpName
  <1>4. \A u : LiveOf(u) = {}
    BY DEF Init, LiveOf
  <1>5. Watching /\ Room
    BY DEF Init, Watching, Room
  <1>6. \A u : Cardinality(LiveOf(u)) = 0
    BY <1>4, FS_EmptySet
  <1>7. Limit
    BY <1>6, PlaybackAssumption DEF Limit
  <1> QED
    BY <1>1, <1>2, <1>3, <1>5, <1>7 DEF Inv, SlotInv

LEMMA InvStep == Inv /\ [Next]_vars => Inv'
  <1> SUFFICES ASSUME Inv, [Next]_vars PROVE Inv'
    OBVIOUS
  <1>1. TypeInv'
    BY TypeStep, ShapeStep, ListsStep DEF Inv, TypeInv
  <1>2. RowsInv' /\ EndingInv' /\ GoneInv' /\ RecordInv'
    BY RowsStep, EndingStep, GoneStep, RecordStep DEF Inv
  <1>3. LockInv'
    BY LockStep DEF Inv
  <1>4. IndexInv' /\ ProbedInv' /\ CountInv'
    BY IndexStep, ProbedStep, CountStep DEF Inv, TypeInv
  <1>5. SlotInv'
    BY SlotStep
  <1> QED
    BY <1>1, <1>2, <1>3, <1>4, <1>5 DEF Inv

LEMMA Invariance == Spec => []Inv
  BY InitInv, InvStep, PTL DEF Spec

\* Two openings of one account never run their section at once (runExclusive),
\* as long as no section outlived its lock.
THEOREM OneOpener == Spec => []OneOpenerPerUser
  <1>1. Inv => OneOpenerPerUser
    BY DEF Inv, LockInv, OneOpenerPerUser
  <1> QED
    BY Invariance, <1>1, PTL

\* The plan's limit on simultaneous streams holds for every number of accounts,
\* devices, requests and sessions, until one of the named windows opens.
THEOREM StreamLimitHolds == Spec => []StreamLimitUnlessHazard
  <1>1. Inv => StreamLimitUnlessHazard
    BY DEF Inv, SlotInv, Limit, StreamLimitUnlessHazard
  <1> QED
    BY Invariance, <1>1, PTL

\* The list of an account names every live session but the one being created,
\* until a window opens: what create, stop and listActive write loses none.
THEOREM EveryStreamIsCounted == Spec => []CountedOrCreating
  <1>1. Inv => CountedOrCreating
    BY DEF Inv, CountInv, Counted, CountedOrCreating
  <1> QED
    BY Invariance, <1>1, PTL

\* A revocation that walks the open rows meets every live session, unless one
\* was resurrected or orphaned.
THEOREM LiveSessionsAreRecorded == Spec => []LiveIsRecorded
  <1>1. Inv => LiveIsRecorded
    BY DEF Inv, RecordInv, Recorded, LiveIsRecorded
  <1> QED
    BY Invariance, <1>1, PTL

\* A step of a request that touches the key of a session is a step of its owner's.
LEMMA OwnerStep ==
  ASSUME Inv, [Next]_vars, hazard = {}, pc' # pc, NEW s \in Sid, sess'[s] # sess[s]
  PROVE  \E t \in Task : pc'[t] # pc[t] /\ user[t] = (info'[s]).user
  <1> DEFINE Own == \E t \in Task : pc'[t] # pc[t] /\ user[t] = (info'[s]).user
  <1> HIDE DEF Own
  <1>0. /\ \A t \in Task : pc[t] \in OwnSidPc => sid[t] \in Sid /\ OwnedBy(sid[t], user[t])
        /\ \A t \in Task : pc[t] \in {"stopMiss", "drop"} => sid[t] \in Sid /\ sess[sid[t]] = 0
        /\ TypeOK
    BY DEF Inv, TypeInv, Shape, AnySidPc, GoneInv
  <1>a. ASSUME NEW t \in Task, NEW l, Goto(t, l), l # pc[t], user[t] = (info'[s]).user
        PROVE  Own
    <2>1. pc'[t] = l
      BY <1>0, <1>a DEF Goto, Put, TypeOK
    <2> QED
      BY <1>a, <2>1 DEF Own
  <1>1. ASSUME NEW t \in Task, Lock(t)  PROVE Own
    BY <1>1 DEF Lock, store
  <1>2. ASSUME NEW t \in Task, GiveUp(t)  PROVE Own
    BY <1>2 DEF GiveUp, store
  <1>3. ASSUME NEW t \in Task, Unlock(t)  PROVE Own
    BY <1>3 DEF Unlock, store
  <1>4. ASSUME NEW t \in Task, Abort(t)  PROVE Own
    BY <1>4 DEF Abort, store
  <1>5. ASSUME NEW t \in Task, ReadIds(t)  PROVE Own
    BY <1>5 DEF ReadIds, store
  <1>6. ASSUME NEW t \in Task, ProbeLive(t)  PROVE Own
    BY <1>6 DEF ProbeLive, store
  <1>7. ASSUME NEW t \in Task, ProbeDead(t)  PROVE Own
    BY <1>7 DEF ProbeDead, store
  <1>8. ASSUME NEW t \in Task, DropDead(t)  PROVE Own
    <2>1. sid[t] \in Sid /\ sess[sid[t]] = 0 /\ DelKey(sid[t])
      BY <1>0, <1>8 DEF DropDead
    <2> QED
      BY <1>0, <2>1 DEF DelKey, TypeOK
  <1>9. ASSUME NEW t \in Task, AssertSlot(t)  PROVE Own
    BY <1>9 DEF AssertSlot, store, WriteLive
  <1>10. ASSUME NEW t \in Task, ReplyList(t)  PROVE Own
    BY <1>10 DEF ReplyList, store, WriteLive
  <1>11. ASSUME NEW t \in Task, StopListed(t)  PROVE Own
    BY <1>11 DEF StopListed, store, WriteLive
  <1>12. ASSUME NEW t \in Task, Create(t)  PROVE Own
    <2>1. PICK r \in Sid :
             /\ info' = [info EXCEPT ![r] = [user |-> user[t], dev |-> dev[t], media |-> media[t]]]
             /\ SetKey(r)
      BY <1>12 DEF Create
    <2>2. r = s /\ Goto(t, "createRec") /\ pc[t] = "create"
      BY <1>0, <1>12, <2>1 DEF Create, SetKey, TypeOK
    <2>3. (info'[s]).user = user[t]
      BY <1>0, <2>1, <2>2 DEF TypeOK
    <2> QED
      BY <1>a, <2>2, <2>3
  <1>13. ASSUME NEW t \in Task, OutOfIds(t)  PROVE Own
    BY <1>13 DEF OutOfIds, store
  <1>14. ASSUME NEW t \in Task, CreateRecord(t)  PROVE Own
    BY <1>14 DEF CreateRecord, store
  <1>15. ASSUME NEW t \in Task, AddReadIds(t)  PROVE Own
    BY <1>15 DEF AddReadIds, store
  <1>16. ASSUME NEW t \in Task, AddWrite(t)  PROVE Own
    BY <1>16 DEF AddWrite, store
  <1>17. ASSUME NEW t \in Task, Replace(t)  PROVE Own
    <2>1. sid[t] \in Sid /\ OwnedBy(sid[t], user[t]) /\ SetKey(sid[t]) /\ Goto(t, "replaceRec")
      BY <1>0, <1>17 DEF Replace, Move, Persist, OwnSidPc
    <2>2. sid[t] = s /\ UNCHANGED info /\ pc[t] = "replace"
      BY <1>0, <1>17, <2>1 DEF Replace, SetKey, TypeOK
    <2> QED
      BY <1>a, <2>1, <2>2 DEF OwnedBy
  <1>18. ASSUME NEW t \in Task, ReplaceRecord(t)  PROVE Own
    BY <1>18 DEF ReplaceRecord, store
  <1>19. ASSUME NEW t \in Task, Refuse(t)  PROVE Own
    BY <1>19 DEF Refuse, store
  <1>20. ASSUME NEW t \in Task, Get(t)  PROVE Own
    BY <1>20 DEF Get, store
  <1>21. ASSUME NEW t \in Task, Playable(t)  PROVE Own
    BY <1>21 DEF Playable, store
  <1>22. ASSUME NEW t \in Task, GetAgain(t)  PROVE Own
    BY <1>22 DEF GetAgain, store
  <1>23. ASSUME NEW t \in Task, Touch(t)  PROVE Own
    <2>1. sid[t] \in Sid /\ OwnedBy(sid[t], user[t]) /\ SetKey(sid[t]) /\ Goto(t, "touchRec")
      BY <1>0, <1>23 DEF Touch, Move, Persist, OwnSidPc
    <2>2. sid[t] = s /\ UNCHANGED info /\ pc[t] = "touch"
      BY <1>0, <1>23, <2>1 DEF Touch, SetKey, TypeOK
    <2> QED
      BY <1>a, <2>1, <2>2 DEF OwnedBy
  <1>24. ASSUME NEW t \in Task, TouchRecord(t)  PROVE Own
    BY <1>24 DEF TouchRecord, store
  <1>25. ASSUME NEW t \in Task, StopGet(t)  PROVE Own
    BY <1>25 DEF StopGet, store
  <1>26. ASSUME NEW t \in Task, StopMiss(t)  PROVE Own
    <2>1. sid[t] \in Sid /\ sess[sid[t]] = 0 /\ DelKey(sid[t])
      BY <1>0, <1>26 DEF StopMiss
    <2> QED
      BY <1>0, <2>1 DEF DelKey, TypeOK
  <1>27. ASSUME NEW t \in Task, StopDelete(t)  PROVE Own
    <2>1. sid[t] \in Sid /\ OwnedBy(sid[t], user[t]) /\ DelKey(sid[t]) /\ Goto(t, "stopIds")
      BY <1>0, <1>27 DEF StopDelete, Move, OwnSidPc
    <2>2. sid[t] = s /\ UNCHANGED info /\ pc[t] = "stopDel"
      BY <1>0, <1>27, <2>1 DEF StopDelete, DelKey, TypeOK
    <2> QED
      BY <1>a, <2>1, <2>2 DEF OwnedBy
  <1>28. ASSUME NEW t \in Task, StopReadIds(t)  PROVE Own
    BY <1>28 DEF StopReadIds, store
  <1>29. ASSUME NEW t \in Task, StopWrite(t)  PROVE Own
    BY <1>29 DEF StopWrite, store
  <1>30. ASSUME NEW t \in Task, StopRecord(t)  PROVE Own
    BY <1>30 DEF StopRecord, store
  <1>31. ASSUME NEW t \in Task, NextVictim(t)  PROVE Own
    BY <1>31 DEF NextVictim, store
  <1>32. ASSUME NEW t \in Task, EndLoop(t)  PROVE Own
    BY <1>32 DEF EndLoop, store
  <1>33. ASSUME NEW t \in Task, ReadRows(t)  PROVE Own
    BY <1>33 DEF ReadRows, store
  <1>34. ASSUME NEW t \in Task, RevokeGet(t)  PROVE Own
    BY <1>34 DEF RevokeGet, store
  <1>35. ASSUME NEW t \in Task, MarkRevoked(t)  PROVE Own
    BY <1>35 DEF MarkRevoked, store
  <1>36. ASSUME NEW t \in Task, ReadLiveRows(t)  PROVE Own
    BY <1>36 DEF ReadLiveRows, store
  <1>37. ASSUME NEW t \in Task, SweepGet(t)  PROVE Own
    BY <1>37 DEF SweepGet, store
  <1>38. ASSUME NEW t \in Task, SweepMark(t)  PROVE Own
    BY <1>38 DEF SweepMark, store
  <1>39. ASSUME NEW t \in Task, SweepEnd(t)  PROVE Own
    BY <1>39 DEF SweepEnd, store
  <1>40. ASSUME NEW t \in Task, Arrive(t)  PROVE Own
    BY <1>40, <1>0, ArriveFrame
  <1>41. ASSUME NEW m \in Media, Publish(m)  PROVE Own
    BY <1>41 DEF Publish
  <1>42. ASSUME Tick PROVE Own
    BY <1>42 DEF Tick, store
  <1>43. ASSUME Crash PROVE Own
    BY <1>43 DEF Crash, store
  <1>44. ASSUME UNCHANGED vars PROVE Own
    BY <1>44 DEF vars, store
  <1> QED
    BY <1>1, <1>2, <1>3, <1>4, <1>5, <1>6, <1>7, <1>8, <1>9, <1>10, <1>11, <1>12,
       <1>13, <1>14, <1>15, <1>16, <1>17, <1>18, <1>19, <1>20, <1>21, <1>22, <1>23,
       <1>24, <1>25, <1>26, <1>27, <1>28, <1>29, <1>30, <1>31, <1>32, <1>33, <1>34,
       <1>35, <1>36, <1>37, <1>38, <1>39, <1>40, <1>41, <1>42, <1>43, <1>44 DEF Own,
       Next, Serve, Open, List, Keep, Stop, Rows

\* Without a window a request changes the keys of no sessions but those of the account it
\* acts for, however many requests of however many accounts run at once.
THEOREM OwnersAct == Spec => OnlyTheOwnerActs
  <1>1. Inv /\ [Next]_vars =>
          [\A s \in Sid : hazard = {} /\ pc' # pc /\ sess'[s] # sess[s] =>
              \E t \in Task : pc'[t] # pc[t] /\ user[t] = (info'[s]).user]_vars
    BY OwnerStep
  <1> QED
    BY <1>1, Invariance, PTL DEF Spec, OnlyTheOwnerActs

LEMMA SlotsStep == Inv /\ Inv' /\ [Next]_vars => [Slots!Next]_(Slots!vars)
  <1> SUFFICES ASSUME Inv, Inv', [Next]_vars  PROVE Slots!Next \/ UNCHANGED Slots!vars
    OBVIOUS
  <1>1. CASE hazard' # {}
    <2>1. OwnerOf' \in [Sid -> User \cup {None}]
      <3> SUFFICES ASSUME NEW s \in Sid
                   PROVE  (IF Born(s) THEN info[s].user ELSE None)' \in User \cup {None}
        BY DEF OwnerOf
      <3>1. CASE Born(s)'
        BY <3>1 DEF Inv, TypeInv, TypeOK, Born, Info
      <3>2. CASE ~Born(s)'
        BY <3>2
      <3> QED
        BY <3>1, <3>2
    <2>2. Trusted' = FALSE
      BY <1>1 DEF Trusted
    <2>3. LiveSids' \in SUBSET Sid
      BY DEF LiveSids
    <2>4. Slots!Distrust
      BY <2>1, <2>2, <2>3 DEF Slots!Distrust
    <2> QED
      BY <2>4 DEF Slots!Next
  <1>2. CASE hazard' = {}
    <2>1. hazard = {} /\ (NoNewSession \/ \E k \in Task : Create(k))
      BY <1>2, NewSessionStep DEF Inv
    <2>2. Trusted /\ UNCHANGED Trusted
      BY <1>2, <2>1 DEF Trusted
    <2>3. CASE NoNewSession
      <3>1. LiveSids' \in SUBSET LiveSids
        BY <2>3 DEF NoNewSession, LiveSids
      <3>2. UNCHANGED OwnerOf
        BY <2>3 DEF NoNewSession, OwnerOf, Born
      <3>3. Slots!End
        BY <2>2, <3>1, <3>2 DEF Slots!End
      <3> QED
        BY <2>2, <3>3 DEF Slots!Next
    <2>4. ASSUME NEW t \in Task, Create(t)  PROVE Slots!Next
      <3>1. PICK s \in Sid :
               /\ ~Born(s)
               /\ info' = [info EXCEPT ![s] = [user |-> user[t], dev |-> dev[t], media |-> media[t]]]
               /\ sess' = [sess EXCEPT ![s] = SessionTtl]
        BY <2>4 DEF Create, SetKey
      <3>2. pc[t] = "create" /\ user[t] \in User
        BY <2>4 DEF Create, Inv, TypeInv, Shape, OpenPc, ForUser
      <3>3. OwnerOf[s] = None
        BY <3>1 DEF OwnerOf
      <3>4. [user |-> user[t], dev |-> dev[t], media |-> media[t]] # None
        <4>1. [user |-> user[t], dev |-> dev[t], media |-> media[t]] \in Info
          BY <3>2 DEF Info, Inv, TypeInv, Shape, OpenPc
        <4> QED
          BY <4>1, PlaybackAssumption
      <3>5. OwnerOf' = [OwnerOf EXCEPT ![s] = user[t]]
        BY <3>1, <3>4 DEF OwnerOf, Born, Inv, TypeInv, TypeOK
      <3>6. LiveSids' = LiveSids \cup {s}
        BY <3>1, PlaybackAssumption DEF LiveSids, Inv, TypeInv, TypeOK
      <3>7. Slots!HeldBy(user[t]) = LiveOf(user[t])
        BY <3>2, NoneNames DEF LiveOf, LiveSids, OwnerOf, Slots!HeldBy
      <3>8. Slots!Cardinality(Slots!HeldBy(user[t])) < MaxStreams
        <4>1. Slots!Cardinality(Slots!HeldBy(user[t])) = Cardinality(Slots!HeldBy(user[t]))
          BY Zenon DEF Slots!Cardinality, Cardinality
        <4> QED
          BY <2>1, <3>2, <3>7, <4>1 DEF Inv, SlotInv, Room
      <3>9. Slots!Admit(user[t], s)
        BY <2>2, <3>3, <3>5, <3>6, <3>8 DEF Slots!Admit
      <3> QED
        BY <2>2, <3>2, <3>9 DEF Slots!Next
    <2> QED
      BY <2>1, <2>3, <2>4
  <1> QED
    BY <1>1, <1>2

\* The handlers, their keys, lists and locks implement slots taken and freed in
\* one step, for every number of tasks, until a window opens.
THEOREM SlotsImplemented == Spec => ImplementsSlots
  <1>1. Init => Slots!Init
    <2> SUFFICES ASSUME Init PROVE Slots!Init
      OBVIOUS
    <2>1. LiveSids = {}
      BY DEF Init, LiveSids
    <2>2. OwnerOf = [s \in Sid |-> None]
      BY DEF Init, Born, OwnerOf
    <2>3. Trusted = TRUE
      BY DEF Init, Trusted
    <2> QED
      BY <2>1, <2>2, <2>3 DEF Slots!Init
  <1> QED
    BY Invariance, SlotsStep, <1>1, PTL DEF ImplementsSlots, Slots!Spec, Spec

=============================================================================
