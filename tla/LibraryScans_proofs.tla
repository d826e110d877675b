------------------------ MODULE LibraryScans_proofs ------------------------
(***************************************************************************)
(* Proofs about LibraryScans, for all values of its constants: types, and  *)
(* that a scan nothing disturbs leaves the catalogue true to the files,    *)
(* that it deletes no movie that can be played, and that no scan imports   *)
(* what the administrator deleted.                                         *)
(*                                                                         *)
(* LibInv is the inductive invariant.  Each action of a scan s takes its   *)
(* job from j to k (Goes), and the scans it is about are few: while nothing *)
(* overlaps, s is the only one that executes.                              *)
(***************************************************************************)
EXTENDS LibraryScans, TLAPS

Handling == {"match", "import", "attach", "save"}

(* What a scan has in hand while it is at a step: its job is j and the items are row. *)
Fits(j, row) ==
    /\ j.at \notin Handling \cup {"sweep", "drop", "erase"}
         => j.held = Idle.held /\ j.lost = {} /\ j.now = None
    /\ j.at \in Handling => /\ j.now \in Path /\ j.held[j.now] # None
                            /\ j.now \notin j.lost => row[j.now] # None
    /\ j.at \in {"attach", "save", "drop", "erase"} => j.link \in Movie
    /\ j.at = "sweep" => \A p \in j.left : /\ j.held[p] # None
                                           /\ p \notin j.lost => row[p] # None
    /\ j.at \in {"drop", "erase"} => j.left = {}

Shapes ==
    /\ \A s \in Scan : Fits(job[s], item)
    /\ ~ Up => \A s \in Scan : ~ Executing(s)
    /\ rem.at # "no" => rem.movie \in Movie

Sees(s, p) == item[p] # None /\ item[p].seen = s

(* Which scans run, alone or not; a scan that has not run has seen no item. *)
Runs ==
    /\ ~ overlap => \A s \in Scan : Executing(s) => ~ Others(s)
    /\ \A s \in calm : Executing(s) /\ ~ Others(s)
    /\ \A s \in Scan : Executing(s) => scan[s] # "queued"
    /\ \A s \in Scan : job[s].at \in {"starting", "created"} \/ (job[s].at \in {"ready", "taken"} /\ scan[s] = "queued")
                          => \A p \in Path : ~ Sees(s, p)

(* The file in hand of j: no other item has its content, its own is as it was. *)
Alone(j) ==
    LET p == j.now
        h == j.held[p]
    IN /\ \A q \in Path \ {p} : item[q] # None => item[q].hash # h.hash
       /\ item[p] # None => item[p].movie \in {None, h.movie}

Importable(j) ==
    LET p == j.now
        h == j.held[p]
    IN /\ Called(Named[p]) = {} /\ ~ Excluded(p, h.hash)
       /\ h.movie # None => cat[h.movie] = None

Barred ==
    /\ removed \subseteq excl.title
    /\ rem.at = "unlinked" /\ cat[rem.movie] # None => cat[rem.movie].title \in excl.title
    /\ ~ overlap => \A s \in Scan : /\ job[s].at \in {"match", "import"} => Alone(job[s])
                                    /\ job[s].at = "import" => Importable(job[s])

(* The file at p after s has dealt with it. *)
Good(s, p) ==
    \/ item[p] = None /\ Copied(p)
    \/ /\ Sees(s, p)
       /\ \/ item[p].ignored /\ item[p].movie = None
          \/ item[p].status = "duplicate" /\ Copied(p)
          \/ Served(p)

Absent(p) == item[p] = None \/ item[p].status \in {"missing", "duplicate"}

\* All but the paths in M are as the files are.
Truly(s, M) == \A p \in Path \ M : IF disk[p] = None THEN Absent(p) ELSE Good(s, p)

Dealt(s, M) == \A p \in Path \ M : disk[p] # None => Good(s, p)

InHand(s, j) ==
    LET p == j.now IN
    /\ item[p] = j.held[p] /\ j.held[p].seen = s /\ j.held[p].hash = disk[p]
    /\ j.at \in {"attach", "save"} => cat[j.link] # None
    /\ j.at = "save" => asset[p] = [movie |-> j.link, status |-> "ready"]

(* How far a scan that nothing disturbs has come. *)
Tidy(s, j) ==
    /\ j.lost = {}
    /\ \A p \in Path : Sees(s, p) => j.at # "list" /\ disk[p] # None
    /\ j.at = "walk" => Dealt(s, j.left)
    /\ j.at \in Handling => Dealt(s, j.left \cup {j.now}) /\ InHand(s, j)
    /\ j.at = "sweep" => /\ Truly(s, j.left)
                         /\ \A p \in j.left : /\ disk[p] = None /\ item[p] # None
                                              /\ item[p].status = j.held[p].status
    /\ j.at \in {"drop", "erase"} => Truly(s, {})
    /\ j.at = "drop" => Unplayable(cat, asset, j.link)
    /\ j.at = "erase" => \A p \in Path : item[p] # None => item[p].movie # j.link
    /\ j.at = "finish" => s \in flag \/ Truly(s, {})

LibInv == LibTypeOK /\ Shapes /\ Runs /\ Barred /\ \A s \in calm : Tidy(s, job[s])

-----------------------------------------------------------------------------
(* The operators of the model.                                             *)

LEMMA MergeItem ==
    ASSUME NEW h \in Item, NEW n \in Item, NEW c \in Item
    PROVE  /\ Merge(h, n, c) \in Item
           /\ n.hash = h.hash => Merge(h, n, c).hash = c.hash
           /\ n.seen = h.seen => Merge(h, n, c).seen = c.seen
           /\ Merge(h, n, c).movie \in {n.movie, c.movie}
           /\ h = c => Merge(h, n, c) = n
           /\ n.status # h.status => Merge(h, n, c).status = n.status
           /\ n.status = h.status => Merge(h, n, c).status = c.status
           /\ n.movie = h.movie => Merge(h, n, c).movie = c.movie
           /\ n.ignored = h.ignored => Merge(h, n, c).ignored = c.ignored
BY DEF Merge, Item

\* A refresh changes nothing but the availability of one movie.
LEMMA RefreshedKeeps ==
    ASSUME NEW c \in [Movie -> Film \cup {None}], NEW a, NEW m \in Movie \cup {None}
    PROVE  /\ Refreshed(c, a, m) \in [Movie -> Film \cup {None}]
           /\ \A n \in Movie : /\ Refreshed(c, a, m)[n] = None <=> c[n] = None
                               /\ c[n] # None => Refreshed(c, a, m)[n].title = c[n].title
                               /\ n # m => Refreshed(c, a, m)[n] = c[n]
  <1>1. CASE m = None \/ c[m] = None \/ c[m].avail = "coming"
    BY <1>1 DEF Refreshed
  <1>2. CASE ~ (m = None \/ c[m] = None \/ c[m].avail = "coming")
    <2>1. m \in Movie /\ c[m] \in Film
      BY <1>2
    <2>2. PICK v \in {"available", "unavailable"} : v = IF Playable(a, m) THEN "available" ELSE "unavailable"
      OBVIOUS
    <2>3. PICK f \in Film : f = c[m]
      BY <2>1
    <2>9. [f EXCEPT !.avail = v] \in Film /\ [f EXCEPT !.avail = v].title = f.title
      BY DEF Film
    <2>4. PICK g \in Film : g = [f EXCEPT !.avail = v] /\ g.title = f.title
      BY <2>9
    <2>5. Refreshed(c, a, m) = [c EXCEPT ![m] = g]
      BY <1>2, <2>2, <2>3, <2>4 DEF Refreshed
    <2>6. \A n \in Movie : [c EXCEPT ![m] = g][n] = IF n = m THEN g ELSE c[n]
      BY <2>1
    <2>7. g # None /\ f # None
      BY NoneIsNothing
    <2>8. [c EXCEPT ![m] = g] \in [Movie -> Film \cup {None}]
      BY <2>1
    <2> QED
      BY <2>1, <2>3, <2>4, <2>5, <2>6, <2>7, <2>8
  <1> QED
    BY <1>1, <1>2

\* A movie with a video that is ready is not unavailable after a refresh.
LEMMA RefreshedServes ==
    ASSUME NEW c \in [Movie -> Film \cup {None}], NEW a, NEW m \in Movie,
           NEW n \in Movie, NEW p \in Path,
           a[p] # None, a[p].movie = n, a[p].status = "ready", c[n] # None,
           n = m \/ c[n].avail # "unavailable"
    PROVE  Refreshed(c, a, m)[n].avail # "unavailable"
  <1>1. CASE n # m
    BY <1>1, RefreshedKeeps
  <1>2. CASE n = m /\ c[m].avail = "coming"
    BY <1>2 DEF Refreshed
  <1>3. CASE n = m /\ c[m].avail # "coming"
    <2>1. Playable(a, m)
      BY <1>3 DEF Playable, Videos
    <2>2. m # None
      BY NoneIsNothing
    <2>3. PICK f \in Film : f = c[m]
      BY <1>3
    <2>6. /\ [f EXCEPT !.avail = "available"] \in Film
          /\ [f EXCEPT !.avail = "available"].avail = "available"
      BY DEF Film
    <2>4. PICK g \in Film : g = [f EXCEPT !.avail = "available"] /\ g.avail = "available"
      BY <2>6
    <2>5. Refreshed(c, a, m) = [c EXCEPT ![m] = g]
      BY <1>3, <2>1, <2>2, <2>3, <2>4 DEF Refreshed
    <2> QED
      BY <1>3, <2>4, <2>5
  <1> QED
    BY <1>1, <1>2, <1>3

LEMMA WithoutItems ==
    ASSUME NEW rows \in [Path -> Item \cup {None}], NEW M
    PROVE  /\ Without(rows, M) \in [Path -> Item \cup {None}]
           /\ \A p \in Path : /\ Without(rows, M)[p] \in {rows[p], None}
                              /\ rows[p] # None => (Without(rows, M)[p] = rows[p] <=> rows[p].movie \notin M)
                              /\ rows[p] # None => (Without(rows, M)[p] = None <=> rows[p].movie \in M)
BY DEF Without

LEMMA WithoutAssets ==
    ASSUME NEW rows \in [Path -> Asset \cup {None}], NEW M
    PROVE  /\ Without(rows, M) \in [Path -> Asset \cup {None}]
           /\ \A p \in Path : /\ Without(rows, M)[p] \in {rows[p], None}
                              /\ rows[p] # None => (Without(rows, M)[p] = rows[p] <=> rows[p].movie \notin M)
                              /\ rows[p] # None => (Without(rows, M)[p] = None <=> rows[p].movie \in M)
BY DEF Without

LEMMA NothingMeans ==
    /\ \A x \in Path \cup Content \cup Movie \cup Item \cup Asset \cup Film : x # None
    /\ \A x \in Scan : x # Old
BY NoneIsNothing

LEMMA ExaminedKeeps ==
    ASSUME item \in [Path -> Item \cup {None}], NEW s \in Scan, NEW p \in Path, disk[p] \in Content
    PROVE  /\ Examined(s, p) \in Item \cup {None}
           /\ Examined(s, p) = None <=> item[p] = None /\ Twin(p)
           /\ Examined(s, p) # None => Examined(s, p).seen = s
           /\ ~ Twin(p) => Examined(s, p).hash = disk[p]
           /\ Twin(p) /\ item[p] # None => Examined(s, p).status = "duplicate"
  <1>1. CASE item[p] = None
    BY <1>1, NothingMeans DEF Examined, Item
  <1>2. CASE item[p] # None
    <2>1. PICK i \in Item : i = item[p]
      BY <1>2
    <2>2. PICK u \in Item, v \in Item :
             /\ u = [i EXCEPT !.seen = s, !.status = "duplicate"] /\ u.seen = s /\ u.status = "duplicate"
             /\ v = [i EXCEPT !.hash = disk[p], !.seen = s, !.status = "processing"]
             /\ v.seen = s /\ v.hash = disk[p]
      <3>1. [i EXCEPT !.seen = s, !.status = "duplicate"] \in Item
        BY DEF Item
      <3>2. [i EXCEPT !.hash = disk[p], !.seen = s, !.status = "processing"] \in Item
        BY DEF Item
      <3> QED
        BY <3>1, <3>2 DEF Item
    <2>3. Examined(s, p) = IF Twin(p) THEN u ELSE v
      BY <1>2, <2>1, <2>2 DEF Examined
    <2> QED
      BY <1>2, <2>2, <2>3, NothingMeans
  <1> QED
    BY <1>1, <1>2

LEMMA IdleJob ==
    /\ Idle \in Job
    /\ \A a \in Step : [Idle EXCEPT !.at = a] \in Job
    /\ \A a \in Step, L \in SUBSET Path : [Idle EXCEPT !.at = a, !.left = L] \in Job
    /\ \A a \in Step, L \in SUBSET Path, H \in [Path -> Item \cup {None}] :
          [Idle EXCEPT !.at = a, !.left = L, !.held = H] \in Job
    /\ Idle.at = "idle" /\ Idle.left = {} /\ Idle.lost = {} /\ Idle.now = None
  <1>1. Idle = [at |-> "idle", left |-> {}, held |-> [p \in Path |-> None], lost |-> {},
         now |-> None, link |-> None, doomed |-> {}]
    BY DEF Idle
  <1>2. PICK N \in [Path -> Item \cup {None}] : N = [p \in Path |-> None]
    OBVIOUS
  <1>3. Idle = [at |-> "idle", left |-> {}, held |-> N, lost |-> {},
         now |-> None, link |-> None, doomed |-> {}]
    BY <1>1, <1>2
  <1>4. Idle \in Job
    BY <1>3 DEF Job, Step, Asking
  <1>5. PICK i \in Job : i = Idle
    BY <1>4
  <1>6. \A a \in Step : [i EXCEPT !.at = a] \in Job
    BY DEF Job
  <1>7. \A a \in Step, L \in SUBSET Path : [i EXCEPT !.at = a, !.left = L] \in Job
    BY DEF Job
  <1>8. \A a \in Step, L \in SUBSET Path, H \in [Path -> Item \cup {None}] :
          [i EXCEPT !.at = a, !.left = L, !.held = H] \in Job
    BY DEF Job
  <1>9. Idle.at = "idle" /\ Idle.left = {} /\ Idle.lost = {} /\ Idle.now = None
    BY DEF Idle
  <1> QED
    BY <1>4, <1>5, <1>6, <1>7, <1>8, <1>9

-----------------------------------------------------------------------------
(* A step of one scan, and what it owes to the invariant.                  *)

\* The job of s goes from j to k; the others stay at their step, or as they are.
Leads(s, j, k) ==
    /\ j \in Job /\ k \in Job /\ job[s] = j /\ job'[s] = k
    /\ job' \in [Scan -> Job] /\ \A t \in Scan : t # s => job'[t].at = job[t].at

Goes(s, j, k) == Leads(s, j, k) /\ \A t \in Scan : t # s => job'[t] = job[t]

LEMMA JobGoes ==
    ASSUME job \in [Scan -> Job], NEW s \in Scan, NEW j \in Job, NEW k \in Job,
           job[s] = j, job' = [job EXCEPT ![s] = k]
    PROVE  Goes(s, j, k)
BY DEF Goes, Leads

Running(j) == j.at \notin Asking

\* What the job of an executing scan may do to the rest.
Does(s, j, k) ==
    /\ Goes(s, j, k) /\ Running(j) /\ Up /\ life' = life /\ rem' = rem
    /\ Running(k) \/ (k.at \in {"idle", "gone"} /\ s \notin calm')
    /\ calm' \subseteq calm /\ overlap' = overlap /\ excl' = excl /\ removed' = removed
    /\ \A t \in Scan : t # s => scan'[t] = scan[t]
    /\ Running(k) => scan'[s] # "queued"
    /\ \A t \in Scan, p \in Path : t # s /\ Sees(t, p)' => Sees(t, p)
    /\ \A p \in Path : item[p] # None => item'[p] # None
    /\ \A m \in Movie : cat[m] # None /\ cat'[m] # None => cat'[m].title = cat[m].title
    /\ rem.at = "unlinked" /\ cat[rem.movie] = None => cat'[rem.movie] = None
    /\ Fits(k, item')
    /\ ~ overlap /\ k.at \in {"match", "import"} => Alone(k)'
    /\ ~ overlap /\ k.at = "import" => Importable(k)'
    /\ s \in calm' => Tidy(s, k)'

LEMMA ShapesStep ==
    ASSUME Shapes, NEW s \in Scan, NEW j, NEW k, Goes(s, j, k), Fits(k, item'),
           Up, life' = life, rem' = rem,
           \A p \in Path : item[p] # None => item'[p] # None
    PROVE  Shapes'
  <1>1. ASSUME NEW t \in Scan PROVE Fits(job'[t], item')
    <2>1. CASE t = s
      BY <2>1 DEF Goes, Leads
    <2>2. CASE t # s
      <3>1. Fits(job[t], item) /\ job'[t] = job[t]
        BY <2>2 DEF Shapes, Goes, Leads
      <3>2. job[t] \in Job
        BY <2>2, <3>1 DEF Goes, Leads
      <3>3. PICK i \in Job : i = job[t]
        BY <3>2
      <3> QED
        BY <3>1, <3>3 DEF Fits, Job
    <2> QED
      BY <2>1, <2>2
  <1> QED
    BY <1>1 DEF Shapes, Up

LEMMA RunsStep ==
    ASSUME Runs, job \in [Scan -> Job], NEW s \in Scan, NEW j, NEW k, Leads(s, j, k), Running(j),
           Running(k) \/ (k.at \in {"idle", "gone"} /\ s \notin calm'),
           calm' \subseteq calm, calm \subseteq Scan, overlap' = overlap,
           \A t \in Scan : t # s => scan'[t] = scan[t],
           Running(k) => scan'[s] # "queued",
           \A t \in Scan, p \in Path : t # s /\ Sees(t, p)' => Sees(t, p)
    PROVE  Runs'
  <1>1. Executing(s) /\ \A t \in Scan : Executing(t)' => Executing(t)
    BY DEF Executing, Leads, Running
  <1>2. \A t \in Scan : Others(t)' => Others(t)
    BY <1>1 DEF Others
  <1>3. ~ overlap' => \A t \in Scan : Executing(t)' => ~ Others(t)'
    BY <1>1, <1>2 DEF Runs
  <1>4. \A t \in calm' : Executing(t)' /\ ~ Others(t)'
    <2>1. \A t \in calm' : ~ Others(t)'
      BY <1>2 DEF Runs
    <2>2. \A t \in calm' : Executing(t)'
      BY DEF Runs, Executing, Leads, Running
    <2> QED
      BY <2>1, <2>2
  <1>5. \A t \in Scan : Executing(t)' => scan'[t] # "queued"
    BY DEF Executing, Leads, Running, Runs
  <1>6. \A t \in Scan : job'[t].at \in {"starting", "created"} \/ (job'[t].at \in {"ready", "taken"} /\ scan'[t] = "queued")
                          => \A p \in Path : ~ Sees(t, p)'
    <2> TAKE t \in Scan
    <2>1. CASE t = s
      BY <2>1 DEF Leads, Running, Asking
    <2>2. CASE t # s
      BY <2>2 DEF Leads, Runs
    <2> QED
      BY <2>1, <2>2
  <1> QED
    BY <1>3, <1>4, <1>5, <1>6 DEF Runs

LEMMA BarredStep ==
    ASSUME Barred, Runs, Shapes, NEW s \in Scan, NEW j, NEW k, Leads(s, j, k), Running(j),
           overlap' = overlap, excl' = excl, removed' = removed, rem' = rem,
           \A m \in Movie : cat[m] # None /\ cat'[m] # None => cat'[m].title = cat[m].title,
           rem.at = "unlinked" /\ cat[rem.movie] = None => cat'[rem.movie] = None,
           ~ overlap /\ k.at \in {"match", "import"} => Alone(k)',
           ~ overlap /\ k.at = "import" => Importable(k)'
    PROVE  Barred'
  <1>1. rem'.at = "unlinked" /\ cat'[rem'.movie] # None => cat'[rem'.movie].title \in excl'.title
    BY DEF Barred, Shapes
  <1>2. ASSUME ~ overlap', NEW t \in Scan
        PROVE  /\ job'[t].at \in {"match", "import"} => Alone(job[t])'
               /\ job'[t].at = "import" => Importable(job[t])'
    <2>1. CASE t = s
      BY <1>2, <2>1 DEF Leads
    <2>2. CASE t # s
      <3>1. ~ Executing(t)
        BY <1>2, <2>2 DEF Runs, Executing, Others, Leads, Running
      <3>2. job'[t].at \in Asking
        BY <2>2, <3>1 DEF Executing, Leads
      <3> QED
        BY <3>2 DEF Asking
    <2> QED
      BY <2>1, <2>2
  <1> QED
    BY <1>1, <1>2 DEF Barred

LEMMA TidyStep ==
    ASSUME Runs, NEW s \in Scan, NEW j, NEW k, Leads(s, j, k), Running(j), calm' \subseteq calm,
           calm \subseteq Scan, s \in calm' => Tidy(s, k)'
    PROVE  \A t \in calm' : Tidy(t, job[t])'
  <1> TAKE t \in calm'
  <1>1. t = s
    BY DEF Runs, Others, Executing, Leads, Running
  <1> QED
    BY <1>1 DEF Leads

LEMMA LibDoes ==
    ASSUME LibInv, NEW s \in Scan, NEW j, NEW k, Does(s, j, k), LibTypeOK'
    PROVE  LibInv'
  <1>0. Leads(s, j, k)
    BY DEF Does, Goes
  <1>1. Shapes'
    BY ShapesStep DEF LibInv, Does
  <1>2. Runs'
    BY <1>0, RunsStep DEF LibInv, LibTypeOK, Does
  <1>3. Barred'
    BY <1>0, BarredStep DEF LibInv, Does
  <1>4. \A t \in calm' : Tidy(t, job[t])'
    BY <1>0, TidyStep DEF LibInv, LibTypeOK, Does
  <1> QED
    BY <1>1, <1>2, <1>3, <1>4 DEF LibInv

-----------------------------------------------------------------------------
(* Steps that change the jobs only.                                        *)

\* What the invariant says of a scan that executes.
Stands(s, j) ==
    /\ j \in Job /\ job[s] = j /\ Running(j) /\ Fits(j, item)
    /\ Up /\ scan[s] # "queued"
    /\ s \in calm => Tidy(s, j)
    /\ ~ overlap /\ j.at \in {"match", "import"} => Alone(j)
    /\ ~ overlap /\ j.at = "import" => Importable(j)

LEMMA Here ==
    ASSUME LibInv, NEW s \in Scan, job[s].at \notin Asking
    PROVE  Stands(s, job[s])
BY DEF LibInv, Stands, Running, Shapes, Runs, Barred, Executing, LibTypeOK

LEMMA Unmoved ==
    ASSUME item' = item, asset' = asset, cat' = cat, disk' = disk
    PROVE  /\ \A s \in Scan, p \in Path : /\ Sees(s, p)' <=> Sees(s, p)
                                          /\ Good(s, p)' <=> Good(s, p)
           /\ \A p \in Path : Absent(p)' <=> Absent(p)
           /\ \A s \in Scan : \A M \in SUBSET Path : /\ Truly(s, M)' <=> Truly(s, M)
                                                     /\ Dealt(s, M)' <=> Dealt(s, M)
           /\ \A s \in Scan, j \in Job : InHand(s, j)' <=> InHand(s, j)
           /\ \A j \in Job : /\ Alone(j)' <=> Alone(j)
                             /\ excl' = excl => (Importable(j)' <=> Importable(j))
           /\ \A j \in Job : Fits(j, item') <=> Fits(j, item)
  <1>1. \A s \in Scan, p \in Path : /\ Sees(s, p)' <=> Sees(s, p)
                                    /\ Good(s, p)' <=> Good(s, p)
    BY DEF Sees, Good, Served, Copied
  <1>2. \A p \in Path : Absent(p)' <=> Absent(p)
    BY DEF Absent
  <1>3. \A s \in Scan : \A M \in SUBSET Path : /\ Truly(s, M)' <=> Truly(s, M)
                                               /\ Dealt(s, M)' <=> Dealt(s, M)
    BY <1>1, <1>2 DEF Truly, Dealt
  <1>4. \A s \in Scan, j \in Job : InHand(s, j)' <=> InHand(s, j)
    BY DEF InHand
  <1>5. \A j \in Job : Alone(j)' <=> Alone(j)
    BY DEF Alone
  <1>6. \A j \in Job : excl' = excl => (Importable(j)' <=> Importable(j))
    BY DEF Importable, Called, Excluded
  <1> QED
    BY <1>1, <1>2, <1>3, <1>4, <1>5, <1>6

\* A scan's step that leaves rows and files alone.
Moves(s, j, k) ==
    /\ Stands(s, j) /\ Goes(s, j, k) /\ Running(k) /\ calm' \subseteq calm
    /\ UNCHANGED <<queue, life, disk, item, asset, cat, excl, scan, flag, asked, rem, events, overlap, removed>>
    /\ Fits(k, item)
    /\ ~ overlap /\ k.at \in {"match", "import"} => Alone(k)
    /\ ~ overlap /\ k.at = "import" => Importable(k)
    /\ s \in calm' => Tidy(s, k)

LEMMA LibMoves ==
    ASSUME LibInv, NEW s \in Scan, NEW j, NEW k, Moves(s, j, k)
    PROVE  LibInv'
  <1>1. k \in Job
    BY DEF Moves, Goes, Leads
  <1>2. LibTypeOK'
    BY DEF LibInv, LibTypeOK, Moves, Goes, Leads
  <1>3. s \in calm' => Tidy(s, k)'
    <2>1. k.left \in SUBSET Path /\ k.left \cup {k.now} \in SUBSET (Path \cup {None})
      BY <1>1 DEF Job
    <2>2. k.at \in Handling => k.left \cup {k.now} \in SUBSET Path
      BY <2>1 DEF Moves, Fits
    <2>3. Unplayable(cat', asset', k.link) <=> Unplayable(cat, asset, k.link)
      BY DEF Moves
    <2> HAVE s \in calm'
    <2>4. Tidy(s, k)
      BY DEF Moves
    <2> QED
      BY <1>1, <2>1, <2>2, <2>3, <2>4, Unmoved DEF Tidy, Moves
  <1>4. Does(s, j, k)
    BY <1>1, <1>3, Unmoved DEF Does, Moves, Stands, Sees
  <1> QED
    BY <1>2, <1>4, LibDoes

LEMMA ListKeeps ==
    ASSUME LibInv, NEW s \in Scan, List(s)
    PROVE  LibInv'
  <1>1. PICK j : Stands(s, j) /\ j.at = "list"
    BY Here DEF List, Asking
  <1>2. job \in [Scan -> Job] /\ j \in Job /\ calm \subseteq Scan
    BY <1>1 DEF LibInv, LibTypeOK, Stands
  <1>3. CASE s \in flag
    <2>1. PICK k \in Job : /\ k = [j EXCEPT !.at = "finish"] /\ k.at = "finish" /\ k.left = j.left
                           /\ k.held = j.held /\ k.lost = j.lost /\ k.now = j.now
      <3>1. [j EXCEPT !.at = "finish"] \in Job
        BY <1>2 DEF Job, Step
      <3> QED
        BY <1>2, <3>1 DEF Job
    <2>2. job' = [job EXCEPT ![s] = k]
      BY <1>1, <1>2, <1>3, <2>1 DEF List, To, Stands
    <2>3. Goes(s, j, k)
      BY <1>1, <1>2, <2>2, JobGoes DEF Stands
    <2>4. Fits(k, item)
      BY <1>1, <2>1 DEF Stands, Fits, Handling
    <2>5. s \in calm' => Tidy(s, k)
      BY <1>1, <1>3, <2>1 DEF Stands, Tidy, Handling, List
    <2>6. Moves(s, j, k)
      BY <1>1, <1>3, <2>1, <2>3, <2>4, <2>5 DEF Moves, Running, List, Asking
    <2> QED
      BY <2>6, LibMoves
  <1>4. CASE s \notin flag
    <2>1. PICK whole \in BOOLEAN :
             /\ job' = [job EXCEPT ![s].at = "walk", ![s].left =
                           IF whole THEN {p \in Path : disk[p] # None} ELSE {}]
             /\ calm' = IF whole THEN calm ELSE calm \ {s}
      BY <1>4 DEF List
    <2>2. PICK L \in SUBSET Path : L = IF whole THEN {p \in Path : disk[p] # None} ELSE {}
      OBVIOUS
    <2>3. PICK k \in Job : /\ k = [j EXCEPT !.at = "walk", !.left = L] /\ k.at = "walk" /\ k.left = L
                           /\ k.held = j.held /\ k.lost = j.lost /\ k.now = j.now
      <3>1. [j EXCEPT !.at = "walk", !.left = L] \in Job
        BY <1>2 DEF Job, Step
      <3> QED
        BY <1>2, <3>1 DEF Job
    <2>4. job' = [job EXCEPT ![s] = k]
      BY <1>1, <1>2, <2>1, <2>2, <2>3 DEF Stands
    <2>5. Goes(s, j, k)
      BY <1>1, <1>2, <2>4, JobGoes DEF Stands
    <2>6. Fits(k, item)
      BY <1>1, <2>3 DEF Stands, Fits, Handling
    <2>7. s \in calm' => Tidy(s, k)
      <3> HAVE s \in calm'
      <3>1. whole /\ s \in calm
        BY <2>1
      <3>2. Tidy(s, j)
        BY <1>1, <3>1 DEF Stands
      <3>3. Dealt(s, L)
        BY <2>2, <3>1 DEF Dealt
      <3> QED
        BY <1>1, <2>3, <3>2, <3>3 DEF Tidy, Handling
    <2>8. Moves(s, j, k)
      BY <1>1, <2>1, <2>3, <2>5, <2>6, <2>7 DEF Moves, Running, List, Asking
    <2> QED
      BY <2>8, LibMoves
  <1> QED
    BY <1>3, <1>4

LEMMA UnreadKeeps ==
    ASSUME LibInv, NEW s \in Scan, Unread(s)
    PROVE  LibInv'
  <1>1. PICK j : Stands(s, j) /\ j.at = "walk"
    BY Here DEF Unread, Asking
  <1>2. job \in [Scan -> Job] /\ j \in Job /\ calm \subseteq Scan
    BY <1>1 DEF LibInv, LibTypeOK, Stands
  <1>3. PICK p \in j.left : job' = [job EXCEPT ![s].left = @ \ {p}]
    BY <1>1 DEF Unread, Stands
  <1>4. PICK k \in Job : /\ k = [j EXCEPT !.left = j.left \ {p}] /\ k.at = "walk" /\ k.left = j.left \ {p}
                         /\ k.held = j.held /\ k.lost = j.lost /\ k.now = j.now
    <2>1. [j EXCEPT !.left = j.left \ {p}] \in Job
      BY <1>2 DEF Job
    <2> QED
      BY <1>1, <1>2, <2>1 DEF Job
  <1>5. job' = [job EXCEPT ![s] = k]
    BY <1>1, <1>2, <1>3, <1>4 DEF Stands
  <1>6. Goes(s, j, k)
    BY <1>1, <1>2, <1>5, JobGoes DEF Stands
  <1>7. Fits(k, item)
    BY <1>1, <1>4 DEF Stands, Fits, Handling
  <1>8. Moves(s, j, k)
    BY <1>1, <1>4, <1>6, <1>7 DEF Moves, Running, Unread, Asking
  <1> QED
    BY <1>8, LibMoves

\* The scan is through with its files; those it has not seen are gone.
LEMMA SweepKeeps ==
    ASSUME LibInv, NEW s \in Scan, Sweep(s)
    PROVE  LibInv'
  <1>1. PICK j : Stands(s, j) /\ j.at = "walk"
    BY Here DEF Sweep, Asking
  <1>2. job \in [Scan -> Job] /\ j \in Job /\ calm \subseteq Scan /\ item \in [Path -> Item \cup {None}]
    BY <1>1 DEF LibInv, LibTypeOK, Stands
  <1>3. CASE s \in flag /\ job' = To(s, "finish")
    <2>1. PICK k \in Job : /\ k = [j EXCEPT !.at = "finish"] /\ k.at = "finish" /\ k.left = j.left
                           /\ k.held = j.held /\ k.lost = j.lost /\ k.now = j.now
      <3>1. [j EXCEPT !.at = "finish"] \in Job
        BY <1>2 DEF Job, Step
      <3> QED
        BY <1>2, <3>1 DEF Job
    <2>2. job' = [job EXCEPT ![s] = k]
      BY <1>1, <1>2, <1>3, <2>1 DEF To, Stands
    <2>3. Goes(s, j, k)
      BY <1>1, <1>2, <2>2, JobGoes DEF Stands
    <2>4. Fits(k, item)
      BY <1>1, <2>1 DEF Stands, Fits, Handling
    <2>5. s \in calm' => Tidy(s, k)
      BY <1>1, <1>3, <2>1 DEF Stands, Tidy, Handling, Sweep, history
    <2>6. Moves(s, j, k)
      BY <1>1, <1>3, <2>1, <2>3, <2>4, <2>5 DEF Moves, Running, Sweep, Asking, history
    <2> QED
      BY <2>6, LibMoves
  <1>4. CASE ~ (s \in flag /\ job' = To(s, "finish"))
    <2>1. /\ s \notin flag /\ job[s].left = {}
          /\ job' = [job EXCEPT ![s] = [Idle EXCEPT !.at = "sweep", !.left = Unseen(s),
                         !.held = [p \in Path |-> IF p \in Unseen(s) THEN item[p] ELSE None]]]
      BY <1>4 DEF Sweep
    <2>2. PICK U \in SUBSET Path, H \in [Path -> Item \cup {None}] :
             U = Unseen(s) /\ H = [p \in Path |-> IF p \in Unseen(s) THEN item[p] ELSE None]
      BY <1>2 DEF Unseen
    <2>3. PICK u \in Job : u = [Idle EXCEPT !.at = "sweep", !.left = U, !.held = H]
      BY IdleJob DEF Step
    <2>4. /\ job' = [job EXCEPT ![s] = u]
          /\ u.at = "sweep" /\ u.left = U /\ u.held = H /\ u.lost = {} /\ u.now = None
      <3>1. PICK i \in Job : i = Idle
        BY IdleJob
      <3> QED
        BY <2>1, <2>2, <2>3, <3>1, IdleJob DEF Job
    <2>5. Goes(s, j, u)
      BY <1>1, <1>2, <2>4, JobGoes DEF Stands
    <2>6. Fits(u, item)
      BY <2>2, <2>4 DEF Fits, Handling, Unseen
    <2>7. s \in calm' => Tidy(s, u)
      <3> HAVE s \in calm'
      <3>1. Tidy(s, j) /\ j.left = {}
        BY <1>1, <2>1 DEF Stands, Sweep, history
      <3>2. Dealt(s, {})
        BY <1>1, <3>1 DEF Tidy
      <3>3. \A p \in Path : Sees(s, p) => disk[p] # None
        BY <3>1 DEF Tidy
      <3>4. \A p \in Unseen(s) : disk[p] = None /\ item[p] # None /\ item[p].status = u.held[p].status
        BY <2>2, <2>4, <3>2 DEF Unseen, Dealt, Good, Sees
      <3>5. Truly(s, Unseen(s))
        BY <3>2, <3>3 DEF Truly, Unseen, Dealt, Absent, Sees
      <3> QED
        BY <2>2, <2>4, <3>3, <3>4, <3>5 DEF Tidy, Handling
    <2>8. Moves(s, j, u)
      BY <1>1, <2>1, <2>4, <2>5, <2>6, <2>7 DEF Moves, Running, Sweep, Asking, history
    <2> QED
      BY <2>8, LibMoves
  <1> QED
    BY <1>3, <1>4

LEMMA JudgeKeeps ==
    ASSUME LibInv, NEW s \in Scan, Judge(s)
    PROVE  LibInv'
  <1>1. PICK j : Stands(s, j) /\ j.at = "sweep" /\ j.left = {}
    BY Here DEF Judge, Asking, Stands
  <1>2. job \in [Scan -> Job] /\ j \in Job /\ calm \subseteq Scan
    BY <1>1 DEF LibInv, LibTypeOK, Stands
  <1>3. PICK m \in j.doomed :
          job' = IF Unplayable(cat, asset, m)
                 THEN [job EXCEPT ![s].doomed = @ \ {m}, ![s].at = "drop", ![s].link = m]
                 ELSE [job EXCEPT ![s].doomed = @ \ {m}]
    BY <1>1 DEF Judge, Stands
  <1>4. m \in Movie
    BY <1>2 DEF Job
  <1>5. s \in calm' => Tidy(s, j)
    BY <1>1 DEF Stands, Judge, history
  <1>6. CASE Unplayable(cat, asset, m)
    <2>1. PICK k \in Job : /\ k = [j EXCEPT !.doomed = j.doomed \ {m}, !.at = "drop", !.link = m]
                           /\ k.at = "drop" /\ k.left = j.left /\ k.link = m
                           /\ k.held = j.held /\ k.lost = j.lost /\ k.now = j.now
      <3>1. [j EXCEPT !.doomed = j.doomed \ {m}, !.at = "drop", !.link = m] \in Job
        BY <1>2, <1>4 DEF Job, Step
      <3> QED
        BY <1>2, <3>1 DEF Job
    <2>2. job' = [job EXCEPT ![s] = k]
      BY <1>1, <1>2, <1>3, <1>6, <2>1 DEF Stands
    <2>3. Goes(s, j, k)
      BY <1>1, <1>2, <2>2, JobGoes DEF Stands
    <2>4. Fits(k, item)
      BY <1>1, <1>4, <2>1 DEF Stands, Fits, Handling
    <2>5. s \in calm' => Tidy(s, k)
      BY <1>1, <1>5, <1>6, <2>1 DEF Tidy, Handling
    <2>6. Moves(s, j, k)
      BY <1>1, <2>1, <2>3, <2>4, <2>5 DEF Moves, Running, Judge, Asking, history
    <2> QED
      BY <2>6, LibMoves
  <1>7. CASE ~ Unplayable(cat, asset, m)
    <2>1. PICK k \in Job : /\ k = [j EXCEPT !.doomed = j.doomed \ {m}]
                           /\ k.at = "sweep" /\ k.left = j.left /\ k.link = j.link
                           /\ k.held = j.held /\ k.lost = j.lost /\ k.now = j.now
      <3>1. [j EXCEPT !.doomed = j.doomed \ {m}] \in Job
        BY <1>2 DEF Job
      <3> QED
        BY <1>1, <1>2, <3>1 DEF Job
    <2>2. job' = [job EXCEPT ![s] = k]
      BY <1>1, <1>2, <1>3, <1>7, <2>1 DEF Stands
    <2>3. Goes(s, j, k)
      BY <1>1, <1>2, <2>2, JobGoes DEF Stands
    <2>4. Fits(k, item)
      BY <1>1, <2>1 DEF Stands, Fits, Handling
    <2>5. s \in calm' => Tidy(s, k)
      BY <1>1, <1>5, <2>1 DEF Tidy, Handling
    <2>6. Moves(s, j, k)
      BY <1>1, <2>1, <2>3, <2>4, <2>5 DEF Moves, Running, Judge, Asking, history
    <2> QED
      BY <2>6, LibMoves
  <1> QED
    BY <1>6, <1>7

LEMMA SweptKeeps ==
    ASSUME LibInv, NEW s \in Scan, Swept(s)
    PROVE  LibInv'
  <1>1. PICK j : Stands(s, j) /\ j.at = "sweep" /\ j.left = {}
    BY Here DEF Swept, Asking, Stands
  <1>2. job \in [Scan -> Job] /\ j \in Job /\ calm \subseteq Scan
    BY <1>1 DEF LibInv, LibTypeOK, Stands
  <1>3. PICK k \in Job : k = [Idle EXCEPT !.at = "finish"] /\ k.at = "finish" /\ k.left = {}
                         /\ k.held = Idle.held /\ k.lost = {} /\ k.now = None
    <2>1. PICK i \in Job : i = Idle
      BY IdleJob
    <2>2. [i EXCEPT !.at = "finish"] \in Job
      BY DEF Job, Step
    <2> QED
      BY <2>1, <2>2, IdleJob DEF Job
  <1>4. Goes(s, j, k)
    BY <1>1, <1>2, <1>3, JobGoes DEF Stands, Swept
  <1>5. Fits(k, item)
    BY <1>3 DEF Fits, Handling
  <1>6. s \in calm' => Tidy(s, k)
    BY <1>1, <1>3 DEF Stands, Swept, history, Tidy, Handling
  <1>7. Moves(s, j, k)
    BY <1>1, <1>3, <1>4, <1>5, <1>6 DEF Moves, Running, Swept, Asking, history
  <1> QED
    BY <1>7, LibMoves

-----------------------------------------------------------------------------
(* Steps that deal with a file.                                            *)

LEMMA GoodStays ==
    ASSUME NEW s \in Scan, NEW p \in Path, Good(s, p), disk' = disk,
           item'[p] = item[p], asset'[p] = asset[p],
           Served(p) => /\ cat'[item[p].movie] # None
                        /\ cat'[item[p].movie].avail # "unavailable"
    PROVE  Good(s, p)'
  <1>1. Copied(p)' <=> Copied(p)
    BY DEF Copied
  <1>2. Sees(s, p)' <=> Sees(s, p)
    BY DEF Sees
  <1>3. Served(p) => Served(p)'
    BY DEF Served
  <1> QED
    BY <1>1, <1>2, <1>3 DEF Good

LEMMA ExamineKeeps ==
    ASSUME LibInv, NEW s \in Scan, Examine(s)
    PROVE  LibInv'
  <1>1. PICK j : Stands(s, j) /\ j.at = "walk"
    BY Here DEF Examine, Asking
  <1>2. LibTypeOK /\ job \in [Scan -> Job] /\ j \in Job /\ calm \subseteq Scan /\ item \in [Path -> Item \cup {None}]
    BY <1>1 DEF LibInv, LibTypeOK, Stands
  <1>3. PICK p \in j.left :
          /\ disk[p] # None
          /\ item' = [item EXCEPT ![p] = Examined(s, p)]
          /\ job' = IF Twin(p) THEN [job EXCEPT ![s].left = @ \ {p}]
                    ELSE [job EXCEPT ![s].left = @ \ {p}, ![s].at = "match", ![s].now = p,
                                     ![s].held = [@ EXCEPT ![p] = item'[p]]]
          /\ calm' = IF Moved(p) THEN calm \ {s} ELSE calm
    BY <1>1 DEF Examine, Stands
  <1>4. /\ Up /\ s \notin flag
        /\ UNCHANGED <<queue, life, disk, asset, cat, excl, scan, flag, asked, rem, events, overlap, removed>>
    BY DEF Examine
  <1>5. p \in Path /\ disk[p] \in Content
    BY <1>2, <1>3 DEF Job, LibTypeOK
  <1>6. PICK E \in Item \cup {None} : E = Examined(s, p)
    BY <1>2, <1>5, ExaminedKeeps
  <1>7. /\ E = None <=> item[p] = None /\ Twin(p)
        /\ E # None => E.seen = s
        /\ ~ Twin(p) => E.hash = disk[p]
        /\ Twin(p) /\ item[p] # None => E.status = "duplicate"
    BY <1>2, <1>5, <1>6, ExaminedKeeps
  <1>8. /\ item' \in [Path -> Item \cup {None}]
        /\ item'[p] = E /\ \A q \in Path : q # p => item'[q] = item[q]
    BY <1>2, <1>3, <1>5, <1>6
  <1>9. /\ \A t \in Scan, q \in Path : t # s /\ Sees(t, q)' => Sees(t, q)
        /\ \A q \in Path : item[q] # None => item'[q] # None
    BY <1>7, <1>8 DEF Sees
  <1>10. s \in calm' => /\ Tidy(s, j) /\ \A q \in Path : Sees(s, q)' => disk'[q] # None
                        /\ \A q \in Path : q \notin j.left /\ disk'[q] # None => Good(s, q)'
    <2> HAVE s \in calm'
    <2>1. Tidy(s, j)
      BY <1>1, <1>3 DEF Stands
    <2>2. \A q \in Path : Sees(s, q)' => disk'[q] # None
      BY <1>3, <1>4, <1>8, <2>1 DEF Tidy, Sees
    <2>3. ASSUME NEW q \in Path, q \notin j.left, disk'[q] # None PROVE Good(s, q)'
      <3>1. Good(s, q) /\ q # p
        BY <1>1, <1>3, <1>4, <2>1, <2>3 DEF Tidy, Dealt
      <3>2. Served(q) => cat'[item[q].movie] # None /\ cat'[item[q].movie].avail # "unavailable"
        BY <1>4 DEF Served
      <3> QED
        BY <1>4, <1>8, <3>1, <3>2, GoodStays
    <2> QED
      BY <2>1, <2>2, <2>3
  <1>11. CASE Twin(p)
    <2>1. PICK k \in Job : /\ k = [j EXCEPT !.left = j.left \ {p}] /\ k.at = "walk" /\ k.left = j.left \ {p}
                           /\ k.held = j.held /\ k.lost = j.lost /\ k.now = j.now
      <3>1. [j EXCEPT !.left = j.left \ {p}] \in Job
        BY <1>2 DEF Job
      <3> QED
        BY <1>1, <1>2, <3>1 DEF Job
    <2>2. job' = [job EXCEPT ![s] = k]
      BY <1>1, <1>2, <1>3, <1>11, <2>1 DEF Stands
    <2>3. Goes(s, j, k)
      BY <1>1, <1>2, <2>2, JobGoes DEF Stands
    <2>4. Fits(k, item')
      BY <1>1, <2>1 DEF Stands, Fits, Handling
    <2>5. s \in calm' => Tidy(s, k)'
      <3> HAVE s \in calm'
      <3>1. Copied(p)
        BY <1>3, <1>11 DEF Moved, Copied
      <3>2. Good(s, p)'
        BY <1>4, <1>7, <1>8, <1>11, <3>1 DEF Good, Copied, Sees
      <3>3. Dealt(s, k.left)'
        BY <1>10, <2>1, <3>2 DEF Dealt
      <3> QED
        BY <1>10, <2>1, <3>3 DEF Tidy, Handling
    <2>6. Does(s, j, k)
      BY <1>1, <1>3, <1>4, <1>9, <2>1, <2>3, <2>4, <2>5 DEF Does, Stands, Running, Asking
    <2>7. LibTypeOK'
      BY <1>2, <1>3, <1>4, <1>8, <2>3 DEF LibTypeOK, Goes, Leads
    <2> QED
      BY <2>6, <2>7, LibDoes
  <1>12. CASE ~ Twin(p)
    <2>1. E \in Item
      BY <1>6, <1>7, <1>12
    <2>2. PICK H \in [Path -> Item \cup {None}] : H = [j.held EXCEPT ![p] = E]
      BY <1>2, <1>5 DEF Job
    <2>3. H[p] = E
      BY <1>2, <1>5, <2>2 DEF Job
    <2>4. PICK k \in Job : /\ k = [j EXCEPT !.left = j.left \ {p}, !.at = "match", !.now = p, !.held = H]
                           /\ k.at = "match" /\ k.left = j.left \ {p}
                           /\ k.held = H /\ k.lost = j.lost /\ k.now = p
      <3>1. [j EXCEPT !.left = j.left \ {p}, !.at = "match", !.now = p, !.held = H] \in Job
        BY <1>2, <1>5 DEF Job, Step
      <3> QED
        BY <1>1, <1>2, <3>1 DEF Job
    <2>5. job' = [job EXCEPT ![s] = k]
      <3>1. job' = [job EXCEPT ![s].left = @ \ {p}, ![s].at = "match", ![s].now = p,
                               ![s].held = [@ EXCEPT ![p] = E]]
        BY <1>3, <1>8, <1>12
      <3>2. [job[s].held EXCEPT ![p] = E] = H
        BY <1>1, <2>2 DEF Stands
      <3>3. job' = [job EXCEPT ![s].left = @ \ {p}, ![s].at = "match", ![s].now = p, ![s].held = H]
        BY <1>1, <1>2, <3>1, <3>2 DEF Stands, Job
      <3> QED
        BY <1>1, <1>2, <3>3, <2>4 DEF Stands
    <2>6. Goes(s, j, k)
      BY <1>1, <1>2, <2>5, JobGoes DEF Stands
    <2>7. E # None
      BY <2>1, NothingMeans
    <2>8. Fits(k, item')
      BY <1>5, <1>8, <2>3, <2>4, <2>7 DEF Fits, Handling
    <2>9. Alone(k)'
      BY <1>7, <1>8, <1>12, <2>3, <2>4 DEF Alone, Twin
    <2>10. s \in calm' => Tidy(s, k)'
      <3> HAVE s \in calm'
      <3>1. Dealt(s, k.left \cup {k.now})'
        BY <1>10, <2>4 DEF Dealt
      <3>2. InHand(s, k)'
        BY <1>4, <1>7, <1>8, <1>12, <2>3, <2>4, <2>7 DEF InHand
      <3> QED
        BY <1>10, <2>4, <3>1, <3>2 DEF Tidy, Handling
    <2>11. Does(s, j, k)
      BY <1>1, <1>3, <1>4, <1>9, <2>4, <2>6, <2>8, <2>9, <2>10 DEF Does, Stands, Running, Asking
    <2>12. LibTypeOK'
      BY <1>2, <1>3, <1>4, <1>8, <2>6 DEF LibTypeOK, Goes, Leads
    <2> QED
      BY <2>11, <2>12, LibDoes
  <1> QED
    BY <1>11, <1>12

\* The save of an item that was loaded before.
LEMMA SaveKeeps ==
    ASSUME LibTypeOK, NEW s \in Scan, NEW p \in Path, NEW h \in Item, NEW new \in Item,
           job[s].held[p] = h, p \notin job[s].lost => item[p] # None,
           new.hash = h.hash, new.seen = h.seen, SaveItem(s, p, new)
    PROVE  /\ item' \in [Path -> Item \cup {None}]
           /\ \A q \in Path : q # p => item'[q] = item[q]
           /\ \A q \in Path : item'[q] = None <=> item[q] = None
           /\ \A q \in Path : item[q] # None => item'[q].seen = item[q].seen /\ item'[q].hash = item[q].hash
           /\ p \notin job[s].lost /\ item[p] = h => item'[p] = new
           /\ p \notin job[s].lost /\ new.status # h.status => item'[p].status = new.status
           /\ p \notin job[s].lost /\ new.status = h.status => item'[p].status = item[p].status
  <1>1. CASE p \in job[s].lost
    BY <1>1 DEF SaveItem, LibTypeOK
  <1>2. CASE p \notin job[s].lost
    <2>1. PICK c \in Item : c = item[p]
      BY <1>2 DEF LibTypeOK
    <2>2. PICK u \in Item : u = Merge(h, new, c)
      BY MergeItem
    <2>3. /\ u.hash = c.hash /\ u.seen = c.seen
          /\ h = c => u = new
          /\ new.status # h.status => u.status = new.status
          /\ new.status = h.status => u.status = c.status
      BY <2>2, MergeItem
    <2>4. item' = [item EXCEPT ![p] = u]
      BY <1>2, <2>1, <2>2 DEF SaveItem, LibTypeOK
    <2>5. u # None
      BY NothingMeans
    <2> QED
      BY <1>2, <2>1, <2>3, <2>4, <2>5 DEF LibTypeOK
  <1> QED
    BY <1>1, <1>2

\* The job is about to attach the file in hand to m.
LEMMA AttachingJob ==
    ASSUME LibTypeOK, NEW s \in Scan, NEW j \in Job, job[s] = j, j.at \in {"match", "import"},
           NEW m \in Movie, job' = [job EXCEPT ![s].at = "attach", ![s].link = m]
    PROVE  \E k \in Job : /\ Goes(s, j, k) /\ k.at = "attach" /\ k.link = m /\ k.left = j.left
                          /\ k.held = j.held /\ k.lost = j.lost /\ k.now = j.now
  <1>1. PICK k \in Job : k = [j EXCEPT !.at = "attach", !.link = m]
    <2>1. [j EXCEPT !.at = "attach", !.link = m] \in Job
      BY DEF Job, Step
    <2> QED
      BY <2>1
  <1>2. /\ k.at = "attach" /\ k.link = m /\ k.left = j.left
        /\ k.held = j.held /\ k.lost = j.lost /\ k.now = j.now
    BY <1>1 DEF Job
  <1>3. job' = [job EXCEPT ![s] = k]
    BY <1>1 DEF LibTypeOK
  <1>4. Goes(s, j, k)
    BY <1>3, JobGoes DEF LibTypeOK
  <1> QED
    BY <1>2, <1>4

\* The job is done with the file in hand.
LEMMA WalkingJob ==
    ASSUME LibTypeOK, NEW s \in Scan, NEW j \in Job, job[s] = j, job' = Walking(s)
    PROVE  \E k \in Job : /\ Goes(s, j, k) /\ k.at = "walk" /\ k.left = j.left
                          /\ k.held = Idle.held /\ k.lost = {} /\ k.now = None
  <1>1. PICK i \in Job : i = Idle
    BY IdleJob
  <1>2. PICK k \in Job : k = [i EXCEPT !.at = "walk", !.left = j.left]
    <2>1. [i EXCEPT !.at = "walk", !.left = j.left] \in Job
      BY DEF Job, Step
    <2> QED
      BY <2>1
  <1>3. /\ k.at = "walk" /\ k.left = j.left
        /\ k.held = Idle.held /\ k.lost = {} /\ k.now = None
    BY <1>1, <1>2, IdleJob DEF Job
  <1>4. job' = [job EXCEPT ![s] = k]
    BY <1>1, <1>2 DEF Walking
  <1>5. Goes(s, j, k)
    BY <1>4, JobGoes DEF LibTypeOK
  <1> QED
    BY <1>3, <1>5

LEMMA SlipKeeps ==
    ASSUME LibInv, NEW s \in Scan, Slip(s)
    PROVE  LibInv'
  <1>1. PICK j \in Job : Stands(s, j) /\ job[s] = j /\ j.at \in Handling
    BY Here DEF Slip, Asking, Handling, Stands
  <1>2. LibTypeOK
    BY DEF LibInv
  <1>3. PICK k \in Job : /\ Goes(s, j, k) /\ k.at = "walk"
                         /\ k.held = Idle.held /\ k.lost = {} /\ k.now = None
    BY <1>1, <1>2, WalkingJob DEF Slip, Handling
  <1>4. /\ calm' = calm \ {s} /\ events' \in 0..MaxEvent
        /\ UNCHANGED <<queue, life, disk, item, asset, cat, excl, scan, flag, asked, rem, overlap, removed>>
    BY <1>2, LibraryAssumption DEF Slip, Fails, LibTypeOK
  <1>5. LibTypeOK'
    BY <1>2, <1>3, <1>4 DEF LibTypeOK, Goes, Leads
  <1>6. Fits(k, item')
    BY <1>3 DEF Fits, Handling
  <1>7. Does(s, j, k)
    BY <1>1, <1>3, <1>4, <1>6 DEF Does, Stands, Running, Asking, Sees
  <1> QED
    BY <1>5, <1>7, LibDoes

LEMMA MatchKeeps ==
    ASSUME LibInv, NEW s \in Scan, Match(s)
    PROVE  LibInv'
  <1>1. PICK j : Stands(s, j) /\ j.at = "match" /\ job[s] = j /\ j \in Job
    BY Here DEF Match, Asking, Stands
  <1>2. LibTypeOK /\ job \in [Scan -> Job] /\ calm \subseteq Scan
    BY DEF LibInv, LibTypeOK
  <1>3. PICK p \in Path : p = j.now
    BY <1>1 DEF Stands, Fits, Handling
  <1>4. PICK h \in Item : h = j.held[p]
    BY <1>1, <1>3 DEF Stands, Fits, Handling, Job
  <1>5. p \notin j.lost => item[p] # None
    BY <1>1, <1>3 DEF Stands, Fits, Handling
  <1>6. s \in calm' => /\ Tidy(s, j) /\ j.lost = {} /\ Dealt(s, j.left \cup {p}) /\ item[p] = h /\ InHand(s, j)
                       /\ h.seen = s /\ h.hash = disk[p]
    <2> HAVE s \in calm'
    <2>1. Tidy(s, j)
      BY <1>1 DEF Stands, Match, history
    <2> QED
      BY <1>1, <1>3, <1>4, <2>1 DEF Tidy, Handling, InHand
  <1>7. ASSUME NEW m \in Movie, cat[m] # None, job' = [job EXCEPT ![s].at = "attach", ![s].link = m],
               UNCHANGED item
        PROVE  LibInv'
    <2>1. PICK k \in Job : /\ Goes(s, j, k) /\ k.at = "attach" /\ k.link = m /\ k.left = j.left
                           /\ k.held = j.held /\ k.lost = j.lost /\ k.now = j.now
      BY <1>1, <1>2, <1>7, AttachingJob, ZenonT(60)
    <2>2. Fits(k, item)
      BY <1>1, <2>1 DEF Stands, Fits, Handling
    <2>3. s \in calm' => Tidy(s, k)
      BY <1>1, <1>6, <1>7, <2>1 DEF Tidy, Handling, InHand
    <2>4. Moves(s, j, k)
      BY <1>1, <1>7, <2>1, <2>2, <2>3 DEF Moves, Running, Match, Asking, history
    <2> QED
      BY <2>4, LibMoves
  <1>8. CASE h.movie # None /\ cat[h.movie] # None
    <2>1. h.movie \in Movie
      BY <1>8 DEF Item
    <2> QED
      BY <1>1, <1>3, <1>4, <1>7, <1>8, <2>1 DEF Match
  <1>9. CASE ~ (h.movie # None /\ cat[h.movie] # None) /\ Called(Named[p]) # {}
    <2>1. PICK m \in Called(Named[p]) : job' = [job EXCEPT ![s].at = "attach", ![s].link = m] /\ UNCHANGED item
      BY <1>1, <1>3, <1>4, <1>9 DEF Match
    <2>2. m \in Movie /\ cat[m] # None
      BY DEF Called
    <2> QED
      BY <1>7, <2>1, <2>2
  <1>10. CASE /\ ~ (h.movie # None /\ cat[h.movie] # None) /\ Called(Named[p]) = {}
              /\ h.ignored \/ Excluded(p, h.hash)
    <2>1. PICK n \in Item : /\ n = [h EXCEPT !.movie = None, !.ignored = TRUE, !.status = "unmatched"]
                            /\ n.hash = h.hash /\ n.seen = h.seen /\ n.movie = None /\ n.ignored
      <3>1. [h EXCEPT !.movie = None, !.ignored = TRUE, !.status = "unmatched"] \in Item
        BY DEF Item
      <3> QED
        BY <3>1 DEF Item
    <2>2. SaveItem(s, p, n) /\ job' = Walking(s)
      BY <1>1, <1>3, <1>4, <1>10, <2>1 DEF Match
    <2>3. PICK k \in Job : /\ Goes(s, j, k) /\ k.at = "walk" /\ k.left = j.left
                           /\ k.held = Idle.held /\ k.lost = {} /\ k.now = None
      BY <1>1, <1>2, <2>2, WalkingJob
    <2>4. /\ item' \in [Path -> Item \cup {None}]
          /\ \A q \in Path : q # p => item'[q] = item[q]
          /\ \A q \in Path : item'[q] = None <=> item[q] = None
          /\ \A q \in Path : item[q] # None => item'[q].seen = item[q].seen /\ item'[q].hash = item[q].hash
          /\ p \notin job[s].lost /\ item[p] = h => item'[p] = n
      <3>1. /\ LibTypeOK /\ job[s].held[p] = h /\ (p \notin job[s].lost => item[p] # None)
            /\ n.hash = h.hash /\ n.seen = h.seen /\ SaveItem(s, p, n)
        BY <1>1, <1>2, <1>4, <1>5, <2>1, <2>2
      <3> QED
        BY <3>1, SaveKeeps
    <2>5. Fits(k, item')
      BY <2>3 DEF Fits, Handling
    <2>6. UNCHANGED <<queue, life, disk, asset, cat, excl, scan, flag, asked, rem, events, calm, overlap, removed>>
      BY DEF Match, history
    <2>7. s \in calm' => Tidy(s, k)'
      <3> HAVE s \in calm'
      <3>1. item'[p] = n /\ item'[p] # None /\ Good(s, p)'
        BY <1>1, <1>6, <2>1, <2>4, NothingMeans DEF Good, Sees
      <3>2. ASSUME NEW q \in Path, q \notin j.left, q # p, disk[q] # None PROVE Good(s, q)'
        <4>1. Good(s, q)
          BY <1>6, <3>2 DEF Dealt
        <4>2. Served(q) => cat'[item[q].movie] # None /\ cat'[item[q].movie].avail # "unavailable"
          BY <2>6 DEF Served
        <4> QED
          BY <2>4, <2>6, <3>2, <4>1, <4>2, GoodStays
      <3>3. Dealt(s, k.left)'
        BY <2>3, <2>6, <3>1, <3>2 DEF Dealt
      <3>4. \A q \in Path : Sees(s, q)' => disk'[q] # None
        BY <1>1, <1>6, <2>4, <2>6 DEF Sees, Tidy
      <3> QED
        BY <2>3, <3>3, <3>4 DEF Tidy, Handling
    <2>8. LibTypeOK'
      BY <1>2, <2>3, <2>4, <2>6 DEF LibTypeOK, Goes, Leads
    <2>9. \A t \in Scan, q \in Path : t # s /\ Sees(t, q)' => Sees(t, q)
      BY <2>4 DEF Sees
    <2>10. Does(s, j, k)
      BY <1>1, <2>3, <2>4, <2>5, <2>6, <2>7, <2>9 DEF Does, Stands, Running, Asking
    <2> QED
      BY <2>8, <2>10, LibDoes
  <1>11. CASE /\ ~ (h.movie # None /\ cat[h.movie] # None) /\ Called(Named[p]) = {}
              /\ ~ (h.ignored \/ Excluded(p, h.hash))
    <2>1. job' = To(s, "import") /\ UNCHANGED item
      BY <1>1, <1>3, <1>4, <1>11 DEF Match
    <2>2. PICK k \in Job : /\ k = [j EXCEPT !.at = "import"] /\ k.at = "import" /\ k.left = j.left
                           /\ k.held = j.held /\ k.lost = j.lost /\ k.now = j.now
      <3>1. [j EXCEPT !.at = "import"] \in Job
        BY <1>1 DEF Job, Step
      <3> QED
        BY <1>1, <3>1 DEF Job
    <2>3. job' = [job EXCEPT ![s] = k]
      BY <1>1, <1>2, <2>1, <2>2 DEF To
    <2>4. Goes(s, j, k)
      BY <1>1, <1>2, <2>3, JobGoes
    <2>5. Fits(k, item)
      BY <1>1, <2>2 DEF Stands, Fits, Handling
    <2>6. s \in calm' => Tidy(s, k)
      BY <1>1, <1>6, <2>2 DEF Tidy, Handling, InHand
    <2>7. ~ overlap => Alone(k)
      BY <1>1, <2>2 DEF Stands, Alone
    <2>8. Importable(k)
      BY <1>3, <1>4, <1>11, <2>2 DEF Importable
    <2>9. Moves(s, j, k)
      BY <1>1, <2>1, <2>2, <2>4, <2>5, <2>6, <2>7, <2>8 DEF Moves, Running, Match, Asking, history
    <2> QED
      BY <2>9, LibMoves
  <1> QED
    BY <1>8, <1>9, <1>10, <1>11

\* The title in hand is in the catalogue, or comes into it as a movie nothing refers to.
LEMMA ImportKeeps ==
    ASSUME LibInv, NEW s \in Scan, Import(s)
    PROVE  LibInv'
  <1>1. PICK j : Stands(s, j) /\ j.at = "import" /\ job[s] = j /\ j \in Job
    BY Here DEF Import, Asking, Stands
  <1>2. LibTypeOK /\ calm \subseteq Scan /\ cat \in [Movie -> Film \cup {None}]
    BY DEF LibInv, LibTypeOK
  <1>3. PICK p \in Path : p = j.now
    BY <1>1 DEF Stands, Fits, Handling
  <1>4. PICK t \in Title : t = Meta[Named[p]]
    BY LibraryAssumption
  <1>5. UNCHANGED <<queue, life, disk, item, asset, excl, scan, flag, asked, rem, events, calm, overlap, removed>>
    BY DEF Import, history
  <1>6. s \in calm' => Tidy(s, j)
    BY <1>1, <1>5 DEF Stands
  <1>7. \E m \in Movie :
          /\ job' = [job EXCEPT ![s].at = "attach", ![s].link = m]
          /\ \/ cat[m] # None /\ cat' = cat
             \/ Unused(m) /\ cat' = [cat EXCEPT ![m] = [title |-> t, avail |-> "unavailable"]]
    <2> DEFINE known == IF Called(Named[p]) # {} THEN Called(Named[p]) ELSE Called(t)
    <2>1. \A m \in known : m \in Movie /\ cat[m] # None
      BY DEF Called
    <2>2. /\ known # {} \/ \E n \in Movie : Unused(n)
          /\ \E m \in IF known # {} THEN known ELSE {CHOOSE n \in Movie : Unused(n)} :
                /\ cat' = IF known # {} THEN cat
                          ELSE [cat EXCEPT ![m] = [title |-> t, avail |-> "unavailable"]]
                /\ job' = [job EXCEPT ![s].at = "attach", ![s].link = m]
      BY <1>1, <1>3, <1>4 DEF Import
    <2> HIDE DEF known
    <2>3. CASE known # {}
      BY <2>1, <2>2, <2>3
    <2>4. CASE known = {}
      <3>1. PICK n \in Movie : n = (CHOOSE x \in Movie : Unused(x)) /\ Unused(n)
        BY <2>2, <2>4
      <3> QED
        BY <2>2, <2>4, <3>1
    <2> QED
      BY <2>3, <2>4
  <1>8. PICK m \in Movie :
          /\ job' = [job EXCEPT ![s].at = "attach", ![s].link = m]
          /\ \/ cat[m] # None /\ cat' = cat
             \/ Unused(m) /\ cat' = [cat EXCEPT ![m] = [title |-> t, avail |-> "unavailable"]]
    BY <1>7
  <1>9. PICK k \in Job : /\ Goes(s, j, k) /\ k.at = "attach" /\ k.link = m /\ k.left = j.left
                         /\ k.held = j.held /\ k.lost = j.lost /\ k.now = j.now
    BY <1>1, <1>2, <1>8, AttachingJob, ZenonT(60)
  <1>10. Fits(k, item)
    BY <1>1, <1>9 DEF Stands, Fits, Handling
  <1>11. PICK f \in Film : f = [title |-> t, avail |-> "unavailable"]
    BY DEF Film
  <1>12. f # None
    BY NothingMeans
  <1>13. /\ cat' \in [Movie -> Film \cup {None}] /\ cat'[m] # None
         /\ \A n \in Movie : cat[n] # None => cat'[n] = cat[n]
         /\ rem.at = "unlinked" /\ cat[rem.movie] = None => cat'[rem.movie] = None
    <2>1. CASE cat[m] # None /\ cat' = cat
      BY <1>2, <2>1
    <2>2. CASE Unused(m) /\ cat' = [cat EXCEPT ![m] = f]
      <3>1. cat[m] = None /\ rem.movie # m
        BY <2>2 DEF Unused
      <3>2. rem.at = "unlinked" => rem.movie \in Movie
        BY DEF LibInv, Shapes
      <3> QED
        BY <1>2, <1>12, <2>2, <3>1, <3>2
    <2> QED
      BY <1>8, <1>11, <2>1, <2>2
  <1>14. s \in calm' => Tidy(s, k)'
    <2> HAVE s \in calm'
    <2>1. Tidy(s, j)
      BY <1>6
    <2>2. Dealt(s, k.left \cup {k.now})'
      <3>1. ASSUME NEW q \in Path, q \notin j.left, q # p, disk[q] # None PROVE Good(s, q)'
        <4>1. Good(s, q)
          BY <1>1, <1>3, <2>1, <3>1 DEF Tidy, Dealt, Handling
        <4>2. Served(q) => item[q].movie \in Movie
          BY <1>2 DEF Served, LibTypeOK, Asset
        <4>3. Served(q) => cat'[item[q].movie] # None /\ cat'[item[q].movie].avail # "unavailable"
          BY <1>13, <4>2 DEF Served
        <4> QED
          BY <1>5, <3>1, <4>1, <4>3, GoodStays
      <3> QED
        BY <1>3, <1>5, <1>9, <3>1 DEF Dealt
    <2>3. InHand(s, k)'
      BY <1>1, <1>5, <1>9, <1>13, <2>1 DEF Tidy, InHand, Handling
    <2> QED
      BY <1>1, <1>5, <1>9, <2>1, <2>2, <2>3 DEF Tidy, Handling, Sees
  <1>15. LibTypeOK'
    BY <1>2, <1>5, <1>9, <1>13 DEF LibTypeOK, Goes, Leads
  <1>16. Does(s, j, k)
    BY <1>1, <1>5, <1>9, <1>10, <1>13, <1>14 DEF Does, Stands, Running, Asking, Sees
  <1> QED
    BY <1>15, <1>16, LibDoes

LEMMA AttachKeeps ==
    ASSUME LibInv, NEW s \in Scan, Attach(s)
    PROVE  LibInv'
  <1>1. PICK j : Stands(s, j) /\ j.at = "attach" /\ job[s] = j /\ j \in Job
    BY Here DEF Attach, Asking, Stands
  <1>2. LibTypeOK /\ calm \subseteq Scan /\ asset \in [Path -> Asset \cup {None}] /\ job \in [Scan -> Job]
    BY DEF LibInv, LibTypeOK
  <1>3. PICK p \in Path, m \in Movie : p = j.now /\ m = j.link
    BY <1>1 DEF Stands, Fits, Handling
  <1>4. PICK a \in Asset : a = [movie |-> m, status |-> "ready"]
    BY DEF Asset
  <1>5. /\ UNCHANGED <<queue, life, disk, item, cat, excl, scan, flag, asked, rem, events, calm, overlap, removed>>
        /\ asset' = [asset EXCEPT ![p] = a] /\ job' = To(s, "save")
    BY <1>1, <1>3, <1>4 DEF Attach, history
  <1>6. PICK k \in Job : /\ k = [j EXCEPT !.at = "save"] /\ k.at = "save" /\ k.left = j.left /\ k.link = j.link
                         /\ k.held = j.held /\ k.lost = j.lost /\ k.now = j.now
    <2>1. [j EXCEPT !.at = "save"] \in Job
      BY <1>1 DEF Job, Step
    <2> QED
      BY <1>1, <2>1 DEF Job
  <1>7. job' = [job EXCEPT ![s] = k]
    BY <1>1, <1>2, <1>5, <1>6 DEF To
  <1>8. Goes(s, j, k)
    BY <1>1, <1>2, <1>7, JobGoes
  <1>9. Fits(k, item)
    BY <1>1, <1>6 DEF Stands, Fits, Handling
  <1>10. s \in calm' => Tidy(s, k)'
    <2> HAVE s \in calm'
    <2>1. Tidy(s, j)
      BY <1>1, <1>5 DEF Stands
    <2>2. ASSUME NEW q \in Path, q \notin j.left, q # p, disk[q] # None PROVE Good(s, q)'
      <3>1. Good(s, q)
        BY <1>1, <1>3, <2>1, <2>2 DEF Tidy, Dealt, Handling
      <3>2. Served(q) => cat'[item[q].movie] # None /\ cat'[item[q].movie].avail # "unavailable"
        BY <1>5 DEF Served
      <3> QED
        BY <1>2, <1>5, <2>2, <3>1, <3>2, GoodStays
    <2>3. Dealt(s, k.left \cup {k.now})'
      BY <1>3, <1>5, <1>6, <2>2 DEF Dealt
    <2>4. asset'[p] = [movie |-> k.link, status |-> "ready"]
      BY <1>2, <1>3, <1>4, <1>5, <1>6
    <2>5. InHand(s, k)'
      BY <1>1, <1>3, <1>5, <1>6, <2>1, <2>4 DEF Tidy, InHand, Handling
    <2> QED
      BY <1>1, <1>5, <1>6, <2>1, <2>3, <2>5 DEF Tidy, Handling, Sees
  <1>11. LibTypeOK'
    BY <1>2, <1>5, <1>8 DEF LibTypeOK, Goes, Leads
  <1>12. Does(s, j, k)
    BY <1>1, <1>5, <1>6, <1>8, <1>9, <1>10 DEF Does, Stands, Running, Asking, Sees
  <1> QED
    BY <1>11, <1>12, LibDoes

\* A movie that a served file belongs to stays to be seen after a refresh.
LEMMA ServedStays ==
    ASSUME LibTypeOK, NEW q \in Path, Served(q), NEW a, a[q] = asset[q], NEW m \in Movie \cup {None},
           cat' = Refreshed(cat, a, m)
    PROVE  cat'[item[q].movie] # None /\ cat'[item[q].movie].avail # "unavailable"
  <1>1. PICK n \in Movie : n = item[q].movie
    BY DEF Served, LibTypeOK, Asset
  <1>2. /\ cat \in [Movie -> Film \cup {None}] /\ cat[n] # None /\ cat[n].avail # "unavailable"
        /\ a[q] # None /\ a[q].movie = n /\ a[q].status = "ready"
    BY <1>1 DEF Served, LibTypeOK
  <1>3. cat'[n] # None
    BY <1>2, RefreshedKeeps
  <1>4. CASE m = None
    BY <1>1, <1>2, <1>4 DEF Refreshed
  <1>5. CASE m \in Movie
    BY <1>1, <1>2, <1>3, <1>5, RefreshedServes
  <1> QED
    BY <1>1, <1>3, <1>4, <1>5

\* The file in hand is served.
LEMMA SavingKeeps ==
    ASSUME LibInv, NEW s \in Scan, Save(s)
    PROVE  LibInv'
  <1>1. PICK j : Stands(s, j) /\ j.at = "save" /\ job[s] = j /\ j \in Job
    BY Here DEF Save, Asking, Stands
  <1>2. LibTypeOK /\ calm \subseteq Scan /\ cat \in [Movie -> Film \cup {None}]
    BY DEF LibInv, LibTypeOK
  <1>3. PICK p \in Path, m \in Movie : p = j.now /\ m = j.link
    BY <1>1 DEF Stands, Fits, Handling
  <1>4. PICK h \in Item : h = j.held[p] /\ (p \notin j.lost => item[p] # None)
    BY <1>1, <1>3 DEF Stands, Fits, Handling, Job
  <1>5. PICK n \in Item : /\ n = [h EXCEPT !.movie = m, !.ignored = FALSE, !.status = "ready"]
                          /\ n.hash = h.hash /\ n.seen = h.seen /\ n.movie = m /\ n.status = "ready"
    <2>1. [h EXCEPT !.movie = m, !.ignored = FALSE, !.status = "ready"] \in Item
      BY DEF Item
    <2> QED
      BY <2>1 DEF Item
  <1>6. /\ SaveItem(s, p, n) /\ job' = Walking(s)
        /\ cat' = IF p \in j.lost THEN cat ELSE Refreshed(cat, asset, m)
        /\ UNCHANGED <<queue, life, disk, asset, excl, scan, flag, asked, rem, events, calm, overlap, removed>>
    BY <1>1, <1>3, <1>4, <1>5 DEF Save, history
  <1>7. PICK k \in Job : /\ Goes(s, j, k) /\ k.at = "walk" /\ k.left = j.left
                         /\ k.held = Idle.held /\ k.lost = {} /\ k.now = None
    BY <1>1, <1>2, <1>6, WalkingJob
  <1>8. /\ item' \in [Path -> Item \cup {None}]
        /\ \A q \in Path : q # p => item'[q] = item[q]
        /\ \A q \in Path : item'[q] = None <=> item[q] = None
        /\ \A q \in Path : item[q] # None => item'[q].seen = item[q].seen /\ item'[q].hash = item[q].hash
        /\ p \notin job[s].lost /\ item[p] = h => item'[p] = n
    <2>1. /\ LibTypeOK /\ job[s].held[p] = h /\ (p \notin job[s].lost => item[p] # None)
          /\ n.hash = h.hash /\ n.seen = h.seen /\ SaveItem(s, p, n)
      BY <1>1, <1>2, <1>4, <1>5, <1>6
    <2> QED
      BY <2>1, SaveKeeps
  <1>9. /\ cat' \in [Movie -> Film \cup {None}]
        /\ \A x \in Movie : /\ cat'[x] = None <=> cat[x] = None
                            /\ cat[x] # None => cat'[x].title = cat[x].title
    <2>1. CASE p \in j.lost
      BY <1>2, <1>6, <2>1
    <2>2. CASE p \notin j.lost
      <3>1. cat' = Refreshed(cat, asset, m)
        BY <1>6, <2>2
      <3> QED
        BY <1>2, <3>1, RefreshedKeeps
    <2> QED
      BY <2>1, <2>2
  <1>10. Fits(k, item')
    BY <1>7 DEF Fits, Handling
  <1>11. s \in calm' => Tidy(s, k)'
    <2> HAVE s \in calm'
    <2>1. Tidy(s, j)
      BY <1>1, <1>6 DEF Stands
    <2>2. /\ j.lost = {} /\ item[p] = h /\ h.seen = s /\ h.hash = disk[p]
          /\ cat[m] # None /\ asset[p] = [movie |-> m, status |-> "ready"]
          /\ Dealt(s, j.left \cup {p})
      BY <1>1, <1>3, <1>4, <2>1 DEF Tidy, Handling, InHand
    <2>3. cat' = Refreshed(cat, asset, m) /\ item'[p] = n
      BY <1>1, <1>6, <1>8, <2>2
    <2>4. ASSUME NEW q \in Path, q \notin j.left, q # p, disk[q] # None PROVE Good(s, q)'
      <3>1. Good(s, q)
        BY <2>2, <2>4 DEF Dealt
      <3>2. Served(q) => cat'[item[q].movie] # None /\ cat'[item[q].movie].avail # "unavailable"
        BY <1>2, <2>3, ServedStays
      <3> QED
        BY <1>6, <1>8, <2>4, <3>1, <3>2, GoodStays
    <2>5. asset[p] # None /\ asset[p].movie = m /\ asset[p].status = "ready" /\ n # None
      <3>1. asset[p] \in Asset
        BY <2>2 DEF Asset
      <3> QED
        BY <2>2, <3>1, NothingMeans
    <2>6. cat'[m] # None /\ cat'[m].avail # "unavailable"
      BY <1>2, <1>9, <2>2, <2>3, <2>5, RefreshedServes
    <2>7. Good(s, p)'
      BY <1>5, <1>6, <2>2, <2>3, <2>5, <2>6 DEF Good, Sees, Served
    <2>8. Dealt(s, k.left)'
      BY <1>6, <1>7, <2>4, <2>7 DEF Dealt
    <2>9. \A q \in Path : Sees(s, q)' => disk'[q] # None
      BY <1>6, <1>8, <2>1 DEF Sees, Tidy
    <2> QED
      BY <1>7, <2>8, <2>9 DEF Tidy, Handling
  <1>12. LibTypeOK'
    BY <1>2, <1>6, <1>7, <1>8, <1>9 DEF LibTypeOK, Goes, Leads
  <1>13. \A t \in Scan, q \in Path : t # s /\ Sees(t, q)' => Sees(t, q)
    BY <1>8 DEF Sees
  <1>14. rem.at = "unlinked" /\ cat[rem.movie] = None => cat'[rem.movie] = None
    BY <1>9 DEF LibInv, Shapes
  <1>15. Does(s, j, k)
    BY <1>1, <1>6, <1>7, <1>8, <1>9, <1>10, <1>11, <1>13, <1>14 DEF Does, Stands, Running, Asking
  <1> QED
    BY <1>12, <1>15, LibDoes

-----------------------------------------------------------------------------
(* Steps that deal with what was not seen.                                 *)

LEMMA MarkKeeps ==
    ASSUME LibInv, NEW s \in Scan, Mark(s)
    PROVE  LibInv'
  <1>1. PICK j : Stands(s, j) /\ j.at = "sweep" /\ job[s] = j /\ j \in Job
    BY Here DEF Mark, Asking, Stands
  <1>2. /\ LibTypeOK /\ calm \subseteq Scan /\ cat \in [Movie -> Film \cup {None}]
        /\ asset \in [Path -> Asset \cup {None}] /\ job \in [Scan -> Job]
    BY DEF LibInv, LibTypeOK
  <1>3. /\ UNCHANGED <<queue, life, disk, excl, scan, flag, asked, rem, events, calm, overlap, removed>>
        /\ \E p \in j.left \ j.lost :
              /\ SaveItem(s, p, [j.held[p] EXCEPT !.status = "missing"])
              /\ asset' = IF asset[p] = None THEN asset ELSE [asset EXCEPT ![p].status = "missing"]
              /\ cat' = Refreshed(cat, asset', j.held[p].movie)
              /\ job' = [job EXCEPT ![s].left = @ \ {p}, ![s].doomed = @ \cup ({j.held[p].movie} \ {None})]
    BY <1>1 DEF Mark, history
  <1>4. PICK p \in j.left \ j.lost :
              /\ SaveItem(s, p, [j.held[p] EXCEPT !.status = "missing"])
              /\ asset' = IF asset[p] = None THEN asset ELSE [asset EXCEPT ![p].status = "missing"]
              /\ cat' = Refreshed(cat, asset', j.held[p].movie)
              /\ job' = [job EXCEPT ![s].left = @ \ {p}, ![s].doomed = @ \cup ({j.held[p].movie} \ {None})]
    BY <1>3
  <1>5. p \in Path /\ item[p] # None /\ j.held[p] \in Item
    BY <1>1 DEF Stands, Fits, Job
  <1>6. PICK h \in Item : h = j.held[p]
    BY <1>5
  <1>7. PICK m \in Movie \cup {None} : m = h.movie
    BY DEF Item
  <1>8. PICK n \in Item : /\ n = [h EXCEPT !.status = "missing"]
                          /\ n.hash = h.hash /\ n.seen = h.seen /\ n.status = "missing"
    <2>1. [h EXCEPT !.status = "missing"] \in Item
      BY DEF Item
    <2> QED
      BY <2>1 DEF Item
  <1>9. PICK k \in Job : /\ k = [j EXCEPT !.left = j.left \ {p}, !.doomed = j.doomed \cup ({m} \ {None})]
                         /\ k.at = "sweep" /\ k.left = j.left \ {p} /\ k.link = j.link
                         /\ k.held = j.held /\ k.lost = j.lost /\ k.now = j.now
    <2>1. [j EXCEPT !.left = j.left \ {p}, !.doomed = j.doomed \cup ({m} \ {None})] \in Job
      BY <1>1 DEF Job
    <2> QED
      BY <1>1, <2>1, ZenonT(60) DEF Job
  <1>10. job' = [job EXCEPT ![s] = k]
    BY <1>1, <1>2, <1>4, <1>6, <1>7, <1>9
  <1>11. Goes(s, j, k)
    BY <1>1, <1>2, <1>10, JobGoes
  <1>12. /\ item' \in [Path -> Item \cup {None}]
         /\ \A q \in Path : q # p => item'[q] = item[q]
         /\ \A q \in Path : item'[q] = None <=> item[q] = None
         /\ \A q \in Path : item[q] # None => item'[q].seen = item[q].seen /\ item'[q].hash = item[q].hash
         /\ n.status # h.status => item'[p].status = n.status
         /\ n.status = h.status => item'[p].status = item[p].status
    <2>1. /\ LibTypeOK /\ job[s].held[p] = h /\ (p \notin job[s].lost => item[p] # None) /\ p \notin job[s].lost
          /\ n.hash = h.hash /\ n.seen = h.seen /\ SaveItem(s, p, n)
      BY <1>1, <1>2, <1>4, <1>5, <1>6, <1>8
    <2> QED
      BY <1>5, <2>1, SaveKeeps
  <1>13. /\ asset' \in [Path -> Asset \cup {None}]
         /\ \A q \in Path : q # p => asset'[q] = asset[q]
    <2>1. CASE asset[p] = None
      BY <1>2, <1>4, <2>1
    <2>2. CASE asset[p] # None
      <3>1. PICK a \in Asset : a = asset[p]
        BY <1>2, <1>5, <2>2
      <3>2. PICK b \in Asset : b = [a EXCEPT !.status = "missing"]
        <4>1. [a EXCEPT !.status = "missing"] \in Asset
          BY DEF Asset
        <4> QED
          BY <4>1
      <3>3. asset' = [asset EXCEPT ![p] = b]
        BY <1>2, <1>4, <1>5, <2>2, <3>1, <3>2
      <3> QED
        BY <1>2, <3>3
    <2> QED
      BY <2>1, <2>2
  <1>14. /\ cat' = Refreshed(cat, asset', m)
         /\ cat' \in [Movie -> Film \cup {None}]
         /\ \A x \in Movie : /\ cat'[x] = None <=> cat[x] = None
                             /\ cat[x] # None => cat'[x].title = cat[x].title
    <2>1. cat' = Refreshed(cat, asset', m)
      BY <1>4, <1>6, <1>7
    <2> QED
      BY <1>2, <2>1, RefreshedKeeps
  <1>15. Fits(k, item')
    BY <1>1, <1>9, <1>12 DEF Stands, Fits, Handling, Job
  <1>16. s \in calm' => Tidy(s, k)'
    <2> HAVE s \in calm'
    <2>1. Tidy(s, j)
      BY <1>1, <1>3 DEF Stands
    <2>2. /\ Truly(s, j.left) /\ disk[p] = None /\ item[p].status = h.status
          /\ \A q \in j.left : disk[q] = None /\ item[q] # None /\ item[q].status = j.held[q].status
      BY <1>1, <1>4, <1>6, <2>1 DEF Tidy
    <2>3. Absent(p)'
      BY <1>8, <1>12, <2>2 DEF Absent
    <2>4. ASSUME NEW q \in Path, q \notin j.left, q # p
          PROVE  IF disk'[q] = None THEN Absent(q)' ELSE Good(s, q)'
      <3>1. CASE disk[q] = None
        <4>1. Absent(q)
          BY <2>2, <2>4, <3>1 DEF Truly
        <4>2. Absent(q)'
          BY <1>12, <2>4, <4>1 DEF Absent
        <4> QED
          BY <1>3, <3>1, <4>2
      <3>2. CASE disk[q] # None
        <4>1. Good(s, q)
          BY <2>2, <2>4, <3>2 DEF Truly
        <4>2. Served(q) => cat'[item[q].movie] # None /\ cat'[item[q].movie].avail # "unavailable"
          BY <1>2, <1>13, <1>14, <2>4, ServedStays
        <4>3. Good(s, q)'
          BY <1>3, <1>12, <1>13, <2>4, <4>1, <4>2, GoodStays
        <4> QED
          BY <1>3, <3>2, <4>3
      <3> QED
        BY <3>1, <3>2
    <2>5. Truly(s, k.left)'
      BY <1>3, <1>9, <2>2, <2>3, <2>4 DEF Truly
    <2>6. \A q \in Path : Sees(s, q)' => disk'[q] # None
      BY <1>3, <1>12, <2>1 DEF Sees, Tidy
    <2>7. \A q \in k.left : disk'[q] = None /\ item'[q] # None /\ item'[q].status = k.held[q].status
      BY <1>1, <1>3, <1>9, <1>12, <2>2 DEF Job
    <2>8. k.lost = {}
      BY <1>9, <2>1 DEF Tidy
    <2> QED
      BY <1>9, <2>5, <2>6, <2>7, <2>8 DEF Tidy, Handling
  <1>17. LibTypeOK'
    BY <1>2, <1>3, <1>11, <1>12, <1>13, <1>14 DEF LibTypeOK, Goes, Leads
  <1>18. \A t \in Scan, q \in Path : t # s /\ Sees(t, q)' => Sees(t, q)
    BY <1>12 DEF Sees
  <1>19. rem.at = "unlinked" /\ cat[rem.movie] = None => cat'[rem.movie] = None
    BY <1>14 DEF LibInv, Shapes
  <1>20. Does(s, j, k)
    BY <1>1, <1>3, <1>9, <1>11, <1>12, <1>14, <1>15, <1>16, <1>18, <1>19 DEF Does, Stands, Running, Asking
  <1> QED
    BY <1>17, <1>20, LibDoes

\* A scan that ends.
LEMMA EndKeeps ==
    ASSUME LibInv, NEW s \in Scan, Throw(s) \/ Finish(s)
    PROVE  LibInv'
  <1>1. PICK j : Stands(s, j) /\ job[s] = j /\ j \in Job
    BY Here DEF Throw, Finish, Asking, Stands
  <1>2. LibTypeOK /\ job \in [Scan -> Job]
    BY DEF LibInv, LibTypeOK
  <1>3. PICK k \in Job : k \in {Idle, [Idle EXCEPT !.at = "gone"]} /\ job' = [job EXCEPT ![s] = k]
    <2>1. CASE Throw(s)
      BY <2>1, IdleJob DEF Throw, Step, Asking
    <2>2. CASE Finish(s)
      BY <2>2, IdleJob DEF Finish
    <2> QED
      BY <2>1, <2>2
  <1>4. k.at \in {"idle", "gone"} /\ k.lost = {} /\ k.now = None /\ k.held = Idle.held
    <2>1. PICK i \in Job : i = Idle
      BY IdleJob
    <2>2. [i EXCEPT !.at = "gone"].at = "gone" /\ [i EXCEPT !.at = "gone"].lost = i.lost
          /\ [i EXCEPT !.at = "gone"].now = i.now /\ [i EXCEPT !.at = "gone"].held = i.held
      BY DEF Job
    <2> QED
      BY <1>3, <2>1, <2>2, IdleJob
  <1>5. PICK v \in Status : scan' = [scan EXCEPT ![s] = v]
    <2>1. CASE Throw(s)
      <3>1. scan' \in {scan, [scan EXCEPT ![s] = "failed"]}
        BY <2>1 DEF Throw
      <3>2. scan = [scan EXCEPT ![s] = scan[s]] /\ scan[s] \in Status
        BY <1>2 DEF LibTypeOK
      <3> QED
        BY <3>1, <3>2 DEF Status
    <2>2. CASE Finish(s)
      BY <2>2 DEF Finish, Status
    <2> QED
      BY <2>1, <2>2
  <1>6. /\ calm' = calm \ {s} /\ flag' = flag \ {s} /\ events' \in 0..MaxEvent
        /\ UNCHANGED <<queue, life, disk, item, asset, cat, excl, asked, rem, overlap, removed>>
    <2>1. events \in 0..MaxEvent /\ MaxEvent \in Nat
      BY <1>2, LibraryAssumption DEF LibTypeOK
    <2> QED
      BY <2>1 DEF Throw, Finish, Fails
  <1>7. Goes(s, j, k)
    BY <1>1, <1>2, <1>3, JobGoes
  <1>8. Fits(k, item')
    BY <1>4 DEF Fits, Handling
  <1>9. scan' \in [Scan -> Status] /\ \A t \in Scan : t # s => scan'[t] = scan[t]
    BY <1>2, <1>5 DEF LibTypeOK
  <1>10. LibTypeOK'
    BY <1>2, <1>6, <1>7, <1>9 DEF LibTypeOK, Goes, Leads
  <1>11. Does(s, j, k)
    BY <1>1, <1>4, <1>6, <1>7, <1>8, <1>9 DEF Does, Stands, Running, Asking, Sees
  <1> QED
    BY <1>10, <1>11, LibDoes

\* The films of a movie that cannot be played are none that are served.
LEMMA ServedIsOther ==
    ASSUME NEW m \in Movie, Unplayable(cat, asset, m), NEW q \in Path, Served(q)
    PROVE  item[q].movie # m /\ asset[q].movie # m
BY DEF Unplayable, Playable, Videos, Served

LEMMA DropKeeps ==
    ASSUME LibInv, NEW s \in Scan, Drop(s)
    PROVE  LibInv'
  <1>1. PICK j : Stands(s, j) /\ j.at = "drop" /\ job[s] = j /\ j \in Job
    BY Here DEF Drop, Asking, Stands
  <1>2. /\ LibTypeOK /\ calm \subseteq Scan /\ item \in [Path -> Item \cup {None}]
        /\ asset \in [Path -> Asset \cup {None}] /\ job \in [Scan -> Job]
    BY DEF LibInv, LibTypeOK
  <1>3. PICK m \in Movie : m = j.link
    BY <1>1 DEF Stands, Fits, Handling
  <1>4. PICK D \in SUBSET Path : D = {p \in Path : item[p] # None /\ item[p].movie = m}
    OBVIOUS
  <1>5. /\ item' = Without(item, {m}) /\ asset' = Without(asset, {m})
        /\ job' = [t \in Scan |-> IF t = s THEN [job[s] EXCEPT !.at = "erase"]
                     ELSE [job[t] EXCEPT !.lost = @ \cup {p \in D : job[t].held[p] # None}]]
        /\ UNCHANGED <<queue, life, disk, cat, excl, scan, flag, asked, rem, events, calm, overlap, removed>>
    BY <1>1, <1>3, <1>4 DEF Drop, history
  <1>6. PICK k \in Job : /\ k = [j EXCEPT !.at = "erase"] /\ k.at = "erase" /\ k.left = j.left /\ k.link = j.link
                         /\ k.held = j.held /\ k.lost = j.lost /\ k.now = j.now
    <2>1. [j EXCEPT !.at = "erase"] \in Job
      BY <1>1 DEF Job, Step
    <2> QED
      BY <1>1, <2>1 DEF Job
  <1>7. /\ item' \in [Path -> Item \cup {None}] /\ asset' \in [Path -> Asset \cup {None}]
        /\ \A p \in Path : /\ item'[p] \in {item[p], None}
                           /\ item[p] # None => (item'[p] = item[p] <=> item[p].movie # m)
                           /\ item[p] # None => (item'[p] = None <=> item[p].movie = m)
                           /\ asset'[p] \in {asset[p], None}
                           /\ asset[p] # None => (asset'[p] = asset[p] <=> asset[p].movie # m)
    <2>1. /\ item' \in [Path -> Item \cup {None}]
          /\ \A p \in Path : /\ item'[p] \in {item[p], None}
                             /\ item[p] # None => (item'[p] = item[p] <=> item[p].movie \notin {m})
                             /\ item[p] # None => (item'[p] = None <=> item[p].movie \in {m})
      BY <1>2, <1>5, WithoutItems
    <2>2. /\ asset' \in [Path -> Asset \cup {None}]
          /\ \A p \in Path : /\ asset'[p] \in {asset[p], None}
                             /\ asset[p] # None => (asset'[p] = asset[p] <=> asset[p].movie \notin {m})
      BY <1>2, <1>5, WithoutAssets
    <2> QED
      BY <2>1, <2>2
  <1>8. ASSUME NEW t \in Scan, t # s
        PROVE  job'[t] \in Job /\ job'[t].at = job[t].at /\ Fits(job'[t], item')
    <2>1. PICK i \in Job : i = job[t]
      BY <1>2
    <2>2. PICK L \in SUBSET Path : L = i.lost \cup {p \in D : i.held[p] # None}
      BY DEF Job
    <2>3. PICK u \in Job : /\ u = [i EXCEPT !.lost = L] /\ u.lost = L /\ u.at = i.at /\ u.left = i.left
                           /\ u.held = i.held /\ u.now = i.now /\ u.link = i.link
      <3>1. [i EXCEPT !.lost = L] \in Job
        BY DEF Job
      <3> QED
        BY <3>1 DEF Job
    <2>4. job'[t] = u
      BY <1>2, <1>5, <1>8, <2>1, <2>2, <2>3
    <2>5. Fits(i, item)
      BY <2>1 DEF LibInv, Shapes
    <2>6. \A p \in Path : i.held[p] # None /\ p \notin L /\ item[p] # None => item'[p] # None
      BY <1>4, <1>7, <2>2
    <2>7. Idle.held = [p \in Path |-> None]
      BY DEF Idle
    <2>8. i.held = Idle.held => L = i.lost
      BY <1>4, <2>2, <2>7
    <2>9. i.lost \subseteq L
      BY <2>2
    <2>10. i.left \subseteq Path
      BY DEF Job
    <2>11. Fits(u, item')
      BY <2>3, <2>5, <2>6, <2>8, <2>9, <2>10 DEF Fits, Handling
    <2> QED
      BY <2>1, <2>3, <2>4, <2>11
  <1>9. Leads(s, j, k) /\ job'[s] = k
    BY <1>1, <1>2, <1>5, <1>6, <1>8 DEF Leads
  <1>10. LibTypeOK'
    BY <1>2, <1>5, <1>7, <1>9 DEF LibTypeOK, Leads
  <1>11. Shapes'
    <2>1. Fits(k, item')
      BY <1>1, <1>6 DEF Stands, Fits, Handling
    <2>2. \A t \in Scan : Fits(job'[t], item')
      BY <1>8, <1>9, <2>1
    <2> QED
      BY <1>1, <1>5, <2>2 DEF LibInv, Shapes, Up, Stands
  <1>12. \A t \in Scan, q \in Path : Sees(t, q)' => Sees(t, q)
    BY <1>7 DEF Sees
  <1>13. Running(j) /\ Running(k) /\ scan'[s] # "queued"
    BY <1>1, <1>5, <1>6 DEF Running, Asking, Stands
  <1>14. Runs'
    BY <1>2, <1>5, <1>9, <1>12, <1>13, RunsStep DEF LibInv
  <1>15. Barred'
    BY <1>5, <1>6, <1>9, <1>13, BarredStep DEF LibInv
  <1>16. s \in calm' => Tidy(s, k)'
    <2> HAVE s \in calm'
    <2>1. Tidy(s, j)
      BY <1>1, <1>5 DEF Stands
    <2>2. Unplayable(cat, asset, m) /\ Truly(s, {})
      BY <1>1, <1>3, <2>1 DEF Tidy
    <2>3. ASSUME NEW q \in Path PROVE IF disk'[q] = None THEN Absent(q)' ELSE Good(s, q)'
      <3>1. CASE disk[q] = None
        BY <1>5, <1>7, <2>2, <3>1 DEF Truly, Absent
      <3>2. CASE disk[q] # None
        <4>1. Good(s, q)
          BY <2>2, <3>2 DEF Truly
        <4>2. CASE Served(q)
          <5>1. item'[q] = item[q] /\ asset'[q] = asset[q]
            BY <1>7, <2>2, <4>2, ServedIsOther DEF Served
          <5>2. cat'[item[q].movie] # None /\ cat'[item[q].movie].avail # "unavailable"
            BY <1>5, <4>2 DEF Served
          <5>3. Good(s, q)'
            BY <1>5, <4>1, <5>1, <5>2, GoodStays
          <5> QED
            BY <1>5, <3>2, <5>3
        <4>3. CASE ~ Served(q)
          <5>1. Copied(q)' <=> Copied(q)
            BY <1>5 DEF Copied
          <5>2. CASE Copied(q) /\ item'[q] = None
            BY <1>5, <3>2, <5>1, <5>2 DEF Good
          <5>3. CASE item'[q] = item[q] /\ item[q] # None
            BY <1>5, <3>2, <4>1, <4>3, <5>1, <5>3 DEF Good, Sees
          <5>4. CASE ~ Copied(q) /\ item'[q] = None
            <6>1. item[q] # None /\ item[q].movie = None
              BY <4>1, <4>3, <5>4 DEF Good, Sees
            <6>2. m # None
              BY NothingMeans
            <6> QED
              BY <1>7, <5>4, <6>1, <6>2
          <5> QED
            BY <1>7, <5>2, <5>3, <5>4
        <4> QED
          BY <4>2, <4>3
      <3> QED
        BY <3>1, <3>2
    <2>4. Truly(s, {})'
      BY <2>3 DEF Truly
    <2>5. \A q \in Path : Sees(s, q)' => disk'[q] # None
      BY <1>5, <1>12, <2>1 DEF Tidy
    <2>6. \A q \in Path : item'[q] # None => item'[q].movie # k.link
      BY <1>3, <1>6, <1>7
    <2>7. k.lost = {}
      BY <1>6, <2>1 DEF Tidy
    <2> QED
      BY <1>6, <2>4, <2>5, <2>6, <2>7 DEF Tidy, Handling
  <1>17. \A t \in calm' : Tidy(t, job[t])'
    BY <1>2, <1>5, <1>9, <1>13, <1>16, TidyStep DEF LibInv
  <1> QED
    BY <1>10, <1>11, <1>14, <1>15, <1>17 DEF LibInv

LEMMA EraseKeeps ==
    ASSUME LibInv, NEW s \in Scan, Erase(s)
    PROVE  LibInv'
  <1>1. PICK j : Stands(s, j) /\ j.at = "erase" /\ job[s] = j /\ j \in Job
    BY Here DEF Erase, Asking, Stands
  <1>2. LibTypeOK /\ calm \subseteq Scan /\ cat \in [Movie -> Film \cup {None}] /\ job \in [Scan -> Job]
    BY DEF LibInv, LibTypeOK
  <1>3. PICK m \in Movie : m = j.link
    BY <1>1 DEF Stands, Fits, Handling
  <1>4. /\ cat' = [cat EXCEPT ![m] = None] /\ job' = [job EXCEPT ![s].at = "sweep", ![s].link = None]
        /\ UNCHANGED <<queue, life, disk, item, asset, excl, scan, flag, asked, rem, events, calm, overlap, removed>>
    BY <1>1, <1>3 DEF Erase, history
  <1>5. PICK k \in Job : /\ k = [j EXCEPT !.at = "sweep", !.link = None] /\ k.at = "sweep" /\ k.left = j.left
                         /\ k.held = j.held /\ k.lost = j.lost /\ k.now = j.now
    <2>1. [j EXCEPT !.at = "sweep", !.link = None] \in Job
      BY <1>1 DEF Job, Step
    <2> QED
      BY <1>1, <2>1 DEF Job
  <1>6. job' = [job EXCEPT ![s] = k]
    BY <1>1, <1>2, <1>4, <1>5
  <1>7. Goes(s, j, k)
    BY <1>1, <1>2, <1>6, JobGoes
  <1>8. k.left = {} /\ Fits(k, item')
    BY <1>1, <1>5 DEF Stands, Fits, Handling
  <1>9. /\ cat' \in [Movie -> Film \cup {None}]
        /\ \A x \in Movie : cat'[x] \in {cat[x], None} /\ (x # m => cat'[x] = cat[x])
    BY <1>2, <1>4
  <1>10. s \in calm' => Tidy(s, k)'
    <2> HAVE s \in calm'
    <2>1. Tidy(s, j)
      BY <1>1, <1>4 DEF Stands
    <2>2. Truly(s, {}) /\ \A q \in Path : item[q] # None => item[q].movie # m
      BY <1>1, <1>3, <2>1 DEF Tidy
    <2>3. ASSUME NEW q \in Path PROVE IF disk'[q] = None THEN Absent(q)' ELSE Good(s, q)'
      <3>1. CASE disk[q] = None
        BY <1>4, <2>2, <3>1 DEF Truly, Absent
      <3>2. CASE disk[q] # None
        <4>1. Good(s, q)
          BY <2>2, <3>2 DEF Truly
        <4>2. Served(q) => item[q].movie \in Movie
          BY <1>2 DEF Served, LibTypeOK, Asset
        <4>3. Served(q) => cat'[item[q].movie] # None /\ cat'[item[q].movie].avail # "unavailable"
          BY <1>9, <2>2, <4>2 DEF Served
        <4>4. Good(s, q)'
          BY <1>4, <4>1, <4>3, GoodStays
        <4> QED
          BY <1>4, <3>2, <4>4
      <3> QED
        BY <3>1, <3>2
    <2>4. Truly(s, k.left)'
      BY <1>8, <2>3 DEF Truly
    <2> QED
      BY <1>4, <1>5, <1>8, <2>1, <2>4 DEF Tidy, Handling, Sees
  <1>11. LibTypeOK'
    BY <1>2, <1>4, <1>7, <1>9 DEF LibTypeOK, Goes, Leads
  <1>12. rem.at = "unlinked" /\ cat[rem.movie] = None => cat'[rem.movie] = None
    BY <1>9 DEF LibInv, Shapes
  <1>13. Does(s, j, k)
    BY <1>1, <1>4, <1>5, <1>7, <1>8, <1>9, <1>10, <1>12 DEF Does, Stands, Running, Asking, Sees
  <1> QED
    BY <1>11, <1>13, LibDoes

-----------------------------------------------------------------------------
(* Steps beside the scans that run: requests, cancellations, the queue.    *)

\* A step that changes no job that executes, and at most who has seen an item.
Beside ==
    /\ UNCHANGED <<life, disk, asset, cat, excl, rem, calm, overlap, removed>>
    /\ \A t \in Scan : \/ job'[t] = job[t]
                       \/ ~ Executing(t) /\ ~ Executing(t)' /\ Fits(job'[t], item')
    /\ \A t \in Scan : Executing(t) => scan'[t] # "queued" /\ (t \in flag => t \in flag')
    /\ \A t \in Scan : job'[t].at \in {"starting", "created"} \/ (job'[t].at \in {"ready", "taken"} /\ scan'[t] = "queued")
                          => \A p \in Path : ~ Sees(t, p)'
    /\ \A p \in Path :
          \/ item'[p] = item[p]
          \/ /\ item[p] # None /\ item'[p] # None
             /\ item'[p].hash = item[p].hash /\ item'[p].movie = item[p].movie
             /\ item'[p].ignored = item[p].ignored /\ item'[p].status = item[p].status
             /\ \A t \in Scan : Executing(t) => ~ Sees(t, p) /\ ~ Sees(t, p)'

LEMMA BesideKeeps ==
    ASSUME LibInv, LibTypeOK', Beside
    PROVE  LibInv'
  <1>1. LibTypeOK /\ Shapes /\ Runs /\ Barred /\ job \in [Scan -> Job] /\ calm \subseteq Scan
    BY DEF LibInv, LibTypeOK
  <1>2. \A t \in Scan : Executing(t)' <=> Executing(t)
    BY DEF Beside, Executing
  <1>3. \A t \in Scan : Others(t)' <=> Others(t)
    BY <1>2 DEF Others
  <1>4. \A p \in Path : /\ item'[p] = None <=> item[p] = None
                        /\ item[p] # None => item'[p].hash = item[p].hash /\ item'[p].movie = item[p].movie
    BY DEF Beside
  <1>5. Shapes'
    <2>1. ASSUME NEW t \in Scan PROVE Fits(job'[t], item')
      <3>1. CASE job'[t] = job[t]
        <4>1. PICK i \in Job : i = job[t]
          BY <1>1
        <4>2. Fits(i, item)
          BY <1>1, <4>1 DEF Shapes
        <4> QED
          BY <1>4, <3>1, <4>1, <4>2 DEF Fits, Job
      <3> QED
        BY <3>1 DEF Beside
    <2> QED
      BY <1>1, <1>2, <2>1 DEF Shapes, Up, Beside
  <1>6. Runs'
    BY <1>1, <1>2, <1>3 DEF Runs, Beside
  <1>7. Barred'
    <2>1. ASSUME ~ overlap', NEW t \in Scan
          PROVE  /\ job'[t].at \in {"match", "import"} => Alone(job[t])'
                 /\ job'[t].at = "import" => Importable(job[t])'
      <3> SUFFICES ASSUME job'[t].at \in {"match", "import"}
                   PROVE  Alone(job[t])' /\ (job'[t].at = "import" => Importable(job[t])')
        OBVIOUS
      <3>1. PICK i \in Job : i = job[t] /\ job'[t] = i
        BY <1>1, <1>2 DEF Beside, Executing, Asking
      <3>2. Alone(i) /\ (i.at = "import" => Importable(i))
        BY <1>1, <2>1, <3>1 DEF Barred, Beside
      <3>3. i.now \in Path
        BY <1>1, <3>1 DEF Shapes, Fits, Handling
      <3>4. Alone(i)'
        BY <1>4, <3>2, <3>3 DEF Alone
      <3>5. i.at = "import" => Importable(i)'
        BY <3>2 DEF Importable, Called, Excluded, Beside
      <3> QED
        BY <3>1, <3>4, <3>5
    <2> QED
      BY <1>1, <2>1 DEF Barred, Beside
  <1>8. ASSUME NEW t \in calm' PROVE Tidy(t, job[t])'
    <2>1. t \in Scan /\ t \in calm /\ Executing(t) /\ Tidy(t, job[t])
      BY <1>1, <1>8 DEF LibInv, Runs, Beside
    <2>2. PICK i \in Job : i = job[t] /\ job'[t] = i
      BY <1>1, <2>1, <1>2 DEF Beside
    <2>3. \A p \in Path : Sees(t, p)' <=> Sees(t, p)
      BY <2>1 DEF Beside, Sees
    <2>4. ASSUME NEW p \in Path, Good(t, p) PROVE Good(t, p)'
      <3>1. item'[p] = item[p]
        BY <2>1, <2>4 DEF Beside, Good
      <3>2. Served(p) => cat'[item[p].movie] # None /\ cat'[item[p].movie].avail # "unavailable"
        BY DEF Served, Beside
      <3> QED
        BY <2>1, <2>4, <3>1, <3>2, GoodStays DEF Beside
    <2>5. \A p \in Path : Absent(p) => Absent(p)'
      BY DEF Beside, Absent
    <2>6. \A M \in SUBSET Path : /\ Truly(t, M) => Truly(t, M)'
                                 /\ Dealt(t, M) => Dealt(t, M)'
      BY <2>4, <2>5 DEF Truly, Dealt, Beside
    <2>7. i.at \in Handling => i.now \in Path /\ i.held[i.now] # None
      BY <1>1, <2>1, <2>2 DEF Shapes, Fits
    <2>8. i.at \in Handling /\ InHand(t, i) => InHand(t, i)'
      <3> HAVE i.at \in Handling /\ InHand(t, i)
      <3>1. Sees(t, i.now)
        BY <2>7 DEF InHand, Sees
      <3>2. item'[i.now] = item[i.now]
        BY <2>1, <2>7, <3>1 DEF Beside
      <3> QED
        BY <3>2 DEF InHand, Beside
    <2>9. i.left \in SUBSET Path
      BY DEF Job
    <2>10. i.at \in Handling => i.left \cup {i.now} \in SUBSET Path
      BY <2>7, <2>9
    <2>11. Unplayable(cat', asset', i.link) <=> Unplayable(cat, asset, i.link)
      BY DEF Beside
    <2>12. t \in flag => t \in flag'
      BY <2>1 DEF Beside
    <2>13. \A p \in Path : item'[p] # None => item[p] # None /\ item'[p].status = item[p].status /\ item'[p].movie = item[p].movie
      BY DEF Beside
    <2>14. disk' = disk
      BY DEF Beside
    <2>15. Tidy(t, i)
      BY <2>1, <2>2
    <2>16. Tidy(t, i)'
      BY <1>4, <2>3, <2>6, <2>8, <2>9, <2>10, <2>11, <2>12, <2>13, <2>14, <2>15 DEF Tidy
    <2> QED
      BY <2>2, <2>16
  <1> QED
    BY <1>5, <1>6, <1>7, <1>8 DEF LibInv

LEMMA StartKeeps ==
    ASSUME LibInv, NEW s \in Scan, Start(s)
    PROVE  LibInv'
  <1>1. /\ LibTypeOK /\ job \in [Scan -> Job] /\ calm \subseteq Scan /\ item \in [Path -> Item \cup {None}]
        /\ scan \in [Scan -> Status]
    BY DEF LibInv, LibTypeOK
  <1>2. /\ job[s].at \in {"idle", "gone"} /\ job' = To(s, "starting")
        /\ scan' = [scan EXCEPT ![s] = "none"] /\ flag' = flag \ {s}
        /\ item' = [p \in Path |-> IF item[p] # None /\ item[p].seen = s
                                   THEN [item[p] EXCEPT !.seen = Old] ELSE item[p]]
        /\ UNCHANGED <<queue, life, disk, asset, cat, excl, asked, rem, calm, overlap, removed>>
        /\ events' \in 0..MaxEvent
    <2>1. events \in 0..MaxEvent /\ MaxEvent \in Nat
      BY <1>1, LibraryAssumption DEF LibTypeOK
    <2> QED
      BY <2>1 DEF Start, Free
  <1>3. PICK i \in Job : i = job[s]
    BY <1>1
  <1>4. PICK k \in Job : /\ k = [i EXCEPT !.at = "starting"] /\ k.at = "starting"
                         /\ k.held = i.held /\ k.lost = i.lost /\ k.now = i.now
    <2>1. [i EXCEPT !.at = "starting"] \in Job
      BY DEF Job, Step, Asking
    <2> QED
      BY <2>1 DEF Job
  <1>5. job' = [job EXCEPT ![s] = k]
    BY <1>1, <1>2, <1>3, <1>4 DEF To
  <1>6. job' \in [Scan -> Job] /\ job'[s] = k /\ \A t \in Scan : t # s => job'[t] = job[t]
    BY <1>1, <1>5
  <1>7. ASSUME NEW p \in Path, item[p] # None, item[p].seen = s
        PROVE  /\ item'[p] \in Item /\ item'[p] # None /\ item'[p].seen = Old
               /\ item'[p].hash = item[p].hash /\ item'[p].movie = item[p].movie
               /\ item'[p].ignored = item[p].ignored /\ item'[p].status = item[p].status
    <2>1. PICK r \in Item : r = item[p]
      BY <1>1, <1>7
    <2>2. PICK u \in Item : /\ u = [r EXCEPT !.seen = Old] /\ u.seen = Old /\ u.hash = r.hash
                            /\ u.movie = r.movie /\ u.ignored = r.ignored /\ u.status = r.status
      <3>1. [r EXCEPT !.seen = Old] \in Item
        BY DEF Item
      <3> QED
        BY <3>1 DEF Item
    <2>3. item'[p] = u
      BY <1>2, <1>7, <2>1, <2>2
    <2> QED
      BY <2>1, <2>2, <2>3, NothingMeans
  <1>8. \A p \in Path : ~ (item[p] # None /\ item[p].seen = s) => item'[p] = item[p]
    BY <1>2
  <1>9. item' \in [Path -> Item \cup {None}]
    <2>1. item' = [p \in Path |-> item'[p]]
      BY <1>2
    <2>2. \A p \in Path : item'[p] \in Item \cup {None}
      BY <1>1, <1>7, <1>8
    <2> QED
      BY <2>1, <2>2
  <1>10. scan' \in [Scan -> Status] /\ scan'[s] = "none" /\ \A t \in Scan : t # s => scan'[t] = scan[t]
    BY <1>1, <1>2 DEF Status
  <1>11. LibTypeOK'
    BY <1>1, <1>2, <1>6, <1>9, <1>10 DEF LibTypeOK
  <1>12. ~ Executing(s) /\ ~ Executing(s)'
    BY <1>2, <1>4, <1>6 DEF Executing, Asking
  <1>13. Fits(k, item')
    <2>1. Fits(i, item) /\ i.at \in {"idle", "gone"}
      BY <1>2, <1>3 DEF LibInv, Shapes
    <2> QED
      BY <1>4, <2>1 DEF Fits, Handling
  <1>14. \A t \in Scan, p \in Path : Sees(t, p)' => t # s /\ Sees(t, p)
    BY <1>7, <1>8, NothingMeans DEF Sees
  <1>15. \A t \in Scan : job'[t].at \in {"starting", "created"} \/ (job'[t].at \in {"ready", "taken"} /\ scan'[t] = "queued")
                          => \A p \in Path : ~ Sees(t, p)'
    BY <1>6, <1>10, <1>14 DEF LibInv, Runs
  <1>16. \A t \in Scan : Executing(t) => scan'[t] # "queued"
    BY <1>10, <1>12 DEF LibInv, Runs
  <1>17. ASSUME NEW p \in Path
         PROVE  \/ item'[p] = item[p]
                \/ /\ item[p] # None /\ item'[p] # None
                   /\ item'[p].hash = item[p].hash /\ item'[p].movie = item[p].movie
                   /\ item'[p].ignored = item[p].ignored /\ item'[p].status = item[p].status
                   /\ \A t \in Scan : Executing(t) => ~ Sees(t, p) /\ ~ Sees(t, p)'
    <2>1. CASE item[p] # None /\ item[p].seen = s
      <3>1. \A t \in Scan : Executing(t) => ~ Sees(t, p) /\ ~ Sees(t, p)'
        BY <1>12, <1>14, <2>1 DEF Sees
      <3> QED
        BY <1>7, <2>1, <3>1
    <2>2. CASE ~ (item[p] # None /\ item[p].seen = s)
      BY <1>8, <2>2
    <2> QED
      BY <2>1, <2>2
  <1>18. Beside
    BY <1>2, <1>6, <1>12, <1>13, <1>15, <1>16, <1>17 DEF Beside
  <1> QED
    BY <1>11, <1>18, BesideKeeps

\* A scan that is not executed yet moves on to where it may, or is given up.
LEMMA WaitingKeeps ==
    ASSUME LibInv, NEW s \in Scan, NEW a \in {"idle", "gone", "created", "ready", "taken"}, NEW v \in Status,
           job[s].at \in {"starting", "created", "ready", "taken"},
           a = "created" => job[s].at = "starting",
           a = "ready" => job[s].at = "created",
           a = "taken" => job[s].at = "ready" /\ v = scan[s],
           job' = To(s, a), scan' = [scan EXCEPT ![s] = v], events' \in 0..MaxEvent,
           UNCHANGED <<queue, life, disk, item, asset, cat, excl, flag, asked, rem, calm, overlap, removed>>
    PROVE  LibInv'
  <1>1. LibTypeOK /\ job \in [Scan -> Job] /\ scan \in [Scan -> Status]
    BY DEF LibInv, LibTypeOK
  <1>2. PICK i \in Job : i = job[s]
    BY <1>1
  <1>3. PICK k \in Job : /\ k = [i EXCEPT !.at = a] /\ k.at = a
                         /\ k.held = i.held /\ k.lost = i.lost /\ k.now = i.now
    <2>1. [i EXCEPT !.at = a] \in Job
      BY DEF Job, Step, Asking
    <2> QED
      BY <2>1 DEF Job
  <1>4. job' = [job EXCEPT ![s] = k]
    BY <1>1, <1>2, <1>3 DEF To
  <1>5. job' \in [Scan -> Job] /\ job'[s] = k /\ \A t \in Scan : t # s => job'[t] = job[t]
    BY <1>1, <1>4
  <1>6. scan' \in [Scan -> Status] /\ scan'[s] = v /\ \A t \in Scan : t # s => scan'[t] = scan[t]
    BY <1>1
  <1>7. LibTypeOK'
    BY <1>1, <1>5, <1>6 DEF LibTypeOK
  <1>8. ~ Executing(s) /\ ~ Executing(s)'
    BY <1>3, <1>5 DEF Executing, Asking
  <1>9. Fits(k, item')
    <2>1. Fits(i, item) /\ i.at \in {"starting", "created", "ready", "taken"}
      BY <1>2 DEF LibInv, Shapes
    <2> QED
      BY <1>3, <2>1 DEF Fits, Handling
  <1>10. \A t \in Scan : job'[t].at \in {"starting", "created"} \/ (job'[t].at \in {"ready", "taken"} /\ scan'[t] = "queued")
                          => \A p \in Path : ~ Sees(t, p)'
    <2> TAKE t \in Scan
    <2>1. \A p \in Path : Sees(t, p)' <=> Sees(t, p)
      BY DEF Sees
    <2>2. CASE t = s
      BY <1>3, <1>5, <1>6, <2>1, <2>2 DEF LibInv, Runs
    <2>3. CASE t # s
      BY <1>5, <1>6, <2>1, <2>3 DEF LibInv, Runs
    <2> QED
      BY <2>2, <2>3
  <1>11. \A t \in Scan : Executing(t) => scan'[t] # "queued"
    BY <1>6, <1>8 DEF LibInv, Runs
  <1>12. Beside
    BY <1>5, <1>8, <1>9, <1>10, <1>11 DEF Beside
  <1> QED
    BY <1>7, <1>12, BesideKeeps

LEMMA RequestKeeps ==
    ASSUME LibInv, NEW s \in Scan, Create(s) \/ Enqueue(s) \/ Look(s)
    PROVE  LibInv'
  <1>1. scan = [scan EXCEPT ![s] = scan[s]] /\ scan[s] \in Status
    BY DEF LibInv, LibTypeOK
  <1>2. events \in 0..MaxEvent /\ (Fails => events' \in 0..MaxEvent)
    BY LibraryAssumption DEF LibInv, LibTypeOK, Fails
  <1>3. CASE Create(s)
    <2>1. "queued" \in Status
      BY DEF Status, Busy
    <2> QED
      BY <1>2, <1>3, <2>1, WaitingKeeps DEF Create, history
  <1>4. CASE Enqueue(s)
    <2>1. PICK a \in {"ready", "gone"} : /\ job' = To(s, a) /\ events' \in 0..MaxEvent
      BY <1>2, <1>4 DEF Enqueue
    <2> QED
      BY <1>1, <1>4, <2>1, WaitingKeeps DEF Enqueue
  <1>5. CASE Look(s)
    <2>1. CASE job' = To(s, "taken") /\ UNCHANGED <<scan, events>>
      BY <1>1, <1>2, <1>5, <2>1, WaitingKeeps DEF Look
    <2>2. CASE scan' = [scan EXCEPT ![s] = "cancelled"] /\ job' = To(s, "idle") /\ UNCHANGED events
      <3>1. "cancelled" \in Status
        BY DEF Status
      <3> QED
        BY <1>2, <1>5, <2>2, <3>1, WaitingKeeps DEF Look
    <2>3. CASE job' = To(s, "gone") /\ Fails /\ UNCHANGED scan
      BY <1>1, <1>2, <1>5, <2>3, WaitingKeeps DEF Look
    <2> QED
      BY <1>5, <2>1, <2>2, <2>3 DEF Look
  <1> QED
    BY <1>3, <1>4, <1>5

LEMMA CancelKeeps ==
    ASSUME LibInv, NEW s \in Scan, AskCancel(s) \/ Cancel(s)
    PROVE  LibInv'
  <1>1. LibTypeOK /\ scan \in [Scan -> Status] /\ asked \in [Scan -> Busy \cup {"no"}]
    BY DEF LibInv, LibTypeOK
  <1>2. /\ asked' \in [Scan -> Busy \cup {"no"}] /\ flag' \subseteq Scan /\ flag \subseteq flag'
        /\ scan' \in [Scan -> Status]
        /\ \A t \in Scan : scan'[t] \in {scan[t], "cancelled"}
        /\ events' \in 0..MaxEvent
    <2>1. events \in 0..MaxEvent /\ MaxEvent \in Nat /\ flag \subseteq Scan
      BY <1>1, LibraryAssumption DEF LibTypeOK
    <2>2. CASE AskCancel(s)
      BY <1>1, <2>1, <2>2 DEF AskCancel
    <2>3. CASE Cancel(s)
      BY <1>1, <2>1, <2>3 DEF Cancel, Status, history
    <2> QED
      BY <2>2, <2>3
  <1>3. UNCHANGED <<queue, life, disk, item, asset, cat, excl, job, rem, calm, overlap, removed>>
    BY DEF AskCancel, Cancel, history
  <1>4. LibTypeOK'
    BY <1>1, <1>2, <1>3 DEF LibTypeOK
  <1>5. \A t \in Scan : job'[t].at \in {"starting", "created"} \/ (job'[t].at \in {"ready", "taken"} /\ scan'[t] = "queued")
                          => \A p \in Path : ~ Sees(t, p)'
    <2> TAKE t \in Scan
    <2>1. \A p \in Path : Sees(t, p)' <=> Sees(t, p)
      BY <1>3 DEF Sees
    <2> QED
      BY <1>2, <1>3, <2>1 DEF LibInv, Runs
  <1>6. \A t \in Scan : Executing(t) => scan'[t] # "queued" /\ (t \in flag => t \in flag')
    BY <1>2 DEF LibInv, Runs
  <1>7. Beside
    BY <1>3, <1>5, <1>6 DEF Beside
  <1> QED
    BY <1>4, <1>7, BesideKeeps

\* A scan taken up breaks off, or is the only one that executes, or overlaps.
LEMMA TakeKeeps ==
    ASSUME LibInv, NEW s \in Scan, Take(s)
    PROVE  LibInv'
  <1>1. LibTypeOK /\ Shapes /\ Runs /\ Barred /\ job \in [Scan -> Job] /\ calm \subseteq Scan /\ scan \in [Scan -> Status]
    BY DEF LibInv, LibTypeOK
  <1>2. /\ job[s].at = "taken" /\ Up
        /\ UNCHANGED <<queue, life, disk, item, asset, cat, excl, flag, asked, rem, removed>>
    BY DEF Take
  <1>3. PICK i \in Job : i = job[s]
    BY <1>1
  <1>4. i.at = "taken" /\ i.held = Idle.held /\ i.lost = {} /\ i.now = None
    BY <1>1, <1>2, <1>3 DEF Shapes, Fits, Handling
  <1>6. CASE /\ \E left \in {scan[s], "running"} : scan' = [scan EXCEPT ![s] = left]
             /\ job' = To(s, "gone") /\ Fails /\ UNCHANGED <<overlap, calm>>
    <2>1. events' \in 0..MaxEvent
      BY <1>1, <1>6, LibraryAssumption DEF LibTypeOK, Fails
    <2>2. PICK v \in Status : scan' = [scan EXCEPT ![s] = v]
      BY <1>1, <1>6 DEF Status, Busy
    <2> QED
      BY <1>2, <1>6, <2>1, <2>2, WaitingKeeps
  <1>7. CASE /\ scan' = [scan EXCEPT ![s] = "running"] /\ job' = To(s, "list") /\ UNCHANGED events
             /\ overlap' = (overlap \/ Others(s))
             /\ calm' = IF Others(s) THEN {} ELSE IF scan[s] = "queued" THEN calm \cup {s} ELSE calm
    <2>1. /\ scan' = [scan EXCEPT ![s] = "running"] /\ job' = To(s, "list") /\ UNCHANGED events
          /\ overlap' = (overlap \/ Others(s))
          /\ calm' = IF Others(s) THEN {} ELSE IF scan[s] = "queued" THEN calm \cup {s} ELSE calm
      BY <1>7
    <2>2. PICK k \in Job : /\ k = [i EXCEPT !.at = "list"] /\ k.at = "list"
                           /\ k.held = i.held /\ k.lost = i.lost /\ k.now = i.now
      <3>1. [i EXCEPT !.at = "list"] \in Job
        BY DEF Job, Step, Asking
      <3> QED
        BY <3>1 DEF Job
    <2>3. job' = [job EXCEPT ![s] = k]
      BY <1>1, <1>3, <2>1, <2>2 DEF To
    <2>4. job' \in [Scan -> Job] /\ job'[s] = k /\ \A t \in Scan : t # s => job'[t] = job[t]
      BY <1>1, <2>3
    <2>5. scan' \in [Scan -> Status] /\ scan'[s] = "running" /\ \A t \in Scan : t # s => scan'[t] = scan[t]
      BY <1>1, <2>1 DEF Status, Busy
    <2>6. \A t \in Scan : t # s => (Executing(t)' <=> Executing(t))
      BY <2>4 DEF Executing
    <2>7. Others(s)' <=> Others(s)
      BY <2>6 DEF Others
    <2>8. calm' \subseteq {s} /\ (s \in calm' => ~ Others(s) /\ scan[s] = "queued")
      <3>1. s \notin calm
        BY <1>1, <1>2 DEF Runs, Executing, Asking
      <3>2. ~ Others(s) => calm = {}
        BY <1>1, <3>1 DEF Runs, Others
      <3> QED
        BY <2>1, <3>1, <3>2
    <2>9. overlap \in BOOLEAN /\ overlap' \in BOOLEAN /\ (~ overlap' => ~ overlap /\ ~ Others(s))
      BY <1>1, <2>1 DEF LibTypeOK, Others
    <2>10. LibTypeOK'
      BY <1>1, <1>2, <2>1, <2>4, <2>5, <2>8, <2>9 DEF LibTypeOK
    <2>11. Fits(k, item')
      BY <1>4, <2>2 DEF Fits, Handling
    <2>12. Shapes'
      <3>1. \A t \in Scan : Fits(job'[t], item')
        BY <1>1, <1>2, <2>4, <2>11 DEF Shapes
      <3> QED
        BY <1>1, <1>2, <3>1 DEF Shapes, Up
    <2>13. \A t \in Scan : ~ overlap' => (Executing(t)' => t = s) /\ ~ Others(s)'
      BY <2>6, <2>7, <2>9 DEF Others
    <2>14. Executing(s)'
      BY <2>2, <2>4 DEF Executing, Asking
    <2>15. \A t \in Scan, p \in Path : Sees(t, p)' <=> Sees(t, p)
      BY <1>2 DEF Sees
    <2>16. Runs'
      <3>1. \A t \in Scan : Executing(t)' => scan'[t] # "queued"
        BY <1>1, <2>5, <2>6 DEF Runs
      <3>2. \A t \in Scan : job'[t].at \in {"starting", "created"} \/ (job'[t].at \in {"ready", "taken"} /\ scan'[t] = "queued")
                          => \A p \in Path : ~ Sees(t, p)'
        BY <1>1, <2>2, <2>4, <2>5, <2>15 DEF Runs
      <3>3. \A t \in calm' : Executing(t)' /\ ~ Others(t)'
        BY <2>7, <2>8, <2>14
      <3>4. ~ overlap' => \A t \in Scan : Executing(t)' => ~ Others(t)'
        BY <2>13
      <3> QED
        BY <3>1, <3>2, <3>3, <3>4 DEF Runs
    <2>17. Barred'
      <3>1. \A t \in Scan : ~ overlap' => job'[t].at \notin {"match", "import"}
        BY <2>2, <2>4, <2>13 DEF Executing, Asking
      <3> QED
        BY <1>1, <1>2, <3>1 DEF Barred
    <2>18. s \in calm' => Tidy(s, k)'
      <3> HAVE s \in calm'
      <3>1. \A p \in Path : ~ Sees(s, p)'
        BY <1>1, <1>2, <2>8, <2>15 DEF Runs
      <3> QED
        BY <1>4, <2>2, <3>1 DEF Tidy, Handling
    <2>19. \A t \in calm' : Tidy(t, job[t])'
      BY <2>4, <2>8, <2>18
    <2> QED
      BY <2>10, <2>12, <2>16, <2>17, <2>19 DEF LibInv
  <1> QED
    BY <1>6, <1>7 DEF Take

-----------------------------------------------------------------------------
(* The administrator, the files, and the API itself: nothing stays calm.   *)

\* The items keep what the invariant of an undisturbed run is about.
LEMMA DisturbedKeeps ==
    ASSUME LibInv, LibTypeOK', job' = job, life' = life, scan' = scan, overlap' = overlap, calm' = {},
           rem'.at # "no" => rem'.movie \in Movie,
           \A p \in Path : /\ item'[p] = None <=> item[p] = None
                           /\ item[p] # None => item'[p].seen = item[p].seen,
           Barred'
    PROVE  LibInv'
  <1>1. Shapes /\ Runs /\ job \in [Scan -> Job]
    BY DEF LibInv, LibTypeOK
  <1>2. Shapes'
    <2>1. ASSUME NEW t \in Scan PROVE Fits(job'[t], item')
      <3>1. PICK i \in Job : i = job[t]
        BY <1>1
      <3>2. Fits(i, item)
        BY <1>1, <3>1 DEF Shapes
      <3> QED
        BY <3>1, <3>2 DEF Fits, Job
    <2> QED
      BY <1>1, <2>1 DEF Shapes, Up, Executing
  <1>3. Runs'
    BY <1>1 DEF Runs, Executing, Others, Sees
  <1> QED
    BY <1>2, <1>3 DEF LibInv

\* What is removed bars the file in hand from being imported, if it is of it.
LEMMA RemoveLinksKeeps ==
    ASSUME LibInv, NEW m \in Movie, RemoveLinks(m)
    PROVE  LibInv'
  <1>1. /\ LibTypeOK /\ Shapes /\ Barred /\ item \in [Path -> Item \cup {None}] /\ cat[m] \in Film
        /\ excl \in [hash : SUBSET Content, path : SUBSET Path, title : SUBSET Title]
        /\ job \in [Scan -> Job]
    BY DEF LibInv, LibTypeOK, RemoveLinks
  <1>2. PICK L \in SUBSET Path : L = {p \in Path : item[p] # None /\ item[p].movie = m}
    OBVIOUS
  <1>3. /\ excl' = [hash |-> excl.hash \cup {item[p].hash : p \in L},
                    path |-> excl.path \cup L, title |-> excl.title \cup {cat[m].title}]
        /\ item' = [p \in Path |-> IF p \in L
                      THEN [item[p] EXCEPT !.movie = None, !.ignored = TRUE, !.status = "unmatched"] ELSE item[p]]
        /\ rem' = [at |-> "unlinked", movie |-> m] /\ calm' = {} /\ cat[m] # None
        /\ UNCHANGED <<queue, life, disk, asset, cat, scan, flag, job, asked, overlap, removed>>
    BY <1>2 DEF RemoveLinks, scanVars
  <1>4. events' \in 0..MaxEvent
    <2>1. events \in 0..MaxEvent /\ MaxEvent \in Nat
      BY <1>1, LibraryAssumption DEF LibTypeOK
    <2>2. events < MaxEvent /\ events' = events + 1
      BY DEF RemoveLinks
    <2> QED
      BY <2>1, <2>2
  <1>5. ASSUME NEW p \in L
        PROVE  /\ item'[p] \in Item /\ item'[p] # None /\ item'[p].seen = item[p].seen
               /\ item'[p].hash = item[p].hash /\ item'[p].movie = None
    <2>1. PICK r \in Item : r = item[p]
      BY <1>1, <1>2
    <2>2. PICK u \in Item : /\ u = [r EXCEPT !.movie = None, !.ignored = TRUE, !.status = "unmatched"]
                            /\ u.seen = r.seen /\ u.hash = r.hash /\ u.movie = None
      <3>1. [r EXCEPT !.movie = None, !.ignored = TRUE, !.status = "unmatched"] \in Item
        BY DEF Item
      <3> QED
        BY <3>1 DEF Item
    <2>3. item'[p] = u
      BY <1>3, <2>1, <2>2
    <2> QED
      BY <2>1, <2>2, <2>3, NothingMeans
  <1>6. \A p \in Path : p \notin L => item'[p] = item[p]
    BY <1>3
  <1>7. item' \in [Path -> Item \cup {None}]
    <2>1. item' = [p \in Path |-> item'[p]]
      BY <1>3
    <2>2. \A p \in Path : item'[p] \in Item \cup {None}
      BY <1>1, <1>5, <1>6
    <2> QED
      BY <2>1, <2>2
  <1>8. /\ excl'.hash = excl.hash \cup {item[p].hash : p \in L}
        /\ excl'.path = excl.path \cup L /\ excl'.title = excl.title \cup {cat[m].title}
    BY <1>3
  <1>9. \A p \in L : item[p] \in Item
    BY <1>1, <1>2
  <1>10. excl' \in [hash : SUBSET Content, path : SUBSET Path, title : SUBSET Title]
    <2>1. \A p \in L : item[p].hash \in Content
      BY <1>9 DEF Item
    <2>2. cat[m].title \in Title
      BY <1>1 DEF Film
    <2>3. PICK H \in SUBSET Content : H = excl.hash \cup {item[p].hash : p \in L}
      BY <1>1, <2>1
    <2>4. PICK P \in SUBSET Path, T \in SUBSET Title : P = excl.path \cup L /\ T = excl.title \cup {cat[m].title}
      BY <1>1, <2>2
    <2>5. excl' = [hash |-> H, path |-> P, title |-> T]
      BY <1>3, <2>3, <2>4
    <2> QED
      BY <2>5
  <1>11. LibTypeOK'
    BY <1>1, <1>3, <1>4, <1>7, <1>10 DEF LibTypeOK
  <1>12. ASSUME ~ overlap, NEW t \in Scan, job[t].at \in {"match", "import"}
         PROVE  Alone(job[t])' /\ (job[t].at = "import" => Importable(job[t])')
    <2>1. PICK i \in Job : i = job[t]
      BY <1>1
    <2>2. Alone(i) /\ (i.at = "import" => Importable(i))
      BY <1>1, <1>12, <2>1 DEF Barred
    <2>3. i.now \in Path /\ i.held[i.now] # None
      BY <1>1, <1>12, <2>1 DEF Shapes, Fits, Handling
    <2>4. PICK p \in Path, h \in Item : p = i.now /\ h = i.held[p]
      BY <2>3 DEF Job
    <2>5. /\ \A q \in Path \ {p} : item[q] # None => item[q].hash # h.hash
          /\ item[p] # None => item[p].movie \in {None, h.movie}
      BY <2>2, <2>4 DEF Alone
    <2>6. Alone(i)'
      <3>1. \A q \in Path \ {p} : item'[q] # None => item'[q].hash # h.hash
        BY <1>2, <1>5, <1>6, <2>5
      <3>2. item'[p] # None => item'[p].movie \in {None, h.movie}
        BY <1>5, <1>6, <2>5
      <3> QED
        BY <2>4, <3>1, <3>2 DEF Alone
    <2>7. ASSUME i.at = "import" PROVE Importable(i)'
      <3>1. /\ Called(Named[p]) = {} /\ ~ Excluded(p, h.hash)
            /\ h.movie # None => cat[h.movie] = None
        BY <2>2, <2>4, <2>7 DEF Importable
      <3>2. p \notin L
        <4>1. m # None
          BY NothingMeans
        <4> QED
          BY <1>2, <1>3, <2>5, <3>1, <4>1
      <3>3. \A q \in L : item[q].hash # h.hash
        BY <1>2, <2>5, <3>2
      <3>4. Named[p] # cat[m].title
        BY <1>3, <3>1 DEF Called
      <3>5. ~ Excluded(p, h.hash)'
        BY <1>8, <3>1, <3>2, <3>3, <3>4 DEF Excluded
      <3>6. Called(Named[p])' = {}
        BY <1>3, <3>1 DEF Called
      <3> QED
        BY <1>3, <2>4, <3>1, <3>5, <3>6 DEF Importable
    <2> QED
      BY <1>3, <2>1, <2>6, <2>7
  <1>13. Barred'
    <2>1. removed' \subseteq excl'.title
      BY <1>1, <1>3, <1>8 DEF Barred
    <2>2. rem'.at = "unlinked" /\ rem'.movie = m /\ cat'[m].title \in excl'.title
      BY <1>3, <1>8
    <2> QED
      BY <1>3, <1>12, <2>1, <2>2 DEF Barred
  <1>14. \A p \in Path : /\ item'[p] = None <=> item[p] = None
                         /\ item[p] # None => item'[p].seen = item[p].seen
    BY <1>2, <1>5, <1>6
  <1> QED
    BY <1>3, <1>11, <1>13, <1>14, DisturbedKeeps

\* What bars a file is left alone, but for movies that go.
LEMMA StillBarred ==
    ASSUME LibInv, job' = job, overlap' = overlap, item' = item, excl' = excl,
           \A m \in Movie : cat'[m] \in {cat[m], None},
           removed' \subseteq excl.title,
           rem'.at = "unlinked" => rem' = rem
    PROVE  Barred'
  <1>1. Barred /\ Shapes /\ job \in [Scan -> Job]
    BY DEF LibInv, LibTypeOK
  <1>2. \A i \in Job : Alone(i) => Alone(i)'
    BY DEF Alone
  <1>3. ASSUME NEW i \in Job, Importable(i), Fits(i, item), i.at = "import" PROVE Importable(i)'
    <2>1. PICK p \in Path, h \in Item : p = i.now /\ h = i.held[p]
      BY <1>3 DEF Fits, Handling, Job
    <2>2. Called(Named[p])' \subseteq Called(Named[p])
      BY DEF Called
    <2>3. h.movie # None => h.movie \in Movie
      BY DEF Item
    <2>4. ~ Excluded(p, h.hash) => ~ Excluded(p, h.hash)'
      BY DEF Excluded
    <2> QED
      BY <1>3, <2>1, <2>2, <2>3, <2>4 DEF Importable
  <1>4. rem'.at = "unlinked" /\ cat'[rem'.movie] # None => cat'[rem'.movie].title \in excl'.title
    BY <1>1 DEF Barred, Shapes
  <1>5. ASSUME ~ overlap', NEW t \in Scan
        PROVE  /\ job'[t].at \in {"match", "import"} => Alone(job[t])'
               /\ job'[t].at = "import" => Importable(job[t])'
    <2>1. PICK i \in Job : i = job[t] /\ job'[t] = i
      BY <1>1
    <2>2. Fits(i, item)
      BY <1>1, <2>1 DEF Shapes
    <2>3. /\ i.at \in {"match", "import"} => Alone(i)
          /\ i.at = "import" => Importable(i)
      BY <1>1, <1>5, <2>1 DEF Barred
    <2> QED
      BY <1>2, <1>3, <2>1, <2>2, <2>3
  <1> QED
    BY <1>4, <1>5 DEF Barred

LEMMA RemoveKeeps ==
    ASSUME LibInv, RemoveTitle \/ RemoveAssets
    PROVE  LibInv'
  <1>1. /\ LibTypeOK /\ Shapes /\ Barred /\ rem.movie \in Movie /\ cat \in [Movie -> Film \cup {None}]
        /\ removed \subseteq Title /\ asset \in [Path -> Asset \cup {None}]
    BY DEF LibInv, LibTypeOK, Shapes, RemoveTitle, RemoveAssets
  <1>2. /\ calm' = {} /\ UNCHANGED <<queue, life, disk, item, excl, scan, flag, job, asked, events, overlap>>
        /\ rem' \in [at : {"no", "untitled"}, movie : Movie \cup {None}]
        /\ rem'.at # "no" => rem'.movie \in Movie
    <2>1. CASE RemoveTitle
      <3>1. PICK r \in [at : {"no", "unlinked", "untitled"}, movie : Movie \cup {None}] : r = rem
        BY <1>1 DEF LibTypeOK
      <3> QED
        BY <1>1, <2>1, <3>1 DEF RemoveTitle, scanVars
    <2>2. CASE RemoveAssets
      BY <2>2 DEF RemoveAssets, scanVars
    <2> QED
      BY <2>1, <2>2
  <1>3. /\ asset' \in [Path -> Asset \cup {None}]
        /\ cat' \in [Movie -> Film \cup {None}] /\ \A m \in Movie : cat'[m] \in {cat[m], None}
        /\ removed' \subseteq Title /\ removed' \subseteq excl.title
    <2>1. CASE RemoveTitle
      <3>1. cat[rem.movie] # None => cat[rem.movie].title \in Title /\ cat[rem.movie].title \in excl.title
        BY <1>1, <2>1 DEF Barred, RemoveTitle, Film
      <3> QED
        BY <1>1, <2>1, <3>1 DEF Barred, RemoveTitle
    <2>2. CASE RemoveAssets
      <3>1. asset' \in [Path -> Asset \cup {None}]
        BY <1>1, <2>2, WithoutAssets DEF RemoveAssets
      <3> QED
        BY <1>1, <2>2, <3>1 DEF Barred, RemoveAssets
    <2> QED
      BY <2>1, <2>2
  <1>4. LibTypeOK'
    BY <1>1, <1>2, <1>3 DEF LibTypeOK
  <1>5. Barred'
    BY <1>2, <1>3, StillBarred
  <1> QED
    BY <1>2, <1>4, <1>5, DisturbedKeeps

LEMMA ChangeKeeps ==
    ASSUME LibInv, Change
    PROVE  LibInv'
  <1>1. LibTypeOK /\ Shapes /\ Barred /\ disk \in [Path -> Content \cup {None}]
    BY DEF LibInv, LibTypeOK
  <1>2. /\ calm' = {}
        /\ UNCHANGED <<queue, life, item, asset, cat, excl, scan, flag, job, asked, rem, overlap, removed>>
    BY DEF Change, scanVars
  <1>3. disk' \in [Path -> Content \cup {None}]
    BY <1>1 DEF Change
  <1>4. events' \in 0..MaxEvent
    <2>1. events \in 0..MaxEvent /\ MaxEvent \in Nat
      BY <1>1, LibraryAssumption DEF LibTypeOK
    <2> QED
      BY <2>1 DEF Change
  <1>5. LibTypeOK'
    BY <1>1, <1>2, <1>3, <1>4 DEF LibTypeOK
  <1>6. Barred'
    BY <1>1, <1>2, StillBarred DEF Barred
  <1> QED
    BY <1>1, <1>2, <1>5, <1>6, DisturbedKeeps DEF Shapes

LEMMA CrashKeeps ==
    ASSUME LibInv, Crash
    PROVE  LibInv'
  <1>1. LibTypeOK /\ Shapes /\ Runs /\ Barred /\ job \in [Scan -> Job]
    BY DEF LibInv, LibTypeOK
  <1>2. /\ life' = "down" /\ calm' = {} /\ rem' = [at |-> "no", movie |-> None]
        /\ asked' = [s \in Scan |-> "no"]
        /\ UNCHANGED <<queue, disk, item, asset, cat, excl, scan, flag, overlap, removed>>
        /\ job' = [s \in Scan |-> IF queue /\ (job[s].at \in {"ready", "taken"} \/ Executing(s))
                                  THEN [Idle EXCEPT !.at = "ready"]
                                  ELSE IF scan[s] \in Busy THEN [Idle EXCEPT !.at = "gone"] ELSE Idle]
    BY DEF Crash
  <1>3. events' \in 0..MaxEvent
    <2>1. events \in 0..MaxEvent /\ MaxEvent \in Nat
      BY <1>1, LibraryAssumption DEF LibTypeOK
    <2> QED
      BY <2>1 DEF Crash
  <1>4. PICK i \in Job, r \in Job, g \in Job : /\ i = Idle /\ r = [Idle EXCEPT !.at = "ready"]
                                             /\ g = [Idle EXCEPT !.at = "gone"]
    BY IdleJob DEF Step, Asking
  <1>5. /\ i.at = "idle" /\ i.held = Idle.held /\ i.lost = {} /\ i.now = None
        /\ r.at = "ready" /\ r.held = Idle.held /\ r.lost = {} /\ r.now = None
        /\ g.at = "gone" /\ g.held = Idle.held /\ g.lost = {} /\ g.now = None
    <2>1. Idle.at = "idle" /\ Idle.lost = {} /\ Idle.now = None /\ Idle \in Job
      BY IdleJob
    <2>2. i.at = "idle" /\ i.held = Idle.held /\ i.lost = {} /\ i.now = None
      BY <1>4, <2>1
    <2>3. r.at = "ready" /\ r.held = Idle.held /\ r.lost = {} /\ r.now = None
      BY <1>4, <2>1 DEF Job
    <2>4. g.at = "gone" /\ g.held = Idle.held /\ g.lost = {} /\ g.now = None
      BY <1>4, <2>1 DEF Job
    <2> QED
      BY <2>2, <2>3, <2>4
  <1>6. job' \in [Scan -> Job] /\ \A s \in Scan : /\ job'[s] \in {i, r, g}
                                                  /\ job'[s] = r => job[s].at \in {"ready", "taken"} \/ Executing(s)
    BY <1>2, <1>4, <1>5
  <1>7. LibTypeOK'
    BY <1>1, <1>2, <1>3, <1>6 DEF LibTypeOK
  <1>8. \A s \in Scan : ~ Executing(s)'
    BY <1>5, <1>6 DEF Executing, Asking
  <1>9. Shapes'
    <2>1. Fits(i, item') /\ Fits(r, item') /\ Fits(g, item')
      BY <1>5 DEF Fits, Handling
    <2>2. \A s \in Scan : Fits(job'[s], item')
      BY <1>6, <2>1
    <2> QED
      BY <1>2, <1>8, <2>2 DEF Shapes
  <1>10. \A s \in Scan, p \in Path : Sees(s, p)' <=> Sees(s, p)
    BY <1>2 DEF Sees
  <1>11. Runs'
    <2>1. \A s \in Scan : job'[s].at \in {"starting", "created"} \/ (job'[s].at \in {"ready", "taken"} /\ scan'[s] = "queued")
                              => \A p \in Path : ~ Sees(s, p)'
      BY <1>1, <1>2, <1>5, <1>6, <1>10 DEF Runs
    <2> QED
      BY <1>2, <1>8, <2>1 DEF Runs
  <1>12. Barred'
    <2>1. \A s \in Scan : job'[s].at \notin {"match", "import"}
      BY <1>5, <1>6
    <2> QED
      BY <1>1, <1>2, <2>1 DEF Barred
  <1> QED
    BY <1>2, <1>7, <1>9, <1>11, <1>12 DEF LibInv

LEMMA BootKeeps ==
    ASSUME LibInv, Boot
    PROVE  LibInv'
  <1>1. /\ LibTypeOK /\ Shapes /\ Runs /\ Barred /\ job \in [Scan -> Job] /\ calm \subseteq Scan
        /\ item \in [Path -> Item \cup {None}] /\ asset \in [Path -> Asset \cup {None}]
        /\ cat \in [Movie -> Film \cup {None}]
    BY DEF LibInv, LibTypeOK
  <1>2. PICK dead \in SUBSET Movie :
          /\ item' = Without(item, dead) /\ asset' = Without(asset, dead)
          /\ cat' = [m \in Movie |-> IF m \in dead THEN None ELSE cat[m]]
    <2>1. {m \in Movie : Unplayable(cat, asset, m)} \in SUBSET Movie
      OBVIOUS
    <2> QED
      BY <2>1 DEF Boot
  <1>3. /\ ~ Up /\ life' = "second" /\ UNCHANGED <<queue, disk, excl, scan, flag, job, asked, rem, events, calm, overlap, removed>>
    BY DEF Boot, scanVars, history, Up
  <1>4. /\ item' \in [Path -> Item \cup {None}] /\ asset' \in [Path -> Asset \cup {None}]
        /\ cat' \in [Movie -> Film \cup {None}]
    BY <1>1, <1>2, WithoutItems, WithoutAssets
  <1>5. \A p \in Path : item'[p] \in {item[p], None}
    BY <1>1, <1>2, WithoutItems
  <1>6. \A m \in Movie : cat'[m] \in {cat[m], None}
    BY <1>2
  <1>7. LibTypeOK'
    BY <1>1, <1>3, <1>4 DEF LibTypeOK
  <1>8. (\A s \in Scan : ~ Executing(s) /\ ~ Executing(s)') /\ calm' = {}
    BY <1>1, <1>3 DEF Shapes, Runs, Executing
  <1>9. Shapes'
    <2>1. ASSUME NEW s \in Scan PROVE Fits(job'[s], item')
      <3>1. PICK i \in Job : i = job[s]
        BY <1>1
      <3>2. Fits(i, item) /\ i.at \in Asking
        BY <1>1, <1>8, <3>1 DEF Shapes, Executing
      <3>3. Fits(i, item')
        BY <3>2 DEF Fits, Handling, Asking
      <3> QED
        BY <1>3, <3>1, <3>3
    <2> QED
      BY <1>1, <1>3, <2>1 DEF Shapes, Up
  <1>10. \A s \in Scan, p \in Path : Sees(s, p)' => Sees(s, p)
    BY <1>5 DEF Sees
  <1>11. Runs'
    BY <1>1, <1>3, <1>8, <1>10 DEF Runs
  <1>12. Barred'
    <2>1. \A s \in Scan : job'[s].at \notin {"match", "import"}
      BY <1>8 DEF Executing, Asking
    <2>2. rem'.at = "unlinked" /\ cat'[rem'.movie] # None => cat'[rem'.movie].title \in excl'.title
      BY <1>1, <1>3, <1>6 DEF Barred, Shapes
    <2> QED
      BY <1>1, <1>3, <2>1, <2>2 DEF Barred
  <1> QED
    BY <1>7, <1>8, <1>9, <1>11, <1>12 DEF LibInv

-----------------------------------------------------------------------------
(* The invariant, and what follows from it.                                *)

LEMMA LibInit ==
    ASSUME Init
    PROVE  LibInv
  <1>1. PICK i \in Job : i = Idle
    BY IdleJob
  <1>2. i.at = "idle" /\ i.held = Idle.held /\ i.lost = {} /\ i.now = None
    BY <1>1, IdleJob
  <1>3. job \in [Scan -> Job] /\ \A s \in Scan : job[s] = i
    BY <1>1 DEF Init
  <1>4. disk \in [Path -> Content \cup {None}]
    BY LibraryAssumption DEF Init
  <1>5. cat \in [Movie -> Film \cup {None}]
    BY DEF Init
  <1>6. LibTypeOK
    <2>1. 0 \in 0..MaxEvent
      BY LibraryAssumption
    <2>2. /\ excl \in [hash : SUBSET Content, path : SUBSET Path, title : SUBSET Title]
          /\ rem \in [at : {"no", "unlinked", "untitled"}, movie : Movie \cup {None}]
      BY DEF Init
    <2>3. scan \in [Scan -> Status] /\ asked \in [Scan -> Busy \cup {"no"}]
      BY DEF Init, Status
    <2> QED
      BY <1>3, <1>4, <1>5, <2>1, <2>2, <2>3 DEF Init, LibTypeOK
  <1>7. \A s \in Scan : ~ Executing(s)
    BY <1>2, <1>3 DEF Executing, Asking
  <1>8. Shapes
    BY <1>2, <1>3, <1>7 DEF Init, Shapes, Fits, Handling
  <1>9. Runs
    BY <1>2, <1>3, <1>7 DEF Init, Runs
  <1>10. Barred
    BY <1>2, <1>3 DEF Init, Barred
  <1> QED
    BY <1>6, <1>8, <1>9, <1>10 DEF LibInv, Init

LEMMA LibStutters ==
    ASSUME LibInv, UNCHANGED vars
    PROVE  LibInv'
  <1>1. UNCHANGED <<queue, life, disk, item, asset, cat, excl, scan, flag, job, asked, rem, events, calm, overlap, removed>>
    BY DEF vars, scanVars, history
  <1>2. LibTypeOK'
    BY <1>1 DEF LibInv, LibTypeOK
  <1>3. \A p \in Path : item'[p] = item[p]
    BY <1>1
  <1>4. Beside
    BY <1>1, <1>3 DEF Beside, LibInv, Runs, Sees
  <1> QED
    BY <1>2, <1>4, BesideKeeps

LEMMA LibStep ==
    ASSUME LibInv, [Next]_vars
    PROVE  LibInv'
  <1>1. CASE UNCHANGED vars
    BY <1>1, LibStutters
  <1>2. ASSUME NEW s \in Scan, Work(s) PROVE LibInv'
    BY <1>2, RequestKeeps, TakeKeeps, ListKeeps, UnreadKeeps, SlipKeeps, ExamineKeeps, MatchKeeps, ImportKeeps,
       AttachKeeps, SavingKeeps, SweepKeeps, MarkKeeps, EndKeeps, JudgeKeeps, DropKeeps, EraseKeeps,
       SweptKeeps DEF Work
  <1>3. ASSUME NEW s \in Scan, Start(s) \/ AskCancel(s) \/ Cancel(s) PROVE LibInv'
    BY <1>3, StartKeeps, CancelKeeps
  <1>4. ASSUME NEW m \in Movie, RemoveLinks(m) PROVE LibInv'
    BY <1>4, RemoveLinksKeeps
  <1>5. CASE RemoveTitle \/ RemoveAssets
    BY <1>5, RemoveKeeps
  <1>6. CASE Change
    BY <1>6, ChangeKeeps
  <1>7. CASE Crash
    BY <1>7, CrashKeeps
  <1>8. CASE Boot
    BY <1>8, BootKeeps
  <1> QED
    BY <1>1, <1>2, <1>3, <1>4, <1>5, <1>6, <1>7, <1>8 DEF Next

LEMMA LibInvariance == Spec => []LibInv
  <1>1. Init => LibInv
    BY LibInit
  <1>2. LibInv /\ [Next]_vars => LibInv'
    BY LibStep
  <1> QED
    BY <1>1, <1>2, PTL DEF Spec

(* Types: a scan that has a file, a movie or an item in hand has it, though *)
(* the rows it read are deleted under it.                                   *)
THEOREM LibTypeCorrect == Spec => []LibTypeOK
  <1>1. LibInv => LibTypeOK
    BY DEF LibInv
  <1> QED
    BY <1>1, LibInvariance, PTL

\* A scan is completed by its last step alone.
LEMMA WhoFinishes ==
    ASSUME LibTypeOK, NEW s \in Scan, [Next]_vars, scan[s] = "running", scan'[s] = "completed"
    PROVE  Finish(s) /\ s \notin flag
  <1>1. Next /\ scan \in [Scan -> Status]
    BY DEF vars, scanVars, LibTypeOK
  <1>2. ASSUME NEW t \in Scan, Work(t) PROVE Finish(t)
    <2>1. CASE Create(t) \/ Look(t) \/ Take(t) \/ Throw(t)
      BY <1>1, <2>1 DEF Create, Look, Take, Throw
    <2>2. CASE ~ (Create(t) \/ Look(t) \/ Take(t) \/ Throw(t) \/ Finish(t))
      BY <1>2, <2>2 DEF Work, Enqueue, List, Unread, Slip, Examine, Match, Import, Attach, Save, Sweep, Mark,
         Judge, Drop, Erase, Swept
    <2> QED
      BY <2>1, <2>2
  <1>3. ASSUME NEW t \in Scan, Start(t) \/ AskCancel(t) \/ Cancel(t) PROVE FALSE
    BY <1>1, <1>3 DEF Start, AskCancel, Cancel
  <1>4. ASSUME NEW m \in Movie, RemoveLinks(m) PROVE FALSE
    BY <1>4 DEF RemoveLinks, scanVars
  <1>5. ~ (RemoveTitle \/ RemoveAssets \/ Change \/ Crash \/ Boot)
    BY DEF RemoveTitle, RemoveAssets, Change, Crash, Boot, scanVars
  <1>6. PICK t \in Scan : Finish(t)
    BY <1>1, <1>2, <1>3, <1>4, <1>5 DEF Next
  <1> QED
    BY <1>1, <1>6 DEF Finish

LEMMA GoodMirrors ==
    ASSUME NEW s \in Scan, Truly(s, {})
    PROVE  Mirrors
  <1>1. ASSUME NEW p \in Path, disk[p] = None PROVE item[p] = None \/ item[p].status \in {"missing", "duplicate"}
    BY <1>1 DEF Truly, Absent
  <1>2. ASSUME NEW p \in Path, disk[p] # None PROVE Served(p) \/ PassedOver(p)
    BY <1>2 DEF Truly, Good, PassedOver, Sees
  <1> QED
    BY <1>1, <1>2 DEF Mirrors

(* A scan that completes, nothing having changed under it and every file   *)
(* having been readable, leaves the catalogue true to the files.           *)
THEOREM ScanIsTrueHolds == Spec => ScanIsTrue
  <1>1. LibInv /\ [Next]_vars
          => \A s \in calm : scan[s] = "running" /\ scan'[s] = "completed" => Mirrors
    <2> SUFFICES ASSUME LibInv, [Next]_vars, NEW s \in calm, scan[s] = "running", scan'[s] = "completed"
                 PROVE  Mirrors
      OBVIOUS
    <2>1. s \in Scan /\ LibTypeOK
      BY DEF LibInv, LibTypeOK
    <2>2. Finish(s) /\ s \notin flag
      BY <2>1, WhoFinishes
    <2>3. Truly(s, {})
      BY <2>2 DEF Finish, LibInv, Tidy
    <2> QED
      BY <2>1, <2>3, GoodMirrors
  <1> QED
    BY <1>1, LibInvariance, PTL DEF Spec, ScanIsTrue

(* Such a scan deletes a movie only when the files of all its videos are   *)
(* gone, excluded or passed over as copies.                                *)
THEOREM PurgedWasGoneHolds == Spec => PurgedWasGone
  <1>1. LibInv /\ [Next]_vars
          => \A s \in calm : job[s].at = "drop" /\ job'[s].at = "erase"
               => \A p \in Videos(asset, job[s].link) : disk[p] = None \/ PassedOver(p)
    <2> SUFFICES ASSUME LibInv, NEW s \in calm, job[s].at = "drop",
                        NEW p \in Videos(asset, job[s].link), disk[p] # None
                 PROVE  PassedOver(p)
      OBVIOUS
    <2>1. p \in Path /\ asset[p].movie = job[s].link
      BY DEF Videos
    <2>2. Unplayable(cat, asset, job[s].link) /\ Truly(s, {})
      BY DEF LibInv, Tidy
    <2>3. Good(s, p)
      BY <2>1, <2>2 DEF Truly
    <2>4. ~ Served(p)
      BY <2>2 DEF Unplayable, Playable, Served
    <2> QED
      BY <2>3, <2>4 DEF Good, PassedOver, Sees
  <1> QED
    BY <1>1, LibInvariance, PTL DEF Spec, PurgedWasGone

(* No scan imports a title the administrator has deleted, from a file that *)
(* bears the title, or whose path or content the title was linked to.      *)
THEOREM RemovedStaysOutHolds == Spec => RemovedStaysOut
  <1>1. LibInv /\ [Next]_vars
          => \A s \in Scan, m \in Movie :
               job[s].at = "import" /\ cat[m] = None /\ cat'[m] # None /\ cat'[m].title \in removed
               => \/ overlap
                  \/ LET p == job[s].now IN
                     Named[p] # cat'[m].title /\ ~ Excluded(p, job[s].held[p].hash)
    <2> SUFFICES ASSUME LibInv, [Next]_vars, NEW s \in Scan, NEW m \in Movie, job[s].at = "import",
                        cat[m] = None, cat'[m] # None, cat'[m].title \in removed, ~ overlap
                 PROVE  /\ Named[job[s].now] # cat'[m].title
                        /\ ~ Excluded(job[s].now, job[s].held[job[s].now].hash)
      OBVIOUS
    <2>1. ~ Excluded(job[s].now, job[s].held[job[s].now].hash)
      BY DEF LibInv, Barred, Importable
    <2>2. removed \subseteq excl.title
      BY DEF LibInv, Barred
    <2> QED
      BY <2>1, <2>2 DEF Excluded
  <1> QED
    BY <1>1, LibInvariance, PTL DEF Spec, RemovedStaysOut
=============================================================================
