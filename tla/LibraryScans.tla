---------------------------- MODULE LibraryScans ----------------------------
(***************************************************************************)
(* Scans of one movie library: apps/api/src/library/library-scan.service,  *)
(* library-import, library-exclusion, library-matcher, and the parts of    *)
(* library.service that keep the catalogue true to the files.              *)
(*                                                                         *)
(* A scan lists the files, gives each an item, a movie and a video asset,  *)
(* marks the items it did not see as missing, and deletes the movies that  *)
(* have nothing left to play.  Beside it run other scans, cancellations,   *)
(* an administrator who deletes movies, and whoever changes the files.     *)
(* Files are videos; what a probe or the metadata service adds to a row is *)
(* left out, its name of a film is Meta.                                   *)
(***************************************************************************)
EXTENDS Naturals, FiniteSets

CONSTANTS None,      \* no file, no row, no link
          Path,      \* paths in the library
          Content,   \* what a file may hold; its fingerprint
          Title,     \* titles of films
          Movie,     \* ids of movies; an id nothing refers to is used again (bound)
          Scan,      \* ids of scans, used again likewise (bound)
          Named,     \* Named[p]: the title parsed from the path p
          Meta,      \* Meta[t]: the metadata service's title of t
          MaxEvent   \* file changes, crashes and further requests (bound)

ASSUME LibraryAssumption ==
    /\ Named \in [Path -> Title] /\ Meta \in [Title -> Title]
    /\ Content # {} /\ MaxEvent \in Nat

VARIABLES queue,    \* scans go through the job queue; a deployment's, it stays
          life,     \* the API: before a crash, down, after it
          disk,     \* disk[p]: the content of the file at p, or None
          item,     \* item[p]: the library item of p, or None
          asset,    \* asset[p]: the video asset of that item, or None
          cat,      \* cat[m]: the movie m of the catalogue, or None
          excl,     \* the exclusions: contents, paths and titles
          scan,     \* scan[s]: the status of scan s
          flag,     \* scans with a cancel key in Redis
          job,      \* job[s]: how far the execution of s is
          asked,    \* asked[s]: the status a request to cancel s has read
          rem,      \* the deletion of a movie under way
          events,   \* how many events there have been (history)
          calm,     \* scans nothing has disturbed so far (history)
          overlap,  \* two scans have run at once (history)
          removed   \* titles the administrator has deleted (history)

scanVars == <<scan, flag, job, asked>>
history == <<events, calm, overlap, removed>>
vars == <<queue, life, disk, item, asset, cat, excl, scanVars, rem, history>>

Old == "old"       \* lastScanId of a scan whose id is in use again
Busy == {"queued", "running"}
Status == Busy \cup {"none", "completed", "failed", "cancelled"}
Asking == {"idle", "gone", "starting", "created", "ready", "taken"}
Step == Asking \cup {"list", "walk", "match", "import", "attach", "save", "sweep", "drop",
                    "erase", "finish"}
Executing(s) == job[s].at \notin Asking
Up == life # "down"
Others(s) == \E t \in Scan \ {s} : Executing(t)

\* A command to Mongo, Redis or the queue fails; one of the events.
Fails == events < MaxEvent /\ events' = events + 1

Item == [hash : Content, movie : Movie \cup {None}, seen : Scan \cup {Old}, ignored : BOOLEAN,
         status : {"processing", "ready", "unmatched", "missing", "duplicate"}]
Asset == [movie : Movie, status : {"ready", "missing"}]
Film == [title : Title, avail : {"available", "unavailable", "coming"}]

ASSUME NoneIsNothing ==
    /\ None \notin Path \cup Content \cup Movie \cup Item \cup Asset \cup Film
    /\ Old \notin Scan

\* at: "gone" once the request or the execution broke off and left the scan busy.
\* left: paths yet to be visited; held: the items as they were loaded; lost: those
\* of them deleted since; now: the path in hand; link: the movie in hand; doomed:
\* the movies yet to be purged.
Job == [at : Step, left : SUBSET Path, held : [Path -> Item \cup {None}], lost : SUBSET Path,
        now : Path \cup {None}, link : Movie \cup {None}, doomed : SUBSET Movie]

Idle == [at |-> "idle", left |-> {}, held |-> [p \in Path |-> None], lost |-> {},
         now |-> None, link |-> None, doomed |-> {}]

LibTypeOK ==
    /\ queue \in BOOLEAN /\ life \in {"first", "down", "second"} /\ overlap \in BOOLEAN
    /\ disk \in [Path -> Content \cup {None}]
    /\ item \in [Path -> Item \cup {None}]
    /\ asset \in [Path -> Asset \cup {None}]
    /\ cat \in [Movie -> Film \cup {None}]
    /\ excl \in [hash : SUBSET Content, path : SUBSET Path, title : SUBSET Title]
    /\ scan \in [Scan -> Status] /\ flag \subseteq Scan
    /\ job \in [Scan -> Job]
    /\ asked \in [Scan -> Busy \cup {"no"}]
    /\ rem \in [at : {"no", "unlinked", "untitled"}, movie : Movie \cup {None}]
    /\ events \in 0..MaxEvent /\ calm \subseteq Scan /\ removed \subseteq Title

(* Nothing scanned yet; the administrator may have added a movie by hand.   *)
(* Bound: it bears the name the metadata service gives.  Which path,       *)
(* content and id come first makes no difference.                          *)
Init ==
    /\ queue \in BOOLEAN /\ life = "first"
    /\ disk = [p \in Path |-> IF p = CHOOSE q \in Path : TRUE THEN CHOOSE c \in Content : TRUE
                              ELSE None]
    /\ item = [p \in Path |-> None] /\ asset = [p \in Path |-> None]
    /\ \/ cat = [m \in Movie |-> None]
       \/ \E f \in Film :
             /\ f.avail # "available" /\ f.title \in {Meta[t] : t \in Title}
             /\ cat = [m \in Movie |-> IF m = CHOOSE n \in Movie : TRUE THEN f ELSE None]
    /\ excl = [hash |-> {}, path |-> {}, title |-> {}]
    /\ scan = [s \in Scan |-> "none"] /\ flag = {}
    /\ job = [s \in Scan |-> Idle] /\ asked = [s \in Scan |-> "no"]
    /\ rem = [at |-> "no", movie |-> None]
    /\ events = 0 /\ calm = {} /\ overlap = FALSE /\ removed = {}

(* Document.save writes the fields that differ from the loaded document.   *)
Merge(held, new, cur) == [f \in DOMAIN cur |-> IF new[f] # held[f] THEN new[f] ELSE cur[f]]

Videos(a, m) == {p \in Path : a[p] # None /\ a[p].movie = m}
Playable(a, m) == \E p \in Videos(a, m) : a[p].status = "ready"

(* refreshMovieAvailability: a movie's availability follows its videos.    *)
Refreshed(c, a, m) ==
    IF m = None \/ c[m] = None \/ c[m].avail = "coming" THEN c
    ELSE [c EXCEPT ![m].avail = IF Playable(a, m) THEN "available" ELSE "unavailable"]

\* Mutant: one missing video is enough.
Unplayable_OneMissing(c, a, m) ==
    /\ c[m] # None /\ c[m].avail # "coming"
    /\ \E p \in Videos(a, m) : a[p].status = "missing"

(* purgeMovieIfUnplayable deletes m; a movie that never had a video stays. *)
Unplayable(c, a, m) ==
    /\ c[m] # None /\ c[m].avail # "coming"
    /\ Videos(a, m) # {} /\ ~ Playable(a, m)

To(s, at) == [job EXCEPT ![s].at = at]

-----------------------------------------------------------------------------
(* A scan is requested, cancelled, and taken up.                           *)

\* Ids no execution or request is about; which of them is taken makes no difference.
Free == {s \in Scan : job[s].at \in {"idle", "gone"} /\ scan[s] \notin Busy /\ asked[s] = "no"}

\* start: no scan may be queued or running.
Start(s) ==
    /\ Up /\ ~ overlap
    /\ s \in Free /\ s = CHOOSE t \in Free : TRUE
    /\ \A t \in Scan : scan[t] \notin Busy
    /\ \/ (\A t \in Scan : job[t].at # "starting") /\ UNCHANGED events
       \/ (\E t \in Scan : job[t].at = "starting") /\ events < MaxEvent /\ events' = events + 1
    /\ job' = To(s, "starting")
    /\ scan' = [scan EXCEPT ![s] = "none"] /\ flag' = flag \ {s}
    /\ item' = [p \in Path |-> IF item[p] # None /\ item[p].seen = s
                               THEN [item[p] EXCEPT !.seen = Old] ELSE item[p]]
    /\ UNCHANGED <<queue, life, disk, asset, cat, excl, asked, rem, calm, overlap, removed>>

Create(s) ==
    /\ Up /\ job[s].at = "starting"
    /\ scan' = [scan EXCEPT ![s] = "queued"]
    /\ job' = To(s, "created")
    /\ UNCHANGED <<queue, life, disk, item, asset, cat, excl, flag, asked, rem, history>>

\* The log, then queue.add, or setImmediate where there is no queue.
Enqueue(s) ==
    /\ Up /\ job[s].at = "created"
    /\ \/ job' = To(s, "ready") /\ UNCHANGED events
       \/ job' = To(s, "gone") /\ Fails
    /\ UNCHANGED <<queue, life, disk, item, asset, cat, excl, scan, flag, asked, rem, calm, overlap, removed>>

\* cancel reads the scan, and acts on what it read.
AskCancel(s) ==
    /\ Up /\ asked[s] = "no" /\ scan[s] \in Busy /\ s \notin flag
    /\ events < MaxEvent /\ events' = events + 1
    /\ asked' = [asked EXCEPT ![s] = scan[s]]
    /\ UNCHANGED <<queue, life, disk, item, asset, cat, excl, scan, flag, job, rem, calm, overlap, removed>>

Cancel(s) ==
    /\ Up /\ asked[s] \in Busy
    /\ flag' = flag \cup {s}
    /\ scan' = IF asked[s] = "queued" THEN [scan EXCEPT ![s] = "cancelled"] ELSE scan
    /\ asked' = [asked EXCEPT ![s] = "no"]
    /\ UNCHANGED <<queue, life, disk, item, asset, cat, excl, job, rem, history>>

\* execute reads the scan and the cancel key; the worker of the queue takes one job
\* at a time, and does not try again one that failed.
Look(s) ==
    /\ Up /\ job[s].at = "ready"
    /\ queue => ~ Others(s) /\ \A t \in Scan : job[t].at # "taken"
    /\ \/ /\ scan[s] # "cancelled" /\ s \notin flag
          /\ job' = To(s, "taken") /\ UNCHANGED <<scan, events>>
       \/ /\ scan[s] = "cancelled" \/ s \in flag
          /\ scan' = [scan EXCEPT ![s] = "cancelled"]
          /\ job' = To(s, "idle") /\ UNCHANGED events
       \/ job' = To(s, "gone") /\ Fails /\ UNCHANGED scan
    /\ UNCHANGED <<queue, life, disk, item, asset, cat, excl, flag, asked, rem, calm, overlap, removed>>

\* It saves the scan as running, over a cancellation made since; what fails before
\* the try, or that save itself, is not caught.
Take(s) ==
    /\ Up /\ job[s].at = "taken"
    /\ \/ /\ scan' = [scan EXCEPT ![s] = "running"]
          /\ job' = To(s, "list") /\ UNCHANGED events
          /\ overlap' = (overlap \/ Others(s))
          /\ calm' = IF Others(s) THEN {} ELSE IF scan[s] = "queued" THEN calm \cup {s} ELSE calm
       \/ /\ \E left \in {scan[s], "running"} : scan' = [scan EXCEPT ![s] = left]
          /\ job' = To(s, "gone") /\ Fails /\ UNCHANGED <<overlap, calm>>
    /\ UNCHANGED <<queue, life, disk, item, asset, cat, excl, flag, asked, rem, removed>>

\* A directory that cannot be read counts as empty: the share may be unmounted.
List(s) ==
    /\ Up /\ job[s].at = "list"
    /\ \/ /\ s \in flag
          /\ job' = To(s, "finish") /\ UNCHANGED calm
       \/ /\ s \notin flag
          /\ \E whole \in BOOLEAN :
                /\ job' = [job EXCEPT ![s].at = "walk", ![s].left =
                              IF whole THEN {p \in Path : disk[p] # None} ELSE {}]
                /\ calm' = IF whole THEN calm ELSE calm \ {s}
    /\ UNCHANGED <<queue, life, disk, item, asset, cat, excl, scan, flag, asked, rem, events, overlap, removed>>

-----------------------------------------------------------------------------
(* The files, one after the other: processFile.                            *)

\* A file that cannot be read is counted as an error and passed over.
Unread(s) ==
    /\ Up /\ job[s].at = "walk" /\ s \notin flag
    /\ \E p \in job[s].left : job' = [job EXCEPT ![s].left = @ \ {p}]
    /\ calm' = calm \ {s}
    /\ UNCHANGED <<queue, life, disk, item, asset, cat, excl, scan, flag, asked, rem, events, overlap, removed>>

Twin(p) == \E q \in Path \ {p} : item[q] # None /\ item[q].hash = disk[p]

\* The content of p is known from a path that does not hold it any more.
Moved(p) == Twin(p) /\ \A q \in Path \ {p} : disk[q] # disk[p]

\* Mutant: the item of a file that is there already keeps its lastScanId.
Examined_KeepsSeen(s, p) ==
    IF item[p] = None /\ ~ Twin(p)
    THEN [hash |-> disk[p], movie |-> None, seen |-> s, ignored |-> FALSE, status |-> "processing"]
    ELSE IF item[p] = None \/ Twin(p) THEN item[p]
    ELSE [item[p] EXCEPT !.hash = disk[p], !.status = "processing"]

\* Mutant: the item is created before the fingerprint is taken.
Examined_NoHash(s, p) ==
    IF item[p] = None /\ ~ Twin(p)
    THEN [hash |-> None, movie |-> None, seen |-> s, ignored |-> FALSE, status |-> "processing"]
    ELSE IF item[p] = None \/ Twin(p) THEN item[p]
    ELSE [item[p] EXCEPT !.hash = disk[p], !.seen = s, !.status = "processing"]

\* The item after its file was fingerprinted; a twin keeps its fingerprint.
Examined(s, p) ==
    IF item[p] = None
    THEN IF Twin(p) THEN None
         ELSE [hash |-> disk[p], movie |-> None, seen |-> s, ignored |-> FALSE, status |-> "processing"]
    ELSE IF Twin(p) THEN [item[p] EXCEPT !.seen = s, !.status = "duplicate"]
         ELSE [item[p] EXCEPT !.hash = disk[p], !.seen = s, !.status = "processing"]

Examine(s) ==
    /\ Up /\ job[s].at = "walk" /\ s \notin flag
    /\ \E p \in job[s].left :
          /\ disk[p] # None
          /\ item' = [item EXCEPT ![p] = Examined(s, p)]
          /\ job' = IF Twin(p) THEN [job EXCEPT ![s].left = @ \ {p}]
                    ELSE [job EXCEPT ![s].left = @ \ {p}, ![s].at = "match", ![s].now = p,
                                     ![s].held = [@ EXCEPT ![p] = item'[p]]]
          /\ calm' = IF Moved(p) THEN calm \ {s} ELSE calm
    /\ UNCHANGED <<queue, life, disk, asset, cat, excl, scan, flag, asked, rem, events, overlap, removed>>

Called(t) == {m \in Movie : cat[m] # None /\ cat[m].title = t}

\* Mutant: the title is not looked up.
Excluded_FileOnly(p, hash) == hash \in excl.hash \/ p \in excl.path

Excluded(p, hash) == hash \in excl.hash \/ p \in excl.path \/ Named[p] \in excl.title

\* A row deleted since it was loaded cannot be saved: the file counts as an error.
SaveItem(s, p, new) ==
    item' = IF p \in job[s].lost THEN item ELSE [item EXCEPT ![p] = Merge(job[s].held[p], new, @)]

Walking(s) == [job EXCEPT ![s] = [Idle EXCEPT !.at = "walk", !.left = job[s].left]]

\* resolve: the item's movie, one of the name, or none, unless it may be imported.
Match(s) ==
    LET p == job[s].now
        h == job[s].held[p]
    IN
    /\ Up /\ job[s].at = "match"
    /\ IF h.movie # None /\ cat[h.movie] # None
       THEN job' = [job EXCEPT ![s].at = "attach", ![s].link = h.movie] /\ UNCHANGED item
       ELSE IF Called(Named[p]) # {}
       THEN /\ \E m \in Called(Named[p]) : job' = [job EXCEPT ![s].at = "attach", ![s].link = m]
            /\ UNCHANGED item
       ELSE IF h.ignored \/ Excluded(p, h.hash)
       THEN /\ SaveItem(s, p, [h EXCEPT !.movie = None, !.ignored = TRUE, !.status = "unmatched"])
            /\ job' = Walking(s)
       ELSE /\ job' = To(s, "import") /\ UNCHANGED item
    /\ UNCHANGED <<queue, life, disk, asset, cat, excl, scan, flag, asked, rem, history>>

\* No row and no request under way refers to m.
Links(row) == IF row = None THEN {} ELSE {row.movie}
Unused(m) ==
    /\ cat[m] = None /\ rem.movie # m
    /\ \A p \in Path : m \notin Links(item[p]) \cup Links(asset[p])
    /\ \A s \in Scan : /\ m # job[s].link
                      /\ m \notin job[s].doomed \cup UNION {Links(job[s].held[p]) : p \in Path}

\* importMovie, after the metadata service has answered.
Import(s) ==
    LET t == Meta[Named[job[s].now]]
        known == IF Called(Named[job[s].now]) # {} THEN Called(Named[job[s].now]) ELSE Called(t)
    IN
    /\ Up /\ job[s].at = "import"
    /\ known # {} \/ \E n \in Movie : Unused(n)     \* bound
    /\ \E m \in IF known # {} THEN known ELSE {CHOOSE n \in Movie : Unused(n)} :
          /\ cat' = IF known # {} THEN cat
                    ELSE [cat EXCEPT ![m] = [title |-> t, avail |-> "unavailable"]]
          /\ job' = [job EXCEPT ![s].at = "attach", ![s].link = m]
    /\ UNCHANGED <<queue, life, disk, item, asset, excl, scan, flag, asked, rem, history>>

\* upsertAssets
Attach(s) ==
    /\ Up /\ job[s].at = "attach"
    /\ asset' = [asset EXCEPT ![job[s].now] = [movie |-> job[s].link, status |-> "ready"]]
    /\ job' = To(s, "save")
    /\ UNCHANGED <<queue, life, disk, item, cat, excl, scan, flag, asked, rem, history>>

Save(s) ==
    LET p == job[s].now IN
    /\ Up /\ job[s].at = "save"
    /\ SaveItem(s, p, [job[s].held[p] EXCEPT !.movie = job[s].link, !.ignored = FALSE, !.status = "ready"])
    /\ cat' = IF p \in job[s].lost THEN cat ELSE Refreshed(cat, asset, job[s].link)
    /\ job' = Walking(s)
    /\ UNCHANGED <<queue, life, disk, asset, excl, scan, flag, asked, rem, history>>

\* A file in hand with which something fails is counted as an error, too.
Slip(s) ==
    /\ Up /\ job[s].at \in {"match", "import", "attach", "save"}
    /\ Fails
    /\ job' = Walking(s) /\ calm' = calm \ {s}
    /\ UNCHANGED <<queue, life, disk, item, asset, cat, excl, scan, flag, asked, rem, overlap, removed>>

-----------------------------------------------------------------------------
(* What the scan did not see: markMissing and the end of execute.          *)

Unseen(s) == {p \in Path : item[p] # None /\ item[p].seen # s /\ item[p].status # "duplicate"}

Sweep(s) ==
    /\ Up /\ job[s].at = "walk"
    /\ \/ s \in flag /\ job' = To(s, "finish")
       \/ /\ s \notin flag /\ job[s].left = {}
          /\ job' = [job EXCEPT ![s] = [Idle EXCEPT !.at = "sweep", !.left = Unseen(s),
                         !.held = [p \in Path |-> IF p \in Unseen(s) THEN item[p] ELSE None]]]
    /\ UNCHANGED <<queue, life, disk, item, asset, cat, excl, scan, flag, asked, rem, history>>

Mark(s) ==
    /\ Up /\ job[s].at = "sweep"
    /\ \E p \in job[s].left \ job[s].lost :
          LET h == job[s].held[p] IN
          /\ SaveItem(s, p, [h EXCEPT !.status = "missing"])
          /\ asset' = IF asset[p] = None THEN asset ELSE [asset EXCEPT ![p].status = "missing"]
          /\ cat' = Refreshed(cat, asset', h.movie)
          /\ job' = [job EXCEPT ![s].left = @ \ {p}, ![s].doomed = @ \cup ({h.movie} \ {None})]
    /\ UNCHANGED <<queue, life, disk, excl, scan, flag, asked, rem, history>>

\* What fails outside the files, as does the save of a row deleted since, ends the scan;
\* the save of its status in the catch may fail as well.
Throw(s) ==
    /\ Up /\ job[s].at \in {"list", "walk", "sweep", "drop", "erase", "finish"}
    /\ \/ /\ job[s].at = "sweep" /\ job[s].left \cap job[s].lost # {}
          /\ UNCHANGED events
       \/ Fails
    /\ \/ scan' = [scan EXCEPT ![s] = "failed"] /\ job' = [job EXCEPT ![s] = Idle]
       \/ UNCHANGED scan /\ job' = [job EXCEPT ![s] = [Idle EXCEPT !.at = "gone"]]
    /\ flag' = flag \ {s} /\ calm' = calm \ {s}
    /\ UNCHANGED <<queue, life, disk, item, asset, cat, excl, asked, rem, overlap, removed>>

\* purgeMovieIfUnplayable looks, then stops the movie's streams.
Judge(s) ==
    /\ Up /\ job[s].at = "sweep" /\ job[s].left = {}
    /\ \E m \in job[s].doomed :
          job' = IF Unplayable(cat, asset, m)
                 THEN [job EXCEPT ![s].doomed = @ \ {m}, ![s].at = "drop", ![s].link = m]
                 ELSE [job EXCEPT ![s].doomed = @ \ {m}]
    /\ UNCHANGED <<queue, life, disk, item, asset, cat, excl, scan, flag, asked, rem, history>>

Without(rows, M) == [p \in Path |-> IF rows[p] # None /\ rows[p].movie \in M THEN None ELSE rows[p]]

Drop(s) ==
    LET m == job[s].link
        dropped == {p \in Path : item[p] # None /\ item[p].movie = m}
    IN
    /\ Up /\ job[s].at = "drop"
    /\ item' = Without(item, {m}) /\ asset' = Without(asset, {m})
    /\ job' = [t \in Scan |-> IF t = s THEN [job[s] EXCEPT !.at = "erase"]
                  ELSE [job[t] EXCEPT !.lost = @ \cup {p \in dropped : job[t].held[p] # None}]]
    /\ UNCHANGED <<queue, life, disk, cat, excl, scan, flag, asked, rem, history>>

Erase(s) ==
    /\ Up /\ job[s].at = "erase"
    /\ cat' = [cat EXCEPT ![job[s].link] = None]
    /\ job' = [job EXCEPT ![s].at = "sweep", ![s].link = None]
    /\ UNCHANGED <<queue, life, disk, item, asset, excl, scan, flag, asked, rem, history>>

Swept(s) ==
    /\ Up /\ job[s].at = "sweep" /\ job[s].left = {} /\ job[s].doomed = {}
    /\ job' = [job EXCEPT ![s] = [Idle EXCEPT !.at = "finish"]]
    /\ UNCHANGED <<queue, life, disk, item, asset, cat, excl, scan, flag, asked, rem, history>>

\* Mutant: a cancelled scan returns before it is saved.
Finish_Unsaved(s) ==
    /\ Up /\ job[s].at = "finish"
    /\ scan' = IF s \in flag THEN scan ELSE [scan EXCEPT ![s] = "completed"]
    /\ flag' = flag \ {s} /\ job' = [job EXCEPT ![s] = Idle] /\ calm' = calm \ {s}
    /\ UNCHANGED <<queue, life, disk, item, asset, cat, excl, asked, rem, events, overlap, removed>>

Finish(s) ==
    /\ Up /\ job[s].at = "finish"
    /\ scan' = [scan EXCEPT ![s] = IF @ = "cancelled" \/ s \in flag THEN "cancelled" ELSE "completed"]
    /\ flag' = flag \ {s} /\ job' = [job EXCEPT ![s] = Idle] /\ calm' = calm \ {s}
    /\ UNCHANGED <<queue, life, disk, item, asset, cat, excl, asked, rem, events, overlap, removed>>

-----------------------------------------------------------------------------
(* An administrator deletes a movie: MoviesService.remove.                 *)

RemoveLinks(m) ==
    LET linked == {p \in Path : item[p] # None /\ item[p].movie = m} IN
    /\ Up /\ rem.at = "no" /\ cat[m] # None /\ cat[m].title \notin removed
    /\ events < MaxEvent /\ events' = events + 1
    /\ excl' = [hash |-> excl.hash \cup {item[p].hash : p \in linked},
                path |-> excl.path \cup linked, title |-> excl.title \cup {cat[m].title}]
    /\ item' = [p \in Path |-> IF p \in linked
                  THEN [item[p] EXCEPT !.movie = None, !.ignored = TRUE, !.status = "unmatched"] ELSE item[p]]
    /\ rem' = [at |-> "unlinked", movie |-> m] /\ calm' = {}
    /\ UNCHANGED <<queue, life, disk, asset, cat, scanVars, overlap, removed>>

RemoveTitle ==
    /\ Up /\ rem.at = "unlinked"
    /\ removed' = removed \cup (IF cat[rem.movie] = None THEN {} ELSE {cat[rem.movie].title})
    /\ cat' = [cat EXCEPT ![rem.movie] = None]
    /\ rem' = [rem EXCEPT !.at = "untitled"] /\ calm' = {}
    /\ UNCHANGED <<queue, life, disk, item, asset, excl, scanVars, events, overlap>>

RemoveAssets ==
    /\ Up /\ rem.at = "untitled"
    /\ asset' = Without(asset, {rem.movie})
    /\ rem' = [at |-> "no", movie |-> None] /\ calm' = {}
    /\ UNCHANGED <<queue, life, disk, item, cat, excl, scanVars, events, overlap, removed>>

-----------------------------------------------------------------------------
(* The files change; the API goes down and comes up again.                 *)

Change ==
    /\ events < MaxEvent /\ events' = events + 1
    /\ \/ \E p \in Path, c \in Content \cup {None} : c # disk[p] /\ disk' = [disk EXCEPT ![p] = c]
       \/ \E p, q \in Path : p # q /\ disk[p] # None /\ disk' = [disk EXCEPT ![p] = None, ![q] = disk[p]]
    /\ calm' = {}
    /\ UNCHANGED <<queue, life, item, asset, cat, excl, scanVars, rem, overlap, removed>>

\* The queue keeps its jobs and delivers again what a worker did not finish.
Crash ==
    /\ life = "first" /\ life' = "down"
    /\ events < MaxEvent /\ events' = events + 1
    /\ job' = [s \in Scan |-> IF queue /\ (job[s].at \in {"ready", "taken"} \/ Executing(s))
                              THEN [Idle EXCEPT !.at = "ready"]
                              ELSE IF scan[s] \in Busy THEN [Idle EXCEPT !.at = "gone"] ELSE Idle]
    /\ asked' = [s \in Scan |-> "no"]
    /\ rem' = [at |-> "no", movie |-> None] /\ calm' = {}
    /\ UNCHANGED <<queue, disk, item, asset, cat, excl, scan, flag, overlap, removed>>

\* onModuleInit: movies with nothing to play are purged.
Boot ==
    LET dead == {m \in Movie : Unplayable(cat, asset, m)} IN
    /\ life = "down" /\ life' = "second"
    /\ item' = Without(item, dead) /\ asset' = Without(asset, dead)
    /\ cat' = [m \in Movie |-> IF m \in dead THEN None ELSE cat[m]]
    /\ UNCHANGED <<queue, disk, excl, scanVars, rem, history>>

Work(s) ==
    \/ Create(s) \/ Enqueue(s) \/ Look(s) \/ Take(s) \/ List(s) \/ Unread(s) \/ Examine(s) \/ Match(s)
    \/ Import(s) \/ Attach(s) \/ Save(s) \/ Slip(s) \/ Sweep(s) \/ Mark(s) \/ Throw(s) \/ Judge(s)
    \/ Drop(s) \/ Erase(s) \/ Swept(s) \/ Finish(s)

Next ==
    \/ \E s \in Scan : Work(s) \/ Start(s) \/ AskCancel(s) \/ Cancel(s)
    \/ \E m \in Movie : RemoveLinks(m)
    \/ RemoveTitle \/ RemoveAssets \/ Change \/ Crash \/ Boot

\* The event loop and the worker carry on with a scan; a service manager starts
\* the API again.
Fairness == /\ \A s \in Scan : WF_vars(Work(s))
            /\ WF_vars(Boot)

Spec == Init /\ [][Next]_vars
FairSpec == Spec /\ Fairness

-----------------------------------------------------------------------------

\* The item of p plays the file at p, and the catalogue shows its movie so.
Served(p) ==
    /\ item[p] # None /\ item[p].status = "ready" /\ item[p].hash = disk[p]
    /\ asset[p] # None /\ asset[p].status = "ready" /\ asset[p].movie = item[p].movie
    /\ cat[item[p].movie] # None /\ cat[item[p].movie].avail # "unavailable"

\* Another file has the same content.
Copied(p) == \E q \in Path \ {p} : disk[q] = disk[p]

\* No video is made of the file at p.
PassedOver(p) ==
    \/ item[p] # None /\ item[p].ignored
    \/ Copied(p) /\ (item[p] = None \/ item[p].status = "duplicate")

Mirrors ==
    \A p \in Path :
        IF disk[p] = None THEN item[p] = None \/ item[p].status \in {"missing", "duplicate"}
        ELSE Served(p) \/ PassedOver(p)

(* A scan that completes, nothing having changed under it and every        *)
(* directory and file having been readable, leaves each file playable, its *)
(* title excluded, or the file passed over as a copy of another, and no    *)
(* item ready whose file is gone.  Excused is a file that was renamed: it  *)
(* is taken for a copy, and its title deleted with the path that is gone.  *)
ScanIsTrue ==
    [][\A s \in calm : scan[s] = "running" /\ scan'[s] = "completed" => Mirrors]_vars

(* Such a scan deletes a movie only when the files of all its videos are   *)
(* gone, excluded or passed over as copies.                                *)
PurgedWasGone ==
    [][\A s \in calm : job[s].at = "drop" /\ job'[s].at = "erase"
         => \A p \in Videos(asset, job[s].link) : disk[p] = None \/ PassedOver(p)]_vars

(* No scan imports a title the administrator has deleted, from a file that *)
(* bears the title, or whose path or content the title was linked to.      *)
(* Excused are scans that overlap.  A new file whose name only the metadata *)
(* service can tell is excluded by nothing and brings the title back.      *)
RemovedStaysOut ==
    [][\A s \in Scan, m \in Movie :
         job[s].at = "import" /\ cat[m] = None /\ cat'[m] # None /\ cat'[m].title \in removed
         => \/ overlap
            \/ LET p == job[s].now IN
               Named[p] # cat'[m].title /\ ~ Excluded(p, job[s].held[p].hash)]_vars

(* No scan stays queued or running for ever, whoever cancels it, deletes its *)
(* rows or overlaps it, and whatever fails inside execute's try; but for a   *)
(* scan whose request broke off before it was handed over, or whose          *)
(* execution before the try or in the catch, or with the API where no queue  *)
(* delivers it again.  Such a scan is busy, and start refuses every other.   *)
ScanEnds == \A s \in Scan : []<>(scan[s] \notin Busy \/ job[s].at = "gone")
=============================================================================
