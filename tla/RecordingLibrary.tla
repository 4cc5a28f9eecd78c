---- MODULE RecordingLibrary ----
(***************************************************************************)
(* Two machines: the catalog of recordings (Init, Next), and the           *)
(* publication of a recording group (GroupInit, GroupNext).                *)
(*                                                                         *)
(* The viewer's catalog of recordings, from RecordingCatalog.cpp.  The     *)
(* catalog shows the cache of the last scan at once and scans the          *)
(* recordings root on a worker; the worker rewrites the cache and posts    *)
(* its snapshot to the event loop.  A refresh asked for during a scan is   *)
(* kept pending.  Recorders and users change the root meanwhile, and the   *)
(* viewer is closed and started again.                                     *)
(*                                                                         *)
(* A snapshot is the set of sessions with the version of their manifests;  *)
(* the discovery behind it belongs to the groups below.                    *)
(***************************************************************************)
EXTENDS Integers, FiniteSets, FiniteSetsExt

CONSTANTS Sessions,
          MaxChanges,   \* bound on changes of the root
          MaxRefreshes, \* bound on refreshes asked for
          MaxStarts     \* bound on starts of the viewer

NoCatalog == [loaded |-> FALSE, rows |-> {}]
Catalog(rows) == [loaded |-> TRUE, rows |-> rows]

VARIABLES
  root,       \* the recordings on disk: pairs <<session, version>>
  changes, refreshes, starts,
  cache,      \* recording_catalog.json, NoCatalog when there is none
  up,         \* the catalog object exists
  snapshot,   \* snapshot_
  loading, pending,
  worker,     \* "none", "scan", "cache", "post": the worker thread
  result,     \* the snapshot the worker holds
  posted,     \* the queued applySnapshot_ call: a set of at most one snapshot
  owed,       \* history: a refresh was asked for and no scan began since
  removed,    \* history: a session was ever deleted
  faulted     \* history: a scan or a cache write ever failed for its own reasons

env  == <<root, changes, removed>>
vars == <<env, refreshes, starts, cache, up, snapshot, loading, pending, worker, result, posted, owed, faulted>>

Names(rows) == {r[1] : r \in rows}

StillThere(c) == c.loaded /\ Names(c.rows) \subseteq Names(root)

-----------------------------------------------------------------------------
Change(s) ==
  /\ changes < MaxChanges
  /\ changes' = changes + 1
  /\ LET others == {r \in root : r[1] # s}
     IN  \/ root' = others \cup {<<s, changes + 1>>} /\ UNCHANGED removed
         \/ root' = others /\ root' # root /\ removed' = TRUE
  /\ UNCHANGED <<refreshes, starts, cache, up, snapshot, loading, pending, worker, result, posted, owed, faulted>>

-----------------------------------------------------------------------------
(* The event loop                                                          *)

\* refreshAsync_ when nothing is loading: the last worker has ended and is
\* joined, the next one starts.
Launch == loading' = TRUE /\ worker' = "scan" /\ result' = NoCatalog /\ owed' = FALSE

\* The constructor: the cache if it can be trusted, then a scan.
Open ==
  /\ ~up /\ starts < MaxStarts
  /\ starts' = starts + 1
  /\ up' = TRUE
  /\ snapshot' = IF StillThere(cache) THEN cache ELSE NoCatalog
  /\ Launch
  /\ pending' = FALSE /\ posted' = {}
  /\ UNCHANGED <<env, refreshes, cache, faulted>>

Refresh ==
  /\ up /\ refreshes < MaxRefreshes
  /\ refreshes' = refreshes + 1
  /\ \/ /\ loading
        /\ pending' = TRUE /\ owed' = TRUE
        /\ UNCHANGED <<loading, worker, result>>
     \/ /\ ~loading /\ worker = "none"
        /\ Launch
        /\ UNCHANGED pending
  /\ UNCHANGED <<env, starts, cache, up, snapshot, posted, faulted>>

Apply ==
  /\ up /\ worker = "none"
  /\ \E c \in posted :
       /\ snapshot' = IF c.loaded THEN c ELSE snapshot
       /\ posted' = {}
       /\ IF pending
            THEN Launch /\ pending' = FALSE
            ELSE loading' = FALSE /\ UNCHANGED <<pending, worker, result, owed>>
  /\ UNCHANGED <<env, refreshes, starts, cache, up, faulted>>

\* The destructor: the worker is joined, a queued call is dropped.
Close ==
  /\ up /\ worker = "none"
  /\ up' = FALSE
  /\ loading' = FALSE /\ pending' = FALSE /\ posted' = {} /\ owed' = FALSE
  /\ snapshot' = NoCatalog
  /\ UNCHANGED <<env, refreshes, starts, cache, worker, result, faulted>>

-----------------------------------------------------------------------------
(* The worker                                                              *)

\* buildRecordingCatalogSnapshot
Scan ==
  /\ worker = "scan"
  /\ \/ /\ result' = Catalog(root) /\ worker' = "cache"
        /\ UNCHANGED faulted
     \/ /\ result' = NoCatalog /\ worker' = "post"
        /\ faulted' = TRUE
  /\ UNCHANGED <<env, refreshes, starts, cache, up, snapshot, loading, pending, posted, owed>>

WriteCache ==
  /\ worker = "cache"
  /\ worker' = "post"
  /\ \/ /\ cache' = IF StillThere(result) /\ (cache.loaded => StillThere(cache)) THEN result ELSE cache
        /\ UNCHANGED faulted
     \/ UNCHANGED cache /\ faulted' = TRUE
  /\ UNCHANGED <<env, refreshes, starts, up, snapshot, loading, pending, result, posted, owed>>

Post ==
  /\ worker = "post"
  /\ worker' = "none"
  /\ posted' = {result}
  /\ UNCHANGED <<env, refreshes, starts, cache, up, snapshot, loading, pending, result, owed, faulted>>

\* The viewer dies; the cache stays as it was.
Die ==
  /\ up
  /\ up' = FALSE /\ worker' = "none"
  /\ loading' = FALSE /\ pending' = FALSE /\ posted' = {} /\ owed' = FALSE
  /\ snapshot' = NoCatalog /\ result' = NoCatalog
  /\ UNCHANGED <<env, refreshes, starts, cache, faulted>>

-----------------------------------------------------------------------------
Init ==
  /\ root \in SUBSET (Sessions \X {0}) /\ changes = 0 /\ removed = FALSE
  /\ refreshes = 0 /\ starts = 0
  /\ cache = NoCatalog /\ up = FALSE
  /\ snapshot = NoCatalog /\ loading = FALSE /\ pending = FALSE
  /\ worker = "none" /\ result = NoCatalog /\ posted = {}
  /\ owed = FALSE /\ faulted = FALSE

Step == Scan \/ WriteCache \/ Post
Next == (\E s \in Sessions : Change(s)) \/ Open \/ Refresh \/ Apply \/ Close \/ Step \/ Die

\* The worker thread runs and the event loop delivers what is posted to it.
Spec == Init /\ [][Next]_vars /\ WF_vars(Step) /\ WF_vars(Apply)

-----------------------------------------------------------------------------
\* A refresh is never lost: when nothing is loading, every refresh asked for
\* was followed by the start of a scan, also when the scan it arrived in was
\* refused (pendingRefresh_ in refreshAsync_ and applySnapshot_).
NoRefreshLost == ~loading => ~owed

\* The catalog a viewer shows from its cache names no session that is gone
\* (validateRecordingDiscovery in snapshotFromJson).
CacheShownExists ==
  ~up /\ up' => Names(snapshot'.rows) \subseteq Names(root)

\* As long as no session is ever deleted and no scan or write fails, the cache
\* is the catalog shown when nothing is loading: new and rewritten sessions
\* never keep the worker from replacing the cache.
CacheFollows ==
  up /\ ~loading /\ ~removed /\ ~faulted => cache = snapshot

\* Loading ends: the spinner never stays on, with or without a result.
Loading == up /\ loading /\ refreshes = MaxRefreshes
Loaded == ~up \/ ~loading
LoadingEnds == Loading ~> Loaded

-----------------------------------------------------------------------------
(***************************************************************************)
(* Publication of a recording group's metadata, from RecordingGroups.cpp.  *)
(* A group is a directory whose direct children are recorded sessions;     *)
(* recording_group.json beside them names its members and sums their rows. *)
(* Recorders of this and of other processes add sessions and rewrite their *)
(* manifests while publishers (the end of a run, the supervisor, the       *)
(* viewer, `recordings refresh`) discover the directory file by file and   *)
(* replace the group file.                                                 *)
(*                                                                         *)
(* A file's identity (device, inode, size, times: sameFile) is a stamp     *)
(* that no two versions share.  What a manifest says is its row count.     *)
(***************************************************************************)

CONSTANTS Binary,       \* those recorded as a binary corpus
          Publishers,
          MaxStamp,     \* bound on the changes recorders make
          MaxRows,      \* bound on a manifest's row count
          Kinds,        \* the calls publishers make: "path", "rebuild", "given"
          None

Titles == {"folder", "given"}
Absent == [stamp |-> 0, rows |-> 0]
NoFile == [stamp |-> 0, ids |-> {}, total |-> 0, title |-> "folder"]
NoRequest == [ids |-> {}, total |-> 0, title |-> "folder"]

\* What a publisher holds while it works; it is gone when the call ends.
Fresh == [kind      |-> "path",
          stage     |-> 1,
          listed    |-> {},                                \* sessions its inventory found
          hasFile   |-> FALSE,                             \* whether it found the group file
          got       |-> [s \in Sessions |-> Absent],       \* the manifests it read (its evidence)
          art       |-> NoFile,                            \* the group file it read
          request   |-> NoRequest,                         \* the group it wants published
          inspected |-> 0,                                 \* stamp of the file it is about to replace
          left      |-> {},                                \* children to scan, then evidence to check
          met       |-> {},                                \* sessions the last scan met
          seen      |-> [s \in Sessions |-> Absent]]       \* history: the sessions when that scan began

VARIABLES
  sess,      \* session -> its manifest on disk, Absent when there is none
  live,      \* binary sessions whose corpus is not finalized
  next,      \* the last stamp given to a manifest
  file,      \* recording_group.json, NoFile when there is none
  lock,      \* the holder of the flock on the group's directory
  pc, me,    \* publisher -> where it is, what it holds
  quiet      \* history: nothing changed since p's discovery began

disk == <<sess, live, next>>
groupVars == <<disk, file, lock, pc, me, quiet>>

Present == {s \in Sessions : sess[s].stamp # 0}
Total(rows, ids) == MapThenSumSet(LAMBDA s : rows[s].rows, ids)

-----------------------------------------------------------------------------
(* Recorders                                                               *)

Disturb == quiet' = [p \in Publishers |-> FALSE]

\* A session directory gets its first manifest, a manifest is rewritten (a
\* binary corpus only once, when it is finalized), or a session is deleted.
Record(s) ==
  /\ next < MaxStamp
  /\ sess[s].stamp # 0 /\ s \in Binary => s \in live
  /\ next' = next + 1
  /\ \E r \in sess[s].rows .. MaxRows : r > 0 /\ sess' = [sess EXCEPT ![s] = [stamp |-> next + 1, rows |-> r]]
  /\ \/ s \in Binary /\ sess[s].stamp = 0 /\ live' = live \cup {s}
     \/ live' = live \ {s}
  /\ Disturb
  /\ UNCHANGED <<file, lock, pc, me>>

Delete(s) ==
  /\ next < MaxStamp /\ sess[s].stamp # 0
  /\ next' = next + 1
  /\ sess' = [sess EXCEPT ![s] = Absent]
  /\ live' = live \ {s}
  /\ Disturb
  /\ UNCHANGED <<file, lock, pc, me>>

-----------------------------------------------------------------------------
(* Discovery: one inventory of the directory, then one file at a time      *)

Goto(p, l) == pc' = [pc EXCEPT ![p] = l]
Hold(p, m) == me' = [me EXCEPT ![p] = m]
Release(p) == lock' = IF lock = p THEN None ELSE lock
End(p, l)  == Goto(p, l) /\ Release(p) /\ Hold(p, Fresh)
Refuse(p)  == End(p, "refused")

\* A binary session's row comes from its corpus metadata, as the scan meets
\* it; one that is not finalized is refused.  JSON sessions are read again
\* after the scan.  This scan is one step: what it found is held against the one
\* of verifySnapshot, which goes child by child.
BinaryRows == [s \in Sessions |-> IF s \in Binary THEN sess[s] ELSE Absent]

Inventory(p) ==
  /\ pc[p] = "list"
  /\ quiet' = [quiet EXCEPT ![p] = TRUE]
  /\ \/ /\ live # {}
        /\ Refuse(p)
     \/ /\ live = {}
        /\ Hold(p, [me[p] EXCEPT !.listed = Present, !.hasFile = file.stamp # 0,
                      !.got = BinaryRows])
        /\ Goto(p, "read")
        /\ UNCHANGED lock
  /\ UNCHANGED <<disk, file>>

ReadSession(p, s) ==
  /\ pc[p] = "read" /\ s \in me[p].listed /\ me[p].got[s].stamp = 0
  /\ \/ /\ s \notin Present
        /\ Refuse(p)
     \/ /\ s \in Present
        /\ Hold(p, [me[p] EXCEPT !.got[s] = sess[s]])
        /\ UNCHANGED <<lock, pc>>
  /\ UNCHANGED <<disk, file, quiet>>

Found(p) == [ids   |-> me[p].listed,
             total |-> Total(me[p].got, me[p].listed),
             title |-> IF me[p].hasFile THEN me[p].art.title ELSE "folder"]

Matches(ids, members) == ids \subseteq members

Artifact(p) == IF me[p].hasFile THEN file ELSE NoFile

\* The group file: it may lag behind the directory, it may not name a session
\* that is gone.  A file without any session beside it is an orphan.
ReadArtifact(p) ==
  /\ pc[p] = "read" /\ \A s \in me[p].listed : me[p].got[s].stamp # 0
  /\ LET sound == me[p].hasFile => me[p].listed # {} /\ Matches(file.ids, me[p].listed)
     IN  \/ ~sound /\ Refuse(p)
         \/ /\ sound
            /\ Hold(p, [me[p] EXCEPT !.art = Artifact(p)])
            /\ Goto(p, IF me[p].stage = 1 /\ me[p].kind = "path" THEN "discovered" ELSE "validate")
            /\ UNCHANGED lock
  /\ UNCHANGED <<disk, file, quiet>>

\* validate: a second inventory, which must still hold every listed session.
Validate(p) ==
  /\ pc[p] = "validate"
  /\ LET sound == live = {} /\ me[p].listed \subseteq Present
     IN  \/ ~sound /\ Refuse(p)
         \/ sound /\ Goto(p, "discovered") /\ UNCHANGED <<lock, me>>
  /\ UNCHANGED <<disk, file, quiet>>

-----------------------------------------------------------------------------
(* writeGroupManifestForPath, rebuildRecordingGroups, writeGroupManifest   *)

Start(p, k) ==
  /\ pc[p] = "idle"
  /\ \/ /\ k = "given"
        /\ \E ids \in SUBSET Present \ {{}} :
             Hold(p, [Fresh EXCEPT !.kind = k,
                        !.request = [ids |-> ids, total |-> Total(sess, ids), title |-> "given"]])
        /\ Goto(p, "lock")
     \/ /\ k # "given"
        /\ Hold(p, [Fresh EXCEPT !.kind = k])
        /\ Goto(p, "list")
  /\ UNCHANGED <<disk, file, lock, quiet>>

\* The first discovery chooses what to publish: the rows and the members the
\* group has now, the title its file had.
Choose(p) ==
  /\ pc[p] = "discovered" /\ me[p].stage = 1
  /\ \/ /\ me[p].listed = {}
        /\ End(p, IF me[p].kind = "path" THEN "refused" ELSE "done")
     \/ /\ me[p].listed # {}
        /\ Hold(p, [me[p] EXCEPT !.request = Found(p)])
        /\ Goto(p, "lock")
        /\ UNCHANGED lock
  /\ UNCHANGED <<disk, file, quiet>>

Lock(p) ==
  /\ pc[p] = "lock"
  /\ \/ lock # None /\ Refuse(p)
     \/ /\ lock = None
        /\ lock' = p
        /\ Hold(p, [me[p] EXCEPT !.stage = 2])
        /\ Goto(p, "list")
  /\ UNCHANGED <<disk, file, quiet>>

\* The request must be what the locked discovery found.
Compare(p) ==
  /\ pc[p] = "discovered" /\ me[p].stage = 2
  /\ LET agrees == /\ me[p].listed # {}
                   /\ me[p].request.ids = me[p].listed
                   /\ me[p].request.total = Found(p).total
     IN  \/ ~agrees /\ Refuse(p)
         \/ agrees /\ Goto(p, "inspect") /\ UNCHANGED <<lock, me>>
  /\ UNCHANGED <<disk, file, quiet>>

\* atomicWrite: the file to be replaced must not name a session the request
\* leaves out; then the temporary is written and synchronized.
Inspect(p) ==
  /\ pc[p] = "inspect"
  /\ LET sound == file.stamp # 0 => Matches(file.ids, me[p].request.ids)
     IN  \/ ~sound /\ Refuse(p)
         \/ /\ sound
            /\ Hold(p, [me[p] EXCEPT !.inspected = file.stamp, !.left = Sessions, !.seen = sess])
            /\ Goto(p, "verify")
            /\ UNCHANGED lock
  /\ UNCHANGED <<disk, file, quiet>>

\* verifySnapshot: the children are scanned again, in the order of their names, ...
VerifyChild(p) ==
  /\ pc[p] = "verify" /\ me[p].left # {}
  /\ LET s == CHOOSE s \in me[p].left : TRUE
     IN  \/ s \in live /\ Refuse(p)
         \/ /\ s \notin live
            /\ Hold(p, [me[p] EXCEPT !.left = @ \ {s}, !.met = @ \cup ({s} \cap Present)])
            /\ UNCHANGED <<lock, pc>>
  /\ UNCHANGED <<disk, file, quiet>>

\* ... compared with the first inventory, and every file read is looked at, one by one.
VerifyInventory(p) ==
  /\ pc[p] = "verify" /\ me[p].left = {}
  /\ LET same == me[p].met = me[p].listed /\ (file.stamp # 0) = me[p].hasFile
     IN  \/ ~same /\ Refuse(p)
         \/ /\ same
            /\ Hold(p, [me[p] EXCEPT !.left = me[p].listed])
            /\ Goto(p, "stat")
            /\ UNCHANGED lock
  /\ UNCHANGED <<disk, file, quiet>>

SameFile(p, s) == sess[s].stamp = me[p].got[s].stamp

VerifyFile(p, s) ==
  /\ pc[p] = "stat" /\ s \in me[p].left
  /\ \/ ~SameFile(p, s) /\ Refuse(p)
     \/ /\ SameFile(p, s)
        /\ Hold(p, [me[p] EXCEPT !.left = @ \ {s}])
        /\ UNCHANGED <<lock, pc>>
  /\ UNCHANGED <<disk, file, quiet>>

\* The group file itself: the version discovered and the version inspected.
VerifyGroup(p) ==
  /\ pc[p] = "stat" /\ me[p].left = {}
  /\ LET same == /\ me[p].hasFile => file.stamp = me[p].art.stamp
                 /\ file.stamp = me[p].inspected
     IN  \/ ~same /\ Refuse(p)
         \/ same /\ Goto(p, "rename") /\ UNCHANGED <<lock, me>>
  /\ UNCHANGED <<disk, file, quiet>>

Document(g) == [stamp |-> file.stamp + 1, ids |-> g.ids, total |-> g.total, title |-> g.title]

\* The rename publishes; the directory's fsync may still fail the call.  A
\* rebuild ends with one more discovery.
Rename(p) ==
  /\ pc[p] = "rename"
  /\ file' = Document(me[p].request)
  /\ Disturb
  /\ \/ /\ me[p].kind = "rebuild"
        /\ Goto(p, "list") /\ Release(p) /\ Hold(p, [Fresh EXCEPT !.kind = "rebuild", !.stage = 3])
     \/ me[p].kind # "rebuild" /\ End(p, "done")
     \/ Refuse(p)
  /\ UNCHANGED disk

Finish(p) ==
  /\ pc[p] = "discovered" /\ me[p].stage = 3
  /\ End(p, "done")
  /\ UNCHANGED <<disk, file, quiet>>

\* The process dies: its lock goes with its descriptors.
Crash(p) ==
  /\ pc[p] \notin {"idle", "done", "refused", "crashed"}
  /\ End(p, "crashed")
  /\ UNCHANGED <<disk, file, quiet>>

-----------------------------------------------------------------------------
GroupInit ==
  /\ sess = [s \in Sessions |-> Absent] /\ live = {} /\ next = 0
  /\ file = NoFile /\ lock = None
  /\ pc = [p \in Publishers |-> "idle"]
  /\ me = [p \in Publishers |-> Fresh]
  /\ quiet = [p \in Publishers |-> FALSE]

Publish(p) ==
  \/ \E k \in Kinds : Start(p, k)
  \/ Inventory(p) \/ ReadArtifact(p) \/ Validate(p)
  \/ \E s \in Sessions : ReadSession(p, s) \/ VerifyFile(p, s)
  \/ Choose(p) \/ Lock(p) \/ Compare(p) \/ Inspect(p)
  \/ VerifyChild(p) \/ VerifyInventory(p) \/ VerifyGroup(p) \/ Rename(p) \/ Finish(p)
  \/ Crash(p)

GroupNext ==
  \/ \E s \in Sessions : Record(s) \/ Delete(s)
  \/ \E p \in Publishers : Publish(p)

GroupSpec == GroupInit /\ [][GroupNext]_groupVars

-----------------------------------------------------------------------------
Replaces(p) == pc[p] = "rename" /\ pc'[p] # "rename" /\ file' # file

\* What is published was true at one instant: when the last scan began, the
\* directory held all the members of the new group file, and they had its row
\* total, although the manifests were read one by one before and their identities
\* compared one by one after; and that scan met no other session (verifySnapshot).
PublishedIsSnapshot ==
  \A p \in Publishers : Replaces(p) =>
    /\ \A s \in file'.ids : me[p].seen[s].stamp # 0
    /\ file'.total = Total(me[p].seen, file'.ids)
    /\ file'.ids = me[p].met

\* No publisher replaces a group file it has not inspected: of two that
\* publish at once, the second is refused by the lock or sees the first's file
\* (flock in writeValidated, the identity check before the rename).
ReplacesInspected ==
  \A p \in Publishers : Replaces(p) => file.stamp = me[p].inspected

\* The group file never forgets a member: a session deleted from disk blocks
\* publication instead of silently leaving the group (artifactMatches).
MembersKept == file.ids \subseteq file'.ids

\* A discovery during which nothing changed is refused only for what is on
\* disk: an unfinished binary corpus, or a group file that names a session
\* that is gone.
QuietDiscoverySucceeds ==
  \A p \in Publishers :
    /\ pc[p] \in {"list", "read", "validate"} /\ pc'[p] = "refused"
    /\ quiet'[p]
    => live # {} \/ ~(file.ids \subseteq Present)

=============================================================================
