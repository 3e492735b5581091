---------------------------- MODULE SpfreshDriver ----------------------------
(***************************************************************************)
(* The SPFresh driver replays the trace against an index that runs         *)
(* background jobs.  In its normal mode an epoch is: all deletes, all      *)
(* inserts, a wait until the jobs are finished, then the queries.  In its  *)
(* concurrent mode (--concurrent) nothing waits for the jobs.              *)
(*                                                                         *)
(* The index is code outside the repository: an add hands out a position   *)
(* (VID) not used before and may leave work to background jobs; a delete   *)
(* takes a position out of the search; either may report a failure.  A     *)
(* query finds any positions that are searchable.                          *)
(***************************************************************************)
EXTENDS Workload

CONSTANTS
  MayFail,     \* the calls of the index that may fail, out of {"add", "delete"}
  VidGap,      \* bound: positions the index may skip when it hands one out
  Slack,       \* positions vid2gid has to spare at the start: 16 in the code
  Growth,      \* positions vid2gid gains when it is too short: 1024 in the code
  JobsPerAdd,  \* bound: background steps an add may cause
  TopK         \* bound: results of a query, and one query per epoch

ASSUME DriverAssumption ==
  /\ MayFail \subseteq {"add", "delete"}
  /\ {VidGap, Slack, JobsPerAdd, TopK} \subseteq Nat /\ Growth \in Nat \ {0}

NoId == -1

VARIABLES
  concurrent,      \* ccMode: set by --concurrent, never changes
  epoch, stage,    \* e, and where in the epoch the driver is
  todoDel, todoIns,
  gid2vid, vid2gid, isLive,
  liveN, insDone, delDone,
  delAppearTotal,  \* deleted ids seen in results
  searchable,      \* external: the positions a search may find
  nextVid,         \* external: positions below are used
  jobs             \* external: steps the background jobs still have to do

mapVars == <<gid2vid, vid2gid, isLive>>
countVars == <<liveN, insDone, delDone>>
indexVars == <<searchable, nextVid, jobs>>
inputVars == <<workloadVars, concurrent>>
driverVars ==
  <<concurrent, epoch, stage, todoDel, todoIns, mapVars, countVars, delAppearTotal, indexVars>>
vars == <<workloadVars, driverVars>>

LiveIds == {g \in Gids : isLive[g]}
-----------------------------------------------------------------------------
BeginEpoch ==
  /\ stage = "ready" /\ Len(trace) = NEpochs /\ epoch < NEpochs
  /\ stage' = "write"
  /\ todoDel' = trace[epoch + 1].dels
  /\ todoIns' = trace[epoch + 1].inss
  /\ insDone' = 0 /\ delDone' = 0
  /\ UNCHANGED <<inputVars, epoch, mapVars, liveN, delAppearTotal, indexVars>>

\* The concurrent mode counts at once, the normal mode at the end of the epoch.
Counted(ins, del) ==
  IF concurrent
  THEN liveN' = liveN + ins - del /\ UNCHANGED <<insDone, delDone>>
  ELSE insDone' = insDone + ins /\ delDone' = delDone + del /\ UNCHANGED liveN

\* An id that is not present is skipped: one whose insert failed, or a second delete of it.
SkippedNot(g) == todoDel
Skipped(g) == todoDel \ {g}
SkipDelete(g) ==
  /\ stage = "write" /\ g \in todoDel /\ gid2vid[g] = NoId
  /\ todoDel' = Skipped(g)
  /\ UNCHANGED <<inputVars, epoch, stage, todoIns, mapVars, countVars, delAppearTotal, indexVars>>

\* The id is dead for the driver even when DeleteIndex fails; vid2gid keeps naming it.
ForgottenNot(g) == gid2vid
Forgotten(g) == [gid2vid EXCEPT ![g] = NoId]
DeleteOne(g) ==
  /\ stage = "write" /\ g \in todoDel /\ gid2vid[g] # NoId
  /\ \/ searchable' = searchable \ {gid2vid[g]}
     \/ "delete" \in MayFail /\ UNCHANGED searchable
  /\ isLive' = [isLive EXCEPT ![g] = FALSE]
  /\ gid2vid' = Forgotten(g)
  /\ todoDel' = todoDel \ {g}
  /\ Counted(0, 1)
  /\ UNCHANGED <<inputVars, epoch, stage, todoIns, vid2gid, delAppearTotal, nextVid, jobs>>

\* vid2gid grows when the position does not fit.
Widened(v) == IF v \in DOMAIN vid2gid THEN DOMAIN vid2gid ELSE 0 .. v + Growth - 1
Named(v, g) ==
  [u \in Widened(v) |-> IF u = v THEN g ELSE IF u \in DOMAIN vid2gid THEN vid2gid[u] ELSE NoId]

NextInsert(g) ==
  stage = "write" /\ todoDel = {} /\ g \in todoIns /\ \A h \in todoIns : g <= h

InsertOne(g) ==
  /\ NextInsert(g)
  /\ \E v \in nextVid .. nextVid + VidGap, work \in 0 .. JobsPerAdd :
       /\ searchable' = searchable \cup {v}
       /\ nextVid' = v + 1
       /\ jobs' = jobs + work
       /\ gid2vid' = [gid2vid EXCEPT ![g] = v]
       /\ vid2gid' = Named(v, g)
  /\ isLive' = [isLive EXCEPT ![g] = TRUE]
  /\ todoIns' = todoIns \ {g}
  /\ Counted(1, 0)
  /\ UNCHANGED <<inputVars, epoch, stage, todoDel, delAppearTotal>>

InsertFails(g) ==
  /\ NextInsert(g) /\ "add" \in MayFail
  /\ todoIns' = todoIns \ {g}
  /\ UNCHANGED <<inputVars, epoch, stage, todoDel, mapVars, countVars, delAppearTotal, indexVars>>

Job ==
  /\ jobs > 0
  /\ jobs' = jobs - 1
  /\ UNCHANGED <<inputVars, epoch, stage, todoDel, todoIns, mapVars, countVars, delAppearTotal,
                 searchable, nextVid>>

\* The normal mode polls AllFinished, the concurrent mode goes straight to its queries.
TalliedInserts == IF concurrent THEN liveN ELSE liveN + insDone
Tallied == IF concurrent THEN liveN ELSE liveN + insDone - delDone
WritesLeftBoth == todoDel # {} /\ todoIns # {}
WritesLeft == todoDel # {} \/ todoIns # {}
EndWrites ==
  /\ stage = "write" /\ ~WritesLeft
  /\ concurrent \/ jobs = 0
  /\ stage' = "measure"
  /\ liveN' = Tallied
  /\ UNCHANGED <<inputVars, epoch, todoDel, todoIns, mapVars, insDone, delDone, delAppearTotal,
                 indexVars>>

\* The id a result stands for; a position vid2gid does not know counts as no id.
Resolved(v) == IF v \in DOMAIN vid2gid THEN vid2gid[v] ELSE NoId
LeaksByVid(found) == {v \in found : v \in Gids /\ ~isLive[v]}
Leaks(found) == {v \in found : Resolved(v) # NoId /\ ~isLive[Resolved(v)]}

\* Only the normal mode looks for deleted ids in the results; the query bursts the concurrent mode
\* interleaves with its writes change nothing the model keeps.
Measure ==
  /\ stage = "measure"
  /\ \E found \in SUBSET searchable :
       /\ Cardinality(found) <= TopK
       /\ delAppearTotal' =
            IF concurrent THEN delAppearTotal ELSE delAppearTotal + Cardinality(Leaks(found))
  /\ stage' = "ready" /\ epoch' = epoch + 1
  /\ UNCHANGED <<inputVars, todoDel, todoIns, mapVars, countVars, indexVars>>

Ended == epoch = NEpochs /\ UNCHANGED vars

Prepare == Generate /\ UNCHANGED driverVars

Drive ==
  \/ BeginEpoch
  \/ \E g \in Gids : SkipDelete(g) \/ DeleteOne(g) \/ InsertOne(g) \/ InsertFails(g)
  \/ EndWrites
  \/ Measure

Init ==
  /\ InitWorkload
  /\ concurrent \in BOOLEAN
  /\ epoch = 0 /\ stage = "ready"
  /\ todoDel = {} /\ todoIns = {}
  /\ gid2vid = [g \in Gids |-> IF g < BaseN THEN g ELSE NoId]
  /\ vid2gid = [v \in 0 .. BaseN + PoolN + Slack - 1 |-> IF v < BaseN THEN v ELSE NoId]
  /\ isLive = [g \in Gids |-> g < BaseN]
  /\ liveN = BaseN /\ insDone = 0 /\ delDone = 0
  /\ delAppearTotal = 0
  /\ searchable = 0 .. BaseN - 1 /\ nextVid = BaseN /\ jobs = 0

Next == Prepare \/ Drive \/ Job \/ Ended

Spec == Init /\ [][Next]_vars

\* The generator and the driver are loops that only stop when they are done, and the threads of
\* the index get to run: the driver sleeps while it waits for them.
FairSpec == Spec /\ WF_vars(Prepare) /\ WF_vars(Drive) /\ WF_vars(Job)
-----------------------------------------------------------------------------
TypeOK ==
  /\ TypeOKWorkload
  /\ concurrent \in BOOLEAN
  /\ epoch \in 0 .. NEpochs /\ stage \in {"ready", "write", "measure"}
  /\ todoDel \subseteq Gids /\ todoIns \subseteq Gids
  /\ nextVid \in Nat /\ searchable \subseteq 0 .. nextVid - 1
  /\ gid2vid \in [Gids -> Nat \cup {NoId}]
  /\ \A v \in DOMAIN vid2gid : v \in Nat /\ vid2gid[v] \in Gids \cup {NoId}
  /\ isLive \in [Gids -> BOOLEAN]
  /\ {liveN, insDone, delDone} \subseteq Int
  /\ delAppearTotal \in Nat /\ jobs \in Nat

\* The two maps and the live flags agree, whatever calls failed: an id has a position exactly
\* while it is live, and its position names it back.
MapsAgree ==
  \A g \in Gids :
    /\ isLive[g] <=> gid2vid[g] # NoId
    /\ isLive[g] => gid2vid[g] \in DOMAIN vid2gid /\ vid2gid[gid2vid[g]] = g

\* A result can always be judged: every searchable position resolves to an id, and it is that id's
\* present position or the id is dead and the result counts as a leak ("did any currently-deleted
\* id surface?").  A dead id that came back would hide the leak of its old position.
LeaksDetected ==
  \A v \in searchable :
    /\ Resolved(v) # NoId
    /\ gid2vid[Resolved(v)] = v \/ ~isLive[Resolved(v)]

\* The live_n of a report is the number of live ids.
LiveCounted == stage = "measure" => liveN = Cardinality(LiveIds)

\* When recall is measured, the ids in the index are those the ground truth was computed over,
\* except for the inserts that failed: their ids no position was ever named after.
EverNamed == {vid2gid[v] : v \in DOMAIN vid2gid}
MeasuresActive ==
  stage = "measure" /\ Checkpoint(epoch) => LiveIds = trace[epoch + 1].active \cap EverNamed

\* The counter at the end ("deleted-id-in-results count = ... (want 0)") moves only when a
\* deleted id is still searchable.
LeaksReal ==
  [][delAppearTotal' # delAppearTotal =>
       \E v \in searchable : \A g \in LiveIds : gid2vid[g] # v]_vars

\* The whole trace is replayed: a missing id never holds up an epoch, and neither does the wait
\* for the background jobs.
Replayed == <>(epoch = NEpochs)

=============================================================================
