---------------------------- MODULE PatchPipeline ----------------------------
(***************************************************************************)
(* The build of the node. The repository keeps the TypeScript and C++ of an *)
(* early version; 32 scripts rewrite them, in the order of package.json's   *)
(* "prebuild", before every compilation. scripts/update-installed-project.sh *)
(* and scripts/install.sh copy the sources and then run them in the copy.   *)
(*                                                                         *)
(* A patch function reads one file, replaces some blocks of text and writes  *)
(* the file at its end. Of a file the model keeps which functions are in it   *)
(* and whose text a later function has rewritten; what the blocks say is the *)
(* matter of the other modules.                                             *)
(***************************************************************************)
EXTENDS Naturals, Sequences, SequencesExt

CONSTANTS
    Sources,    \* where a copy may come from: "fresh", "prepared", "itself"
    MaxKills    \* bound on the commands that are killed

ASSUME PipelineAssumption ==
    Sources \subseteq {"fresh", "prepared", "itself"} /\ MaxKills \in Nat

-----------------------------------------------------------------------------
(* The patch functions: one edit per file a script writes, in its order *)

\* The blocks an edit looks for are in the file it was written for unless the edits of
\* `needs` are missing or one of `bars` has changed them. It rewrites the text that the
\* edits of `rewrites` have put there; `undoes` are edits whose text it removes. A
\* marked edit returns early when it finds its marker. An anchored one keeps the block
\* it looks for, so that it can find it a second time.
Edit(f) == [file |-> f, needs |-> {}, bars |-> {}, rewrites |-> {}, undoes |-> {},
            marked |-> FALSE, anchored |-> FALSE]

After(f, S) == [Edit(f) EXCEPT !.needs = S]
Over(f, S) == [After(f, S) EXCEPT !.rewrites = S]
Marked(e) == [e EXCEPT !.marked = TRUE]

LiveSegmentStorage == <<Edit("mediaRoutes")>>
Snapshot == <<[Marked(Edit("mediaRoutes")) EXCEPT !.bars = {"readiness"}]>>
FastMediaStartup ==
    <<Edit("config"), Edit("rtsp"), Edit("recorderManager"), Edit("deviceArchive"),
      Edit("deviceArchiveSessions")>>
MediaReadiness ==
    <<[Edit("mediaRoutes") EXCEPT !.bars = {"segments"}], Edit("index")>>
LivePlaylistFreshness ==
    <<Over("mediaRoutes", {"readiness"}), Over("index", {"readiness"})>>
LiveSegmentRetention ==
    <<[Edit("config") EXCEPT !.rewrites = {"fastMedia"}],
      [Marked(Edit("recorderManager")) EXCEPT !.rewrites = {"fastMedia"}],
      Marked(Edit("nativeRecorderManager"))>>
ArchiveProgramDateTime == <<Edit("mediaRoutes")>>
DeviceArchiveUtc == <<Edit("types"), Edit("deviceArchive")>>
CandidateOrder == <<Over("deviceArchive", {"utc"})>>
SessionResilience == <<Marked(Edit("deviceArchiveSessions"))>>
NativeSdkMediaRuntime == <<Marked(Edit("mediaRoutes")), Edit("index"), Edit("service")>>
BrowserCompat == <<Marked(Edit("archiveSessions"))>>
RetiredSessionGrace == <<Edit("archiveSessions"), Edit("mediaRoutes")>>
ArchiveConcurrency ==
    <<[Edit("config") EXCEPT !.anchored = TRUE],
      [Edit("client") EXCEPT !.bars = {"isolation"}],
      Edit("deviceRuntime"), Edit("archiveSessions"), Marked(Edit("deviceWorker"))>>
LiveCoexistence == <<Marked(Edit("deviceWorker"))>>
RequestCoalescing == <<Over("archiveSessions", {"concurrency"})>>
ViewerLeases == <<Over("archiveSessions", {"coalescing"}), Edit("mediaRoutes")>>
EventReconciliation ==
    <<Edit("config"), Edit("runtimeEvents"), Edit("deviceRuntime"), Edit("eventStore"),
      Marked(Edit("eventCollector")), Marked(Edit("deviceWorker")),
      Marked(Edit("sdkStub"))>>
EventBackfill ==
    <<Over("config", {"reconciliation"}), Over("eventStore", {"reconciliation"}),
      Marked(After("eventCollector", {"reconciliation"}))>>
Segments ==
    <<Marked(Edit("worker")), Marked(Edit("client")), Marked(Edit("mediaRoutes"))>>
PlaybackFallback == <<Marked(After("mediaRoutes", {"segments"}))>>
FastPlayback ==
    <<[Marked(Edit("deviceRuntime")) EXCEPT !.bars = {"isolation"}],
      Marked(Edit("deviceWorker")), Marked(After("mediaRoutes", {"fallback"})),
      Marked(Edit("sdkStub"))>>
AckQueue ==
    <<[Marked(Edit("deviceRuntime")) EXCEPT !.rewrites = {"reconciliation"}],
      Marked(After("mediaRoutes", {"fastPlayback"}))>>
RequestAbort == <<Marked(After("mediaRoutes", {"ackQueue"}))>>
StopWatchdog ==
    <<Marked(After("deviceRuntime", {"ackQueue"})),
      Marked(After("mediaRoutes", {"fallback"}))>>
Burst ==
    <<[Marked(After("mediaRoutes", {"segments"})) EXCEPT
        !.rewrites = {"fallback", "fastPlayback", "ackQueue", "requestAbort", "stopWatchdog"}]>>
BurstTuning == <<Marked(After("mediaRoutes", {"burst"}))>>
SpawnNormalize ==
    <<[Edit("client") EXCEPT !.undoes = {"concurrency", "isolation", "capacityEnv"}]>>
WorkerIsolation ==
    <<[Edit("client") EXCEPT !.bars = {"concurrency"}], Marked(Edit("deviceWorker")),
      Marked(After("deviceRuntime", {"ackQueue"})), Marked(Edit("nativeRecorderManager"))>>
Multiviewer == <<Marked(After("mediaRoutes", {"burst"}))>>
WorkerCapacityEnv == <<Marked(Over("client", {"isolation"}))>>
WorkerPool ==
    <<Marked(Over("config", {"concurrency"})),
      Marked(After("nativeRecorderManager", {"isolation"})),
      [Marked(After("deviceRuntime", {"isolation", "reconciliation"}))
        EXCEPT !.rewrites = {"stopWatchdog"}],
      Marked(After("mediaRoutes", {"multiviewer"}))>>

Script == [
    liveStorage |-> LiveSegmentStorage,     snapshot |-> Snapshot,
    fastMedia |-> FastMediaStartup,         readiness |-> MediaReadiness,
    freshness |-> LivePlaylistFreshness,    retention |-> LiveSegmentRetention,
    dateTime |-> ArchiveProgramDateTime,    utc |-> DeviceArchiveUtc,
    candidateOrder |-> CandidateOrder,      resilience |-> SessionResilience,
    sdkRuntime |-> NativeSdkMediaRuntime,   browserCompat |-> BrowserCompat,
    retiredGrace |-> RetiredSessionGrace,   concurrency |-> ArchiveConcurrency,
    coexistence |-> LiveCoexistence,        coalescing |-> RequestCoalescing,
    leases |-> ViewerLeases,                reconciliation |-> EventReconciliation,
    backfill |-> EventBackfill,             segments |-> Segments,
    fallback |-> PlaybackFallback,          fastPlayback |-> FastPlayback,
    ackQueue |-> AckQueue,                  requestAbort |-> RequestAbort,
    stopWatchdog |-> StopWatchdog,          burst |-> Burst,
    burstTuning |-> BurstTuning,            spawnNormalize |-> SpawnNormalize,
    isolation |-> WorkerIsolation,          multiviewer |-> Multiviewer,
    capacityEnv |-> WorkerCapacityEnv,      workerPool |-> WorkerPool]

Scripts == DOMAIN Script

\* The files in the order in which rsync copies them.
FileOrder == <<"deviceWorker", "worker", "deviceArchive", "deviceArchiveSessions", "config",
    "eventStore", "mediaRoutes", "index", "recorderManager", "rtsp", "archiveSessions",
    "client", "deviceRuntime", "eventCollector", "nativeRecorderManager", "runtimeEvents",
    "service", "types", "sdkStub">>
Files == ToSet(FileOrder)

-----------------------------------------------------------------------------
(* One patch function on one file *)

Fresh == [done |-> {}, stale |-> {}, twice |-> {}, torn |-> FALSE]
Torn == [Fresh EXCEPT !.torn = TRUE]

\* The edits of the file that text t is of: [script |-> its edit].
EditsOf(f) == [s \in {z \in Scripts : \E i \in DOMAIN Script[z] : Script[z][i].file = f} |->
                Script[s][CHOOSE i \in DOMAIN Script[s] : Script[s][i].file = f]]
EditsIn == [f \in Files |-> EditsOf(f)]

\* "already prepared", or the new text is in the file.
Present(by, t) == by \in t.done \ t.stale

\* Mutant: an edit that is in the file is not recognised.
OutcomeBlind(by, e, t) ==
    IF t.torn THEN "refused"
    ELSE IF by \in t.done THEN IF e.anchored THEN "edited" ELSE "refused"
    ELSE IF /\ e.needs \subseteq t.done
            /\ \A s \in t.done : s \notin e.bars /\ by \notin EditsIn[e.file][s].rewrites
         THEN "edited" ELSE "refused"

\* replace_once: the new text is there, or the old one is there once, or SystemExit.
Outcome(by, e, t) ==
    IF t.torn THEN "refused"
    ELSE IF Present(by, t) THEN IF e.undoes \cap t.done = {} THEN "kept" ELSE "edited"
    ELSE IF by \in t.done THEN IF e.anchored THEN "edited" ELSE "refused"
    ELSE IF /\ e.needs \subseteq t.done
            /\ \A s \in t.done : s \notin e.bars /\ by \notin EditsIn[e.file][s].rewrites
         THEN "edited" ELSE "refused"

Edited(by, e, t) ==
    [t EXCEPT !.done = (@ \ e.undoes) \cup {by},
              !.stale = (@ \ (e.undoes \cup {by})) \cup (e.rewrites \cap t.done),
              !.twice = IF by \in t.done /\ e.anchored THEN @ \cup {by} ELSE @]

-----------------------------------------------------------------------------
(* Commands *)

Run(s) == [i \in DOMAIN Script[s] |-> [by |-> s, edit |-> Script[s][i]]]

\* patch-native-event-stack.py runs two scripts, segments has a --native-only.
Steps(item) ==
    CASE item = "rsync" -> [i \in DOMAIN FileOrder |-> [by |-> "rsync", edit |-> Edit(FileOrder[i])]]
      [] item = "eventStack" -> Run("reconciliation") \o Run("backfill")
      [] item = "segmentsNative" -> SubSeq(Run("segments"), 1, 1)
      [] OTHER -> Run(item)

Prebuild == <<"liveStorage", "snapshot", "fastMedia", "readiness", "freshness", "retention",
    "dateTime", "utc", "candidateOrder", "resilience", "sdkRuntime", "browserCompat",
    "retiredGrace", "concurrency", "coexistence", "coalescing", "leases", "eventStack",
    "segments", "fallback", "fastPlayback", "ackQueue", "requestAbort", "stopWatchdog",
    "burst", "burstTuning", "spawnNormalize", "isolation", "multiviewer", "capacityEnv",
    "workerPool">>

\* npm run check; install.sh, and the updater where there is no SDK; the updater.
Plan == [check |-> Prebuild,
         install |-> <<"rsync">> \o Prebuild,
         update |-> <<"rsync", "concurrency", "eventStack">> \o Prebuild
                        \o <<"coexistence", "segmentsNative">>]

\* What the scripts make of the sources of the repository.
Prepared ==
    LET steps == FlattenSeq([i \in DOMAIN Prebuild |-> Steps(Prebuild[i])])
        edit(t, s) == [t EXCEPT ![s.edit.file] = Edited(s.by, s.edit, @)]
    IN  FoldLeft(edit, [f \in Files |-> Fresh], steps)

VARIABLES
    tree,   \* the sources in PROJECT_DIR
    cmd,    \* the command that runs there or ran last, and how far it has come
    kills

vars == <<tree, cmd, kills>>

Init ==
    /\ tree = [f \in Files |-> Fresh] /\ kills = 0
    /\ \E from \in Sources :
        cmd = [name |-> "check", from |-> from, item |-> 1, step |-> 1, status |-> "running"]

\* Somebody starts a command, on whatever the last one has left.
Begin ==
    /\ cmd.status # "running"
    /\ \E name \in DOMAIN Plan, from \in Sources :
        cmd' = [name |-> name, from |-> from, item |-> 1, step |-> 1, status |-> "running"]
    /\ UNCHANGED <<tree, kills>>

Item == Plan[cmd.name][cmd.item]
Step == Steps(Item)[cmd.step]
Running == cmd.status = "running" /\ cmd.item <= Len(Plan[cmd.name])
AtStep == Running /\ cmd.step <= Len(Steps(Item))

\* Mutant: rsync --update, which leaves a patched file as the newer one.
CopyFileKeepsNewer ==
    /\ AtStep /\ Item = "rsync"
    /\ tree' = [tree EXCEPT ![Step.edit.file] =
                    IF cmd.from = "prepared" THEN Prepared[Step.edit.file] ELSE @]
    /\ cmd' = [cmd EXCEPT !.step = @ + 1]
    /\ UNCHANGED kills

CopyFile ==
    /\ AtStep /\ Item = "rsync"
    /\ tree' = [tree EXCEPT ![Step.edit.file] =
                    CASE cmd.from = "fresh" -> Fresh
                      [] cmd.from = "prepared" -> Prepared[Step.edit.file]
                      [] cmd.from = "itself" -> @]
    /\ cmd' = [cmd EXCEPT !.step = @ + 1]
    /\ UNCHANGED kills

\* Mutant: the marker of the first script is taken for that of the second.
FullyMaterializedEarly ==
    /\ "reconciliation" \in tree["config"].done
    /\ "reconciliation" \in tree["deviceRuntime"].done

FullyMaterialized ==
    /\ \A f \in {"eventCollector", "config", "eventStore"} : "backfill" \in tree[f].done
    /\ "reconciliation" \in tree["deviceWorker"].done

AlreadyPrepared == Item = "eventStack" /\ cmd.step = 1 /\ FullyMaterialized

PatchFile ==
    /\ AtStep /\ Item # "rsync" /\ ~AlreadyPrepared
    /\ LET f == Step.edit.file
           outcome == Outcome(Step.by, Step.edit, tree[f]) IN
        /\ tree' = IF outcome = "edited"
                   THEN [tree EXCEPT ![f] = Edited(Step.by, Step.edit, @)] ELSE tree
        /\ cmd' = IF outcome = "refused" THEN [cmd EXCEPT !.status = "failed"]
                  ELSE [cmd EXCEPT !.step = @ + 1]
    /\ UNCHANGED kills

NextItem ==
    /\ Running
    /\ AlreadyPrepared \/ cmd.step > Len(Steps(Item))
    /\ cmd' = IF Item = "eventStack" /\ ~FullyMaterialized
              THEN [cmd EXCEPT !.status = "failed"]
              ELSE [cmd EXCEPT !.item = @ + 1, !.step = 1]
    /\ UNCHANGED <<tree, kills>>

Finish ==
    /\ cmd.status = "running" /\ cmd.item > Len(Plan[cmd.name])
    /\ cmd' = [cmd EXCEPT !.status = "ok"]
    /\ UNCHANGED <<tree, kills>>

\* The compiler or a test fails, the terminal is closed, the power goes. write_text
\* opens the file empty before it writes, unless a marker spares the writing.
Kill ==
    /\ cmd.status = "running" /\ cmd' = [cmd EXCEPT !.status = "killed"]
    /\ kills < MaxKills /\ kills' = kills + 1
    /\ \/ UNCHANGED tree
       \/ /\ AtStep /\ Item # "rsync" /\ ~AlreadyPrepared
          /\ Outcome(Step.by, Step.edit, tree[Step.edit.file]) # "refused"
          /\ Step.edit.marked => ~Present(Step.by, tree[Step.edit.file])
          /\ tree' = [tree EXCEPT ![Step.edit.file] = Torn]

Next == Begin \/ CopyFile \/ PatchFile \/ NextItem \/ Finish \/ Kill

Spec == Init /\ [][Next]_vars
-----------------------------------------------------------------------------
(* Properties *)

\* Whatever was found, and in either order of the scripts: a command that succeeds
\* leaves the very sources that the scripts make of the repository's own.
OneResult == cmd.status = "ok" => tree = Prepared

\* An install or update from the repository's own sources gets past every patch,
\* whatever earlier commands, complete, failed or killed, have left in PROJECT_DIR.
CleanSourceSuffices ==
    cmd.status = "failed" => cmd.name = "check" \/ cmd.from # "fresh"

\* "Apply concurrency patch and verify idempotence", for every script and wherever it
\* ran: done again at once, it finds its work done.
Repeatable ==
    Running /\ cmd.item > 1 /\ cmd.step = 1 /\ Plan[cmd.name][cmd.item - 1] # "rsync" =>
        LET last == Steps(Plan[cmd.name][cmd.item - 1]) IN
        Plan[cmd.name][cmd.item - 1] # "eventStack" =>
            \A i \in DOMAIN last :
                Outcome(last[i].by, last[i].edit, tree[last[i].edit.file]) = "kept"

=============================================================================
