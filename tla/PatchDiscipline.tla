--------------------------- MODULE PatchDiscipline ---------------------------
(***************************************************************************)
(* What the 32 scripts and the three plans have to respect so that a build   *)
(* comes out right whatever it finds.  Each rule is a closed formula about   *)
(* the tables of PatchPipeline; TLC evaluates them before a run, and the      *)
(* proofs of PatchPipelineProofs use the tables through them only.           *)
(***************************************************************************)
EXTENDS PatchPipeline

-----------------------------------------------------------------------------
(* The edits of one file *)

In(f) == DOMAIN EditsIn[f]
Rewrites(f, k) == EditsIn[f][k].rewrites

\* The text of j has been rewritten by an edit of S.
Rewritten(f, j, S) == \E k \in S : j \in Rewrites(f, k)

\* What every content of file f respects that the scripts can have made.
FileOK(f, t) ==
    /\ t \in [done : SUBSET In(f), stale : SUBSET In(f), twice : SUBSET In(f), torn : BOOLEAN]
    /\ t.torn => t = Torn
    /\ t.stale = {j \in t.done \ t.twice : Rewritten(f, j, t.done)}
    /\ \A j \in t.twice : /\ j \in t.done /\ EditsIn[f][j].anchored
                          /\ \E k \in t.done : j \in Rewrites(f, k)
    /\ \A k \in t.done : EditsIn[f][k].needs \subseteq t.done
    /\ \A j, k \in t.done : ~(j \in EditsIn[f][k].bars /\ k \in EditsIn[f][j].bars)

\* No edit needs, excludes, rewrites or removes itself.
ASSUME EditRule ==
    \A f \in Files : \A k \in In(f) :
        LET e == EditsIn[f][k] IN
        /\ e.file = f /\ e.anchored \in BOOLEAN /\ e.marked \in BOOLEAN
        /\ e.needs \subseteq In(f) /\ e.rewrites \subseteq In(f) /\ e.undoes \subseteq In(f)
        /\ k \notin e.needs \cup e.bars \cup e.rewrites \cup e.undoes

\* An edit that removes others removes with an edit all that need it and all it rewrote.
ASSUME UndoRule ==
    \A f \in Files : \A u \in In(f) :
        LET gone == EditsIn[f][u].undoes IN
        gone # {} =>
            /\ f = "client" /\ EditsIn[f][u].rewrites = {} /\ EditsIn[f][u].needs = {}
            /\ \A k \in In(f) :
                /\ k \in gone => Rewrites(f, k) \subseteq gone
                /\ EditsIn[f][k].needs \cap gone # {} => k \in gone

\* Only the concurrency settings can be put in twice, once the pool has rewritten them.
ASSUME AnchorRule ==
    \A f \in Files : \A k \in In(f) :
        EditsIn[f][k].anchored =>
            /\ f = "config" /\ k = "concurrency"
            /\ Rewrites(f, k) = {} /\ EditsIn[f][k].undoes = {}
            /\ \A s \in In(f) : k \in Rewrites(f, s) => s = "workerPool"

-----------------------------------------------------------------------------
(* The plans *)

\* How many items a plan has, and an item steps.
Items(name) == Len(Plan[name])
Size(item) == Len(Steps(item))

Slot(name, m, n) == Steps(Plan[name][m])[n]
Slots(name) == {p \in (1 .. Items(name)) \X (1 .. 19) :
                  Plan[name][p[1]] # "rsync" /\ p[2] <= Size(Plan[name][p[1]])}
Before(m, n, i, j) == m < i \/ (m = i /\ n < j)

\* Where in a plan the prebuild starts.
Start == [check |-> 0, install |-> 1, update |-> 3]

\* The text of slot (m, n) has been removed when the command is at (i, j).
Undone(name, m, n, i, j) ==
    \E u \in 1 .. Items(name) :
        /\ m < u /\ Before(u, 1, i, j) /\ Plan[name][u] # "rsync"
        /\ Slot(name, u, 1).edit.file = Slot(name, m, n).edit.file
        /\ Slot(name, m, n).by \in Slot(name, u, 1).edit.undoes

ASSUME PlanRule ==
    /\ DOMAIN Plan = {"check", "install", "update"}
    /\ \A name \in DOMAIN Plan :
        /\ Items(name) \in Nat
        /\ Items(name) >= Start[name] + 31
        /\ \A m \in 1 .. Items(name) :
            /\ Size(Plan[name][m]) \in 1 .. 19
            /\ DOMAIN Steps(Plan[name][m]) = 1 .. Size(Plan[name][m])
            /\ (Plan[name][m] = "rsync") <=> (name # "check" /\ m = 1)
            /\ (Plan[name][m] = "eventStack") <=>
                    m = Start[name] + 18 \/ (name = "update" /\ m = 3)

\* A slot has the edit of its script for its file; an edit that removes others is the
\* only one of its item.
ASSUME SlotRule ==
    \A name \in DOMAIN Plan : \A p \in Slots(name) :
        LET s == Slot(name, p[1], p[2]) IN
        /\ s.edit.file \in Files /\ s.by \in In(s.edit.file)
        /\ s.edit = EditsIn[s.edit.file][s.by]
        /\ s.edit.undoes # {} => Size(Plan[name][p[1]]) = 1

\* rsync copies every file once, the configuration before the files of the events.
ASSUME CopyRule ==
    /\ Files # {} /\ "config" \in Files
    /\ Size("rsync") = 19
    /\ \A n \in 1 .. 19 : Steps("rsync")[n].edit.file \in Files
    /\ \A f \in Files : \E n \in 1 .. 19 : Steps("rsync")[n].edit.file = f
    /\ \A n \in 1 .. 19 :
        LET f == Steps("rsync")[n].edit.file IN
        /\ f = "config" <=> n = 5
        /\ f \in {"runtimeEvents", "sdkStub", "deviceRuntime"} => n > 5

\* The files of one item are distinct, but for the two scripts of the event stack.
ASSUME ItemRule ==
    \A name \in DOMAIN Plan : \A p, q \in Slots(name) :
        /\ p[1] = q[1] /\ p[2] # q[2] /\ Plan[name][p[1]] # "eventStack"
        => Slot(name, p[1], p[2]).edit.file # Slot(name, q[1], q[2]).edit.file

\* The event stack writes the configuration first, and backfill when all of the
\* reconciliation is in.
StackSlot(n, s, f) ==
    Steps("eventStack")[n].by = s /\ Steps("eventStack")[n].edit.file = f

ASSUME StackRule ==
    /\ {"config", "runtimeEvents", "deviceRuntime", "eventStore", "eventCollector",
        "deviceWorker", "sdkStub"} \subseteq Files
    /\ Size("eventStack") = 10
    /\ StackSlot(1, "reconciliation", "config")
    /\ StackSlot(2, "reconciliation", "runtimeEvents")
    /\ StackSlot(3, "reconciliation", "deviceRuntime")
    /\ StackSlot(4, "reconciliation", "eventStore")
    /\ StackSlot(5, "reconciliation", "eventCollector")
    /\ StackSlot(6, "reconciliation", "deviceWorker")
    /\ StackSlot(7, "reconciliation", "sdkStub")
    /\ StackSlot(8, "backfill", "config")
    /\ StackSlot(9, "backfill", "eventStore")
    /\ StackSlot(10, "backfill", "eventCollector")
    /\ "reconciliation" \in Rewrites("config", "backfill")
    /\ \A f \in {"config", "eventStore", "eventCollector"} :
        "backfill" \in In(f) /\ "reconciliation" \in EditsIn[f]["backfill"].needs

\* The retention of live segments rewrites the first patch of the configuration, so that
\* a prepared configuration is refused; it goes in before backfill and the pool.
ASSUME ConfigRule ==
    /\ "fastMedia" \in Rewrites("config", "retention")
    /\ {"retention", "workerPool", "fastMedia"} \subseteq In("config")

\* The places of the prebuild that matter for what the event stack and the pool find.
ASSUME PlaceRule ==
    \A name \in DOMAIN Plan :
        LET at == Start[name] IN
        /\ <<at + 3, 1>> \in Slots(name)
        /\ Slot(name, at + 3, 1).by = "fastMedia"
        /\ Slot(name, at + 3, 1).edit.file = "config"
        /\ <<at + 6, 1>> \in Slots(name)
        /\ Slot(name, at + 6, 1).by = "retention"
        /\ Slot(name, at + 6, 1).edit.file = "config"
        /\ <<at + 14, 3>> \in Slots(name)
        /\ Slot(name, at + 14, 3).edit.file = "deviceRuntime"

ASSUME ScriptRule ==
    \A name \in DOMAIN Plan : \A p \in Slots(name) :
        LET s == Slot(name, p[1], p[2]) IN
        /\ (s.by = "workerPool" /\ s.edit.file = "config") <=> p = <<Start[name] + 31, 1>>
        /\ s.by = "concurrency" => p[1] < Start[name] + 31
        /\ s.by \in {"backfill", "reconciliation"} => Plan[name][p[1]] = "eventStack"
        /\ s.edit.file \in {"runtimeEvents", "sdkStub"} =>
                Plan[name][p[1]] = "eventStack" \/ p[1] > Start[name] + 18

\* What the scripts make of the repository's sources has in it every edit that no later
\* one removes, and of two edits that exclude each other one.
ASSUME PreparedRule ==
    /\ Prepared = [f \in Files |-> Prepared[f]]
    /\ \A f \in Files :
          LET t == Prepared[f] IN
          /\ FileOK(f, t) /\ ~t.torn /\ t.twice = {} /\ t.done # {}
          /\ \A name \in DOMAIN Plan : \A k \in t.done :
              \E p \in Slots(name) :
                  /\ p[1] > Start[name]
                  /\ Slot(name, p[1], p[2]).by = k /\ Slot(name, p[1], p[2]).edit.file = f
                  /\ ~Undone(name, p[1], p[2], Items(name) + 1, 1)
          /\ \A k \in In(f) \ t.done :
              \E j \in t.done : j \in EditsIn[f][k].bars /\ k \in EditsIn[f][j].bars
          /\ f = "config" => "retention" \in t.done

\* The edits in file f that an install or update from clean sources has when it is at
\* (i, j).
Clean(name, f, i, j) ==
    {k \in In(f) : \E p \in Slots(name) :
        /\ Before(p[1], p[2], i, j)
        /\ Slot(name, p[1], p[2]).by = k /\ Slot(name, p[1], p[2]).edit.file = f
        /\ ~Undone(name, p[1], p[2], i, j)}

\* In a plan every edit finds those it needs before it, and before it none that it
\* cannot follow. The prebuild of an update skips the event stack.
ASSUME OrderRule ==
    \A name \in {"install", "update"} : \A p \in Slots(name) :
        ~(name = "update" /\ p[1] = Start[name] + 18 /\ p[2] < 8) =>
            LET s == Slot(name, p[1], p[2])
                clean == Clean(name, s.edit.file, p[1], p[2]) IN
            /\ s.edit.needs \subseteq clean
            /\ ~Rewritten(s.edit.file, s.by, clean)
            /\ s.by \in clean \/ s.edit.bars \cap clean = {}

-----------------------------------------------------------------------------
(* The inductive invariant *)

\* The command is at an item and step of its plan, or behind its last item.
CmdOK ==
    /\ cmd \in [name : DOMAIN Plan, from : {"fresh", "prepared", "itself"}, item : Nat \ {0},
                step : Nat \ {0}, status : {"running", "ok", "failed", "killed"}]
    /\ cmd.item <= Items(cmd.name) + 1
    /\ cmd.item <= Items(cmd.name) => cmd.step <= Size(Item) + 1
    /\ cmd.item > Items(cmd.name) => cmd.step = 1
    /\ cmd.status = "ok" => cmd.item > Items(cmd.name)

\* Every file is one that the scripts can have made.
TreeOK == tree = [f \in Files |-> tree[f]] /\ \A f \in Files : FileOK(f, tree[f])

Alive == cmd.status \in {"running", "ok"}
\* The command copies the repository's own sources first.
FromClean == cmd.from = "fresh" /\ cmd.name # "check"

\* The slots that the command has passed: in the prebuild, or, from clean sources, all.
Must(p) ==
    /\ Before(p[1], p[2], cmd.item, cmd.step)
    /\ FromClean \/ p[1] > Start[cmd.name]

\* The text of slot p is in its file, or has been removed since.
Has(p) ==
    LET s == Slot(cmd.name, p[1], p[2]) IN
    /\ ~tree[s.edit.file].torn
    /\ \/ s.by \in tree[s.edit.file].done
       \/ Undone(cmd.name, p[1], p[2], cmd.item, cmd.step)

\* What a live command has passed, its files still have.
PassedInFile == Alive => \A p \in Slots(cmd.name) : Must(p) => Has(p)

\* The command is alive and behind the prebuild's first patch of the configuration.
InPass == Alive /\ Before(Start[cmd.name] + 3, 1, cmd.item, cmd.step)

\* The pool is in the configuration only with the retention of live segments.
ConfigOK == "workerPool" \in tree["config"].done => "retention" \in tree["config"].done

\* A prebuild finds no second copy of the concurrency settings, and no pool before its own.
ConfigInPass ==
    InPass =>
        /\ tree["config"].twice = {}
        /\ "workerPool" \in tree["config"].done =>
            Before(Start[cmd.name] + 31, 1, cmd.item, cmd.step)

Backfilled == "backfill" \in tree["config"].done
Half == Backfilled /\ "retention" \notin tree["config"].done
Reconciled ==
    /\ \A f \in {"runtimeEvents", "sdkStub"} : "reconciliation" \in tree[f].done
    /\ tree["deviceRuntime"].torn \/ "reconciliation" \in tree["deviceRuntime"].done

\* Backfill without the retention is what an update leaves that is killed between its
\* early event stack and the retention: then all of the reconciliation is in.
HalfOK == Half => Reconciled
\* rsync, which copies the configuration before the files of the events, leaves none such.
HalfCopy ==
    Running /\ Item = "rsync" /\ cmd.from # "itself" /\ cmd.step > 5 => ~Half
\* Between its first patch of the configuration and the event stack, the prebuild finds
\* backfill only with the reconciliation.
SkipOK ==
    InPass /\ ~Before(Start[cmd.name] + 18, 1, cmd.item, cmd.step) /\ Backfilled
        => Reconciled

\* Within the event stack backfill comes last, and what it has passed is there.
InStack ==
    Running /\ Item = "eventStack" =>
        /\ cmd.step \in 2 .. 8 => ~Backfilled
        /\ \A n \in 1 .. 10 : n < cmd.step =>
            Steps("eventStack")[n].by \in tree[Steps("eventStack")[n].edit.file].done

StackOK == SkipOK /\ InStack

\* What has been copied from the repository's own sources has no patch in it.
CleanCopy ==
    Running /\ Item = "rsync" /\ cmd.from = "fresh" =>
        \A n \in 1 .. 19 : n < cmd.step => tree[Steps("rsync")[n].edit.file] = Fresh
\* Behind such a copy a file has in it no more than the plan has put there.
CleanTree ==
    Alive /\ FromClean /\ cmd.item > 1 =>
        \A f \in Files : ~tree[f].torn
                         /\ tree[f].done \subseteq Clean(cmd.name, f, cmd.item, cmd.step)

\* The steps that the item at hand has passed find their work done.
ItemKept ==
    Running /\ Item \notin {"rsync", "eventStack"} =>
        \A n \in 1 .. Size(Item) : n < cmd.step =>
            LET s == Steps(Item)[n] IN Outcome(s.by, s.edit, tree[s.edit.file]) = "kept"

\* The inductive invariant.
Inv ==
    /\ CmdOK /\ TreeOK /\ PassedInFile /\ ConfigOK /\ ConfigInPass /\ HalfOK /\ HalfCopy
    /\ StackOK /\ CleanCopy /\ CleanTree /\ ItemKept

=============================================================================
