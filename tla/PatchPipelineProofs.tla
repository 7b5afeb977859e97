------------------------- MODULE PatchPipelineProofs -------------------------
(***************************************************************************)
(* Theorems of PatchPipeline for every number of kills and every choice of   *)
(* sources: what a build leaves, that clean sources always suffice, and that *)
(* a script done again at once finds its work done.  The tables of scripts   *)
(* and plans are used only through the rules of PatchDiscipline.             *)
(***************************************************************************)
EXTENDS PatchDiscipline, TLAPS

-----------------------------------------------------------------------------
(* One patch function on one file *)

\* What an edit that is not refused makes of a file.
Patched(k, e, t) == IF Outcome(k, e, t) = "edited" THEN Edited(k, e, t) ELSE t

\* An empty or new file respects the rules.
LEMMA FreshOK ==
    ASSUME NEW f \in Files
    PROVE  FileOK(f, Fresh) /\ FileOK(f, Torn)
BY DEF FileOK, Fresh, Torn, Rewritten

\* A file that has been edited is not a torn one.
LEMMA DoneIsWhole ==
    ASSUME NEW f \in Files, NEW t, FileOK(f, t), t.done # {}
    PROVE  ~t.torn
BY DEF FileOK, Torn, Fresh

\* What an edit leaves in the file.
LEMMA PatchedDone ==
    ASSUME NEW f \in Files, NEW k \in In(f), NEW t, FileOK(f, t),
           Outcome(k, EditsIn[f][k], t) # "refused"
    PROVE  LET t2 == Patched(k, EditsIn[f][k], t) IN
           /\ ~t.torn /\ ~t2.torn
           /\ t2.done = (t.done \ EditsIn[f][k].undoes) \cup {k}
           /\ \/ t2.twice = t.twice
              \/ /\ t2.twice = t.twice \cup {k}
                 /\ EditsIn[f][k].anchored /\ k \in t.stale
<1> DEFINE e == EditsIn[f][k]
<1>1. k \notin e.undoes /\ e.anchored \in BOOLEAN
  BY EditRule
<1>2. ~t.torn
  BY DEF Outcome
<1>3. CASE Outcome(k, e, t) = "edited"
  <2>1. Patched(k, e, t) = Edited(k, e, t)
    BY <1>3 DEF Patched
  <2>2. /\ Edited(k, e, t).torn = t.torn
        /\ Edited(k, e, t).done = (t.done \ e.undoes) \cup {k}
        /\ Edited(k, e, t).twice
              = IF k \in t.done /\ e.anchored THEN t.twice \cup {k} ELSE t.twice
    BY DEF Edited, FileOK
  <2>3. k \in t.done /\ e.anchored => k \in t.stale
    BY <1>3, AnchorRule DEF Outcome, Present
  <2>4. QED
    BY <1>2, <2>1, <2>2, <2>3
<1>4. CASE Outcome(k, e, t) = "kept"
  <2>1. Patched(k, e, t) = t
    BY <1>4 DEF Patched
  <2>2. k \in t.done /\ e.undoes \cap t.done = {}
    BY <1>4 DEF Outcome, Present
  <2>3. QED
    BY <1>2, <2>1, <2>2
<1>5. QED
  BY <1>3, <1>4 DEF Outcome

\* An edit keeps the rules of its file.
LEMMA PatchedOK ==
    ASSUME NEW f \in Files, NEW k \in In(f), NEW t, FileOK(f, t),
           Outcome(k, EditsIn[f][k], t) # "refused"
    PROVE  FileOK(f, Patched(k, EditsIn[f][k], t))
<1> DEFINE e == EditsIn[f][k]
           t2 == Edited(k, e, t)
<1>1. CASE Outcome(k, e, t) # "edited"
  BY <1>1 DEF Patched
<1>2. CASE Outcome(k, e, t) = "edited"
  <2>1. /\ t \in [done : SUBSET In(f), stale : SUBSET In(f), twice : SUBSET In(f),
                  torn : BOOLEAN]
        /\ ~t.torn
    BY <1>2 DEF FileOK, Outcome
  <2>2. /\ e.needs \subseteq In(f) /\ e.rewrites \subseteq In(f) /\ e.undoes \subseteq In(f)
        /\ k \notin e.needs \cup e.rewrites \cup e.undoes
        /\ e.anchored \in BOOLEAN
    BY EditRule
  <2>3. /\ t2.done = (t.done \ e.undoes) \cup {k}
        /\ t2.stale = (t.stale \ (e.undoes \cup {k})) \cup (e.rewrites \cap t.done)
        /\ t2.twice = IF k \in t.done /\ e.anchored THEN t.twice \cup {k} ELSE t.twice
        /\ t2.torn = FALSE
    BY <2>1 DEF Edited
  <2>4. t2 \in [done : SUBSET In(f), stale : SUBSET In(f), twice : SUBSET In(f),
                torn : BOOLEAN]
    BY <2>1, <2>2 DEF Edited
  <2>5. \/ k \in t.done \ t.stale /\ e.undoes \cap t.done # {}
        \/ k \in t.done /\ k \in t.stale /\ e.anchored
        \/ /\ k \notin t.done /\ e.needs \subseteq t.done
           /\ \A s \in t.done : s \notin e.bars /\ k \notin Rewrites(f, s)
    <3>1. e.file = f
      BY EditRule
    <3>2. QED
      BY <1>2, <3>1 DEF Outcome, Present, Rewrites
  <2>6. t2.stale = {j \in t2.done \ t2.twice : Rewritten(f, j, t2.done)}
    <3>1. t.stale = {j \in t.done \ t.twice : Rewritten(f, j, t.done)}
      BY DEF FileOK
    <3>2. CASE k \in t.done \ t.stale /\ e.undoes \cap t.done # {}
      <4>1. /\ e.rewrites = {} /\ ~e.anchored
            /\ \A j \in In(f) : j \in e.undoes => Rewrites(f, j) \subseteq e.undoes
        BY <3>2, UndoRule, AnchorRule, <2>2
      <4>2. \A j \in t2.done : Rewritten(f, j, t2.done) <=> Rewritten(f, j, t.done)
        BY <2>1, <2>2, <2>3, <3>2, <4>1 DEF Rewritten, Rewrites
      <4>3. t2.done \subseteq t.done /\ t2.twice = t.twice
        BY <2>3, <3>2, <4>1
      <4>4. t2.stale = t.stale \ e.undoes
        BY <2>3, <3>2, <4>1
      <4>5. t2.done = t.done \ e.undoes
        BY <2>2, <2>3, <3>2
      <4>6. QED
        BY <3>1, <4>2, <4>3, <4>4, <4>5
    <3>3. CASE k \in t.done /\ k \in t.stale /\ e.anchored
      <4>1. e.rewrites = {} /\ e.undoes = {}
        BY <3>3, AnchorRule DEF Rewrites
      <4>2. t2.done = t.done /\ t2.twice = t.twice \cup {k} /\ t2.stale = t.stale \ {k}
        BY <2>3, <3>3, <4>1
      <4>3. QED
        BY <3>1, <4>2
    <3>4. CASE /\ k \notin t.done
               /\ \A s \in t.done : s \notin e.bars /\ k \notin Rewrites(f, s)
      <4>1. t2.twice = t.twice
        BY <2>3, <3>4
      <4>2. e.rewrites \cap t.twice = {}
        <5>1. ASSUME NEW j \in t.twice, j \in e.rewrites
              PROVE  FALSE
          <6>1. EditsIn[f][j].anchored /\ j \in In(f) /\ \E s \in t.done : j \in Rewrites(f, s)
            BY <2>1 DEF FileOK
          <6>2. \A s \in In(f) : j \in Rewrites(f, s) => s = "workerPool"
            BY <6>1, AnchorRule
          <6>3. QED
            BY <2>1, <3>4, <5>1, <6>1, <6>2 DEF Rewrites
        <5>2. QED
          BY <5>1
      <4>3. \A j \in t2.done : Rewritten(f, j, t2.done)
                <=> j \in e.rewrites \/ Rewritten(f, j, t.done)
        <5>1. \A u \in e.undoes : Rewrites(f, u) \subseteq e.undoes
          BY <2>2, UndoRule
        <5>2. QED
          BY <2>1, <2>2, <2>3, <5>1 DEF Rewritten, Rewrites
      <4>4. ~Rewritten(f, k, t.done) /\ k \notin e.rewrites
        BY <2>2, <3>4 DEF Rewritten
      <4>5. e.rewrites # {} => e.undoes = {}
        BY UndoRule
      <4>6. QED
        BY <2>3, <3>1, <4>1, <4>2, <4>3, <4>4, <4>5
    <3>5. QED
      BY <2>5, <3>2, <3>3, <3>4
  <2>7. \A j \in t2.twice : /\ j \in t2.done /\ EditsIn[f][j].anchored
                            /\ \E s \in t2.done : j \in Rewrites(f, s)
    <3>1. ASSUME NEW j \in t2.twice
          PROVE  /\ j \in t.done /\ EditsIn[f][j].anchored
                 /\ \E s \in t.done : j \in Rewrites(f, s)
      <4>1. CASE j \in t.twice
        BY <4>1 DEF FileOK
      <4>2. CASE j = k /\ k \in t.done /\ e.anchored
        BY <2>5, <4>2, AnchorRule DEF FileOK, Rewritten
      <4>3. QED
        BY <2>3, <4>1, <4>2
    <3>2. ASSUME NEW j \in t2.twice
          PROVE  e.undoes = {}
      BY <3>1, <2>1, UndoRule, AnchorRule
    <3>3. QED
      BY <2>3, <3>1, <3>2
  <2>8. \A j \in t2.done : EditsIn[f][j].needs \subseteq t2.done
    <3>1. ASSUME NEW j \in t.done, j \notin e.undoes
          PROVE  EditsIn[f][j].needs \subseteq t2.done
      <4>1. EditsIn[f][j].needs \subseteq t.done
        BY DEF FileOK
      <4>2. EditsIn[f][j].needs \cap e.undoes = {}
        BY <2>1, <3>1, UndoRule
      <4>3. QED
        BY <2>3, <4>1, <4>2
    <3>2. ASSUME k \notin t.done
          PROVE  e.needs \subseteq t2.done
      <4>1. e.needs \subseteq t.done
        BY <2>5, <3>2
      <4>2. e.undoes # {} => e.needs = {}
        BY UndoRule
      <4>3. QED
        BY <2>3, <4>1, <4>2
    <3>3. QED
      BY <2>2, <2>3, <3>1, <3>2
  <2>9. \A i, j \in t2.done : ~(i \in EditsIn[f][j].bars /\ j \in EditsIn[f][i].bars)
    <3>1. \A i, j \in t.done : ~(i \in EditsIn[f][j].bars /\ j \in EditsIn[f][i].bars)
      BY DEF FileOK
    <3>2. k \notin t.done => k \notin e.bars /\ \A s \in t.done : s \notin e.bars
      BY <2>5, EditRule
    <3>3. QED
      BY <2>3, <3>1, <3>2
  <2>10. QED
    BY <1>2, <2>3, <2>4, <2>6, <2>7, <2>8, <2>9 DEF FileOK, Patched
<1>3. QED
  BY <1>1, <1>2

\* Done again at once, an edit finds its work done.
LEMMA PatchedKept ==
    ASSUME NEW f \in Files, NEW k \in In(f), NEW t, FileOK(f, t),
           Outcome(k, EditsIn[f][k], t) # "refused"
    PROVE  LET t2 == Patched(k, EditsIn[f][k], t) IN
           Outcome(k, EditsIn[f][k], t2) = "kept"
<1> DEFINE e == EditsIn[f][k]
           t2 == Patched(k, e, t)
<1>1. CASE Outcome(k, e, t) = "kept"
  BY <1>1 DEF Patched
<1>2. CASE Outcome(k, e, t) = "edited"
  <2>1. k \notin e.rewrites /\ k \notin e.undoes
    BY EditRule
  <2>2. t2 = Edited(k, e, t)
    BY <1>2 DEF Patched
  <2>3. k \notin t2.stale
    BY <2>1, <2>2 DEF Edited, FileOK
  <2>4. ~t2.torn /\ k \in t2.done /\ e.undoes \cap t2.done = {}
    BY <2>1, PatchedDone
  <2>5. QED
    BY <2>3, <2>4 DEF Outcome, Present
<1>3. QED
  BY <1>1, <1>2 DEF Outcome

\* Behind an edit no other is in the file that rewrites its text, unless it was put in
\* twice.
LEMMA PatchedLast ==
    ASSUME NEW f \in Files, NEW k \in In(f), NEW t, FileOK(f, t),
           Outcome(k, EditsIn[f][k], t) # "refused"
    PROVE  LET t2 == Patched(k, EditsIn[f][k], t) IN
           k \in t2.twice \/ ~Rewritten(f, k, t2.done)
<1> DEFINE t2 == Patched(k, EditsIn[f][k], t)
<1>1. FileOK(f, t2) /\ Outcome(k, EditsIn[f][k], t2) = "kept"
  BY PatchedOK, PatchedKept
<1>2. k \in t2.done \ t2.stale
  BY <1>1 DEF Outcome, Present
<1>3. QED
  BY <1>1, <1>2 DEF FileOK

-----------------------------------------------------------------------------
(* What a step does *)

\* The files and plans a command works on.
LEMMA PlanTypes ==
    ASSUME CmdOK
    PROVE  /\ cmd.name \in DOMAIN Plan /\ cmd.name \in {"check", "install", "update"}
           /\ Start[cmd.name] \in {0, 1, 3} /\ (cmd.name = "check" <=> Start[cmd.name] = 0)
           /\ (cmd.name = "update" <=> Start[cmd.name] = 3)
           /\ Items(cmd.name) \in Nat /\ Items(cmd.name) >= Start[cmd.name] + 31
           /\ cmd.item \in Nat \ {0} /\ cmd.step \in Nat \ {0}
BY PlanRule DEF CmdOK, Start

\* The items of a plan.
LEMMA ItemTypes ==
    ASSUME NEW name \in DOMAIN Plan, NEW m \in 1 .. Items(name)
    PROVE  /\ Size(Plan[name][m]) \in 1 .. 19
           /\ DOMAIN Steps(Plan[name][m]) = 1 .. Size(Plan[name][m])
           /\ Plan[name][m] = "rsync" <=> (name # "check" /\ m = 1)
           /\ Plan[name][m] = "eventStack"
                <=> (m = Start[name] + 18 \/ (name = "update" /\ m = 3))
BY PlanRule, Zenon

\* The guards of the model, in these terms.
LEMMA Guards ==
    /\ Running <=> cmd.status = "running" /\ cmd.item <= Items(cmd.name)
    /\ AtStep <=> Running /\ cmd.step <= Size(Item)
    /\ NextItem => Running /\ (AlreadyPrepared \/ cmd.step > Size(Item))
    /\ Finish <=> /\ cmd.status = "running" /\ cmd.item > Items(cmd.name)
                  /\ cmd' = [cmd EXCEPT !.status = "ok"]
                  /\ UNCHANGED <<tree, kills>>
BY Zenon DEF Running, AtStep, NextItem, Finish, Items, Size

\* The slots of a plan.
LEMMA SlotTypes ==
    ASSUME NEW name \in DOMAIN Plan, NEW p \in Slots(name)
    PROVE  /\ p = <<p[1], p[2]>>
           /\ p[1] \in 1 .. Items(name) /\ p[2] \in 1 .. Size(Plan[name][p[1]])
           /\ p[1] \in Nat \ {0} /\ p[2] \in Nat \ {0}
           /\ Plan[name][p[1]] # "rsync"
           /\ Slot(name, p[1], p[2]).edit.file \in Files
           /\ Slot(name, p[1], p[2]).by \in In(Slot(name, p[1], p[2]).edit.file)
           /\ Slot(name, p[1], p[2]).edit
                = EditsIn[Slot(name, p[1], p[2]).edit.file][Slot(name, p[1], p[2]).by]
<1>1. /\ p = <<p[1], p[2]>> /\ p[1] \in 1 .. Items(name) /\ p[2] \in 1 .. 19
      /\ Plan[name][p[1]] # "rsync" /\ p[2] <= Size(Plan[name][p[1]])
  BY DEF Slots
<1>2. Items(name) \in Nat
  BY PlanRule, Zenon
<1>3. Size(Plan[name][p[1]]) \in 1 .. 19
  BY <1>1, ItemTypes
<1>4. /\ Slot(name, p[1], p[2]).edit.file \in Files
      /\ Slot(name, p[1], p[2]).by \in In(Slot(name, p[1], p[2]).edit.file)
      /\ Slot(name, p[1], p[2]).edit
           = EditsIn[Slot(name, p[1], p[2]).edit.file][Slot(name, p[1], p[2]).by]
  BY SlotRule
<1>5. p[1] \in Nat \ {0} /\ p[2] \in Nat \ {0} /\ p[2] \in 1 .. Size(Plan[name][p[1]])
  BY <1>1, <1>2, <1>3
<1>6. QED
  BY <1>1, <1>4, <1>5

\* The command is at a slot of its plan.
LEMMA AtSlot ==
    ASSUME CmdOK, AtStep, Item # "rsync"
    PROVE  /\ <<cmd.item, cmd.step>> \in Slots(cmd.name)
           /\ Step = Slot(cmd.name, cmd.item, cmd.step)
<1>1. Items(cmd.name) \in Nat /\ cmd.item \in 1 .. Items(cmd.name)
  BY PlanTypes, Guards
<1>2. cmd.name \in DOMAIN Plan /\ cmd.step \in Nat \ {0} /\ cmd.step <= Size(Item)
  BY PlanTypes, Guards
<1>3. Size(Item) \in 1 .. 19
  BY <1>1, <1>2, ItemTypes DEF Item
<1>4. cmd.step \in 1 .. 19
  BY <1>2, <1>3
<1>5. QED
  BY <1>1, <1>2, <1>4 DEF Slots, Slot, Step, Item

\* The patch function of script k has passed file f, and the command is at its next step.
Passes(f, k) ==
    /\ AtStep /\ Item # "rsync" /\ ~AlreadyPrepared
    /\ f \in Files /\ k \in In(f)
    /\ <<cmd.item, cmd.step>> \in Slots(cmd.name)
    /\ Slot(cmd.name, cmd.item, cmd.step).by = k
    /\ Slot(cmd.name, cmd.item, cmd.step).edit.file = f
    /\ Slot(cmd.name, cmd.item, cmd.step).edit = EditsIn[f][k]
    /\ Outcome(k, EditsIn[f][k], tree[f]) # "refused"
    /\ tree' = [g \in Files |-> IF g = f THEN Patched(k, EditsIn[f][k], tree[f]) ELSE tree[g]]
    /\ cmd' = [cmd EXCEPT !.step = cmd.step + 1]

\* The command fails, or is killed between two steps.
Stops ==
    /\ cmd.status = "running" /\ UNCHANGED tree
    /\ \E status \in {"failed", "killed"} : cmd' = [cmd EXCEPT !.status = status]

\* The command is killed while the file of its step is being written.
Tears(f) ==
    /\ AtStep /\ Item # "rsync" /\ ~AlreadyPrepared
    /\ f \in Files /\ f = Slot(cmd.name, cmd.item, cmd.step).edit.file
    /\ <<cmd.item, cmd.step>> \in Slots(cmd.name)
    /\ tree' = [g \in Files |-> IF g = f THEN Torn ELSE tree[g]]
    /\ cmd' = [cmd EXCEPT !.status = "killed"]

\* The command goes on to its next item.
Advances ==
    /\ Running /\ UNCHANGED tree
    /\ AlreadyPrepared \/ (~AlreadyPrepared /\ cmd.step = Size(Item) + 1)
    /\ cmd' = [cmd EXCEPT !.item = cmd.item + 1, !.step = 1]

\* A patch function passes its file or stops the command.
LEMMA PatchFileCases ==
    ASSUME Inv, PatchFile
    PROVE  Stops \/ \E f \in Files : \E k \in In(f) : Passes(f, k)
<1> DEFINE f == Step.edit.file
           k == Step.by
<1>1. /\ <<cmd.item, cmd.step>> \in Slots(cmd.name) /\ cmd.name \in DOMAIN Plan
      /\ Step = Slot(cmd.name, cmd.item, cmd.step)
  BY AtSlot, PlanTypes DEF PatchFile, Inv
<1>2. f \in Files /\ k \in In(f) /\ Step.edit = EditsIn[f][k]
  BY <1>1, SlotTypes
<1>3. CASE Outcome(k, Step.edit, tree[f]) = "refused"
  BY <1>3, Guards DEF PatchFile, Stops
<1>4. CASE Outcome(k, Step.edit, tree[f]) # "refused"
  <2>1. /\ tree' = IF Outcome(k, Step.edit, tree[f]) = "edited"
                   THEN [tree EXCEPT ![f] = Edited(k, Step.edit, @)] ELSE tree
        /\ cmd' = [cmd EXCEPT !.step = cmd.step + 1]
    BY <1>4 DEF PatchFile
  <2>2. tree = [g \in Files |-> tree[g]]
    BY DEF Inv, TreeOK
  <2>3. tree' = [g \in Files |-> IF g = f THEN Patched(k, EditsIn[f][k], tree[f])
                                 ELSE tree[g]]
    BY <1>2, <2>1, <2>2 DEF Patched
  <2>4. Passes(f, k)
    BY <1>1, <1>2, <1>4, <2>1, <2>3 DEF Passes, PatchFile
  <2>5. QED
    BY <1>2, <2>4
<1>5. QED
  BY <1>3, <1>4

\* When the last step of the event stack is done, its markers are there.
LEMMA StackMaterializes ==
    ASSUME Inv, Running, Item = "eventStack", cmd.step > Size(Item)
    PROVE  FullyMaterialized
<1>1. cmd.step > 10 /\ cmd.step \in Nat
  BY StackRule, PlanTypes DEF Inv
<1>2. \A n \in 1 .. 10 :
        Steps("eventStack")[n].by \in tree[Steps("eventStack")[n].edit.file].done
  BY <1>1 DEF Inv, StackOK, InStack
<1>3. QED
  BY <1>2, StackRule DEF StackSlot, FullyMaterialized

\* The next item is always begun: the event stack never misses its markers.
LEMMA NextItemCases ==
    ASSUME Inv, NextItem
    PROVE  Advances
<1>1. Running /\ UNCHANGED tree /\ (AlreadyPrepared \/ cmd.step > Size(Item))
  BY Guards DEF NextItem
<1>2. AlreadyPrepared \/ (~AlreadyPrepared /\ cmd.step = Size(Item) + 1)
  <2>1. cmd.item \in 1 .. Items(cmd.name)
    BY <1>1, PlanTypes, Guards DEF Inv
  <2>2. Size(Item) \in Nat
    <3>1. cmd.name \in DOMAIN Plan
      BY PlanTypes DEF Inv
    <3>2. Size(Item) \in 1 .. 19
      BY <2>1, <3>1, ItemTypes DEF Item
    <3>3. QED
      BY <3>2
  <2>3. cmd.step <= Size(Item) + 1 /\ cmd.step \in Nat
    BY <1>1, PlanTypes, Guards DEF Inv, CmdOK
  <2>4. QED
    BY <1>1, <2>2, <2>3
<1>3. ~(Item = "eventStack" /\ ~FullyMaterialized)
  BY <1>1, StackMaterializes DEF AlreadyPrepared
<1>4. cmd' = [cmd EXCEPT !.item = cmd.item + 1, !.step = 1]
  BY <1>3 DEF NextItem
<1>5. QED
  BY <1>1, <1>2, <1>4 DEF Advances

\* What a kill leaves.
LEMMA KillCases ==
    ASSUME Inv, Kill
    PROVE  Stops \/ \E f \in Files : Tears(f)
<1>1. cmd.status = "running" /\ cmd' = [cmd EXCEPT !.status = "killed"]
  BY DEF Kill
<1>2. CASE UNCHANGED tree
  BY <1>1, <1>2 DEF Stops
<1>3. CASE /\ AtStep /\ Item # "rsync" /\ ~AlreadyPrepared
           /\ tree' = [tree EXCEPT ![Step.edit.file] = Torn]
  <2>1. /\ <<cmd.item, cmd.step>> \in Slots(cmd.name) /\ cmd.name \in DOMAIN Plan
        /\ Step = Slot(cmd.name, cmd.item, cmd.step)
    BY <1>3, AtSlot, PlanTypes DEF Inv
  <2>2. Step.edit.file \in Files
    BY <2>1, SlotTypes
  <2>3. tree = [g \in Files |-> tree[g]]
    BY DEF Inv, TreeOK
  <2>4. tree' = [g \in Files |-> IF g = Step.edit.file THEN Torn ELSE tree[g]]
    BY <1>3, <2>2, <2>3
  <2>5. Tears(Step.edit.file)
    BY <1>1, <1>3, <2>1, <2>2, <2>4 DEF Tears
  <2>6. QED
    BY <2>2, <2>5
<1>4. QED
  BY <1>2, <1>3 DEF Kill

\* The steps, as the invariants need them.
LEMMA StepCases ==
    ASSUME Inv, [Next]_vars
    PROVE  \/ Begin \/ CopyFile \/ Advances \/ Finish \/ Stops \/ UNCHANGED vars
           \/ \E f \in Files : Tears(f)
           \/ \E f \in Files : \E k \in In(f) : Passes(f, k)
BY PatchFileCases, NextItemCases, KillCases DEF Next

-----------------------------------------------------------------------------
(* The order of the slots *)

\* The text of the slot at (i, j) has been removed behind the slot that removes it.
LEMMA UndoneNow ==
    ASSUME NEW name \in DOMAIN Plan, NEW p \in Slots(name), NEW q \in Slots(name),
           Before(p[1], p[2], q[1], q[2]),
           Slot(name, p[1], p[2]).edit.file = Slot(name, q[1], q[2]).edit.file,
           Slot(name, p[1], p[2]).by \in Slot(name, q[1], q[2]).edit.undoes
    PROVE  Undone(name, p[1], p[2], q[1], q[2] + 1)
<1>1. Size(Plan[name][q[1]]) = 1
  BY SlotRule
<1>2. q[2] = 1 /\ q[1] \in 1 .. Items(name) /\ q[1] \in Nat /\ Plan[name][q[1]] # "rsync"
  BY <1>1, SlotTypes
<1>3. p[1] < q[1]
  BY <1>2, SlotTypes DEF Before
<1>4. Before(q[1], 1, q[1], q[2] + 1)
  BY <1>2 DEF Before
<1>5. QED
  BY <1>2, <1>3, <1>4 DEF Undone

\* A slot's text is not removed but by the slot the command has just passed.
LEMMA UndoneStep ==
    ASSUME NEW name \in DOMAIN Plan, NEW p \in Slots(name), NEW q \in Slots(name)
    PROVE  /\ Undone(name, p[1], p[2], q[1], q[2]) => Undone(name, p[1], p[2], q[1], q[2] + 1)
           /\ Undone(name, p[1], p[2], q[1], q[2] + 1)
                => \/ Undone(name, p[1], p[2], q[1], q[2])
                   \/ /\ Slot(name, q[1], q[2]).edit.file = Slot(name, p[1], p[2]).edit.file
                      /\ Slot(name, p[1], p[2]).by \in Slot(name, q[1], q[2]).edit.undoes
<1>1. q[1] \in Nat /\ q[2] \in Nat \ {0} /\ Items(name) \in Nat
  BY SlotTypes, PlanRule
<1>2. ASSUME NEW u \in 1 .. Items(name)
      PROVE  /\ Before(u, 1, q[1], q[2]) => Before(u, 1, q[1], q[2] + 1)
             /\ Before(u, 1, q[1], q[2] + 1) => \/ Before(u, 1, q[1], q[2])
                                                \/ u = q[1] /\ q[2] = 1
  BY <1>1 DEF Before
<1>3. QED
  BY <1>2 DEF Undone

\* A slot's own text is there when it has just been passed.
LEMMA UndoneSelf ==
    ASSUME NEW name \in DOMAIN Plan, NEW q \in Slots(name)
    PROVE  ~Undone(name, q[1], q[2], q[1], q[2] + 1)
<1>1. q[1] \in Nat /\ q[2] \in Nat /\ Items(name) \in Nat
  BY SlotTypes, PlanRule
<1>2. \A u \in 1 .. Items(name) : ~(q[1] < u /\ Before(u, 1, q[1], q[2] + 1))
  BY <1>1 DEF Before
<1>3. QED
  BY <1>2 DEF Undone

\* The slots of the event stack.
LEMMA StackSlots ==
    ASSUME NEW name \in DOMAIN Plan, NEW m \in 1 .. Items(name),
           Plan[name][m] = "eventStack", NEW n \in 1 .. 10
    PROVE  /\ <<m, n>> \in Slots(name)
           /\ Slot(name, m, n) = Steps("eventStack")[n]
           /\ Slot(name, m, n).edit.undoes = {}
<1>1. Size("eventStack") = 10
  BY StackRule
<1>2. <<m, n>> \in Slots(name)
  BY <1>1 DEF Slots
<1>3. Slot(name, m, n) = Steps("eventStack")[n]
  BY DEF Slot
<1>4. Slot(name, m, n).edit.undoes # {} => Size(Plan[name][m]) = 1
  <2> DEFINE q == <<m, n>>
  <2>1. Slot(name, q[1], q[2]).edit.undoes # {} => Size(Plan[name][q[1]]) = 1
    BY <1>2, SlotRule
  <2>2. q[1] = m /\ q[2] = n
    OBVIOUS
  <2>3. QED
    BY <2>1, <2>2
<1>5. QED
  BY <1>1, <1>2, <1>3, <1>4

\* Going on to the next item removes nothing.
LEMMA UndoneAdvance ==
    ASSUME CmdOK, Advances, NEW p \in Slots(cmd.name)
    PROVE  Undone(cmd.name, p[1], p[2], cmd.item + 1, 1)
             <=> Undone(cmd.name, p[1], p[2], cmd.item, cmd.step)
<1>1. /\ cmd.name \in DOMAIN Plan /\ cmd.item \in Nat \ {0} /\ cmd.step \in Nat \ {0}
      /\ Items(cmd.name) \in Nat /\ cmd.item \in 1 .. Items(cmd.name)
  BY PlanTypes, Guards DEF Advances
<1>2. CASE AlreadyPrepared
  <2>1. cmd.step = 1 /\ Plan[cmd.name][cmd.item] = "eventStack"
    BY <1>2 DEF AlreadyPrepared, Item
  <2>2. Slot(cmd.name, cmd.item, 1).edit.undoes = {}
    BY <1>1, <2>1, 1 \in 1 .. 10, StackSlots
  <2>3. \A u \in 1 .. Items(cmd.name) :
            Before(u, 1, cmd.item + 1, 1)
                <=> Before(u, 1, cmd.item, cmd.step) \/ u = cmd.item
    BY <1>1, <2>1 DEF Before
  <2>4. QED
    BY <2>2, <2>3 DEF Undone
<1>3. CASE cmd.step = Size(Item) + 1
  <2>1. Size(Item) \in 1 .. 19
    BY <1>1, ItemTypes DEF Item
  <2>2. \A u \in 1 .. Items(cmd.name) :
            Before(u, 1, cmd.item + 1, 1) <=> Before(u, 1, cmd.item, cmd.step)
    BY <1>1, <1>3, <2>1 DEF Before
  <2>3. QED
    BY <2>2 DEF Undone
<1>4. QED
  BY <1>2, <1>3 DEF Advances

\* What a command has passed when it goes on to the next item: what it had, and, when
\* it skips the event stack, all of that.
LEMMA PassedAdvance ==
    ASSUME CmdOK, Advances, NEW p \in Slots(cmd.name)
    PROVE  Before(p[1], p[2], cmd.item + 1, 1)
             <=> \/ Before(p[1], p[2], cmd.item, cmd.step)
                 \/ AlreadyPrepared /\ p[1] = cmd.item
<1>1. /\ cmd.name \in DOMAIN Plan /\ cmd.item \in Nat \ {0} /\ cmd.step \in Nat \ {0}
      /\ cmd.item \in 1 .. Items(cmd.name)
  BY PlanTypes, Guards DEF Advances
<1>2. p[1] \in Nat /\ p[2] \in Nat \ {0} /\ p[2] \in 1 .. Size(Plan[cmd.name][p[1]])
  BY <1>1, SlotTypes
<1>3. Size(Item) \in 1 .. 19
  BY <1>1, ItemTypes DEF Item
<1>4. CASE AlreadyPrepared
  BY <1>1, <1>2, <1>4 DEF AlreadyPrepared, Before
<1>5. CASE ~AlreadyPrepared
  <2>1. cmd.step = Size(Item) + 1
    BY <1>5 DEF Advances
  <2>2. p[1] = cmd.item => p[2] \in 1 .. Size(Item)
    BY <1>2 DEF Item
  <2>3. QED
    BY <1>1, <1>2, <1>3, <1>5, <2>1, <2>2 DEF Before
<1>6. QED
  BY <1>4, <1>5

-----------------------------------------------------------------------------
(* What a step leaves of the files and of the command *)

\* The file that a patch function passes, and the others.
LEMMA PassesFile ==
    ASSUME TreeOK, NEW f \in Files, NEW k \in In(f), Passes(f, k)
    PROVE  /\ \A g \in Files \ {f} : tree'[g] = tree[g]
           /\ FileOK(f, tree[f]) /\ FileOK(f, tree'[f])
           /\ ~tree[f].torn /\ ~tree'[f].torn
           /\ tree'[f].done = (tree[f].done \ EditsIn[f][k].undoes) \cup {k}
           /\ \/ tree'[f].twice = tree[f].twice
              \/ /\ tree'[f].twice = tree[f].twice \cup {k}
                 /\ EditsIn[f][k].anchored /\ k \in tree[f].stale
           /\ k \in tree'[f].twice \/ ~Rewritten(f, k, tree'[f].done)
           /\ Outcome(k, EditsIn[f][k], tree'[f]) = "kept"
           /\ f # "client" => EditsIn[f][k].undoes = {}
<1>1. FileOK(f, tree[f])
  BY DEF TreeOK
<1>2. tree'[f] = Patched(k, EditsIn[f][k], tree[f])
  BY DEF Passes
<1>3. \A g \in Files \ {f} : tree'[g] = tree[g]
  BY DEF Passes
<1>4. Outcome(k, EditsIn[f][k], tree[f]) # "refused"
  BY DEF Passes
<1>5. FileOK(f, tree'[f])
  BY <1>1, <1>2, <1>4, PatchedOK
<1>6. Outcome(k, EditsIn[f][k], tree'[f]) = "kept"
  BY <1>1, <1>2, <1>4, PatchedKept
<1>7. k \in tree'[f].twice \/ ~Rewritten(f, k, tree'[f].done)
  BY <1>1, <1>2, <1>4, PatchedLast
<1>8. f # "client" => EditsIn[f][k].undoes = {}
  BY UndoRule
<1>9. /\ ~tree[f].torn /\ ~tree'[f].torn
      /\ tree'[f].done = (tree[f].done \ EditsIn[f][k].undoes) \cup {k}
      /\ \/ tree'[f].twice = tree[f].twice
         \/ /\ tree'[f].twice = tree[f].twice \cup {k}
            /\ EditsIn[f][k].anchored /\ k \in tree[f].stale
  BY <1>1, <1>2, <1>4, PatchedDone
<1>10. QED
  BY <1>1, <1>3, <1>5, <1>6, <1>7, <1>8, <1>9

\* Where the command is then.
LEMMA PassesCmd ==
    ASSUME CmdOK, NEW f \in Files, NEW k \in In(f), Passes(f, k)
    PROVE  /\ cmd'.name = cmd.name /\ cmd'.from = cmd.from /\ cmd'.item = cmd.item
           /\ cmd'.step = cmd.step + 1 /\ cmd'.status = "running" /\ cmd.status = "running"
           /\ cmd.item \in 1 .. Items(cmd.name) /\ Item' = Item
           /\ cmd.step <= Size(Item)
           /\ Item # "rsync" /\ (Item = "eventStack" <=> Plan[cmd.name][cmd.item] = "eventStack")
<1>1. /\ cmd' = [cmd EXCEPT !.step = cmd.step + 1] /\ AtStep /\ Item # "rsync"
  BY DEF Passes
<1>2. cmd.status = "running" /\ cmd.item <= Items(cmd.name) /\ cmd.step <= Size(Item)
  BY <1>1, Guards
<1>3. /\ cmd'.name = cmd.name /\ cmd'.from = cmd.from /\ cmd'.item = cmd.item
      /\ cmd'.step = cmd.step + 1 /\ cmd'.status = cmd.status
  BY <1>1 DEF CmdOK
<1>4. cmd.item \in 1 .. Items(cmd.name)
  BY <1>2, PlanTypes
<1>5. Item' = Item
  BY <1>3 DEF Item
<1>6. QED
  BY <1>1, <1>2, <1>3, <1>4, <1>5 DEF Item

\* Where the command is on its next item.
LEMMA AdvancesCmd ==
    ASSUME CmdOK, Advances
    PROVE  /\ cmd'.name = cmd.name /\ cmd'.from = cmd.from /\ cmd'.item = cmd.item + 1
           /\ cmd'.step = 1 /\ cmd'.status = "running" /\ cmd.status = "running"
           /\ tree' = tree /\ cmd.item \in 1 .. Items(cmd.name)
           /\ ~AlreadyPrepared => cmd.step = Size(Item) + 1 /\ Size(Item) \in 1 .. 19
           /\ AlreadyPrepared => cmd.step = 1 /\ Plan[cmd.name][cmd.item] = "eventStack"
<1>1. /\ cmd' = [cmd EXCEPT !.item = cmd.item + 1, !.step = 1] /\ Running /\ tree' = tree
  BY DEF Advances
<1>2. cmd.status = "running" /\ cmd.item <= Items(cmd.name)
  BY <1>1, Guards
<1>3. /\ cmd'.name = cmd.name /\ cmd'.from = cmd.from /\ cmd'.item = cmd.item + 1
      /\ cmd'.step = 1 /\ cmd'.status = cmd.status
  BY <1>1 DEF CmdOK
<1>4. cmd.item \in 1 .. Items(cmd.name) /\ cmd.name \in DOMAIN Plan
  BY <1>2, PlanTypes
<1>5. Size(Item) \in 1 .. 19
  BY <1>4, ItemTypes DEF Item
<1>6. /\ ~AlreadyPrepared => cmd.step = Size(Item) + 1
      /\ AlreadyPrepared => cmd.step = 1 /\ Plan[cmd.name][cmd.item] = "eventStack"
  BY DEF Advances, AlreadyPrepared, Item
<1>7. QED
  BY <1>1, <1>2, <1>3, <1>4, <1>5, <1>6

\* A new command is at its first step.
LEMMA BeginCmd ==
    ASSUME Begin
    PROVE  /\ cmd' \in [name : DOMAIN Plan, from : Sources, item : {1}, step : {1},
                        status : {"running"}]
           /\ tree' = tree
BY DEF Begin

\* A stopped or torn command is not alive.
LEMMA StopsCmd ==
    ASSUME CmdOK, Stops \/ \E f \in Files : Tears(f)
    PROVE  /\ ~Alive' /\ cmd'.status \in {"failed", "killed"}
           /\ cmd'.name = cmd.name /\ cmd'.from = cmd.from
           /\ cmd'.item = cmd.item /\ cmd'.step = cmd.step
BY DEF Stops, Tears, Alive, CmdOK

\* rsync has copied one more file.
LEMMA CopyCmd ==
    ASSUME CmdOK, CopyFile
    PROVE  /\ cmd'.name = cmd.name /\ cmd'.from = cmd.from /\ cmd'.item = cmd.item
           /\ cmd'.step = cmd.step + 1 /\ cmd'.status = "running" /\ cmd.status = "running"
           /\ Item = "rsync" /\ cmd.item = 1 /\ cmd.name # "check" /\ cmd.step \in 1 .. 19
           /\ Step = Steps("rsync")[cmd.step] /\ Item' = "rsync" /\ cmd.item <= Items(cmd.name)
<1>1. /\ cmd' = [cmd EXCEPT !.step = cmd.step + 1] /\ AtStep /\ Item = "rsync"
  BY DEF CopyFile
<1>2. cmd.status = "running" /\ cmd.item <= Items(cmd.name) /\ cmd.step <= Size(Item)
  BY <1>1, Guards
<1>3. /\ cmd'.name = cmd.name /\ cmd'.from = cmd.from /\ cmd'.item = cmd.item
      /\ cmd'.step = cmd.step + 1 /\ cmd'.status = cmd.status
  BY <1>1 DEF CmdOK
<1>4. cmd.item \in 1 .. Items(cmd.name) /\ cmd.name \in DOMAIN Plan /\ cmd.step \in Nat \ {0}
  BY <1>2, PlanTypes
<1>5. cmd.name # "check" /\ cmd.item = 1
  BY <1>1, <1>4, ItemTypes DEF Item
<1>6. Item' = Item
  BY <1>3 DEF Item
<1>7. cmd.step \in 1 .. 19
  BY <1>1, <1>2, <1>4, CopyRule
<1>8. Step = Steps("rsync")[cmd.step]
  BY <1>1 DEF Step
<1>9. QED
  BY <1>1, <1>2, <1>3, <1>5, <1>6, <1>7, <1>8

-----------------------------------------------------------------------------
(* The command keeps to its plan, and the files to their rules *)

\* An action that moves the command within its plan keeps its types.
LEMMA CmdMoves ==
    ASSUME CmdOK, NEW i \in Nat \ {0}, NEW j \in Nat \ {0},
           NEW status \in {"running", "ok", "failed", "killed"},
           i <= Items(cmd.name) + 1,
           i <= Items(cmd.name) => j <= Size(Plan[cmd.name][i]) + 1,
           i > Items(cmd.name) => j = 1,
           status = "ok" => i > Items(cmd.name),
           cmd' = [cmd EXCEPT !.item = i, !.step = j, !.status = status]
    PROVE  CmdOK'
<1>1. /\ cmd'.name = cmd.name /\ cmd'.from = cmd.from /\ cmd'.item = i /\ cmd'.step = j
      /\ cmd'.status = status
      /\ cmd' \in [name : DOMAIN Plan, from : {"fresh", "prepared", "itself"},
                   item : Nat \ {0}, step : Nat \ {0},
                   status : {"running", "ok", "failed", "killed"}]
  BY DEF CmdOK
<1>2. Item' = Plan[cmd.name][i]
  BY <1>1 DEF Item
<1>3. QED
  BY <1>1, <1>2 DEF CmdOK

\* The command keeps to its plan.
LEMMA CmdOKKept ==
    ASSUME Inv, [Next]_vars
    PROVE  CmdOK'
<1>0. CmdOK
  BY DEF Inv
<1>1. /\ cmd.name \in DOMAIN Plan /\ cmd.item \in Nat \ {0} /\ cmd.step \in Nat \ {0}
      /\ Items(cmd.name) \in Nat /\ cmd.item <= Items(cmd.name) + 1
      /\ cmd.item <= Items(cmd.name) => cmd.step <= Size(Plan[cmd.name][cmd.item]) + 1
      /\ cmd.item > Items(cmd.name) => cmd.step = 1
      /\ Item = Plan[cmd.name][cmd.item]
  BY <1>0, PlanTypes DEF CmdOK, Item
<1>2. \A i \in Nat \ {0} : i <= Items(cmd.name) => Size(Plan[cmd.name][i]) \in 1 .. 19
  <2>1. \A i \in Nat \ {0} : i <= Items(cmd.name) => i \in 1 .. Items(cmd.name)
    BY <1>1
  <2>2. QED
    BY <1>1, <2>1, ItemTypes
<1>3. CASE Begin
  <2>1. /\ cmd' \in [name : DOMAIN Plan, from : Sources, item : {1}, step : {1},
                     status : {"running"}]
    BY <1>3, BeginCmd
  <2>2. Items(cmd'.name) \in Nat /\ Items(cmd'.name) >= 1
    BY <2>1, PlanRule DEF Start
  <2>3. Size(Plan[cmd'.name][1]) \in 1 .. 19
    BY <2>1, <2>2, ItemTypes
  <2>4. cmd'.item = 1 /\ cmd'.step = 1 /\ cmd'.status = "running" /\ Item' = Plan[cmd'.name][1]
    BY <2>1 DEF Item
  <2>5. cmd' \in [name : DOMAIN Plan, from : {"fresh", "prepared", "itself"},
                  item : Nat \ {0}, step : Nat \ {0},
                  status : {"running", "ok", "failed", "killed"}]
    <3>1. PICK name \in DOMAIN Plan, from \in DOMAIN Plan \cup Sources :
            /\ from \in {"fresh", "prepared", "itself"}
            /\ cmd' = [name |-> name, from |-> from, item |-> 1, step |-> 1,
                       status |-> "running"]
      BY <1>3, PipelineAssumption DEF Begin
    <3>2. QED
      BY <3>1
  <2>6. QED
    BY <2>2, <2>3, <2>4, <2>5 DEF CmdOK
<1>4. CASE CopyFile
  <2>1. cmd' = [cmd EXCEPT !.item = cmd.item, !.step = cmd.step + 1, !.status = "running"]
    BY <1>0, <1>1, <1>4, CopyCmd DEF CopyFile, CmdOK
  <2>2. cmd.item <= Items(cmd.name) /\ cmd.step <= 19 /\ Plan[cmd.name][cmd.item] = "rsync"
    BY <1>0, <1>4, CopyCmd DEF Item
  <2>3. cmd.step + 1 <= Size(Plan[cmd.name][cmd.item]) + 1 /\ cmd.step + 1 \in Nat \ {0}
    BY <1>1, <2>2, CopyRule
  <2>4. QED
    <3>1. cmd.item <= Items(cmd.name) + 1 /\ ~(cmd.item > Items(cmd.name))
      BY <1>1, <2>2
    <3>2. QED
      BY <1>0, <1>1, <2>1, <2>3, <3>1, CmdMoves
<1>5. ASSUME NEW f \in Files, NEW k \in In(f), Passes(f, k)
      PROVE  CmdOK'
  <2>1. cmd' = [cmd EXCEPT !.item = cmd.item, !.step = cmd.step + 1, !.status = "running"]
    BY <1>0, <1>5, PassesCmd DEF Passes, CmdOK
  <2>2. cmd.item <= Items(cmd.name) /\ cmd.step <= Size(Plan[cmd.name][cmd.item])
    BY <1>0, <1>1, <1>5, PassesCmd DEF Item
  <2>3. cmd.step + 1 <= Size(Plan[cmd.name][cmd.item]) + 1 /\ cmd.step + 1 \in Nat \ {0}
    BY <1>1, <1>2, <2>2
  <2>4. QED
    <3>1. cmd.item <= Items(cmd.name) + 1 /\ ~(cmd.item > Items(cmd.name))
      BY <1>1, <2>2
    <3>2. QED
      BY <1>0, <1>1, <2>1, <2>3, <3>1, CmdMoves
<1>6. CASE Advances
  <2>1. cmd' = [cmd EXCEPT !.item = cmd.item + 1, !.step = 1, !.status = "running"]
    BY <1>0, <1>6, AdvancesCmd DEF Advances, CmdOK
  <2>2. cmd.item <= Items(cmd.name)
    BY <1>0, <1>6, AdvancesCmd
  <2>3. /\ cmd.item + 1 \in Nat \ {0}
        /\ cmd.item + 1 <= Items(cmd.name) => 1 <= Size(Plan[cmd.name][cmd.item + 1]) + 1
        /\ cmd.item + 1 <= Items(cmd.name) + 1
    BY <1>1, <1>2, <2>2
  <2>4. PICK i \in Nat \ {0} : i = cmd.item + 1
    BY <2>3
  <2>5. PICK j \in Nat \ {0} : j = 1
    OBVIOUS
  <2>6. cmd' = [cmd EXCEPT !.item = i, !.step = j, !.status = "running"]
    BY <2>1, <2>4, <2>5
  <2>7. /\ i <= Items(cmd.name) + 1
        /\ i <= Items(cmd.name) => j <= Size(Plan[cmd.name][i]) + 1
    BY <2>3, <2>4, <2>5
  <2>8. QED
    BY <1>0, <2>5, <2>6, <2>7, CmdMoves
<1>7. ASSUME NEW status \in {"ok", "failed", "killed"},
             cmd' = [cmd EXCEPT !.status = status],
             status = "ok" => cmd.item > Items(cmd.name)
      PROVE  CmdOK'
  <2>1. cmd' = [cmd EXCEPT !.item = cmd.item, !.step = cmd.step, !.status = status]
    BY <1>0, <1>7 DEF CmdOK
  <2>2. QED
    BY <1>0, <1>1, <1>7, <2>1, CmdMoves
<1>8. CASE Finish
  BY <1>7, <1>8, Guards
<1>9. CASE Stops \/ \E f \in Files : Tears(f)
  BY <1>7, <1>9 DEF Stops, Tears
<1>10. CASE UNCHANGED vars
  BY <1>0, <1>10 DEF vars, CmdOK, Item
<1>11. QED
  BY <1>3, <1>4, <1>5, <1>6, <1>8, <1>9, <1>10, StepCases

\* Every file stays one that the scripts can have made.
LEMMA TreeOKKept ==
    ASSUME Inv, [Next]_vars
    PROVE  TreeOK'
<1>0. CmdOK /\ TreeOK
  BY DEF Inv
<1>1. CASE UNCHANGED tree
  BY <1>0, <1>1 DEF TreeOK
<1>2. ASSUME NEW f \in Files, NEW t, FileOK(f, t),
             tree' = [g \in Files |-> IF g = f THEN t ELSE tree[g]]
      PROVE  TreeOK'
  <2>1. tree' = [g \in Files |-> tree'[g]]
    BY <1>2
  <2>2. \A g \in Files : FileOK(g, tree'[g])
    BY <1>0, <1>2 DEF TreeOK
  <2>3. QED
    BY <2>1, <2>2 DEF TreeOK
<1>3. CASE CopyFile
  <2>1. PICK t : /\ tree' = [tree EXCEPT ![Step.edit.file] = t]
                 /\ t \in {Fresh, Prepared[Step.edit.file], tree[Step.edit.file]}
    <3>1. cmd.from \in {"fresh", "prepared", "itself"}
      BY <1>0 DEF CmdOK
    <3>2. QED
      BY <1>3, <3>1 DEF CopyFile
  <2>2. Step.edit.file \in Files
    BY <1>0, <1>3, CopyCmd, CopyRule
  <2>3. FileOK(Step.edit.file, t)
    BY <1>0, <2>1, <2>2, FreshOK, PreparedRule DEF TreeOK
  <2>4. tree' = [g \in Files |-> IF g = Step.edit.file THEN t ELSE tree[g]]
    BY <1>0, <2>1, <2>2 DEF TreeOK
  <2>5. QED
    BY <1>2, <2>2, <2>3, <2>4
<1>4. ASSUME NEW f \in Files, NEW k \in In(f), Passes(f, k)
      PROVE  TreeOK'
  <2>1. FileOK(f, tree'[f])
    BY <1>0, <1>4, PassesFile
  <2>2. tree' = [g \in Files |-> IF g = f THEN tree'[f] ELSE tree[g]]
    BY <1>4 DEF Passes
  <2>3. QED
    BY <1>2, <2>1, <2>2
<1>5. ASSUME NEW f \in Files, Tears(f)
      PROVE  TreeOK'
  BY <1>2, <1>5, FreshOK DEF Tears
<1>6. QED
  BY <1>1, <1>3, <1>4, <1>5, StepCases DEF Begin, Advances, Finish, Stops, vars

-----------------------------------------------------------------------------
(* What a command has passed is in the files *)

\* An edit that removes nothing, and where that is known.
LEMMA NothingUndone ==
    ASSUME NEW name \in DOMAIN Plan, NEW p \in Slots(name), NEW i, NEW j,
           Slot(name, p[1], p[2]).edit.file # "client"
    PROVE  ~Undone(name, p[1], p[2], i, j)
<1>1. ASSUME NEW u \in 1 .. Items(name), Plan[name][u] # "rsync",
             Slot(name, u, 1).edit.file = Slot(name, p[1], p[2]).edit.file
      PROVE  Slot(name, u, 1).edit.undoes = {}
  <2>1. Size(Plan[name][u]) \in 1 .. 19
    BY ItemTypes
  <2>2. <<u, 1>> \in Slots(name)
    BY <1>1, <2>1 DEF Slots
  <2>3. /\ Slot(name, u, 1).edit.file \in Files
        /\ Slot(name, u, 1).by \in In(Slot(name, u, 1).edit.file)
        /\ Slot(name, u, 1).edit = EditsIn[Slot(name, u, 1).edit.file][Slot(name, u, 1).by]
    <3> DEFINE q == <<u, 1>>
    <3>1. q \in Slots(name) /\ q[1] = u /\ q[2] = 1
      BY <2>2
    <3>2. QED
      BY <3>1, SlotTypes
  <2>4. QED
    BY <1>1, <2>3, UndoRule
<1>2. QED
  BY <1>1 DEF Undone

\* What a passed slot has left in a file from which nothing is removed.
LEMMA HasDone ==
    ASSUME CmdOK, PassedInFile, Alive, NEW p \in Slots(cmd.name), Must(p),
           Slot(cmd.name, p[1], p[2]).edit.file # "client"
    PROVE  /\ Slot(cmd.name, p[1], p[2]).by \in tree[Slot(cmd.name, p[1], p[2]).edit.file].done
           /\ ~tree[Slot(cmd.name, p[1], p[2]).edit.file].torn
<1>1. cmd.name \in DOMAIN Plan
  BY PlanTypes
<1>2. Has(p)
  BY DEF PassedInFile
<1>3. ~Undone(cmd.name, p[1], p[2], cmd.item, cmd.step)
  BY <1>1, NothingUndone
<1>4. QED
  BY <1>2, <1>3 DEF Has

\* Where the event stack is skipped, all its edits are in their files: its four markers
\* say so of three scripts' files, and what the command has passed of the others.
LEMMA SkipDone ==
    ASSUME Inv, Running, AlreadyPrepared, FromClean \/ cmd.item > Start[cmd.name]
    PROVE  \A n \in 1 .. 10 :
               Steps("eventStack")[n].by \in tree[Steps("eventStack")[n].edit.file].done
<1>0. CmdOK /\ TreeOK /\ PassedInFile /\ StackOK /\ CleanTree
  BY DEF Inv
<1>1. /\ Item = "eventStack" /\ cmd.step = 1 /\ FullyMaterialized
      /\ Plan[cmd.name][cmd.item] = "eventStack"
  BY DEF AlreadyPrepared, Item
<1>2. /\ cmd.name \in DOMAIN Plan /\ Start[cmd.name] \in {0, 1, 3}
      /\ cmd.item \in 1 .. Items(cmd.name) /\ Items(cmd.name) \in Nat
      /\ cmd.item \in Nat /\ Alive
      /\ cmd.name = "update" <=> Start[cmd.name] = 3
  BY <1>0, PlanTypes, Guards DEF Alive
<1>3. Backfilled
  BY <1>1 DEF FullyMaterialized, Backfilled
<1>4. cmd.item = Start[cmd.name] + 18
  <2>1. SUFFICES ASSUME cmd.name = "update", cmd.item = 3
                 PROVE  FALSE
    BY <1>1, <1>2, ItemTypes
  <2>2. FromClean
    BY <1>2, <2>1
  <2>3. "backfill" \in Clean(cmd.name, "config", 3, 1)
    BY <1>0, <1>1, <1>2, <1>3, <2>1, <2>2, CopyRule DEF CleanTree, Backfilled
  <2>4. PICK p \in Slots(cmd.name) :
            Before(p[1], p[2], 3, 1) /\ Slot(cmd.name, p[1], p[2]).by = "backfill"
    BY <2>3 DEF Clean
  <2>5. Plan[cmd.name][p[1]] = "eventStack"
    BY <1>2, <2>4, ScriptRule
  <2>6. p[1] = 3 \/ p[1] = 21
    BY <1>2, <2>1, <2>5, SlotTypes, ItemTypes
  <2>7. p[2] \in Nat \ {0}
    BY <1>2, SlotTypes
  <2>8. QED
    BY <2>4, <2>6, <2>7 DEF Before
<1>5. Reconciled
  <2>1. InPass /\ ~Before(Start[cmd.name] + 18, 1, cmd.item, cmd.step)
    BY <1>1, <1>2, <1>4 DEF InPass, Before
  <2>2. QED
    BY <1>0, <1>3, <2>1 DEF StackOK, SkipOK
<1>6. ~tree["deviceRuntime"].torn
  <2> DEFINE p == <<Start[cmd.name] + 14, 3>>
  <2>1. p \in Slots(cmd.name) /\ Slot(cmd.name, p[1], p[2]).edit.file = "deviceRuntime"
    BY <1>2, PlaceRule
  <2>2. Must(p)
    BY <1>1, <1>2, <1>4 DEF Must, Before
  <2>3. QED
    BY <1>0, <1>2, <2>1, <2>2, HasDone
<1>7. ASSUME NEW f \in {"config", "eventStore", "eventCollector"}
      PROVE  "backfill" \in tree[f].done /\ "reconciliation" \in tree[f].done
  <2>1. f \in Files /\ "reconciliation" \in EditsIn[f]["backfill"].needs
    BY <1>7, StackRule
  <2>2. "backfill" \in tree[f].done
    BY <1>1, <1>7 DEF FullyMaterialized
  <2>3. FileOK(f, tree[f])
    BY <1>0, <2>1 DEF TreeOK
  <2>4. QED
    BY <2>1, <2>2, <2>3 DEF FileOK
<1>8. "reconciliation" \in tree["deviceWorker"].done
  BY <1>1 DEF FullyMaterialized
<1>9. QED
  BY <1>5, <1>6, <1>7, <1>8, StackRule DEF Reconciled, StackSlot

\* Every slot that a live command has passed is in its file.
LEMMA PassedInFileKept ==
    ASSUME Inv, [Next]_vars
    PROVE  PassedInFile'
<1>0. CmdOK /\ TreeOK /\ PassedInFile
  BY DEF Inv
<1>1. CASE Begin
  <2>1. cmd'.item = 1 /\ cmd'.step = 1 /\ cmd'.name \in DOMAIN Plan
    BY <1>1, BeginCmd
  <2>2. \A p \in Slots(cmd'.name) : ~Before(p[1], p[2], 1, 1)
    BY <2>1, SlotTypes DEF Before
  <2>3. QED
    BY <2>1, <2>2 DEF PassedInFile, Must
<1>2. CASE CopyFile
  <2>1. cmd'.item = 1 /\ cmd'.name = cmd.name /\ Plan[cmd.name][1] = "rsync"
    BY <1>0, <1>2, CopyCmd DEF Item
  <2>2. \A p \in Slots(cmd.name) : p[1] # 1 /\ p[1] \in Nat \ {0}
    BY <1>0, <2>1, PlanTypes, SlotTypes
  <2>3. \A p \in Slots(cmd.name) : ~Before(p[1], p[2], 1, cmd'.step)
    BY <2>2 DEF Before
  <2>4. QED
    BY <2>1, <2>3 DEF PassedInFile, Must
<1>3. ASSUME NEW f \in Files, NEW k \in In(f), Passes(f, k)
      PROVE  PassedInFile'
  <2> DEFINE q == <<cmd.item, cmd.step>>
  <2>1. /\ cmd'.name = cmd.name /\ cmd'.from = cmd.from /\ cmd'.item = cmd.item
        /\ cmd'.step = cmd.step + 1 /\ cmd.status = "running"
        /\ cmd.name \in DOMAIN Plan /\ cmd.item \in Nat /\ cmd.step \in Nat
    BY <1>0, <1>3, PassesCmd, PlanTypes
  <2>2. /\ q \in Slots(cmd.name) /\ q[1] = cmd.item /\ q[2] = cmd.step
        /\ Slot(cmd.name, q[1], q[2]).by = k
        /\ Slot(cmd.name, q[1], q[2]).edit.file = f
        /\ Slot(cmd.name, q[1], q[2]).edit = EditsIn[f][k]
    BY <1>3 DEF Passes
  <2>3. /\ \A g \in Files \ {f} : tree'[g] = tree[g]
        /\ ~tree'[f].torn
        /\ tree'[f].done = (tree[f].done \ EditsIn[f][k].undoes) \cup {k}
    BY <1>0, <1>3, PassesFile
  <2>4. ASSUME NEW p \in Slots(cmd.name), Must(p)'
        PROVE  Has(p)'
    <3> DEFINE s == Slot(cmd.name, p[1], p[2])
    <3>1. /\ s.edit.file \in Files /\ p = <<p[1], p[2]>>
          /\ p[1] \in Nat /\ p[2] \in Nat
      BY <2>1, SlotTypes
    <3>2. Undone(cmd.name, p[1], p[2], cmd.item, cmd.step)
            => Undone(cmd.name, p[1], p[2], cmd.item, cmd.step + 1)
      BY <2>1, <2>2, UndoneStep
    <3>3. CASE p[1] = cmd.item /\ p[2] = cmd.step
      BY <2>1, <2>2, <2>3, <3>3 DEF Has
    <3>4. CASE ~(p[1] = cmd.item /\ p[2] = cmd.step)
      <4>1. Before(p[1], p[2], cmd.item, cmd.step)
        BY <2>1, <2>4, <3>1, <3>4 DEF Must, Before
      <4>2. Must(p)
        BY <2>1, <2>4, <4>1 DEF Must, FromClean
      <4>3. Has(p)
        BY <1>0, <2>1, <4>2 DEF PassedInFile, Alive
      <4>4. CASE s.edit.file # f
        BY <2>1, <2>3, <3>1, <3>2, <4>3, <4>4 DEF Has
      <4>5. CASE s.edit.file = f
        <5>1. CASE s.by \in EditsIn[f][k].undoes
          <6>1. Undone(cmd.name, p[1], p[2], cmd.item, cmd.step + 1)
            BY <2>1, <2>2, <4>1, <4>5, <5>1, UndoneNow
          <6>2. QED
            BY <2>1, <2>3, <4>5, <6>1 DEF Has
        <5>2. CASE s.by \notin EditsIn[f][k].undoes
          BY <2>1, <2>3, <3>2, <4>3, <4>5, <5>2 DEF Has
        <5>3. QED
          BY <5>1, <5>2
      <4>6. QED
        BY <4>4, <4>5
    <3>5. QED
      BY <3>3, <3>4
  <2>5. QED
    BY <2>1, <2>4 DEF PassedInFile
<1>4. CASE Advances
  <2>1. /\ cmd'.name = cmd.name /\ cmd'.from = cmd.from /\ cmd'.item = cmd.item + 1
        /\ cmd'.step = 1 /\ cmd.status = "running" /\ tree' = tree
        /\ cmd.item \in 1 .. Items(cmd.name) /\ cmd.name \in DOMAIN Plan
    BY <1>0, <1>4, AdvancesCmd, PlanTypes
  <2>2. ASSUME NEW p \in Slots(cmd.name), Must(p)'
        PROVE  Has(p)'
    <3>1. Undone(cmd.name, p[1], p[2], cmd.item + 1, 1)
             <=> Undone(cmd.name, p[1], p[2], cmd.item, cmd.step)
      BY <1>0, <1>4, UndoneAdvance
    <3>2. \/ Before(p[1], p[2], cmd.item, cmd.step)
          \/ AlreadyPrepared /\ p[1] = cmd.item
      BY <1>0, <1>4, <2>1, <2>2, PassedAdvance DEF Must
    <3>3. FromClean \/ p[1] > Start[cmd.name]
      BY <2>1, <2>2 DEF Must, FromClean
    <3>4. CASE Before(p[1], p[2], cmd.item, cmd.step)
      <4>1. Has(p)
        BY <1>0, <2>1, <3>3, <3>4 DEF PassedInFile, Alive, Must
      <4>2. QED
        BY <2>1, <3>1, <4>1 DEF Has
    <3>5. CASE AlreadyPrepared /\ p[1] = cmd.item
      <4>1. Running /\ Plan[cmd.name][p[1]] = "eventStack"
        BY <1>4, <3>5 DEF Advances, AlreadyPrepared, Item
      <4>2. p[2] \in 1 .. 10
        BY <2>1, <4>1, SlotTypes, StackRule
      <4>3. Slot(cmd.name, p[1], p[2]) = Steps("eventStack")[p[2]]
        BY <4>1 DEF Slot
      <4>4. Slot(cmd.name, p[1], p[2]).by \in tree[Slot(cmd.name, p[1], p[2]).edit.file].done
        BY <3>3, <3>5, <4>1, <4>2, <4>3, SkipDone
      <4>5. ~tree[Slot(cmd.name, p[1], p[2]).edit.file].torn
        BY <1>0, <2>1, <4>4, SlotTypes, DoneIsWhole DEF TreeOK
      <4>6. QED
        BY <2>1, <4>4, <4>5 DEF Has
    <3>6. QED
      BY <3>2, <3>4, <3>5
  <2>3. QED
    BY <2>1, <2>2 DEF PassedInFile
<1>5. CASE Finish
  <2>1. /\ cmd'.name = cmd.name /\ cmd'.from = cmd.from /\ cmd'.item = cmd.item
        /\ cmd'.step = cmd.step /\ cmd.status = "running" /\ tree' = tree
    BY <1>0, <1>5 DEF Finish, CmdOK
  <2>2. QED
    BY <1>0, <2>1 DEF PassedInFile, Must, Has, Alive, FromClean
<1>6. CASE Stops \/ \E f \in Files : Tears(f)
  BY <1>0, <1>6, StopsCmd DEF PassedInFile
<1>7. CASE UNCHANGED vars
  BY <1>0, <1>7 DEF vars, PassedInFile, Must, Has, Alive, FromClean
<1>8. QED
  BY <1>1, <1>2, <1>3, <1>4, <1>5, <1>6, <1>7, StepCases

-----------------------------------------------------------------------------
(* The configuration *)

\* What a patch function adds to a file from which nothing is removed.
LEMMA PassesAdds ==
    ASSUME TreeOK, NEW f \in Files, NEW k \in In(f), Passes(f, k),
           NEW g \in Files, g # "client"
    PROVE  /\ tree[g].done \subseteq tree'[g].done
           /\ tree'[g].done \subseteq tree[g].done \cup {k}
           /\ g # f => tree'[g] = tree[g]
           /\ k \in tree'[f].done
           /\ tree[g].torn => tree'[g].torn
<1>1. CASE g = f
  BY <1>1, PassesFile
<1>2. CASE g # f
  BY <1>2, PassesFile
<1>3. QED
  BY <1>1, <1>2

\* A torn file has nothing in it.
LEMMA TornIsEmpty == Torn.done = {} /\ Torn.torn /\ Fresh.done = {} /\ ~Fresh.torn
BY DEF Torn, Fresh

\* rsync leaves a file as it is, empty of patches, or prepared.
LEMMA CopyFiles ==
    ASSUME CmdOK, TreeOK, CopyFile
    PROVE  LET f == Steps("rsync")[cmd.step].edit.file IN
           /\ f \in Files
           /\ \A g \in Files \ {f} : tree'[g] = tree[g]
           /\ cmd.from = "fresh" => tree'[f] = Fresh
           /\ cmd.from = "prepared" => tree'[f] = Prepared[f]
           /\ cmd.from = "itself" => tree'[f] = tree[f]
           /\ cmd.from \in {"fresh", "prepared", "itself"}
<1> DEFINE f == Steps("rsync")[cmd.step].edit.file
<1>1. Step.edit.file = f /\ f \in Files /\ cmd.from \in {"fresh", "prepared", "itself"}
  BY CopyCmd, CopyRule DEF CmdOK
<1>2. tree' = [tree EXCEPT ![f] =
                  CASE cmd.from = "fresh" -> Fresh
                    [] cmd.from = "prepared" -> Prepared[f]
                    [] cmd.from = "itself" -> tree[f]]
  BY <1>1 DEF CopyFile
<1>3. DOMAIN tree = Files
  BY DEF TreeOK
<1>4. QED
  BY <1>1, <1>2, <1>3

\* The pool is not in the configuration without the retention of live segments.
LEMMA ConfigOKKept ==
    ASSUME Inv, [Next]_vars
    PROVE  ConfigOK'
<1>0. CmdOK /\ TreeOK /\ PassedInFile /\ ConfigOK /\ "config" \in Files
  BY CopyRule DEF Inv
<1>1. CASE tree'["config"] = tree["config"]
  BY <1>0, <1>1 DEF ConfigOK
<1>2. CASE tree'["config"] \in {Fresh, Torn, Prepared["config"]}
  BY <1>0, <1>2, TornIsEmpty, PreparedRule DEF ConfigOK
<1>3. ASSUME NEW f \in Files, NEW k \in In(f), Passes(f, k), f = "config"
      PROVE  ConfigOK'
  <2>1. /\ tree[f].done \subseteq tree'[f].done
        /\ tree'[f].done \subseteq tree[f].done \cup {k}
    BY <1>0, <1>3, PassesAdds
  <2>2. CASE k # "workerPool"
    BY <1>0, <1>3, <2>1, <2>2 DEF ConfigOK
  <2>3. CASE k = "workerPool"
    <3> DEFINE q == <<cmd.item, cmd.step>>
               p == <<Start[cmd.name] + 6, 1>>
    <3>1. /\ cmd.name \in DOMAIN Plan /\ Alive /\ Start[cmd.name] \in {0, 1, 3}
          /\ cmd.item \in Nat /\ cmd.step \in Nat
      BY <1>0, <1>3, PassesCmd, PlanTypes DEF Alive
    <3>2. q \in Slots(cmd.name) /\ q = <<Start[cmd.name] + 31, 1>>
      BY <1>3, <2>3, <3>1, ScriptRule DEF Passes
    <3>3. /\ p \in Slots(cmd.name) /\ Slot(cmd.name, p[1], p[2]).edit.file = "config"
          /\ Slot(cmd.name, p[1], p[2]).by = "retention"
      BY <3>1, PlaceRule
    <3>4. Must(p)
      BY <3>1, <3>2 DEF Must, Before
    <3>5. "retention" \in tree["config"].done
      BY <1>0, <3>1, <3>3, <3>4, HasDone
    <3>6. QED
      BY <1>3, <2>1, <3>5 DEF ConfigOK
  <2>4. QED
    BY <2>2, <2>3
<1>4. CASE CopyFile
  BY <1>0, <1>1, <1>2, <1>4, CopyFiles
<1>5. ASSUME NEW f \in Files, NEW k \in In(f), Passes(f, k), f # "config"
      PROVE  ConfigOK'
  BY <1>0, <1>1, <1>5, PassesAdds
<1>6. CASE \E f \in Files : Tears(f)
  BY <1>0, <1>1, <1>2, <1>6 DEF Tears
<1>7. QED
  BY <1>1, <1>3, <1>4, <1>5, <1>6, StepCases DEF Begin, Advances, Finish, Stops, vars

\* Where a command is in its plan once it goes on.
LEMMA AdvancesBefore ==
    ASSUME CmdOK, Advances, NEW d \in {3, 18, 31},
           AlreadyPrepared => d = 3 \/ d = 31 \/ cmd.item # Start[cmd.name] + 18
    PROVE  Before(Start[cmd.name] + d, 1, cmd'.item, cmd'.step)
             <=> Before(Start[cmd.name] + d, 1, cmd.item, cmd.step)
<1>1. /\ cmd'.item = cmd.item + 1 /\ cmd'.step = 1 /\ cmd.item \in 1 .. Items(cmd.name)
      /\ ~AlreadyPrepared => cmd.step = Size(Item) + 1 /\ Size(Item) \in 1 .. 19
      /\ AlreadyPrepared => cmd.step = 1 /\ Plan[cmd.name][cmd.item] = "eventStack"
      /\ cmd.name \in DOMAIN Plan /\ Start[cmd.name] \in {0, 1, 3} /\ cmd.item \in Nat
      /\ cmd.name = "update" <=> Start[cmd.name] = 3
  BY AdvancesCmd, PlanTypes
<1>2. CASE ~AlreadyPrepared
  BY <1>1, <1>2 DEF Before
<1>3. CASE AlreadyPrepared
  <2>1. cmd.item = Start[cmd.name] + 18 \/ (Start[cmd.name] = 3 /\ cmd.item = 3)
    BY <1>1, <1>3, ItemTypes
  <2>2. QED
    BY <1>1, <1>3, <2>1 DEF Before
<1>4. QED
  BY <1>2, <1>3

\* Only the concurrency settings can be in the configuration twice, and only with the pool.
LEMMA TwiceWithPool ==
    ASSUME NEW f \in Files, NEW t, FileOK(f, t), NEW j \in t.twice
    PROVE  f = "config" /\ j = "concurrency" /\ "workerPool" \in t.done
<1>2. /\ j \in In(f) /\ EditsIn[f][j].anchored
      /\ t.done \subseteq In(f)
  BY DEF FileOK
<1>3. PICK k \in t.done : j \in Rewrites(f, k)
  BY DEF FileOK
<1>4. f = "config" /\ j = "concurrency"
  BY <1>2, AnchorRule
<1>5. k = "workerPool"
  BY <1>2, <1>3, AnchorRule
<1>6. QED
  BY <1>3, <1>4, <1>5

\* Past its first patch of the configuration, the prebuild finds neither the pool nor a
\* second copy of the concurrency settings.
LEMMA ConfigInPassKept ==
    ASSUME Inv, [Next]_vars
    PROVE  ConfigInPass'
<1>0. /\ CmdOK /\ TreeOK /\ ConfigOK /\ ConfigInPass /\ "config" \in Files
      /\ FileOK("config", tree'["config"]) /\ ConfigOK'
  BY CopyRule, TreeOKKept, ConfigOKKept DEF Inv, TreeOK
<1>1. CASE Begin
  <2>1. cmd'.item = 1 /\ cmd'.step = 1 /\ cmd'.name \in DOMAIN Plan
    BY <1>1, BeginCmd
  <2>2. Start[cmd'.name] \in {0, 1, 3}
    BY <2>1, PlanRule DEF Start
  <2>3. QED
    BY <2>1, <2>2 DEF ConfigInPass, InPass, Before
<1>2. CASE CopyFile
  <2>1. cmd'.item = 1 /\ cmd'.name = cmd.name /\ Start[cmd.name] \in {0, 1, 3}
    BY <1>0, <1>2, CopyCmd, PlanTypes
  <2>2. QED
    BY <2>1 DEF ConfigInPass, InPass, Before
<1>3. ASSUME NEW f \in Files, NEW k \in In(f), Passes(f, k), InPass'
      PROVE  /\ tree'["config"].twice = {}
             /\ "workerPool" \in tree'["config"].done =>
                    Before(Start[cmd'.name] + 31, 1, cmd'.item, cmd'.step)
  <2> DEFINE q == <<cmd.item, cmd.step>>
             at == Start[cmd.name]
  <2>1. /\ cmd'.name = cmd.name /\ cmd'.item = cmd.item /\ cmd'.step = cmd.step + 1
        /\ cmd.status = "running" /\ cmd.name \in DOMAIN Plan
        /\ at \in {0, 1, 3} /\ cmd.item \in Nat /\ cmd.step \in Nat
    BY <1>0, <1>3, PassesCmd, PlanTypes
  <2>2. /\ q \in Slots(cmd.name) /\ q[1] = cmd.item /\ q[2] = cmd.step
        /\ Slot(cmd.name, q[1], q[2]).by = k
        /\ Slot(cmd.name, q[1], q[2]).edit.file = f
    BY <1>3 DEF Passes
  <2>3. CASE InPass
    <3>1. /\ tree["config"].twice = {}
          /\ "workerPool" \in tree["config"].done => Before(at + 31, 1, cmd.item, cmd.step)
      BY <1>0, <2>3 DEF ConfigInPass
    <3>2. Before(at + 31, 1, cmd.item, cmd.step) => Before(at + 31, 1, cmd'.item, cmd'.step)
      BY <2>1 DEF Before
    <3>3. CASE f # "config"
      BY <1>0, <1>3, <2>1, <3>1, <3>2, <3>3, PassesFile
    <3>4. CASE f = "config"
      <4>1. tree'["config"].twice = {}
        <5>1. SUFFICES ASSUME EditsIn[f][k].anchored, k \in tree[f].stale
                       PROVE  FALSE
          BY <1>0, <1>3, <3>1, <3>4, PassesFile
        <5>2. k = "concurrency" /\ \A s \in In(f) : k \in Rewrites(f, s) => s = "workerPool"
          BY <5>1, AnchorRule
        <5>3. cmd.item < at + 31
          BY <2>1, <2>2, <5>2, ScriptRule
        <5>4. "workerPool" \in tree["config"].done
          BY <1>0, <3>4, <5>1, <5>2 DEF TreeOK, FileOK, Rewritten
        <5>5. QED
          BY <2>1, <3>1, <5>3, <5>4 DEF Before
      <4>2. CASE k = "workerPool"
        <5>1. q = <<at + 31, 1>>
          BY <2>1, <2>2, <3>4, <4>2, ScriptRule
        <5>2. QED
          BY <2>1, <4>1, <5>1 DEF Before
      <4>3. CASE k # "workerPool"
        BY <1>0, <1>3, <2>1, <3>1, <3>2, <3>4, <4>1, <4>3, PassesAdds
      <4>4. QED
        BY <4>2, <4>3
    <3>5. QED
      BY <3>3, <3>4
  <2>4. CASE ~InPass
    <3>1. q = <<at + 3, 1>>
      BY <1>3, <2>1, <2>4 DEF InPass, Alive, Before
    <3>2. k = "fastMedia" /\ f = "config"
      BY <2>1, <2>2, <3>1, PlaceRule
    <3>3. k \notin tree'["config"].twice
      BY <1>0, <3>2, TwiceWithPool
    <3>4. "retention" \notin tree'["config"].done
      BY <1>0, <1>3, <3>2, <3>3, PassesFile, ConfigRule DEF Rewritten
    <3>5. "workerPool" \notin tree'["config"].done
      BY <1>0, <3>4 DEF ConfigOK
    <3>6. tree'["config"].twice = {}
      BY <1>0, <3>5, TwiceWithPool
    <3>7. QED
      BY <3>5, <3>6
  <2>5. QED
    BY <2>3, <2>4
<1>4. CASE Advances
  <2>1. cmd'.name = cmd.name /\ tree' = tree /\ cmd.status = "running"
    BY <1>0, <1>4, AdvancesCmd
  <2>2. \A d \in {3, 31} : Before(Start[cmd.name] + d, 1, cmd'.item, cmd'.step)
                              <=> Before(Start[cmd.name] + d, 1, cmd.item, cmd.step)
    BY <1>0, <1>4, AdvancesBefore
  <2>3. QED
    BY <1>0, <2>1, <2>2 DEF ConfigInPass, InPass, Alive
<1>5. CASE Finish
  <2>1. /\ cmd'.name = cmd.name /\ cmd'.item = cmd.item
        /\ cmd'.step = cmd.step /\ cmd.status = "running" /\ tree' = tree
    BY <1>0, <1>5 DEF Finish, CmdOK
  <2>2. QED
    BY <1>0, <2>1 DEF ConfigInPass, InPass, Alive
<1>6. CASE Stops \/ \E f \in Files : Tears(f)
  BY <1>0, <1>6, StopsCmd DEF ConfigInPass, InPass
<1>7. CASE UNCHANGED vars
  BY <1>0, <1>7 DEF vars, ConfigInPass, InPass, Alive
<1>8. QED
  BY <1>1, <1>2, <1>3, <1>4, <1>5, <1>6, <1>7, StepCases DEF ConfigInPass

-----------------------------------------------------------------------------
(* The event stack *)

\* The files of the event stack that the invariant speaks of; nothing is removed from them.
LEMMA StackFiles ==
    /\ "config" \in Files /\ "runtimeEvents" \in Files /\ "sdkStub" \in Files
    /\ "deviceRuntime" \in Files
BY StackRule

\* Where in the event stack which script writes which file.
LEMMA StackPlaces ==
    ASSUME NEW n \in 1 .. 10
    PROVE  LET s == Steps("eventStack")[n] IN
           /\ n < 8 => s.by = "reconciliation"
           /\ n >= 8 => s.by = "backfill"
           /\ s.edit.file = "config" <=> n \in {1, 8}
           /\ s.edit.file = "runtimeEvents" <=> n = 2
           /\ s.edit.file = "sdkStub" <=> n = 7
           /\ s.edit.file # "client"
BY StackRule DEF StackSlot

\* A patch function takes no reconciliation away.
LEMMA ReconciledKept ==
    ASSUME TreeOK, NEW f \in Files, NEW k \in In(f), Passes(f, k), Reconciled
    PROVE  Reconciled'
<1>1. \A g \in {"runtimeEvents", "sdkStub", "deviceRuntime"} :
          /\ tree[g].done \subseteq tree'[g].done
          /\ tree[g].torn => tree'[g].torn
  BY StackFiles, PassesAdds
<1>2. QED
  BY <1>1 DEF Reconciled

\* A patch function of the event stack is at one of its steps.
LEMMA StackStep ==
    ASSUME CmdOK, AtStep, Item = "eventStack"
    PROVE  /\ cmd.step \in 1 .. 10
           /\ Slot(cmd.name, cmd.item, cmd.step) = Steps("eventStack")[cmd.step]
<1>1. cmd.step <= Size("eventStack") /\ cmd.step \in Nat \ {0}
  BY Guards, PlanTypes
<1>2. QED
  BY <1>1, StackRule DEF Slot, Item

\* Before backfill is written into the configuration, the reconciliation is in its files.
LEMMA BackfillLast ==
    ASSUME Inv, NEW f \in Files, NEW k \in In(f), Passes(f, k),
           f = "config", k = "backfill"
    PROVE  Reconciled
<1> DEFINE q == <<cmd.item, cmd.step>>
<1>0. CmdOK /\ InStack
  BY DEF Inv, StackOK
<1>1. q \in Slots(cmd.name) /\ Slot(cmd.name, q[1], q[2]).by = "backfill"
  BY DEF Passes
<1>2. cmd.name \in DOMAIN Plan /\ AtStep /\ Running
  BY <1>0, PlanTypes, Guards DEF Passes
<1>3. Item = "eventStack"
  BY <1>1, <1>2, ScriptRule DEF Item
<1>4. /\ cmd.step \in 1 .. 10
      /\ Steps("eventStack")[cmd.step].edit.file = "config"
      /\ Steps("eventStack")[cmd.step].by = "backfill"
  BY <1>0, <1>2, <1>3, StackStep DEF Passes
<1>5. cmd.step = 8
  BY <1>4, StackPlaces
<1>6. \A n \in 1 .. 10 : n < 8 =>
          Steps("eventStack")[n].by \in tree[Steps("eventStack")[n].edit.file].done
  BY <1>0, <1>2, <1>3, <1>5 DEF InStack
<1>7. QED
  BY <1>6, StackRule DEF Reconciled, StackSlot

\* Backfill in a configuration that the prebuild does not refuse comes with the
\* reconciliation in the files that are not looked at.
LEMMA HalfOKKept ==
    ASSUME Inv, [Next]_vars
    PROVE  HalfOK'
<1>0. CmdOK /\ TreeOK /\ PassedInFile /\ HalfOK /\ HalfCopy /\ InStack
  BY DEF Inv, StackOK
<1>1. CASE \A g \in Files : tree'[g] = tree[g]
  BY <1>0, <1>1, StackFiles DEF HalfOK, Half, Backfilled, Reconciled
<1>2. CASE tree'["config"] \in {Fresh, Torn, Prepared["config"]}
  BY <1>2, TornIsEmpty, PreparedRule, StackFiles DEF HalfOK, Half, Backfilled
<1>3. CASE CopyFile
  <2> DEFINE f == Steps("rsync")[cmd.step].edit.file
  <2>1. /\ f \in Files
        /\ \A g \in Files \ {f} : tree'[g] = tree[g]
        /\ cmd.from \in {"fresh", "prepared", "itself"}
        /\ cmd.from = "fresh" => tree'[f] = Fresh
        /\ cmd.from = "prepared" => tree'[f] = Prepared[f]
        /\ cmd.from = "itself" => tree'[f] = tree[f]
    BY <1>0, <1>3, CopyFiles
  <2>2. /\ cmd.step \in 1 .. 19 /\ Item = "rsync" /\ Running
        /\ f = "config" <=> cmd.step = 5
        /\ f \in {"runtimeEvents", "sdkStub", "deviceRuntime"} => cmd.step > 5
    BY <1>0, <1>3, CopyCmd, CopyRule, Guards
  <2>3. CASE cmd.from = "itself"
    BY <1>1, <2>1, <2>3
  <2>4. CASE cmd.from # "itself" /\ cmd.step = 5
    BY <1>2, <2>1, <2>2, <2>4
  <2>5. CASE cmd.from # "itself" /\ cmd.step > 5
    <3>1. ~Half /\ tree'["config"] = tree["config"]
      BY <1>0, <2>1, <2>2, <2>5, StackFiles DEF HalfCopy
    <3>2. QED
      BY <3>1 DEF HalfOK, Half, Backfilled
  <2>6. CASE cmd.step < 5
    BY <1>0, <2>1, <2>2, <2>6, StackFiles DEF HalfOK, Half, Backfilled, Reconciled
  <2>7. QED
    BY <2>2, <2>3, <2>4, <2>5, <2>6
<1>4. ASSUME NEW f \in Files, NEW k \in In(f), Passes(f, k), Half'
      PROVE  Reconciled'
  <2>1. /\ tree["config"].done \subseteq tree'["config"].done
        /\ tree'["config"].done \subseteq tree["config"].done \cup {k}
        /\ f # "config" => tree'["config"] = tree["config"]
    BY <1>0, <1>4, PassesAdds, StackFiles
  <2>2. Reconciled
    <3>1. CASE Half
      BY <1>0, <3>1 DEF HalfOK
    <3>2. CASE ~Half
      <4>1. f = "config" /\ k = "backfill"
        BY <1>4, <2>1, <3>2 DEF Half, Backfilled
      <4>2. QED
        BY <1>4, <4>1, BackfillLast
    <3>3. QED
      BY <3>1, <3>2
  <2>3. QED
    BY <1>0, <1>4, <2>2, ReconciledKept
<1>5. ASSUME NEW f \in Files, Tears(f)
      PROVE  HalfOK'
  <2> DEFINE q == <<cmd.item, cmd.step>>
  <2>1. /\ tree'[f] = Torn /\ \A g \in Files \ {f} : tree'[g] = tree[g]
        /\ q \in Slots(cmd.name) /\ q[1] = cmd.item /\ q[2] = cmd.step
        /\ Slot(cmd.name, q[1], q[2]).edit.file = f
        /\ AtStep
    BY <1>5 DEF Tears
  <2>2. /\ cmd.name \in DOMAIN Plan /\ Running /\ Alive
        /\ Start[cmd.name] \in {0, 1, 3} /\ cmd.item \in Nat
    BY <1>0, <2>1, PlanTypes, Guards DEF Alive
  <2>3. CASE f \in {"runtimeEvents", "sdkStub"}
    <3>1. CASE Item = "eventStack"
      <4>1. cmd.step \in {2, 7}
        BY <1>0, <2>1, <2>3, <3>1, StackStep, StackPlaces
      <4>2. ~Backfilled
        BY <1>0, <2>2, <3>1, <4>1 DEF InStack
      <4>3. QED
        BY <2>1, <2>3, <4>2, StackFiles DEF HalfOK, Half, Backfilled
    <3>2. CASE cmd.item > Start[cmd.name] + 18
      <4> DEFINE p == <<Start[cmd.name] + 6, 1>>
      <4>1. /\ p \in Slots(cmd.name) /\ Slot(cmd.name, p[1], p[2]).edit.file = "config"
            /\ Slot(cmd.name, p[1], p[2]).by = "retention"
        BY <2>2, PlaceRule
      <4>2. Must(p)
        BY <2>2, <3>2 DEF Must, Before
      <4>3. "retention" \in tree["config"].done
        BY <1>0, <2>2, <4>1, <4>2, HasDone
      <4>4. QED
        BY <2>1, <2>3, <4>3, StackFiles DEF HalfOK, Half
    <3>3. QED
      BY <2>1, <2>2, <2>3, <3>1, <3>2, ScriptRule DEF Item
  <2>4. CASE f = "config"
    BY <1>2, <2>1, <2>4
  <2>5. CASE f \notin {"runtimeEvents", "sdkStub", "config"}
    BY <1>0, <2>1, <2>5, StackFiles, TornIsEmpty DEF HalfOK, Half, Backfilled, Reconciled
  <2>6. QED
    BY <2>3, <2>4, <2>5
<1>6. QED
  BY <1>1, <1>3, <1>4, <1>5, StepCases DEF Begin, Advances, Finish, Stops, vars, HalfOK

\* While rsync copies sources of another directory, no configuration is left that has
\* backfill and is not refused.
LEMMA HalfCopyKept ==
    ASSUME Inv, [Next]_vars
    PROVE  HalfCopy'
<1>0. CmdOK /\ TreeOK /\ HalfCopy
  BY DEF Inv
<1>1. CASE CopyFile
  <2> DEFINE f == Steps("rsync")[cmd.step].edit.file
  <2>1. /\ f \in Files
        /\ \A g \in Files \ {f} : tree'[g] = tree[g]
        /\ cmd.from \in {"fresh", "prepared", "itself"}
        /\ cmd.from = "fresh" => tree'[f] = Fresh
        /\ cmd.from = "prepared" => tree'[f] = Prepared[f]
    BY <1>0, <1>1, CopyFiles
  <2>2. /\ cmd.step \in 1 .. 19 /\ Item = "rsync" /\ Running
        /\ f = "config" <=> cmd.step = 5
        /\ cmd'.step = cmd.step + 1 /\ cmd'.from = cmd.from
    BY <1>0, <1>1, CopyCmd, CopyRule, Guards
  <2>3. CASE cmd.step < 5
    BY <2>2, <2>3 DEF HalfCopy
  <2>4. CASE cmd.step = 5
    <3>1. cmd.from # "itself" => tree'["config"] \in {Fresh, Prepared["config"]}
      BY <2>1, <2>2, <2>4
    <3>2. QED
      BY <2>2, <3>1, TornIsEmpty, PreparedRule, StackFiles DEF HalfCopy, Half, Backfilled
  <2>5. CASE cmd.step > 5
    <3>1. tree'["config"] = tree["config"]
      BY <2>1, <2>2, <2>5, StackFiles
    <3>2. QED
      BY <1>0, <2>2, <2>5, <3>1 DEF HalfCopy, Half, Backfilled
  <2>6. QED
    BY <2>2, <2>3, <2>4, <2>5
<1>2. CASE Begin
  BY <1>2, BeginCmd DEF HalfCopy
<1>3. ASSUME NEW f \in Files, NEW k \in In(f), Passes(f, k)
      PROVE  HalfCopy'
  BY <1>0, <1>3, PassesCmd DEF HalfCopy
<1>4. CASE Advances
  BY <1>0, <1>4, AdvancesCmd DEF HalfCopy
<1>5. CASE Finish
  BY <1>0, <1>5, Guards DEF HalfCopy, Running, CmdOK
<1>6. CASE Stops \/ \E f \in Files : Tears(f)
  BY <1>0, <1>6, StopsCmd DEF HalfCopy, Running
<1>7. CASE UNCHANGED vars
  BY <1>0, <1>7 DEF vars, HalfCopy, Running, Item, Half, Backfilled
<1>8. QED
  BY <1>1, <1>2, <1>3, <1>4, <1>5, <1>6, <1>7, StepCases

\* A command that has just begun, or copies, is not in its prebuild.
LEMMA NotInPass ==
    ASSUME CmdOK, Begin \/ CopyFile
    PROVE  ~InPass'
<1>1. CASE Begin
  <2>1. cmd'.item = 1 /\ cmd'.step = 1 /\ cmd'.name \in DOMAIN Plan
    BY <1>1, BeginCmd
  <2>2. Start[cmd'.name] \in {0, 1, 3}
    BY <2>1, PlanRule DEF Start
  <2>3. QED
    BY <2>1, <2>2 DEF InPass, Before
<1>2. CASE CopyFile
  <2>1. cmd'.item = 1 /\ cmd'.name = cmd.name /\ Start[cmd.name] \in {0, 1, 3}
    BY <1>2, CopyCmd, PlanTypes
  <2>2. QED
    BY <2>1 DEF InPass, Before
<1>3. QED
  BY <1>1, <1>2

\* Up to the event stack, the prebuild finds backfill only with the reconciliation.
LEMMA SkipOKKept ==
    ASSUME Inv, [Next]_vars
    PROVE  SkipOK'
<1>0. CmdOK /\ TreeOK /\ HalfOK /\ SkipOK
  BY DEF Inv, StackOK
<1>1. CASE Begin \/ CopyFile
  BY <1>0, <1>1, NotInPass DEF SkipOK
<1>2. ASSUME NEW f \in Files, NEW k \in In(f), Passes(f, k), InPass',
             ~Before(Start[cmd'.name] + 18, 1, cmd'.item, cmd'.step), Backfilled'
      PROVE  Reconciled'
  <2> DEFINE q == <<cmd.item, cmd.step>>
             at == Start[cmd.name]
  <2>1. /\ cmd'.name = cmd.name /\ cmd'.item = cmd.item /\ cmd'.step = cmd.step + 1
        /\ cmd.status = "running" /\ cmd.name \in DOMAIN Plan
        /\ at \in {0, 1, 3} /\ cmd.item \in Nat /\ cmd.step \in Nat \ {0}
    BY <1>0, <1>2, PassesCmd, PlanTypes
  <2>2. /\ q \in Slots(cmd.name) /\ q[1] = cmd.item /\ q[2] = cmd.step
        /\ Slot(cmd.name, q[1], q[2]).by = k
        /\ Slot(cmd.name, q[1], q[2]).edit.file = f
    BY <1>2 DEF Passes
  <2>3. /\ tree["config"].done \subseteq tree'["config"].done
        /\ tree'["config"].done \subseteq tree["config"].done \cup {k}
        /\ f # "config" => tree'["config"] = tree["config"]
    BY <1>0, <1>2, PassesAdds, StackFiles
  <2>4. CASE f = "config" /\ k = "backfill"
    BY <1>0, <1>2, <2>4, BackfillLast, ReconciledKept
  <2>5. CASE ~(f = "config" /\ k = "backfill") /\ InPass
    <3>1. Backfilled /\ ~Before(at + 18, 1, cmd.item, cmd.step)
      BY <1>2, <2>1, <2>3, <2>5 DEF Backfilled, Before
    <3>2. Reconciled
      BY <1>0, <2>5, <3>1 DEF SkipOK
    <3>3. QED
      BY <1>0, <1>2, <3>2, ReconciledKept
  <2>6. CASE ~(f = "config" /\ k = "backfill") /\ ~InPass
    <3>1. q = <<at + 3, 1>>
      BY <1>2, <2>1, <2>6 DEF InPass, Alive, Before
    <3>2. k = "fastMedia" /\ f = "config"
      BY <2>1, <2>2, <3>1, PlaceRule
    <3>3. "retention" \notin tree'["config"].done
      <4>1. FileOK(f, tree'[f])
        BY <1>0, <1>2, PassesFile
      <4>2. k \notin tree'[f].twice
        BY <3>2, <4>1, TwiceWithPool
      <4>3. QED
        BY <1>0, <1>2, <3>2, <4>2, PassesFile, ConfigRule DEF Rewritten
    <3>4. Half
      BY <1>2, <2>3, <2>6, <3>2, <3>3 DEF Half, Backfilled
    <3>5. QED
      BY <1>0, <1>2, <3>4, ReconciledKept DEF HalfOK
  <2>7. QED
    BY <2>4, <2>5, <2>6
<1>3. CASE Advances
  <2>1. /\ cmd'.name = cmd.name /\ cmd'.item = cmd.item + 1 /\ tree' = tree
        /\ cmd.status = "running" /\ Start[cmd.name] \in {0, 1, 3} /\ cmd.item \in Nat
    BY <1>0, <1>3, AdvancesCmd, PlanTypes
  <2>2. CASE cmd.item = Start[cmd.name] + 18
    BY <2>1, <2>2 DEF SkipOK, Before
  <2>3. CASE cmd.item # Start[cmd.name] + 18
    <3>1. \A d \in {3, 18} : Before(Start[cmd.name] + d, 1, cmd'.item, cmd'.step)
                                <=> Before(Start[cmd.name] + d, 1, cmd.item, cmd.step)
      BY <1>0, <1>3, <2>3, AdvancesBefore
    <3>2. QED
      BY <1>0, <2>1, <3>1 DEF SkipOK, InPass, Alive, Backfilled, Reconciled
  <2>4. QED
    BY <2>2, <2>3
<1>4. CASE Finish
  <2>1. /\ cmd'.name = cmd.name /\ cmd'.item = cmd.item
        /\ cmd'.step = cmd.step /\ cmd.status = "running" /\ tree' = tree
    BY <1>0, <1>4 DEF Finish, CmdOK
  <2>2. QED
    BY <1>0, <2>1 DEF SkipOK, InPass, Alive, Backfilled, Reconciled
<1>5. CASE Stops \/ \E f \in Files : Tears(f)
  BY <1>0, <1>5, StopsCmd DEF SkipOK, InPass
<1>6. CASE UNCHANGED vars
  BY <1>0, <1>6 DEF vars, SkipOK, InPass, Alive, Backfilled, Reconciled
<1>7. QED
  BY <1>1, <1>2, <1>3, <1>4, <1>5, <1>6, StepCases DEF SkipOK

\* Within the event stack backfill comes last, and what has been passed is there.
LEMMA InStackKept ==
    ASSUME Inv, [Next]_vars
    PROVE  InStack'
<1>0. CmdOK /\ TreeOK /\ InStack
  BY DEF Inv, StackOK
<1>1. CASE Begin \/ Advances
  <2>1. cmd'.step = 1
    BY <1>0, <1>1, BeginCmd, AdvancesCmd
  <2>2. QED
    BY <2>1 DEF InStack
<1>2. CASE CopyFile
  BY <1>0, <1>2, CopyCmd DEF InStack
<1>3. ASSUME NEW f \in Files, NEW k \in In(f), Passes(f, k), Item' = "eventStack"
      PROVE  /\ cmd'.step \in 2 .. 8 => ~Backfilled'
             /\ \A n \in 1 .. 10 : n < cmd'.step =>
                    Steps("eventStack")[n].by \in tree'[Steps("eventStack")[n].edit.file].done
  <2>1. Item = "eventStack" /\ cmd'.step = cmd.step + 1 /\ AtStep /\ Running
    BY <1>0, <1>3, PassesCmd, Guards DEF Passes
  <2>2. /\ cmd.step \in 1 .. 10
        /\ Steps("eventStack")[cmd.step].by = k
        /\ Steps("eventStack")[cmd.step].edit.file = f
    BY <1>0, <1>3, <2>1, StackStep DEF Passes
  <2>3. ASSUME cmd'.step \in 2 .. 8
        PROVE  ~Backfilled'
    <3>1. k = "reconciliation" /\ (cmd.step = 1 => f = "config")
      BY <2>1, <2>2, <2>3, StackPlaces
    <3>2. CASE cmd.step = 1
      <4>1. FileOK(f, tree'[f])
        BY <1>0, <1>3, PassesFile
      <4>2. k \notin tree'[f].twice
        BY <3>1, <4>1, TwiceWithPool
      <4>3. QED
        BY <1>0, <1>3, <3>1, <3>2, <4>2, PassesFile, StackRule DEF Rewritten, Backfilled
    <3>3. CASE cmd.step # 1
      <4>1. ~Backfilled
        BY <1>0, <2>1, <2>2, <2>3, <3>3 DEF InStack
      <4>2. tree'["config"].done \subseteq tree["config"].done \cup {k}
        BY <1>0, <1>3, StackFiles, PassesAdds
      <4>3. QED
        BY <3>1, <4>1, <4>2 DEF Backfilled
    <3>4. QED
      BY <3>2, <3>3
  <2>4. ASSUME NEW n \in 1 .. 10, n < cmd'.step
        PROVE  Steps("eventStack")[n].by \in tree'[Steps("eventStack")[n].edit.file].done
    <3>1. CASE n = cmd.step
      BY <1>0, <1>3, <2>2, <3>1, PassesFile
    <3>2. CASE n < cmd.step
      <4> DEFINE g == Steps("eventStack")[n].edit.file
      <4>1. Steps("eventStack")[n].by \in tree[g].done
        BY <1>0, <2>1, <3>2 DEF InStack
      <4>2. g \in Files /\ g # "client"
        BY StackPlaces, StackRule DEF StackSlot
      <4>3. tree[g].done \subseteq tree'[g].done
        BY <1>0, <1>3, <4>2, PassesAdds
      <4>4. QED
        BY <4>1, <4>3
    <3>3. QED
      BY <2>1, <2>2, <2>4, <3>1, <3>2
  <2>5. QED
    BY <2>3, <2>4
<1>4. CASE Finish
  BY <1>0, <1>4, Guards DEF InStack, Running, CmdOK
<1>5. CASE Stops \/ \E f \in Files : Tears(f)
  BY <1>0, <1>5, StopsCmd DEF InStack, Running
<1>6. CASE UNCHANGED vars
  BY <1>0, <1>6 DEF vars, InStack, Running, Item, Backfilled
<1>7. QED
  BY <1>1, <1>2, <1>3, <1>4, <1>5, <1>6, StepCases DEF InStack

-----------------------------------------------------------------------------
(* Clean sources *)

\* What rsync has copied from clean sources has no patch in it.
LEMMA CleanCopyKept ==
    ASSUME Inv, [Next]_vars
    PROVE  CleanCopy'
<1>0. CmdOK /\ TreeOK /\ CleanCopy
  BY DEF Inv
<1>1. CASE Begin \/ Advances
  <2>1. cmd'.step = 1
    BY <1>0, <1>1, BeginCmd, AdvancesCmd
  <2>2. QED
    BY <2>1 DEF CleanCopy
<1>2. CASE CopyFile
  <2> DEFINE f == Steps("rsync")[cmd.step].edit.file
  <2>1. /\ f \in Files
        /\ \A g \in Files \ {f} : tree'[g] = tree[g]
        /\ cmd.from = "fresh" => tree'[f] = Fresh
    BY <1>0, <1>2, CopyFiles
  <2>2. /\ cmd.step \in 1 .. 19 /\ Item = "rsync" /\ Running
        /\ cmd'.step = cmd.step + 1 /\ cmd'.from = cmd.from
    BY <1>0, <1>2, CopyCmd, Guards
  <2>3. ASSUME cmd.from = "fresh", NEW n \in 1 .. 19, n < cmd.step + 1
        PROVE  tree'[Steps("rsync")[n].edit.file] = Fresh
    <3>1. Steps("rsync")[n].edit.file \in Files
      BY CopyRule
    <3>2. CASE Steps("rsync")[n].edit.file = f
      BY <2>1, <2>3, <3>2
    <3>3. CASE Steps("rsync")[n].edit.file # f
      <4>1. n < cmd.step
        BY <2>2, <2>3, <3>3
      <4>2. tree[Steps("rsync")[n].edit.file] = Fresh
        BY <1>0, <2>2, <2>3, <4>1 DEF CleanCopy
      <4>3. QED
        BY <2>1, <3>1, <3>3, <4>2
    <3>4. QED
      BY <3>2, <3>3
  <2>4. QED
    BY <2>2, <2>3 DEF CleanCopy
<1>3. ASSUME NEW f \in Files, NEW k \in In(f), Passes(f, k)
      PROVE  CleanCopy'
  BY <1>0, <1>3, PassesCmd DEF CleanCopy
<1>4. CASE Finish
  BY <1>0, <1>4, Guards DEF CleanCopy, Running, CmdOK
<1>5. CASE Stops \/ \E f \in Files : Tears(f)
  BY <1>0, <1>5, StopsCmd DEF CleanCopy, Running
<1>6. CASE UNCHANGED vars
  BY <1>0, <1>6 DEF vars, CleanCopy, Running, Item
<1>7. QED
  BY <1>1, <1>2, <1>3, <1>4, <1>5, <1>6, StepCases

\* From clean sources a file has in it what the plan has put there, and no more.
LEMMA CleanTreeKept ==
    ASSUME Inv, [Next]_vars
    PROVE  CleanTree'
<1>0. CmdOK /\ TreeOK /\ CleanCopy /\ CleanTree /\ TreeOK'
  BY TreeOKKept DEF Inv
<1>1. CASE Begin \/ CopyFile
  <2>1. cmd'.item = 1
    BY <1>0, <1>1, BeginCmd, CopyCmd
  <2>2. QED
    BY <2>1 DEF CleanTree
<1>2. ASSUME NEW f \in Files, NEW k \in In(f), Passes(f, k), FromClean', cmd'.item > 1,
             NEW g \in Files
      PROVE  ~tree'[g].torn /\ tree'[g].done \subseteq Clean(cmd'.name, g, cmd'.item, cmd'.step)
  <2> DEFINE q == <<cmd.item, cmd.step>>
  <2>1. /\ cmd'.name = cmd.name /\ cmd'.from = cmd.from /\ cmd'.item = cmd.item
        /\ cmd'.step = cmd.step + 1 /\ cmd.status = "running"
        /\ cmd.name \in DOMAIN Plan /\ cmd.item \in Nat /\ cmd.step \in Nat
    BY <1>0, <1>2, PassesCmd, PlanTypes
  <2>2. /\ q \in Slots(cmd.name) /\ q[1] = cmd.item /\ q[2] = cmd.step
        /\ Slot(cmd.name, q[1], q[2]).by = k
        /\ Slot(cmd.name, q[1], q[2]).edit.file = f
        /\ Slot(cmd.name, q[1], q[2]).edit = EditsIn[f][k]
    BY <1>2 DEF Passes
  <2>3. /\ \A h \in Files \ {f} : tree'[h] = tree[h]
        /\ ~tree'[f].torn
        /\ tree'[f].done = (tree[f].done \ EditsIn[f][k].undoes) \cup {k}
    BY <1>0, <1>2, PassesFile
  <2>4. ~tree[g].torn /\ tree[g].done \subseteq Clean(cmd.name, g, cmd.item, cmd.step)
    BY <1>0, <1>2, <2>1 DEF CleanTree, Alive, FromClean
  <2>5. ASSUME NEW j \in tree'[g].done
        PROVE  j \in Clean(cmd.name, g, cmd.item, cmd.step + 1)
    <3>1. j \in In(g)
      BY <1>0 DEF TreeOK, FileOK
    <3>2. CASE g = f /\ j = k
      <4>1. Before(q[1], q[2], cmd.item, cmd.step + 1)
        BY <2>1, <2>2 DEF Before
      <4>2. ~Undone(cmd.name, q[1], q[2], cmd.item, cmd.step + 1)
        BY <2>1, <2>2, UndoneSelf
      <4>3. QED
        BY <2>2, <3>1, <3>2, <4>1, <4>2 DEF Clean
    <3>3. CASE ~(g = f /\ j = k)
      <4>1. j \in tree[g].done /\ (g = f => j \notin EditsIn[f][k].undoes)
        BY <2>3, <3>3
      <4>2. PICK p \in Slots(cmd.name) :
                /\ Before(p[1], p[2], cmd.item, cmd.step)
                /\ Slot(cmd.name, p[1], p[2]).by = j
                /\ Slot(cmd.name, p[1], p[2]).edit.file = g
                /\ ~Undone(cmd.name, p[1], p[2], cmd.item, cmd.step)
        BY <2>4, <4>1 DEF Clean
      <4>3. ~Undone(cmd.name, p[1], p[2], cmd.item, cmd.step + 1)
        BY <2>1, <2>2, <4>1, <4>2, UndoneStep
      <4>4. Before(p[1], p[2], cmd.item, cmd.step + 1)
        BY <2>1, <4>2, SlotTypes DEF Before
      <4>5. QED
        BY <3>1, <4>2, <4>3, <4>4 DEF Clean
    <3>4. QED
      BY <3>2, <3>3
  <2>6. ~tree'[g].torn
    BY <2>3, <2>4
  <2>7. QED
    BY <2>1, <2>5, <2>6
<1>3. ASSUME Advances, FromClean', NEW g \in Files
      PROVE  ~tree'[g].torn /\ tree'[g].done \subseteq Clean(cmd'.name, g, cmd'.item, cmd'.step)
  <2>1. /\ cmd'.name = cmd.name /\ cmd'.from = cmd.from /\ cmd'.item = cmd.item + 1
        /\ cmd'.step = 1 /\ cmd.status = "running" /\ tree' = tree /\ Running
        /\ cmd.item \in 1 .. Items(cmd.name) /\ cmd.name \in DOMAIN Plan
        /\ ~AlreadyPrepared => cmd.step = Size(Item) + 1
    BY <1>0, <1>3, AdvancesCmd, PlanTypes DEF Advances
  <2>2. CASE cmd.item = 1
    <3>1. Item = "rsync"
      BY <1>3, <2>1, <2>2, ItemTypes DEF FromClean, Item
    <3>2. cmd.step = 20
      BY <2>1, <3>1, CopyRule DEF AlreadyPrepared
    <3>3. PICK n \in 1 .. 19 : Steps("rsync")[n].edit.file = g
      BY CopyRule
    <3>4. tree[g] = Fresh
      BY <1>0, <1>3, <2>1, <3>1, <3>2, <3>3 DEF CleanCopy, FromClean
    <3>5. QED
      BY <2>1, <3>4, TornIsEmpty
  <2>3. CASE cmd.item # 1
    <3>1. ~tree[g].torn /\ tree[g].done \subseteq Clean(cmd.name, g, cmd.item, cmd.step)
      BY <1>0, <1>3, <2>1, <2>3 DEF CleanTree, Alive, FromClean
    <3>2. \A p \in Slots(cmd.name) :
              /\ Before(p[1], p[2], cmd.item, cmd.step)
                    => Before(p[1], p[2], cmd.item + 1, 1)
              /\ Undone(cmd.name, p[1], p[2], cmd.item + 1, 1)
                    => Undone(cmd.name, p[1], p[2], cmd.item, cmd.step)
      BY <1>0, <1>3, UndoneAdvance, PassedAdvance
    <3>3. Clean(cmd.name, g, cmd.item, cmd.step) \subseteq Clean(cmd.name, g, cmd.item + 1, 1)
      BY <3>2 DEF Clean
    <3>4. QED
      BY <2>1, <3>1, <3>3
  <2>4. QED
    BY <2>2, <2>3
<1>4. CASE Finish
  <2>1. /\ cmd'.name = cmd.name /\ cmd'.from = cmd.from /\ cmd'.item = cmd.item
        /\ cmd'.step = cmd.step /\ cmd.status = "running" /\ tree' = tree
    BY <1>0, <1>4 DEF Finish, CmdOK
  <2>2. QED
    BY <1>0, <2>1 DEF CleanTree, FromClean, Alive
<1>5. CASE Stops \/ \E f \in Files : Tears(f)
  BY <1>0, <1>5, StopsCmd DEF CleanTree
<1>6. CASE UNCHANGED vars
  BY <1>0, <1>6 DEF vars, CleanTree, FromClean, Alive
<1>7. QED
  BY <1>1, <1>2, <1>3, <1>4, <1>5, <1>6, StepCases DEF CleanTree

-----------------------------------------------------------------------------
(* What has been passed stays done *)

\* What the item at hand has passed finds its work done.
LEMMA ItemKeptKept ==
    ASSUME Inv, [Next]_vars
    PROVE  ItemKept'
<1>0. CmdOK /\ TreeOK /\ ItemKept
  BY DEF Inv
<1>1. CASE Begin \/ Advances
  <2>1. cmd'.step = 1
    BY <1>0, <1>1, BeginCmd, AdvancesCmd
  <2>2. QED
    BY <2>1 DEF ItemKept
<1>2. CASE CopyFile
  BY <1>0, <1>2, CopyCmd DEF ItemKept
<1>3. ASSUME NEW f \in Files, NEW k \in In(f), Passes(f, k), Item \notin {"rsync", "eventStack"},
             NEW n \in 1 .. Size(Item), n < cmd.step + 1
      PROVE  LET s == Steps(Item)[n] IN Outcome(s.by, s.edit, tree'[s.edit.file]) = "kept"
  <2> DEFINE p == <<cmd.item, n>>
             q == <<cmd.item, cmd.step>>
             s == Steps(Item)[n]
  <2>1. /\ cmd.name \in DOMAIN Plan /\ cmd.item \in 1 .. Items(cmd.name)
        /\ cmd.step \in Nat /\ Running /\ Item = Plan[cmd.name][cmd.item]
    BY <1>0, <1>3, PassesCmd, PlanTypes, Guards DEF Item
  <2>2. /\ q \in Slots(cmd.name) /\ q[1] = cmd.item /\ q[2] = cmd.step
        /\ Slot(cmd.name, q[1], q[2]).by = k
        /\ Slot(cmd.name, q[1], q[2]).edit.file = f
        /\ Slot(cmd.name, q[1], q[2]).edit = EditsIn[f][k]
    BY <1>3 DEF Passes
  <2>3. /\ \A g \in Files \ {f} : tree'[g] = tree[g]
        /\ Outcome(k, EditsIn[f][k], tree'[f]) = "kept"
    BY <1>0, <1>3, PassesFile
  <2>4. Size(Item) \in 1 .. 19
    BY <2>1, ItemTypes
  <2>5. p \in Slots(cmd.name) /\ p[1] = cmd.item /\ p[2] = n
    BY <1>3, <2>1, <2>4 DEF Slots
  <2>6. s = Slot(cmd.name, cmd.item, n)
    BY <2>1 DEF Slot
  <2>7. CASE n = cmd.step
    BY <2>2, <2>3, <2>6, <2>7
  <2>8. CASE n < cmd.step
    <3>1. Outcome(s.by, s.edit, tree[s.edit.file]) = "kept"
      BY <1>0, <1>3, <2>1, <2>8 DEF ItemKept
    <3>2. Slot(cmd.name, p[1], p[2]).edit.file # Slot(cmd.name, q[1], q[2]).edit.file
      BY <1>3, <2>1, <2>2, <2>5, <2>8, ItemRule
    <3>3. s.edit.file \in Files \ {f}
      BY <2>1, <2>2, <2>5, <2>6, <3>2, SlotTypes
    <3>4. QED
      BY <2>3, <3>1, <3>3
  <2>9. n = cmd.step \/ n < cmd.step
    BY <1>3, <2>1, <2>4
  <2>10. QED
    BY <2>7, <2>8, <2>9
<1>4. ASSUME NEW f \in Files, NEW k \in In(f), Passes(f, k)
      PROVE  ItemKept'
  <2>1. Item' = Item /\ cmd'.step = cmd.step + 1
    BY <1>0, <1>4, PassesCmd
  <2>2. QED
    BY <1>3, <1>4, <2>1 DEF ItemKept
<1>5. CASE Finish
  BY <1>0, <1>5, Guards DEF ItemKept, Running, CmdOK
<1>6. CASE Stops \/ \E f \in Files : Tears(f)
  BY <1>0, <1>6, StopsCmd DEF ItemKept, Running
<1>7. CASE UNCHANGED vars
  BY <1>0, <1>7 DEF vars, ItemKept, Running, Item
<1>8. QED
  BY <1>1, <1>2, <1>4, <1>5, <1>6, <1>7, StepCases

-----------------------------------------------------------------------------
(* The invariant *)

\* A check of the repository's own sources begins.
LEMMA InitInv ==
    ASSUME Init
    PROVE  Inv
<1>1. tree = [f \in Files |-> Fresh]
  BY DEF Init
<1>2. PICK from \in Sources :
        cmd = [name |-> "check", from |-> from, item |-> 1, step |-> 1, status |-> "running"]
  BY DEF Init
<1>3. /\ from \in {"fresh", "prepared", "itself"} /\ "check" \in DOMAIN Plan
      /\ Items("check") \in Nat /\ Items("check") >= 31 /\ Start["check"] = 0
  BY PipelineAssumption, PlanRule DEF Start
<1>4. /\ Size(Plan["check"][1]) \in 1 .. 19 /\ Plan["check"][1] # "rsync"
      /\ Plan["check"][1] # "eventStack"
  <2>1. 1 \in 1 .. Items("check")
    BY <1>3
  <2>2. QED
    BY <1>3, <2>1, ItemTypes
<1>5. /\ cmd.name = "check" /\ cmd.from = from /\ cmd.item = 1 /\ cmd.step = 1
      /\ cmd.status = "running" /\ Item = Plan["check"][1]
  BY <1>2 DEF Item
<1>6. CmdOK
  BY <1>2, <1>3, <1>4, <1>5 DEF CmdOK
<1>7. \A f \in Files : tree[f] = Fresh
  BY <1>1
<1>8. TreeOK
  BY <1>1, <1>7, FreshOK DEF TreeOK
<1>9. PassedInFile
  <2>1. \A p \in Slots("check") : ~Before(p[1], p[2], 1, 1)
    BY <1>3, SlotTypes DEF Before
  <2>2. QED
    BY <1>5, <2>1 DEF PassedInFile, Must
<1>10. "config" \in Files /\ tree["config"].done = {}
  BY <1>7, CopyRule, TornIsEmpty
<1>11. ~InPass
  BY <1>3, <1>5 DEF InPass, Before
<1>12. ConfigOK /\ ConfigInPass /\ HalfOK /\ HalfCopy /\ SkipOK
  BY <1>10, <1>11
     DEF ConfigOK, ConfigInPass, HalfOK, HalfCopy, Half, Backfilled, SkipOK
<1>13. InStack /\ CleanCopy /\ CleanTree
  BY <1>4, <1>5 DEF InStack, CleanCopy, CleanTree
<1>14. ItemKept
  BY <1>5 DEF ItemKept
<1>15. QED
  BY <1>6, <1>8, <1>9, <1>12, <1>13, <1>14 DEF Inv, StackOK

\* Every step keeps the invariant.
LEMMA InvKept ==
    ASSUME Inv, [Next]_vars
    PROVE  Inv'
BY CmdOKKept, TreeOKKept, PassedInFileKept, ConfigOKKept, ConfigInPassKept, HalfOKKept,
   HalfCopyKept, SkipOKKept, InStackKept, CleanCopyKept, CleanTreeKept, ItemKeptKept
   DEF Inv, StackOK

\* What a file has in it follows, at every moment, from the steps the live command has
\* passed: a patch function is never passed without its text being there.
THEOREM InvHolds == Spec => []Inv
<1>1. Init => Inv
  BY InitInv
<1>2. Inv /\ [Next]_vars => Inv'
  BY InvKept
<1>3. QED
  BY <1>1, <1>2, PTL DEF Spec

-----------------------------------------------------------------------------
(* One result *)

\* A file is as the scripts make it from the repository's own, once all of them have
\* passed it.
LEMMA FileResult ==
    ASSUME Inv, cmd.status = "ok", NEW f \in Files
    PROVE  tree[f] = Prepared[f]
<1> DEFINE t == tree[f]
           u == Prepared[f]
<1>0. CmdOK /\ TreeOK /\ PassedInFile /\ ConfigInPass
  BY DEF Inv
<1>1. /\ cmd.name \in DOMAIN Plan /\ Items(cmd.name) \in Nat
      /\ Items(cmd.name) >= Start[cmd.name] + 31 /\ Start[cmd.name] \in {0, 1, 3}
      /\ cmd.item = Items(cmd.name) + 1 /\ cmd.step = 1 /\ Alive
  BY <1>0, PlanTypes DEF CmdOK, Alive
<1>2. /\ FileOK(f, t) /\ FileOK(f, u) /\ ~u.torn /\ u.twice = {} /\ u.done # {}
  BY <1>0, PreparedRule DEF TreeOK
<1>3. ASSUME NEW k \in u.done
      PROVE  k \in t.done /\ ~t.torn
  <2>1. PICK p \in Slots(cmd.name) :
            /\ p[1] > Start[cmd.name]
            /\ Slot(cmd.name, p[1], p[2]).by = k /\ Slot(cmd.name, p[1], p[2]).edit.file = f
            /\ ~Undone(cmd.name, p[1], p[2], Items(cmd.name) + 1, 1)
    BY <1>1, PreparedRule
  <2>2. p[1] \in 1 .. Items(cmd.name)
    BY <1>1, SlotTypes
  <2>3. Must(p)
    BY <1>1, <2>1, <2>2 DEF Must, Before
  <2>4. Has(p)
    BY <1>0, <1>1, <2>3 DEF PassedInFile
  <2>5. QED
    BY <1>1, <2>1, <2>4 DEF Has
<1>4. t.done \subseteq In(f) /\ u.done \subseteq In(f)
  BY <1>2 DEF FileOK
<1>5. ASSUME NEW k \in t.done, k \notin u.done
      PROVE  FALSE
  <2>1. PICK j \in u.done : j \in EditsIn[f][k].bars /\ k \in EditsIn[f][j].bars
    BY <1>4, <1>5, PreparedRule
  <2>2. j \in t.done
    BY <1>3
  <2>3. QED
    BY <1>2, <1>5, <2>1, <2>2 DEF FileOK
<1>6. t.done = u.done
  BY <1>3, <1>5
<1>7. t.torn = FALSE /\ u.torn = FALSE
  BY <1>2, <1>3 DEF FileOK
<1>8. t.twice = {}
  <2>1. InPass
    BY <1>1 DEF InPass, Before
  <2>2. f = "config" => t.twice = {}
    BY <1>0, <2>1 DEF ConfigInPass
  <2>3. QED
    BY <1>2, <2>2, TwiceWithPool
<1>9. t.stale = u.stale
  BY <1>2, <1>6, <1>8 DEF FileOK
<1>10. /\ t \in [done : SUBSET In(f), stale : SUBSET In(f), twice : SUBSET In(f), torn : BOOLEAN]
       /\ u \in [done : SUBSET In(f), stale : SUBSET In(f), twice : SUBSET In(f), torn : BOOLEAN]
  BY <1>2 DEF FileOK
<1>11. QED
  BY <1>2, <1>6, <1>7, <1>8, <1>9, <1>10

\* Whatever was found in PROJECT_DIR, and in either order of the scripts: a command that
\* succeeds leaves the very sources that the scripts make of the repository's own.
THEOREM OneResultHolds == Spec => []OneResult
<1>1. ASSUME Inv
      PROVE  OneResult
  <2>1. SUFFICES ASSUME cmd.status = "ok"
                 PROVE  tree = Prepared
    BY DEF OneResult
  <2>2. \A f \in Files : tree[f] = Prepared[f]
    BY <1>1, <2>1, FileResult
  <2>3. tree = [f \in Files |-> tree[f]]
    BY <1>1 DEF Inv, TreeOK
  <2>4. QED
    BY <2>2, <2>3, PreparedRule
<1>2. QED
  BY <1>1, InvHolds, PTL

-----------------------------------------------------------------------------
(* Done again at once *)

\* When an item is done, each of its edits finds its work done.
LEMMA RepeatableKept ==
    ASSUME Inv, Repeatable, [Next]_vars
    PROVE  Repeatable'
<1>0. CmdOK /\ TreeOK /\ ItemKept
  BY DEF Inv
<1>1. CASE Begin
  <2>1. cmd'.item = 1
    BY <1>1, BeginCmd
  <2>2. ~(cmd'.item > 1)
    BY <2>1
  <2>3. QED
    BY <2>2 DEF Repeatable
<1>2. CASE CopyFile
  <2>1. cmd'.step = cmd.step + 1 /\ cmd.step \in 1 .. 19
    BY <1>0, <1>2, CopyCmd
  <2>2. cmd'.step # 1
    BY <2>1
  <2>3. QED
    BY <2>2 DEF Repeatable
<1>3. ASSUME NEW f \in Files, NEW k \in In(f), Passes(f, k)
      PROVE  Repeatable'
  <2>1. cmd'.step = cmd.step + 1 /\ cmd.step \in Nat \ {0}
    BY <1>0, <1>3, PassesCmd, PlanTypes
  <2>2. cmd'.step # 1
    BY <2>1
  <2>3. QED
    BY <2>2 DEF Repeatable
<1>4. CASE Advances
  <2>1. /\ cmd'.name = cmd.name /\ cmd'.item = cmd.item + 1 /\ tree' = tree
        /\ cmd.item \in 1 .. Items(cmd.name) /\ cmd.name \in DOMAIN Plan /\ Running
        /\ ~AlreadyPrepared => cmd.step = Size(Item) + 1 /\ Size(Item) \in 1 .. 19
    BY <1>0, <1>4, AdvancesCmd, PlanTypes DEF Advances
  <2>2. Plan[cmd'.name][cmd'.item - 1] = Item
    BY <2>1 DEF Item
  <2>3. ASSUME Item \notin {"rsync", "eventStack"}, NEW n \in DOMAIN Steps(Item)
        PROVE  Outcome(Steps(Item)[n].by, Steps(Item)[n].edit,
                       tree[Steps(Item)[n].edit.file]) = "kept"
    <3>1. DOMAIN Steps(Plan[cmd.name][cmd.item]) = 1 .. Size(Plan[cmd.name][cmd.item])
      BY <2>1, ItemTypes
    <3>2. n \in 1 .. Size(Item)
      BY <2>3, <3>1 DEF Item
    <3>3. n < cmd.step
      BY <2>1, <2>3, <3>2 DEF AlreadyPrepared
    <3>4. QED
      BY <1>0, <2>1, <2>3, <3>2, <3>3 DEF ItemKept
  <2>4. QED
    BY <2>1, <2>2, <2>3 DEF Repeatable
<1>5. CASE Finish
  BY <1>0, <1>5, Guards DEF Repeatable, Running, CmdOK
<1>6. CASE Stops \/ \E f \in Files : Tears(f)
  BY <1>0, <1>6, StopsCmd DEF Repeatable, Running
<1>7. CASE UNCHANGED vars
  BY <1>7 DEF vars, Repeatable, Running
<1>8. QED
  BY <1>1, <1>2, <1>3, <1>4, <1>5, <1>6, <1>7, StepCases

\* "Apply concurrency patch and verify idempotence", for every script but the event
\* stack and wherever it ran: done again at once, it finds its work done.
THEOREM RepeatableHolds == Spec => []Repeatable
<1>1. Init => Repeatable
  BY DEF Init, Repeatable
<1>2. Inv /\ Repeatable /\ [Next]_vars => Repeatable'
  BY RepeatableKept
<1>3. QED
  BY <1>1, <1>2, InvHolds, PTL DEF Spec

-----------------------------------------------------------------------------
(* Clean sources suffice *)

\* The event stack that an update runs early is skipped by its prebuild.
LEMMA StackIsSkipped ==
    ASSUME Inv, FromClean, AtStep, Item # "rsync", ~AlreadyPrepared, cmd.name = "update",
           cmd.item = Start[cmd.name] + 18
    PROVE  cmd.step >= 8
<1>0. CmdOK /\ PassedInFile /\ InStack
  BY DEF Inv, StackOK
<1>1. /\ cmd.name \in DOMAIN Plan /\ Start[cmd.name] = 3 /\ cmd.item = 21
      /\ Items(cmd.name) \in Nat /\ cmd.item \in 1 .. Items(cmd.name)
      /\ cmd.step \in Nat \ {0} /\ Running /\ Alive
  BY <1>0, PlanTypes, Guards DEF Alive
<1>2. 3 \in 1 .. Items(cmd.name)
  BY <1>1
<1>3. Plan[cmd.name][3] = "eventStack" /\ Item = "eventStack"
  BY <1>1, <1>2, ItemTypes DEF Item
<1>4. ASSUME NEW n \in 1 .. 10
      PROVE  Steps("eventStack")[n].by \in tree[Steps("eventStack")[n].edit.file].done
  <2> DEFINE p == <<3, n>>
  <2>0. cmd.name \in DOMAIN Plan
    BY <1>1
  <2>1. p \in Slots(cmd.name) /\ Slot(cmd.name, 3, n) = Steps("eventStack")[n]
    BY <2>0, <1>2, <1>3, StackSlots, Zenon
  <2>2. p[1] = 3 /\ p[2] = n /\ Slot(cmd.name, p[1], p[2]) = Steps("eventStack")[n]
    BY <2>1
  <2>3. Must(p)
    BY <1>1, <2>2 DEF Must, Before
  <2>4. Steps("eventStack")[n].edit.file # "client"
    BY StackPlaces, StackRule DEF StackSlot
  <2>5. QED
    BY <1>0, <1>1, <2>1, <2>2, <2>3, <2>4, HasDone
<1>5. FullyMaterialized /\ Backfilled
  BY <1>4, StackRule DEF StackSlot, FullyMaterialized, Backfilled
<1>6. cmd.step # 1
  BY <1>3, <1>5 DEF AlreadyPrepared
<1>7. cmd.step \notin 2 .. 8
  BY <1>0, <1>1, <1>3, <1>5 DEF InStack
<1>8. QED
  BY <1>1, <1>6, <1>7

\* In an install or update from clean sources no patch function is refused.
LEMMA NeverRefused ==
    ASSUME Inv, FromClean, PatchFile
    PROVE  Outcome(Step.by, Step.edit, tree[Step.edit.file]) # "refused"
<1> DEFINE q == <<cmd.item, cmd.step>>
           f == Step.edit.file
           k == Step.by
           e == EditsIn[f][k]
           clean == Clean(cmd.name, f, cmd.item, cmd.step)
<1>0. CmdOK /\ TreeOK /\ PassedInFile /\ CleanTree
  BY DEF Inv
<1>1. AtStep /\ Item # "rsync" /\ ~AlreadyPrepared
  BY DEF PatchFile
<1>2. /\ cmd.name \in DOMAIN Plan /\ cmd.name \in {"install", "update"}
      /\ cmd.item \in 1 .. Items(cmd.name) /\ cmd.item \in Nat \ {0} /\ Alive
  BY <1>0, <1>1, PlanTypes, Guards DEF Alive, FromClean
<1>3. /\ q \in Slots(cmd.name) /\ q[1] = cmd.item /\ q[2] = cmd.step
      /\ Step = Slot(cmd.name, q[1], q[2])
  BY <1>0, <1>1, AtSlot
<1>4. f \in Files /\ k \in In(f) /\ Step.edit = e
  BY <1>2, <1>3, SlotTypes
<1>5. cmd.item > 1
  BY <1>1, <1>2, ItemTypes DEF Item
<1>6. FileOK(f, tree[f]) /\ ~tree[f].torn /\ tree[f].done \subseteq clean
  BY <1>0, <1>2, <1>4, <1>5 DEF TreeOK, CleanTree
<1>7. clean \subseteq tree[f].done
  <2>1. ASSUME NEW j \in clean
        PROVE  j \in tree[f].done
    <3>1. PICK p \in Slots(cmd.name) :
              /\ Before(p[1], p[2], cmd.item, cmd.step)
              /\ Slot(cmd.name, p[1], p[2]).by = j
              /\ Slot(cmd.name, p[1], p[2]).edit.file = f
              /\ ~Undone(cmd.name, p[1], p[2], cmd.item, cmd.step)
      BY DEF Clean
    <3>2. Has(p)
      BY <1>0, <1>2, <3>1 DEF PassedInFile, Must
    <3>3. QED
      BY <3>1, <3>2 DEF Has
  <2>2. QED
    BY <2>1
<1>8. tree[f].done = clean
  BY <1>6, <1>7
<1>9. ~(cmd.name = "update" /\ q[1] = Start[cmd.name] + 18 /\ q[2] < 8)
  <2>1. cmd.step \in Nat
    BY <1>0, PlanTypes
  <2>2. cmd.name = "update" /\ cmd.item = Start[cmd.name] + 18 => cmd.step >= 8
    BY <1>1, StackIsSkipped
  <2>3. QED
    BY <1>3, <2>1, <2>2
<1>10. /\ e.needs \subseteq clean /\ ~Rewritten(f, k, clean)
       /\ k \in clean \/ e.bars \cap clean = {}
  <2> DEFINE s == Slot(cmd.name, q[1], q[2])
             c == Clean(cmd.name, s.edit.file, q[1], q[2])
  <2>1. /\ s.edit.needs \subseteq c /\ ~Rewritten(s.edit.file, s.by, c)
        /\ s.by \in c \/ s.edit.bars \cap c = {}
    BY <1>2, <1>3, <1>9, OrderRule, Zenon
  <2>2. s = Step /\ c = clean
    BY <1>3
  <2>3. QED
    BY <1>4, <2>1, <2>2
<1>11. e.file = f
  BY <1>4, EditRule
<1>12. k \in tree[f].done => Present(k, tree[f])
  BY <1>6, <1>8, <1>10 DEF FileOK, Present
<1>13. \A j \in tree[f].done : k \notin EditsIn[e.file][j].rewrites
  BY <1>8, <1>10, <1>11 DEF Rewritten, Rewrites
<1>14. QED
  BY <1>4, <1>6, <1>8, <1>10, <1>12, <1>13 DEF Outcome

\* An install or update from the repository's own sources gets past every patch,
\* whatever earlier commands, complete, failed or killed, have left in PROJECT_DIR.
THEOREM CleanSourcesSuffice == Spec => []CleanSourceSuffices
<1>1. Init => CleanSourceSuffices
  BY DEF Init, CleanSourceSuffices
<1>2. ASSUME Inv, CleanSourceSuffices, [Next]_vars
      PROVE  CleanSourceSuffices'
  <2>0. CmdOK
    BY <1>2 DEF Inv
  <2>1. CASE Begin
    BY <2>1, BeginCmd DEF CleanSourceSuffices
  <2>2. CASE CopyFile
    BY <2>0, <2>2, CopyCmd DEF CleanSourceSuffices
  <2>3. CASE PatchFile
    <3>1. /\ cmd'.name = cmd.name /\ cmd'.from = cmd.from /\ cmd.status = "running"
          /\ Outcome(Step.by, Step.edit, tree[Step.edit.file]) # "refused"
                => cmd'.status = cmd.status
      BY <2>0, <2>3, Guards DEF PatchFile, CmdOK
    <3>2. QED
      BY <1>2, <2>3, <3>1, NeverRefused DEF CleanSourceSuffices, FromClean
  <2>4. CASE NextItem
    BY <1>2, <2>0, <2>4, NextItemCases, AdvancesCmd DEF CleanSourceSuffices
  <2>5. CASE Finish \/ Kill
    BY <2>0, <2>5 DEF Finish, Kill, CmdOK, CleanSourceSuffices
  <2>6. CASE UNCHANGED vars
    BY <1>2, <2>6 DEF vars, CleanSourceSuffices
  <2>7. QED
    BY <1>2, <2>1, <2>2, <2>3, <2>4, <2>5, <2>6 DEF Next
<1>3. QED
  BY <1>1, <1>2, InvHolds, PTL DEF Spec
=============================================================================
