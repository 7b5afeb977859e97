-------------------------- MODULE ArchivePoolProofs --------------------------
(***************************************************************************)
(* Theorems of ArchivePool, for every number of sessions and workers, all  *)
(* limits and all bounds: the types, the refinement of SlotPool, what a    *)
(* start or restart timer may rely on, and that every call of a caller is  *)
(* in the chains once, whatever settles, supersedes or rejects its         *)
(* commands.                                                               *)
(*                                                                         *)
(* For callers that use fresh ids and a device registered once at a time:  *)
(* a session has one command under way, and what Node believes of a        *)
(* playback is what the worker process does with it.                       *)
(***************************************************************************)
EXTENDS ArchivePool, FiniteSetTheorems, FunctionTheorems, SequenceTheorems, TLAPS

-----------------------------------------------------------------------------
(* Facts about the data.                                                   *)

\* There are finitely many ack keys, hence finitely many waiters.
LEMMA KeysFinite == IsFiniteSet(Keys)
<1>1. IsFiniteSet(Ops)
  <2>1. IsFiniteSet({"start"} \cup {"stop"})
    BY FS_Singleton, FS_AddElement
  <2>2. QED
    BY <2>1, {"start"} \cup {"stop"} = Ops DEF Ops
<1>2. IsFiniteSet(Sessions \X Ops)
  BY <1>1, PoolAssumption, FS_Product
<1>3. DEFINE f == [p \in Sessions \X Ops |-> [s |-> p[1], op |-> p[2]]]
<1>4. f \in Surjection(Sessions \X Ops, Keys)
  <2>1. f \in [Sessions \X Ops -> Keys]
    BY DEF Keys, Cmds
  <2>2. ASSUME NEW k \in Keys
        PROVE  \E p \in Sessions \X Ops : f[p] = k
    <3>1. <<k.s, k.op>> \in Sessions \X Ops
      BY DEF Keys, Cmds
    <3>2. f[<<k.s, k.op>>] = k
      BY <3>1 DEF Keys, Cmds
    <3>3. QED
      BY <3>1, <3>2
  <2>3. QED
    BY <2>1, <2>2 DEF Surjection
<1>5. QED
  BY <1>2, <1>4, FS_Surjection

\* NoWorker is no worker index.
LEMMA NoWorkerIsNone == NoWorker \notin Workers /\ 0 \in Workers
BY PoolAssumption DEF NoWorker, Workers

\* A function on 1 .. n is a sequence.
LEMMA FunctionIsSequence ==
    ASSUME NEW S, NEW n \in Nat, NEW f \in [1 .. n -> S]
    PROVE  f \in Seq(S)
OBVIOUS

-----------------------------------------------------------------------------
(* The operators the actions share keep the types.                         *)

\* Settling waiters leaves waiters, due chains and call counts of their types.
LEMMA SettleAcksTypes ==
    ASSUME TypeOK, NEW K \in SUBSET Keys, NEW W \in SUBSET Workers,
           SettleAcks(K, W)
    PROVE  /\ pendingAcks' \in [Keys -> Waiters \cup {Idle}]
           /\ continuations' \in Seq(DueChains)
           /\ calls' \in [Sessions -> Int]
<1>1. pendingAcks' \in [Keys -> Waiters \cup {Idle}]
  <2>1. ASSUME NEW k \in Keys, pendingAcks[k].wk \in W
        PROVE  [pendingAcks[k] EXCEPT !.at = "removed", !.linked = FALSE] \in Waiters
    <3>1. pendingAcks[k] \in Waiters
      BY <2>1, NoWorkerIsNone DEF TypeOK, Idle
    <3>2. QED
      BY <3>1 DEF Waiters
  <2>2. QED
    BY <2>1 DEF SettleAcks, TypeOK
<1>2. continuations' \in Seq(DueChains)
  <2>1. DEFINE behind == {k \in K : pendingAcks[k].rest # <<>>}
               chains(q) == [i \in DOMAIN q |->
                               [wk     |-> pendingAcks[q[i]].wk,
                                rest   |-> pendingAcks[q[i]].rest,
                                linked |-> pendingAcks[q[i]].linked]]
               unlink(q) == [i \in 1 .. Len(q) |->
                               [q[i] EXCEPT !.linked = @ /\ q[i].wk \notin W]]
  <2>2. PICK q \in Orders(behind) :
            continuations' = unlink(continuations \o chains(q))
    BY DEF SettleAcks
  <2>3. Cardinality(behind) \in Nat
    BY KeysFinite, FS_Subset, FS_CardinalityType
  <2>4. q \in [1 .. Cardinality(behind) -> behind]
    BY DEF Orders
  <2>5. ASSUME NEW k \in behind
        PROVE  [wk |-> pendingAcks[k].wk, rest |-> pendingAcks[k].rest,
                linked |-> pendingAcks[k].linked] \in DueChains
    <3>1. pendingAcks[k] \in Waiters
      BY DEF TypeOK, Idle
    <3>2. QED
      BY <3>1 DEF Waiters, Chains, DueChains
  <2>6. chains(q) \in Seq(DueChains)
    <3>1. DOMAIN q = 1 .. Cardinality(behind)
      BY <2>4
    <3>2. \A i \in DOMAIN q : q[i] \in behind
      BY <2>4
    <3>3. chains(q) \in [1 .. Cardinality(behind) -> DueChains]
      BY <3>1, <3>2, <2>5
    <3>4. QED
      BY <2>3, <3>3, FunctionIsSequence
  <2>7. continuations \o chains(q) \in Seq(DueChains)
    BY <2>6, ConcatProperties DEF TypeOK
  <2>8. ASSUME NEW r \in Seq(DueChains)
        PROVE  unlink(r) \in Seq(DueChains)
    <3> HIDE DEF behind, chains
    <3>1. ASSUME NEW i \in 1 .. Len(r)
          PROVE  [r[i] EXCEPT !.linked = @ /\ r[i].wk \notin W] \in DueChains
      <4>1. r[i] \in DueChains
        BY ElementOfSeq
      <4>2. (r[i].linked /\ r[i].wk \notin W) \in BOOLEAN
        OBVIOUS
      <4>3. QED
        BY <4>1, <4>2 DEF DueChains, Chains
    <3>2. Len(r) \in Nat
      BY LenProperties
    <3>3. unlink(r) \in [1 .. Len(r) -> DueChains]
      BY <3>1
    <3>4. QED
      BY <3>2, <3>3
  <2>9. QED
    BY <2>2, <2>7, <2>8
<1>3. calls' \in [Sessions -> Int]
  <2>1. DEFINE settled == [s \in Sessions |-> Cardinality({k \in K : k.s = s})]
  <2>2. \A s \in Sessions : Cardinality({k \in K : k.s = s}) \in Nat
    BY KeysFinite, FS_Subset, FS_CardinalityType
  <2>3. settled \in [Sessions -> Nat]
    BY <2>2
  <2>4. calls' = [s \in Sessions |-> calls[s] - settled[s]]
    BY Zenon DEF SettleAcks
  <2>5. HIDE DEF settled
  <2>6. QED
    BY <2>3, <2>4 DEF TypeOK
<1>4. QED
  BY <1>1, <1>2, <1>3

\* Queueing a command leaves waiters and due chains of their types.
LEMMA QueueTypes ==
    ASSUME TypeOK, NEW w \in Workers, NEW cmd \in Cmds,
           QueueGroupedPlaybackCommand(w, cmd)
    PROVE  /\ pendingAcks' \in [Keys -> Waiters \cup {Idle}]
           /\ continuations' \in Seq(DueChains)
<1>1. ASSUME NEW r \in Seq(Cmds)
      PROVE  Append(r, cmd) \in Seq(Cmds) /\ Append(r, cmd) # <<>>
  BY AppendProperties
<1>2. pendingAcks' \in [Keys -> Waiters \cup {Idle}]
  <2>1. ASSUME NEW k \in Keys, pendingAcks[k].linked
        PROVE  [pendingAcks[k] EXCEPT !.rest = Append(@, cmd)] \in Waiters
    <3>1. pendingAcks[k] \in Waiters
      BY <2>1 DEF TypeOK, Idle
    <3>2. QED
      BY <1>1, <3>1 DEF Waiters
  <2>2. QED
    BY <2>1 DEF QueueGroupedPlaybackCommand, TypeOK
<1>3. continuations' \in Seq(DueChains)
  <2>1. [wk |-> w, rest |-> <<cmd>>, linked |-> TRUE] \in DueChains
    BY DEF DueChains, Chains
  <2>2. ASSUME NEW c \in DueChains
        PROVE  [c EXCEPT !.rest = Append(@, cmd)] \in DueChains
    BY <1>1 DEF DueChains, Chains
  <2>3. /\ Len(continuations) \in Nat
        /\ DOMAIN continuations = 1 .. Len(continuations)
        /\ \A i \in DOMAIN continuations : continuations[i] \in DueChains
    BY DEF TypeOK
  <2>4. ASSUME NEW D,
               continuations' = [i \in DOMAIN continuations |->
                      IF i \in D
                      THEN [continuations[i] EXCEPT !.rest = Append(@, cmd)]
                      ELSE continuations[i]]
        PROVE  continuations' \in [1 .. Len(continuations) -> DueChains]
    BY <2>2, <2>3, <2>4
  <2>5. Append(continuations, [wk |-> w, rest |-> <<cmd>>, linked |-> TRUE])
            \in Seq(DueChains)
    BY <2>1, AppendProperties DEF TypeOK
  <2>6. QED
    BY <2>3, <2>4, <2>5, FunctionIsSequence DEF QueueGroupedPlaybackCommand, TypeOK
<1>4. QED
  BY <1>2, <1>3

\* The next due chain has a next command, and what is left of it is a chain.
LEMMA NextChainTypes ==
    ASSUME TypeOK, continuations # <<>>
    PROVE  /\ NextChain \in DueChains
           /\ NextChain.wk \in Workers
           /\ NextCmd \in Cmds
           /\ Tail(NextChain.rest) \in Seq(Cmds)
           /\ Tail(continuations) \in Seq(DueChains)
<1>1. NextChain \in DueChains /\ Tail(continuations) \in Seq(DueChains)
  BY HeadTailProperties DEF TypeOK, NextChain
<1>2. QED
  BY <1>1, HeadTailProperties DEF DueChains, Chains, NextCmd

\* Pipes and playback maps have their types after processes were replaced ...
LEMMA BlankTypes ==
    ASSUME TypeOK, NEW W, BlankProcesses(W)
    PROVE  /\ playbacks' \in [Workers -> SUBSET Sessions]
           /\ stdin' \in [Workers -> Seq(Cmds)]
           /\ lineBuffer' \in [Workers -> Seq(Cmds)]
           /\ stderr' \in [Workers -> Seq(Replies)]
BY DEF TypeOK, BlankProcesses

\* ... after one died ...
LEMMA DeathTypes ==
    ASSUME TypeOK, NEW w \in Workers, ProcessDies(w)
    PROVE  /\ playbacks' \in [Workers -> SUBSET Sessions]
           /\ stdin' \in [Workers -> Seq(Cmds)]
           /\ lineBuffer' \in [Workers -> Seq(Cmds)]
BY DEF TypeOK, ProcessDies

\* ... and after a line was written.
LEMMA LineTypes ==
    ASSUME TypeOK, NEW w \in Workers, NEW cmd \in Cmds, WriteLine(w, cmd)
    PROVE  stdin' \in [Workers -> Seq(Cmds)]
<1>1. \A r \in Seq(Cmds) : Append(r, cmd) \in Seq(Cmds)
  BY AppendProperties
<1>2. QED
  BY <1>1 DEF TypeOK, WriteLine

\* The promise of a command settles: assignments and holders keep their types.
LEMMA SettleTypes ==
    ASSUME TypeOK, NEW k \in Keys, NEW ok \in BOOLEAN, Settle(k, ok)
    PROVE  /\ pendingAcks' \in [Keys -> Waiters \cup {Idle}]
           /\ continuations' \in Seq(DueChains)
           /\ calls' \in [Sessions -> Int]
           /\ assignments' \in [Sessions -> Workers \cup {NoWorker}]
           /\ held' \in SUBSET Sessions
<1>1. SettleAcks({k}, {})
  BY DEF Settle
<1>2. assignments' \in [Sessions -> Workers \cup {NoWorker}] /\ held' \in SUBSET Sessions
  BY DEF Settle, Release, TypeOK, Keys, Cmds
<1>3. QED
  BY <1>1, <1>2, SettleAcksTypes

-----------------------------------------------------------------------------
(* Types.                                                                  *)

\* Forgetting every child settles all waiters and blanks all processes.
LEMMA ClearTypes ==
    ASSUME TypeOK, ClearArchivePool
    PROVE  /\ restartTimers' \in [Workers -> BOOLEAN]
           /\ assignments' \in [Sessions -> Workers \cup {NoWorker}]
           /\ pendingAcks' \in [Keys -> Waiters \cup {Idle}]
           /\ continuations' \in Seq(DueChains)
           /\ calls' \in [Sessions -> Int]
           /\ held' \in SUBSET Sessions
           /\ playbacks' \in [Workers -> SUBSET Sessions]
           /\ stdin' \in [Workers -> Seq(Cmds)]
           /\ lineBuffer' \in [Workers -> Seq(Cmds)]
           /\ stderr' \in [Workers -> Seq(Replies)]
<1>1. SettleAcks(Waiting, {w \in Workers : archiveRuntimes[w] # "none"})
  BY DEF ClearArchivePool
<1>2. Waiting \in SUBSET Keys /\ {w \in Workers : archiveRuntimes[w] # "none"} \in SUBSET Workers
  BY DEF Waiting
<1>3. BlankProcesses(Workers)
  BY DEF ClearArchivePool
<1>4. /\ restartTimers' \in [Workers -> BOOLEAN]
      /\ assignments' \in [Sessions -> Workers \cup {NoWorker}]
      /\ held' \in SUBSET Sessions
  BY DEF ClearArchivePool, TypeOK
<1>5. QED
  BY <1>1, <1>2, <1>3, <1>4, SettleAcksTypes, BlankTypes

\* Every step keeps the types.
LEMMA TypePreserved == TypeOK /\ [Next]_vars => TypeOK'
<1> SUFFICES ASSUME TypeOK, [Next]_vars
             PROVE  TypeOK'
  OBVIOUS
<1>1. CASE RegisterNativeDeviceRuntime
  <2>1. ClearArchivePool
    BY <1>1 DEF RegisterNativeDeviceRuntime
  <2>2. /\ factory' \in BOOLEAN
        /\ archiveRuntimes' \in [Workers -> ChildStates]
        /\ initialTimers' \in [Workers -> BOOLEAN]
    BY <1>1 DEF RegisterNativeDeviceRuntime, ChildStates
  <2>3. QED
    BY <2>1, <2>2, ClearTypes DEF TypeOK
<1>2. CASE UnregisterNativeDeviceRuntime
  <2>1. ClearArchivePool
    BY <1>2 DEF UnregisterNativeDeviceRuntime
  <2>2. /\ factory' \in BOOLEAN
        /\ archiveRuntimes' \in [Workers -> ChildStates]
        /\ initialTimers' \in [Workers -> BOOLEAN]
    BY <1>2 DEF UnregisterNativeDeviceRuntime, ChildStates
  <2>3. QED
    BY <2>1, <2>2, ClearTypes DEF TypeOK
<1>3. ASSUME NEW w \in Workers, InitialStart(w) \/ Restart(w)
      PROVE  TypeOK'
  <2>1. /\ archiveRuntimes' \in [Workers -> ChildStates]
        /\ playbacks' \in [Workers -> SUBSET Sessions]
        /\ stdin' \in [Workers -> Seq(Cmds)]
        /\ lineBuffer' \in [Workers -> Seq(Cmds)]
        /\ stderr' \in [Workers -> Seq(Replies)]
    <3>1. StartArchiveRuntime(w)
      BY <1>3 DEF InitialStart, Restart
    <3>2. CASE Usable(w) \/ ~factory
      BY <3>1, <3>2 DEF StartArchiveRuntime, procVars, TypeOK
    <3>3. CASE ~(Usable(w) \/ ~factory)
      BY <3>1, <3>3, BlankTypes DEF StartArchiveRuntime, TypeOK, ChildStates
    <3>4. QED
      BY <3>2, <3>3
  <2>2. /\ restartTimers' \in [Workers -> BOOLEAN]
        /\ initialTimers' \in [Workers -> BOOLEAN]
        /\ UNCHANGED <<factory, assignments, pendingAcks, continuations, calls, held>>
    BY <1>3 DEF InitialStart, Restart, TypeOK
  <2>3. QED
    BY <2>1, <2>2 DEF TypeOK
<1>4. ASSUME NEW w \in Workers, StartFails(w)
      PROVE  TypeOK'
  BY <1>4 DEF StartFails, procVars, TypeOK
<1>5. ASSUME NEW w \in Workers, WorkerCrashes(w)
      PROVE  TypeOK'
  BY <1>5, DeathTypes DEF WorkerCrashes, TypeOK, ChildStates
<1>6. ASSUME NEW w \in Workers, ArchiveWorkerExit(w)
      PROVE  TypeOK'
  <2>1. /\ SettleAcks({k \in Waiting : assignments[k.s] = w}, {w})
        /\ {k \in Waiting : assignments[k.s] = w} \in SUBSET Keys
        /\ {w} \in SUBSET Workers
        /\ BlankProcesses({w})
    BY <1>6 DEF ArchiveWorkerExit, Waiting
  <2>2. /\ archiveRuntimes' \in [Workers -> ChildStates]
        /\ restartTimers' \in [Workers -> BOOLEAN]
        /\ assignments' \in [Sessions -> Workers \cup {NoWorker}]
        /\ UNCHANGED <<factory, initialTimers, held>>
    BY <1>6 DEF ArchiveWorkerExit, ChildStates, TypeOK
  <2>3. QED
    BY <2>1, <2>2, SettleAcksTypes, BlankTypes DEF TypeOK
<1>7. ASSUME NEW w \in Workers, HandleStatusLine(w)
      PROVE  TypeOK'
  <2>1. Head(stderr[w]) \in Replies /\ Tail(stderr[w]) \in Seq(Replies)
    BY <1>7, HeadTailProperties DEF HandleStatusLine, TypeOK
  <2>2. stderr' \in [Workers -> Seq(Replies)]
    BY <1>7, <2>1 DEF HandleStatusLine, TypeOK
  <2>3. DEFINE reply == Head(stderr[w])
               k == [s |-> reply.s, op |-> reply.op]
  <2>4. reply.ok \in BOOLEAN /\ k \in Keys
    BY <2>1 DEF Replies, Keys, Cmds
  <2>5. /\ pendingAcks' \in [Keys -> Waiters \cup {Idle}]
        /\ continuations' \in Seq(DueChains)
        /\ calls' \in [Sessions -> Int]
        /\ assignments' \in [Sessions -> Workers \cup {NoWorker}]
        /\ held' \in SUBSET Sessions
    <3>1. CASE Settle(k, reply.ok)
      <4> HIDE DEF k, reply
      <4>1. QED
        BY <2>4, <3>1, SettleTypes
    <3>2. CASE UNCHANGED <<assignments, pendingAcks, continuations, calls, held>>
      BY <3>2 DEF TypeOK
    <3>3. QED
      BY <1>7, <3>1, <3>2 DEF HandleStatusLine
  <2>6. UNCHANGED <<factory, archiveRuntimes, restartTimers, initialTimers,
                    playbacks, stdin, lineBuffer>>
    BY <1>7 DEF HandleStatusLine
  <2>7. QED
    BY <2>2, <2>5, <2>6 DEF TypeOK
<1>8. ASSUME NEW w \in Workers, WorkerCommand(w)
      PROVE  TypeOK'
  <2>1. /\ stdin' \in [Workers -> Seq(Cmds)]
        /\ lineBuffer' \in [Workers -> Seq(Cmds)]
    <3>1. stdin[w] # <<>> /\ ReadLine(w)
      BY <1>8 DEF WorkerCommand, ReadLine
    <3>2. Tail(stdin[w]) \in Seq(Cmds)
      BY <3>1, HeadTailProperties DEF TypeOK
    <3>3. lineBuffer[w] # <<>> => Tail(lineBuffer[w]) \in Seq(Cmds)
      BY HeadTailProperties DEF TypeOK
    <3>4. QED
      BY <3>1, <3>2, <3>3 DEF ReadLine, TypeOK
  <2>2. Head(InputLines(w)) \in Cmds
    <3>1. InputLines(w) \in Seq(Cmds) /\ InputLines(w) # <<>>
      <4>1. lineBuffer[w] \in Seq(Cmds) /\ stdin[w] \in Seq(Cmds) /\ stdin[w] # <<>>
        BY <1>8 DEF WorkerCommand, ReadLine, TypeOK
      <4>2. QED
        BY <4>1, ConcatProperties, ConcatEqualIffEmpty DEF InputLines
    <3>2. QED
      BY <3>1, HeadTailProperties
  <2>3. ASSUME NEW cmd \in Cmds, StartPlayback(w, cmd) \/ StopPlayback(w, cmd)
        PROVE  /\ playbacks' \in [Workers -> SUBSET Sessions]
               /\ stderr' \in [Workers -> Seq(Replies)]
    <3>1. ASSUME NEW ok \in BOOLEAN, EmitPlaybackStatus(w, cmd, ok)
          PROVE  stderr' \in [Workers -> Seq(Replies)]
      <4>1. [s |-> cmd.s, op |-> cmd.op, ok |-> ok] \in Replies
        BY DEF Cmds, Replies
      <4>2. \A r \in Seq(Replies) :
               Append(r, [s |-> cmd.s, op |-> cmd.op, ok |-> ok]) \in Seq(Replies)
        BY <4>1, AppendProperties
      <4>3. QED
        BY <3>1, <4>2 DEF EmitPlaybackStatus, TypeOK
    <3>2. stderr' \in [Workers -> Seq(Replies)]
      BY <2>3, <3>1 DEF StartPlayback, StopPlayback
    <3>3. cmd.s \in Sessions /\ playbacks \in [Workers -> SUBSET Sessions]
      BY DEF Cmds, TypeOK
    <3>4. playbacks' \in [Workers -> SUBSET Sessions]
      BY <2>3, <3>3 DEF StartPlayback, StopPlayback
    <3>5. QED
      BY <3>2, <3>4
  <2>4. UNCHANGED nodeVars
    BY <1>8 DEF WorkerCommand
  <2>5. /\ playbacks' \in [Workers -> SUBSET Sessions]
        /\ stderr' \in [Workers -> Seq(Replies)]
    BY <1>8, <2>2, <2>3 DEF WorkerCommand
  <2>6. QED
    BY <2>1, <2>4, <2>5 DEF TypeOK, nodeVars
<1>9. ASSUME NEW s \in Sessions, StartGroupedPlayback(s)
      PROVE  TypeOK'
  <2>1. [s |-> s, op |-> "start"] \in Cmds
    BY DEF Cmds, Ops
  <2>2. PICK w \in Workers :
            /\ assignments' = [assignments EXCEPT ![s] = w]
            /\ QueueGroupedPlaybackCommand(w, [s |-> s, op |-> "start"])
    BY <1>9 DEF StartGroupedPlayback
  <2>3. /\ pendingAcks' \in [Keys -> Waiters \cup {Idle}]
        /\ continuations' \in Seq(DueChains)
    BY <2>1, <2>2, QueueTypes
  <2>4. QED
    BY <1>9, <2>2, <2>3 DEF StartGroupedPlayback, procVars, TypeOK
<1>10. ASSUME NEW s \in Sessions, StopGroupedPlayback(s)
       PROVE  TypeOK'
  <2>1. [s |-> s, op |-> "stop"] \in Cmds /\ assignments[s] \in Workers
    BY <1>10 DEF Cmds, Ops, StopGroupedPlayback, TypeOK
  <2>2. /\ pendingAcks' \in [Keys -> Waiters \cup {Idle}]
        /\ continuations' \in Seq(DueChains)
    BY <1>10, <2>1, QueueTypes DEF StopGroupedPlayback
  <2>3. QED
    BY <1>10, <2>2 DEF StopGroupedPlayback, procVars, TypeOK
<1>11. ASSUME NEW s \in Sessions, StopUnassigned(s)
       PROVE  TypeOK'
  BY <1>11 DEF StopUnassigned, procVars, TypeOK
<1>12. CASE WriteCommandWithAck
  <2>1. /\ NextChain \in DueChains /\ NextChain.wk \in Workers /\ NextCmd \in Cmds
        /\ Tail(NextChain.rest) \in Seq(Cmds)
        /\ Tail(continuations) \in Seq(DueChains)
    BY <1>12, NextChainTypes DEF WriteCommandWithAck
  <2>2. pendingAcks' \in [Keys -> Waiters \cup {Idle}]
    <3>1. [at     |-> IF archiveRuntimes[NextChain.wk] = "ready" THEN "sent" ELSE "lost",
           wk     |-> NextChain.wk,
           rest   |-> Tail(NextChain.rest),
           linked |-> NextChain.linked] \in Waiters
      BY <2>1 DEF Waiters, DueChains, Chains
    <3>2. QED
      BY <1>12, <3>1 DEF WriteCommandWithAck, TypeOK
  <2>3. continuations' \in Seq(DueChains)
    <3>1. DEFINE old == pendingAcks[NextCmd]
    <3>2. CASE old.rest = <<>>
      BY <1>12, <2>1, <3>2 DEF WriteCommandWithAck
    <3>3. CASE old.rest # <<>>
      <4>1. old \in Waiters
        BY <2>1, <3>3 DEF TypeOK, Idle, Keys
      <4>2. [wk |-> old.wk, rest |-> old.rest, linked |-> old.linked] \in DueChains
        BY <3>3, <4>1 DEF Waiters, DueChains, Chains
      <4>3. QED
        BY <1>12, <2>1, <3>3, <4>2, AppendProperties DEF WriteCommandWithAck
    <3>4. QED
      BY <3>2, <3>3
  <2>4. /\ assignments' \in [Sessions -> Workers \cup {NoWorker}]
        /\ calls' \in [Sessions -> Int]
    BY <1>12 DEF WriteCommandWithAck, Release, TypeOK
  <2>5. stdin' \in [Workers -> Seq(Cmds)]
    BY <1>12, <2>1, LineTypes DEF WriteCommandWithAck
  <2>6. QED
    BY <1>12, <2>2, <2>3, <2>4, <2>5 DEF WriteCommandWithAck, TypeOK
<1>13. CASE CommandRejected
  <2>1. /\ NextChain \in DueChains /\ NextCmd \in Cmds
        /\ Tail(NextChain.rest) \in Seq(Cmds)
        /\ Tail(continuations) \in Seq(DueChains)
    BY <1>13, NextChainTypes DEF CommandRejected
  <2>2. continuations' \in Seq(DueChains)
    <3>1. CASE Tail(NextChain.rest) = <<>>
      BY <1>13, <2>1, <3>1 DEF CommandRejected
    <3>2. CASE Tail(NextChain.rest) # <<>>
      <4>1. ChainAfter(NextChain) \in DueChains
        BY <2>1, <3>2 DEF ChainAfter, DueChains, Chains
      <4>2. <<ChainAfter(NextChain)>> \in Seq(DueChains)
        BY <4>1
      <4>3. QED
        BY <1>13, <2>1, <3>2, <4>2, ConcatProperties DEF CommandRejected
    <3>3. QED
      BY <3>1, <3>2
  <2>3. /\ assignments' \in [Sessions -> Workers \cup {NoWorker}]
        /\ calls' \in [Sessions -> Int]
    <3>1. /\ assignments' = [assignments EXCEPT ![NextCmd.s] = NoWorker]
          /\ calls' = [calls EXCEPT ![NextCmd.s] = @ - 1]
      BY <1>13, Zenon DEF CommandRejected, Release
    <3>2. NextCmd.s \in Sessions
      BY <2>1 DEF Cmds
    <3>3. /\ assignments \in [Sessions -> Workers \cup {NoWorker}]
          /\ calls \in [Sessions -> Int]
      BY DEF TypeOK
    <3>4. assignments' \in [Sessions -> Workers \cup {NoWorker}]
      BY <3>1, <3>3
    <3>5. QED
      BY <3>1, <3>2, <3>3, <3>4
  <2>4. QED
    BY <1>13, <2>2, <2>3 DEF CommandRejected, procVars, TypeOK
<1>14. ASSUME NEW k \in Keys, StartAckTimeout(k)
       PROVE  TypeOK'
  <2>1. Settle(k, FALSE)
    BY <1>14 DEF StartAckTimeout
  <2>2. stdin' \in [Workers -> Seq(Cmds)]
    <3>1. pendingAcks[k] \in Waiters
      BY <1>14 DEF StartAckTimeout, Waiting, TypeOK, Idle
    <3>2. pendingAcks[k].wk \in Workers /\ [s |-> k.s, op |-> "stop"] \in Cmds
      BY <3>1 DEF Waiters, Keys, Cmds, Ops
    <3>3. QED
      BY <1>14, <3>2, LineTypes DEF StartAckTimeout, TypeOK
  <2>3. QED
    BY <1>14, <2>1, <2>2, SettleTypes DEF StartAckTimeout, TypeOK
<1>15. ASSUME NEW k \in Keys, StopAckTimeout(k)
       PROVE  TypeOK'
  <2>1. Settle(k, FALSE)
    BY <1>15 DEF StopAckTimeout
  <2>2. pendingAcks[k].wk \in Workers
    BY <1>15 DEF StopAckTimeout, Waiting, TypeOK, Idle, Waiters
  <2>3. /\ archiveRuntimes' \in [Workers -> ChildStates]
        /\ playbacks' \in [Workers -> SUBSET Sessions]
        /\ stdin' \in [Workers -> Seq(Cmds)]
        /\ lineBuffer' \in [Workers -> Seq(Cmds)]
    BY <1>15, <2>2, DeathTypes DEF StopAckTimeout, TypeOK, ChildStates
  <2>4. QED
    BY <1>15, <2>1, <2>3, SettleTypes DEF StopAckTimeout, TypeOK
<1>16. ASSUME NEW k \in Keys, WriteError(k)
       PROVE  TypeOK'
  <2>1. Settle(k, FALSE)
    BY <1>16 DEF WriteError
  <2>2. archiveRuntimes' \in [Workers -> ChildStates]
    BY <1>16 DEF WriteError, TypeOK, ChildStates
  <2>3. QED
    BY <1>16, <2>1, <2>2, SettleTypes DEF WriteError, procVars, TypeOK
<1>17. CASE UNCHANGED vars
  BY <1>17 DEF vars, nodeVars, procVars, TypeOK
<1>18. QED
  BY <1>1, <1>2, <1>3, <1>4, <1>5, <1>6, <1>7, <1>8, <1>9, <1>10, <1>11, <1>12,
     <1>13, <1>14, <1>15, <1>16, <1>17 DEF Next

\* Every variable keeps its type: a chain or a waiter always names a worker of
\* the pool, and a due chain always has a next command (deviceRuntime.ts).
THEOREM TypeCorrect == Spec => []TypeOK
<1>1. Init => TypeOK
  BY NoWorkerIsNone DEF Init, TypeOK, ChildStates
<1>2. QED
  BY <1>1, TypePreserved, PTL DEF Spec

-----------------------------------------------------------------------------
(* The timers.                                                             *)

\* What settling waiters does to the others: their worker stays, and those whose
\* entry was deleted become "removed".
LEMMA SettleAcksWaiters ==
    ASSUME TypeOK, NEW K, NEW W \in SUBSET Workers, SettleAcks(K, W),
           NEW k \in Waiting'
    PROVE  /\ k \in Waiting
           /\ pendingAcks'[k].wk = pendingAcks[k].wk
           /\ pendingAcks[k].at = "removed" => pendingAcks'[k].at = "removed"
           /\ pendingAcks[k].wk \in W => pendingAcks'[k].at = "removed"
<1>1. k \in Keys /\ pendingAcks'[k].at # "idle"
  BY DEF Waiting, Keys, Cmds
<1>2. k \notin K
  BY <1>1 DEF SettleAcks, Idle
<1>3. pendingAcks'[k] = IF pendingAcks[k].wk \in W
                        THEN [pendingAcks[k] EXCEPT !.at = "removed", !.linked = FALSE]
                        ELSE pendingAcks[k]
  BY <1>1, <1>2 DEF SettleAcks
<1>4. pendingAcks[k] \in Waiters \/ pendingAcks[k] = Idle
  BY <1>1 DEF TypeOK
<1>5. CASE pendingAcks[k] \in Waiters
  BY <1>1, <1>3, <1>5 DEF Waiters, Waiting
<1>6. CASE pendingAcks[k] = Idle
  BY <1>1, <1>3, <1>6, NoWorkerIsNone DEF Idle, Waiting
<1>7. QED
  BY <1>4, <1>5, <1>6

\* One worker's part of TimersFindNoWorker.
TimersOf(w) ==
    restartTimers[w] \/ initialTimers[w] =>
        /\ archiveRuntimes[w] = "none"
        /\ ~(restartTimers[w] /\ initialTimers[w])
        /\ \A s \in Sessions : assignments[s] # w
        /\ \A k \in Waiting : pendingAcks[k].wk = w => pendingAcks[k].at = "removed"

\* A step that sets no timer, changes no entry with one set, and assigns, if at
\* all, to a worker with an entry, keeps the invariant.
LEMMA TimersKept ==
    ASSUME TimersFindNoWorker,
           NEW w \in Workers,
           restartTimers'[w] => restartTimers[w],
           initialTimers'[w] => initialTimers[w],
           (restartTimers[w] \/ initialTimers[w]) /\ archiveRuntimes[w] = "none"
               => archiveRuntimes'[w] = "none",
           \A s \in Sessions : assignments'[s] = w =>
               assignments[s] = w \/ archiveRuntimes[w] # "none",
           \A k \in Waiting' : pendingAcks'[k].wk = w =>
               \/ archiveRuntimes[w] # "none"
               \/ /\ k \in Waiting /\ pendingAcks[k].wk = w
                  /\ pendingAcks[k].at = "removed" => pendingAcks'[k].at = "removed"
    PROVE  TimersOf(w)'
BY DEF TimersFindNoWorker, TimersOf

\* Settling one waiter and releasing its session, without touching entries.
LEMMA SettleKeepsTimers ==
    ASSUME TypeOK, TimersFindNoWorker, NEW k \in Keys, NEW ok, Settle(k, ok),
           UNCHANGED <<restartTimers, initialTimers>>,
           \A w \in Workers :
               (restartTimers[w] \/ initialTimers[w]) /\ archiveRuntimes[w] = "none"
                   => archiveRuntimes'[w] = "none"
    PROVE  TimersFindNoWorker'
<1>1. SettleAcks({k}, {})
  BY DEF Settle
<1>2. \A j \in Waiting' : /\ j \in Waiting
                          /\ pendingAcks'[j].wk = pendingAcks[j].wk
                          /\ pendingAcks[j].at = "removed" => pendingAcks'[j].at = "removed"
  BY <1>1, SettleAcksWaiters
<1>3. \A s \in Sessions : assignments'[s] \in {assignments[s], NoWorker}
  BY DEF Settle, Release, TypeOK
<1>4. ASSUME NEW w \in Workers
      PROVE  TimersOf(w)'
  <2>1. w # NoWorker
    BY NoWorkerIsNone
  <2>2. QED
    BY <1>2, <1>3, <2>1, TimersKept
<1>5. QED
  BY <1>4 DEF TimersFindNoWorker, TimersOf

\* Every step keeps TimersFindNoWorker.
LEMMA TimersPreserved ==
    TypeOK /\ TimersFindNoWorker /\ [Next]_vars => TimersFindNoWorker'
<1> SUFFICES ASSUME TypeOK, TimersFindNoWorker, [Next]_vars
             PROVE  \A w \in Workers : TimersOf(w)'
  BY DEF TimersFindNoWorker, TimersOf
<1> TAKE w \in Workers
<1>0. w # NoWorker
  BY NoWorkerIsNone
<1>1. CASE RegisterNativeDeviceRuntime \/ UnregisterNativeDeviceRuntime
  <2>1. ClearArchivePool
    BY <1>1 DEF RegisterNativeDeviceRuntime, UnregisterNativeDeviceRuntime
  <2>2. Waiting' = {}
    <3>1. /\ SettleAcks(Waiting, {v \in Workers : archiveRuntimes[v] # "none"})
          /\ {v \in Workers : archiveRuntimes[v] # "none"} \in SUBSET Workers
      BY <2>1 DEF ClearArchivePool
    <3>2. ASSUME NEW k \in Waiting'
          PROVE  FALSE
      <4>1. k \in Waiting
        BY <3>1, SettleAcksWaiters
      <4>2. pendingAcks'[k] = Idle
        BY <3>1, <4>1 DEF SettleAcks, Waiting, Keys, Cmds
      <4>3. QED
        BY <4>2 DEF Waiting, Idle
    <3>3. QED
      BY <3>2
  <2>3. \A s \in Sessions : assignments'[s] # w
    BY <2>1, <1>0 DEF ClearArchivePool
  <2>4. ~restartTimers'[w]
    BY <2>1 DEF ClearArchivePool
  <2>5. initialTimers'[w] => archiveRuntimes'[w] = "none"
    BY <1>1 DEF RegisterNativeDeviceRuntime, UnregisterNativeDeviceRuntime
  <2>6. QED
    BY <2>2, <2>3, <2>4, <2>5 DEF TimersOf
<1>2. ASSUME NEW v \in Workers, InitialStart(v) \/ Restart(v)
      PROVE  TimersOf(w)'
  <2>1. /\ ~(restartTimers[v] /\ initialTimers[v])
        /\ restartTimers[v] \/ initialTimers[v]
    BY <1>2 DEF TimersFindNoWorker, InitialStart, Restart
  <2>2. ~restartTimers'[v] /\ ~initialTimers'[v]
    BY <1>2, <2>1 DEF InitialStart, Restart, TypeOK
  <2>3. CASE w = v
    BY <2>2, <2>3 DEF TimersOf
  <2>4. CASE w # v
    <3>1. archiveRuntimes'[w] = archiveRuntimes[w]
      BY <1>2, <2>4 DEF InitialStart, Restart, StartArchiveRuntime, TypeOK
    <3>2. /\ restartTimers'[w] = restartTimers[w] /\ initialTimers'[w] = initialTimers[w]
          /\ UNCHANGED <<assignments, pendingAcks>>
      BY <1>2, <2>4 DEF InitialStart, Restart, TypeOK
    <3>3. QED
      BY <3>1, <3>2 DEF TimersFindNoWorker, TimersOf, Waiting
  <2>5. QED
    BY <2>3, <2>4
<1>3. ASSUME NEW v \in Workers, StartFails(v)
      PROVE  TimersOf(w)'
  BY <1>3, TimersKept DEF StartFails, Waiting, TypeOK
<1>4. ASSUME NEW v \in Workers, WorkerCrashes(v)
      PROVE  TimersOf(w)'
  BY <1>4, TimersKept DEF WorkerCrashes, Waiting, TypeOK
<1>5. ASSUME NEW v \in Workers, ArchiveWorkerExit(v)
      PROVE  TimersOf(w)'
  <2>1. SettleAcks({k \in Waiting : assignments[k.s] = v}, {v})
    BY <1>5 DEF ArchiveWorkerExit
  <2>2. \A k \in Waiting' :
            /\ k \in Waiting
            /\ pendingAcks'[k].wk = pendingAcks[k].wk
            /\ pendingAcks[k].at = "removed" => pendingAcks'[k].at = "removed"
            /\ pendingAcks[k].wk \in {v} => pendingAcks'[k].at = "removed"
    BY <2>1, SettleAcksWaiters
  <2>3. /\ archiveRuntimes[v] # "none"
        /\ archiveRuntimes' = [archiveRuntimes EXCEPT ![v] = "none"]
        /\ assignments' = [s \in Sessions |->
                              IF assignments[s] = v THEN NoWorker ELSE assignments[s]]
        /\ restartTimers' = [restartTimers EXCEPT ![v] = @ \/ factory]
        /\ UNCHANGED initialTimers
    BY <1>5 DEF ArchiveWorkerExit
  <2>4. CASE w = v
    <3>1. ~initialTimers[w] /\ ~restartTimers[w]
      BY <2>3, <2>4 DEF TimersFindNoWorker
    <3>2. archiveRuntimes'[w] = "none" /\ \A s \in Sessions : assignments'[s] # w
      BY <2>3, <2>4, <1>0 DEF TypeOK
    <3>3. QED
      BY <2>2, <2>3, <2>4, <3>1, <3>2 DEF TimersOf
  <2>5. CASE w # v
    <3>1. restartTimers'[w] = restartTimers[w] /\ archiveRuntimes'[w] = archiveRuntimes[w]
      BY <2>3, <2>5 DEF TypeOK
    <3>2. \A s \in Sessions : assignments'[s] = w => assignments[s] = w
      BY <2>3, <1>0
    <3>3. QED
      BY <2>2, <2>3, <3>1, <3>2, TimersKept
  <2>6. QED
    BY <2>4, <2>5
<1>6. ASSUME NEW v \in Workers, HandleStatusLine(v)
      PROVE  TimersOf(w)'
  <2>1. DEFINE reply == Head(stderr[v])
               k == [s |-> reply.s, op |-> reply.op]
  <2>2. UNCHANGED <<restartTimers, initialTimers, archiveRuntimes>>
    BY <1>6 DEF HandleStatusLine
  <2>3. CASE k \in Waiting
    <3>1. Settle(k, reply.ok) /\ k \in Keys
      BY <1>6, <2>3 DEF HandleStatusLine, Waiting
    <3>2. HIDE DEF k, reply
    <3>3. TimersFindNoWorker'
      BY <2>2, <3>1, SettleKeepsTimers
    <3>4. QED
      BY <3>3 DEF TimersFindNoWorker, TimersOf
  <2>4. CASE k \notin Waiting
    <3>1. UNCHANGED <<assignments, pendingAcks>>
      BY <1>6, <2>4 DEF HandleStatusLine
    <3>2. QED
      BY <2>2, <3>1, TimersKept DEF Waiting
  <2>5. QED
    BY <2>3, <2>4
<1>7. ASSUME NEW v \in Workers, WorkerCommand(v)
      PROVE  TimersOf(w)'
  BY <1>7, TimersKept DEF WorkerCommand, nodeVars, Waiting
<1>8. ASSUME NEW v \in Workers, NEW cmd \in Cmds, QueueGroupedPlaybackCommand(v, cmd),
             UNCHANGED <<archiveRuntimes, restartTimers, initialTimers>>,
             \A s \in Sessions : assignments'[s] = assignments[s]
                                \/ (assignments'[s] = v /\ archiveRuntimes[v] # "none")
      PROVE  TimersOf(w)'
  <2>1. \A k \in Waiting' : /\ k \in Waiting
                            /\ pendingAcks'[k].wk = pendingAcks[k].wk
                            /\ pendingAcks'[k].at = pendingAcks[k].at
    <3>1. ASSUME NEW k \in Keys
          PROVE  /\ pendingAcks'[k].wk = pendingAcks[k].wk
                 /\ pendingAcks'[k].at = pendingAcks[k].at
      <4>1. \/ pendingAcks'[k] = pendingAcks[k]
            \/ pendingAcks'[k] = [pendingAcks[k] EXCEPT !.rest = Append(@, cmd)]
        BY <1>8 DEF QueueGroupedPlaybackCommand
      <4>2. pendingAcks[k] \in Waiters \cup {Idle}
        BY DEF TypeOK
      <4>3. QED
        BY <4>1, <4>2 DEF Waiters, Idle
    <3>2. QED
      BY <3>1 DEF Waiting
  <2>2. QED
    BY <1>8, <2>1, TimersKept
<1>9. ASSUME NEW s \in Sessions, StartGroupedPlayback(s)
      PROVE  TimersOf(w)'
  <2>1. PICK v \in Workers :
            /\ SelectArchiveWorker(s, v)
            /\ assignments' = [assignments EXCEPT ![s] = v]
            /\ QueueGroupedPlaybackCommand(v, [s |-> s, op |-> "start"])
    BY <1>9 DEF StartGroupedPlayback
  <2>2. [s |-> s, op |-> "start"] \in Cmds
    BY DEF Cmds, Ops
  <2>3. \A r \in Sessions : assignments'[r] = assignments[r]
                            \/ (assignments'[r] = v /\ archiveRuntimes[v] # "none")
    <3>1. assignments[s] = v \/ archiveRuntimes[v] # "none"
      BY <2>1 DEF SelectArchiveWorker, BestCandidate, Candidates, Usable
    <3>2. assignments' = [assignments EXCEPT ![s] = v]
      BY <2>1
    <3>3. assignments \in [Sessions -> Workers \cup {NoWorker}]
      BY DEF TypeOK
    <3>4. QED
      BY <3>1, <3>2, <3>3
  <2>4. UNCHANGED <<archiveRuntimes, restartTimers, initialTimers>>
    BY <1>9 DEF StartGroupedPlayback
  <2>5. QED
    BY <1>8, <2>1, <2>2, <2>3, <2>4
<1>10. ASSUME NEW s \in Sessions, StopGroupedPlayback(s)
       PROVE  TimersOf(w)'
  <2>1. [s |-> s, op |-> "stop"] \in Cmds /\ assignments[s] \in Workers
    BY <1>10 DEF Cmds, Ops, StopGroupedPlayback, TypeOK
  <2>2. /\ QueueGroupedPlaybackCommand(assignments[s], [s |-> s, op |-> "stop"])
        /\ UNCHANGED <<archiveRuntimes, restartTimers, initialTimers, assignments>>
    BY <1>10 DEF StopGroupedPlayback
  <2>3. QED
    BY <1>8, <2>1, <2>2
<1>11. ASSUME NEW s \in Sessions, StopUnassigned(s)
       PROVE  TimersOf(w)'
  BY <1>11, TimersKept DEF StopUnassigned, Waiting
<1>12. CASE WriteCommandWithAck
  <2>1. NextCmd \in Keys /\ NextChain.wk \in Workers
    BY <1>12, NextChainTypes DEF WriteCommandWithAck, Keys
  <2>2. archiveRuntimes[NextChain.wk] # "none"
    BY <1>12 DEF WriteCommandWithAck, Usable
  <2>3. \A k \in Waiting' : \/ k \in Waiting /\ pendingAcks'[k] = pendingAcks[k]
                            \/ pendingAcks'[k].wk = NextChain.wk
    BY <1>12, <2>1 DEF WriteCommandWithAck, Waiting, TypeOK
  <2>4. \A s \in Sessions : assignments'[s] \in {assignments[s], NoWorker}
    BY <1>12 DEF WriteCommandWithAck, Release, TypeOK
  <2>5. UNCHANGED <<archiveRuntimes, restartTimers, initialTimers>>
    BY <1>12 DEF WriteCommandWithAck
  <2>6. QED
    BY <1>0, <2>2, <2>3, <2>4, <2>5, TimersKept
<1>13. CASE CommandRejected
  <2>1. UNCHANGED <<archiveRuntimes, restartTimers, initialTimers, pendingAcks>>
    BY <1>13 DEF CommandRejected
  <2>2. \A s \in Sessions : assignments'[s] \in {assignments[s], NoWorker}
    BY <1>13 DEF CommandRejected, Release, TypeOK
  <2>3. QED
    BY <1>0, <2>1, <2>2, TimersKept DEF Waiting
<1>14. ASSUME NEW k \in Keys, StartAckTimeout(k) \/ StopAckTimeout(k) \/ WriteError(k)
       PROVE  TimersOf(w)'
  <2>1. Settle(k, FALSE) /\ UNCHANGED <<restartTimers, initialTimers>> /\ k \in Waiting
    BY <1>14 DEF StartAckTimeout, StopAckTimeout, WriteError
  <2>2. \A v \in Workers :
            restartTimers[v] \/ initialTimers[v] => archiveRuntimes'[v] = "none"
    <3>1. CASE UNCHANGED archiveRuntimes
      BY <3>1 DEF TimersFindNoWorker
    <3>2. CASE /\ archiveRuntimes' = [archiveRuntimes EXCEPT ![pendingAcks[k].wk] = "doomed"]
               /\ pendingAcks[k].at # "removed"
      BY <2>1, <3>2 DEF TypeOK, TimersFindNoWorker
    <3>3. QED
      BY <1>14, <3>1, <3>2 DEF StartAckTimeout, StopAckTimeout, WriteError
  <2>3. TimersFindNoWorker'
    BY <2>1, <2>2, SettleKeepsTimers
  <2>4. QED
    BY <2>3 DEF TimersFindNoWorker, TimersOf
<1>15. CASE UNCHANGED vars
  BY <1>15, TimersKept DEF vars, nodeVars, Waiting
<1>16. QED
  BY <1>1, <1>2, <1>3, <1>4, <1>5, <1>6, <1>7, <1>9, <1>10, <1>11,
     <1>12, <1>13, <1>14, <1>15 DEF Next

\* Whenever a start or restart timer of worker w is set, w has no child, holds no
\* session and has no command in hand: startArchiveRuntime, which drops an entry
\* without releasing anything, has nothing to drop.
THEOREM TimersFindNothing == Spec => []TimersFindNoWorker
<1>1. Init => TimersFindNoWorker
  BY DEF Init, TimersFindNoWorker
<1>2. QED
  BY <1>1, TypeCorrect, TimersPreserved, PTL DEF Spec

-----------------------------------------------------------------------------
(* The pool implements the slot pool.                                      *)

\* The instances see the Cardinality of FiniteSets under a name of their own.
Theorems == INSTANCE SlotPoolProofs WITH assigned <- assignments

LEMMA SameCardinality ==
    \A S : Pool!Cardinality(S) = Cardinality(S) /\ Theorems!Cardinality(S) = Cardinality(S)
BY DEF Cardinality, Pool!Cardinality, Theorems!Cardinality

LEMMA SameFinite == \A S : Theorems!IsFiniteSet(S) = IsFiniteSet(S)
BY DEF IsFiniteSet, Theorems!IsFiniteSet

\* A step that releases some sessions' slots, all those of one worker, or none,
\* is a step of the slot pool or leaves it alone.
LEMMA ReleaseIsPoolStep ==
    ASSUME TypeOK, NEW s \in Sessions, assignments' = [assignments EXCEPT ![s] = NoWorker]
    PROVE  Pool!Next
BY DEF Pool!Next, Pool!Release

\* Every step is a step of the slot pool, or leaves the assignments alone.
LEMMA StepImplemented == TypeOK /\ [Next]_vars => [Pool!Next]_assignments
<1> SUFFICES ASSUME TypeOK, [Next]_vars
             PROVE  Pool!Next \/ UNCHANGED assignments
  OBVIOUS
<1>1. CASE RegisterNativeDeviceRuntime \/ UnregisterNativeDeviceRuntime
  BY <1>1 DEF RegisterNativeDeviceRuntime, UnregisterNativeDeviceRuntime,
              ClearArchivePool, Pool!Next, Pool!Clear
<1>2. ASSUME NEW w \in Workers, ArchiveWorkerExit(w)
      PROVE  Pool!Next
  <2>1. Pool!LoseWorker(w)
    BY <1>2 DEF ArchiveWorkerExit, Pool!LoseWorker
  <2>2. QED
    BY <2>1 DEF Pool!Next
<1>3. ASSUME NEW s \in Sessions, StartGroupedPlayback(s)
      PROVE  Pool!Next \/ UNCHANGED assignments
  <2>1. PICK w \in Workers : /\ SelectArchiveWorker(s, w)
                             /\ assignments' = [assignments EXCEPT ![s] = w]
    BY <1>3 DEF StartGroupedPlayback
  <2>2. CASE assignments[s] = w
    BY <2>1, <2>2 DEF TypeOK
  <2>3. CASE assignments[s] # w
    <3>1. /\ assignments[s] = NoWorker
          /\ Cardinality(ActiveSessions) < MaxPerDvr
          /\ Load(w) < MaxPerWorker
      BY <2>1, <2>3 DEF SelectArchiveWorker, BestCandidate, Candidates
    <3>2. Pool!AllHolders = ActiveSessions
      BY DEF Pool!AllHolders, ActiveSessions
    <3>3. Cardinality(Pool!Holders(w)) = Load(w)
      BY DEF Pool!Holders, Load
    <3>4. Pool!Acquire(s, w)
      BY <2>1, <3>1, <3>2, <3>3, SameCardinality DEF Pool!Acquire
    <3>5. QED
      BY <3>4 DEF Pool!Next
  <2>4. QED
    BY <2>2, <2>3
<1>4. CASE WriteCommandWithAck
  <2>1. NextCmd.s \in Sessions
    BY <1>4, NextChainTypes DEF WriteCommandWithAck, Cmds
  <2>2. \/ UNCHANGED assignments
        \/ assignments' = [assignments EXCEPT ![NextCmd.s] = NoWorker]
    BY <1>4 DEF WriteCommandWithAck, Release
  <2>3. QED
    BY <2>1, <2>2, ReleaseIsPoolStep
<1>5. CASE CommandRejected
  <2>1. NextCmd.s \in Sessions
    BY <1>5, NextChainTypes DEF CommandRejected, Cmds
  <2>2. assignments' = [assignments EXCEPT ![NextCmd.s] = NoWorker]
    BY <1>5, Zenon DEF CommandRejected, Release
  <2>3. QED
    BY <2>1, <2>2, ReleaseIsPoolStep
<1>6. ASSUME NEW k \in Keys, NEW ok, Settle(k, ok)
      PROVE  Pool!Next \/ UNCHANGED assignments
  <2>1. k.s \in Sessions
    BY DEF Keys, Cmds
  <2>2. \/ UNCHANGED assignments
        \/ assignments' = [assignments EXCEPT ![k.s] = NoWorker]
    BY <1>6 DEF Settle, Release
  <2>3. QED
    BY <2>1, <2>2, ReleaseIsPoolStep
<1>7. ASSUME NEW w \in Workers, HandleStatusLine(w)
      PROVE  Pool!Next \/ UNCHANGED assignments
  <2>1. DEFINE reply == Head(stderr[w])
               k == [s |-> reply.s, op |-> reply.op]
  <2>2. CASE k \in Waiting
    <3>1. Settle(k, reply.ok) /\ k \in Keys
      BY <1>7, <2>2 DEF HandleStatusLine, Waiting
    <3>2. HIDE DEF k, reply
    <3>3. QED
      BY <1>6, <3>1
  <2>3. CASE k \notin Waiting
    BY <1>7, <2>3 DEF HandleStatusLine
  <2>4. QED
    BY <2>2, <2>3
<1>8. ASSUME NEW k \in Keys, StartAckTimeout(k) \/ StopAckTimeout(k) \/ WriteError(k)
      PROVE  Pool!Next \/ UNCHANGED assignments
  BY <1>6, <1>8 DEF StartAckTimeout, StopAckTimeout, WriteError
<1>9. ASSUME NEW w \in Workers,
             InitialStart(w) \/ Restart(w) \/ StartFails(w) \/ WorkerCrashes(w) \/ WorkerCommand(w)
      PROVE  UNCHANGED assignments
  BY <1>9 DEF InitialStart, Restart, StartFails, WorkerCrashes, WorkerCommand, nodeVars
<1>10. ASSUME NEW s \in Sessions, StopGroupedPlayback(s) \/ StopUnassigned(s)
       PROVE  UNCHANGED assignments
  BY <1>10 DEF StopGroupedPlayback, StopUnassigned
<1>11. CASE UNCHANGED vars
  BY <1>11 DEF vars, nodeVars
<1>12. QED
  BY <1>1, <1>2, <1>3, <1>4, <1>5, <1>7, <1>8, <1>9, <1>10, <1>11 DEF Next

\* deviceRuntime.ts is a slot pool: whatever workers, timers and replies do, a
\* session's slot is taken on a worker with room, never moves to another worker,
\* and is only given back.
THEOREM PoolImplemented == Spec => PoolSpec
<1>1. Init => Pool!Init
  BY DEF Init, Pool!Init
<1>2. QED
  BY <1>1, StepImplemented, TypeCorrect, PTL DEF Spec, PoolSpec, Pool!Spec

\* The constants the pool is instantiated with meet its assumption.
LEMMA PoolConstants == Theorems!SlotPoolAssumption
BY PoolAssumption, NoWorkerIsNone, SameFinite DEF Theorems!SlotPoolAssumption

\* A step of the pool keeps the limits: the lemma of SlotPoolProofs, of this instance.
LEMMA PoolStepKeepsCapacity ==
    TypeOK /\ Capacity /\ [Pool!Next]_assignments => Capacity'
<1>1. Theorems!TypeOK /\ Theorems!Capacity /\ [Theorems!Next]_assignments
          => Theorems!Capacity'
  BY PoolConstants, Theorems!CapacityPreserved
<1>2. TypeOK => Theorems!TypeOK
  BY DEF TypeOK, Theorems!TypeOK
<1>3. (Theorems!Capacity <=> Capacity) /\ (Theorems!Capacity' <=> Capacity')
  BY SameCardinality DEF Capacity, Pool!Capacity, Pool!AllHolders, Pool!Holders,
     Theorems!Capacity, Theorems!AllHolders, Theorems!Holders
<1>4. Pool!Next => Theorems!Next
  BY SameCardinality DEF Pool!Next, Pool!Acquire, Pool!Release, Pool!LoseWorker,
     Pool!Clear, Pool!AllHolders, Pool!Holders, Theorems!Next, Theorems!Acquire,
     Theorems!Release, Theorems!LoseWorker, Theorems!Clear, Theorems!AllHolders,
     Theorems!Holders
<1>5. QED
  BY <1>1, <1>2, <1>3, <1>4

\* No archive worker and no DVR is ever assigned more sessions than its limit.
THEOREM CapacityKept == Spec => []Capacity
<1>1. Init => Capacity
  BY PoolConstants, Theorems!InitCapacity, SameCardinality
     DEF Init, Theorems!Init, Capacity, Pool!Capacity, Pool!AllHolders, Pool!Holders,
     Theorems!Capacity, Theorems!AllHolders, Theorems!Holders
<1>2. QED
  BY <1>1, StepImplemented, PoolStepKeepsCapacity, TypeCorrect, PTL DEF Spec


-----------------------------------------------------------------------------
(* Counting.                                                               *)

\* A set counted through a one-to-one map onto it.
LEMMA SameCount ==
    ASSUME NEW S, NEW T, IsFiniteSet(S), NEW f \in [S -> T],
           \A x, y \in S : f[x] = f[y] => x = y,
           \A y \in T : \E x \in S : f[x] = y
    PROVE  IsFiniteSet(T) /\ Cardinality(T) = Cardinality(S)
<1>1. f \in Bijection(S, T)
  BY DEF Bijection, Injection, Surjection, IsInjective
<1>2. QED
  BY <1>1, FS_Bijection DEF ExistsBijection

\* Two parts that share nothing.
LEMMA PartsCount ==
    ASSUME NEW S, NEW A, NEW B, IsFiniteSet(A), IsFiniteSet(B),
           S = A \cup B, A \cap B = {}
    PROVE  Cardinality(S) = Cardinality(A) + Cardinality(B)
<1>1. Cardinality(A) \in Nat /\ Cardinality(B) \in Nat /\ Cardinality(A \cap B) = 0
  BY FS_CardinalityType, FS_EmptySet
<1>2. /\ IsFiniteSet(A \cup B)
      /\ Cardinality(A \cup B)
             = Cardinality(A) + Cardinality(B) - Cardinality(A \cap B)
  BY FS_Union, Zenon
<1>3. QED
  BY <1>1, <1>2

\* The positions of r that hold a command of session s.
Of(r, s) == {j \in DOMAIN r : r[j].s = s}
Count(r, s) == Cardinality(Of(r, s))
One(s, c) == IF c.s = s THEN 1 ELSE 0

LEMMA OfFinite ==
    ASSUME NEW r \in Seq(Cmds), NEW s
    PROVE  Of(r, s) \in SUBSET (Nat \ {0}) /\ IsFiniteSet(Of(r, s)) /\ Count(r, s) \in Nat
<1>1. DOMAIN r = 1 .. Len(r) /\ Len(r) \in Nat
  BY LenProperties
<1>2. IsFiniteSet(1 .. Len(r))
  BY <1>1, FS_Interval
<1>3. Of(r, s) \in SUBSET (1 .. Len(r))
  BY <1>1 DEF Of
<1>4. IsFiniteSet(Of(r, s))
  BY <1>2, <1>3, FS_Subset
<1>5. QED
  BY <1>1, <1>3, <1>4, FS_CardinalityType DEF Count

LEMMA CountEmpty == \A s : Of(<<>>, s) = {} /\ Count(<<>>, s) = 0
BY FS_EmptySet DEF Of, Count

\* Taking the head of a chain takes one command of the head's session ...
LEMMA CountTail ==
    ASSUME NEW r \in Seq(Cmds), r # <<>>, NEW s
    PROVE  Count(r, s) = Count(Tail(r), s) + One(s, Head(r))
<1>1. /\ Len(r) \in Nat \ {0}
      /\ DOMAIN r = 1 .. Len(r)
      /\ Tail(r) \in Seq(Cmds)
      /\ DOMAIN Tail(r) = 1 .. Len(r) - 1
      /\ \A i \in 1 .. Len(r) - 1 : Tail(r)[i] = r[i+1]
      /\ Head(r) = r[1]
  BY HeadTailProperties, LenProperties, EmptySeq
<1>2. DEFINE later == {j \in Of(r, s) : j # 1}
             first == IF r[1].s = s THEN {1} ELSE {}
             f == [i \in Of(Tail(r), s) |-> i + 1]
<1>3. IsFiniteSet(later) /\ Cardinality(later) = Count(Tail(r), s)
  <2>1. f \in [Of(Tail(r), s) -> later]
    BY <1>1 DEF Of
  <2>2. \A x, y \in Of(Tail(r), s) : f[x] = f[y] => x = y
    BY <1>1 DEF Of
  <2>3. ASSUME NEW y \in later
        PROVE  \E x \in Of(Tail(r), s) : f[x] = y
    <3>1. y - 1 \in Of(Tail(r), s)
      BY <1>1 DEF Of
    <3>2. f[y - 1] = y
      BY <1>1, <3>1 DEF Of
    <3>3. QED
      BY <3>1, <3>2
  <2>4. IsFiniteSet(Of(Tail(r), s))
    BY <1>1, OfFinite
  <2>5. HIDE DEF f, later
  <2>6. QED
    BY <2>1, <2>2, <2>3, <2>4, SameCount DEF Count
<1>4. IsFiniteSet(first) /\ Cardinality(first) = One(s, Head(r))
  BY <1>1, FS_Singleton, FS_EmptySet DEF One
<1>5. Of(r, s) = later \cup first /\ later \cap first = {}
  BY <1>1 DEF Of
<1>6. HIDE DEF later, first
<1>7. QED
  BY <1>3, <1>4, <1>5, PartsCount DEF Count

\* ... and queueing one adds one.
LEMMA CountAppend ==
    ASSUME NEW r \in Seq(Cmds), NEW c \in Cmds, NEW s
    PROVE  Count(Append(r, c), s) = Count(r, s) + One(s, c)
<1>1. /\ Len(r) \in Nat
      /\ DOMAIN r = 1 .. Len(r)
      /\ DOMAIN Append(r, c) = 1 .. Len(r) + 1
      /\ \A i \in 1 .. Len(r) : Append(r, c)[i] = r[i]
      /\ Append(r, c)[Len(r) + 1] = c
  BY AppendProperties, LenProperties
<1>2. DEFINE last == IF c.s = s THEN {Len(r) + 1} ELSE {}
<1>3. Of(Append(r, c), s) = Of(r, s) \cup last
  BY <1>1 DEF Of
<1>4. Of(r, s) \cap last = {}
  BY <1>1 DEF Of
<1>5. IsFiniteSet(last)
  BY FS_Singleton, FS_EmptySet
<1>6. Cardinality(last) = One(s, c)
  BY FS_Singleton, FS_EmptySet DEF One
<1>7. IsFiniteSet(Of(r, s))
  BY OfFinite
<1>8. HIDE DEF last
<1>9. Cardinality(Of(Append(r, c), s)) = Cardinality(Of(r, s)) + Cardinality(last)
  BY <1>3, <1>4, <1>5, <1>7, PartsCount
<1>10. QED
  BY <1>6, <1>9 DEF Count

\* A chain's commands of s, marked with the place of the chain.
LEMMA PlacedCount ==
    ASSUME NEW R, IsFiniteSet(R), NEW a
    PROVE  IsFiniteSet({a} \X R) /\ Cardinality({a} \X R) = Cardinality(R)
<1>1. IsFiniteSet({a}) /\ Cardinality({a}) = 1
  BY FS_Singleton
<1>2. Cardinality(R) \in Nat
  BY FS_CardinalityType
<1>3. /\ IsFiniteSet({a} \X R)
      /\ Cardinality({a} \X R) = Cardinality({a}) * Cardinality(R)
  BY <1>1, FS_Product, Zenon
<1>4. Cardinality({a}) * Cardinality(R) = 1 * Cardinality(R)
  BY <1>1
<1>5. \A n \in Nat : 1 * n = n
  OBVIOUS
<1>6. QED
  BY <1>2, <1>3, <1>4, <1>5

-----------------------------------------------------------------------------
(* The calls in the chains: those whose command waits for its ack, those   *)
(* behind it, and those in chains that are due.                            *)

Acks == [Keys -> Waiters \cup {Idle}]

Heads(P, s)  == {k \in Keys : P[k].at # "idle" /\ k.s = s}
Behind(P, s) == {x \in Keys \X Nat : x[2] \in Of(P[x[1]].rest, s)}
DueOf(C, s)  == {x \in Nat \X Nat : x[1] \in DOMAIN C /\ x[2] \in Of(C[x[1]].rest, s)}

InChains(P, C, s) ==
    Cardinality(Heads(P, s)) + Cardinality(Behind(P, s)) + Cardinality(DueOf(C, s))

LEMMA RestType ==
    ASSUME NEW P \in Acks, NEW k \in Keys
    PROVE  P[k].rest \in Seq(Cmds)
<1>1. P[k] \in Waiters \cup {Idle}
  BY DEF Acks
<1>2. CASE P[k] \in Waiters
  BY <1>2 DEF Waiters
<1>3. CASE P[k] = Idle
  <2>1. P[k].rest = <<>>
    BY <1>3 DEF Idle
  <2>2. QED
    BY <2>1
<1>4. QED
  BY <1>1, <1>2, <1>3

LEMMA DueRestType ==
    ASSUME NEW C \in Seq(DueChains), NEW i \in DOMAIN C
    PROVE  C[i].rest \in Seq(Cmds) /\ C[i].rest # <<>> /\ i \in Nat
BY DEF DueChains, Chains

\* There are finitely many of each.
LEMMA HeadsFinite ==
    ASSUME NEW P, NEW s
    PROVE  IsFiniteSet(Heads(P, s)) /\ Cardinality(Heads(P, s)) \in Nat
<1>1. Heads(P, s) \in SUBSET Keys
  BY DEF Heads
<1>2. QED
  BY <1>1, KeysFinite, FS_Subset, FS_CardinalityType

\* Finitely many chains with finitely many commands each.
LEMMA PlacesFinite ==
    ASSUME NEW A, IsFiniteSet(A), NEW R, \A a \in A : IsFiniteSet(R[a]),
           NEW S, \A x \in S : \E a \in A : x \in {a} \X R[a]
    PROVE  IsFiniteSet(S) /\ Cardinality(S) \in Nat
<1>1. DEFINE f == [a \in A |-> {a} \X R[a]]
             T == {f[a] : a \in A}
<1>2. f \in Surjection(A, T)
  BY DEF Surjection
<1>3. IsFiniteSet(T)
  BY <1>2, FS_Surjection
<1>4. \A t \in T : IsFiniteSet(t)
  <2>1. \A a \in A : IsFiniteSet({a} \X R[a])
    BY PlacedCount
  <2>2. QED
    BY <2>1
<1>5. IsFiniteSet(UNION T)
  <2> HIDE DEF T
  <2>1. QED
    BY <1>3, <1>4, FS_UNION
<1>6. S \in SUBSET UNION T
  OBVIOUS
<1>7. QED
  <2> HIDE DEF T
  <2>1. QED
    BY <1>5, <1>6, FS_Subset, FS_CardinalityType

LEMMA BehindFinite ==
    ASSUME NEW P \in Acks, NEW s
    PROVE  IsFiniteSet(Behind(P, s)) /\ Cardinality(Behind(P, s)) \in Nat
<1>1. DEFINE R == [k \in Keys |-> Of(P[k].rest, s)]
<1>2. \A k \in Keys : IsFiniteSet(R[k])
  BY RestType, OfFinite
<1>3. \A x \in Behind(P, s) : \E k \in Keys : x \in {k} \X R[k]
  BY DEF Behind
<1>4. HIDE DEF R
<1>5. QED
  BY <1>2, <1>3, KeysFinite, PlacesFinite

LEMMA DueFinite ==
    ASSUME NEW C \in Seq(DueChains), NEW s
    PROVE  IsFiniteSet(DueOf(C, s)) /\ Cardinality(DueOf(C, s)) \in Nat
<1>1. DEFINE R == [i \in DOMAIN C |-> Of(C[i].rest, s)]
<1>2. \A i \in DOMAIN C : IsFiniteSet(R[i])
  BY DueRestType, OfFinite
<1>3. \A x \in DueOf(C, s) : \E i \in DOMAIN C : x \in {i} \X R[i]
  BY DEF DueOf
<1>4. IsFiniteSet(DOMAIN C)
  <2>1. DOMAIN C = 1 .. Len(C) /\ Len(C) \in Nat
    BY LenProperties
  <2>2. QED
    BY <2>1, FS_Interval
<1>5. HIDE DEF R
<1>6. QED
  BY <1>2, <1>3, <1>4, PlacesFinite

\* One waiter's chain, and the others.
LEMMA BehindOne ==
    ASSUME NEW P \in Acks, NEW k \in Keys, NEW s
    PROVE  LET others == {x \in Behind(P, s) : x[1] # k}
           IN /\ IsFiniteSet(others) /\ Cardinality(others) \in Nat
              /\ Cardinality(Behind(P, s)) = Count(P[k].rest, s) + Cardinality(others)
<1>1. DEFINE others == {x \in Behind(P, s) : x[1] # k}
             own == {k} \X Of(P[k].rest, s)
<1>2. IsFiniteSet(others) /\ Cardinality(others) \in Nat
  <2>1. others \in SUBSET Behind(P, s)
    OBVIOUS
  <2>2. QED
    BY <2>1, BehindFinite, FS_Subset, FS_CardinalityType
<1>3. P[k].rest \in Seq(Cmds)
  BY RestType
<1>4. IsFiniteSet(own) /\ Cardinality(own) = Count(P[k].rest, s)
  BY <1>3, OfFinite, PlacedCount DEF Count
<1>5. Behind(P, s) = own \cup others
  BY <1>3, OfFinite DEF Behind
<1>6. own \cap others = {}
  OBVIOUS
<1>7. Cardinality(Behind(P, s)) = Cardinality(own) + Cardinality(others)
  <2>1. IsFiniteSet(own) /\ IsFiniteSet(others)
    BY <1>2, <1>4
  <2> HIDE DEF own, others
  <2>2. QED
    BY <1>5, <1>6, <2>1, PartsCount
<1>8. Cardinality(Behind(P, s)) = Count(P[k].rest, s) + Cardinality(others)
  BY <1>4, <1>7
<1>9. QED
  BY <1>2, <1>8 DEF others

\* One due chain, and the others.
LEMMA DueOne ==
    ASSUME NEW C \in Seq(DueChains), NEW i \in DOMAIN C, NEW s
    PROVE  LET others == {x \in DueOf(C, s) : x[1] # i}
           IN /\ IsFiniteSet(others) /\ Cardinality(others) \in Nat
              /\ Cardinality(DueOf(C, s)) = Count(C[i].rest, s) + Cardinality(others)
<1>1. DEFINE others == {x \in DueOf(C, s) : x[1] # i}
             own == {i} \X Of(C[i].rest, s)
<1>2. IsFiniteSet(others) /\ Cardinality(others) \in Nat
  <2>1. others \in SUBSET DueOf(C, s)
    OBVIOUS
  <2>2. QED
    BY <2>1, DueFinite, FS_Subset, FS_CardinalityType
<1>3. C[i].rest \in Seq(Cmds) /\ i \in Nat
  BY DueRestType
<1>4. IsFiniteSet(own) /\ Cardinality(own) = Count(C[i].rest, s)
  BY <1>3, OfFinite, PlacedCount DEF Count
<1>5. DueOf(C, s) = own \cup others
  BY <1>3, OfFinite DEF DueOf
<1>6. own \cap others = {}
  OBVIOUS
<1>7. Cardinality(DueOf(C, s)) = Cardinality(own) + Cardinality(others)
  <2>1. IsFiniteSet(own) /\ IsFiniteSet(others)
    BY <1>2, <1>4
  <2> HIDE DEF own, others
  <2>2. QED
    BY <1>5, <1>6, <2>1, PartsCount
<1>8. Cardinality(DueOf(C, s)) = Count(C[i].rest, s) + Cardinality(others)
  BY <1>4, <1>7
<1>9. QED
  BY <1>2, <1>8 DEF others

\* Chains of which only the commands are looked at.
LEMMA DueSame ==
    ASSUME NEW C, NEW D, DOMAIN C = DOMAIN D, \A i \in DOMAIN C : C[i].rest = D[i].rest, NEW s
    PROVE  DueOf(C, s) = DueOf(D, s)
BY DEF DueOf

LEMMA DueSingle ==
    ASSUME NEW c \in DueChains, NEW s
    PROVE  Cardinality(DueOf(<<c>>, s)) = Count(c.rest, s)
<1>1. c.rest \in Seq(Cmds)
  BY DEF DueChains, Chains
<1>2. DueOf(<<c>>, s) = {1} \X Of(c.rest, s)
  BY <1>1, OfFinite DEF DueOf
<1>3. QED
  BY <1>1, <1>2, OfFinite, PlacedCount DEF Count

LEMMA DueNone == \A s : Cardinality(DueOf(<<>>, s)) = 0
<1>1. \A s : DueOf(<<>>, s) = {}
  BY DEF DueOf
<1>2. QED
  BY <1>1, FS_EmptySet

\* Chains put behind others.
LEMMA DueJoined ==
    ASSUME NEW C \in Seq(DueChains), NEW D \in Seq(DueChains), NEW s
    PROVE  Cardinality(DueOf(C \o D, s)) = Cardinality(DueOf(C, s)) + Cardinality(DueOf(D, s))
<1>1. /\ C \o D \in Seq(DueChains)
      /\ Len(C) \in Nat /\ Len(D) \in Nat
      /\ DOMAIN C = 1 .. Len(C) /\ DOMAIN D = 1 .. Len(D)
      /\ DOMAIN (C \o D) = 1 .. Len(C) + Len(D)
      /\ \A i \in 1 .. Len(C) : (C \o D)[i] = C[i]
      /\ \A i \in 1 .. Len(D) : (C \o D)[Len(C) + i] = D[i]
  BY ConcatProperties, LenProperties
<1>2. DEFINE n == Len(C)
             later == {x \in DueOf(C \o D, s) : x[1] > n}
             f == [x \in DueOf(D, s) |-> <<n + x[1], x[2]>>]
<1>4. DueOf(C \o D, s) = DueOf(C, s) \cup later
  <2>1. ASSUME NEW x \in DueOf(C, s)
        PROVE  x \in DueOf(C \o D, s)
    <3>1. x[1] \in 1 .. Len(C) /\ x[1] \in 1 .. Len(C) + Len(D)
      BY <1>1 DEF DueOf
    <3>2. QED
      BY <1>1, <3>1 DEF DueOf
  <2>2. ASSUME NEW x \in DueOf(C \o D, s), x \notin later
        PROVE  x \in DueOf(C, s)
    <3>1. x[1] \in 1 .. Len(C)
      BY <1>1, <2>2 DEF DueOf
    <3>2. QED
      BY <1>1, <3>1 DEF DueOf
  <2>3. QED
    BY <2>1, <2>2
<1>5. DueOf(C, s) \cap later = {}
  BY <1>1 DEF DueOf
<1>6. IsFiniteSet(later) /\ Cardinality(later) = Cardinality(DueOf(D, s))
  <2>1. ASSUME NEW x \in DueOf(D, s)
        PROVE  f[x] \in later
    <3>1. x \in Nat \X Nat /\ x[1] \in 1 .. Len(D) /\ x[2] \in Of(D[x[1]].rest, s)
      BY <1>1 DEF DueOf
    <3>2. n + x[1] \in 1 .. Len(C) + Len(D) /\ n + x[1] > n /\ n + x[1] \in Nat
      BY <1>1, <3>1
    <3>3. QED
      BY <1>1, <3>1, <3>2 DEF DueOf
  <2>2. \A x, y \in DueOf(D, s) : f[x] = f[y] => x = y
    BY <1>1 DEF DueOf
  <2>3. ASSUME NEW y \in later
        PROVE  \E x \in DueOf(D, s) : f[x] = y
    <3>1. PICK i \in Nat, j \in Nat : y = <<i, j>>
      BY DEF DueOf
    <3>2. i \in 1 .. Len(C) + Len(D) /\ i > n /\ j \in Of((C \o D)[i].rest, s)
      BY <1>1, <3>1 DEF DueOf
    <3>3. i - n \in 1 .. Len(D) /\ n + (i - n) = i /\ i - n \in Nat
      BY <1>1, <3>2
    <3>4. (C \o D)[i] = D[i - n]
      BY <1>1, <3>3
    <3>5. <<i - n, j>> \in DueOf(D, s)
      BY <1>1, <3>2, <3>3, <3>4 DEF DueOf
    <3>6. f[<<i - n, j>>] = y
      BY <3>1, <3>3, <3>5
    <3>7. QED
      BY <3>5, <3>6
  <2>4. f \in [DueOf(D, s) -> later]
    BY <2>1
  <2>5. HIDE DEF f, later
  <2>6. QED
    BY <2>2, <2>3, <2>4, DueFinite, SameCount
<1>7. IsFiniteSet(DueOf(C, s))
  BY DueFinite
<1>8. Cardinality(DueOf(C \o D, s)) = Cardinality(DueOf(C, s)) + Cardinality(later)
  <2> DEFINE S == DueOf(C \o D, s)
             A == DueOf(C, s)
  <2>1. IsFiniteSet(A) /\ IsFiniteSet(later) /\ S = A \cup later
    BY <1>4, <1>6, <1>7
  <2>2. A \cap later = {}
    BY <1>5
  <2>3. Cardinality(S) = Cardinality(A) + Cardinality(later)
    <3> HIDE DEF S, A, later
    <3>1. QED
      BY <2>1, <2>2, PartsCount
  <2>4. QED
    BY <2>3
<1>9. QED
  BY <1>6, <1>8

\* The chain that is taken, and those after it.
LEMMA DueFirst ==
    ASSUME NEW C \in Seq(DueChains), C # <<>>, NEW s
    PROVE  /\ Head(C) \in DueChains /\ Tail(C) \in Seq(DueChains)
           /\ Cardinality(DueOf(C, s))
                  = Count(Head(C).rest, s) + Cardinality(DueOf(Tail(C), s))
<1>1. Head(C) \in DueChains /\ Tail(C) \in Seq(DueChains)
  BY HeadTailProperties
<1>2. <<Head(C)>> \in Seq(DueChains) /\ <<Head(C)>> \o Tail(C) = C
  BY <1>1
<1>3. Cardinality(DueOf(<<Head(C)>> \o Tail(C), s))
          = Cardinality(DueOf(<<Head(C)>>, s)) + Cardinality(DueOf(Tail(C), s))
  BY <1>1, <1>2, DueJoined
<1>4. Cardinality(DueOf(<<Head(C)>>, s)) = Count(Head(C).rest, s)
  BY <1>1, DueSingle
<1>5. QED
  BY <1>1, <1>2, <1>3, <1>4

\* A chain put in front or behind.
LEMMA DueAppend ==
    ASSUME NEW C \in Seq(DueChains), NEW c \in DueChains, NEW s
    PROVE  Cardinality(DueOf(Append(C, c), s))
               = Cardinality(DueOf(C, s)) + Count(c.rest, s)
<1>1. <<c>> \in Seq(DueChains) /\ Append(C, c) = C \o <<c>>
  OBVIOUS
<1>2. Cardinality(DueOf(C \o <<c>>, s))
          = Cardinality(DueOf(C, s)) + Cardinality(DueOf(<<c>>, s))
  BY <1>1, DueJoined
<1>3. Cardinality(DueOf(<<c>>, s)) = Count(c.rest, s)
  BY DueSingle
<1>4. QED
  BY <1>1, <1>2, <1>3

LEMMA DuePrepend ==
    ASSUME NEW C \in Seq(DueChains), NEW c \in DueChains, NEW s
    PROVE  Cardinality(DueOf(<<c>> \o C, s))
               = Count(c.rest, s) + Cardinality(DueOf(C, s))
<1>1. <<c>> \in Seq(DueChains)
  OBVIOUS
<1>2. Cardinality(DueOf(<<c>> \o C, s))
          = Cardinality(DueOf(<<c>>, s)) + Cardinality(DueOf(C, s))
  BY <1>1, DueJoined
<1>3. Cardinality(DueOf(<<c>>, s)) = Count(c.rest, s)
  BY DueSingle
<1>4. QED
  BY <1>2, <1>3

-----------------------------------------------------------------------------
(* The properties, of all calls and of one chain a worker.                 *)

\* The sets of CallsAccounted are those counted here.
QueuedIn(P, s) ==
    UNION {{k} \X {i \in 0 .. Len(P[k].rest) :
                      IF i = 0 THEN k.s = s ELSE P[k].rest[i].s = s}
             : k \in {l \in Keys : P[l].at # "idle"}}
DueIn(C, s) ==
    UNION {{i} \X {j \in DOMAIN C[i].rest : C[i].rest[j].s = s} : i \in DOMAIN C}

LEMMA QueuedCount ==
    ASSUME NEW P \in Acks, NEW s
    PROVE  Cardinality(QueuedIn(P, s)) = Cardinality(Heads(P, s)) + Cardinality(Behind(P, s))
<1>1. DEFINE first == {x \in QueuedIn(P, s) : x[2] = 0}
             f == [k \in Heads(P, s) |-> <<k, 0>>]
<1>2. ASSUME NEW k \in Keys
      PROVE  /\ Len(P[k].rest) \in Nat
             /\ DOMAIN P[k].rest = 1 .. Len(P[k].rest)
             /\ P[k].at = "idle" => P[k].rest = <<>>
  <2>1. P[k].rest \in Seq(Cmds)
    BY RestType
  <2>2. P[k] \in Waiters \cup {Idle}
    BY DEF Acks
  <2>3. P[k].at = "idle" => P[k].rest = <<>>
    BY <2>2 DEF Waiters, Idle
  <2>4. QED
    BY <2>1, <2>3, LenProperties
<1>3. IsFiniteSet(first) /\ Cardinality(first) = Cardinality(Heads(P, s))
  <2>1. ASSUME NEW k \in Heads(P, s)
        PROVE  f[k] \in first
    <3>1. k \in Keys /\ P[k].at # "idle" /\ k.s = s /\ 0 \in 0 .. Len(P[k].rest)
      BY <1>2 DEF Heads
    <3>2. QED
      BY <3>1 DEF QueuedIn
  <2>2. \A j, k \in Heads(P, s) : f[j] = f[k] => j = k
    OBVIOUS
  <2>3. ASSUME NEW y \in first
        PROVE  \E k \in Heads(P, s) : f[k] = y
    BY DEF QueuedIn, Heads
  <2>4. f \in [Heads(P, s) -> first]
    BY <2>1
  <2>5. HIDE DEF f, first
  <2>6. QED
    BY <2>2, <2>3, <2>4, HeadsFinite, SameCount
<1>4. QueuedIn(P, s) = first \cup Behind(P, s)
  <2>1. ASSUME NEW x \in QueuedIn(P, s), x[2] # 0
        PROVE  x \in Behind(P, s)
    <3>1. PICK k \in Keys, i \in Nat :
              /\ x = <<k, i>> /\ i \in 0 .. Len(P[k].rest)
              /\ IF i = 0 THEN k.s = s ELSE P[k].rest[i].s = s
      BY DEF QueuedIn
    <3>2. i \in DOMAIN P[k].rest /\ i \in Nat /\ P[k].rest[i].s = s
      BY <1>2, <2>1, <3>1
    <3>3. QED
      BY <3>1, <3>2 DEF Behind, Of
  <2>2. ASSUME NEW x \in Behind(P, s)
        PROVE  x \in QueuedIn(P, s)
    <3>1. PICK k \in Keys, i \in Nat : x = <<k, i>> /\ i \in Of(P[k].rest, s)
      BY DEF Behind
    <3>2. i \in 1 .. Len(P[k].rest) /\ P[k].rest[i].s = s
      BY <1>2, <3>1 DEF Of
    <3>3. P[k].at # "idle"
      BY <1>2, <3>2
    <3>4. i \in 0 .. Len(P[k].rest) /\ i # 0
      BY <1>2, <3>2
    <3>5. QED
      BY <3>1, <3>2, <3>3, <3>4 DEF QueuedIn
  <2>3. QED
    BY <2>1, <2>2
<1>5. first \cap Behind(P, s) = {}
  <2>1. \A k \in Keys : 0 \notin Of(P[k].rest, s)
    BY RestType, OfFinite
  <2>2. QED
    BY <2>1 DEF Behind
<1>6. IsFiniteSet(first) /\ IsFiniteSet(Behind(P, s))
  BY <1>3, BehindFinite
<1>7. Cardinality(QueuedIn(P, s)) = Cardinality(first) + Cardinality(Behind(P, s))
  <2> HIDE DEF first
  <2>1. QED
    BY <1>4, <1>5, <1>6, PartsCount
<1>8. QED
  BY <1>3, <1>7

LEMMA DueCount ==
    ASSUME NEW C \in Seq(DueChains), NEW s
    PROVE  DueIn(C, s) = DueOf(C, s)
<1>1. \A i \in DOMAIN C : i \in Nat /\ Of(C[i].rest, s) \in SUBSET Nat
  BY DueRestType, OfFinite
<1>2. QED
  BY <1>1 DEF DueIn, DueOf, Of

\* No two chains of one worker are linked: the queue map has one entry a worker.
OneLinked(P, C) ==
    /\ \A k, l \in Keys : P[k].linked /\ P[l].linked /\ P[k].wk = P[l].wk => k = l
    /\ \A i, j \in DOMAIN C : C[i].linked /\ C[j].linked /\ C[i].wk = C[j].wk => i = j
    /\ \A k \in Keys, i \in DOMAIN C : ~(P[k].linked /\ C[i].linked /\ P[k].wk = C[i].wk)

\* Every call of s that is not settled is in the chains.
Accounted(s) == calls[s] = InChains(pendingAcks, continuations, s)

CallsInv ==
    /\ TypeOK
    /\ OneLinked(pendingAcks, continuations)
    /\ \A s \in Sessions : Accounted(s)

LEMMA ChainTypes ==
    ASSUME TypeOK
    PROVE  pendingAcks \in Acks /\ continuations \in Seq(DueChains)
BY DEF TypeOK, Acks

LEMMA InvariantAccounts == CallsInv => CallsAccounted
<1> SUFFICES ASSUME CallsInv, NEW s \in Sessions
             PROVE  calls[s] = Cardinality(QueuedBy(s)) + Cardinality(DueBy(s))
  BY DEF CallsAccounted
<1>1. pendingAcks \in Acks /\ continuations \in Seq(DueChains)
  BY ChainTypes DEF CallsInv
<1>2. QueuedBy(s) = QueuedIn(pendingAcks, s)
  BY DEF QueuedBy, QueuedIn, Waiting
<1>3. DueBy(s) = DueIn(continuations, s)
  BY DEF DueBy, DueIn
<1>4. /\ Cardinality(QueuedIn(pendingAcks, s))
             = Cardinality(Heads(pendingAcks, s)) + Cardinality(Behind(pendingAcks, s))
      /\ DueIn(continuations, s) = DueOf(continuations, s)
  BY <1>1, QueuedCount, DueCount
<1>5. calls[s] = InChains(pendingAcks, continuations, s)
  BY DEF CallsInv, Accounted
<1>6. QED
  BY <1>2, <1>3, <1>4, <1>5 DEF InChains

-----------------------------------------------------------------------------
(* Commands that settle.                                                   *)

\* An order of a finite set names each member.
LEMMA OrderNamesAll ==
    ASSUME NEW K, IsFiniteSet(K), NEW q \in Orders(K)
    PROVE  /\ \A k \in K : \E i \in DOMAIN q : q[i] = k
           /\ Cardinality(K) \in Nat /\ DOMAIN q = 1 .. Cardinality(K)
<1>1. Cardinality(K) \in Nat
  BY FS_CardinalityType
<1>2. /\ q \in [1 .. Cardinality(K) -> K]
      /\ \A i, j \in DOMAIN q : q[i] = q[j] => i = j
  BY DEF Orders
<1>3. q \in Injection(1 .. Cardinality(K), K)
  BY <1>2 DEF Injection, IsInjective
<1>4. Cardinality(1 .. Cardinality(K)) = Cardinality(K)
  BY <1>1, FS_Interval
<1>5. q \in Surjection(1 .. Cardinality(K), K)
  BY <1>3, <1>4, FS_Injection
<1>6. QED
  BY <1>1, <1>2, <1>5 DEF Surjection

\* What a settled waiter, and any other, is afterwards.
LEMMA SettledAck ==
    ASSUME TypeOK, NEW K \in SUBSET Keys, NEW W \in SUBSET Workers, SettleAcks(K, W),
           NEW k \in Keys
    PROVE  /\ k \in K => pendingAcks'[k] = Idle
           /\ k \notin K =>
                 /\ pendingAcks'[k].rest = pendingAcks[k].rest
                 /\ pendingAcks'[k].wk = pendingAcks[k].wk
                 /\ pendingAcks'[k].at = "idle" <=> pendingAcks[k].at = "idle"
                 /\ pendingAcks'[k].linked <=>
                        pendingAcks[k].linked /\ pendingAcks[k].wk \notin W
<1>1. k \in K => pendingAcks'[k] = Idle
  BY DEF SettleAcks
<1>2. ASSUME k \notin K, pendingAcks[k].wk \notin W
      PROVE  pendingAcks'[k] = pendingAcks[k]
  BY <1>2 DEF SettleAcks
<1>3. ASSUME k \notin K, pendingAcks[k].wk \in W
      PROVE  /\ pendingAcks'[k].rest = pendingAcks[k].rest
             /\ pendingAcks'[k].wk = pendingAcks[k].wk
             /\ pendingAcks'[k].at # "idle" /\ pendingAcks[k].at # "idle"
             /\ ~pendingAcks'[k].linked
  <2>1. pendingAcks'[k] = [pendingAcks[k] EXCEPT !.at = "removed", !.linked = FALSE]
    BY <1>3 DEF SettleAcks
  <2>2. pendingAcks[k] \in Waiters
    BY <1>3, NoWorkerIsNone DEF TypeOK, Idle
  <2>3. QED
    BY <2>1, <2>2 DEF Waiters
<1>4. QED
  BY <1>1, <1>2, <1>3

\* The chains that become due: a waiter's, in some order.
Behinds(K) == {k \in K : pendingAcks[k].rest # <<>>}
ChainsOf(q) == [i \in DOMAIN q |-> [wk     |-> pendingAcks[q[i]].wk,
                                    rest   |-> pendingAcks[q[i]].rest,
                                    linked |-> pendingAcks[q[i]].linked]]
Unlinked(r, W) == [i \in 1 .. Len(r) |-> LET c == r[i] IN [c EXCEPT !.linked = @ /\ c.wk \notin W]]

LEMMA SettledDue ==
    ASSUME TypeOK, NEW K \in SUBSET Keys, NEW W, SettleAcks(K, W)
    PROVE  \E q \in Orders(Behinds(K)) :
              continuations' = Unlinked(continuations \o ChainsOf(q), W)
BY DEF SettleAcks, Behinds, ChainsOf, Unlinked

LEMMA ChainsOfTypes ==
    ASSUME TypeOK, NEW K \in SUBSET Keys, NEW q \in Orders(Behinds(K))
    PROVE  /\ ChainsOf(q) \in Seq(DueChains)
           /\ DOMAIN ChainsOf(q) = DOMAIN q
           /\ \A i \in DOMAIN q : /\ q[i] \in K
                                  /\ ChainsOf(q)[i].rest = pendingAcks[q[i]].rest
                                  /\ ChainsOf(q)[i].wk = pendingAcks[q[i]].wk
                                  /\ ChainsOf(q)[i].linked = pendingAcks[q[i]].linked
           /\ \A i, j \in DOMAIN q : q[i] = q[j] => i = j
           /\ \A k \in Behinds(K) : \E i \in DOMAIN q : q[i] = k
<1>1. IsFiniteSet(Behinds(K))
  BY KeysFinite, FS_Subset DEF Behinds
<1>2. /\ \A k \in Behinds(K) : \E i \in DOMAIN q : q[i] = k
      /\ Cardinality(Behinds(K)) \in Nat /\ DOMAIN q = 1 .. Cardinality(Behinds(K))
  BY <1>1, OrderNamesAll
<1>3. /\ q \in [1 .. Cardinality(Behinds(K)) -> Behinds(K)]
      /\ \A i, j \in DOMAIN q : q[i] = q[j] => i = j
  BY DEF Orders
<1>4. ASSUME NEW k \in Behinds(K)
      PROVE  [wk |-> pendingAcks[k].wk, rest |-> pendingAcks[k].rest,
              linked |-> pendingAcks[k].linked] \in DueChains
  <2>1. pendingAcks[k] \in Waiters
    BY DEF TypeOK, Idle, Behinds
  <2>2. pendingAcks[k].rest # <<>>
    BY DEF Behinds
  <2>3. QED
    BY <2>1, <2>2 DEF Waiters, Chains, DueChains
<1>5. \A i \in DOMAIN q : q[i] \in Behinds(K)
  BY <1>2, <1>3
<1>6. ChainsOf(q) \in [1 .. Cardinality(Behinds(K)) -> DueChains]
  BY <1>2, <1>4, <1>5 DEF ChainsOf
<1>7. ChainsOf(q) \in Seq(DueChains)
  BY <1>2, <1>6, FunctionIsSequence
<1>8. \A i \in DOMAIN q : /\ q[i] \in K
                          /\ ChainsOf(q)[i].rest = pendingAcks[q[i]].rest
                          /\ ChainsOf(q)[i].wk = pendingAcks[q[i]].wk
                          /\ ChainsOf(q)[i].linked = pendingAcks[q[i]].linked
  BY <1>5 DEF ChainsOf, Behinds
<1>9. QED
  BY <1>2, <1>3, <1>7, <1>8 DEF ChainsOf

LEMMA UnlinkedIs ==
    ASSUME NEW r \in Seq(DueChains), NEW W
    PROVE  /\ DOMAIN Unlinked(r, W) = DOMAIN r
           /\ \A i \in DOMAIN r : /\ Unlinked(r, W)[i].rest = r[i].rest
                                  /\ Unlinked(r, W)[i].wk = r[i].wk
                                  /\ Unlinked(r, W)[i].linked <=> r[i].linked /\ r[i].wk \notin W
<1>1. DOMAIN r = 1 .. Len(r) /\ \A i \in DOMAIN r : r[i] \in DueChains
  BY LenProperties, ElementOfSeq
<1>2. ASSUME NEW i \in DOMAIN r
      PROVE  /\ Unlinked(r, W)[i].rest = r[i].rest
             /\ Unlinked(r, W)[i].wk = r[i].wk
             /\ Unlinked(r, W)[i].linked <=> r[i].linked /\ r[i].wk \notin W
  <2>1. PICK c \in DueChains : c = r[i]
    BY <1>1
  <2>2. Unlinked(r, W)[i] = [c EXCEPT !.linked = @ /\ c.wk \notin W]
    BY <1>1, <2>1 DEF Unlinked
  <2>3. QED
    BY <2>1, <2>2 DEF DueChains, Chains
<1>3. QED
  BY <1>1, <1>2 DEF Unlinked

\* Settling the waiters of K takes just their calls out of the chains.
LEMMA SettleCount ==
    ASSUME TypeOK, NEW K \in SUBSET Waiting, NEW W \in SUBSET Workers, SettleAcks(K, W),
           NEW s
    PROVE  InChains(pendingAcks, continuations, s)
               = InChains(pendingAcks', continuations', s) + Cardinality({k \in K : k.s = s})
<1>1. K \in SUBSET Keys
  BY DEF Waiting
<1>2. /\ pendingAcks \in Acks /\ continuations \in Seq(DueChains)
      /\ pendingAcks' \in Acks /\ continuations' \in Seq(DueChains)
  BY <1>1, ChainTypes, SettleAcksTypes DEF Acks
<1>3. \A k \in Keys :
          /\ k \in K => pendingAcks'[k] = Idle
          /\ k \notin K => /\ pendingAcks'[k].rest = pendingAcks[k].rest
                           /\ pendingAcks'[k].at = "idle" <=> pendingAcks[k].at = "idle"
  BY <1>1, SettledAck
<1>4. Cardinality(Heads(pendingAcks, s))
          = Cardinality(Heads(pendingAcks', s)) + Cardinality({k \in K : k.s = s})
  <2>1. Heads(pendingAcks, s) = Heads(pendingAcks', s) \cup {k \in K : k.s = s}
    BY <1>1, <1>3 DEF Heads, Waiting, Idle
  <2>2. Heads(pendingAcks', s) \cap {k \in K : k.s = s} = {}
    BY <1>1, <1>3 DEF Heads, Idle
  <2>3. IsFiniteSet(Heads(pendingAcks', s)) /\ IsFiniteSet({k \in K : k.s = s})
    BY <1>1, KeysFinite, FS_Subset DEF Heads
  <2>4. QED
    BY <2>1, <2>2, <2>3, PartsCount
<1>5. DEFINE moved == {x \in Behind(pendingAcks, s) : x[1] \in K}
<1>6. IsFiniteSet(moved)
  <2>1. moved \in SUBSET Behind(pendingAcks, s)
    OBVIOUS
  <2>2. QED
    BY <1>2, <2>1, BehindFinite, FS_Subset
<1>7. Cardinality(Behind(pendingAcks, s))
          = Cardinality(Behind(pendingAcks', s)) + Cardinality(moved)
  <2>1. Behind(pendingAcks, s) = Behind(pendingAcks', s) \cup moved
    BY <1>3 DEF Behind, Idle, Of
  <2>2. Behind(pendingAcks', s) \cap moved = {}
    BY <1>3 DEF Behind, Idle, Of
  <2>3. IsFiniteSet(Behind(pendingAcks', s))
    BY <1>2, BehindFinite
  <2>4. HIDE DEF moved
  <2>5. QED
    BY <1>6, <2>1, <2>2, <2>3, PartsCount
<1>8. Cardinality(DueOf(continuations', s))
          = Cardinality(DueOf(continuations, s)) + Cardinality(moved)
  <2>1. PICK q \in Orders(Behinds(K)) :
            continuations' = Unlinked(continuations \o ChainsOf(q), W)
    BY <1>1, SettledDue
  <2>2. /\ ChainsOf(q) \in Seq(DueChains)
        /\ DOMAIN ChainsOf(q) = DOMAIN q
        /\ \A i \in DOMAIN q : /\ q[i] \in K
                               /\ ChainsOf(q)[i].rest = pendingAcks[q[i]].rest
        /\ \A i, j \in DOMAIN q : q[i] = q[j] => i = j
        /\ \A k \in Behinds(K) : \E i \in DOMAIN q : q[i] = k
    BY <1>1, ChainsOfTypes
  <2>3. PICK D \in Seq(DueChains) : D = ChainsOf(q)
    BY <2>2
  <2>4. DueOf(continuations', s) = DueOf(continuations \o D, s)
    <3>1. PICK r \in Seq(DueChains) : r = continuations \o D
      BY <1>2, ConcatProperties
    <3>2. /\ DOMAIN continuations' = DOMAIN r
          /\ \A i \in DOMAIN r : continuations'[i].rest = r[i].rest
      <4>1. continuations' = Unlinked(r, W)
        BY <2>1, <2>3, <3>1
      <4>2. QED
        BY <4>1, UnlinkedIs
    <3>3. DueOf(continuations', s) = DueOf(r, s)
      BY <3>2, DueSame
    <3>4. QED
      BY <3>1, <3>3
  <2>5. Cardinality(DueOf(continuations \o D, s))
            = Cardinality(DueOf(continuations, s)) + Cardinality(DueOf(D, s))
    BY <1>2, DueJoined
  <2>6. Cardinality(moved) = Cardinality(DueOf(D, s))
    <3>1. DEFINE f == [x \in DueOf(D, s) |-> <<q[x[1]], x[2]>>]
    <3>2. ASSUME NEW x \in DueOf(D, s)
          PROVE  f[x] \in moved
      <4>1. PICK i \in DOMAIN q, j \in Nat : x = <<i, j>> /\ j \in Of(D[i].rest, s)
        BY <2>2, <2>3 DEF DueOf
      <4>2. f[x] = <<q[i], j>>
        BY <4>1
      <4>3. q[i] \in K /\ q[i] \in Keys /\ j \in Of(pendingAcks[q[i]].rest, s)
        BY <1>1, <2>2, <2>3, <4>1
      <4>4. <<q[i], j>> \in moved
        BY <4>1, <4>3 DEF Behind
      <4>5. QED
        BY <4>2, <4>4
    <3>3. ASSUME NEW x \in DueOf(D, s), NEW y \in DueOf(D, s), f[x] = f[y]
          PROVE  x = y
      <4>1. x[1] \in DOMAIN q /\ y[1] \in DOMAIN q /\ x = <<x[1], x[2]>> /\ y = <<y[1], y[2]>>
        BY <2>2, <2>3 DEF DueOf
      <4>2. q[x[1]] = q[y[1]] /\ x[2] = y[2]
        BY <3>3
      <4>3. QED
        BY <2>2, <4>1, <4>2
    <3>4. ASSUME NEW y \in moved
          PROVE  \E x \in DueOf(D, s) : f[x] = y
      <4>1. PICK k \in K, j \in Nat : y = <<k, j>> /\ j \in Of(pendingAcks[k].rest, s)
        BY DEF Behind
      <4>2. k \in Behinds(K)
        BY <4>1 DEF Of, Behinds
      <4>3. PICK i \in DOMAIN q : q[i] = k
        BY <2>2, <4>2
      <4>4. i \in DOMAIN D /\ i \in Nat
        BY <2>2, <2>3, DueRestType
      <4>5. <<i, j>> \in DueOf(D, s)
        BY <2>2, <2>3, <4>1, <4>3, <4>4 DEF DueOf
      <4>6. f[<<i, j>>] = y
        BY <4>1, <4>3, <4>5
      <4>7. QED
        BY <4>5, <4>6
    <3>5. f \in [DueOf(D, s) -> moved]
      BY <3>2
    <3>6. IsFiniteSet(DueOf(D, s))
      BY DueFinite
    <3>7. HIDE DEF f, moved
    <3>8. QED
      BY <3>3, <3>4, <3>5, <3>6, SameCount
  <2>7. QED
    BY <2>4, <2>5, <2>6
<1>9. /\ Cardinality(Heads(pendingAcks', s)) \in Nat
      /\ Cardinality(Behind(pendingAcks', s)) \in Nat
      /\ Cardinality(DueOf(continuations, s)) \in Nat
      /\ Cardinality({k \in K : k.s = s}) \in Nat
      /\ Cardinality(moved) \in Nat
  <2>1. IsFiniteSet({k \in K : k.s = s})
    BY <1>1, KeysFinite, FS_Subset
  <2>2. HIDE DEF moved
  <2>3. QED
    BY <1>2, <1>6, <2>1, HeadsFinite, BehindFinite, DueFinite, FS_CardinalityType
<1>10. HIDE DEF moved
<1>11. QED
  BY <1>4, <1>7, <1>8, <1>9 DEF InChains

\* It links no chain anew.
LEMMA SettleLinked ==
    ASSUME TypeOK, OneLinked(pendingAcks, continuations),
           NEW K \in SUBSET Keys, NEW W \in SUBSET Workers, SettleAcks(K, W)
    PROVE  OneLinked(pendingAcks', continuations')
<1>1. \A k \in Keys :
          pendingAcks'[k].linked => /\ k \notin K
                                    /\ pendingAcks[k].linked
                                    /\ pendingAcks'[k].wk = pendingAcks[k].wk
  <2>1. \A k \in Keys :
            /\ k \in K => pendingAcks'[k] = Idle
            /\ k \notin K =>
                  /\ pendingAcks'[k].wk = pendingAcks[k].wk
                  /\ pendingAcks'[k].linked =>
                         pendingAcks[k].linked
    BY SettledAck
  <2>2. ~Idle.linked
    BY DEF Idle
  <2>3. QED
    BY <2>1, <2>2
<1>2. PICK q \in Orders(Behinds(K)) :
          continuations' = Unlinked(continuations \o ChainsOf(q), W)
  BY SettledDue
<1>3. /\ ChainsOf(q) \in Seq(DueChains)
      /\ DOMAIN ChainsOf(q) = DOMAIN q
      /\ \A i \in DOMAIN q : /\ q[i] \in K
                             /\ ChainsOf(q)[i].wk = pendingAcks[q[i]].wk
                             /\ ChainsOf(q)[i].linked = pendingAcks[q[i]].linked
      /\ \A i, j \in DOMAIN q : q[i] = q[j] => i = j
  BY ChainsOfTypes
<1>4. PICK D \in Seq(DueChains) : D = ChainsOf(q)
  BY <1>3
<1>5. PICK r \in Seq(DueChains) : r = continuations \o D
  BY ChainTypes, ConcatProperties
<1>6. /\ DOMAIN continuations' = DOMAIN r
      /\ \A i \in DOMAIN r : /\ continuations'[i].wk = r[i].wk
                             /\ continuations'[i].linked => r[i].linked
  <2>1. continuations' = Unlinked(r, W)
    BY <1>2, <1>4, <1>5
  <2>2. QED
    BY <2>1, UnlinkedIs
<1>7. DEFINE n == Len(continuations)
<1>8. /\ n \in Nat /\ DOMAIN continuations = 1 .. n
      /\ \A i \in DOMAIN r : \/ i \in DOMAIN continuations /\ r[i] = continuations[i]
                             \/ i > n /\ i - n \in DOMAIN D /\ r[i] = D[i - n]
      /\ DOMAIN r \in SUBSET Nat
  BY <1>5, ChainTypes, ConcatProperties, LenProperties
<1>9. ASSUME NEW i \in DOMAIN r, r[i].linked
      PROVE  \/ /\ i \in DOMAIN continuations
                /\ continuations[i].linked /\ r[i].wk = continuations[i].wk
             \/ /\ i > n /\ i - n \in DOMAIN q /\ q[i - n] \in K
                /\ pendingAcks[q[i - n]].linked /\ r[i].wk = pendingAcks[q[i - n]].wk
  BY <1>3, <1>4, <1>8, <1>9
<1>10. ASSUME NEW i \in DOMAIN r, NEW j \in DOMAIN r, r[i].linked, r[j].linked, r[i].wk = r[j].wk
       PROVE  i = j
  <2>1. CASE i \in DOMAIN continuations /\ j \in DOMAIN continuations
    BY <1>8, <1>9, <1>10, <2>1 DEF OneLinked
  <2>2. CASE i > n /\ j > n
    <3>1. /\ i - n \in DOMAIN q /\ j - n \in DOMAIN q
          /\ pendingAcks[q[i - n]].linked /\ r[i].wk = pendingAcks[q[i - n]].wk
          /\ pendingAcks[q[j - n]].linked /\ r[j].wk = pendingAcks[q[j - n]].wk
          /\ q[i - n] \in Keys /\ q[j - n] \in Keys
      BY <1>8, <1>9, <1>10, <2>2
    <3>2. q[i - n] = q[j - n]
      BY <1>10, <3>1 DEF OneLinked
    <3>3. i - n = j - n
      BY <1>3, <3>1, <3>2
    <3>4. QED
      BY <1>8, <3>3
  <2>3. CASE i \in DOMAIN continuations /\ j > n
    BY <1>8, <1>9, <1>10, <2>3 DEF OneLinked
  <2>4. CASE i > n /\ j \in DOMAIN continuations
    BY <1>8, <1>9, <1>10, <2>4 DEF OneLinked
  <2>5. QED
    BY <1>9, <1>10, <2>1, <2>2, <2>3, <2>4
<1>11. ASSUME NEW k \in Keys, NEW i \in DOMAIN r,
              pendingAcks'[k].linked, r[i].linked, pendingAcks'[k].wk = r[i].wk
       PROVE  FALSE
  BY <1>1, <1>9, <1>11 DEF OneLinked
<1>12. \A k, l \in Keys :
           pendingAcks'[k].linked /\ pendingAcks'[l].linked /\ pendingAcks'[k].wk = pendingAcks'[l].wk
               => k = l
  BY <1>1 DEF OneLinked
<1>13. QED
  BY <1>6, <1>10, <1>11, <1>12 DEF OneLinked

-----------------------------------------------------------------------------
(* A command that is queued.                                               *)

\* Where it goes: behind the waiter whose chain the queue map has, behind the due chain
\* it has, or into a chain of its own.
QueuedBehind(w, cmd, k) ==
    /\ k \in Keys /\ pendingAcks[k].linked /\ pendingAcks[k].wk = w
    /\ \A l \in Keys : pendingAcks'[l] = IF l = k THEN [pendingAcks[k] EXCEPT !.rest = Append(@, cmd)]
                                                  ELSE pendingAcks[l]
    /\ UNCHANGED continuations

QueuedInDue(w, cmd, i) ==
    /\ i \in DOMAIN continuations /\ continuations[i].linked /\ continuations[i].wk = w
    /\ DOMAIN continuations' = DOMAIN continuations
    /\ \A j \in DOMAIN continuations :
           continuations'[j] = IF j = i THEN [continuations[i] EXCEPT !.rest = Append(@, cmd)]
                                        ELSE continuations[j]
    /\ \A l \in Keys : pendingAcks'[l] = pendingAcks[l]

QueuedAlone(w, cmd) ==
    /\ \A k \in Keys : ~(pendingAcks[k].linked /\ pendingAcks[k].wk = w)
    /\ \A i \in DOMAIN continuations : ~(continuations[i].linked /\ continuations[i].wk = w)
    /\ continuations' = Append(continuations, [wk |-> w, rest |-> <<cmd>>, linked |-> TRUE])
    /\ \A l \in Keys : pendingAcks'[l] = pendingAcks[l]

LEMMA QueueCases ==
    ASSUME TypeOK, OneLinked(pendingAcks, continuations), NEW w \in Workers, NEW cmd \in Cmds,
           QueueGroupedPlaybackCommand(w, cmd)
    PROVE  \/ \E k \in Keys : QueuedBehind(w, cmd, k)
           \/ \E i \in DOMAIN continuations : QueuedInDue(w, cmd, i)
           \/ QueuedAlone(w, cmd)
<1>1. DEFINE waiters == {k \in Keys : pendingAcks[k].linked /\ pendingAcks[k].wk = w}
             due == {i \in DOMAIN continuations :
                        continuations[i].linked /\ continuations[i].wk = w}
<1>2. /\ pendingAcks' = [k \in Keys |->
             IF k \in waiters THEN [pendingAcks[k] EXCEPT !.rest = Append(@, cmd)]
                              ELSE pendingAcks[k]]
      /\ continuations' =
             IF waiters # {} THEN continuations
             ELSE IF due # {}
             THEN [i \in DOMAIN continuations |->
                     IF i \in due
                     THEN [continuations[i] EXCEPT !.rest = Append(@, cmd)]
                     ELSE continuations[i]]
             ELSE Append(continuations, [wk |-> w, rest |-> <<cmd>>, linked |-> TRUE])
  BY DEF QueueGroupedPlaybackCommand
<1>3. CASE waiters # {}
  <2>1. PICK k \in Keys : k \in waiters
    BY <1>3
  <2>2. waiters = {k}
    BY <2>1 DEF OneLinked
  <2>3. QueuedBehind(w, cmd, k)
    BY <1>2, <2>1, <2>2 DEF QueuedBehind
  <2>4. QED
    BY <2>3
<1>4. CASE waiters = {} /\ due # {}
  <2>1. PICK i \in DOMAIN continuations : i \in due
    BY <1>4
  <2>2. due = {i}
    BY <2>1 DEF OneLinked
  <2>3. QueuedInDue(w, cmd, i)
    BY <1>2, <1>4, <2>1, <2>2 DEF QueuedInDue
  <2>4. QED
    BY <2>3
<1>5. CASE waiters = {} /\ due = {}
  BY <1>2, <1>5 DEF QueuedAlone
<1>6. QED
  BY <1>3, <1>4, <1>5

\* A queued command is one more call in the chains ...
LEMMA QueueCount ==
    ASSUME TypeOK, OneLinked(pendingAcks, continuations), NEW w \in Workers, NEW cmd \in Cmds,
           QueueGroupedPlaybackCommand(w, cmd), NEW s
    PROVE  InChains(pendingAcks', continuations', s)
               = InChains(pendingAcks, continuations, s) + One(s, cmd)
<1>1. /\ pendingAcks \in Acks /\ continuations \in Seq(DueChains)
      /\ pendingAcks' \in Acks /\ continuations' \in Seq(DueChains)
  BY ChainTypes, QueueTypes DEF Acks
<1>2. /\ Cardinality(Heads(pendingAcks, s)) \in Nat
      /\ Cardinality(Behind(pendingAcks, s)) \in Nat
      /\ Cardinality(DueOf(continuations, s)) \in Nat
      /\ One(s, cmd) \in Nat
  BY <1>1, HeadsFinite, BehindFinite, DueFinite DEF One
<1>3. ASSUME NEW k \in Keys, QueuedBehind(w, cmd, k)
      PROVE  InChains(pendingAcks', continuations', s)
               = InChains(pendingAcks, continuations, s) + One(s, cmd)
  <2>1. pendingAcks[k] \in Waiters
    BY <1>3 DEF QueuedBehind, TypeOK, Idle
  <2>2. /\ pendingAcks'[k].rest = Append(pendingAcks[k].rest, cmd)
        /\ pendingAcks'[k].at = pendingAcks[k].at
        /\ \A l \in Keys : l # k => pendingAcks'[l] = pendingAcks[l]
    BY <1>3, <2>1 DEF QueuedBehind, Waiters
  <2>3. Heads(pendingAcks', s) = Heads(pendingAcks, s)
    BY <2>2 DEF Heads
  <2>4. DEFINE others == {x \in Behind(pendingAcks, s) : x[1] # k}
  <2>5. {x \in Behind(pendingAcks', s) : x[1] # k} = others
    BY <2>2 DEF Behind
  <2>6. /\ Cardinality(Behind(pendingAcks, s)) = Count(pendingAcks[k].rest, s) + Cardinality(others)
        /\ Cardinality(others) \in Nat
    BY <1>1, BehindOne
  <2>7. Cardinality(Behind(pendingAcks', s)) = Count(pendingAcks'[k].rest, s) + Cardinality(others)
    BY <1>1, <2>5, BehindOne
  <2>8. Count(pendingAcks'[k].rest, s) = Count(pendingAcks[k].rest, s) + One(s, cmd)
    BY <1>1, <2>2, RestType, CountAppend
  <2>9. Count(pendingAcks[k].rest, s) \in Nat
    BY <1>1, RestType, OfFinite
  <2>10. continuations' = continuations
    BY <1>3 DEF QueuedBehind
  <2>11. HIDE DEF others
  <2>12. QED
    BY <1>2, <2>3, <2>6, <2>7, <2>8, <2>9, <2>10 DEF InChains
<1>4. ASSUME \A l \in Keys : pendingAcks'[l] = pendingAcks[l]
      PROVE  /\ Heads(pendingAcks', s) = Heads(pendingAcks, s)
             /\ Behind(pendingAcks', s) = Behind(pendingAcks, s)
  BY <1>4 DEF Heads, Behind
<1>5. ASSUME NEW i \in DOMAIN continuations, QueuedInDue(w, cmd, i)
      PROVE  InChains(pendingAcks', continuations', s)
               = InChains(pendingAcks, continuations, s) + One(s, cmd)
  <2>1. continuations[i] \in DueChains
    BY <1>1, ElementOfSeq
  <2>2. /\ DOMAIN continuations' = DOMAIN continuations
        /\ continuations'[i].rest = Append(continuations[i].rest, cmd)
        /\ \A j \in DOMAIN continuations : j # i => continuations'[j] = continuations[j]
    BY <1>5, <2>1 DEF QueuedInDue, DueChains, Chains
  <2>3. DEFINE others == {x \in DueOf(continuations, s) : x[1] # i}
  <2>4. {x \in DueOf(continuations', s) : x[1] # i} = others
    BY <2>2 DEF DueOf
  <2>5. /\ Cardinality(DueOf(continuations, s)) = Count(continuations[i].rest, s) + Cardinality(others)
        /\ Cardinality(others) \in Nat
    BY <1>1, DueOne
  <2>6. Cardinality(DueOf(continuations', s)) = Count(continuations'[i].rest, s) + Cardinality(others)
    <3>1. PICK C \in Seq(DueChains) : C = continuations'
      BY <1>1
    <3>2. i \in DOMAIN C /\ {x \in DueOf(C, s) : x[1] # i} = others
      BY <2>2, <2>4, <3>1
    <3>3. Cardinality(DueOf(C, s))
              = Count(C[i].rest, s) + Cardinality({x \in DueOf(C, s) : x[1] # i})
      BY <3>2, DueOne
    <3>4. QED
      BY <3>1, <3>2, <3>3
  <2>7. Count(continuations'[i].rest, s) = Count(continuations[i].rest, s) + One(s, cmd)
    BY <1>1, <2>2, DueRestType, CountAppend
  <2>8. Count(continuations[i].rest, s) \in Nat
    BY <1>1, DueRestType, OfFinite
  <2>9. /\ Heads(pendingAcks', s) = Heads(pendingAcks, s)
        /\ Behind(pendingAcks', s) = Behind(pendingAcks, s)
    BY <1>4, <1>5 DEF QueuedInDue
  <2>10. HIDE DEF others
  <2>11. QED
    BY <1>2, <2>5, <2>6, <2>7, <2>8, <2>9 DEF InChains
<1>6. CASE QueuedAlone(w, cmd)
  <2>1. PICK c \in DueChains : c = [wk |-> w, rest |-> <<cmd>>, linked |-> TRUE]
    <3>1. [wk |-> w, rest |-> <<cmd>>, linked |-> TRUE] \in DueChains
      BY DEF DueChains, Chains
    <3>2. QED
      BY <3>1
  <2>2. continuations' = Append(continuations, c)
    BY <1>6, <2>1 DEF QueuedAlone
  <2>3. Cardinality(DueOf(continuations', s)) = Cardinality(DueOf(continuations, s)) + Count(c.rest, s)
    BY <1>1, <2>2, DueAppend
  <2>4. Count(c.rest, s) = One(s, cmd)
    <3>1. c.rest = Append(<<>>, cmd) /\ <<>> \in Seq(Cmds)
      BY <2>1
    <3>2. Count(Append(<<>>, cmd), s) = Count(<<>>, s) + One(s, cmd)
      BY <3>1, CountAppend
    <3>3. QED
      BY <1>2, <3>1, <3>2, CountEmpty
  <2>5. /\ Heads(pendingAcks', s) = Heads(pendingAcks, s)
        /\ Behind(pendingAcks', s) = Behind(pendingAcks, s)
    BY <1>4, <1>6 DEF QueuedAlone
  <2>6. QED
    BY <1>2, <2>3, <2>4, <2>5 DEF InChains
<1>7. QED
  BY <1>3, <1>5, <1>6, QueueCases

\* ... and the queue map still has one chain a worker.
LEMMA QueueLinked ==
    ASSUME TypeOK, OneLinked(pendingAcks, continuations), NEW w \in Workers, NEW cmd \in Cmds,
           QueueGroupedPlaybackCommand(w, cmd)
    PROVE  OneLinked(pendingAcks', continuations')
<1>1. /\ pendingAcks \in Acks /\ continuations \in Seq(DueChains)
  BY ChainTypes
<1>2. ASSUME NEW k \in Keys, QueuedBehind(w, cmd, k)
      PROVE  OneLinked(pendingAcks', continuations')
  <2>1. pendingAcks[k] \in Waiters
    BY <1>2 DEF QueuedBehind, TypeOK, Idle
  <2>2. \A l \in Keys : pendingAcks'[l].linked = pendingAcks[l].linked
                        /\ pendingAcks'[l].wk = pendingAcks[l].wk
    BY <1>2, <2>1 DEF QueuedBehind, Waiters
  <2>3. continuations' = continuations
    BY <1>2 DEF QueuedBehind
  <2>4. QED
    BY <2>2, <2>3 DEF OneLinked
<1>3. ASSUME NEW i \in DOMAIN continuations, QueuedInDue(w, cmd, i)
      PROVE  OneLinked(pendingAcks', continuations')
  <2>1. continuations[i] \in DueChains
    BY <1>1, ElementOfSeq
  <2>2. /\ DOMAIN continuations' = DOMAIN continuations
        /\ \A j \in DOMAIN continuations : continuations'[j].linked = continuations[j].linked
                                           /\ continuations'[j].wk = continuations[j].wk
    BY <1>3, <2>1 DEF QueuedInDue, DueChains, Chains
  <2>3. \A l \in Keys : pendingAcks'[l] = pendingAcks[l]
    BY <1>3 DEF QueuedInDue
  <2>4. QED
    BY <2>2, <2>3 DEF OneLinked
<1>4. CASE QueuedAlone(w, cmd)
  <2>1. PICK c \in DueChains : c = [wk |-> w, rest |-> <<cmd>>, linked |-> TRUE]
    <3>1. [wk |-> w, rest |-> <<cmd>>, linked |-> TRUE] \in DueChains
      BY DEF DueChains, Chains
    <3>2. QED
      BY <3>1
  <2>2. /\ DOMAIN continuations' = DOMAIN continuations \cup {Len(continuations) + 1}
        /\ \A i \in DOMAIN continuations : continuations'[i] = continuations[i]
        /\ continuations'[Len(continuations) + 1] = c
    BY <1>1, <1>4, <2>1, AppendProperties, LenProperties DEF QueuedAlone
  <2>3. c.wk = w
    BY <2>1
  <2>4. /\ \A l \in Keys : pendingAcks'[l] = pendingAcks[l]
        /\ \A k \in Keys : ~(pendingAcks[k].linked /\ pendingAcks[k].wk = w)
        /\ \A i \in DOMAIN continuations : ~(continuations[i].linked /\ continuations[i].wk = w)
    BY <1>4 DEF QueuedAlone
  <2>5. QED
    BY <2>2, <2>3, <2>4 DEF OneLinked
<1>5. QED
  BY <1>2, <1>3, <1>4, QueueCases

-----------------------------------------------------------------------------
(* A command that is written, and one that is rejected.                    *)

OldRest == pendingAcks[NextCmd].rest
OldChain == [wk |-> pendingAcks[NextCmd].wk, rest |-> OldRest,
             linked |-> pendingAcks[NextCmd].linked]

\* What writeCommandWithAck does to chains and waiters.
LEMMA WriteShape ==
    ASSUME TypeOK, WriteCommandWithAck
    PROVE  /\ NextChain \in DueChains /\ NextCmd \in Keys
           /\ Tail(continuations) \in Seq(DueChains)
           /\ pendingAcks'[NextCmd].at # "idle"
           /\ pendingAcks'[NextCmd].rest = Tail(NextChain.rest)
           /\ pendingAcks'[NextCmd].wk = NextChain.wk
           /\ pendingAcks'[NextCmd].linked = NextChain.linked
           /\ \A k \in Keys : k # NextCmd => pendingAcks'[k] = pendingAcks[k]
           /\ OldRest = <<>> => continuations' = Tail(continuations)
           /\ OldRest # <<>> => /\ OldChain \in DueChains
                                /\ pendingAcks[NextCmd].at # "idle"
                                /\ continuations' = Append(Tail(continuations), OldChain)
<1>1. continuations # <<>>
  BY DEF WriteCommandWithAck
<1>2. NextChain \in DueChains /\ NextCmd \in Keys /\ Tail(continuations) \in Seq(DueChains)
  BY <1>1, NextChainTypes DEF Keys
<1>3. /\ pendingAcks'[NextCmd] =
             [at     |-> IF archiveRuntimes[NextChain.wk] = "ready" THEN "sent" ELSE "lost",
              wk     |-> NextChain.wk,
              rest   |-> Tail(NextChain.rest),
              linked |-> NextChain.linked]
      /\ \A k \in Keys : k # NextCmd => pendingAcks'[k] = pendingAcks[k]
  BY <1>2 DEF WriteCommandWithAck, TypeOK
<1>4. /\ OldRest = <<>> => continuations' = Tail(continuations)
      /\ OldRest # <<>> => continuations' = Append(Tail(continuations), OldChain)
  BY DEF WriteCommandWithAck, OldRest, OldChain
<1>5. ASSUME OldRest # <<>>
      PROVE  OldChain \in DueChains /\ pendingAcks[NextCmd].at # "idle"
  <2>1. pendingAcks[NextCmd] \in Waiters
    BY <1>2, <1>5 DEF TypeOK, Idle, OldRest
  <2>2. QED
    BY <1>5, <2>1 DEF Waiters, DueChains, Chains, OldRest, OldChain
<1>6. QED
  BY <1>2, <1>3, <1>4, <1>5

\* Writing a command moves it, and takes out the one it supersedes.
LEMMA WriteCount ==
    ASSUME TypeOK, WriteCommandWithAck, NEW s
    PROVE  InChains(pendingAcks', continuations', s)
               = InChains(pendingAcks, continuations, s)
                     - IF pendingAcks[NextCmd].at = "idle" THEN 0 ELSE One(s, NextCmd)
<1>1. /\ pendingAcks \in Acks /\ continuations \in Seq(DueChains) /\ continuations # <<>>
      /\ pendingAcks' \in Acks /\ continuations' \in Seq(DueChains)
  <2>1. TypeOK'
    BY TypePreserved DEF Next
  <2>2. QED
    BY <2>1, ChainTypes DEF Acks, TypeOK, WriteCommandWithAck
<1>2. /\ NextChain \in DueChains /\ NextCmd \in Keys
      /\ Tail(continuations) \in Seq(DueChains)
      /\ pendingAcks'[NextCmd].at # "idle"
      /\ pendingAcks'[NextCmd].rest = Tail(NextChain.rest)
      /\ \A k \in Keys : k # NextCmd => pendingAcks'[k] = pendingAcks[k]
      /\ OldRest = <<>> => continuations' = Tail(continuations)
      /\ OldRest # <<>> => /\ OldChain \in DueChains
                           /\ continuations' = Append(Tail(continuations), OldChain)
  BY WriteShape
<1>3. PICK C \in Seq(DueChains), c \in DueChains, k \in Keys :
          C = Tail(continuations) /\ c = NextChain /\ k = NextCmd
  BY <1>2
<1>4. c.rest \in Seq(Cmds) /\ c.rest # <<>> /\ k = Head(c.rest)
  BY <1>3 DEF DueChains, Chains, NextCmd
<1>5. DEFINE old == Count(OldRest, s)
             others == Cardinality({x \in Behind(pendingAcks, s) : x[1] # k})
<1>6. /\ Cardinality(DueOf(continuations, s)) = Count(c.rest, s) + Cardinality(DueOf(C, s))
      /\ Count(c.rest, s) = Count(Tail(c.rest), s) + One(s, k)
      /\ Count(Tail(c.rest), s) \in Nat /\ One(s, k) \in Nat
  <2>1. Cardinality(DueOf(continuations, s))
            = Count(Head(continuations).rest, s) + Cardinality(DueOf(Tail(continuations), s))
    BY <1>1, DueFirst
  <2>2. Tail(c.rest) \in Seq(Cmds)
    BY <1>4, HeadTailProperties
  <2>3. Count(c.rest, s) = Count(Tail(c.rest), s) + One(s, k)
    BY <1>4, CountTail
  <2>4. QED
    BY <1>3, <2>1, <2>2, <2>3, OfFinite DEF NextChain, One
<1>7. /\ Cardinality(Behind(pendingAcks, s)) = old + others
      /\ Cardinality(Behind(pendingAcks', s)) = Count(Tail(c.rest), s) + others
      /\ old \in Nat /\ others \in Nat
  <2>1. /\ Cardinality(Behind(pendingAcks, s)) = Count(pendingAcks[k].rest, s) + others
        /\ others \in Nat
    BY <1>1, BehindOne
  <2>2. PICK P \in Acks : P = pendingAcks'
    BY <1>1
  <2>3. {x \in Behind(P, s) : x[1] # k} = {x \in Behind(pendingAcks, s) : x[1] # k}
    BY <1>2, <1>3, <2>2 DEF Behind
  <2>4. Cardinality(Behind(P, s))
            = Count(P[k].rest, s) + Cardinality({x \in Behind(P, s) : x[1] # k})
    BY BehindOne
  <2>5. P[k].rest = Tail(c.rest)
    BY <1>2, <1>3, <2>2
  <2>6. pendingAcks[k].rest \in Seq(Cmds) /\ pendingAcks[k].rest = OldRest
    BY <1>1, <1>3, RestType DEF OldRest
  <2>7. old \in Nat
    BY <2>6, OfFinite
  <2>8. QED
    BY <2>1, <2>2, <2>3, <2>4, <2>5, <2>6, <2>7
<1>8. Cardinality(DueOf(continuations', s)) = Cardinality(DueOf(C, s)) + old
  <2>1. CASE OldRest = <<>>
    <3>1. old = 0 /\ continuations' = C
      BY <1>2, <1>3, <2>1, CountEmpty
    <3>2. Cardinality(DueOf(C, s)) \in Nat
      BY DueFinite
    <3>3. QED
      BY <3>1, <3>2
  <2>2. CASE OldRest # <<>>
    <3>1. PICK d \in DueChains : d = OldChain
      BY <1>2, <2>2
    <3>2. Cardinality(DueOf(Append(C, d), s)) = Cardinality(DueOf(C, s)) + Count(d.rest, s)
      BY DueAppend
    <3>3. continuations' = Append(C, d) /\ d.rest = OldRest
      BY <1>2, <1>3, <2>2, <3>1 DEF OldChain
    <3>4. QED
      BY <3>2, <3>3
  <2>3. QED
    BY <2>1, <2>2
<1>9. Cardinality(Heads(pendingAcks', s))
          = Cardinality(Heads(pendingAcks, s)) + IF pendingAcks[k].at = "idle" THEN One(s, k) ELSE 0
  <2>1. pendingAcks[k].at # "idle" \/ k.s # s
            => Heads(pendingAcks', s) = Heads(pendingAcks, s)
    BY <1>2, <1>3 DEF Heads
  <2>2. ASSUME pendingAcks[k].at = "idle", k.s = s
        PROVE  Cardinality(Heads(pendingAcks', s)) = Cardinality(Heads(pendingAcks, s)) + 1
    <3>1. Heads(pendingAcks', s) = Heads(pendingAcks, s) \cup {k}
      BY <1>2, <1>3, <2>2 DEF Heads
    <3>2. k \notin Heads(pendingAcks, s)
      BY <2>2 DEF Heads
    <3>3. QED
      BY <3>1, <3>2, HeadsFinite, FS_AddElement
  <2>3. Cardinality(Heads(pendingAcks, s)) \in Nat
    BY HeadsFinite
  <2>4. QED
    BY <2>1, <2>2, <2>3 DEF One
<1>10. Cardinality(Heads(pendingAcks, s)) \in Nat /\ Cardinality(DueOf(C, s)) \in Nat
  BY HeadsFinite, DueFinite
<1>11. InChains(pendingAcks, continuations, s)
           = Cardinality(Heads(pendingAcks, s)) + (old + others)
                 + (Count(Tail(c.rest), s) + One(s, k) + Cardinality(DueOf(C, s)))
  BY <1>6, <1>7 DEF InChains
<1>12. InChains(pendingAcks', continuations', s)
           = Cardinality(Heads(pendingAcks, s)) + (IF pendingAcks[k].at = "idle" THEN One(s, k) ELSE 0)
                 + (Count(Tail(c.rest), s) + others) + (Cardinality(DueOf(C, s)) + old)
  BY <1>7, <1>8, <1>9 DEF InChains
<1>13. PICK h \in Nat, d \in Nat, t \in Nat, o \in Nat, l \in Nat, r \in Nat :
          /\ h = Cardinality(Heads(pendingAcks, s)) /\ d = Cardinality(DueOf(C, s))
          /\ t = Count(Tail(c.rest), s) /\ o = One(s, k) /\ l = old /\ r = others
  BY <1>6, <1>7, <1>10
<1>14. InChains(pendingAcks, continuations, s) = h + (l + r) + (t + o + d)
  BY <1>11, <1>13
<1>15. CASE pendingAcks[k].at = "idle"
  <2>1. InChains(pendingAcks', continuations', s) = h + o + (t + r) + (d + l)
    BY <1>12, <1>13, <1>15
  <2>2. InChains(pendingAcks', continuations', s) = InChains(pendingAcks, continuations, s) - 0
    BY <1>14, <2>1
  <2>3. QED
    BY <1>3, <1>15, <2>2
<1>16. CASE pendingAcks[k].at # "idle"
  <2>1. InChains(pendingAcks', continuations', s) = h + 0 + (t + r) + (d + l)
    BY <1>12, <1>13, <1>16
  <2>2. InChains(pendingAcks', continuations', s) = InChains(pendingAcks, continuations, s) - o
    BY <1>14, <2>1
  <2>3. QED
    BY <1>3, <1>13, <1>16, <2>2
<1>17. QED
  BY <1>15, <1>16

LEMMA WriteLinked ==
    ASSUME TypeOK, OneLinked(pendingAcks, continuations), WriteCommandWithAck
    PROVE  OneLinked(pendingAcks', continuations')
<1>1. /\ NextChain \in DueChains /\ NextCmd \in Keys
      /\ Tail(continuations) \in Seq(DueChains)
      /\ pendingAcks'[NextCmd].wk = NextChain.wk
      /\ pendingAcks'[NextCmd].linked = NextChain.linked
      /\ \A k \in Keys : k # NextCmd => pendingAcks'[k] = pendingAcks[k]
      /\ OldRest = <<>> => continuations' = Tail(continuations)
      /\ OldRest # <<>> => /\ OldChain \in DueChains
                           /\ continuations' = Append(Tail(continuations), OldChain)
  BY WriteShape
<1>2. PICK n \in Nat : n = Len(Tail(continuations))
  BY <1>1, LenProperties
<1>3. /\ DOMAIN Tail(continuations) = 1 .. n
      /\ DOMAIN continuations = 1 .. n + 1
      /\ \A i \in 1 .. n : Tail(continuations)[i] = continuations[i + 1]
      /\ NextChain = continuations[1]
  BY <1>2, HeadTailProperties, LenProperties DEF TypeOK, WriteCommandWithAck, NextChain
<1>4. /\ \A i \in DOMAIN continuations' :
             \/ i \in 1 .. n /\ continuations'[i] = continuations[i + 1]
             \/ i = n + 1 /\ continuations'[i] = OldChain
      /\ DOMAIN continuations' \in SUBSET (1 .. n + 1)
  <2>1. CASE OldRest = <<>>
    BY <1>1, <1>3, <2>1
  <2>2. CASE OldRest # <<>>
    <3>1. PICK C \in Seq(DueChains) : C = Tail(continuations)
      BY <1>1
    <3>2. /\ DOMAIN Append(C, OldChain) = 1 .. n + 1
          /\ \A i \in 1 .. n : Append(C, OldChain)[i] = C[i]
          /\ Append(C, OldChain)[n + 1] = OldChain
      BY <1>1, <1>2, <2>2, <3>1, AppendProperties, LenProperties
    <3>3. QED
      BY <1>1, <1>3, <2>2, <3>1, <3>2
  <2>3. QED
    BY <2>1, <2>2
<1>5. /\ OldChain.wk = pendingAcks[NextCmd].wk
      /\ OldChain.linked = pendingAcks[NextCmd].linked
  BY DEF OldChain
<1>6. \A i \in 1 .. n : i + 1 \in DOMAIN continuations /\ i + 1 # 1
  BY <1>3
<1>7. ASSUME NEW i \in DOMAIN continuations', NEW j \in DOMAIN continuations',
             continuations'[i].linked, continuations'[j].linked,
             continuations'[i].wk = continuations'[j].wk
      PROVE  i = j
  <2>1. CASE i \in 1 .. n /\ j \in 1 .. n /\ i # n + 1 /\ j # n + 1
    BY <1>4, <1>6, <1>7, <2>1 DEF OneLinked
  <2>2. CASE i = n + 1 /\ j # n + 1
    BY <1>1, <1>4, <1>5, <1>6, <1>7, <2>2 DEF OneLinked
  <2>3. CASE i # n + 1 /\ j = n + 1
    <3>1. i + 1 \in DOMAIN continuations /\ continuations'[i] = continuations[i + 1]
      BY <1>4, <1>6, <2>3
    <3>2. /\ pendingAcks[NextCmd].linked
          /\ pendingAcks[NextCmd].wk = continuations'[j].wk
      BY <1>4, <1>5, <1>7, <2>3
    <3>3. QED
      BY <1>1, <1>7, <3>1, <3>2 DEF OneLinked
  <2>4. QED
    BY <1>4, <2>1, <2>2, <2>3
<1>8. 1 \in DOMAIN continuations
  BY <1>3
<1>9. \A k, l \in Keys :
          pendingAcks'[k].linked /\ pendingAcks'[l].linked /\ pendingAcks'[k].wk = pendingAcks'[l].wk
              => k = l
  BY <1>1, <1>3, <1>8 DEF OneLinked
<1>10. ASSUME NEW k \in Keys, NEW i \in DOMAIN continuations',
              pendingAcks'[k].linked, continuations'[i].linked,
              pendingAcks'[k].wk = continuations'[i].wk
       PROVE  FALSE
  <2>1. CASE i # n + 1
    BY <1>1, <1>3, <1>4, <1>6, <1>8, <1>10, <2>1 DEF OneLinked
  <2>2. CASE i = n + 1
    BY <1>1, <1>2, <1>3, <1>4, <1>5, <1>8, <1>10, <2>2 DEF OneLinked
  <2>3. QED
    BY <2>1, <2>2
<1>11. QED
  BY <1>7, <1>9, <1>10 DEF OneLinked

\* Rejecting a command takes it out of its chain ...
LEMMA RejectCount ==
    ASSUME TypeOK, CommandRejected, NEW s
    PROVE  InChains(pendingAcks', continuations', s)
               = InChains(pendingAcks, continuations, s) - One(s, NextCmd)
<1>1. /\ pendingAcks \in Acks /\ continuations \in Seq(DueChains) /\ continuations # <<>>
      /\ pendingAcks' = pendingAcks
  BY ChainTypes DEF CommandRejected
<1>2. PICK C \in Seq(DueChains), c \in DueChains : C = Tail(continuations) /\ c = NextChain
  BY <1>1, NextChainTypes
<1>3. c.rest \in Seq(Cmds) /\ c.rest # <<>> /\ NextCmd = Head(c.rest)
  BY <1>2 DEF DueChains, Chains, NextCmd
<1>4. /\ Tail(c.rest) \in Seq(Cmds)
      /\ Count(c.rest, s) = Count(Tail(c.rest), s) + One(s, NextCmd)
      /\ Count(Tail(c.rest), s) \in Nat /\ One(s, NextCmd) \in Nat
  <2>1. Tail(c.rest) \in Seq(Cmds)
    BY <1>3, HeadTailProperties
  <2>2. QED
    BY <1>3, <2>1, CountTail, OfFinite DEF One
<1>5. Cardinality(DueOf(continuations, s)) = Count(c.rest, s) + Cardinality(DueOf(C, s))
  BY <1>1, <1>2, DueFirst DEF NextChain
<1>6. Cardinality(DueOf(continuations', s)) = Count(Tail(c.rest), s) + Cardinality(DueOf(C, s))
  <2>1. CASE Tail(c.rest) = <<>>
    <3>1. continuations' = C
      BY <1>2, <2>1 DEF CommandRejected
    <3>2. Count(Tail(c.rest), s) = 0
      BY <2>1, CountEmpty
    <3>3. Cardinality(DueOf(C, s)) \in Nat
      BY DueFinite
    <3>4. QED
      BY <3>1, <3>2, <3>3
  <2>2. CASE Tail(c.rest) # <<>>
    <3>1. ChainAfter(c) \in DueChains /\ ChainAfter(c).rest = Tail(c.rest)
      BY <1>4, <2>2 DEF ChainAfter, DueChains, Chains
    <3>2. PICK d \in DueChains : d = ChainAfter(c)
      BY <3>1
    <3>3. continuations' = <<d>> \o C
      BY <1>2, <2>2, <3>2 DEF CommandRejected
    <3>4. Cardinality(DueOf(<<d>> \o C, s)) = Count(d.rest, s) + Cardinality(DueOf(C, s))
      BY DuePrepend
    <3>5. QED
      BY <3>1, <3>2, <3>3, <3>4
  <2>3. QED
    BY <2>1, <2>2
<1>7. /\ Cardinality(Heads(pendingAcks, s)) \in Nat
      /\ Cardinality(Behind(pendingAcks, s)) \in Nat
      /\ Cardinality(DueOf(C, s)) \in Nat
  BY <1>1, HeadsFinite, BehindFinite, DueFinite
<1>8. InChains(pendingAcks, continuations, s)
          = Cardinality(Heads(pendingAcks, s)) + Cardinality(Behind(pendingAcks, s))
                + (Count(Tail(c.rest), s) + One(s, NextCmd) + Cardinality(DueOf(C, s)))
  BY <1>4, <1>5 DEF InChains
<1>9. InChains(pendingAcks', continuations', s)
          = Cardinality(Heads(pendingAcks, s)) + Cardinality(Behind(pendingAcks, s))
                + (Count(Tail(c.rest), s) + Cardinality(DueOf(C, s)))
  BY <1>1, <1>6 DEF InChains
<1>10. QED
  BY <1>4, <1>7, <1>8, <1>9

\* ... and leaves the chain where it is, or drops it when nothing is left.
LEMMA RejectLinked ==
    ASSUME TypeOK, OneLinked(pendingAcks, continuations), CommandRejected
    PROVE  OneLinked(pendingAcks', continuations')
<1>1. /\ continuations \in Seq(DueChains) /\ continuations # <<>>
      /\ pendingAcks' = pendingAcks
  BY ChainTypes DEF CommandRejected
<1>2. PICK C \in Seq(DueChains), c \in DueChains : C = Tail(continuations) /\ c = NextChain
  BY <1>1, NextChainTypes
<1>3. PICK n \in Nat : n = Len(C)
  BY LenProperties
<1>4. /\ DOMAIN C = 1 .. n
      /\ DOMAIN continuations = 1 .. n + 1
      /\ \A i \in 1 .. n : C[i] = continuations[i + 1]
      /\ c = continuations[1]
  BY <1>1, <1>2, <1>3, HeadTailProperties, LenProperties DEF NextChain
<1>5. CASE Tail(c.rest) = <<>>
  <2>1. continuations' = C
    BY <1>2, <1>5 DEF CommandRejected
  <2>2. \A i \in DOMAIN C : C[i] = continuations[i + 1] /\ i + 1 \in DOMAIN continuations /\ i \in Nat
    BY <1>4
  <2>3. ASSUME NEW i \in DOMAIN C, NEW j \in DOMAIN C, C[i].linked, C[j].linked, C[i].wk = C[j].wk
        PROVE  i = j
    <3>1. i + 1 = j + 1
      BY <2>2, <2>3 DEF OneLinked
    <3>2. QED
      BY <2>2, <3>1
  <2>4. ASSUME NEW k \in Keys, NEW i \in DOMAIN C
        PROVE  ~(pendingAcks[k].linked /\ C[i].linked /\ pendingAcks[k].wk = C[i].wk)
    BY <2>2 DEF OneLinked
  <2>5. OneLinked(pendingAcks, C)
    BY <2>3, <2>4 DEF OneLinked
  <2>6. QED
    BY <1>1, <2>1, <2>5
<1>6. CASE Tail(c.rest) # <<>>
  <2>1. continuations' = <<ChainAfter(c)>> \o C
    BY <1>2, <1>6 DEF CommandRejected
  <2>2. ChainAfter(c).wk = c.wk /\ ChainAfter(c).linked = c.linked
    BY DEF ChainAfter, DueChains, Chains
  <2>3. /\ DOMAIN continuations' = DOMAIN continuations
        /\ continuations'[1] = ChainAfter(c)
        /\ \A i \in 2 .. n + 1 : continuations'[i] = continuations[i]
    BY <1>3, <1>4, <2>1
  <2>4. \A i \in DOMAIN continuations : /\ continuations'[i].wk = continuations[i].wk
                                        /\ continuations'[i].linked = continuations[i].linked
    BY <1>4, <2>2, <2>3
  <2>5. PICK D : D = continuations'
    OBVIOUS
  <2>6. /\ DOMAIN D = DOMAIN continuations
        /\ \A i \in DOMAIN continuations : /\ D[i].wk = continuations[i].wk
                                          /\ D[i].linked = continuations[i].linked
    BY <2>3, <2>4, <2>5
  <2>7. OneLinked(pendingAcks, D)
    BY <2>6 DEF OneLinked
  <2>8. QED
    BY <1>1, <2>5, <2>7
<1>7. QED
  BY <1>5, <1>6

-----------------------------------------------------------------------------
(* Every step.                                                             *)

\* A step that calls nothing and settles nothing.
LEMMA CallsUntouched ==
    ASSUME CallsInv, TypeOK', UNCHANGED <<pendingAcks, continuations, calls>>
    PROVE  CallsInv'
BY DEF CallsInv, Accounted

\* A step that settles waiters.
LEMMA CallsSettle ==
    ASSUME CallsInv, TypeOK', NEW K \in SUBSET Waiting, NEW W \in SUBSET Workers, SettleAcks(K, W)
    PROVE  CallsInv'
<1>1. K \in SUBSET Keys
  BY DEF Waiting
<1>2. OneLinked(pendingAcks', continuations')
  BY <1>1, SettleLinked DEF CallsInv
<1>3. ASSUME NEW s \in Sessions
      PROVE  Accounted(s)'
  <2>1. InChains(pendingAcks, continuations, s)
            = InChains(pendingAcks', continuations', s) + Cardinality({k \in K : k.s = s})
    BY SettleCount DEF CallsInv
  <2>2. calls'[s] = calls[s] - Cardinality({k \in K : k.s = s})
    BY DEF SettleAcks
  <2>3. calls[s] = InChains(pendingAcks, continuations, s)
    BY DEF CallsInv, Accounted
  <2>4. IsFiniteSet({k \in K : k.s = s})
    BY <1>1, KeysFinite, FS_Subset
  <2>5. Cardinality({k \in K : k.s = s}) \in Nat
    BY <2>4, FS_CardinalityType
  <2>6. InChains(pendingAcks', continuations', s) \in Nat
    <3>1. pendingAcks' \in Acks /\ continuations' \in Seq(DueChains)
      BY DEF TypeOK, Acks
    <3>2. QED
      BY <3>1, HeadsFinite, BehindFinite, DueFinite DEF InChains
  <2>7. calls'[s] = InChains(pendingAcks', continuations', s)
    BY <2>1, <2>2, <2>3, <2>5, <2>6
  <2>8. QED
    BY <2>7 DEF Accounted
<1>4. QED
  BY <1>2, <1>3 DEF CallsInv

\* A call that queues its command.
LEMMA CallsQueue ==
    ASSUME CallsInv, TypeOK', NEW w \in Workers, NEW cmd \in Cmds,
           QueueGroupedPlaybackCommand(w, cmd), calls' = [calls EXCEPT ![cmd.s] = @ + 1]
    PROVE  CallsInv'
<1>1. OneLinked(pendingAcks', continuations')
  BY QueueLinked DEF CallsInv
<1>2. ASSUME NEW s \in Sessions
      PROVE  Accounted(s)'
  <2>1. InChains(pendingAcks', continuations', s)
            = InChains(pendingAcks, continuations, s) + One(s, cmd)
    BY QueueCount DEF CallsInv
  <2>2. calls[s] = InChains(pendingAcks, continuations, s) /\ calls[s] \in Int
    BY DEF CallsInv, Accounted, TypeOK
  <2>3. calls'[s] = calls[s] + One(s, cmd)
    BY <2>2 DEF One, CallsInv, TypeOK, Cmds
  <2>4. QED
    BY <2>1, <2>2, <2>3 DEF Accounted
<1>3. QED
  BY <1>1, <1>2 DEF CallsInv

\* A step that writes the next command.
LEMMA CallsWrite == CallsInv /\ TypeOK' /\ WriteCommandWithAck => CallsInv'
<1> SUFFICES ASSUME CallsInv, TypeOK', WriteCommandWithAck
             PROVE  CallsInv'
  OBVIOUS
<1>1. OneLinked(pendingAcks', continuations')
  BY WriteLinked DEF CallsInv
<1>2. NextCmd \in Cmds
  BY NextChainTypes DEF WriteCommandWithAck, CallsInv
<1>3. ASSUME NEW s \in Sessions
      PROVE  Accounted(s)'
  <2>1. InChains(pendingAcks', continuations', s)
            = InChains(pendingAcks, continuations, s)
                  - IF pendingAcks[NextCmd].at = "idle" THEN 0 ELSE One(s, NextCmd)
    BY WriteCount DEF CallsInv
  <2>2. calls[s] = InChains(pendingAcks, continuations, s) /\ calls[s] \in Int
    BY DEF CallsInv, Accounted, TypeOK
  <2>3. calls \in [Sessions -> Int] /\ NextCmd.s \in Sessions
    BY <1>2 DEF CallsInv, TypeOK, Cmds
  <2>4. CASE pendingAcks[NextCmd].at = "idle"
    <3>1. calls' = calls
      BY <2>4 DEF WriteCommandWithAck
    <3>2. QED
      BY <2>1, <2>2, <2>4, <3>1 DEF Accounted
  <2>5. CASE pendingAcks[NextCmd].at # "idle"
    <3>1. calls' = [calls EXCEPT ![NextCmd.s] = @ - 1]
      BY <2>5 DEF WriteCommandWithAck
    <3>2. calls'[s] = calls[s] - One(s, NextCmd)
      BY <2>2, <2>3, <3>1 DEF One
    <3>3. QED
      BY <2>1, <2>2, <2>5, <3>2 DEF Accounted
  <2>6. QED
    BY <2>4, <2>5
<1>4. QED
  BY <1>1, <1>3 DEF CallsInv

\* A step that rejects it.
LEMMA CallsReject == CallsInv /\ TypeOK' /\ CommandRejected => CallsInv'
<1> SUFFICES ASSUME CallsInv, TypeOK', CommandRejected
             PROVE  CallsInv'
  OBVIOUS
<1>1. OneLinked(pendingAcks', continuations')
  BY RejectLinked DEF CallsInv
<1>2. NextCmd \in Cmds
  BY NextChainTypes DEF CommandRejected, CallsInv
<1>3. ASSUME NEW s \in Sessions
      PROVE  Accounted(s)'
  <2>1. InChains(pendingAcks', continuations', s)
            = InChains(pendingAcks, continuations, s) - One(s, NextCmd)
    BY RejectCount DEF CallsInv
  <2>2. calls[s] = InChains(pendingAcks, continuations, s) /\ calls[s] \in Int
    BY DEF CallsInv, Accounted, TypeOK
  <2>3. calls \in [Sessions -> Int] /\ NextCmd.s \in Sessions
    BY <1>2 DEF CallsInv, TypeOK, Cmds
  <2>4. calls' = [calls EXCEPT ![NextCmd.s] = @ - 1]
    BY DEF CommandRejected
  <2>5. calls'[s] = calls[s] - One(s, NextCmd)
    BY <2>2, <2>3, <2>4 DEF One
  <2>6. QED
    BY <2>1, <2>2, <2>5 DEF Accounted
<1>4. QED
  BY <1>1, <1>3 DEF CallsInv

LEMMA CallsPreserved == CallsInv /\ [Next]_vars => CallsInv'
<1> SUFFICES ASSUME CallsInv, [Next]_vars
             PROVE  CallsInv'
  OBVIOUS
<1>1. TypeOK /\ TypeOK'
  BY TypePreserved DEF CallsInv
<1>2. CASE RegisterNativeDeviceRuntime \/ UnregisterNativeDeviceRuntime
  <2>1. SettleAcks(Waiting, {w \in Workers : archiveRuntimes[w] # "none"})
    BY <1>2 DEF RegisterNativeDeviceRuntime, UnregisterNativeDeviceRuntime, ClearArchivePool
  <2>2. PICK W \in SUBSET Workers : W = {w \in Workers : archiveRuntimes[w] # "none"}
    OBVIOUS
  <2>3. SettleAcks(Waiting, W) /\ Waiting \in SUBSET Waiting
    BY <2>1, <2>2
  <2>4. QED
    BY <1>1, <2>3, CallsSettle
<1>3. ASSUME NEW w \in Workers, ArchiveWorkerExit(w)
      PROVE  CallsInv'
  <2>1. PICK K \in SUBSET Waiting : K = {k \in Waiting : assignments[k.s] = w}
    OBVIOUS
  <2>2. SettleAcks(K, {w}) /\ {w} \in SUBSET Workers
    BY <1>3, <2>1 DEF ArchiveWorkerExit
  <2>3. QED
    BY <1>1, <2>2, CallsSettle
<1>4. ASSUME NEW k \in Waiting, NEW ok, Settle(k, ok)
      PROVE  CallsInv'
  <2>1. SettleAcks({k}, {}) /\ {k} \in SUBSET Waiting /\ {} \in SUBSET Workers
    BY <1>4 DEF Settle
  <2>2. QED
    BY <1>1, <2>1, CallsSettle
<1>5. ASSUME NEW w \in Workers, HandleStatusLine(w)
      PROVE  CallsInv'
  <2>1. DEFINE reply == Head(stderr[w])
               k == [s |-> reply.s, op |-> reply.op]
  <2>2. CASE k \in Waiting
    <3>1. Settle(k, reply.ok)
      BY <1>5, <2>2 DEF HandleStatusLine
    <3>2. HIDE DEF k, reply
    <3>3. QED
      BY <1>4, <2>2, <3>1
  <2>3. CASE k \notin Waiting
    BY <1>1, <1>5, <2>3, CallsUntouched DEF HandleStatusLine
  <2>4. QED
    BY <2>2, <2>3
<1>6. ASSUME NEW k \in Keys, StartAckTimeout(k) \/ StopAckTimeout(k) \/ WriteError(k)
      PROVE  CallsInv'
  <2>1. k \in Waiting /\ Settle(k, FALSE)
    BY <1>6 DEF StartAckTimeout, StopAckTimeout, WriteError
  <2>2. QED
    BY <1>4, <2>1
<1>7. ASSUME NEW s \in Sessions, StartGroupedPlayback(s)
      PROVE  CallsInv'
  <2>1. PICK w \in Workers : QueueGroupedPlaybackCommand(w, [s |-> s, op |-> "start"])
    BY <1>7 DEF StartGroupedPlayback
  <2>2. PICK cmd \in Cmds : cmd = [s |-> s, op |-> "start"]
    BY DEF Cmds, Ops
  <2>3. calls' = [calls EXCEPT ![cmd.s] = @ + 1]
    BY <1>7, <2>2 DEF StartGroupedPlayback
  <2>4. QED
    BY <1>1, <2>1, <2>2, <2>3, CallsQueue
<1>8. ASSUME NEW s \in Sessions, StopGroupedPlayback(s)
      PROVE  CallsInv'
  <2>1. PICK w \in Workers : w = assignments[s]
    BY <1>1, <1>8 DEF StopGroupedPlayback, TypeOK
  <2>2. PICK cmd \in Cmds : cmd = [s |-> s, op |-> "stop"]
    BY DEF Cmds, Ops
  <2>3. QueueGroupedPlaybackCommand(w, cmd) /\ calls' = [calls EXCEPT ![cmd.s] = @ + 1]
    BY <1>8, <2>1, <2>2 DEF StopGroupedPlayback
  <2>4. QED
    BY <1>1, <2>3, CallsQueue
<1>9. ASSUME NEW w \in Workers,
             InitialStart(w) \/ Restart(w) \/ StartFails(w) \/ WorkerCrashes(w) \/ WorkerCommand(w)
      PROVE  CallsInv'
  <2>1. UNCHANGED <<pendingAcks, continuations, calls>>
    BY <1>9 DEF InitialStart, Restart, StartFails, WorkerCrashes, WorkerCommand, nodeVars
  <2>2. QED
    BY <1>1, <2>1, CallsUntouched
<1>10. ASSUME NEW s \in Sessions, StopUnassigned(s)
       PROVE  CallsInv'
  BY <1>1, <1>10, CallsUntouched DEF StopUnassigned
<1>11. CASE UNCHANGED vars
  BY <1>1, <1>11, CallsUntouched DEF vars, nodeVars
<1>12. QED
  BY <1>1, <1>2, <1>3, <1>5, <1>6, <1>7, <1>8, <1>9, <1>10, <1>11, CallsWrite, CallsReject
     DEF Next

LEMMA CallsInit == Init => CallsInv
<1> SUFFICES ASSUME Init
             PROVE  CallsInv
  OBVIOUS
<1>1. TypeOK
  BY NoWorkerIsNone DEF Init, TypeOK, ChildStates
<1>2. \A k \in Keys : pendingAcks[k] = Idle
  BY DEF Init
<1>3. continuations = <<>> /\ \A s \in Sessions : calls[s] = 0
  BY DEF Init
<1>4. OneLinked(pendingAcks, continuations)
  BY <1>2, <1>3 DEF OneLinked, Idle
<1>5. ASSUME NEW s \in Sessions
      PROVE  Accounted(s)
  <2>1. Heads(pendingAcks, s) = {}
    BY <1>2 DEF Heads, Idle
  <2>2. Behind(pendingAcks, s) = {}
    BY <1>2 DEF Behind, Idle, Of
  <2>3. QED
    BY <1>3, <2>1, <2>2, FS_EmptySet, DueNone DEF Accounted, InChains
<1>6. QED
  BY <1>1, <1>4, <1>5 DEF CallsInv

LEMMA CallsInvariant == Spec => []CallsInv
BY CallsInit, CallsPreserved, PTL DEF Spec

\* No promise of startGroupedPlayback or stopGroupedPlayback is forgotten and none settles
\* twice: whatever acks, timeouts, superseded keys, exits and registrations do to the chains
\* of deviceRuntime.ts, the calls a session waits for are exactly its commands in them.
THEOREM CallsAreAccounted == Spec => []CallsAccounted
BY CallsInvariant, InvariantAccounts, PTL

-----------------------------------------------------------------------------
(* The inductive invariant: Node's side.                                   *)

\* A session has one command under way at most.
OneCallEach == \A s \in Sessions : calls[s] <= 1

AllAt(A, r, w) == \A j \in DOMAIN r : A[r[j].s] = w

\* A command that waits was sent to the worker its session is assigned to, as will be
\* those behind it, through the chain in the queue map; the entry of that worker is there.
WaiterFits(k) ==
    LET a == pendingAcks[k]
    IN /\ a.linked /\ a.at # "removed" /\ assignments[k.s] = a.wk
       /\ AllAt(assignments, a.rest, a.wk)
       /\ a.at = "lost" => archiveRuntimes[a.wk] # "ready"

\* So with a chain that is due, or its worker has gone and its sessions were released.
ChainFits(i) ==
    LET c == continuations[i]
    IN IF c.linked THEN AllAt(assignments, c.rest, c.wk)
       ELSE ~Usable(c.wk) /\ AllAt(assignments, c.rest, NoWorker)

\* Sessions are assigned to workers that have an entry.
Entries ==
    /\ \A s \in Sessions : assignments[s] # NoWorker => archiveRuntimes[assignments[s]] # "none"
    /\ ~factory => \A w \in Workers : archiveRuntimes[w] = "none"

FreshNode ==
    /\ OneCallEach
    /\ \A k \in Waiting : WaiterFits(k)
    /\ \A i \in DOMAIN continuations : ChainFits(i)
    /\ Entries

\* What the lemmas below may rely on besides.
Known == CallsInv /\ TimersFindNoWorker /\ Capacity /\ TypeOK'

Fresh == Reusable = {} /\ ~AllowReplace

-----------------------------------------------------------------------------
(* One command under way: the places of a session's commands exclude each  *)
(* other.                                                                  *)

\* Three sets with one member between them.
LEMMA OneBetweenThem ==
    ASSUME NEW A, NEW B, NEW C, IsFiniteSet(A), IsFiniteSet(B), IsFiniteSet(C),
           Cardinality(A) + Cardinality(B) + Cardinality(C) <= 1
    PROVE  /\ Cardinality(A) + Cardinality(B) + Cardinality(C) \in {0, 1}
           /\ Cardinality(A) + Cardinality(B) + Cardinality(C) = 0
                  => A = {} /\ B = {} /\ C = {}
           /\ A # {} => B = {} /\ C = {}
           /\ B # {} => A = {} /\ C = {}
           /\ C # {} => A = {} /\ B = {}
           /\ \A x, y \in A : x = y
           /\ \A x, y \in B : x = y
           /\ \A x, y \in C : x = y
<1>1. ASSUME NEW S, IsFiniteSet(S)
      PROVE  /\ Cardinality(S) \in Nat /\ (Cardinality(S) = 0 <=> S = {})
             /\ Cardinality(S) <= 1 => \A x, y \in S : x = y
  <2>1. Cardinality(S) \in Nat /\ (Cardinality(S) = 0 <=> S = {})
    BY <1>1, FS_CardinalityType, FS_EmptySet
  <2>2. ASSUME Cardinality(S) <= 1, NEW x \in S, NEW y \in S
        PROVE  x = y
    <3>1. Cardinality(S) = 1
      BY <2>1, <2>2
    <3>2. PICK z : S = {z}
      BY <1>1, <3>1, FS_Singleton
    <3>3. QED
      BY <2>2, <3>2
  <2>3. QED
    BY <2>1, <2>2
<1>2. /\ Cardinality(A) \in Nat /\ (Cardinality(A) = 0 <=> A = {})
      /\ Cardinality(A) <= 1 => \A x, y \in A : x = y
  BY <1>1
<1>3. /\ Cardinality(B) \in Nat /\ (Cardinality(B) = 0 <=> B = {})
      /\ Cardinality(B) <= 1 => \A x, y \in B : x = y
  BY <1>1
<1>4. /\ Cardinality(C) \in Nat /\ (Cardinality(C) = 0 <=> C = {})
      /\ Cardinality(C) <= 1 => \A x, y \in C : x = y
  BY <1>1
<1>5. PICK a \in Nat, b \in Nat, c \in Nat :
          a = Cardinality(A) /\ b = Cardinality(B) /\ c = Cardinality(C)
  BY <1>2, <1>3, <1>4
<1>6. /\ a + b + c \in {0, 1}
      /\ a + b + c = 0 => a = 0 /\ b = 0 /\ c = 0
      /\ a # 0 => b = 0 /\ c = 0
      /\ b # 0 => a = 0 /\ c = 0
      /\ c # 0 => a = 0 /\ b = 0
      /\ a <= 1 /\ b <= 1 /\ c <= 1
  BY <1>5
<1>7. QED
  BY <1>2, <1>3, <1>4, <1>5, <1>6

LEMMA Tokens ==
    ASSUME CallsInv, OneCallEach, NEW s \in Sessions
    PROVE  LET H == Heads(pendingAcks, s)
               B == Behind(pendingAcks, s)
               D == DueOf(continuations, s)
           IN /\ calls[s] \in {0, 1}
              /\ calls[s] = 0 => H = {} /\ B = {} /\ D = {}
              /\ H # {} => B = {} /\ D = {}
              /\ B # {} => H = {} /\ D = {}
              /\ D # {} => H = {} /\ B = {}
              /\ \A x, y \in H : x = y
              /\ \A x, y \in B : x = y
              /\ \A x, y \in D : x = y
<1>1. PICK H, B, D : /\ H = Heads(pendingAcks, s)
                     /\ B = Behind(pendingAcks, s)
                     /\ D = DueOf(continuations, s)
  OBVIOUS
<1>2. pendingAcks \in Acks /\ continuations \in Seq(DueChains)
  BY ChainTypes DEF CallsInv
<1>3. IsFiniteSet(H) /\ IsFiniteSet(B) /\ IsFiniteSet(D)
  BY <1>1, <1>2, HeadsFinite, BehindFinite, DueFinite
<1>4. calls[s] = Cardinality(H) + Cardinality(B) + Cardinality(D)
  BY <1>1 DEF CallsInv, Accounted, InChains
<1>5. calls[s] <= 1
  BY DEF OneCallEach
<1>6. Cardinality(H) + Cardinality(B) + Cardinality(D) <= 1
  BY <1>4, <1>5
<1>7. /\ Cardinality(H) + Cardinality(B) + Cardinality(D) \in {0, 1}
      /\ Cardinality(H) + Cardinality(B) + Cardinality(D) = 0
             => H = {} /\ B = {} /\ D = {}
      /\ H # {} => B = {} /\ D = {}
      /\ B # {} => H = {} /\ D = {}
      /\ D # {} => H = {} /\ B = {}
      /\ \A x, y \in H : x = y
      /\ \A x, y \in B : x = y
      /\ \A x, y \in D : x = y
  BY <1>3, <1>6, OneBetweenThem
<1>8. QED
  BY <1>1, <1>4, <1>7

\* No chain, written or not, has a command of s but the one at hand.
NoneBehind(s) == \A k \in Keys : \A j \in DOMAIN pendingAcks[k].rest :
                     pendingAcks[k].rest[j].s # s
NoneDue(s) == \A i \in DOMAIN continuations : \A j \in DOMAIN continuations[i].rest :
                  continuations[i].rest[j].s # s
NoneWaits(s) == \A k \in Waiting : k.s # s

LEMMA NoneWaitsIs ==
    ASSUME NEW s
    PROVE  Heads(pendingAcks, s) = {} <=> NoneWaits(s)
BY DEF Heads, NoneWaits, Waiting

LEMMA NoneBehindIs ==
    ASSUME TypeOK, NEW s
    PROVE  Behind(pendingAcks, s) = {} <=> NoneBehind(s)
<1>1. ASSUME NEW k \in Keys, NEW j \in DOMAIN pendingAcks[k].rest
      PROVE  j \in Nat
  <2>1. pendingAcks[k].rest \in Seq(Cmds)
    BY ChainTypes, RestType
  <2>2. QED
    BY <2>1
<1>2. \A x : x \in Behind(pendingAcks, s) =>
          /\ x[1] \in Keys /\ x[2] \in DOMAIN pendingAcks[x[1]].rest
          /\ pendingAcks[x[1]].rest[x[2]].s = s
  BY DEF Behind, Of
<1>3. ASSUME NEW k \in Keys, NEW j \in DOMAIN pendingAcks[k].rest,
             pendingAcks[k].rest[j].s = s
      PROVE  <<k, j>> \in Behind(pendingAcks, s)
  BY <1>1, <1>3 DEF Behind, Of
<1>4. QED
  BY <1>2, <1>3 DEF NoneBehind

LEMMA NoneDueIs ==
    ASSUME TypeOK, NEW s
    PROVE  DueOf(continuations, s) = {} <=> NoneDue(s)
<1>1. ASSUME NEW i \in DOMAIN continuations, NEW j \in DOMAIN continuations[i].rest
      PROVE  i \in Nat /\ j \in Nat
  <2>1. continuations[i].rest \in Seq(Cmds) /\ i \in Nat
    BY ChainTypes, DueRestType
  <2>2. QED
    BY <2>1
<1>2. \A x : x \in DueOf(continuations, s) =>
          /\ x[1] \in DOMAIN continuations /\ x[2] \in DOMAIN continuations[x[1]].rest
          /\ continuations[x[1]].rest[x[2]].s = s
  BY DEF DueOf, Of
<1>3. ASSUME NEW i \in DOMAIN continuations, NEW j \in DOMAIN continuations[i].rest,
             continuations[i].rest[j].s = s
      PROVE  <<i, j>> \in DueOf(continuations, s)
  BY <1>1, <1>3 DEF DueOf, Of
<1>4. QED
  BY <1>2, <1>3 DEF NoneDue

\* A session without a call has no command anywhere.
LEMMA NoCallNoCommand ==
    ASSUME CallsInv, OneCallEach, NEW s \in Sessions, calls[s] = 0
    PROVE  NoneWaits(s) /\ NoneBehind(s) /\ NoneDue(s)
BY Tokens, NoneWaitsIs, NoneBehindIs, NoneDueIs DEF CallsInv

\* One whose command waits has no other.
LEMMA WaiterAlone ==
    ASSUME CallsInv, OneCallEach, NEW k \in Waiting
    PROVE  /\ k \in Keys /\ k.s \in Sessions /\ calls[k.s] = 1
           /\ \A l \in Waiting : l.s = k.s => l = k
           /\ NoneBehind(k.s) /\ NoneDue(k.s)
<1>1. k \in Keys /\ k.s \in Sessions
  BY DEF Waiting, Keys, Cmds
<1>2. PICK s \in Sessions : s = k.s
  BY <1>1
<1>3. k \in Heads(pendingAcks, s)
  BY <1>1, <1>2 DEF Heads, Waiting
<1>4. \A l \in Waiting : l.s = s => l \in Heads(pendingAcks, s)
  BY DEF Heads, Waiting
<1>5. /\ calls[s] = 1
      /\ Behind(pendingAcks, s) = {} /\ DueOf(continuations, s) = {}
      /\ \A x, y \in Heads(pendingAcks, s) : x = y
  BY <1>3, Tokens
<1>6. NoneBehind(s) /\ NoneDue(s)
  BY <1>5, NoneBehindIs, NoneDueIs DEF CallsInv
<1>7. QED
  BY <1>1, <1>2, <1>3, <1>4, <1>5, <1>6

\* One whose command is behind another has no other either, ...
LEMMA BehindAlone ==
    ASSUME CallsInv, OneCallEach,
           NEW k \in Keys, NEW j \in DOMAIN pendingAcks[k].rest,
           NEW s \in Sessions, s = pendingAcks[k].rest[j].s
    PROVE  calls[s] = 1 /\ NoneWaits(s) /\ NoneDue(s)
<1>1. ~NoneBehind(s)
  BY DEF NoneBehind
<1>2. Behind(pendingAcks, s) # {}
  BY <1>1, NoneBehindIs DEF CallsInv
<1>3. QED
  BY <1>2, Tokens, NoneWaitsIs, NoneDueIs DEF CallsInv

\* ... nor has one whose command is in a due chain.
LEMMA DueAlone ==
    ASSUME CallsInv, OneCallEach,
           NEW i \in DOMAIN continuations, NEW j \in DOMAIN continuations[i].rest,
           NEW s \in Sessions, s = continuations[i].rest[j].s
    PROVE  /\ calls[s] = 1 /\ NoneWaits(s) /\ NoneBehind(s)
           /\ \A m \in DOMAIN continuations : \A n \in DOMAIN continuations[m].rest :
                  continuations[m].rest[n].s = s => m = i /\ n = j
<1>1. ~NoneDue(s)
  BY DEF NoneDue
<1>2. DueOf(continuations, s) # {}
  BY <1>1, NoneDueIs DEF CallsInv
<1>3. calls[s] = 1 /\ NoneWaits(s) /\ NoneBehind(s)
  BY <1>2, Tokens, NoneWaitsIs, NoneBehindIs DEF CallsInv
<1>4. ASSUME NEW m \in DOMAIN continuations, NEW n \in DOMAIN continuations[m].rest,
             continuations[m].rest[n].s = s
      PROVE  <<m, n>> \in DueOf(continuations, s)
  <2>1. continuations[m].rest \in Seq(Cmds) /\ m \in Nat
    BY ChainTypes, DueRestType DEF CallsInv
  <2>2. n \in Nat
    BY <2>1
  <2>3. QED
    BY <1>4, <2>1, <2>2 DEF DueOf, Of
<1>5. \A x, y \in DueOf(continuations, s) : x = y
  BY Tokens
<1>6. <<i, j>> \in DueOf(continuations, s)
  BY <1>4
<1>7. ASSUME NEW m \in DOMAIN continuations, NEW n \in DOMAIN continuations[m].rest,
             continuations[m].rest[n].s = s
      PROVE  m = i /\ n = j
  <2>1. <<m, n>> = <<i, j>>
    BY <1>4, <1>5, <1>6, <1>7
  <2>2. QED
    BY <2>1
<1>8. QED
  BY <1>3, <1>7

LEMMA NextAlone ==
    ASSUME CallsInv, OneCallEach, continuations # <<>>, NEW s \in Sessions, s = NextCmd.s
    PROVE  /\ calls[s] = 1 /\ NoneWaits(s) /\ NoneBehind(s)
           /\ \A m \in DOMAIN continuations : \A n \in DOMAIN continuations[m].rest :
                  continuations[m].rest[n].s = s => m = 1 /\ n = 1
<1>1. continuations \in Seq(DueChains)
  BY ChainTypes DEF CallsInv
<1>2. 1 \in DOMAIN continuations /\ NextChain = continuations[1]
  BY <1>1, HeadTailProperties, LenProperties, EmptySeq DEF NextChain
<1>3. NextChain.rest \in Seq(Cmds) /\ NextChain.rest # <<>>
  BY <1>1, <1>2, DueRestType
<1>4. 1 \in DOMAIN NextChain.rest /\ NextCmd = NextChain.rest[1]
  BY <1>3, HeadTailProperties, LenProperties, EmptySeq DEF NextCmd
<1>5. QED
  BY <1>2, <1>4, DueAlone

-----------------------------------------------------------------------------
(* What settling does while no chain is due.                               *)

Settled(K, W) ==
    /\ Waiting' = Waiting \ K
    /\ \A k \in Keys \ K : pendingAcks[k].wk \notin W => pendingAcks'[k] = pendingAcks[k]
    /\ \A k \in Keys \ K : pendingAcks'[k].rest = pendingAcks[k].rest
    /\ \A k \in K : pendingAcks'[k] = Idle
    /\ \A i \in DOMAIN continuations' : \E k \in K :
           /\ continuations'[i].rest = pendingAcks[k].rest
           /\ continuations'[i].wk = pendingAcks[k].wk
           /\ continuations'[i].linked <=>
                  pendingAcks[k].linked /\ pendingAcks[k].wk \notin W

LEMMA SettleShape ==
    ASSUME TypeOK, NEW K \in SUBSET Waiting, NEW W \in SUBSET Workers, SettleAcks(K, W),
           continuations = <<>>
    PROVE  Settled(K, W)
<1>1. K \in SUBSET Keys
  BY DEF Waiting
<1>2. \A k \in Keys : /\ k \in K => pendingAcks'[k] = Idle
                      /\ k \notin K => /\ pendingAcks'[k].rest = pendingAcks[k].rest
                                       /\ pendingAcks'[k].at = "idle" <=> pendingAcks[k].at = "idle"
  BY <1>1, SettledAck
<1>3. Waiting' = Waiting \ K
  <2>1. Waiting' = {k \in Keys : pendingAcks'[k].at # "idle"}
    BY DEF Waiting, Keys, Cmds
  <2>2. QED
    BY <1>1, <1>2, <2>1 DEF Waiting, Idle
<1>4. \A k \in Keys \ K : pendingAcks[k].wk \notin W => pendingAcks'[k] = pendingAcks[k]
  BY DEF SettleAcks
<1>5. ASSUME NEW i \in DOMAIN continuations'
      PROVE  \E k \in K :
                 /\ continuations'[i].rest = pendingAcks[k].rest
                 /\ continuations'[i].wk = pendingAcks[k].wk
                 /\ continuations'[i].linked <=>
                        pendingAcks[k].linked /\ pendingAcks[k].wk \notin W
  <2>1. PICK q \in Orders(Behinds(K)) :
            continuations' = Unlinked(continuations \o ChainsOf(q), W)
    BY <1>1, SettledDue
  <2>2. /\ ChainsOf(q) \in Seq(DueChains)
        /\ DOMAIN ChainsOf(q) = DOMAIN q
        /\ \A j \in DOMAIN q : /\ q[j] \in K
                               /\ ChainsOf(q)[j].rest = pendingAcks[q[j]].rest
                               /\ ChainsOf(q)[j].wk = pendingAcks[q[j]].wk
                               /\ ChainsOf(q)[j].linked = pendingAcks[q[j]].linked
    BY <1>1, ChainsOfTypes
  <2>3. PICK D \in Seq(DueChains) : D = ChainsOf(q)
    BY <2>2
  <2>4. continuations \o D = D
    BY <2>3
  <2>5. continuations' = Unlinked(D, W)
    BY <2>1, <2>3, <2>4
  <2>6. /\ DOMAIN continuations' = DOMAIN D
        /\ continuations'[i].rest = D[i].rest
        /\ continuations'[i].wk = D[i].wk
        /\ continuations'[i].linked <=> D[i].linked /\ D[i].wk \notin W
    BY <2>5, UnlinkedIs
  <2>7. QED
    BY <2>2, <2>3, <2>6
<1>6. QED
  BY <1>1, <1>2, <1>3, <1>4, <1>5 DEF Settled

\* How many calls that leaves.
LEMMA SettleCalls ==
    ASSUME TypeOK, NEW K \in SUBSET Waiting, NEW W, SettleAcks(K, W), NEW s \in Sessions
    PROVE  /\ calls'[s] <= calls[s]
           /\ (\A k \in K : k.s # s) => calls'[s] = calls[s]
<1>1. K \in SUBSET Keys
  BY DEF Waiting
<1>2. PICK S : S = {k \in K : k.s = s}
  OBVIOUS
<1>3. IsFiniteSet(S)
  BY <1>1, <1>2, KeysFinite, FS_Subset
<1>4. Cardinality(S) \in Nat /\ (S = {} => Cardinality(S) = 0)
  BY <1>3, FS_CardinalityType, FS_EmptySet
<1>5. calls'[s] = calls[s] - Cardinality(S) /\ calls[s] \in Int
  BY <1>2 DEF SettleAcks, TypeOK
<1>6. (\A k \in K : k.s # s) => S = {}
  BY <1>2
<1>7. QED
  BY <1>4, <1>5, <1>6

\* One promise: its own call.
LEMMA SettleOneCall ==
    ASSUME TypeOK, NEW k \in Waiting, SettleAcks({k}, {}), NEW s \in Sessions
    PROVE  calls'[s] = IF s = k.s THEN calls[s] - 1 ELSE calls[s]
<1>1. PICK S : S = {l \in {k} : l.s = s}
  OBVIOUS
<1>2. S = IF k.s = s THEN {k} ELSE {}
  BY <1>1
<1>3. Cardinality(S) = IF k.s = s THEN 1 ELSE 0
  BY <1>2, FS_Singleton, FS_EmptySet
<1>4. calls'[s] = calls[s] - Cardinality(S) /\ calls[s] \in Int
  BY <1>1 DEF SettleAcks, TypeOK
<1>5. QED
  BY <1>3, <1>4

-----------------------------------------------------------------------------
(* Every step keeps Node's side.                                           *)

\* Chains whose sessions stay where they are.
LEMMA AllAtKept ==
    ASSUME NEW A, NEW B, NEW r, NEW w, AllAt(A, r, w),
           \A j \in DOMAIN r : B[r[j].s] = A[r[j].s]
    PROVE  AllAt(B, r, w)
BY DEF AllAt

LEMMA AllAtTail ==
    ASSUME NEW A, NEW r \in Seq(Cmds), r # <<>>, NEW w, AllAt(A, r, w)
    PROVE  AllAt(A, Tail(r), w) /\ A[Head(r).s] = w
<1>1. /\ DOMAIN Tail(r) = 1 .. Len(r) - 1 /\ DOMAIN r = 1 .. Len(r)
      /\ Len(r) \in Nat \ {0}
      /\ \A i \in 1 .. Len(r) - 1 : Tail(r)[i] = r[i+1]
      /\ Head(r) = r[1]
  BY HeadTailProperties, LenProperties, EmptySeq
<1>2. ASSUME NEW i \in 1 .. Len(r) - 1
      PROVE  A[Tail(r)[i].s] = w
  <2>1. i + 1 \in DOMAIN r /\ Tail(r)[i] = r[i+1]
    BY <1>1
  <2>2. QED
    BY <2>1 DEF AllAt
<1>3. 1 \in DOMAIN r
  BY <1>1
<1>4. QED
  BY <1>1, <1>2, <1>3 DEF AllAt

LEMMA AllAtAppend ==
    ASSUME NEW A, NEW r \in Seq(Cmds), NEW c \in Cmds, NEW w, AllAt(A, r, w), A[c.s] = w
    PROVE  AllAt(A, Append(r, c), w)
<1>1. /\ DOMAIN Append(r, c) = 1 .. Len(r) + 1 /\ DOMAIN r = 1 .. Len(r)
      /\ Len(r) \in Nat
      /\ \A i \in 1 .. Len(r) : Append(r, c)[i] = r[i]
      /\ Append(r, c)[Len(r) + 1] = c
  BY AppendProperties, LenProperties
<1>2. ASSUME NEW i \in 1 .. Len(r) + 1
      PROVE  A[Append(r, c)[i].s] = w
  <2>1. CASE i \in 1 .. Len(r)
    BY <1>1, <2>1 DEF AllAt
  <2>2. CASE i = Len(r) + 1
    BY <1>1, <2>2
  <2>3. QED
    BY <1>1, <2>1, <2>2
<1>3. QED
  BY <1>1, <1>2 DEF AllAt

\* A waiter whose record stays fits while its sessions stay where they are.
LEMMA WaiterKept ==
    ASSUME NEW k \in Keys, WaiterFits(k), pendingAcks'[k] = pendingAcks[k],
           assignments'[k.s] = assignments[k.s],
           \A j \in DOMAIN pendingAcks[k].rest :
               assignments'[pendingAcks[k].rest[j].s] = assignments[pendingAcks[k].rest[j].s],
           pendingAcks[k].at = "lost" /\ archiveRuntimes[pendingAcks[k].wk] # "ready"
               => archiveRuntimes'[pendingAcks[k].wk] # "ready"
    PROVE  WaiterFits(k)'
<1>1. AllAt(assignments', pendingAcks[k].rest, pendingAcks[k].wk)
  BY AllAtKept DEF WaiterFits
<1>2. QED
  BY <1>1 DEF WaiterFits

\* So does a chain.
LEMMA ChainKept ==
    ASSUME NEW i, ChainFits(i), continuations'[i] = continuations[i],
           \A j \in DOMAIN continuations[i].rest :
               assignments'[continuations[i].rest[j].s] = assignments[continuations[i].rest[j].s],
           ~Usable(continuations[i].wk) => ~Usable(continuations[i].wk)'
    PROVE  ChainFits(i)'
<1>1. \A w : AllAt(assignments, continuations[i].rest, w)
                 => AllAt(assignments', continuations[i].rest, w)
  BY AllAtKept
<1>2. QED
  BY <1>1 DEF ChainFits

\* A step that changes neither chains nor assignments.
LEMMA NodeFrame ==
    ASSUME TypeOK, FreshNode, UNCHANGED <<pendingAcks, continuations, assignments, calls>>,
           Entries',
           \A k \in Waiting : archiveRuntimes[pendingAcks[k].wk] # "ready"
                                  => archiveRuntimes'[pendingAcks[k].wk] # "ready",
           continuations # <<>> => \A w \in Workers : ~Usable(w) => ~Usable(w)'
    PROVE  FreshNode'
<1>1. Waiting' = Waiting /\ Waiting \in SUBSET Keys
  BY DEF Waiting
<1>2. ASSUME NEW k \in Waiting
      PROVE  WaiterFits(k)'
  BY <1>1, WaiterKept DEF FreshNode
<1>3. ASSUME NEW i \in DOMAIN continuations
      PROVE  ChainFits(i)'
  <2>1. continuations[i].wk \in Workers
    BY DEF TypeOK, DueChains, Chains
  <2>2. continuations # <<>>
    OBVIOUS
  <2>3. QED
    BY <2>1, <2>2, ChainKept DEF FreshNode
<1>4. QED
  BY <1>1, <1>2, <1>3 DEF FreshNode, OneCallEach

LEMMA RestSession ==
    ASSUME TypeOK, NEW k \in Keys, NEW j \in DOMAIN pendingAcks[k].rest
    PROVE  pendingAcks[k].rest[j] \in Cmds /\ pendingAcks[k].rest[j].s \in Sessions
<1>1. pendingAcks[k].rest \in Seq(Cmds)
  BY ChainTypes, RestType
<1>2. pendingAcks[k].rest[j] \in Cmds
  BY <1>1
<1>3. QED
  BY <1>2 DEF Cmds

LEMMA DueSession ==
    ASSUME TypeOK, NEW i \in DOMAIN continuations, NEW j \in DOMAIN continuations[i].rest
    PROVE  continuations[i].rest[j] \in Cmds /\ continuations[i].rest[j].s \in Sessions
<1>1. continuations[i].rest \in Seq(Cmds)
  BY ChainTypes, DueRestType
<1>2. continuations[i].rest[j] \in Cmds
  BY <1>1
<1>3. QED
  BY <1>2 DEF Cmds

\* The promise of k settles, and no worker gets ready or loses its entry.
LEMMA NodeSettle ==
    ASSUME Known, FreshNode, NEW k \in Waiting, NEW ok, Settle(k, ok), continuations = <<>>,
           factory' = factory,
           \A w \in Workers : /\ archiveRuntimes[w] # "ready" => archiveRuntimes'[w] # "ready"
                              /\ archiveRuntimes'[w] = "none" <=> archiveRuntimes[w] = "none"
    PROVE  FreshNode'
<1>1. TypeOK /\ CallsInv /\ OneCallEach
  BY DEF Known, CallsInv, FreshNode
<1>2. /\ k \in Keys /\ k.s \in Sessions
      /\ \A l \in Waiting : l.s = k.s => l = k
      /\ NoneBehind(k.s)
  BY <1>1, WaiterAlone
<1>3. SettleAcks({k}, {}) /\ {k} \in SUBSET Waiting /\ {} \in SUBSET Workers
  BY DEF Settle
<1>4. \A s \in Sessions : /\ s # k.s => assignments'[s] = assignments[s]
                          /\ assignments'[s] \in {assignments[s], NoWorker}
  BY <1>1 DEF Settle, Release, TypeOK
<1>5. /\ Waiting' = Waiting \ {k}
      /\ \A l \in Keys \ {k} : pendingAcks'[l] = pendingAcks[l]
      /\ \A i \in DOMAIN continuations' :
             /\ continuations'[i].rest = pendingAcks[k].rest
             /\ continuations'[i].wk = pendingAcks[k].wk
             /\ continuations'[i].linked <=> pendingAcks[k].linked
  <2>1. Settled({k}, {})
    BY <1>1, <1>3, SettleShape
  <2>2. QED
    BY <2>1 DEF Settled
<1>6. OneCallEach'
  <2>1. \A s \in Sessions : calls'[s] <= calls[s] /\ calls[s] \in Int /\ calls'[s] \in Int
    BY <1>1, <1>3, SettleCalls DEF Known, TypeOK
  <2>2. QED
    BY <1>1, <2>1 DEF OneCallEach
<1>7. ASSUME NEW l \in Waiting'
      PROVE  WaiterFits(l)'
  <2>1. l \in Waiting /\ l # k /\ l \in Keys /\ l.s \in Sessions /\ l.s # k.s
    BY <1>2, <1>5, <1>7 DEF Waiting, Keys, Cmds
  <2>2. \A j \in DOMAIN pendingAcks[l].rest :
            assignments'[pendingAcks[l].rest[j].s] = assignments[pendingAcks[l].rest[j].s]
    BY <1>1, <1>2, <1>4, <2>1, RestSession DEF NoneBehind
  <2>3. WaiterFits(l)
    BY <2>1 DEF FreshNode
  <2>4. pendingAcks[l].wk \in Workers
    BY <1>1, <2>1 DEF TypeOK, Waiting, Waiters, Idle
  <2>5. pendingAcks'[l] = pendingAcks[l] /\ assignments'[l.s] = assignments[l.s]
    BY <1>4, <1>5, <2>1
  <2>6. QED
    BY <2>1, <2>2, <2>3, <2>4, <2>5, WaiterKept
<1>8. ASSUME NEW i \in DOMAIN continuations'
      PROVE  ChainFits(i)'
  <2>1. \A j \in DOMAIN pendingAcks[k].rest :
            assignments'[pendingAcks[k].rest[j].s] = assignments[pendingAcks[k].rest[j].s]
    BY <1>1, <1>2, <1>4, RestSession DEF NoneBehind
  <2>2. pendingAcks[k].linked /\ AllAt(assignments, pendingAcks[k].rest, pendingAcks[k].wk)
    BY DEF FreshNode, WaiterFits
  <2>3. AllAt(assignments', pendingAcks[k].rest, pendingAcks[k].wk)
    BY <2>1, <2>2, AllAtKept
  <2>4. QED
    BY <1>5, <2>2, <2>3 DEF ChainFits
<1>9. Entries'
  BY <1>1, <1>4, NoWorkerIsNone DEF FreshNode, Entries, TypeOK
<1>10. QED
  BY <1>6, <1>7, <1>8, <1>9 DEF FreshNode

\* A worker exits: its sessions are released, and with them the commands behind theirs.
LEMMA NodeExit ==
    ASSUME Known, FreshNode, NEW w \in Workers, ArchiveWorkerExit(w)
    PROVE  FreshNode'
<1>1. TypeOK /\ CallsInv /\ OneCallEach
  BY DEF Known, CallsInv, FreshNode
<1>2. PICK K \in SUBSET Waiting : K = {k \in Waiting : assignments[k.s] = w}
  OBVIOUS
<1>3. \A k \in Waiting : k \in K <=> pendingAcks[k].wk = w
  BY <1>2 DEF FreshNode, WaiterFits
<1>4. SettleAcks(K, {w}) /\ {w} \in SUBSET Workers /\ continuations = <<>>
  BY <1>2 DEF ArchiveWorkerExit
<1>5. /\ Waiting' = Waiting \ K
      /\ \A l \in Keys \ K : pendingAcks[l].wk # w => pendingAcks'[l] = pendingAcks[l]
      /\ \A i \in DOMAIN continuations' : \E k \in K :
            /\ continuations'[i].rest = pendingAcks[k].rest
            /\ continuations'[i].wk = pendingAcks[k].wk
            /\ continuations'[i].linked
                   <=> pendingAcks[k].linked /\ pendingAcks[k].wk # w
  <2>1. Settled(K, {w})
    BY <1>1, <1>4, SettleShape
  <2>2. QED
    BY <2>1 DEF Settled
<1>6. \A s \in Sessions : assignments'[s] = IF assignments[s] = w THEN NoWorker ELSE assignments[s]
  BY DEF ArchiveWorkerExit
<1>7. \A v \in Workers : archiveRuntimes'[v] = IF v = w THEN "none" ELSE archiveRuntimes[v]
  BY <1>1 DEF ArchiveWorkerExit, TypeOK
<1>8. OneCallEach'
  <2>1. \A s \in Sessions : calls'[s] <= calls[s] /\ calls[s] \in Int /\ calls'[s] \in Int
    BY <1>1, <1>4, SettleCalls DEF Known, TypeOK
  <2>2. QED
    BY <1>1, <2>1 DEF OneCallEach
<1>9. ASSUME NEW l \in Waiting'
      PROVE  WaiterFits(l)'
  <2>1. l \in Waiting /\ l \notin K /\ l \in Keys /\ l.s \in Sessions /\ pendingAcks[l].wk # w
    BY <1>3, <1>5, <1>9 DEF Waiting, Keys, Cmds
  <2>2. WaiterFits(l)
    BY <2>1 DEF FreshNode
  <2>3. assignments'[l.s] = assignments[l.s]
    BY <1>6, <2>1, <2>2 DEF WaiterFits
  <2>4. ASSUME NEW j \in DOMAIN pendingAcks[l].rest
        PROVE  assignments'[pendingAcks[l].rest[j].s] = assignments[pendingAcks[l].rest[j].s]
    <3>1. pendingAcks[l].rest[j].s \in Sessions
      BY <1>1, <2>1, RestSession
    <3>2. assignments[pendingAcks[l].rest[j].s] = pendingAcks[l].wk
      BY <2>2 DEF WaiterFits, AllAt
    <3>3. QED
      BY <1>6, <2>1, <3>1, <3>2
  <2>5. pendingAcks[l].wk \in Workers
    BY <1>1, <2>1 DEF TypeOK, Waiting, Waiters, Idle
  <2>6. archiveRuntimes'[pendingAcks[l].wk] = archiveRuntimes[pendingAcks[l].wk]
    BY <1>7, <2>1, <2>5
  <2>7. pendingAcks'[l] = pendingAcks[l]
    BY <1>5, <2>1
  <2>8. QED
    BY <2>1, <2>2, <2>3, <2>4, <2>6, <2>7, WaiterKept
<1>10. ASSUME NEW i \in DOMAIN continuations'
       PROVE  ChainFits(i)'
  <2>1. PICK k \in K : /\ continuations'[i].rest = pendingAcks[k].rest
                       /\ continuations'[i].wk = pendingAcks[k].wk
                       /\ continuations'[i].linked
                              <=> pendingAcks[k].linked /\ pendingAcks[k].wk # w
    BY <1>5
  <2>2. k \in Waiting /\ k \in Keys /\ pendingAcks[k].wk = w
    BY <1>3 DEF Waiting
  <2>3. ASSUME NEW j \in DOMAIN pendingAcks[k].rest
        PROVE  assignments'[pendingAcks[k].rest[j].s] = NoWorker
    <3>1. pendingAcks[k].rest[j].s \in Sessions
      BY <1>1, <2>2, RestSession
    <3>2. assignments[pendingAcks[k].rest[j].s] = w
      BY <2>2 DEF FreshNode, WaiterFits, AllAt
    <3>3. QED
      BY <1>6, <3>1, <3>2
  <2>4. ~Usable(w)'
    BY <1>7 DEF Usable
  <2>5. QED
    BY <2>1, <2>2, <2>3, <2>4 DEF ChainFits, AllAt
<1>11. Entries'
  <2>1. factory' = factory
    BY DEF ArchiveWorkerExit
  <2>2. QED
    BY <1>1, <1>6, <1>7, <2>1, NoWorkerIsNone DEF FreshNode, Entries, TypeOK
<1>12. QED
  BY <1>8, <1>9, <1>10, <1>11 DEF FreshNode

\* The device is registered while no runtime is: nothing waits then.
LEMMA NodeRegister ==
    ASSUME Known, FreshNode, ~AllowReplace, RegisterNativeDeviceRuntime
    PROVE  FreshNode' /\ Waiting = {} /\ \A s \in Sessions : assignments[s] = NoWorker
<1>1. TypeOK /\ CallsInv /\ OneCallEach
  BY DEF Known, CallsInv, FreshNode
<1>2. ~factory /\ continuations = <<>> /\ ClearArchivePool /\ factory' = TRUE
  BY DEF RegisterNativeDeviceRuntime
<1>3. \A s \in Sessions : assignments[s] = NoWorker
  BY <1>1, <1>2 DEF FreshNode, Entries, TypeOK
<1>4. Waiting = {}
  <2>1. SUFFICES ASSUME NEW k \in Waiting
                 PROVE  FALSE
    OBVIOUS
  <2>2. k \in Keys /\ k.s \in Sessions
    BY <1>1, WaiterAlone
  <2>3. pendingAcks[k].wk \in Workers
    BY <1>1, <2>1, <2>2 DEF TypeOK, Waiting, Waiters, Idle
  <2>4. assignments[k.s] = pendingAcks[k].wk
    BY DEF FreshNode, WaiterFits
  <2>5. QED
    BY <1>3, <2>2, <2>3, <2>4, NoWorkerIsNone
<1>5. PICK W \in SUBSET Workers : W = {w \in Workers : archiveRuntimes[w] # "none"}
  OBVIOUS
<1>6. SettleAcks(Waiting, W) /\ Waiting \in SUBSET Waiting
  BY <1>2, <1>5 DEF ClearArchivePool
<1>7. Settled(Waiting, W)
  BY <1>1, <1>2, <1>6, SettleShape
<1>8. Waiting' = {} /\ DOMAIN continuations' = {}
  BY <1>4, <1>7 DEF Settled
<1>9. OneCallEach'
  <2>1. \A s \in Sessions : calls'[s] <= calls[s] /\ calls[s] \in Int /\ calls'[s] \in Int
    BY <1>1, <1>6, SettleCalls DEF Known, TypeOK
  <2>2. QED
    BY <1>1, <2>1 DEF OneCallEach
<1>10. Entries'
  BY <1>2 DEF ClearArchivePool, Entries
<1>11. QED
  BY <1>3, <1>4, <1>8, <1>9, <1>10 DEF FreshNode

\* Its registration is withdrawn: every call is rejected, or will be.
LEMMA NodeUnregister ==
    ASSUME Known, FreshNode, UnregisterNativeDeviceRuntime
    PROVE  FreshNode'
<1>1. TypeOK /\ CallsInv /\ OneCallEach
  BY DEF Known, CallsInv, FreshNode
<1>2. /\ continuations = <<>> /\ ClearArchivePool
      /\ archiveRuntimes' = [w \in Workers |-> "none"]
  BY DEF UnregisterNativeDeviceRuntime
<1>3. \A s \in Sessions : assignments'[s] = NoWorker
  BY <1>2 DEF ClearArchivePool
<1>4. PICK W \in SUBSET Workers : W = {w \in Workers : archiveRuntimes[w] # "none"}
  OBVIOUS
<1>5. SettleAcks(Waiting, W) /\ Waiting \in SUBSET Waiting
  BY <1>2, <1>4 DEF ClearArchivePool
<1>6. Settled(Waiting, W)
  BY <1>1, <1>2, <1>5, SettleShape
<1>7. OneCallEach'
  <2>1. \A s \in Sessions : calls'[s] <= calls[s] /\ calls[s] \in Int /\ calls'[s] \in Int
    BY <1>1, <1>5, SettleCalls DEF Known, TypeOK
  <2>2. QED
    BY <1>1, <2>1 DEF OneCallEach
<1>8. Waiting' = {}
  BY <1>6 DEF Settled
<1>9. ASSUME NEW i \in DOMAIN continuations'
      PROVE  ChainFits(i)'
  <2>1. PICK k \in Waiting : /\ continuations'[i].rest = pendingAcks[k].rest
                             /\ continuations'[i].wk = pendingAcks[k].wk
                             /\ continuations'[i].linked
                                    <=> pendingAcks[k].linked /\ pendingAcks[k].wk \notin W
    BY <1>6 DEF Settled
  <2>2. k \in Keys /\ k.s \in Sessions
    BY <1>1, WaiterAlone
  <2>3. pendingAcks[k].wk \in Workers /\ assignments[k.s] = pendingAcks[k].wk
    BY <1>1, <2>1, <2>2 DEF TypeOK, Waiting, Waiters, Idle, FreshNode, WaiterFits
  <2>4. archiveRuntimes[pendingAcks[k].wk] # "none"
    BY <2>2, <2>3, NoWorkerIsNone DEF FreshNode, Entries
  <2>5. ~continuations'[i].linked
    BY <1>4, <2>1, <2>3, <2>4
  <2>6. \A j \in DOMAIN pendingAcks[k].rest :
            assignments'[pendingAcks[k].rest[j].s] = NoWorker
    BY <1>1, <1>3, <2>2, RestSession
  <2>7. PICK w \in Workers : w = pendingAcks[k].wk
    BY <2>3
  <2>8. ~Usable(w)'
    BY <1>2 DEF Usable
  <2>9. QED
    BY <2>1, <2>5, <2>6, <2>7, <2>8 DEF ChainFits, AllAt
<1>10. Entries'
  BY <1>2, <1>3 DEF Entries
<1>11. QED
  BY <1>7, <1>8, <1>9, <1>10 DEF FreshNode

\* A start or restart timer finds no worker, hence nobody who waits for it.
LEMMA NodeStarts ==
    ASSUME Known, FreshNode, NEW w \in Workers, InitialStart(w) \/ Restart(w) \/ StartFails(w)
    PROVE  FreshNode'
<1>1. TypeOK /\ CallsInv /\ OneCallEach
  BY DEF Known, CallsInv, FreshNode
<1>2. /\ continuations = <<>>
      /\ UNCHANGED <<pendingAcks, continuations, assignments, calls, factory>>
      /\ restartTimers[w] \/ initialTimers[w]
  BY DEF InitialStart, Restart, StartFails
<1>3. \A k \in Waiting : pendingAcks[k].wk # w
  BY <1>2 DEF Known, TimersFindNoWorker, FreshNode, WaiterFits
<1>4. /\ \A v \in Workers : v # w => archiveRuntimes'[v] = archiveRuntimes[v]
      /\ archiveRuntimes'[w] = "none" => archiveRuntimes[w] = "none"
      /\ ~factory => archiveRuntimes' = archiveRuntimes
  BY <1>1 DEF InitialStart, Restart, StartFails, StartArchiveRuntime, TypeOK
<1>5. \A k \in Waiting : pendingAcks[k].wk \in Workers
  BY <1>1 DEF TypeOK, Waiting, Waiters, Idle
<1>6. Entries'
  BY <1>1, <1>2, <1>4, NoWorkerIsNone DEF FreshNode, Entries, TypeOK
<1>7. QED
  BY <1>1, <1>2, <1>3, <1>4, <1>5, <1>6, NodeFrame

\* Steps of the worker processes, and of Node that touch no chain.
LEMMA NodeUntouched ==
    ASSUME Known, FreshNode,
           UNCHANGED <<pendingAcks, continuations, assignments, calls, factory>>,
           \A w \in Workers : \/ archiveRuntimes'[w] = archiveRuntimes[w]
                              \/ archiveRuntimes[w] = "ready" /\ archiveRuntimes'[w] = "dying"
    PROVE  FreshNode'
<1>1. TypeOK
  BY DEF Known, CallsInv
<1>2. \A k \in Waiting : pendingAcks[k].wk \in Workers
  BY <1>1 DEF TypeOK, Waiting, Waiters, Idle
<1>3. \A w \in Workers : /\ archiveRuntimes[w] # "ready" => archiveRuntimes'[w] # "ready"
                         /\ ~Usable(w) => ~Usable(w)'
                         /\ archiveRuntimes'[w] = "none" <=> archiveRuntimes[w] = "none"
  BY DEF Usable
<1>4. Entries'
  BY <1>1, <1>3, NoWorkerIsNone DEF FreshNode, Entries, TypeOK
<1>5. QED
  BY <1>1, <1>2, <1>3, <1>4, NodeFrame

\* The sessions of the commands in the chains are not the one that has no command.
LEMMA OthersStay ==
    ASSUME Known, FreshNode, NEW s \in Sessions, calls[s] = 0,
           \A t \in Sessions : t # s => assignments'[t] = assignments[t]
    PROVE  /\ \A k \in Waiting : assignments'[k.s] = assignments[k.s]
           /\ \A k \in Keys : \A j \in DOMAIN pendingAcks[k].rest :
                  assignments'[pendingAcks[k].rest[j].s] = assignments[pendingAcks[k].rest[j].s]
           /\ \A i \in DOMAIN continuations : \A j \in DOMAIN continuations[i].rest :
                  assignments'[continuations[i].rest[j].s]
                      = assignments[continuations[i].rest[j].s]
<1>1. TypeOK /\ CallsInv /\ OneCallEach
  BY DEF Known, CallsInv, FreshNode
<1>2. NoneWaits(s) /\ NoneBehind(s) /\ NoneDue(s)
  BY <1>1, NoCallNoCommand
<1>3. \A k \in Waiting : assignments'[k.s] = assignments[k.s]
  BY <1>2 DEF NoneWaits, Waiting, Keys, Cmds
<1>4. ASSUME NEW k \in Keys, NEW j \in DOMAIN pendingAcks[k].rest
      PROVE  assignments'[pendingAcks[k].rest[j].s] = assignments[pendingAcks[k].rest[j].s]
  BY <1>1, <1>2, RestSession DEF NoneBehind
<1>5. ASSUME NEW i \in DOMAIN continuations, NEW j \in DOMAIN continuations[i].rest
      PROVE  assignments'[continuations[i].rest[j].s] = assignments[continuations[i].rest[j].s]
  BY <1>1, <1>2, DueSession DEF NoneDue
<1>6. QED
  BY <1>3, <1>4, <1>5

\* A call queues its command for the worker its session is assigned to.
LEMMA NodeQueue ==
    ASSUME Known, FreshNode, NEW w \in Workers, NEW cmd \in Cmds,
           QueueGroupedPlaybackCommand(w, cmd), calls[cmd.s] = 0,
           calls' = [calls EXCEPT ![cmd.s] = @ + 1],
           assignments'[cmd.s] = w, archiveRuntimes[w] # "none",
           \A t \in Sessions : t # cmd.s => assignments'[t] = assignments[t],
           UNCHANGED <<factory, archiveRuntimes>>
    PROVE  FreshNode'
<1>1. TypeOK /\ CallsInv /\ OneCallEach /\ OneLinked(pendingAcks, continuations)
  BY DEF Known, CallsInv, FreshNode
<1>2. /\ \A k \in Waiting : assignments'[k.s] = assignments[k.s]
      /\ \A k \in Keys : \A j \in DOMAIN pendingAcks[k].rest :
             assignments'[pendingAcks[k].rest[j].s] = assignments[pendingAcks[k].rest[j].s]
      /\ \A i \in DOMAIN continuations : \A j \in DOMAIN continuations[i].rest :
             assignments'[continuations[i].rest[j].s] = assignments[continuations[i].rest[j].s]
  BY OthersStay DEF Cmds
<1>3. OneCallEach'
  BY <1>1 DEF OneCallEach, TypeOK, Cmds
<1>4. Entries'
  BY DEF FreshNode, Entries
<1>5. ASSUME NEW l \in Waiting, pendingAcks'[l] = pendingAcks[l]
      PROVE  WaiterFits(l)'
  <2>1. l \in Keys /\ WaiterFits(l)
    BY DEF Waiting, FreshNode
  <2>2. QED
    BY <1>2, <1>5, <2>1, WaiterKept
<1>6. ASSUME NEW i \in DOMAIN continuations, continuations'[i] = continuations[i]
      PROVE  ChainFits(i)'
  <2>1. ~Usable(continuations[i].wk) => ~Usable(continuations[i].wk)'
    BY <1>6 DEF Usable
  <2>2. ChainFits(i)
    BY DEF FreshNode
  <2>3. QED
    BY <1>2, <1>6, <2>1, <2>2, ChainKept
<1>7. ASSUME NEW k \in Keys, QueuedBehind(w, cmd, k)
      PROVE  FreshNode'
  <2>1. /\ pendingAcks[k].linked /\ pendingAcks[k].wk = w
        /\ pendingAcks'[k] = [pendingAcks[k] EXCEPT !.rest = Append(@, cmd)]
        /\ \A l \in Keys : l # k => pendingAcks'[l] = pendingAcks[l]
        /\ continuations' = continuations
    BY <1>7 DEF QueuedBehind
  <2>2. pendingAcks[k] \in Waiters /\ k \in Waiting
    BY <1>1, <2>1 DEF TypeOK, Idle, Waiting, Waiters
  <2>3. /\ pendingAcks'[k].rest = Append(pendingAcks[k].rest, cmd)
        /\ pendingAcks'[k].at = pendingAcks[k].at
        /\ pendingAcks'[k].wk = pendingAcks[k].wk
        /\ pendingAcks'[k].linked = pendingAcks[k].linked
    <3>1. PICK a \in Waiters : a = pendingAcks[k]
      BY <2>2
    <3>2. pendingAcks'[k] = [a EXCEPT !.rest = Append(a.rest, cmd)]
      BY <2>1, <3>1
    <3>3. QED
      BY <3>1, <3>2 DEF Waiters
  <2>4. Waiting' = Waiting
    <3>1. Waiting' = {l \in Keys : pendingAcks'[l].at # "idle"}
      BY DEF Waiting, Keys, Cmds
    <3>2. QED
      BY <2>1, <2>3, <3>1 DEF Waiting
  <2>5. WaiterFits(k) /\ pendingAcks[k].rest \in Seq(Cmds)
    BY <2>2 DEF FreshNode, Waiters
  <2>6. AllAt(assignments, pendingAcks[k].rest, w)
    BY <2>1, <2>5 DEF WaiterFits
  <2>7. PICK A \in {assignments'}, r \in Seq(Cmds) : r = pendingAcks[k].rest
    BY <2>5
  <2>8. AllAt(A, Append(r, cmd), w)
    <3>1. AllAt(A, r, w)
      BY <1>2, <2>6, <2>7 DEF AllAt
    <3>2. QED
      BY <2>7, <3>1, AllAtAppend
  <2>9. WaiterFits(k)'
    BY <1>2, <2>1, <2>2, <2>3, <2>5, <2>7, <2>8 DEF WaiterFits
  <2>10. \A l \in Waiting : WaiterFits(l)'
    BY <1>5, <2>1, <2>9 DEF Waiting
  <2>11. \A i \in DOMAIN continuations' : ChainFits(i)'
    BY <1>6, <2>1
  <2>12. QED
    BY <1>3, <1>4, <2>4, <2>10, <2>11 DEF FreshNode
<1>8. ASSUME \A l \in Keys : pendingAcks'[l] = pendingAcks[l]
      PROVE  \A l \in Waiting' : WaiterFits(l)'
  <2>1. Waiting' = {l \in Keys : pendingAcks'[l].at # "idle"}
    BY DEF Waiting, Keys, Cmds
  <2>2. Waiting' = Waiting /\ Waiting \in SUBSET Keys
    BY <1>8, <2>1 DEF Waiting
  <2>3. QED
    BY <1>5, <1>8, <2>2
<1>9. ASSUME NEW i \in DOMAIN continuations, QueuedInDue(w, cmd, i)
      PROVE  FreshNode'
  <2>1. /\ continuations[i].linked /\ continuations[i].wk = w
        /\ DOMAIN continuations' = DOMAIN continuations
        /\ continuations'[i] = [continuations[i] EXCEPT !.rest = Append(@, cmd)]
        /\ \A j \in DOMAIN continuations : j # i => continuations'[j] = continuations[j]
        /\ \A l \in Keys : pendingAcks'[l] = pendingAcks[l]
    BY <1>9 DEF QueuedInDue
  <2>2. PICK c \in DueChains : c = continuations[i]
    BY <1>1, ChainTypes
  <2>3. c.rest \in Seq(Cmds)
    BY <2>2 DEF DueChains, Chains
  <2>4. /\ continuations'[i].rest = Append(c.rest, cmd)
        /\ continuations'[i].wk = w
        /\ continuations'[i].linked
    BY <2>1, <2>2 DEF DueChains, Chains
  <2>5. AllAt(assignments, c.rest, w)
    BY <2>1, <2>2 DEF FreshNode, ChainFits
  <2>6. PICK A \in {assignments'}, r \in Seq(Cmds) : r = c.rest
    BY <2>3
  <2>7. AllAt(A, r, w)
    BY <1>2, <2>2, <2>5, <2>6 DEF AllAt
  <2>8. AllAt(A, Append(r, cmd), w)
    BY <2>6, <2>7, AllAtAppend
  <2>9. ChainFits(i)'
    BY <2>4, <2>6, <2>8 DEF ChainFits
  <2>10. \A j \in DOMAIN continuations' : ChainFits(j)'
    BY <1>6, <2>1, <2>9
  <2>11. QED
    BY <1>3, <1>4, <1>8, <2>1, <2>10 DEF FreshNode
<1>10. ASSUME QueuedAlone(w, cmd)
       PROVE  FreshNode'
  <2>1. /\ continuations' = Append(continuations, [wk |-> w, rest |-> <<cmd>>, linked |-> TRUE])
        /\ \A l \in Keys : pendingAcks'[l] = pendingAcks[l]
    BY <1>10 DEF QueuedAlone
  <2>2. PICK n \in Nat : n = Len(continuations) /\ DOMAIN continuations = 1 .. n
    BY <1>1, ChainTypes, LenProperties
  <2>3. PICK c : c = [wk |-> w, rest |-> <<cmd>>, linked |-> TRUE]
    OBVIOUS
  <2>4. c \in DueChains
    BY <2>3 DEF DueChains, Chains
  <2>5. /\ DOMAIN continuations' = 1 .. n + 1
        /\ \A j \in 1 .. n : continuations'[j] = continuations[j]
        /\ continuations'[n + 1] = c
    BY <1>1, <2>1, <2>2, <2>3, <2>4, ChainTypes, AppendProperties
  <2>6. ChainFits(n + 1)'
    BY <2>3, <2>5 DEF ChainFits, AllAt
  <2>7. ASSUME NEW j \in DOMAIN continuations'
        PROVE  ChainFits(j)'
    <3>1. CASE j \in 1 .. n
      BY <1>6, <2>2, <2>5, <3>1
    <3>2. CASE j = n + 1
      BY <2>6, <3>2
    <3>3. QED
      BY <2>2, <2>5, <3>1, <3>2
  <2>8. QED
    BY <1>3, <1>4, <1>8, <2>1, <2>7 DEF FreshNode
<1>11. QED
  BY <1>1, <1>7, <1>9, <1>10, QueueCases

\* A chain that moved up in the microtask queue.
LEMMA ChainMoved ==
    ASSUME NEW i, NEW j, ChainFits(i), continuations'[j] = continuations[i],
           \A n \in DOMAIN continuations[i].rest :
               assignments'[continuations[i].rest[n].s] = assignments[continuations[i].rest[n].s],
           archiveRuntimes' = archiveRuntimes
    PROVE  ChainFits(j)'
<1>1. \A w : AllAt(assignments, continuations[i].rest, w)
                 => AllAt(assignments', continuations[i].rest, w)
  BY AllAtKept
<1>2. QED
  BY <1>1 DEF ChainFits, Usable

\* The chain whose turn it is.
LEMMA NextIs ==
    ASSUME TypeOK, continuations # <<>>
    PROVE  /\ 1 \in DOMAIN continuations /\ NextChain = continuations[1]
           /\ NextChain \in DueChains /\ NextChain.wk \in Workers
           /\ NextChain.rest \in Seq(Cmds) /\ NextChain.rest # <<>>
           /\ 1 \in DOMAIN NextChain.rest /\ NextCmd = NextChain.rest[1]
           /\ NextCmd \in Cmds /\ NextCmd.s \in Sessions
           /\ Len(continuations) \in Nat \ {0}
           /\ DOMAIN continuations = 1 .. Len(continuations)
           /\ DOMAIN Tail(continuations) = 1 .. Len(continuations) - 1
           /\ \A i \in 1 .. Len(continuations) - 1 : Tail(continuations)[i] = continuations[i + 1]
<1>1. continuations \in Seq(DueChains)
  BY ChainTypes
<1>2. /\ 1 \in DOMAIN continuations /\ NextChain = continuations[1]
      /\ Len(continuations) \in Nat \ {0}
      /\ DOMAIN continuations = 1 .. Len(continuations)
      /\ DOMAIN Tail(continuations) = 1 .. Len(continuations) - 1
      /\ \A i \in 1 .. Len(continuations) - 1 : Tail(continuations)[i] = continuations[i + 1]
  BY <1>1, HeadTailProperties, LenProperties, EmptySeq DEF NextChain
<1>3. NextChain \in DueChains /\ NextChain.wk \in Workers /\ NextCmd \in Cmds
  BY NextChainTypes
<1>4. NextChain.rest \in Seq(Cmds) /\ NextChain.rest # <<>>
  BY <1>1, <1>2, DueRestType
<1>5. 1 \in DOMAIN NextChain.rest /\ NextCmd = NextChain.rest[1]
  BY <1>4, HeadTailProperties, LenProperties, EmptySeq DEF NextCmd
<1>6. QED
  BY <1>2, <1>3, <1>4, <1>5 DEF Cmds

\* With fresh ids no command meets one that waits under its key.
LEMMA WritesAlone ==
    ASSUME Known, FreshNode, WriteCommandWithAck
    PROVE  /\ continuations # <<>> /\ Usable(NextChain.wk)
           /\ NextChain.linked /\ AllAt(assignments, NextChain.rest, NextChain.wk)
           /\ assignments[NextCmd.s] = NextChain.wk
           /\ NextCmd \notin Waiting /\ Waiting' = Waiting \cup {NextCmd}
           /\ continuations' = Tail(continuations)
           /\ \A k \in Keys : k # NextCmd => pendingAcks'[k] = pendingAcks[k]
           /\ pendingAcks'[NextCmd] =
                  [at     |-> IF archiveRuntimes[NextChain.wk] = "ready" THEN "sent" ELSE "lost",
                   wk     |-> NextChain.wk,
                   rest   |-> Tail(NextChain.rest),
                   linked |-> NextChain.linked]
           /\ UNCHANGED <<assignments, calls>>
<1>1. TypeOK /\ CallsInv /\ OneCallEach
  BY DEF Known, CallsInv, FreshNode
<1>2. continuations # <<>> /\ Usable(NextChain.wk)
  BY DEF WriteCommandWithAck
<1>3. /\ 1 \in DOMAIN continuations /\ NextChain = continuations[1]
      /\ NextCmd \in Cmds /\ NextCmd.s \in Sessions
      /\ 1 \in DOMAIN NextChain.rest /\ NextCmd = NextChain.rest[1]
  BY <1>1, <1>2, NextIs
<1>4. ChainFits(1)
  BY <1>3 DEF FreshNode
<1>5. NextChain.linked /\ AllAt(assignments, NextChain.rest, NextChain.wk)
  BY <1>2, <1>3, <1>4 DEF ChainFits
<1>6. assignments[NextCmd.s] = NextChain.wk
  BY <1>3, <1>5 DEF AllAt
<1>7. NextCmd \notin Waiting
  BY <1>1, <1>2, <1>3, NextAlone DEF NoneWaits
<1>8. pendingAcks[NextCmd].at = "idle" /\ pendingAcks[NextCmd] = Idle
  BY <1>1, <1>3, <1>7 DEF Waiting, Keys, TypeOK, Waiters
<1>9. /\ continuations' = Tail(continuations)
      /\ UNCHANGED <<assignments, calls>>
  BY <1>8 DEF WriteCommandWithAck, Idle
<1>10. /\ \A k \in Keys : k # NextCmd => pendingAcks'[k] = pendingAcks[k]
       /\ pendingAcks'[NextCmd] =
              [at     |-> IF archiveRuntimes[NextChain.wk] = "ready" THEN "sent" ELSE "lost",
               wk     |-> NextChain.wk,
               rest   |-> Tail(NextChain.rest),
               linked |-> NextChain.linked]
  BY <1>1, <1>3 DEF WriteCommandWithAck, TypeOK, Keys
<1>11. Waiting' = Waiting \cup {NextCmd}
  <2>1. Waiting' = {k \in Keys : pendingAcks'[k].at # "idle"}
    BY DEF Waiting, Keys, Cmds
  <2>2. pendingAcks'[NextCmd].at # "idle" /\ NextCmd \in Keys
    BY <1>3, <1>10 DEF Keys
  <2>3. QED
    BY <1>10, <2>1, <2>2 DEF Waiting
<1>12. QED
  BY <1>2, <1>5, <1>6, <1>7, <1>9, <1>10, <1>11

\* The next command is written.
LEMMA NodeWrite ==
    ASSUME Known, FreshNode, WriteCommandWithAck
    PROVE  FreshNode'
<1>1. TypeOK /\ CallsInv /\ OneCallEach
  BY DEF Known, CallsInv, FreshNode
<1>2. /\ continuations # <<>>
      /\ NextChain.linked /\ AllAt(assignments, NextChain.rest, NextChain.wk)
      /\ assignments[NextCmd.s] = NextChain.wk
      /\ NextCmd \notin Waiting /\ Waiting' = Waiting \cup {NextCmd}
      /\ continuations' = Tail(continuations)
      /\ \A k \in Keys : k # NextCmd => pendingAcks'[k] = pendingAcks[k]
      /\ pendingAcks'[NextCmd] =
             [at     |-> IF archiveRuntimes[NextChain.wk] = "ready" THEN "sent" ELSE "lost",
              wk     |-> NextChain.wk,
              rest   |-> Tail(NextChain.rest),
              linked |-> NextChain.linked]
      /\ UNCHANGED <<assignments, calls>>
  BY WritesAlone
<1>3. UNCHANGED <<factory, archiveRuntimes>>
  BY DEF WriteCommandWithAck
<1>4. /\ NextChain.rest \in Seq(Cmds) /\ NextChain.rest # <<>>
      /\ DOMAIN continuations = 1 .. Len(continuations)
      /\ Len(continuations) \in Nat \ {0}
      /\ DOMAIN Tail(continuations) = 1 .. Len(continuations) - 1
      /\ \A i \in 1 .. Len(continuations) - 1 : Tail(continuations)[i] = continuations[i + 1]
  BY <1>1, <1>2, NextIs
<1>5. ASSUME NEW l \in Waiting'
      PROVE  WaiterFits(l)'
  <2>1. CASE l = NextCmd
    <3>1. AllAt(assignments, Tail(NextChain.rest), NextChain.wk)
      BY <1>2, <1>4, AllAtTail
    <3>2. PICK c \in Cmds, w \in {NextChain.wk}, r \in {Tail(NextChain.rest)} :
              /\ c = NextCmd
              /\ AllAt(assignments, r, w) /\ assignments[c.s] = w
      BY <1>1, <1>2, <3>1, NextIs
    <3>3. /\ pendingAcks'[c].rest = r /\ pendingAcks'[c].wk = w /\ pendingAcks'[c].linked
          /\ pendingAcks'[c].at \in {"sent", "lost"}
          /\ pendingAcks'[c].at = "lost" => archiveRuntimes[w] # "ready"
      <4>1. PICK p \in {"sent", "lost"} :
                p = IF archiveRuntimes[w] = "ready" THEN "sent" ELSE "lost"
        OBVIOUS
      <4>2. pendingAcks'[c] = [at |-> p, wk |-> w, rest |-> r, linked |-> NextChain.linked]
        BY <1>2, <3>2, <4>1
      <4>3. QED
        BY <1>2, <4>1, <4>2
    <3>4. WaiterFits(c)'
      BY <1>2, <1>3, <3>2, <3>3 DEF WaiterFits
    <3>5. QED
      BY <2>1, <3>2, <3>4
  <2>2. CASE l # NextCmd
    <3>1. l \in Waiting /\ l \in Keys /\ pendingAcks'[l] = pendingAcks[l]
      BY <1>2, <1>5, <2>2 DEF Waiting
    <3>2. WaiterFits(l)
      BY <3>1 DEF FreshNode
    <3>3. QED
      BY <1>2, <1>3, <3>1, <3>2, WaiterKept
  <2>3. QED
    BY <2>1, <2>2
<1>6. ASSUME NEW i \in DOMAIN continuations'
      PROVE  ChainFits(i)'
  <2>1. i \in 1 .. Len(continuations) - 1 /\ continuations'[i] = continuations[i + 1]
    BY <1>2, <1>4
  <2>2. i + 1 \in DOMAIN continuations
    BY <1>4, <2>1
  <2>3. ChainFits(i + 1)
    BY <2>2 DEF FreshNode
  <2>4. PICK m : m = i + 1 /\ ChainFits(m) /\ continuations'[i] = continuations[m]
    BY <2>1, <2>3
  <2>5. QED
    BY <1>2, <1>3, <2>4, ChainMoved
<1>7. OneCallEach' /\ Entries'
  BY <1>2, <1>3 DEF FreshNode, OneCallEach, Entries
<1>8. QED
  BY <1>5, <1>6, <1>7 DEF FreshNode

\* The next command is rejected.
LEMMA NodeReject ==
    ASSUME Known, FreshNode, CommandRejected
    PROVE  FreshNode'
<1>1. TypeOK /\ CallsInv /\ OneCallEach
  BY DEF Known, CallsInv, FreshNode
<1>2. /\ continuations # <<>>
      /\ continuations' = IF Tail(NextChain.rest) = <<>> THEN Tail(continuations)
                          ELSE <<ChainAfter(NextChain)>> \o Tail(continuations)
      /\ UNCHANGED <<factory, archiveRuntimes, pendingAcks>>
  BY DEF CommandRejected
<1>3. /\ 1 \in DOMAIN continuations /\ NextChain = continuations[1]
      /\ NextChain \in DueChains
      /\ NextChain.rest \in Seq(Cmds) /\ NextChain.rest # <<>>
      /\ DOMAIN continuations = 1 .. Len(continuations)
      /\ Len(continuations) \in Nat \ {0}
      /\ DOMAIN Tail(continuations) = 1 .. Len(continuations) - 1
      /\ \A i \in 1 .. Len(continuations) - 1 : Tail(continuations)[i] = continuations[i + 1]
  BY <1>1, <1>2, NextIs
<1>4. PICK s \in Sessions : s = NextCmd.s
  BY <1>1, <1>2, NextIs
<1>5. \A t \in Sessions : /\ t # s => assignments'[t] = assignments[t]
                          /\ assignments'[t] \in {assignments[t], NoWorker}
  BY <1>1, <1>4 DEF CommandRejected, Release, TypeOK
<1>6. /\ calls[s] = 1 /\ NoneWaits(s) /\ NoneBehind(s)
      /\ \A m \in DOMAIN continuations : \A n \in DOMAIN continuations[m].rest :
             continuations[m].rest[n].s = s => m = 1 /\ n = 1
  BY <1>1, <1>2, <1>4, NextAlone
<1>7. OneCallEach'
  <2>1. calls' = [calls EXCEPT ![s] = @ - 1]
    BY <1>4 DEF CommandRejected
  <2>2. QED
    BY <1>1, <1>6, <2>1 DEF OneCallEach, TypeOK
<1>8. Entries'
  BY <1>2, <1>5 DEF FreshNode, Entries
<1>9. Waiting' = Waiting /\ Waiting \in SUBSET Keys
  BY <1>2 DEF Waiting
<1>10. ASSUME NEW l \in Waiting
       PROVE  WaiterFits(l)'
  <2>1. l \in Keys /\ l.s \in Sessions /\ l.s # s /\ pendingAcks'[l] = pendingAcks[l]
    BY <1>2, <1>6 DEF Waiting, Keys, Cmds, NoneWaits
  <2>2. \A j \in DOMAIN pendingAcks[l].rest :
            assignments'[pendingAcks[l].rest[j].s] = assignments[pendingAcks[l].rest[j].s]
    BY <1>1, <1>5, <1>6, <2>1, RestSession DEF NoneBehind
  <2>3. WaiterFits(l)
    BY DEF FreshNode
  <2>4. QED
    BY <1>2, <1>5, <2>1, <2>2, <2>3, WaiterKept
<1>11. ASSUME NEW m \in DOMAIN continuations, m # 1, NEW i, continuations'[i] = continuations[m]
       PROVE  ChainFits(i)'
  <2>1. \A n \in DOMAIN continuations[m].rest :
            assignments'[continuations[m].rest[n].s] = assignments[continuations[m].rest[n].s]
    BY <1>1, <1>5, <1>6, <1>11, DueSession
  <2>2. ChainFits(m)
    BY DEF FreshNode
  <2>3. QED
    BY <1>2, <1>11, <2>1, <2>2, ChainMoved
<1>12. CASE Tail(NextChain.rest) = <<>>
  <2>1. ASSUME NEW i \in DOMAIN continuations'
        PROVE  ChainFits(i)'
    <3>1. i \in 1 .. Len(continuations) - 1 /\ continuations'[i] = continuations[i + 1]
      BY <1>2, <1>3, <1>12
    <3>2. i + 1 \in DOMAIN continuations /\ i + 1 # 1
      BY <1>3, <3>1
    <3>3. QED
      BY <1>11, <3>1, <3>2
  <2>2. QED
    BY <1>7, <1>8, <1>9, <1>10, <2>1 DEF FreshNode
<1>13. CASE Tail(NextChain.rest) # <<>>
  <2>1. continuations' = <<ChainAfter(NextChain)>> \o Tail(continuations)
    BY <1>2, <1>13
  <2>2. PICK c : c = ChainAfter(NextChain)
    OBVIOUS
  <2>3. /\ DOMAIN continuations' = 1 .. Len(continuations)
        /\ continuations'[1] = c
        /\ \A i \in 2 .. Len(continuations) : continuations'[i] = continuations[i]
    <3>1. PICK T \in Seq(DueChains), n \in Nat \ {0} :
              /\ T = Tail(continuations) /\ n = Len(continuations) /\ Len(T) = n - 1
              /\ \A i \in 1 .. n - 1 : T[i] = continuations[i + 1]
      <4>1. PICK C \in Seq(DueChains) : C = continuations /\ C # <<>>
        BY <1>1, <1>2, ChainTypes
      <4>2. /\ Tail(C) \in Seq(DueChains) /\ Len(C) \in Nat \ {0} /\ Len(Tail(C)) = Len(C) - 1
            /\ \A i \in 1 .. Len(C) - 1 : Tail(C)[i] = C[i + 1]
        BY <4>1, HeadTailProperties, LenProperties, EmptySeq
      <4>3. QED
        BY <4>1, <4>2
    <3>2. continuations' = <<c>> \o T
      BY <2>1, <2>2, <3>1
    <3>3. /\ DOMAIN continuations' = 1 .. n /\ continuations'[1] = c
          /\ \A i \in 2 .. n : continuations'[i] = T[i - 1]
      BY <3>1, <3>2
    <3>4. \A i \in 2 .. n : T[i - 1] = continuations[i]
      <4>1. ASSUME NEW i \in 2 .. n
            PROVE  T[i - 1] = continuations[(i - 1) + 1]
        BY <3>1
      <4>2. QED
        BY <4>1
    <3>5. QED
      BY <3>1, <3>3, <3>4
  <2>4. c.wk = NextChain.wk /\ c.rest = Tail(NextChain.rest) /\ c.linked = NextChain.linked
    BY <1>3, <2>2 DEF ChainAfter, DueChains, Chains
  <2>5. ChainFits(1)'
    <3>1. PICK r \in Seq(Cmds) : r = NextChain.rest /\ r # <<>>
      BY <1>3
    <3>2. /\ DOMAIN Tail(r) = 1 .. Len(r) - 1 /\ DOMAIN r = 1 .. Len(r)
          /\ Len(r) \in Nat \ {0}
          /\ \A i \in 1 .. Len(r) - 1 : Tail(r)[i] = r[i+1]
      BY <3>1, HeadTailProperties, LenProperties, EmptySeq
    <3>3. ASSUME NEW n \in DOMAIN Tail(r)
          PROVE  assignments'[Tail(r)[n].s] = assignments[Tail(r)[n].s]
      <4>1. n + 1 \in DOMAIN r /\ n + 1 # 1 /\ Tail(r)[n] = r[n + 1]
        BY <3>2
      <4>2. r[n + 1].s \in Sessions /\ r[n + 1].s # s
        BY <1>1, <1>3, <1>6, <3>1, <4>1, DueSession
      <4>3. QED
        BY <1>5, <4>1, <4>2
    <3>4. \A w : AllAt(assignments, r, w) => AllAt(assignments, Tail(r), w)
      BY <3>1, AllAtTail
    <3>5. \A w : AllAt(assignments, r, w) => AllAt(assignments', Tail(r), w)
      BY <3>3, <3>4 DEF AllAt
    <3>6. ChainFits(1)
      BY <1>3 DEF FreshNode
    <3>7. QED
      BY <1>2, <1>3, <2>3, <2>4, <3>1, <3>5, <3>6 DEF ChainFits, Usable
  <2>6. ASSUME NEW i \in DOMAIN continuations'
        PROVE  ChainFits(i)'
    <3>1. CASE i = 1
      BY <2>5, <3>1
    <3>2. CASE i # 1
      <4>1. i \in 2 .. Len(continuations) /\ i \in DOMAIN continuations
        BY <1>3, <2>3, <3>2
      <4>2. QED
        BY <1>11, <2>3, <3>2, <4>1
    <3>3. QED
      BY <3>1, <3>2
  <2>7. QED
    BY <1>7, <1>8, <1>9, <1>10, <2>6 DEF FreshNode
<1>14. QED
  BY <1>12, <1>13

\* The calls.  Callers of a fresh id start it when nothing mentions it, and stop it once.
LEMMA CallShape ==
    ASSUME Known, FreshNode, Fresh, NEW s \in Sessions
    PROVE  /\ StartGroupedPlayback(s) =>
                 /\ Unused(s)
                 /\ \E w \in Workers :
                       /\ Usable(w) /\ assignments' = [assignments EXCEPT ![s] = w]
                       /\ QueueGroupedPlaybackCommand(w, [s |-> s, op |-> "start"])
           /\ StopGroupedPlayback(s) =>
                 /\ calls[s] = 0 /\ assignments[s] \in Workers
                 /\ QueueGroupedPlaybackCommand(assignments[s], [s |-> s, op |-> "stop"])
<1>1. TypeOK /\ CallsInv /\ OneCallEach
  BY DEF Known, CallsInv, FreshNode
<1>2. calls[s] \in {0, 1}
  BY <1>1, Tokens
<1>3. ASSUME StartGroupedPlayback(s)
      PROVE  /\ Unused(s)
             /\ \E w \in Workers :
                   /\ Usable(w) /\ assignments' = [assignments EXCEPT ![s] = w]
                   /\ QueueGroupedPlaybackCommand(w, [s |-> s, op |-> "start"])
  <2>1. Unused(s)
    BY <1>3 DEF StartGroupedPlayback, Fresh
  <2>2. PICK w \in Workers :
            /\ SelectArchiveWorker(s, w)
            /\ assignments' = [assignments EXCEPT ![s] = w]
            /\ QueueGroupedPlaybackCommand(w, [s |-> s, op |-> "start"])
    BY <1>3 DEF StartGroupedPlayback
  <2>3. Usable(w)
    BY <2>1, <2>2, NoWorkerIsNone DEF Unused, SelectArchiveWorker, BestCandidate, Candidates
  <2>4. QED
    BY <2>1, <2>2, <2>3
<1>4. ASSUME StopGroupedPlayback(s)
      PROVE  /\ calls[s] = 0 /\ assignments[s] \in Workers
             /\ QueueGroupedPlaybackCommand(assignments[s], [s |-> s, op |-> "stop"])
  <2>1. calls[s] < 1
    BY <1>4 DEF StopGroupedPlayback, Fresh
  <2>2. QED
    BY <1>1, <1>2, <1>4, <2>1 DEF StopGroupedPlayback, TypeOK
<1>5. QED
  BY <1>3, <1>4

LEMMA NodeStart ==
    ASSUME Known, FreshNode, Fresh, NEW s \in Sessions, StartGroupedPlayback(s)
    PROVE  FreshNode'
<1>1. TypeOK
  BY DEF Known, CallsInv
<1>2. Unused(s)
  BY CallShape
<1>3. PICK w \in Workers :
          /\ Usable(w) /\ assignments' = [assignments EXCEPT ![s] = w]
          /\ QueueGroupedPlaybackCommand(w, [s |-> s, op |-> "start"])
  BY CallShape
<1>4. PICK cmd \in Cmds : cmd = [s |-> s, op |-> "start"]
  BY DEF Cmds, Ops
<1>5. cmd.s = s /\ QueueGroupedPlaybackCommand(w, cmd)
  BY <1>3, <1>4
<1>6. /\ calls[cmd.s] = 0 /\ calls' = [calls EXCEPT ![cmd.s] = @ + 1]
      /\ UNCHANGED <<factory, archiveRuntimes>>
  BY <1>2, <1>5 DEF StartGroupedPlayback, Unused
<1>7. /\ assignments'[cmd.s] = w /\ archiveRuntimes[w] # "none"
      /\ \A t \in Sessions : t # cmd.s => assignments'[t] = assignments[t]
  BY <1>1, <1>3, <1>5 DEF Usable, TypeOK
<1>8. QED
  BY <1>5, <1>6, <1>7, NodeQueue

LEMMA NodeStop ==
    ASSUME Known, FreshNode, Fresh, NEW s \in Sessions, StopGroupedPlayback(s)
    PROVE  FreshNode'
<1>1. TypeOK
  BY DEF Known, CallsInv
<1>2. /\ calls[s] = 0 /\ assignments[s] \in Workers
      /\ QueueGroupedPlaybackCommand(assignments[s], [s |-> s, op |-> "stop"])
  BY CallShape
<1>3. PICK w \in Workers : w = assignments[s]
  BY <1>2
<1>4. PICK cmd \in Cmds : cmd = [s |-> s, op |-> "stop"]
  BY DEF Cmds, Ops
<1>5. cmd.s = s /\ QueueGroupedPlaybackCommand(w, cmd)
  BY <1>2, <1>3, <1>4
<1>6. /\ calls[cmd.s] = 0 /\ calls' = [calls EXCEPT ![cmd.s] = @ + 1]
      /\ UNCHANGED <<factory, archiveRuntimes, assignments>>
  BY <1>2, <1>5 DEF StopGroupedPlayback
<1>7. /\ assignments'[cmd.s] = w /\ archiveRuntimes[w] # "none"
      /\ \A t \in Sessions : t # cmd.s => assignments'[t] = assignments[t]
  BY <1>3, <1>5, <1>6, NoWorkerIsNone DEF FreshNode, Entries
<1>8. QED
  BY <1>5, <1>6, <1>7, NodeQueue

\* A status line: of a command that waits, or of none.
LEMMA NodeStatusLine ==
    ASSUME Known, FreshNode, NEW w \in Workers, HandleStatusLine(w)
    PROVE  FreshNode'
<1>1. PICK reply, k : reply = Head(stderr[w]) /\ k = [s |-> reply.s, op |-> reply.op]
  OBVIOUS
<1>2. /\ continuations = <<>> /\ UNCHANGED <<factory, archiveRuntimes>>
      /\ IF k \in Waiting
         THEN Settle(k, reply.ok)
         ELSE UNCHANGED <<assignments, pendingAcks, continuations, calls, held>>
  BY <1>1 DEF HandleStatusLine
<1>3. CASE k \in Waiting
  <2>1. Settle(k, reply.ok) /\ \A v \in Workers : archiveRuntimes'[v] = archiveRuntimes[v]
    BY <1>2, <1>3
  <2>2. QED
    BY <1>2, <1>3, <2>1, NodeSettle
<1>4. CASE k \notin Waiting
  BY <1>2, <1>4, NodeUntouched
<1>5. QED
  BY <1>3, <1>4

\* A timeout or a write error.
LEMMA NodeTimeout ==
    ASSUME Known, FreshNode, NEW k \in Keys,
           StartAckTimeout(k) \/ StopAckTimeout(k) \/ WriteError(k)
    PROVE  FreshNode'
<1>1. TypeOK
  BY DEF Known, CallsInv
<1>2. k \in Waiting /\ continuations = <<>> /\ Settle(k, FALSE) /\ factory' = factory
  BY DEF StartAckTimeout, StopAckTimeout, WriteError
<1>3. PICK w \in Workers : w = pendingAcks[k].wk
  BY <1>1, <1>2 DEF TypeOK, Waiting, Waiters, Idle
<1>4. archiveRuntimes[w] # "none"
  <2>1. assignments[k.s] = w /\ k.s \in Sessions
    BY <1>2, <1>3 DEF FreshNode, WaiterFits, Keys, Cmds
  <2>2. QED
    BY <2>1, NoWorkerIsNone DEF FreshNode, Entries
<1>5. \/ archiveRuntimes' = archiveRuntimes
      \/ archiveRuntimes' = [archiveRuntimes EXCEPT ![w] = "doomed"]
  BY <1>3 DEF StartAckTimeout, StopAckTimeout, WriteError
<1>6. \A v \in Workers : /\ archiveRuntimes[v] # "ready" => archiveRuntimes'[v] # "ready"
                         /\ archiveRuntimes'[v] = "none" <=> archiveRuntimes[v] = "none"
  BY <1>1, <1>4, <1>5 DEF TypeOK
<1>7. QED
  BY <1>2, <1>6, NodeSettle

LEMMA FreshNodePreserved ==
    ASSUME CallsInv, TimersFindNoWorker, Capacity, FreshNode, Fresh, [Next]_vars
    PROVE  FreshNode'
<1>1. Known
  BY TypePreserved DEF Known, CallsInv
<1>2. CASE RegisterNativeDeviceRuntime
  BY <1>1, <1>2, NodeRegister DEF Fresh
<1>3. CASE UnregisterNativeDeviceRuntime
  BY <1>1, <1>3, NodeUnregister
<1>4. ASSUME NEW w \in Workers, InitialStart(w) \/ Restart(w) \/ StartFails(w)
      PROVE  FreshNode'
  BY <1>1, <1>4, NodeStarts
<1>5. ASSUME NEW w \in Workers, WorkerCrashes(w) \/ WorkerCommand(w)
      PROVE  FreshNode'
  <2>1. /\ UNCHANGED <<pendingAcks, continuations, assignments, calls, factory>>
        /\ \A v \in Workers : \/ archiveRuntimes'[v] = archiveRuntimes[v]
                              \/ archiveRuntimes[v] = "ready" /\ archiveRuntimes'[v] = "dying"
    BY <1>1, <1>5 DEF WorkerCrashes, WorkerCommand, nodeVars, Known, CallsInv, TypeOK
  <2>2. QED
    BY <1>1, <2>1, NodeUntouched
<1>6. ASSUME NEW s \in Sessions, StopUnassigned(s)
      PROVE  FreshNode'
  BY <1>1, <1>6, NodeUntouched DEF StopUnassigned
<1>7. CASE UNCHANGED vars
  BY <1>1, <1>7, NodeUntouched DEF vars, nodeVars
<1>8. QED
  BY <1>1, <1>2, <1>3, <1>4, <1>5, <1>6, <1>7, NodeExit, NodeStatusLine, NodeStart, NodeStop,
     NodeWrite, NodeReject, NodeTimeout DEF Next

LEMMA FreshNodeInit == Init => FreshNode
<1> SUFFICES ASSUME Init
             PROVE  FreshNode
  OBVIOUS
<1>1. Waiting = {}
  BY DEF Init, Waiting, Idle
<1>2. QED
  BY <1>1 DEF Init, FreshNode, OneCallEach, Entries

LEMMA FreshNodeInvariant ==
    ASSUME Fresh
    PROVE  Spec => []FreshNode
<1>1. CallsInv /\ TimersFindNoWorker /\ Capacity /\ FreshNode /\ [Next]_vars => FreshNode'
  BY FreshNodePreserved
<1>2. QED
  BY <1>1, FreshNodeInit, CallsInvariant, TimersFindNothing, CapacityKept, PTL DEF Spec

\* Chains of a worker Node uses are in the queue map, which has one for each worker.
LEMMA OneInFlight == CallsInv /\ FreshNode => OneCommandInFlight
<1> SUFFICES ASSUME CallsInv, FreshNode, NEW w \in Workers, Usable(w)
             PROVE  LET inFlight == {k \in Waiting : /\ pendingAcks[k].wk = w
                                                     /\ pendingAcks[k].at # "removed"}
                        due      == {i \in DOMAIN continuations : continuations[i].wk = w}
                    IN Cardinality(inFlight) + Cardinality(due) <= 1
  BY DEF OneCommandInFlight
<1>1. PICK A, B : /\ A = {k \in Waiting : pendingAcks[k].wk = w /\ pendingAcks[k].at # "removed"}
                  /\ B = {i \in DOMAIN continuations : continuations[i].wk = w}
  OBVIOUS
<1>2. \A k \in A : k \in Keys /\ pendingAcks[k].linked /\ pendingAcks[k].wk = w
  BY <1>1 DEF FreshNode, WaiterFits, Waiting
<1>3. \A i \in B : i \in DOMAIN continuations /\ continuations[i].linked /\ continuations[i].wk = w
  BY <1>1 DEF FreshNode, ChainFits
<1>4. /\ \A x, y \in A : x = y
      /\ \A x, y \in B : x = y
      /\ A = {} \/ B = {}
  BY <1>2, <1>3 DEF CallsInv, OneLinked
<1>5. ASSUME NEW S, \A x, y \in S : x = y
      PROVE  Cardinality(S) \in {0, 1} /\ (S = {} => Cardinality(S) = 0)
  <2>1. CASE S = {}
    BY <2>1, FS_EmptySet
  <2>2. CASE S # {}
    <3>1. PICK z : z \in S
      BY <2>2
    <3>2. S = {z}
      BY <1>5, <3>1
    <3>3. QED
      BY <2>2, <3>2, FS_Singleton
  <2>3. QED
    BY <2>1, <2>2
<1>6. Cardinality(A) + Cardinality(B) <= 1
  BY <1>4, <1>5
<1>7. QED
  BY <1>1, <1>6

\* For callers with fresh ids and one registration at a time, deviceRuntime.ts never sends a
\* worker it still uses a command while one it was sent is unanswered: whatever exits,
\* timeouts and rejections do, its chains for that worker are the one in the queue map.
THEOREM CommandsTakeTurns ==
    ASSUME Reusable = {}, ~AllowReplace
    PROVE  Spec => []OneCommandInFlight
<1>1. Fresh
  BY DEF Fresh
<1>2. Spec => []FreshNode
  BY <1>1, FreshNodeInvariant
<1>3. QED
  BY <1>2, CallsInvariant, OneInFlight, PTL

-----------------------------------------------------------------------------
(* The inductive invariant: the workers' side.                             *)

Start(s) == [s |-> s, op |-> "start"]
Stop(s)  == [s |-> s, op |-> "stop"]

Has(L, c) == \E i \in DOMAIN L : L[i] = c

\* What a worker has to read.
Lines == [w \in Workers |-> InputLines(w)]

\* What it has of a session: a playback, lines to read, replies Node has not read.
Playing(w, s)     == s \in playbacks[w]
StartLine(w, s)   == Has(Lines[w], Start(s))
StopLine(w, s)    == Has(Lines[w], Stop(s))
Started(w, s, ok) == Has(stderr[w], [s |-> s, op |-> "start", ok |-> ok])
Stopped(w, s)     == \E ok \in BOOLEAN : Has(stderr[w], [s |-> s, op |-> "stop", ok |-> ok])
On(w, s) == \/ Playing(w, s) \/ StartLine(w, s) \/ StopLine(w, s)
            \/ Stopped(w, s) \/ \E ok \in BOOLEAN : Started(w, s, ok)

\* The start of s is in a chain still.
Unwritten(s) == \/ \E k \in Keys : Has(pendingAcks[k].rest, Start(s))
                \/ \E i \in DOMAIN continuations : Has(continuations[i].rest, Start(s))

\* A session assigned to w is nowhere else, and is there what its command under way says.
Owned(w, s) ==
    /\ \A v \in Workers : On(v, s) => v = w
    /\ Stop(s) \notin Waiting => ~StopLine(w, s) /\ ~Stopped(w, s)
    /\ Stopped(w, s) => ~Playing(w, s)
    /\ Start(s) \notin Waiting => ~StartLine(w, s)
    /\ \A ok \in BOOLEAN : Start(s) \in Waiting /\ Started(w, s, ok) =>
          /\ ~StartLine(w, s)
          /\ archiveRuntimes[w] = "ready" => (ok <=> Playing(w, s))
    /\ calls[s] = 0 /\ archiveRuntimes[w] = "ready" => Playing(w, s)

SessionInv(s) ==
    /\ Unwritten(s) => \A w \in Workers : ~On(w, s)
    /\ s \in held => calls[s] = 0
    /\ \A w \in Workers :
          Playing(w, s) \/ StartLine(w, s) => assignments[s] = w \/ StopLine(w, s)
    /\ \A w \in Workers : assignments[s] = w => Owned(w, s)

\* Lines of one session: one start, and no stop before it.
InOrder(L) ==
    \A i, j \in DOMAIN L : L[i].op = "start" /\ L[j].s = L[i].s =>
        IF L[j].op = "start" THEN i = j ELSE i < j

\* What a worker with the playbacks P will play besides, when it reads line i.
Expected(L, P, i) ==
    {p \in Sessions : /\ p # L[i].s
                      /\ p \in P \/ \E j \in DOMAIN L : j < i /\ L[j] = Start(p)
                      /\ \A j \in DOMAIN L : j < i => L[j] # Stop(p)}

Roomy(L, P) ==
    \A i \in DOMAIN L : L[i].op = "start" => Cardinality(Expected(L, P, i)) < MaxPerWorker

WorkerInv(w) ==
    /\ archiveRuntimes[w] # "ready" => playbacks[w] = {} /\ Lines[w] = <<>>
    /\ InOrder(Lines[w])
    /\ Roomy(Lines[w], playbacks[w])

FreshWorkers ==
    /\ \A s \in Sessions : SessionInv(s)
    /\ \A w \in Workers : WorkerInv(w)

-----------------------------------------------------------------------------
(* Lines.                                                                  *)

LEMMA HasEmpty == \A c : ~Has(<<>>, c)
BY DEF Has

LEMMA AppendIs ==
    ASSUME NEW L \in Seq(Cmds), NEW d \in Cmds
    PROVE  \E n \in Nat, M \in Seq(Cmds) :
              /\ n = Len(L) /\ DOMAIN L = 1 .. n /\ M = Append(L, d)
              /\ DOMAIN M = 1 .. n + 1 /\ M[n + 1] = d
              /\ \A i \in 1 .. n : M[i] = L[i]
<1>1. /\ Append(L, d) \in Seq(Cmds) /\ Len(L) \in Nat
      /\ DOMAIN Append(L, d) = 1 .. Len(L) + 1 /\ DOMAIN L = 1 .. Len(L)
      /\ \A i \in 1 .. Len(L) : Append(L, d)[i] = L[i]
      /\ Append(L, d)[Len(L) + 1] = d
  BY AppendProperties, LenProperties
<1>2. QED
  BY <1>1

LEMMA HasAppend ==
    ASSUME NEW S, NEW L \in Seq(S), NEW d \in S, NEW c
    PROVE  Has(Append(L, d), c) <=> Has(L, c) \/ c = d
<1>1. /\ DOMAIN Append(L, d) = 1 .. Len(L) + 1 /\ DOMAIN L = 1 .. Len(L)
      /\ Len(L) \in Nat
      /\ \A i \in 1 .. Len(L) : Append(L, d)[i] = L[i]
      /\ Append(L, d)[Len(L) + 1] = d
  BY AppendProperties, LenProperties
<1>2. ASSUME Has(L, c)
      PROVE  Has(Append(L, d), c)
  <2>1. PICK i \in 1 .. Len(L) : L[i] = c
    BY <1>1, <1>2 DEF Has
  <2>2. i \in 1 .. Len(L) + 1 /\ Append(L, d)[i] = c
    BY <1>1, <2>1
  <2>3. QED
    BY <1>1, <2>2 DEF Has
<1>3. ASSUME c = d
      PROVE  Has(Append(L, d), c)
  <2>1. Len(L) + 1 \in 1 .. Len(L) + 1
    BY <1>1
  <2>2. QED
    BY <1>1, <1>3, <2>1 DEF Has
<1>4. ASSUME Has(Append(L, d), c), c # d
      PROVE  Has(L, c)
  <2>1. PICK i \in 1 .. Len(L) + 1 : Append(L, d)[i] = c
    BY <1>1, <1>4 DEF Has
  <2>2. i \in 1 .. Len(L)
    BY <1>1, <1>4, <2>1
  <2>3. QED
    BY <1>1, <2>1, <2>2 DEF Has
<1>5. QED
  BY <1>2, <1>3, <1>4

LEMMA TailIs ==
    ASSUME NEW S, NEW L \in Seq(S), L # <<>>
    PROVE  /\ Tail(L) \in Seq(S) /\ Head(L) \in S
           /\ Len(L) \in Nat \ {0} /\ Head(L) = L[1]
           /\ DOMAIN L = 1 .. Len(L) /\ DOMAIN Tail(L) = 1 .. Len(L) - 1
           /\ \A i \in 1 .. Len(L) - 1 : Tail(L)[i] = L[i + 1]
BY HeadTailProperties, LenProperties, EmptySeq

LEMMA HasTail ==
    ASSUME NEW S, NEW L \in Seq(S), L # <<>>, NEW c
    PROVE  Has(L, c) <=> Has(Tail(L), c) \/ c = Head(L)
<1>1. /\ Len(L) \in Nat \ {0} /\ Head(L) = L[1]
      /\ DOMAIN L = 1 .. Len(L) /\ DOMAIN Tail(L) = 1 .. Len(L) - 1
      /\ \A i \in 1 .. Len(L) - 1 : Tail(L)[i] = L[i + 1]
  BY TailIs
<1>2. ASSUME Has(Tail(L), c)
      PROVE  Has(L, c)
  <2>1. PICK i \in 1 .. Len(L) - 1 : Tail(L)[i] = c
    BY <1>1, <1>2 DEF Has
  <2>2. i + 1 \in 1 .. Len(L) /\ L[i + 1] = c
    BY <1>1, <2>1
  <2>3. QED
    BY <1>1, <2>2 DEF Has
<1>3. ASSUME c = Head(L)
      PROVE  Has(L, c)
  <2>1. 1 \in 1 .. Len(L)
    BY <1>1
  <2>2. QED
    BY <1>1, <1>3, <2>1 DEF Has
<1>4. ASSUME Has(L, c), c # Head(L)
      PROVE  Has(Tail(L), c)
  <2>1. PICK i \in 1 .. Len(L) : L[i] = c
    BY <1>1, <1>4 DEF Has
  <2>2. i # 1
    BY <1>1, <1>4, <2>1
  <2>3. PICK j \in 1 .. Len(L) - 1 : i = j + 1
    <3>1. i - 1 \in 1 .. Len(L) - 1 /\ i = (i - 1) + 1
      BY <1>1, <2>1, <2>2
    <3>2. QED
      BY <3>1
  <2>4. Tail(L)[j] = c
    BY <1>1, <2>1, <2>3
  <2>5. QED
    BY <1>1, <2>4 DEF Has
<1>5. QED
  BY <1>2, <1>3, <1>4

\* The line at the head is the only start of its session, and no stop comes before a start.
LEMMA OrderAtHead ==
    ASSUME NEW L \in Seq(Cmds), L # <<>>, InOrder(L), NEW s \in Sessions
    PROVE  /\ Head(L) = Start(s) => ~Has(Tail(L), Start(s))
           /\ Head(L) = Stop(s) => ~Has(Tail(L), Start(s))
<1>1. /\ Len(L) \in Nat \ {0} /\ Head(L) = L[1]
      /\ DOMAIN L = 1 .. Len(L) /\ DOMAIN Tail(L) = 1 .. Len(L) - 1
      /\ \A i \in 1 .. Len(L) - 1 : Tail(L)[i] = L[i + 1]
  BY TailIs
<1>2. ASSUME Has(Tail(L), Start(s)), Head(L).s = s
      PROVE  FALSE
  <2>1. PICK j \in 1 .. Len(L) - 1 : Tail(L)[j] = Start(s)
    BY <1>1, <1>2 DEF Has
  <2>2. PICK i \in DOMAIN L : i = j + 1 /\ L[i] = Start(s) /\ i # 1
    BY <1>1, <2>1
  <2>3. L[i].op = "start" /\ L[i].s = s /\ L[1].s = s /\ 1 \in DOMAIN L
    BY <1>1, <1>2, <2>2 DEF Start
  <2>4. IF L[1].op = "start" THEN i = 1 ELSE i < 1
    BY <2>3 DEF InOrder
  <2>5. QED
    BY <1>1, <2>2, <2>4
<1>3. QED
  BY <1>2 DEF Start, Stop

LEMMA OrderTail ==
    ASSUME NEW L \in Seq(Cmds), L # <<>>, InOrder(L)
    PROVE  InOrder(Tail(L))
<1>1. /\ Len(L) \in Nat \ {0}
      /\ DOMAIN L = 1 .. Len(L) /\ DOMAIN Tail(L) = 1 .. Len(L) - 1
      /\ \A i \in 1 .. Len(L) - 1 : Tail(L)[i] = L[i + 1]
  BY TailIs
<1>2. ASSUME NEW i \in 1 .. Len(L) - 1, NEW j \in 1 .. Len(L) - 1,
             Tail(L)[i].op = "start", Tail(L)[j].s = Tail(L)[i].s
      PROVE  IF Tail(L)[j].op = "start" THEN i = j ELSE i < j
  <2>1. PICK a \in DOMAIN L, b \in DOMAIN L : a = i + 1 /\ b = j + 1
    BY <1>1
  <2>2. Tail(L)[i] = L[a] /\ Tail(L)[j] = L[b]
    BY <1>1, <2>1
  <2>3. IF L[b].op = "start" THEN a = b ELSE a < b
    BY <1>2, <2>2 DEF InOrder
  <2>4. QED
    BY <1>1, <2>1, <2>2, <2>3
<1>3. QED
  BY <1>1, <1>2 DEF InOrder

\* A stop may be appended at any time, a start of a session that has no line.
LEMMA OrderAppend ==
    ASSUME NEW L \in Seq(Cmds), InOrder(L), NEW s \in Sessions, NEW c \in Cmds,
           c = Stop(s) \/ (c = Start(s) /\ ~Has(L, Start(s)) /\ ~Has(L, Stop(s)))
    PROVE  InOrder(Append(L, c))
<1>1. PICK n \in Nat, M \in Seq(Cmds) :
          /\ n = Len(L) /\ DOMAIN L = 1 .. n /\ M = Append(L, c)
          /\ DOMAIN M = 1 .. n + 1 /\ M[n + 1] = c
          /\ \A i \in 1 .. n : M[i] = L[i]
  BY AppendIs
<1>2. c.s = s /\ (c.op = "start" => c = Start(s))
  BY DEF Start, Stop
<1>3. ASSUME NEW j \in 1 .. n, L[j].s = s
      PROVE  c = Stop(s)
  <2>1. L[j] \in Cmds
    BY <1>1
  <2>2. L[j] = Start(s) \/ L[j] = Stop(s)
    BY <1>3, <2>1 DEF Cmds, Ops, Start, Stop
  <2>3. QED
    BY <1>1, <2>2 DEF Has
<1>4. ASSUME NEW i \in 1 .. n + 1, NEW j \in 1 .. n + 1, M[i].op = "start", M[j].s = M[i].s
      PROVE  IF M[j].op = "start" THEN i = j ELSE i < j
  <2>1. CASE i \in 1 .. n /\ j \in 1 .. n
    BY <1>1, <1>4, <2>1 DEF InOrder
  <2>2. CASE i \in 1 .. n /\ j = n + 1
    <3>1. L[i].s = s /\ M[j] = c
      BY <1>1, <1>2, <1>4, <2>2
    <3>2. c = Stop(s)
      BY <1>3, <2>2, <3>1
    <3>3. QED
      BY <1>1, <2>2, <3>1, <3>2 DEF Stop
  <2>3. CASE i = n + 1 /\ j \in 1 .. n
    <3>1. L[j].s = s /\ M[i] = c
      BY <1>1, <1>2, <1>4, <2>3
    <3>2. c = Stop(s)
      BY <1>3, <2>3, <3>1
    <3>3. QED
      BY <1>4, <3>1, <3>2 DEF Stop
  <2>4. CASE i = n + 1 /\ j = n + 1
    BY <1>1, <1>4, <2>4
  <2>5. QED
    BY <1>1, <2>1, <2>2, <2>3, <2>4
<1>5. QED
  BY <1>1, <1>4 DEF InOrder

-----------------------------------------------------------------------------
(* Room.                                                                   *)

LEMMA ExpectedFinite ==
    ASSUME NEW L, NEW P, NEW i
    PROVE  IsFiniteSet(Expected(L, P, i)) /\ Cardinality(Expected(L, P, i)) \in Nat
<1>1. Expected(L, P, i) \in SUBSET Sessions
  BY DEF Expected
<1>2. QED
  BY <1>1, PoolAssumption, FS_Subset, FS_CardinalityType

\* Fewer are expected.
LEMMA FewerExpected ==
    ASSUME NEW A, NEW B, IsFiniteSet(B), A \in SUBSET B, Cardinality(B) < MaxPerWorker
    PROVE  Cardinality(A) < MaxPerWorker
<1>1. Cardinality(A) <= Cardinality(B) /\ Cardinality(A) \in Nat /\ Cardinality(B) \in Nat
  BY FS_Subset, FS_CardinalityType
<1>2. QED
  BY <1>1, PoolAssumption

\* A worker has read its first line.
LEMMA RoomyTail ==
    ASSUME NEW L \in Seq(Cmds), L # <<>>, NEW P, NEW Q, Roomy(L, P), InOrder(L),
           NEW s \in Sessions,
           \/ Head(L) = Start(s) /\ Q \in SUBSET (P \cup {s})
           \/ Head(L) = Stop(s) /\ Q \in SUBSET (P \ {s})
    PROVE  Roomy(Tail(L), Q)
<1>1. /\ Len(L) \in Nat \ {0} /\ Head(L) = L[1]
      /\ DOMAIN L = 1 .. Len(L) /\ DOMAIN Tail(L) = 1 .. Len(L) - 1
      /\ \A i \in 1 .. Len(L) - 1 : Tail(L)[i] = L[i + 1]
  BY TailIs
<1>2. Start(s) # Stop(s) /\ \A p : (Start(p) = Start(s) => p = s) /\ (Stop(p) = Stop(s) => p = s)
  BY DEF Start, Stop
<1>3. SUFFICES ASSUME NEW i \in 1 .. Len(L) - 1, Tail(L)[i].op = "start"
               PROVE  Cardinality(Expected(Tail(L), Q, i)) < MaxPerWorker
  BY <1>1 DEF Roomy
<1>4. PICK k \in DOMAIN L : k = i + 1 /\ L[k] = Tail(L)[i]
  BY <1>1
<1>5. Cardinality(Expected(L, P, k)) < MaxPerWorker
  BY <1>3, <1>4 DEF Roomy
<1>6. ASSUME NEW p \in Expected(Tail(L), Q, i)
      PROVE  p \in Expected(L, P, k)
  <2>1. /\ p \in Sessions /\ p # L[k].s
        /\ p \in Q \/ \E j \in DOMAIN Tail(L) : j < i /\ Tail(L)[j] = Start(p)
        /\ \A j \in DOMAIN Tail(L) : j < i => Tail(L)[j] # Stop(p)
    BY <1>4, <1>6 DEF Expected
  <2>2. ASSUME NEW j \in DOMAIN L, j < k, j # 1
        PROVE  L[j] # Stop(p)
    <3>1. PICK m \in DOMAIN Tail(L) : j = m + 1 /\ m < i
      <4>1. j - 1 \in DOMAIN Tail(L) /\ j = (j - 1) + 1 /\ j - 1 < i
        BY <1>1, <1>4, <2>2
      <4>2. QED
        BY <4>1
    <3>2. Tail(L)[m] = L[j]
      BY <1>1, <3>1
    <3>3. QED
      BY <2>1, <3>1, <3>2
  <2>3. ASSUME NEW j \in DOMAIN Tail(L), j < i, Tail(L)[j] = Start(p)
        PROVE  \E m \in DOMAIN L : m < k /\ L[m] = Start(p)
    <3>1. j + 1 \in DOMAIN L /\ j + 1 < k /\ L[j + 1] = Start(p)
      BY <1>1, <1>4, <2>3
    <3>2. QED
      BY <3>1
  <2>4. 1 \in DOMAIN L /\ 1 < k
    BY <1>1, <1>4
  <2>5. CASE Head(L) = Start(s) /\ Q \in SUBSET (P \cup {s})
    <3>1. p \in P \/ \E m \in DOMAIN L : m < k /\ L[m] = Start(p)
      BY <1>1, <2>1, <2>3, <2>4, <2>5
    <3>2. \A j \in DOMAIN L : j < k => L[j] # Stop(p)
      <4>1. L[1] # Stop(p)
        BY <1>1, <2>5 DEF Start, Stop
      <4>2. QED
        BY <2>2, <4>1
    <3>3. QED
      BY <2>1, <3>1, <3>2 DEF Expected
  <2>6. CASE Head(L) = Stop(s) /\ Q \in SUBSET (P \ {s})
    <3>1. p \in P \/ \E m \in DOMAIN L : m < k /\ L[m] = Start(p)
      BY <2>1, <2>3, <2>6
    <3>2. CASE p = s
      <4>1. \E j \in DOMAIN Tail(L) : j < i /\ Tail(L)[j] = Start(s)
        BY <2>1, <2>6, <3>2
      <4>2. Has(Tail(L), Start(s))
        BY <4>1 DEF Has
      <4>3. QED
        BY <2>6, <4>2, OrderAtHead
    <3>3. CASE p # s
      <4>1. L[1] # Stop(p)
        BY <1>1, <1>2, <2>6, <3>3
      <4>2. \A j \in DOMAIN L : j < k => L[j] # Stop(p)
        BY <2>2, <4>1
      <4>3. QED
        BY <2>1, <3>1, <4>2 DEF Expected
    <3>4. QED
      BY <3>2, <3>3
  <2>7. QED
    BY <2>5, <2>6
<1>7. QED
  BY <1>5, <1>6, ExpectedFinite, FewerExpected

\* A line is appended: a stop, or a start that there is room for when all else is done.
LEMMA RoomyAppend ==
    ASSUME NEW L \in Seq(Cmds), NEW P, Roomy(L, P), NEW c \in Cmds,
           c.op = "start" =>
               Cardinality({p \in Sessions : /\ p # c.s /\ (p \in P \/ Has(L, Start(p)))
                                             /\ ~Has(L, Stop(p))}) < MaxPerWorker
    PROVE  Roomy(Append(L, c), P)
<1>1. PICK n \in Nat, M \in Seq(Cmds) :
          /\ n = Len(L) /\ DOMAIN L = 1 .. n /\ M = Append(L, c)
          /\ DOMAIN M = 1 .. n + 1 /\ M[n + 1] = c
          /\ \A i \in 1 .. n : M[i] = L[i]
  BY AppendIs
<1>2. SUFFICES ASSUME NEW i \in 1 .. n + 1, M[i].op = "start"
               PROVE  Cardinality(Expected(M, P, i)) < MaxPerWorker
  BY <1>1 DEF Roomy
<1>3. CASE i \in 1 .. n
  <2>1. \A j \in 1 .. n + 1 : j < i => j \in 1 .. n
    BY <1>3
  <2>2. \A j \in 1 .. n : j \in 1 .. n + 1
    OBVIOUS
  <2>3. \A p \in Expected(M, P, i) : p \in Expected(L, P, i)
    BY <1>1, <1>3, <2>1, <2>2 DEF Expected
  <2>4. Cardinality(Expected(L, P, i)) < MaxPerWorker
    BY <1>1, <1>2, <1>3 DEF Roomy
  <2>5. QED
    BY <2>3, <2>4, ExpectedFinite, FewerExpected
<1>4. CASE i = n + 1
  <2>1. PICK R \in SUBSET Sessions :
            R = {p \in Sessions : /\ p # c.s /\ (p \in P \/ Has(L, Start(p)))
                                  /\ ~Has(L, Stop(p))}
    OBVIOUS
  <2>2. IsFiniteSet(R) /\ Cardinality(R) < MaxPerWorker
    BY <1>1, <1>2, <1>4, <2>1, PoolAssumption, FS_Subset
  <2>3. \A j \in 1 .. n : j < i /\ j \in 1 .. n + 1
    BY <1>4
  <2>4. \A j \in 1 .. n + 1 : j < i => j \in 1 .. n
    BY <1>4
  <2>5. ASSUME NEW p \in Expected(M, P, i)
        PROVE  p \in R
    <3>1. /\ p \in Sessions /\ p # c.s
          /\ p \in P \/ \E j \in 1 .. n + 1 : j < i /\ M[j] = Start(p)
          /\ \A j \in 1 .. n + 1 : j < i => M[j] # Stop(p)
      BY <1>1, <1>4, <2>5 DEF Expected
    <3>2. ~Has(L, Stop(p))
      BY <1>1, <2>3, <3>1 DEF Has
    <3>3. p \in P \/ Has(L, Start(p))
      BY <1>1, <2>4, <3>1 DEF Has
    <3>4. QED
      BY <2>1, <3>1, <3>2, <3>3
  <2>6. QED
    BY <2>2, <2>5, FewerExpected
<1>5. QED
  BY <1>3, <1>4

LEMMA NoLines ==
    ASSUME NEW P
    PROVE  InOrder(<<>>) /\ Roomy(<<>>, P)
BY DEF InOrder, Roomy

\* The first line is one that is expected to have room.
LEMMA HeadRoom ==
    ASSUME NEW L \in Seq(Cmds), L # <<>>, NEW P \in SUBSET Sessions, Roomy(L, P), Head(L).op = "start"
    PROVE  Cardinality(P \ {Head(L).s}) < MaxPerWorker
<1>1. 1 \in DOMAIN L /\ Head(L) = L[1] /\ DOMAIN L = 1 .. Len(L)
  BY TailIs
<1>2. \A j \in DOMAIN L : ~(j < 1)
  BY <1>1
<1>3. Expected(L, P, 1) = P \ {L[1].s}
  BY <1>2 DEF Expected
<1>4. QED
  BY <1>1, <1>3 DEF Roomy

-----------------------------------------------------------------------------
(* Sessions a step leaves alone, and those it releases.                    *)

\* Node's side of s stays.
NodeSame(s) ==
    /\ Unwritten(s)' => Unwritten(s)
    /\ Start(s) \in Waiting' <=> Start(s) \in Waiting
    /\ Stop(s) \in Waiting' <=> Stop(s) \in Waiting
    /\ assignments'[s] = assignments[s]
    /\ calls'[s] = calls[s]
    /\ s \in held' => s \in held

\* Worker w gets no more of s, and keeps the stop line where it has anything to stop.
Less(w, s) ==
    /\ Playing(w, s)' => Playing(w, s)
    /\ StartLine(w, s)' => StartLine(w, s)
    /\ StopLine(w, s)' => StopLine(w, s)
    /\ Stopped(w, s)' => Stopped(w, s)
    /\ \A ok \in BOOLEAN : Started(w, s, ok)' => Started(w, s, ok)
    /\ StopLine(w, s) => StopLine(w, s)' \/ ~(Playing(w, s)' \/ StartLine(w, s)')

\* A worker that is ready after the step was before, and plays on.
Lives(w, s) ==
    archiveRuntimes'[w] = "ready" => archiveRuntimes[w] = "ready" /\ (Playing(w, s) => Playing(w, s)')

LEMMA LessOn ==
    ASSUME NEW w, NEW s, Less(w, s)
    PROVE  On(w, s)' => On(w, s)
BY DEF Less, On

LEMMA SessionKept ==
    ASSUME NEW s \in Sessions, SessionInv(s), NodeSame(s),
           \A w \in Workers : Less(w, s),
           \A w \in Workers : assignments[s] = w => Lives(w, s)
    PROVE  SessionInv(s)'
<1>1. \A w \in Workers : On(w, s)' => On(w, s)
  BY LessOn
<1>2. Unwritten(s)' => \A w \in Workers : ~On(w, s)'
  BY <1>1 DEF SessionInv, NodeSame
<1>3. s \in held' => calls'[s] = 0
  BY DEF SessionInv, NodeSame
<1>4. ASSUME NEW w \in Workers
      PROVE  Playing(w, s)' \/ StartLine(w, s)' => assignments'[s] = w \/ StopLine(w, s)'
  BY DEF SessionInv, NodeSame, Less
<1>5. ASSUME NEW w \in Workers, assignments'[s] = w
      PROVE  Owned(w, s)'
  <2>1. assignments[s] = w
    BY <1>5 DEF NodeSame
  <2>2. Owned(w, s) /\ Lives(w, s) /\ Less(w, s)
    BY <2>1 DEF SessionInv
  <2>3. \A v \in Workers : On(v, s)' => v = w
    BY <1>1, <2>2 DEF Owned
  <2>4. Stop(s) \notin Waiting' => ~StopLine(w, s)' /\ ~Stopped(w, s)'
    BY <2>2 DEF Owned, NodeSame, Less
  <2>5. Stopped(w, s)' => ~Playing(w, s)'
    BY <2>2 DEF Owned, Less
  <2>6. Start(s) \notin Waiting' => ~StartLine(w, s)'
    BY <2>2 DEF Owned, NodeSame, Less
  <2>7. ASSUME NEW ok \in BOOLEAN, Start(s) \in Waiting', Started(w, s, ok)'
        PROVE  /\ ~StartLine(w, s)'
               /\ archiveRuntimes'[w] = "ready" => (ok <=> Playing(w, s)')
    <3>1. Start(s) \in Waiting /\ Started(w, s, ok)
      BY <2>2, <2>7 DEF NodeSame, Less
    <3>2. /\ ~StartLine(w, s)
          /\ archiveRuntimes[w] = "ready" => (ok <=> Playing(w, s))
      BY <2>2, <3>1 DEF Owned
    <3>3. QED
      BY <2>2, <3>2 DEF Less, Lives
  <2>8. calls'[s] = 0 /\ archiveRuntimes'[w] = "ready" => Playing(w, s)'
    BY <2>2 DEF Owned, NodeSame, Lives
  <2>9. QED
    BY <2>3, <2>4, <2>5, <2>6, <2>7, <2>8 DEF Owned, Start, Stop
<1>6. QED
  BY <1>2, <1>3, <1>4, <1>5 DEF SessionInv

\* A session that has no slot.
LEMMA SessionFreed ==
    ASSUME NEW s \in Sessions, assignments'[s] = NoWorker,
           Unwritten(s)' => \A w \in Workers : ~On(w, s)',
           s \in held' => calls'[s] = 0,
           \A w \in Workers : Playing(w, s)' \/ StartLine(w, s)' => StopLine(w, s)'
    PROVE  SessionInv(s)'
BY NoWorkerIsNone DEF SessionInv

-----------------------------------------------------------------------------
(* What a step does to the lines, playbacks and replies of a worker.       *)

LEMMA ProcessTypes ==
    ASSUME TypeOK, NEW w \in Workers
    PROVE  /\ Lines[w] = lineBuffer[w] \o stdin[w] /\ Lines[w] \in Seq(Cmds)
           /\ lineBuffer[w] \in Seq(Cmds) /\ stdin[w] \in Seq(Cmds)
           /\ stderr[w] \in Seq(Replies) /\ playbacks[w] \in SUBSET Sessions
<1>1. lineBuffer[w] \in Seq(Cmds) /\ stdin[w] \in Seq(Cmds)
  BY DEF TypeOK
<1>2. Lines[w] = lineBuffer[w] \o stdin[w]
  BY DEF Lines, InputLines
<1>3. QED
  BY <1>1, <1>2, ConcatProperties DEF TypeOK

NoReply(w) == \A c : Has(stderr'[w], c) => Has(stderr[w], c)
Rests(w)   == playbacks'[w] = playbacks[w] /\ Lines'[w] = Lines[w]
Blank(w)   == playbacks'[w] = {} /\ Lines'[w] = <<>>

\* Nothing new reaches the worker, or comes from it; it may be gone.
Shrinks(w) ==
    /\ NoReply(w)
    /\ \/ Rests(w) /\ (archiveRuntimes'[w] = "ready" <=> archiveRuntimes[w] = "ready")
       \/ Blank(w)

LEMMA ShrinksLess ==
    ASSUME NEW w, Shrinks(w), NEW s
    PROVE  /\ Less(w, s)
           /\ (archiveRuntimes'[w] = "ready" => archiveRuntimes[w] = "ready" /\ Rests(w))
                  => Lives(w, s)
<1>1. \A c : Has(stderr'[w], c) => Has(stderr[w], c)
  BY DEF Shrinks, NoReply
<1>2. CASE Rests(w) /\ (archiveRuntimes'[w] = "ready" <=> archiveRuntimes[w] = "ready")
  BY <1>1, <1>2 DEF Less, Lives, Rests, Playing, StartLine, StopLine, Stopped, Started, Start, Stop
<1>3. CASE Blank(w)
  <2>1. ~Has(Lines'[w], Start(s)) /\ ~Has(Lines'[w], Stop(s)) /\ playbacks'[w] = {}
    BY <1>3, HasEmpty DEF Blank
  <2>2. ~Playing(w, s)' /\ ~StartLine(w, s)' /\ ~StopLine(w, s)'
    BY <2>1 DEF Playing, StartLine, StopLine, Start, Stop
  <2>3. /\ Stopped(w, s)' => Stopped(w, s)
        /\ \A ok \in BOOLEAN : Started(w, s, ok)' => Started(w, s, ok)
    BY <1>1 DEF Stopped, Started
  <2>4. Rests(w) => (Playing(w, s) => Playing(w, s)')
    BY DEF Rests, Playing
  <2>5. Less(w, s)
    BY <2>2, <2>3 DEF Less
  <2>6. QED
    BY <2>4, <2>5 DEF Lives
<1>4. QED
  BY <1>2, <1>3 DEF Shrinks

LEMMA ShrinksInv ==
    ASSUME NEW w, Shrinks(w), WorkerInv(w)
    PROVE  WorkerInv(w)'
<1>1. CASE Rests(w) /\ (archiveRuntimes'[w] = "ready" <=> archiveRuntimes[w] = "ready")
  <2>1. InOrder(Lines'[w]) /\ Roomy(Lines'[w], playbacks'[w])
    BY <1>1 DEF Rests, WorkerInv
  <2>2. archiveRuntimes'[w] # "ready" => playbacks'[w] = {} /\ Lines'[w] = <<>>
    BY <1>1 DEF Rests, WorkerInv
  <2>3. QED
    BY <2>1, <2>2 DEF WorkerInv, InOrder, Roomy, Expected, Start, Stop
<1>2. CASE Blank(w)
  <2>1. InOrder(<<>>) /\ Roomy(<<>>, {})
    BY NoLines
  <2>2. InOrder(Lines'[w]) /\ Roomy(Lines'[w], playbacks'[w])
    BY <1>2, <2>1 DEF Blank
  <2>3. QED
    BY <1>2, <2>2 DEF WorkerInv, Blank, InOrder, Roomy, Expected, Start, Stop
<1>3. QED
  BY <1>1, <1>2 DEF Shrinks

\* Workers whose process no step touches.
LEMMA Unread ==
    ASSUME NEW w \in Workers, stdin'[w] = stdin[w], lineBuffer'[w] = lineBuffer[w]
    PROVE  Lines'[w] = Lines[w]
BY DEF Lines, InputLines, Workers

LEMMA Untouched ==
    ASSUME NEW w \in Workers, stdin'[w] = stdin[w], lineBuffer'[w] = lineBuffer[w],
           playbacks'[w] = playbacks[w], stderr'[w] = stderr[w]
    PROVE  Rests(w) /\ NoReply(w)
BY Unread DEF Rests, NoReply

LEMMA Emptied ==
    ASSUME NEW w \in Workers, stdin'[w] = <<>>, lineBuffer'[w] = <<>>, playbacks'[w] = {}
    PROVE  Blank(w)
<1>1. Lines'[w] = <<>> \o <<>>
  BY DEF Lines, InputLines, Workers
<1>2. <<>> \o <<>> = <<>>
  BY EmptySeq, ConcatEmptySeq
<1>3. QED
  BY <1>1, <1>2 DEF Blank

LEMMA BlankWorkers ==
    ASSUME NEW W, BlankProcesses(W), NEW w \in Workers
    PROVE  /\ w \in W => Blank(w) /\ stderr'[w] = <<>> /\ NoReply(w)
           /\ w \notin W => Rests(w) /\ NoReply(w)
<1>1. CASE w \in W
  <2>1. stdin'[w] = <<>> /\ lineBuffer'[w] = <<>> /\ playbacks'[w] = {} /\ stderr'[w] = <<>>
    BY <1>1 DEF BlankProcesses
  <2>2. NoReply(w)
    BY <2>1, HasEmpty DEF NoReply
  <2>3. QED
    BY <1>1, <2>1, <2>2, Emptied
<1>2. CASE w \notin W
  BY <1>2, Untouched DEF BlankProcesses
<1>3. QED
  BY <1>1, <1>2

LEMMA DeadWorker ==
    ASSUME TypeOK, NEW v \in Workers, ProcessDies(v), stderr' = stderr, NEW w \in Workers
    PROVE  /\ w = v => Blank(w) /\ NoReply(w)
           /\ w # v => Rests(w) /\ NoReply(w)
<1>1. NoReply(w)
  BY DEF NoReply
<1>2. CASE w = v
  <2>1. stdin'[w] = <<>> /\ lineBuffer'[w] = <<>> /\ playbacks'[w] = {}
    BY <1>2 DEF ProcessDies, TypeOK
  <2>2. QED
    BY <1>1, <1>2, <2>1, Emptied
<1>3. CASE w # v
  BY <1>1, <1>3, Untouched DEF ProcessDies, TypeOK
<1>4. QED
  BY <1>2, <1>3

\* A line is written to the stdin of v: it is the last one v has to read, if v runs.
LEMMA Written ==
    ASSUME TypeOK, NEW v \in Workers, NEW c \in Cmds, WriteLine(v, c),
           UNCHANGED <<lineBuffer, playbacks, stderr>>, NEW w \in Workers
    PROVE  /\ w # v \/ archiveRuntimes[v] # "ready" => Rests(w) /\ NoReply(w)
           /\ w = v /\ archiveRuntimes[v] = "ready" =>
                 /\ Lines'[w] = Append(Lines[w], c) /\ playbacks'[w] = playbacks[w]
                 /\ stderr'[w] = stderr[w]
<1>1. CASE w # v \/ archiveRuntimes[v] # "ready"
  BY <1>1, Untouched DEF WriteLine, TypeOK
<1>2. CASE w = v /\ archiveRuntimes[v] = "ready"
  <2>1. stdin'[w] = Append(stdin[w], c)
    BY <1>2 DEF WriteLine, TypeOK
  <2>2. Lines'[w] = lineBuffer[w] \o Append(stdin[w], c)
    BY <2>1 DEF Lines, InputLines, Workers
  <2>3. PICK b \in Seq(Cmds), r \in Seq(Cmds) :
            b = lineBuffer[w] /\ r = stdin[w] /\ Lines[w] = b \o r
    BY ProcessTypes
  <2>4. <<c>> \in Seq(Cmds) /\ b \o r \in Seq(Cmds)
    BY <2>3
  <2>5. b \o (r \o <<c>>) = (b \o r) \o <<c>>
    BY <2>4, ConcatAssociative
  <2>6. Append(r, c) = r \o <<c>> /\ Append(b \o r, c) = (b \o r) \o <<c>>
    BY <2>4, AppendIsConcat
  <2>7. QED
    BY <1>2, <2>2, <2>3, <2>5, <2>6
<1>3. QED
  BY <1>1, <1>2

\* The first line is read, wherever the rest of them is kept.
LEMMA ReadIs ==
    ASSUME TypeOK, NEW v \in Workers, ReadLine(v), NEW w \in Workers
    PROVE  /\ w = v => Lines[w] # <<>> /\ Lines'[w] = Tail(Lines[w])
           /\ w # v => Lines'[w] = Lines[w]
<1>1. CASE w = v
  <2>1. PICK b \in Seq(Cmds), r \in Seq(Cmds) :
            /\ b = lineBuffer[w] /\ r = stdin[w] /\ Lines[w] = b \o r /\ r # <<>>
    BY <1>1, ProcessTypes DEF ReadLine
  <2>2. Lines'[w] = lineBuffer'[w] \o stdin'[w]
    BY DEF Lines, InputLines, Workers
  <2>3. b \o r \in Seq(Cmds) /\ b \o r # <<>>
    BY <2>1, ConcatProperties, ConcatEqualIffEmpty
  <2>4. CASE b # <<>>
    <3>1. Lines'[w] = Tail(b) \o r
      BY <1>1, <2>1, <2>2, <2>4 DEF ReadLine, TypeOK
    <3>2. PICK T \in Seq(Cmds), U \in Seq(Cmds) : T = Tail(b) \o r /\ U = Tail(b \o r)
      BY <2>1, <2>3, <2>4, HeadTailProperties, ConcatProperties
    <3>3. PICK m \in Nat, n \in Nat : m = Len(b) /\ n = Len(r) /\ m # 0
      BY <2>4, LenProperties, EmptySeq
    <3>4. /\ Tail(b) \in Seq(Cmds) /\ Len(Tail(b)) = m - 1
          /\ \A i \in 1 .. m - 1 : Tail(b)[i] = b[i + 1]
      BY <2>4, <3>3, HeadTailProperties
    <3>5. /\ Len(b \o r) = m + n
          /\ \A i \in 1 .. m + n : (b \o r)[i] = IF i <= m THEN b[i] ELSE r[i - m]
      BY <3>3, ConcatProperties
    <3>6. /\ Len(U) = m + n - 1
          /\ \A i \in 1 .. m + n - 1 : U[i] = (b \o r)[i + 1]
      BY <2>3, <3>2, <3>5, HeadTailProperties
    <3>7. /\ Len(T) = m + n - 1
          /\ \A i \in 1 .. m + n - 1 : T[i] = IF i <= m - 1 THEN Tail(b)[i] ELSE r[i - (m - 1)]
      <4>1. /\ Len(T) = (m - 1) + n
            /\ \A i \in 1 .. (m - 1) + n : T[i] = IF i <= m - 1 THEN Tail(b)[i] ELSE r[i - (m - 1)]
        BY <3>2, <3>3, <3>4, ConcatProperties
      <4>2. (m - 1) + n = m + n - 1
        OBVIOUS
      <4>3. QED
        BY <4>1, <4>2
    <3>8. ASSUME NEW i \in 1 .. m + n - 1
          PROVE  T[i] = U[i]
      <4>1. i + 1 \in 1 .. m + n /\ (i + 1) - m = i - (m - 1) /\ (i <= m - 1 <=> i + 1 <= m)
        OBVIOUS
      <4>2. U[i] = IF i + 1 <= m THEN b[i + 1] ELSE r[(i + 1) - m]
        BY <3>5, <3>6, <4>1
      <4>3. i <= m - 1 => Tail(b)[i] = b[i + 1]
        BY <3>4
      <4>4. T[i] = IF i <= m - 1 THEN Tail(b)[i] ELSE r[i - (m - 1)]
        BY <3>7
      <4>5. CASE i <= m - 1
        BY <4>1, <4>2, <4>3, <4>4, <4>5
      <4>6. CASE ~(i <= m - 1)
        BY <4>1, <4>2, <4>4, <4>6
      <4>7. QED
        BY <4>5, <4>6
    <3>9. T = U
      BY <3>6, <3>7, <3>8, SeqEqual
    <3>10. QED
      BY <1>1, <2>1, <2>3, <3>1, <3>2, <3>9
  <2>5. CASE b = <<>>
    <3>1. Lines'[w] = Tail(r) \o <<>>
      BY <1>1, <2>1, <2>2, <2>5 DEF ReadLine, TypeOK
    <3>2. b \o r = r /\ Tail(r) \o <<>> = Tail(r)
      BY <2>1, <2>5, ConcatEmptySeq, HeadTailProperties
    <3>3. QED
      BY <1>1, <2>1, <2>3, <3>1, <3>2
  <2>6. QED
    BY <2>4, <2>5
<1>2. CASE w # v
  <2>1. stdin'[w] = stdin[w] /\ lineBuffer'[w] = lineBuffer[w]
    BY <1>2 DEF ReadLine, TypeOK
  <2>2. QED
    BY <1>2, <2>1, Unread
<1>3. QED
  BY <1>1, <1>2

\* A line of another session.
LEMMA WrittenLess ==
    ASSUME TypeOK, NEW v \in Workers, NEW c \in Cmds, WriteLine(v, c),
           UNCHANGED <<lineBuffer, playbacks, stderr, archiveRuntimes>>,
           NEW w \in Workers, NEW t, t # c.s
    PROVE  Less(w, t) /\ Lives(w, t)
<1>1. CASE w # v \/ archiveRuntimes[v] # "ready"
  <2>1. Shrinks(w) /\ Rests(w)
    BY <1>1, Written DEF Shrinks
  <2>2. QED
    BY <2>1, ShrinksLess
<1>2. CASE w = v /\ archiveRuntimes[v] = "ready"
  <2>1. /\ Lines'[w] = Append(Lines[w], c) /\ playbacks'[w] = playbacks[w]
        /\ stderr'[w] = stderr[w]
    BY <1>2, Written
  <2>2. Lines[w] \in Seq(Cmds)
    BY ProcessTypes
  <2>3. \A d : Has(Append(Lines[w], c), d) <=> Has(Lines[w], d) \/ d = c
    BY <2>2, HasAppend
  <2>4. c # Start(t) /\ c # Stop(t)
    BY DEF Start, Stop
  <2>5. /\ Has(Lines'[w], Start(t)) <=> Has(Lines[w], Start(t))
        /\ Has(Lines'[w], Stop(t)) <=> Has(Lines[w], Stop(t))
    BY <2>1, <2>3, <2>4
  <2>6. /\ StartLine(w, t)' <=> StartLine(w, t)
        /\ StopLine(w, t)' <=> StopLine(w, t)
    BY <2>5 DEF StartLine, StopLine, Start, Stop
  <2>7. /\ Stopped(w, t)' <=> Stopped(w, t)
        /\ \A ok \in BOOLEAN : Started(w, t, ok)' <=> Started(w, t, ok)
        /\ Playing(w, t)' <=> Playing(w, t)
    BY <2>1 DEF Stopped, Started, Playing
  <2>8. QED
    BY <2>6, <2>7 DEF Less, Lives
<1>3. QED
  BY <1>1, <1>2

-----------------------------------------------------------------------------
(* What a step does to Node's side of the sessions it is not about.        *)

LEMMA UnwrittenNext ==
    ASSUME NEW t
    PROVE  Unwritten(t)' <=> \/ \E k \in Keys : Has(pendingAcks'[k].rest, Start(t))
                             \/ \E i \in DOMAIN continuations' : Has(continuations'[i].rest, Start(t))
BY DEF Unwritten, Has, Start, Keys, Cmds

LEMMA NodeQuiet ==
    ASSUME UNCHANGED <<pendingAcks, continuations, assignments, calls>>,
           held' \in SUBSET held, NEW s
    PROVE  NodeSame(s) /\ Waiting' = Waiting
<1>1. Waiting' = Waiting
  BY DEF Waiting, Keys, Cmds
<1>2. Unwritten(s)' <=> Unwritten(s)
  BY UnwrittenNext DEF Unwritten
<1>3. QED
  BY <1>1, <1>2 DEF NodeSame, Start, Stop

LEMMA SettledUnwritten ==
    ASSUME NEW K \in SUBSET Waiting, NEW W, Settled(K, W), NEW t, Unwritten(t)'
    PROVE  Unwritten(t)
<1>1. K \in SUBSET Keys
  BY DEF Waiting
<1>2. CASE \E k \in Keys : Has(pendingAcks'[k].rest, Start(t))
  <2>1. PICK k \in Keys : Has(pendingAcks'[k].rest, Start(t))
    BY <1>2
  <2>2. k \notin K
    BY <2>1, HasEmpty DEF Settled, Idle
  <2>3. pendingAcks'[k].rest = pendingAcks[k].rest
    BY <2>2 DEF Settled
  <2>4. QED
    BY <2>1, <2>3 DEF Unwritten
<1>3. CASE \E i \in DOMAIN continuations' : Has(continuations'[i].rest, Start(t))
  <2>1. PICK i \in DOMAIN continuations' : Has(continuations'[i].rest, Start(t))
    BY <1>3
  <2>2. PICK k \in K : continuations'[i].rest = pendingAcks[k].rest
    BY DEF Settled
  <2>3. QED
    BY <1>1, <2>1, <2>2 DEF Unwritten
<1>4. QED
  BY <1>2, <1>3, UnwrittenNext

\* The promise of k settles: k's session has no other command, the others are as before.
LEMMA SettleSame ==
    ASSUME Known, FreshNode, NEW k \in Waiting, NEW ok, Settle(k, ok), continuations = <<>>,
           NEW t \in Sessions
    PROVE  /\ t # k.s => NodeSame(t)
           /\ t = k.s => /\ ~Unwritten(t)' /\ Start(t) \notin Waiting' /\ Stop(t) \notin Waiting'
                         /\ calls[t] = 1 /\ calls'[t] = 0
<1>1. TypeOK /\ CallsInv /\ OneCallEach
  BY DEF Known, CallsInv, FreshNode
<1>2. /\ k \in Keys /\ k.s \in Sessions /\ calls[k.s] = 1
      /\ \A l \in Waiting : l.s = k.s => l = k
      /\ NoneBehind(k.s) /\ NoneDue(k.s)
  BY <1>1, WaiterAlone
<1>3. SettleAcks({k}, {}) /\ {k} \in SUBSET Waiting /\ {} \in SUBSET Workers
  BY DEF Settle
<1>4. Settled({k}, {})
  BY <1>1, <1>3, SettleShape
<1>5. Waiting' = Waiting \ {k}
  BY <1>4 DEF Settled
<1>6. Unwritten(t)' => Unwritten(t)
  BY <1>3, <1>4, SettledUnwritten
<1>7. calls'[t] = IF t = k.s THEN calls[t] - 1 ELSE calls[t]
  BY <1>1, <1>3, SettleOneCall
<1>8. CASE t # k.s
  <2>1. Start(t) # k /\ Stop(t) # k
    BY <1>8 DEF Start, Stop
  <2>2. assignments'[t] = assignments[t]
    BY <1>1, <1>8 DEF Settle, Release, TypeOK
  <2>3. t \in held' => t \in held
    BY <1>8 DEF Settle
  <2>4. /\ Start(t) \in Waiting' <=> Start(t) \in Waiting
        /\ Stop(t) \in Waiting' <=> Stop(t) \in Waiting
    BY <1>5, <2>1
  <2>5. QED
    BY <1>6, <1>7, <1>8, <2>2, <2>3, <2>4 DEF NodeSame, Start, Stop
<1>9. CASE t = k.s
  <2>1. ~Unwritten(t)
    <3>1. Start(t).s = t
      BY DEF Start
    <3>2. QED
      BY <1>2, <1>9, <3>1 DEF Unwritten, Has, NoneBehind, NoneDue
  <2>2. Start(t).s = t /\ Stop(t).s = t
    BY DEF Start, Stop
  <2>3. Start(t) \notin Waiting' /\ Stop(t) \notin Waiting'
    BY <1>2, <1>5, <1>9, <2>2
  <2>4. QED
    BY <1>2, <1>6, <1>7, <1>9, <2>1, <2>3
<1>10. QED
  BY <1>8, <1>9

\* A call that is queued adds no start but its own, and nobody waits for it yet.
LEMMA QueuedSame ==
    ASSUME TypeOK, OneLinked(pendingAcks, continuations), NEW w \in Workers, NEW cmd \in Cmds,
           QueueGroupedPlaybackCommand(w, cmd), NEW t
    PROVE  /\ Waiting' = Waiting
           /\ cmd # Start(t) => (Unwritten(t)' => Unwritten(t))
<1>1. pendingAcks \in Acks /\ continuations \in Seq(DueChains)
  BY ChainTypes
<1>2. \A k \in Keys : pendingAcks'[k].at = pendingAcks[k].at
  BY <1>1 DEF QueueGroupedPlaybackCommand, Acks, Waiters, Idle
<1>3. Waiting' = Waiting
  <2>1. Waiting' = {k \in Keys : pendingAcks'[k].at # "idle"}
    BY DEF Waiting, Keys, Cmds
  <2>2. QED
    BY <1>2, <2>1 DEF Waiting
<1>4. ASSUME cmd # Start(t), Unwritten(t)'
      PROVE  Unwritten(t)
  <2>1. CASE \E k \in Keys : QueuedBehind(w, cmd, k)
    <3>1. PICK k \in Keys : QueuedBehind(w, cmd, k)
      BY <2>1
    <3>2. pendingAcks[k].rest \in Seq(Cmds)
      BY <1>1, RestType
    <3>3. pendingAcks'[k].rest = Append(pendingAcks[k].rest, cmd)
      BY <1>1, <3>1 DEF QueuedBehind, Acks, Waiters, Idle
    <3>4. Has(pendingAcks'[k].rest, Start(t)) <=> Has(pendingAcks[k].rest, Start(t))
      BY <1>4, <3>2, <3>3, HasAppend
    <3>5. \A l \in Keys : l # k => pendingAcks'[l].rest = pendingAcks[l].rest
      BY <3>1 DEF QueuedBehind
    <3>6. continuations' = continuations
      BY <3>1 DEF QueuedBehind
    <3>7. QED
      BY <1>4, <3>4, <3>5, <3>6, UnwrittenNext DEF Unwritten
  <2>2. CASE \E i \in DOMAIN continuations : QueuedInDue(w, cmd, i)
    <3>1. PICK i \in DOMAIN continuations : QueuedInDue(w, cmd, i)
      BY <2>2
    <3>2. continuations[i].rest \in Seq(Cmds) /\ continuations[i] \in Chains
      BY <1>1, DueRestType DEF DueChains
    <3>3. continuations'[i].rest = Append(continuations[i].rest, cmd)
      BY <3>1, <3>2 DEF QueuedInDue, Chains
    <3>4. Has(continuations'[i].rest, Start(t)) <=> Has(continuations[i].rest, Start(t))
      BY <1>4, <3>2, <3>3, HasAppend
    <3>5. /\ \A j \in DOMAIN continuations : j # i => continuations'[j].rest = continuations[j].rest
          /\ DOMAIN continuations' = DOMAIN continuations
          /\ \A l \in Keys : pendingAcks'[l].rest = pendingAcks[l].rest
      BY <3>1 DEF QueuedInDue
    <3>6. QED
      BY <1>4, <3>4, <3>5, UnwrittenNext DEF Unwritten
  <2>3. CASE QueuedAlone(w, cmd)
    <3>1. /\ continuations' = Append(continuations, [wk |-> w, rest |-> <<cmd>>, linked |-> TRUE])
          /\ \A l \in Keys : pendingAcks'[l].rest = pendingAcks[l].rest
      BY <2>3 DEF QueuedAlone
    <3>2. PICK d \in DueChains : d = [wk |-> w, rest |-> <<cmd>>, linked |-> TRUE]
      <4>1. <<cmd>> \in Seq(Cmds) /\ <<cmd>> # <<>>
        OBVIOUS
      <4>2. QED
        BY <4>1 DEF DueChains, Chains
    <3>3. PICK n \in Nat : /\ DOMAIN continuations = 1 .. n /\ DOMAIN continuations' = 1 .. n + 1
                           /\ continuations'[n + 1] = d
                           /\ \A i \in 1 .. n : continuations'[i] = continuations[i]
      <4>1. /\ Len(continuations) \in Nat
            /\ DOMAIN continuations = 1 .. Len(continuations)
            /\ DOMAIN Append(continuations, d) = 1 .. Len(continuations) + 1
            /\ \A i \in 1 .. Len(continuations) : Append(continuations, d)[i] = continuations[i]
            /\ Append(continuations, d)[Len(continuations) + 1] = d
        BY <1>1, AppendProperties, LenProperties
      <4>2. QED
        BY <3>1, <3>2, <4>1
    <3>4. ~Has(d.rest, Start(t))
      BY <1>4, <3>2 DEF Has
    <3>5. ASSUME NEW i \in DOMAIN continuations', Has(continuations'[i].rest, Start(t))
          PROVE  i \in DOMAIN continuations /\ Has(continuations[i].rest, Start(t))
      BY <3>3, <3>4, <3>5
    <3>6. QED
      BY <1>4, <3>1, <3>5, UnwrittenNext DEF Unwritten
  <2>4. QED
    BY <2>1, <2>2, <2>3, QueueCases
<1>5. QED
  BY <1>3, <1>4

\* The next command is written: of its session no start is left in the chains.
LEMMA WriteSame ==
    ASSUME Known, FreshNode, WriteCommandWithAck, NEW t \in Sessions
    PROVE  /\ t # NextCmd.s => NodeSame(t)
           /\ t = NextCmd.s => ~Unwritten(t)'
<1>1. TypeOK /\ CallsInv /\ OneCallEach
  BY DEF Known, CallsInv, FreshNode
<1>2. PICK c \in Cmds, w \in Workers, r \in Seq(Cmds) :
          /\ c = NextCmd /\ w = NextChain.wk /\ r = NextChain.rest /\ r # <<>>
          /\ c = r[1] /\ continuations # <<>> /\ NextChain = continuations[1]
          /\ 1 \in DOMAIN continuations
  BY <1>1, WritesAlone, NextIs
<1>3. /\ Waiting' = Waiting \cup {c}
      /\ continuations' = Tail(continuations)
      /\ \A k \in Keys : k # c => pendingAcks'[k] = pendingAcks[k]
      /\ pendingAcks'[c].rest = Tail(r)
      /\ UNCHANGED <<assignments, calls>>
  <2>1. /\ Waiting' = Waiting \cup {NextCmd}
        /\ continuations' = Tail(continuations)
        /\ \A k \in Keys : k # NextCmd => pendingAcks'[k] = pendingAcks[k]
        /\ pendingAcks'[NextCmd] =
               [at     |-> IF archiveRuntimes[NextChain.wk] = "ready" THEN "sent" ELSE "lost",
                wk     |-> NextChain.wk,
                rest   |-> Tail(NextChain.rest),
                linked |-> NextChain.linked]
        /\ UNCHANGED <<assignments, calls>>
    BY WritesAlone
  <2>2. pendingAcks'[NextCmd].rest = Tail(NextChain.rest)
    BY <2>1
  <2>3. QED
    BY <1>2, <2>1, <2>2
<1>4. PICK n \in Nat \ {0} :
          /\ DOMAIN continuations = 1 .. n /\ DOMAIN continuations' = 1 .. n - 1
          /\ \A i \in 1 .. n - 1 : continuations'[i] = continuations[i + 1]
  BY <1>1, <1>2, <1>3, NextIs
<1>5. Has(r, Start(t)) <=> Has(Tail(r), Start(t)) \/ Start(t) = c
  <2>1. Head(r) = c
    BY <1>2, TailIs
  <2>2. QED
    BY <1>2, <2>1, HasTail
<1>6. ASSUME Has(Tail(r), Start(t))
      PROVE  Unwritten(t)
  BY <1>2, <1>5, <1>6 DEF Unwritten
<1>7. ASSUME NEW i \in 1 .. n - 1
      PROVE  i + 1 \in DOMAIN continuations /\ i + 1 # 1 /\ continuations'[i] = continuations[i + 1]
  BY <1>4
<1>8. ASSUME Unwritten(t)'
      PROVE  Unwritten(t)
  <2>1. CASE \E k \in Keys : Has(pendingAcks'[k].rest, Start(t))
    BY <1>3, <1>6, <2>1 DEF Unwritten
  <2>2. CASE \E i \in DOMAIN continuations' : Has(continuations'[i].rest, Start(t))
    <3>1. PICK i \in 1 .. n - 1 : Has(continuations'[i].rest, Start(t))
      BY <1>4, <2>2
    <3>2. PICK m \in DOMAIN continuations : continuations'[i] = continuations[m]
      BY <1>7
    <3>3. QED
      BY <3>1, <3>2 DEF Unwritten
  <2>3. QED
    BY <1>8, <2>1, <2>2, UnwrittenNext
<1>9. CASE t # NextCmd.s
  <2>1. Start(t) # c /\ Stop(t) # c
    BY <1>2, <1>9 DEF Start, Stop
  <2>2. held' = held
    BY DEF WriteCommandWithAck
  <2>3. QED
    BY <1>3, <1>8, <1>9, <2>1, <2>2 DEF NodeSame, Start, Stop
<1>10. CASE t = NextCmd.s
  <2>1. /\ NoneBehind(t)
        /\ \A m \in DOMAIN continuations : \A j \in DOMAIN continuations[m].rest :
               continuations[m].rest[j].s = t => m = 1 /\ j = 1
    BY <1>1, <1>2, <1>10, NextAlone
  <2>2. Start(t).s = t
    BY DEF Start
  <2>3. \A k \in Keys : ~Has(pendingAcks[k].rest, Start(t))
    BY <2>1, <2>2 DEF NoneBehind, Has
  <2>4. ~Has(Tail(r), Start(t))
    <3>1. SUFFICES ASSUME NEW j \in DOMAIN Tail(r), Tail(r)[j] = Start(t)
                   PROVE  FALSE
      BY DEF Has
    <3>2. /\ DOMAIN r = 1 .. Len(r) /\ Len(r) \in Nat /\ DOMAIN Tail(r) = 1 .. Len(r) - 1
          /\ \A i \in 1 .. Len(r) - 1 : Tail(r)[i] = r[i + 1]
      BY <1>2, TailIs
    <3>3. j + 1 \in DOMAIN r /\ j + 1 # 1 /\ r[j + 1] = Start(t)
      BY <3>1, <3>2
    <3>4. QED
      BY <1>2, <2>1, <2>2, <3>3
  <2>5. ASSUME NEW i \in 1 .. n - 1
        PROVE  ~Has(continuations'[i].rest, Start(t))
    <3>1. PICK m \in DOMAIN continuations : m # 1 /\ continuations'[i] = continuations[m]
      BY <1>7
    <3>2. QED
      BY <2>1, <2>2, <3>1 DEF Has
  <2>6. QED
    BY <1>3, <1>4, <1>10, <2>3, <2>4, <2>5, UnwrittenNext
<1>11. QED
  BY <1>9, <1>10

\* The next command is rejected.
LEMMA RejectSame ==
    ASSUME Known, FreshNode, CommandRejected, NEW t \in Sessions
    PROVE  /\ Unwritten(t)' => Unwritten(t)
           /\ t # NextCmd.s => NodeSame(t)
<1>1. TypeOK
  BY DEF Known, CallsInv
<1>2. /\ continuations # <<>>
      /\ continuations' = IF Tail(NextChain.rest) = <<>> THEN Tail(continuations)
                          ELSE <<ChainAfter(NextChain)>> \o Tail(continuations)
      /\ UNCHANGED <<pendingAcks, held>>
  BY DEF CommandRejected
<1>3. PICK r \in Seq(Cmds), n \in Nat \ {0} :
          /\ r = NextChain.rest /\ r # <<>> /\ NextChain = continuations[1]
          /\ NextChain \in DueChains
          /\ DOMAIN continuations = 1 .. n /\ n = Len(continuations)
          /\ DOMAIN Tail(continuations) = 1 .. n - 1
          /\ \A i \in 1 .. n - 1 : Tail(continuations)[i] = continuations[i + 1]
  BY <1>1, <1>2, NextIs
<1>4. Has(Tail(r), Start(t)) => Has(r, Start(t))
  BY <1>3, HasTail
<1>5. ASSUME NEW i \in 1 .. n - 1, Has(Tail(continuations)[i].rest, Start(t))
      PROVE  Unwritten(t)
  <2>1. i + 1 \in DOMAIN continuations /\ Tail(continuations)[i] = continuations[i + 1]
    BY <1>3
  <2>2. QED
    BY <1>5, <2>1 DEF Unwritten
<1>6. ASSUME NEW i \in DOMAIN continuations', Has(continuations'[i].rest, Start(t))
      PROVE  Unwritten(t)
  <2>1. CASE Tail(NextChain.rest) = <<>>
    <3>1. i \in 1 .. n - 1 /\ Has(Tail(continuations)[i].rest, Start(t))
      BY <1>2, <1>3, <1>6, <2>1
    <3>2. QED
      BY <1>5, <3>1
  <2>2. CASE Tail(NextChain.rest) # <<>>
    <3>1. PICK c \in Chains : c = ChainAfter(NextChain) /\ c.rest = Tail(r)
      <4>1. Tail(r) \in Seq(Cmds)
        BY <1>3, TailIs
      <4>2. PICK d \in Chains : d = NextChain
        BY <1>3 DEF DueChains
      <4>3. /\ [d EXCEPT !.rest = Tail(r)] \in Chains
            /\ [d EXCEPT !.rest = Tail(r)].rest = Tail(r)
        BY <4>1 DEF Chains
      <4>4. ChainAfter(NextChain) = [d EXCEPT !.rest = Tail(r)]
        BY <1>3, <4>2 DEF ChainAfter
      <4>5. QED
        BY <4>3, <4>4
    <3>2. PICK C \in Seq(Chains), T \in Seq(Chains) :
              C = continuations /\ T = Tail(continuations) /\ Len(T) = n - 1
      <4>1. continuations \in Seq(DueChains)
        BY <1>1, ChainTypes
      <4>2. continuations \in Seq(Chains)
        BY <4>1, SeqMonotonic DEF DueChains
      <4>3. QED
        BY <1>2, <1>3, <4>2, HeadTailProperties, LenProperties
    <3>3. continuations' = <<c>> \o T
      BY <1>2, <2>2, <3>1, <3>2
    <3>4. /\ DOMAIN continuations' = 1 .. n /\ continuations'[1] = c
          /\ \A j \in 2 .. n : continuations'[j] = T[j - 1]
      BY <3>2, <3>3
    <3>5. CASE i = 1
      <4>1. Has(r, Start(t))
        BY <1>4, <1>6, <3>1, <3>4, <3>5
      <4>2. 1 \in DOMAIN continuations /\ continuations[1].rest = r
        BY <1>3
      <4>3. QED
        BY <4>1, <4>2 DEF Unwritten
    <3>6. CASE i # 1
      <4>1. i \in 2 .. n /\ i - 1 \in 1 .. n - 1
        BY <3>4, <3>6
      <4>2. Has(Tail(continuations)[i - 1].rest, Start(t))
        BY <1>6, <3>2, <3>4, <4>1
      <4>3. QED
        BY <1>5, <4>1, <4>2
    <3>7. QED
      BY <3>5, <3>6
  <2>3. QED
    BY <2>1, <2>2
<1>7. Unwritten(t)' => Unwritten(t)
  BY <1>2, <1>6, UnwrittenNext DEF Unwritten
<1>8. ASSUME t # NextCmd.s
      PROVE  NodeSame(t)
  <2>1. assignments'[t] = assignments[t] /\ calls'[t] = calls[t]
    BY <1>1, <1>8 DEF CommandRejected, Release, TypeOK
  <2>2. Waiting' = Waiting
    BY <1>2 DEF Waiting, Keys, Cmds
  <2>3. QED
    BY <1>2, <1>7, <2>1, <2>2 DEF NodeSame, Start, Stop
<1>9. QED
  BY <1>7, <1>8

-----------------------------------------------------------------------------
(* Every step keeps the workers' side.                                     *)

Facts == Known /\ FreshNode /\ FreshWorkers

\* A worker that is ready after the step was before, and is as it was.
Steady(w) == archiveRuntimes'[w] = "ready" => archiveRuntimes[w] = "ready" /\ Rests(w)

LEMMA SessionThrough ==
    ASSUME NEW s \in Sessions, SessionInv(s), NodeSame(s),
           \A w \in Workers : Shrinks(w),
           \A w \in Workers : assignments[s] = w => Steady(w)
    PROVE  SessionInv(s)'
<1>1. ASSUME NEW w \in Workers
      PROVE  Less(w, s) /\ (assignments[s] = w => Lives(w, s))
  BY ShrinksLess DEF Steady
<1>2. QED
  BY <1>1, SessionKept

LEMMA ProcessesLeft ==
    ASSUME UNCHANGED procVars, NEW w \in Workers
    PROVE  Rests(w) /\ NoReply(w)
BY Untouched DEF procVars

\* Steps that neither call, nor answer, nor write.
LEMMA QuietWorkers ==
    ASSUME Facts, UNCHANGED <<pendingAcks, continuations, assignments, calls>>,
           held' \in SUBSET held,
           \A w \in Workers : Shrinks(w),
           \A w \in Workers : Steady(w) \/ \A s \in Sessions : assignments[s] # w
    PROVE  FreshWorkers'
<1>1. ASSUME NEW s \in Sessions
      PROVE  SessionInv(s)'
  BY NodeQuiet, SessionThrough DEF Facts, FreshWorkers
<1>2. ASSUME NEW w \in Workers
      PROVE  WorkerInv(w)'
  BY ShrinksInv DEF Facts, FreshWorkers
<1>3. QED
  BY <1>1, <1>2 DEF FreshWorkers

LEMMA WorkersStart ==
    ASSUME Facts, NEW w \in Workers, InitialStart(w) \/ Restart(w) \/ StartFails(w)
    PROVE  FreshWorkers'
<1>1. TypeOK /\ \A s \in Sessions : assignments[s] # w
  BY DEF Facts, Known, CallsInv, TimersFindNoWorker, InitialStart, Restart, StartFails
<1>2. /\ UNCHANGED <<pendingAcks, continuations, assignments, calls>>
      /\ held' \in SUBSET held
  BY DEF InitialStart, Restart, StartFails
<1>3. \/ UNCHANGED <<archiveRuntimes, procVars>>
      \/ /\ archiveRuntimes' = [archiveRuntimes EXCEPT ![w] = "ready"]
         /\ BlankProcesses({w})
  BY DEF InitialStart, Restart, StartFails, StartArchiveRuntime
<1>4. CASE UNCHANGED <<archiveRuntimes, procVars>>
  <2>1. \A v \in Workers : Shrinks(v) /\ Steady(v)
    BY <1>4, ProcessesLeft DEF Shrinks, Steady
  <2>2. QED
    BY <1>2, <2>1, QuietWorkers
<1>5. CASE /\ archiveRuntimes' = [archiveRuntimes EXCEPT ![w] = "ready"]
           /\ BlankProcesses({w})
  <2>1. ASSUME NEW v \in Workers
        PROVE  Shrinks(v) /\ (v = w \/ Steady(v))
    <3>1. CASE v = w
      BY <1>5, <3>1, BlankWorkers DEF Shrinks
    <3>2. CASE v # w
      <4>1. Rests(v) /\ NoReply(v) /\ archiveRuntimes'[v] = archiveRuntimes[v]
        BY <1>1, <1>5, <3>2, BlankWorkers DEF TypeOK
      <4>2. QED
        BY <4>1 DEF Shrinks, Steady
    <3>3. QED
      BY <3>1, <3>2
  <2>2. QED
    BY <1>1, <1>2, <2>1, QuietWorkers
<1>6. QED
  BY <1>3, <1>4, <1>5

LEMMA WorkersCrash ==
    ASSUME Facts, NEW w \in Workers, WorkerCrashes(w)
    PROVE  FreshWorkers'
<1>1. TypeOK
  BY DEF Facts, Known, CallsInv
<1>2. /\ UNCHANGED <<pendingAcks, continuations, assignments, calls>>
      /\ held' \in SUBSET held
      /\ archiveRuntimes' = [archiveRuntimes EXCEPT ![w] = "dying"]
      /\ ProcessDies(w) /\ stderr' = stderr
  BY DEF WorkerCrashes
<1>3. ASSUME NEW v \in Workers
      PROVE  Shrinks(v) /\ Steady(v)
  BY <1>1, <1>2, DeadWorker DEF Shrinks, Steady, TypeOK
<1>4. QED
  BY <1>2, <1>3, QuietWorkers

LEMMA WorkersIdle ==
    ASSUME Facts, (\E s \in Sessions : StopUnassigned(s)) \/ UNCHANGED vars
    PROVE  FreshWorkers'
<1>1. /\ UNCHANGED <<pendingAcks, continuations, assignments, calls>>
      /\ held' \in SUBSET held
      /\ UNCHANGED <<archiveRuntimes, procVars>>
  BY DEF StopUnassigned, vars, nodeVars
<1>2. \A v \in Workers : Shrinks(v) /\ Steady(v)
  BY <1>1, ProcessesLeft DEF Shrinks, Steady
<1>3. QED
  BY <1>1, <1>2, QuietWorkers

\* All is cleared: no session has a slot, no worker anything to do.
LEMMA WorkersClear ==
    ASSUME Facts, ClearArchivePool, continuations = <<>>
    PROVE  FreshWorkers'
<1>1. TypeOK /\ CallsInv /\ OneCallEach
  BY DEF Facts, Known, CallsInv, FreshNode
<1>2. PICK W : SettleAcks(Waiting, W)
  BY DEF ClearArchivePool
<1>3. ASSUME NEW w \in Workers
      PROVE  Blank(w) /\ stderr'[w] = <<>>
  BY BlankWorkers DEF ClearArchivePool
<1>4. ASSUME NEW w \in Workers
      PROVE  WorkerInv(w)'
  <2>1. NoReply(w) /\ Blank(w)
    BY <1>3, HasEmpty DEF NoReply
  <2>2. Shrinks(w) /\ WorkerInv(w)
    BY <2>1 DEF Shrinks, Facts, FreshWorkers
  <2>3. QED
    BY <2>2, ShrinksInv
<1>5. ASSUME NEW s \in Sessions
      PROVE  SessionInv(s)'
  <2>1. assignments'[s] = NoWorker
    BY DEF ClearArchivePool
  <2>2. ASSUME NEW w \in Workers
        PROVE  ~On(w, s)'
    <3>1. ~Has(Lines'[w], Start(s)) /\ ~Has(Lines'[w], Stop(s)) /\ playbacks'[w] = {}
      BY <1>3, HasEmpty DEF Blank
    <3>2. ~Playing(w, s)' /\ ~StartLine(w, s)' /\ ~StopLine(w, s)'
      BY <3>1 DEF Playing, StartLine, StopLine, Start, Stop
    <3>3. ~Stopped(w, s)' /\ \A ok \in BOOLEAN : ~Started(w, s, ok)'
      BY <1>3, HasEmpty DEF Stopped, Started
    <3>4. QED
      BY <3>2, <3>3 DEF On
  <2>3. ASSUME s \in held'
        PROVE  calls'[s] = 0
    <3>1. s \in held /\ calls[s] = 0
      BY <2>3 DEF ClearArchivePool, Facts, FreshWorkers, SessionInv
    <3>2. NoneWaits(s)
      BY <1>1, <3>1, NoCallNoCommand
    <3>3. calls'[s] = calls[s]
      BY <1>1, <1>2, <3>2, SettleCalls DEF NoneWaits
    <3>4. QED
      BY <3>1, <3>3
  <2>4. \A w \in Workers : ~Playing(w, s)' /\ ~StartLine(w, s)'
    BY <2>2 DEF On
  <2>5. QED
    BY <2>1, <2>2, <2>3, <2>4, SessionFreed
<1>6. QED
  BY <1>4, <1>5 DEF FreshWorkers

\* A worker exits: what it had is gone, and its sessions were nowhere else.
LEMMA WorkersExit ==
    ASSUME Facts, NEW w \in Workers, ArchiveWorkerExit(w)
    PROVE  FreshWorkers'
<1>1. TypeOK /\ CallsInv /\ OneCallEach
  BY DEF Facts, Known, CallsInv, FreshNode
<1>2. PICK K \in SUBSET Waiting : K = {k \in Waiting : assignments[k.s] = w}
  OBVIOUS
<1>3. /\ SettleAcks(K, {w}) /\ {w} \in SUBSET Workers /\ continuations = <<>>
      /\ BlankProcesses({w}) /\ held' = held
  BY <1>2 DEF ArchiveWorkerExit
<1>4. Settled(K, {w})
  BY <1>1, <1>3, SettleShape
<1>5. Waiting' = Waiting \ K
  BY <1>4 DEF Settled
<1>6. \A t \in Sessions : assignments'[t] = IF assignments[t] = w THEN NoWorker ELSE assignments[t]
  BY DEF ArchiveWorkerExit
<1>7. \A v \in Workers : archiveRuntimes'[v] = IF v = w THEN "none" ELSE archiveRuntimes[v]
  BY <1>1 DEF ArchiveWorkerExit, TypeOK
<1>8. ASSUME NEW v \in Workers
      PROVE  Shrinks(v) /\ Steady(v) /\ (v = w => Blank(v))
  <2>1. CASE v = w
    BY <1>3, <1>7, <2>1, BlankWorkers DEF Shrinks, Steady
  <2>2. CASE v # w
    <3>1. Rests(v) /\ NoReply(v) /\ archiveRuntimes'[v] = archiveRuntimes[v]
      BY <1>3, <1>7, <2>2, BlankWorkers
    <3>2. QED
      BY <2>2, <3>1 DEF Shrinks, Steady
  <2>3. QED
    BY <2>1, <2>2
<1>9. ASSUME NEW v \in Workers
      PROVE  WorkerInv(v)'
  BY <1>8, ShrinksInv DEF Facts, FreshWorkers
<1>10. ASSUME NEW s \in Sessions
       PROVE  SessionInv(s)'
  <2>1. SessionInv(s)
    BY DEF Facts, FreshWorkers
  <2>2. Unwritten(s)' => Unwritten(s)
    BY <1>4, SettledUnwritten
  <2>3. CASE assignments[s] = w
    <3>1. assignments'[s] = NoWorker
      BY <1>6, <2>3
    <3>2. ASSUME NEW v \in Workers
          PROVE  ~Playing(v, s)' /\ ~StartLine(v, s)' /\ (On(v, s)' => On(v, s))
      <4>1. On(v, s)' => On(v, s)
        BY <1>8, ShrinksLess, LessOn
      <4>2. CASE v = w
        <5>1. playbacks'[v] = {} /\ ~Has(Lines'[v], Start(s))
          BY <1>8, <4>2, HasEmpty DEF Blank
        <5>2. QED
          BY <4>1, <5>1 DEF Playing, StartLine, Start
      <4>3. CASE v # w
        <5>1. ~On(v, s)
          BY <2>1, <2>3, <4>3 DEF SessionInv, Owned
        <5>2. QED
          BY <4>1, <5>1 DEF On
      <4>4. QED
        BY <4>2, <4>3
    <3>3. Unwritten(s)' => \A v \in Workers : ~On(v, s)'
      BY <2>1, <2>2, <3>2 DEF SessionInv
    <3>4. ASSUME s \in held'
          PROVE  calls'[s] = 0
      <4>1. calls[s] = 0
        BY <1>3, <2>1, <3>4 DEF SessionInv
      <4>2. NoneWaits(s)
        BY <1>1, <4>1, NoCallNoCommand
      <4>3. calls'[s] = calls[s]
        BY <1>1, <1>3, <4>2, SettleCalls DEF NoneWaits
      <4>4. QED
        BY <4>1, <4>3
    <3>5. QED
      BY <3>1, <3>2, <3>3, <3>4, SessionFreed
  <2>4. CASE assignments[s] # w
    <3>1. \A k \in K : k.s # s
      BY <1>2, <2>4
    <3>2. calls'[s] = calls[s]
      BY <1>1, <1>3, <3>1, SettleCalls
    <3>3. Start(s).s = s /\ Stop(s).s = s
      BY DEF Start, Stop
    <3>4. /\ Start(s) \in Waiting' <=> Start(s) \in Waiting
          /\ Stop(s) \in Waiting' <=> Stop(s) \in Waiting
      BY <1>5, <3>1, <3>3
    <3>5. NodeSame(s)
      BY <1>3, <1>6, <2>2, <2>4, <3>2, <3>4 DEF NodeSame, Start, Stop
    <3>6. QED
      BY <1>8, <2>1, <3>5, SessionThrough
  <2>5. QED
    BY <2>3, <2>4
<1>11. QED
  BY <1>9, <1>10 DEF FreshWorkers

\* A call queues a command: the workers do not notice.
LEMMA WorkersCall ==
    ASSUME Facts, NEW w \in Workers, NEW cmd \in Cmds, QueueGroupedPlaybackCommand(w, cmd),
           NEW s \in Sessions, s = cmd.s,
           calls' = [calls EXCEPT ![s] = @ + 1],
           \A t \in Sessions : t # s => assignments'[t] = assignments[t],
           held' \in SUBSET held, UNCHANGED <<archiveRuntimes, procVars>>,
           SessionInv(s)'
    PROVE  FreshWorkers'
<1>1. TypeOK /\ OneLinked(pendingAcks, continuations)
  BY DEF Facts, Known, CallsInv
<1>2. \A v \in Workers : Shrinks(v) /\ Steady(v)
  BY ProcessesLeft DEF Shrinks, Steady
<1>3. ASSUME NEW t \in Sessions, t # s
      PROVE  SessionInv(t)'
  <2>1. cmd # Start(t)
    BY <1>3 DEF Start
  <2>2. Waiting' = Waiting /\ (Unwritten(t)' => Unwritten(t))
    BY <1>1, <2>1, QueuedSame
  <2>3. assignments'[t] = assignments[t] /\ calls'[t] = calls[t]
    BY <1>1, <1>3 DEF TypeOK
  <2>4. NodeSame(t)
    BY <2>2, <2>3 DEF NodeSame, Start, Stop
  <2>5. QED
    BY <1>2, <2>4, SessionThrough DEF Facts, FreshWorkers
<1>4. ASSUME NEW v \in Workers
      PROVE  WorkerInv(v)'
  BY <1>2, ShrinksInv DEF Facts, FreshWorkers
<1>5. QED
  BY <1>3, <1>4 DEF FreshWorkers

\* Processes that a step leaves alone have what they had of every session.
LEMMA OnLeft ==
    ASSUME UNCHANGED procVars, NEW w \in Workers, NEW s
    PROVE  /\ On(w, s)' <=> On(w, s)
           /\ Playing(w, s)' <=> Playing(w, s)
           /\ StartLine(w, s)' <=> StartLine(w, s)
           /\ StopLine(w, s)' <=> StopLine(w, s)
           /\ Stopped(w, s)' <=> Stopped(w, s)
           /\ \A ok \in BOOLEAN : Started(w, s, ok)' <=> Started(w, s, ok)
<1>1. Lines'[w] = Lines[w] /\ playbacks' = playbacks /\ stderr' = stderr
  BY Unread DEF procVars
<1>2. /\ Playing(w, s)' <=> Playing(w, s)
      /\ StartLine(w, s)' <=> StartLine(w, s)
      /\ StopLine(w, s)' <=> StopLine(w, s)
      /\ Stopped(w, s)' <=> Stopped(w, s)
      /\ \A ok \in BOOLEAN : Started(w, s, ok)' <=> Started(w, s, ok)
  BY <1>1 DEF Playing, StartLine, StopLine, Stopped, Started, Start, Stop
<1>3. QED
  BY <1>2 DEF On

\* An id no worker knows.
LEMMA UnusedOn ==
    ASSUME TypeOK, NEW s \in Sessions, Unused(s), NEW w \in Workers
    PROVE  ~On(w, s)
<1>1. PICK b \in Seq(Cmds), r \in Seq(Cmds), e \in Seq(Replies) :
          b = lineBuffer[w] /\ r = stdin[w] /\ e = stderr[w] /\ Lines[w] = b \o r
  BY ProcessTypes
<1>2. /\ s \notin playbacks[w]
      /\ \A i \in DOMAIN r : r[i].s # s
      /\ \A i \in DOMAIN b : b[i].s # s
      /\ \A i \in DOMAIN e : e[i].s # s
  BY <1>1 DEF Unused
<1>3. ASSUME NEW i \in DOMAIN (b \o r)
      PROVE  (b \o r)[i].s # s
  <2>1. /\ Len(b) \in Nat /\ Len(r) \in Nat /\ i \in 1 .. Len(b) + Len(r)
        /\ DOMAIN b = 1 .. Len(b) /\ DOMAIN r = 1 .. Len(r)
        /\ (b \o r)[i] = IF i <= Len(b) THEN b[i] ELSE r[i - Len(b)]
    BY <1>3, ConcatProperties, LenProperties
  <2>2. CASE i <= Len(b)
    BY <1>2, <2>1, <2>2
  <2>3. CASE ~(i <= Len(b))
    BY <1>2, <2>1, <2>3
  <2>4. QED
    BY <2>2, <2>3
<1>4. Start(s).s = s /\ Stop(s).s = s
  BY DEF Start, Stop
<1>5. ~StartLine(w, s) /\ ~StopLine(w, s)
  BY <1>1, <1>3, <1>4 DEF StartLine, StopLine, Has
<1>6. ~Playing(w, s) /\ ~Stopped(w, s) /\ \A ok \in BOOLEAN : ~Started(w, s, ok)
  <2>1. ASSUME NEW c, c.s = s
        PROVE  ~Has(stderr[w], c)
    BY <1>1, <1>2, <2>1 DEF Has
  <2>2. \A op, ok : ~Has(stderr[w], [s |-> s, op |-> op, ok |-> ok])
    BY <2>1
  <2>3. QED
    BY <1>2, <2>2 DEF Playing, Stopped, Started
<1>7. QED
  BY <1>5, <1>6 DEF On

LEMMA WorkersStartCall ==
    ASSUME Facts, Fresh, NEW s \in Sessions, StartGroupedPlayback(s)
    PROVE  FreshWorkers'
<1>1. TypeOK
  BY DEF Facts, Known, CallsInv
<1>2. Unused(s)
  BY CallShape DEF Facts
<1>3. PICK w \in Workers :
          /\ Usable(w) /\ assignments' = [assignments EXCEPT ![s] = w]
          /\ QueueGroupedPlaybackCommand(w, [s |-> s, op |-> "start"])
  BY CallShape DEF Facts
<1>4. PICK cmd \in Cmds : cmd = [s |-> s, op |-> "start"]
  BY DEF Cmds, Ops
<1>5. s = cmd.s /\ QueueGroupedPlaybackCommand(w, cmd)
  BY <1>3, <1>4
<1>6. /\ calls[s] = 0 /\ s \notin held /\ held' = held
      /\ calls' = [calls EXCEPT ![s] = @ + 1]
      /\ UNCHANGED <<archiveRuntimes, procVars>>
  BY <1>2 DEF StartGroupedPlayback, Unused
<1>7. calls'[s] = 1
  BY <1>1, <1>6 DEF TypeOK
<1>8. \A v \in Workers : ~On(v, s)'
  BY <1>1, <1>2, <1>6, UnusedOn, OnLeft
<1>9. ASSUME NEW v \in Workers
      PROVE  Owned(v, s)'
  BY <1>7, <1>8 DEF Owned, On
<1>10. SessionInv(s)'
  BY <1>6, <1>8, <1>9 DEF SessionInv, On
<1>11. \A t \in Sessions : t # s => assignments'[t] = assignments[t]
  BY <1>1, <1>3 DEF TypeOK
<1>12. QED
  BY <1>5, <1>6, <1>10, <1>11, WorkersCall

LEMMA WorkersStopCall ==
    ASSUME Facts, Fresh, NEW s \in Sessions, StopGroupedPlayback(s)
    PROVE  FreshWorkers'
<1>1. TypeOK /\ OneLinked(pendingAcks, continuations)
  BY DEF Facts, Known, CallsInv
<1>2. /\ calls[s] = 0 /\ assignments[s] \in Workers
      /\ QueueGroupedPlaybackCommand(assignments[s], [s |-> s, op |-> "stop"])
  BY CallShape DEF Facts
<1>3. PICK w \in Workers : w = assignments[s]
  BY <1>2
<1>4. PICK cmd \in Cmds : cmd = [s |-> s, op |-> "stop"]
  BY DEF Cmds, Ops
<1>5. s = cmd.s /\ QueueGroupedPlaybackCommand(w, cmd) /\ cmd # Start(s)
  BY <1>2, <1>3, <1>4 DEF Start
<1>6. /\ held' = held \ {s} /\ held' \in SUBSET held
      /\ calls' = [calls EXCEPT ![s] = @ + 1] /\ assignments' = assignments
      /\ UNCHANGED <<archiveRuntimes, procVars>>
  BY DEF StopGroupedPlayback
<1>7. calls'[s] = 1
  BY <1>1, <1>2, <1>6 DEF TypeOK
<1>8. Waiting' = Waiting /\ (Unwritten(s)' => Unwritten(s))
  BY <1>1, <1>5, QueuedSame
<1>9. SessionInv(s)
  BY DEF Facts, FreshWorkers
<1>10. /\ Unwritten(s)' => \A v \in Workers : ~On(v, s)'
       /\ \A v \in Workers : Playing(v, s)' \/ StartLine(v, s)'
                                 => assignments'[s] = v \/ StopLine(v, s)'
  BY <1>6, <1>8, <1>9, OnLeft DEF SessionInv
<1>11. ASSUME NEW v \in Workers, assignments'[s] = v
       PROVE  Owned(v, s)'
  <2>1. Owned(v, s) /\ archiveRuntimes' = archiveRuntimes
    BY <1>6, <1>9, <1>11 DEF SessionInv
  <2>2. \A x \in Workers : On(x, s)' => x = v
    BY <1>6, <2>1, OnLeft DEF Owned
  <2>3. /\ Playing(v, s)' <=> Playing(v, s)
        /\ StartLine(v, s)' <=> StartLine(v, s)
        /\ StopLine(v, s)' <=> StopLine(v, s)
        /\ Stopped(v, s)' <=> Stopped(v, s)
        /\ \A ok \in BOOLEAN : Started(v, s, ok)' <=> Started(v, s, ok)
    BY <1>6, OnLeft
  <2>4. QED
    BY <1>7, <1>8, <2>1, <2>2, <2>3 DEF Owned, Start, Stop
<1>12. SessionInv(s)'
  BY <1>6, <1>10, <1>11 DEF SessionInv
<1>13. QED
  BY <1>5, <1>6, <1>12, WorkersCall

\* There is room for a start that is written: what is played or will be by then holds a slot.
LEMMA RoomWhenWritten ==
    ASSUME Facts, NEW w \in Workers, NEW s \in Sessions, assignments[s] = w, NEW R,
           R = {p \in Sessions : /\ p # s /\ (p \in playbacks[w] \/ Has(Lines[w], Start(p)))
                                 /\ ~Has(Lines[w], Stop(p))}
    PROVE  Cardinality(R) < MaxPerWorker
<1>1. PICK A \in SUBSET Sessions : A = {p \in Sessions : assignments[p] = w}
  OBVIOUS
<1>2. IsFiniteSet(A) /\ Cardinality(A) \in Nat
  BY PoolAssumption, FS_Subset, FS_CardinalityType
<1>3. Cardinality(A) <= MaxPerWorker
  <2>1. Pool!Capacity
    BY DEF Facts, Known, Capacity
  <2>2. Cardinality(Pool!Holders(w)) <= MaxPerWorker
    BY <2>1, SameCardinality DEF Pool!Capacity
  <2>3. Pool!Holders(w) = A
    BY <1>1 DEF Pool!Holders
  <2>4. QED
    BY <2>2, <2>3
<1>4. s \in A
  BY <1>1
<1>5. Cardinality(A \ {s}) = Cardinality(A) - 1
  BY <1>2, <1>4, FS_RemoveElement
<1>6. ASSUME NEW p \in R
      PROVE  p \in A \ {s}
  <2>1. p \in Sessions /\ p # s /\ (Playing(w, p) \/ StartLine(w, p)) /\ ~StopLine(w, p)
    BY <1>6 DEF Playing, StartLine, StopLine
  <2>2. SessionInv(p)
    BY <2>1 DEF Facts, FreshWorkers
  <2>3. QED
    BY <1>1, <2>1, <2>2 DEF SessionInv
<1>7. IsFiniteSet(A \ {s}) /\ R \in SUBSET (A \ {s})
  BY <1>2, <1>6, FS_Subset
<1>8. Cardinality(A \ {s}) < MaxPerWorker
  BY <1>2, <1>3, <1>5, PoolAssumption
<1>9. QED
  BY <1>7, <1>8, FewerExpected

\* The worker a line is written to.
LEMMA WrittenInv ==
    ASSUME Facts, NEW v \in Workers, NEW c \in Cmds, NEW s \in Sessions, s = c.s, WriteLine(v, c),
           UNCHANGED <<lineBuffer, playbacks, stderr, archiveRuntimes>>,
           c = Stop(s) \/ (c = Start(s) /\ ~On(v, s) /\ assignments[s] = v),
           NEW w \in Workers
    PROVE  WorkerInv(w)'
<1>1. TypeOK /\ WorkerInv(w)
  BY DEF Facts, Known, CallsInv, FreshWorkers
<1>2. CASE w # v \/ archiveRuntimes[v] # "ready"
  <2>1. Shrinks(w)
    BY <1>1, <1>2, Written DEF Shrinks
  <2>2. QED
    BY <1>1, <2>1, ShrinksInv
<1>3. CASE w = v /\ archiveRuntimes[v] = "ready"
  <2>1. PICK L \in Seq(Cmds), P \in SUBSET Sessions : L = Lines[w] /\ P = playbacks[w]
    BY <1>1, ProcessTypes
  <2>2. Lines'[w] = Append(L, c) /\ playbacks'[w] = P
    BY <1>1, <1>3, <2>1, Written
  <2>3. InOrder(L) /\ Roomy(L, P)
    BY <1>1, <2>1 DEF WorkerInv
  <2>4. c = Stop(s) \/ (c = Start(s) /\ ~Has(L, Start(s)) /\ ~Has(L, Stop(s)))
    BY <1>3, <2>1 DEF On, StartLine, StopLine
  <2>5. InOrder(Append(L, c))
    BY <2>3, <2>4, OrderAppend
  <2>6. c.op = "start" =>
            Cardinality({p \in Sessions : /\ p # c.s /\ (p \in P \/ Has(L, Start(p)))
                                          /\ ~Has(L, Stop(p))}) < MaxPerWorker
    <3>1. SUFFICES ASSUME c.op = "start"
                   PROVE  Cardinality({p \in Sessions : /\ p # c.s /\ (p \in P \/ Has(L, Start(p)))
                                                        /\ ~Has(L, Stop(p))}) < MaxPerWorker
      OBVIOUS
    <3>2. assignments[s] = w
      BY <1>3, <3>1 DEF Stop
    <3>3. PICK R \in SUBSET Sessions :
              R = {p \in Sessions : /\ p # s /\ (p \in P \/ Has(L, Start(p))) /\ ~Has(L, Stop(p))}
      OBVIOUS
    <3>4. Cardinality(R) < MaxPerWorker
      BY <2>1, <3>2, <3>3, RoomWhenWritten
    <3>5. QED
      BY <3>3, <3>4
  <2>7. Roomy(Append(L, c), P)
    BY <2>3, <2>6, RoomyAppend
  <2>8. InOrder(Lines'[w]) /\ Roomy(Lines'[w], playbacks'[w]) /\ archiveRuntimes'[w] = "ready"
    BY <1>3, <2>2, <2>5, <2>7
  <2>9. QED
    BY <2>8 DEF WorkerInv, InOrder, Roomy, Expected, Start, Stop
<1>4. QED
  BY <1>2, <1>3

\* The session of a written line: that line is all that is new of it.
LEMMA WrittenOwn ==
    ASSUME TypeOK, NEW v \in Workers, NEW c \in Cmds, NEW s \in Sessions, WriteLine(v, c),
           UNCHANGED <<lineBuffer, playbacks, stderr>>, NEW w \in Workers
    PROVE  /\ Playing(w, s)' <=> Playing(w, s)
           /\ Stopped(w, s)' <=> Stopped(w, s)
           /\ \A ok \in BOOLEAN : Started(w, s, ok)' <=> Started(w, s, ok)
           /\ StartLine(w, s)' <=>
                 StartLine(w, s) \/ (c = Start(s) /\ w = v /\ archiveRuntimes[v] = "ready")
           /\ StopLine(w, s)' <=>
                 StopLine(w, s) \/ (c = Stop(s) /\ w = v /\ archiveRuntimes[v] = "ready")
<1>1. /\ Playing(w, s)' <=> Playing(w, s)
      /\ Stopped(w, s)' <=> Stopped(w, s)
      /\ \A ok \in BOOLEAN : Started(w, s, ok)' <=> Started(w, s, ok)
  BY DEF Playing, Stopped, Started
<1>2. /\ StartLine(w, s)' <=> Has(Lines'[w], Start(s))
      /\ StopLine(w, s)' <=> Has(Lines'[w], Stop(s))
  BY DEF StartLine, StopLine, Start, Stop
<1>3. CASE w # v \/ archiveRuntimes[v] # "ready"
  <2>1. Lines'[w] = Lines[w]
    BY <1>3, Written DEF Rests
  <2>2. QED
    BY <1>1, <1>2, <1>3, <2>1 DEF StartLine, StopLine
<1>4. CASE w = v /\ archiveRuntimes[v] = "ready"
  <2>1. Lines'[w] = Append(Lines[w], c) /\ Lines[w] \in Seq(Cmds)
    BY <1>4, Written, ProcessTypes
  <2>2. \A d : Has(Append(Lines[w], c), d) <=> Has(Lines[w], d) \/ d = c
    BY <2>1, HasAppend
  <2>3. QED
    BY <1>1, <1>2, <1>4, <2>1, <2>2 DEF StartLine, StopLine
<1>5. QED
  BY <1>3, <1>4

LEMMA WorkersWrite ==
    ASSUME Facts, WriteCommandWithAck
    PROVE  FreshWorkers'
<1>1. TypeOK /\ CallsInv /\ OneCallEach /\ Known /\ FreshNode
  BY DEF Facts, Known, CallsInv, FreshNode
<1>2. PICK c \in Cmds, w \in Workers, s \in Sessions :
          /\ c = NextCmd /\ w = NextChain.wk /\ s = c.s
          /\ continuations # <<>> /\ NextCmd = NextChain.rest[1]
          /\ 1 \in DOMAIN NextChain.rest /\ 1 \in DOMAIN continuations
          /\ NextChain = continuations[1]
  BY <1>1, WritesAlone, NextIs
<1>3. /\ assignments[s] = w /\ c \notin Waiting /\ Waiting' = Waiting \cup {c}
      /\ UNCHANGED <<assignments, calls>>
  BY <1>1, <1>2, WritesAlone
<1>4. /\ WriteLine(w, c)
      /\ UNCHANGED <<lineBuffer, playbacks, stderr, archiveRuntimes, held>>
  BY <1>2 DEF WriteCommandWithAck
<1>5. c = Start(s) \/ c = Stop(s)
  BY <1>2 DEF Start, Stop, Cmds, Ops
<1>6. Start(s) # Stop(s) /\ Start(s).s = s /\ Stop(s).s = s
  BY DEF Start, Stop
<1>7. calls[s] = 1 /\ NoneWaits(s) /\ SessionInv(s) /\ ~Unwritten(s)'
  BY <1>1, <1>2, NextAlone, WriteSame DEF Facts, FreshWorkers
<1>8. Start(s) \notin Waiting /\ Stop(s) \notin Waiting
  BY <1>6, <1>7 DEF NoneWaits
<1>9. c = Start(s) => \A v \in Workers : ~On(v, s)
  <2>1. c = Start(s) => Unwritten(s)
    BY <1>2 DEF Unwritten, Has
  <2>2. QED
    BY <1>7, <2>1 DEF SessionInv
<1>10. ASSUME NEW v \in Workers
       PROVE  /\ Playing(v, s)' <=> Playing(v, s)
              /\ Stopped(v, s)' <=> Stopped(v, s)
              /\ \A ok \in BOOLEAN : Started(v, s, ok)' <=> Started(v, s, ok)
              /\ StartLine(v, s)' <=>
                    StartLine(v, s) \/ (c = Start(s) /\ v = w /\ archiveRuntimes[w] = "ready")
              /\ StopLine(v, s)' <=>
                    StopLine(v, s) \/ (c = Stop(s) /\ v = w /\ archiveRuntimes[w] = "ready")
  BY <1>1, <1>4, WrittenOwn
<1>11. SessionInv(s)'
  <2>1. \A v \in Workers : On(v, s)' => On(v, s) \/ v = w
    BY <1>10 DEF On
  <2>2. s \notin held'
    BY <1>4, <1>7 DEF SessionInv
  <2>3. ASSUME NEW v \in Workers, Playing(v, s)' \/ StartLine(v, s)'
        PROVE  assignments'[s] = v \/ StopLine(v, s)'
    BY <1>3, <1>7, <1>10, <2>3 DEF SessionInv
  <2>4. ASSUME NEW v \in Workers, assignments'[s] = v
        PROVE  Owned(v, s)'
    <3>1. v = w /\ Owned(v, s)
      BY <1>3, <1>7, <2>4 DEF SessionInv
    <3>2. \A x \in Workers : On(x, s)' => x = v
      BY <2>1, <3>1 DEF Owned
    <3>3. ~StopLine(v, s) /\ ~Stopped(v, s) /\ ~StartLine(v, s)
      BY <1>8, <3>1 DEF Owned
    <3>4. calls'[s] = 1
      BY <1>3, <1>7
    <3>5. CASE c = Start(s)
      <4>1. /\ Start(s) \in Waiting' /\ Stop(s) \notin Waiting'
            /\ ~Playing(v, s)' /\ ~Stopped(v, s)' /\ ~StopLine(v, s)'
            /\ \A ok \in BOOLEAN : ~Started(v, s, ok)'
        BY <1>3, <1>6, <1>8, <1>9, <1>10, <3>5 DEF On
      <4>2. QED
        BY <3>2, <3>4, <4>1 DEF Owned, Start, Stop
    <3>6. CASE c = Stop(s)
      <4>1. /\ Stop(s) \in Waiting' /\ Start(s) \notin Waiting'
            /\ ~Stopped(v, s)' /\ ~StartLine(v, s)'
        BY <1>3, <1>6, <1>8, <1>10, <3>3, <3>6
      <4>2. QED
        BY <3>2, <3>4, <4>1 DEF Owned, Start, Stop
    <3>7. QED
      BY <1>5, <3>5, <3>6
  <2>5. QED
    BY <1>7, <2>2, <2>3, <2>4 DEF SessionInv
<1>12. ASSUME NEW t \in Sessions, t # s
       PROVE  SessionInv(t)'
  <2>1. NodeSame(t) /\ SessionInv(t)
    BY <1>1, <1>2, <1>12, WriteSame DEF Facts, FreshWorkers
  <2>2. \A v \in Workers : Less(v, t) /\ Lives(v, t)
    BY <1>1, <1>2, <1>4, <1>12, WrittenLess
  <2>3. QED
    BY <2>1, <2>2, SessionKept
<1>13. ASSUME NEW v \in Workers
       PROVE  WorkerInv(v)'
  BY <1>2, <1>3, <1>4, <1>5, <1>9, WrittenInv
<1>14. QED
  BY <1>11, <1>12, <1>13 DEF FreshWorkers

\* A command is rejected: its worker has nothing, or its session had no slot any more.
LEMMA WorkersReject ==
    ASSUME Facts, CommandRejected
    PROVE  FreshWorkers'
<1>1. TypeOK /\ CallsInv /\ OneCallEach /\ Known /\ FreshNode
  BY DEF Facts, Known, CallsInv, FreshNode
<1>2. /\ continuations # <<>> /\ ~Usable(NextChain.wk) /\ held' = held
      /\ UNCHANGED <<archiveRuntimes, procVars>> /\ Release(NextCmd.s)
  BY DEF CommandRejected
<1>3. PICK w \in Workers, s \in Sessions :
          /\ w = NextChain.wk /\ s = NextCmd.s /\ NextCmd = NextChain.rest[1]
          /\ 1 \in DOMAIN NextChain.rest /\ 1 \in DOMAIN continuations
          /\ NextChain = continuations[1]
  BY <1>1, <1>2, NextIs
<1>4. \A v \in Workers : Shrinks(v) /\ Steady(v)
  BY <1>2, ProcessesLeft DEF Shrinks, Steady
<1>5. assignments[s] \in {w, NoWorker}
  <2>1. ChainFits(1)
    BY <1>1, <1>3 DEF FreshNode
  <2>2. QED
    BY <1>3, <2>1 DEF ChainFits, AllAt
<1>6. SessionInv(s)'
  <2>1. assignments'[s] = NoWorker
    BY <1>1, <1>2, <1>3 DEF Release, TypeOK
  <2>2. SessionInv(s) /\ (Unwritten(s)' => Unwritten(s))
    BY <1>1, RejectSame DEF Facts, FreshWorkers
  <2>3. Unwritten(s)' => \A v \in Workers : ~On(v, s)'
    BY <1>2, <2>2, OnLeft DEF SessionInv
  <2>4. s \notin held'
    <3>1. calls[s] = 1
      BY <1>1, <1>2, <1>3, NextAlone
    <3>2. QED
      BY <1>2, <2>2, <3>1 DEF SessionInv
  <2>5. ASSUME NEW v \in Workers, Playing(v, s) \/ StartLine(v, s), ~StopLine(v, s)
        PROVE  FALSE
    <3>1. assignments[s] = v
      BY <2>2, <2>5 DEF SessionInv
    <3>2. v = w
      BY <1>5, <3>1, NoWorkerIsNone
    <3>3. WorkerInv(w) /\ archiveRuntimes[w] # "ready"
      BY <1>2, <1>3 DEF Usable, Facts, FreshWorkers
    <3>4. ~Has(Lines[w], Start(s)) /\ playbacks[w] = {}
      BY <3>3, HasEmpty DEF WorkerInv
    <3>5. QED
      BY <2>5, <3>2, <3>4 DEF Playing, StartLine
  <2>6. \A v \in Workers : Playing(v, s)' \/ StartLine(v, s)' => StopLine(v, s)'
    BY <1>2, <2>5, OnLeft
  <2>7. QED
    BY <2>1, <2>3, <2>4, <2>6, SessionFreed
<1>7. ASSUME NEW t \in Sessions, t # s
      PROVE  SessionInv(t)'
  BY <1>1, <1>3, <1>4, <1>7, RejectSame, SessionThrough DEF Facts, FreshWorkers
<1>8. ASSUME NEW v \in Workers
      PROVE  WorkerInv(v)'
  BY <1>4, ShrinksInv DEF Facts, FreshWorkers
<1>9. QED
  BY <1>6, <1>7, <1>8 DEF FreshWorkers

\* The session of a command that waits: it is at the worker the command went to, if anywhere.
LEMMA WaiterWorker ==
    ASSUME Facts, NEW k \in Waiting
    PROVE  /\ k.s \in Sessions /\ pendingAcks[k].wk \in Workers
           /\ assignments[k.s] = pendingAcks[k].wk
           /\ Owned(pendingAcks[k].wk, k.s) /\ SessionInv(k.s)
           /\ k = Start(k.s) \/ k = Stop(k.s)
           /\ k.op = "start" => k = Start(k.s) /\ Stop(k.s) \notin Waiting
           /\ k.op # "start" => k = Stop(k.s) /\ Start(k.s) \notin Waiting
           /\ pendingAcks[k].at # "removed"
           /\ pendingAcks[k].at = "lost" => archiveRuntimes[pendingAcks[k].wk] # "ready"
<1>1. TypeOK /\ CallsInv /\ OneCallEach
  BY DEF Facts, Known, CallsInv, FreshNode
<1>2. k \in Keys /\ k.s \in Sessions /\ \A l \in Waiting : l.s = k.s => l = k
  BY <1>1, WaiterAlone
<1>3. WaiterFits(k)
  BY DEF Facts, FreshNode
<1>4. pendingAcks[k].wk \in Workers
  BY <1>1, <1>2 DEF TypeOK, Waiting, Waiters, Idle
<1>5. SessionInv(k.s)
  BY <1>2 DEF Facts, FreshWorkers
<1>6. assignments[k.s] = pendingAcks[k].wk
  BY <1>3 DEF WaiterFits
<1>7. Owned(pendingAcks[k].wk, k.s)
  BY <1>4, <1>5, <1>6 DEF SessionInv
<1>8. /\ k.op = "start" => k = Start(k.s)
      /\ k.op # "start" => k = Stop(k.s)
  BY <1>2 DEF Keys, Cmds, Ops, Start, Stop
<1>9. Start(k.s).s = k.s /\ Stop(k.s).s = k.s /\ Start(k.s) # Stop(k.s)
  BY DEF Start, Stop
<1>10. QED
  BY <1>2, <1>3, <1>4, <1>5, <1>6, <1>7, <1>8, <1>9 DEF WaiterFits

\* A start that failed, and a stop, leave a session that has no slot.
LEMMA SettledFreed ==
    ASSUME Facts, NEW k \in Waiting, NEW ok, Settle(k, ok), continuations = <<>>,
           ~(k.op = "start" /\ ok),
           \A w \in Workers : Playing(w, k.s)' \/ StartLine(w, k.s)' => StopLine(w, k.s)'
    PROVE  SessionInv(k.s)'
<1>1. TypeOK /\ Known /\ FreshNode
  BY DEF Facts, Known, CallsInv
<1>2. PICK s \in Sessions : s = k.s
  BY WaiterWorker
<1>3. assignments'[s] = NoWorker /\ held' = held
  BY <1>1, <1>2 DEF Settle, Release, TypeOK
<1>4. ~Unwritten(s)' /\ calls[s] = 1
  BY <1>1, <1>2, SettleSame
<1>5. s \notin held
  BY <1>4 DEF Facts, FreshWorkers, SessionInv
<1>6. \A w \in Workers : Playing(w, s)' \/ StartLine(w, s)' => StopLine(w, s)'
  BY <1>2
<1>7. SessionInv(s)'
  BY <1>3, <1>4, <1>5, <1>6, SessionFreed
<1>8. QED
  BY <1>2, <1>7

\* The sessions of other commands.
LEMMA SettledOthers ==
    ASSUME Facts, NEW k \in Waiting, NEW ok, Settle(k, ok), continuations = <<>>,
           \A w \in Workers : Shrinks(w) /\ Steady(w),
           NEW t \in Sessions, t # k.s
    PROVE  SessionInv(t)'
BY SettleSame, SessionThrough DEF Facts, FreshWorkers

\* A worker that only replied.
LEMMA Answered ==
    ASSUME TypeOK, NEW v \in Workers, stderr[v] # <<>>,
           stderr' = [stderr EXCEPT ![v] = Tail(@)],
           UNCHANGED <<archiveRuntimes, playbacks, stdin, lineBuffer>>,
           NEW w \in Workers
    PROVE  /\ Shrinks(w) /\ Steady(w) /\ Has(stderr[v], Head(stderr[v]))
           /\ Head(stderr[v]) \in Replies
           /\ \A s : /\ Playing(w, s)' <=> Playing(w, s)
                     /\ StartLine(w, s)' <=> StartLine(w, s)
                     /\ StopLine(w, s)' <=> StopLine(w, s)
<1>1. Rests(w)
  BY Unread DEF Rests
<1>2. stderr[v] \in Seq(Replies)
  BY ProcessTypes
<1>3. \A c : Has(stderr[v], c) <=> Has(Tail(stderr[v]), c) \/ c = Head(stderr[v])
  BY <1>2, HasTail
<1>4. Head(stderr[v]) \in Replies
  BY <1>2, TailIs
<1>5. NoReply(w)
  <2>1. CASE w = v
    <3>1. stderr'[w] = Tail(stderr[v])
      BY <2>1 DEF TypeOK
    <3>2. QED
      BY <1>3, <2>1, <3>1 DEF NoReply
  <2>2. CASE w # v
    <3>1. stderr'[w] = stderr[w]
      BY <2>2 DEF TypeOK
    <3>2. QED
      BY <3>1 DEF NoReply
  <2>3. QED
    BY <2>1, <2>2
<1>6. \A s : /\ Playing(w, s)' <=> Playing(w, s)
             /\ StartLine(w, s)' <=> StartLine(w, s)
             /\ StopLine(w, s)' <=> StopLine(w, s)
  BY <1>1 DEF Rests, Playing, StartLine, StopLine, Start, Stop
<1>7. QED
  BY <1>1, <1>3, <1>4, <1>5, <1>6 DEF Shrinks, Steady

\* A start is acknowledged: the worker plays.
LEMMA StartAnswered ==
    ASSUME Facts, NEW s \in Sessions, NEW k \in Waiting, k = Start(s), Settle(k, TRUE),
           continuations = <<>>, archiveRuntimes' = archiveRuntimes,
           NEW v \in Workers, Started(v, s, TRUE),
           \A w \in Workers : Shrinks(w),
           \A w \in Workers : /\ Playing(w, s)' <=> Playing(w, s)
                              /\ StartLine(w, s)' <=> StartLine(w, s)
                              /\ StopLine(w, s)' <=> StopLine(w, s)
    PROVE  SessionInv(s)'
<1>1. TypeOK /\ Known /\ FreshNode
  BY DEF Facts, Known, CallsInv
<1>2. k.s = s /\ k.op = "start"
  BY DEF Start
<1>3. PICK w \in Workers : w = pendingAcks[k].wk
  BY WaiterWorker
<1>4. assignments[s] = w /\ Owned(w, s) /\ SessionInv(s) /\ Stop(s) \notin Waiting
  BY <1>2, <1>3, WaiterWorker
<1>5. v = w
  BY <1>4 DEF Owned, On
<1>6. ~StartLine(w, s) /\ (archiveRuntimes[w] = "ready" => Playing(w, s))
  BY <1>4, <1>5 DEF Owned
<1>7. ~StopLine(w, s) /\ ~Stopped(w, s)
  BY <1>4 DEF Owned
<1>8. /\ ~Unwritten(s)' /\ Start(s) \notin Waiting' /\ Stop(s) \notin Waiting' /\ calls'[s] = 0
  BY <1>1, <1>2, SettleSame
<1>9. assignments' = assignments
  BY <1>2 DEF Settle
<1>10. \A x \in Workers : On(x, s)' => On(x, s)
  BY ShrinksLess, LessOn
<1>11. ~Stopped(w, s)'
  BY <1>7, ShrinksLess DEF Less
<1>12. Owned(w, s)'
  <2>1. \A x \in Workers : On(x, s)' => x = w
    BY <1>4, <1>10 DEF Owned
  <2>2. ~StopLine(w, s)' /\ ~StartLine(w, s)' /\ (archiveRuntimes'[w] = "ready" => Playing(w, s)')
    BY <1>6, <1>7
  <2>3. QED
    BY <1>8, <1>11, <2>1, <2>2 DEF Owned, Start, Stop
<1>13. \A x \in Workers : Playing(x, s)' \/ StartLine(x, s)' => assignments'[s] = x \/ StopLine(x, s)'
  BY <1>4, <1>9 DEF SessionInv
<1>14. \A x \in Workers : assignments'[s] = x => Owned(x, s)'
  BY <1>4, <1>9, <1>12
<1>15. QED
  BY <1>8, <1>13, <1>14 DEF SessionInv

LEMMA WorkersStatusLine ==
    ASSUME Facts, NEW v \in Workers, HandleStatusLine(v)
    PROVE  FreshWorkers'
<1>1. TypeOK /\ Known /\ FreshNode
  BY DEF Facts, Known, CallsInv
<1>2. /\ continuations = <<>> /\ stderr[v] # <<>>
      /\ stderr' = [stderr EXCEPT ![v] = Tail(@)]
      /\ UNCHANGED <<archiveRuntimes, playbacks, stdin, lineBuffer>>
  BY DEF HandleStatusLine
<1>3. ASSUME NEW w \in Workers
      PROVE  /\ Shrinks(w) /\ Steady(w) /\ Has(stderr[v], Head(stderr[v]))
             /\ Head(stderr[v]) \in Replies
             /\ \A s : /\ Playing(w, s)' <=> Playing(w, s)
                       /\ StartLine(w, s)' <=> StartLine(w, s)
                       /\ StopLine(w, s)' <=> StopLine(w, s)
  BY <1>1, <1>2, Answered
<1>4. PICK reply \in Replies :
          /\ reply = Head(stderr[v]) /\ Has(stderr[v], reply)
  BY <1>3
<1>5. PICK k \in Keys : k = [s |-> reply.s, op |-> reply.op]
  BY DEF Replies, Keys, Cmds
<1>6. IF k \in Waiting
      THEN Settle(k, reply.ok)
      ELSE UNCHANGED <<assignments, pendingAcks, continuations, calls, held>>
  BY <1>4, <1>5 DEF HandleStatusLine
<1>7. CASE k \notin Waiting
  <2>1. /\ UNCHANGED <<pendingAcks, continuations, assignments, calls>>
        /\ held' \in SUBSET held
    BY <1>6, <1>7
  <2>2. QED
    BY <1>3, <2>1, QuietWorkers
<1>8. CASE k \in Waiting
  <2>1. PICK s \in Sessions, w \in Workers :
            /\ s = k.s /\ w = pendingAcks[k].wk
            /\ assignments[s] = w /\ Owned(w, s)
            /\ k.op = "start" => k = Start(s)
            /\ k.op # "start" => k = Stop(s) /\ Start(s) \notin Waiting
    BY <1>8, WaiterWorker
  <2>2. Settle(k, reply.ok)
    BY <1>6, <1>8
  <2>3. ASSUME NEW t \in Sessions, t # s
        PROVE  SessionInv(t)'
    BY <1>2, <1>3, <1>8, <2>1, <2>2, <2>3, SettledOthers
  <2>4. reply = [s |-> s, op |-> k.op, ok |-> reply.ok] /\ reply.ok \in BOOLEAN
    BY <1>5, <2>1 DEF Replies
  <2>5. CASE k.op = "start" /\ reply.ok
    <3>1. Started(v, s, TRUE)
      BY <1>4, <2>4, <2>5 DEF Started
    <3>2. Settle(k, TRUE)
      BY <2>2, <2>4, <2>5
    <3>3. SessionInv(s)'
      BY <1>2, <1>3, <1>8, <2>1, <2>5, <3>1, <3>2, StartAnswered
    <3>4. QED
      BY <1>3, <2>3, <3>3, ShrinksInv DEF Facts, FreshWorkers
  <2>6. CASE ~(k.op = "start" /\ reply.ok)
    <3>1. v = w /\ ~StartLine(w, s) /\ (archiveRuntimes[w] = "ready" => ~Playing(w, s))
      <4>1. CASE k.op = "start"
        <5>1. Started(v, s, FALSE)
          BY <1>4, <2>4, <2>6, <4>1 DEF Started
        <5>2. v = w
          BY <2>1, <5>1 DEF Owned, On
        <5>3. Start(s) \in Waiting
          BY <1>8, <2>1, <4>1
        <5>4. QED
          BY <2>1, <5>1, <5>2, <5>3 DEF Owned
      <4>2. CASE k.op # "start"
        <5>1. k.op = "stop"
          BY <4>2 DEF Keys, Cmds, Ops
        <5>2. Stopped(v, s)
          BY <1>4, <2>4, <5>1 DEF Stopped
        <5>3. v = w
          BY <2>1, <5>2 DEF Owned, On
        <5>4. QED
          BY <2>1, <4>2, <5>2, <5>3 DEF Owned
      <4>3. QED
        BY <4>1, <4>2
    <3>2. ASSUME NEW x \in Workers
          PROVE  ~Playing(x, s) /\ ~StartLine(x, s)
      <4>1. CASE x = w
        <5>1. archiveRuntimes[w] # "ready" => playbacks[w] = {}
          BY DEF Facts, FreshWorkers, WorkerInv
        <5>2. QED
          BY <3>1, <4>1, <5>1 DEF Playing
      <4>2. CASE x # w
        BY <2>1, <4>2 DEF Owned, On
      <4>3. QED
        BY <4>1, <4>2
    <3>3. SessionInv(s)'
      BY <1>2, <1>3, <1>8, <2>1, <2>2, <2>6, <3>2, SettledFreed
    <3>4. QED
      BY <1>3, <2>3, <3>3, ShrinksInv DEF Facts, FreshWorkers
  <2>7. QED
    BY <2>5, <2>6
<1>9. QED
  BY <1>7, <1>8

\* A start has timed out: its worker is told to stop what it may come to play.
LEMMA WorkersStartTimeout ==
    ASSUME Facts, NEW k \in Keys, StartAckTimeout(k)
    PROVE  FreshWorkers'
<1>1. TypeOK /\ Known /\ FreshNode
  BY DEF Facts, Known, CallsInv
<1>2. /\ k \in Waiting /\ k.op = "start" /\ continuations = <<>> /\ Settle(k, FALSE)
      /\ UNCHANGED <<archiveRuntimes, playbacks, lineBuffer, stderr>>
  BY DEF StartAckTimeout
<1>3. PICK s \in Sessions, w \in Workers :
          /\ s = k.s /\ w = pendingAcks[k].wk /\ k = Start(s)
          /\ assignments[s] = w /\ Owned(w, s) /\ pendingAcks[k].at # "removed"
  BY <1>2, WaiterWorker
<1>4. PICK c \in Cmds : c = Stop(s) /\ c.s = s
  <2>1. Stop(s) \in Cmds /\ Stop(s).s = s
    BY DEF Stop, Cmds, Ops
  <2>2. QED
    BY <2>1
<1>5. WriteLine(w, c)
  BY <1>3, <1>4 DEF StartAckTimeout, Stop
<1>6. ASSUME NEW v \in Workers
      PROVE  /\ Playing(v, s)' <=> Playing(v, s)
             /\ StartLine(v, s)' <=> StartLine(v, s)
             /\ StopLine(v, s)' <=>
                   StopLine(v, s) \/ (v = w /\ archiveRuntimes[w] = "ready")
  <2>1. c # Start(s)
    BY <1>4 DEF Start, Stop
  <2>2. QED
    BY <1>1, <1>2, <1>4, <1>5, <2>1, WrittenOwn
<1>7. ASSUME NEW v \in Workers, Playing(v, s)' \/ StartLine(v, s)'
      PROVE  StopLine(v, s)'
  <2>1. v = w
    BY <1>3, <1>6, <1>7 DEF Owned, On
  <2>2. archiveRuntimes[w] # "ready" => ~Playing(w, s) /\ ~StartLine(w, s)
    <3>1. archiveRuntimes[w] # "ready" => playbacks[w] = {} /\ Lines[w] = <<>>
      BY DEF Facts, FreshWorkers, WorkerInv
    <3>2. QED
      BY <3>1, HasEmpty DEF Playing, StartLine
  <2>3. QED
    BY <1>6, <1>7, <2>1, <2>2
<1>8. SessionInv(s)'
  BY <1>2, <1>3, <1>7, SettledFreed
<1>9. ASSUME NEW t \in Sessions, t # s
      PROVE  SessionInv(t)'
  <2>1. \A v \in Workers : Less(v, t) /\ Lives(v, t)
    BY <1>1, <1>2, <1>4, <1>5, <1>9, WrittenLess
  <2>2. NodeSame(t) /\ SessionInv(t)
    BY <1>1, <1>2, <1>3, <1>9, SettleSame DEF Facts, FreshWorkers
  <2>3. QED
    BY <2>1, <2>2, SessionKept
<1>10. ASSUME NEW v \in Workers
       PROVE  WorkerInv(v)'
  BY <1>2, <1>4, <1>5, WrittenInv
<1>11. QED
  BY <1>8, <1>9, <1>10 DEF FreshWorkers

\* A stop has timed out, or could not be written: its worker is done for.
LEMMA WorkersStopTimeout ==
    ASSUME Facts, NEW k \in Keys, StopAckTimeout(k) \/ WriteError(k)
    PROVE  FreshWorkers'
<1>1. TypeOK /\ Known /\ FreshNode
  BY DEF Facts, Known, CallsInv
<1>2. k \in Waiting /\ continuations = <<>> /\ Settle(k, FALSE)
  BY DEF StopAckTimeout, WriteError
<1>3. PICK s \in Sessions, w \in Workers :
          /\ s = k.s /\ w = pendingAcks[k].wk
          /\ assignments[s] = w /\ Owned(w, s) /\ pendingAcks[k].at # "removed"
          /\ pendingAcks[k].at = "lost" => archiveRuntimes[w] # "ready"
  BY <1>2, WaiterWorker
<1>4. /\ archiveRuntimes' = [archiveRuntimes EXCEPT ![w] = "doomed"]
      /\ \/ ProcessDies(w) /\ stderr' = stderr
         \/ UNCHANGED procVars /\ archiveRuntimes[w] # "ready"
  BY <1>3 DEF StopAckTimeout, WriteError
<1>5. Blank(w) /\ NoReply(w)
  <2>1. CASE ProcessDies(w) /\ stderr' = stderr
    BY <1>1, <2>1, DeadWorker
  <2>2. CASE UNCHANGED procVars /\ archiveRuntimes[w] # "ready"
    <3>1. playbacks[w] = {} /\ Lines[w] = <<>>
      BY <2>2 DEF Facts, FreshWorkers, WorkerInv
    <3>2. QED
      BY <2>2, <3>1, ProcessesLeft DEF Blank, Rests
  <2>3. QED
    BY <1>4, <2>1, <2>2
<1>6. ASSUME NEW v \in Workers
      PROVE  Shrinks(v) /\ Steady(v)
  <2>1. CASE v = w
    BY <1>1, <1>4, <1>5, <2>1 DEF Shrinks, Steady, TypeOK
  <2>2. CASE v # w
    <3>1. Rests(v) /\ NoReply(v)
      BY <1>1, <1>4, <2>2, DeadWorker, ProcessesLeft
    <3>2. archiveRuntimes'[v] = archiveRuntimes[v]
      BY <1>1, <1>4, <2>2 DEF TypeOK
    <3>3. QED
      BY <3>1, <3>2 DEF Shrinks, Steady
  <2>3. QED
    BY <2>1, <2>2
<1>7. ASSUME NEW v \in Workers
      PROVE  ~Playing(v, s)' /\ ~StartLine(v, s)'
  <2>1. CASE v = w
    <3>1. playbacks'[v] = {} /\ ~Has(Lines'[v], Start(s))
      BY <1>5, <2>1, HasEmpty DEF Blank
    <3>2. QED
      BY <3>1 DEF Playing, StartLine, Start
  <2>2. CASE v # w
    <3>1. ~On(v, s)
      BY <1>3, <2>2 DEF Owned
    <3>2. QED
      BY <1>6, <3>1, ShrinksLess DEF Less, On
  <2>3. QED
    BY <2>1, <2>2
<1>8. SessionInv(s)'
  BY <1>2, <1>3, <1>7, SettledFreed
<1>9. ASSUME NEW t \in Sessions, t # s
      PROVE  SessionInv(t)'
  BY <1>2, <1>3, <1>6, <1>9, SettledOthers
<1>10. QED
  BY <1>3, <1>6, <1>8, <1>9, ShrinksInv DEF Facts, FreshWorkers

\* A worker carries out the line at the head: what it plays, has to read and answers.
LEMMA CommandIs ==
    ASSUME TypeOK, NEW w \in Workers, WorkerCommand(w)
    PROVE  \E c \in Cmds, s \in Sessions, ok \in BOOLEAN :
              /\ c = Start(s) \/ c = Stop(s)
              /\ Lines[w] # <<>> /\ c = Head(Lines[w]) /\ Lines'[w] = Tail(Lines[w])
              /\ stderr'[w] = Append(stderr[w], [s |-> s, op |-> c.op, ok |-> ok])
              /\ c = Start(s) => /\ playbacks'[w] \in SUBSET (playbacks[w] \cup {s})
                                 /\ ok <=> s \in playbacks'[w]
              /\ c = Stop(s) => playbacks'[w] = playbacks[w] \ {s}
              /\ \A t \in Sessions : t # s => (t \in playbacks'[w] <=> t \in playbacks[w])
              /\ \A v \in Workers : v # w => Rests(v) /\ NoReply(v)
<1>1. /\ ReadLine(w) /\ UNCHANGED nodeVars
      /\ LET cmd == Head(InputLines(w))
         IN IF cmd.op = "start" THEN StartPlayback(w, cmd) ELSE StopPlayback(w, cmd)
  BY DEF WorkerCommand
<1>2. PICK c \in Cmds : c = Head(Lines[w]) /\ Lines[w] # <<>> /\ Lines'[w] = Tail(Lines[w])
  <2>1. Lines[w] # <<>> /\ Lines'[w] = Tail(Lines[w])
    BY <1>1, ReadIs
  <2>2. Lines[w] \in Seq(Cmds)
    BY ProcessTypes
  <2>3. Head(Lines[w]) \in Cmds
    BY <2>1, <2>2, TailIs
  <2>4. QED
    BY <2>1, <2>3
<1>3. c = Head(InputLines(w))
  BY <1>2 DEF Lines
<1>4. PICK s \in Sessions : s = c.s
  BY DEF Cmds
<1>5. IF c.op = "start" THEN StartPlayback(w, c) ELSE StopPlayback(w, c)
  BY <1>1, <1>3
<1>6. /\ c.op = "start" <=> c = Start(s)
      /\ c.op # "start" <=> c = Stop(s)
  BY <1>4 DEF Cmds, Ops, Start, Stop
<1>7. PICK Q \in SUBSET Sessions, ok \in BOOLEAN :
          /\ playbacks' = [playbacks EXCEPT ![w] = Q]
          /\ stderr' = [stderr EXCEPT ![w] = Append(@, [s |-> s, op |-> c.op, ok |-> ok])]
          /\ c = Start(s) => /\ Q \in {(playbacks[w] \ {s}) \cup {s}, playbacks[w] \ {s}}
                             /\ ok <=> s \in Q
          /\ c = Stop(s) => Q = playbacks[w] \ {s}
  <2>1. playbacks[w] \in SUBSET Sessions
    BY ProcessTypes
  <2>2. CASE c = Start(s)
    <3>1. StartPlayback(w, c) /\ c # Stop(s)
      BY <1>5, <1>6, <2>2
    <3>2. \/ /\ playbacks' = [playbacks EXCEPT ![w] = (playbacks[w] \ {s}) \cup {s}]
             /\ stderr' = [stderr EXCEPT ![w] = Append(@, [s |-> s, op |-> c.op, ok |-> TRUE])]
          \/ /\ playbacks' = [playbacks EXCEPT ![w] = playbacks[w] \ {s}]
             /\ stderr' = [stderr EXCEPT ![w] = Append(@, [s |-> s, op |-> c.op, ok |-> FALSE])]
      BY <1>4, <3>1 DEF StartPlayback, EmitPlaybackStatus
    <3>3. PICK A \in SUBSET Sessions, B \in SUBSET Sessions :
              A = (playbacks[w] \ {s}) \cup {s} /\ B = playbacks[w] \ {s}
      BY <2>1
    <3>4. s \in A /\ s \notin B
      BY <3>3
    <3>5. QED
      BY <2>2, <3>1, <3>2, <3>3, <3>4
  <2>3. CASE c = Stop(s)
    <3>1. StopPlayback(w, c) /\ c # Start(s)
      BY <1>5, <1>6, <2>3
    <3>2. /\ playbacks' = [playbacks EXCEPT ![w] = playbacks[w] \ {s}]
          /\ stderr' = [stderr EXCEPT ![w] = Append(@, [s |-> s, op |-> c.op, ok |-> TRUE])]
      BY <1>4, <3>1 DEF StopPlayback, EmitPlaybackStatus
    <3>3. PICK B \in SUBSET Sessions : B = playbacks[w] \ {s}
      BY <2>1
    <3>4. QED
      BY <3>1, <3>2, <3>3
  <2>4. QED
    BY <1>6, <2>2, <2>3
<1>8. /\ playbacks'[w] = Q
      /\ stderr'[w] = Append(stderr[w], [s |-> s, op |-> c.op, ok |-> ok])
  BY <1>7 DEF TypeOK
<1>9. ASSUME NEW v \in Workers, v # w
      PROVE  Rests(v) /\ NoReply(v)
  <2>1. Lines'[v] = Lines[v]
    BY <1>1, <1>9, ReadIs
  <2>2. playbacks'[v] = playbacks[v] /\ stderr'[v] = stderr[v]
    BY <1>7, <1>9 DEF TypeOK
  <2>3. QED
    BY <2>1, <2>2 DEF Rests, NoReply
<1>10. /\ c = Start(s) => /\ Q \in SUBSET (playbacks[w] \cup {s})
                          /\ ok <=> s \in Q
       /\ c = Stop(s) => Q = playbacks[w] \ {s}
       /\ \A t \in Sessions : t # s => (t \in Q <=> t \in playbacks[w])
       /\ c = Start(s) \/ c = Stop(s)
  BY <1>6, <1>7
<1>11. QED
  BY <1>2, <1>8, <1>9, <1>10

\* A command of another session.
LEMMA CommandOthers ==
    ASSUME Facts, NEW w \in Workers, NEW c, NEW s, NEW ok, c = Start(s) \/ c = Stop(s),
           Lines[w] # <<>>, c = Head(Lines[w]), Lines'[w] = Tail(Lines[w]),
           NEW r \in Replies, r.s = s, stderr'[w] = Append(stderr[w], r),
           \A t \in Sessions : t # s => (t \in playbacks'[w] <=> t \in playbacks[w]),
           archiveRuntimes' = archiveRuntimes,
           NEW t \in Sessions, t # s
    PROVE  Less(w, t) /\ Lives(w, t)
<1>1. TypeOK
  BY DEF Facts, Known, CallsInv
<1>2. Lines[w] \in Seq(Cmds) /\ stderr[w] \in Seq(Replies)
  BY <1>1, ProcessTypes
<1>3. c # Start(t) /\ c # Stop(t)
  BY DEF Start, Stop
<1>4. /\ Has(Lines'[w], Start(t)) <=> Has(Lines[w], Start(t))
      /\ Has(Lines'[w], Stop(t)) <=> Has(Lines[w], Stop(t))
  BY <1>2, <1>3, HasTail
<1>5. \A d : Has(stderr'[w], d) <=> Has(stderr[w], d) \/ d = r
  BY <1>2, HasAppend
<1>6. \A op, b : Has(stderr'[w], [s |-> t, op |-> op, ok |-> b])
                     <=> Has(stderr[w], [s |-> t, op |-> op, ok |-> b])
  BY <1>5
<1>7. /\ StartLine(w, t)' <=> StartLine(w, t)
      /\ StopLine(w, t)' <=> StopLine(w, t)
  BY <1>4 DEF StartLine, StopLine, Start, Stop
<1>8. /\ Stopped(w, t)' <=> Stopped(w, t)
      /\ \A b \in BOOLEAN : Started(w, t, b)' <=> Started(w, t, b)
      /\ Playing(w, t)' <=> Playing(w, t)
  BY <1>6 DEF Stopped, Started, Playing
<1>9. QED
  BY <1>7, <1>8 DEF Less, Lives

\* The command's own session, if it has a slot: here, and the command still waits.
LEMMA CommandOwner ==
    ASSUME Facts, NEW w \in Workers, NEW s \in Sessions, NEW v \in Workers,
           assignments[s] = v, StartLine(w, s) \/ StopLine(w, s)
    PROVE  /\ v = w /\ Owned(w, s) /\ calls[s] = 1
           /\ StartLine(w, s) => Start(s) \in Waiting
           /\ StopLine(w, s) => Stop(s) \in Waiting
           /\ Start(s) \in Waiting => Stop(s) \notin Waiting
<1>1. CallsInv /\ OneCallEach
  BY DEF Facts, Known, FreshNode
<1>2. Owned(v, s)
  BY DEF Facts, FreshWorkers, SessionInv
<1>3. v = w
  BY <1>2 DEF Owned, On
<1>4. /\ StartLine(w, s) => Start(s) \in Waiting
      /\ StopLine(w, s) => Stop(s) \in Waiting
  BY <1>2, <1>3 DEF Owned
<1>5. Start(s).s = s /\ Stop(s).s = s /\ Start(s) # Stop(s)
  BY DEF Start, Stop
<1>6. ASSUME NEW k \in Waiting, k.s = s
      PROVE  calls[s] = 1 /\ \A l \in Waiting : l.s = s => l = k
  BY <1>1, <1>6, WaiterAlone
<1>7. calls[s] = 1 /\ (Start(s) \in Waiting => Stop(s) \notin Waiting)
  BY <1>4, <1>5, <1>6
<1>8. QED
  BY <1>2, <1>3, <1>4, <1>7

LEMMA WorkersCommand ==
    ASSUME Facts, NEW w \in Workers, WorkerCommand(w)
    PROVE  FreshWorkers'
<1>1. TypeOK /\ CallsInv /\ OneCallEach
  BY DEF Facts, Known, CallsInv, FreshNode
<1>2. PICK c \in Cmds, s \in Sessions, ok \in BOOLEAN :
          /\ c = Start(s) \/ c = Stop(s)
          /\ Lines[w] # <<>> /\ c = Head(Lines[w]) /\ Lines'[w] = Tail(Lines[w])
          /\ stderr'[w] = Append(stderr[w], [s |-> s, op |-> c.op, ok |-> ok])
          /\ c = Start(s) => /\ playbacks'[w] \in SUBSET (playbacks[w] \cup {s})
                             /\ ok <=> s \in playbacks'[w]
          /\ c = Stop(s) => playbacks'[w] = playbacks[w] \ {s}
          /\ \A t \in Sessions : t # s => (t \in playbacks'[w] <=> t \in playbacks[w])
          /\ \A v \in Workers : v # w => Rests(v) /\ NoReply(v)
  BY <1>1, CommandIs
<1>3. /\ archiveRuntimes[w] = "ready" /\ UNCHANGED nodeVars
      /\ UNCHANGED <<archiveRuntimes, assignments, pendingAcks, continuations, calls, held>>
  BY DEF WorkerCommand, nodeVars
<1>4. PICK r \in Replies : /\ r = [s |-> s, op |-> c.op, ok |-> ok] /\ r.s = s
                           /\ stderr'[w] = Append(stderr[w], r)
  <2>1. [s |-> s, op |-> c.op, ok |-> ok] \in Replies /\ [s |-> s, op |-> c.op, ok |-> ok].s = s
    BY DEF Replies, Cmds
  <2>2. QED
    BY <1>2, <2>1
<1>5. Lines[w] \in Seq(Cmds) /\ stderr[w] \in Seq(Replies) /\ playbacks[w] \in SUBSET Sessions
  BY <1>1, ProcessTypes
<1>6. ASSUME NEW v \in Workers, v # w
      PROVE  Shrinks(v) /\ Steady(v) /\ \A t : Less(v, t) /\ Lives(v, t)
  <2>1. Shrinks(v) /\ Steady(v)
    BY <1>2, <1>3, <1>6 DEF Shrinks, Steady
  <2>2. QED
    BY <2>1, ShrinksLess DEF Steady
<1>7. ASSUME NEW t \in Sessions
      PROVE  NodeSame(t) /\ Waiting' = Waiting
  BY <1>3, NodeQuiet
<1>8. ASSUME NEW t \in Sessions, t # s
      PROVE  SessionInv(t)'
  <2>1. Less(w, t) /\ Lives(w, t)
    BY <1>2, <1>3, <1>4, <1>8, CommandOthers
  <2>2. \A v \in Workers : Less(v, t) /\ Lives(v, t)
    BY <1>6, <2>1
  <2>3. QED
    BY <1>7, <2>2, SessionKept DEF Facts, FreshWorkers
<1>9. InOrder(Lines[w]) /\ Roomy(Lines[w], playbacks[w])
  BY DEF Facts, FreshWorkers, WorkerInv
<1>10. WorkerInv(w)'
  <2>1. PICK L \in Seq(Cmds), P \in SUBSET Sessions, Q \in {playbacks'[w]} :
            L = Lines[w] /\ P = playbacks[w] /\ Q = playbacks'[w]
    BY <1>5
  <2>2. InOrder(Tail(L)) /\ Roomy(Tail(L), Q)
    <3>1. /\ L # <<>> /\ InOrder(L) /\ Roomy(L, P)
          /\ \/ Head(L) = Start(s) /\ Q \in SUBSET (P \cup {s})
             \/ Head(L) = Stop(s) /\ Q \in SUBSET (P \ {s})
      BY <1>2, <1>9, <2>1
    <3>2. QED
      BY <3>1, OrderTail, RoomyTail
  <2>3. InOrder(Lines'[w]) /\ Roomy(Lines'[w], playbacks'[w]) /\ archiveRuntimes'[w] = "ready"
    BY <1>2, <1>3, <2>1, <2>2
  <2>4. QED
    BY <2>3 DEF WorkerInv, InOrder, Roomy, Expected, Start, Stop
<1>11. /\ StartLine(w, s) <=> Has(Tail(Lines[w]), Start(s)) \/ c = Start(s)
       /\ StopLine(w, s) <=> Has(Tail(Lines[w]), Stop(s)) \/ c = Stop(s)
       /\ StartLine(w, s)' <=> Has(Tail(Lines[w]), Start(s))
       /\ StopLine(w, s)' <=> Has(Tail(Lines[w]), Stop(s))
       /\ ~Has(Tail(Lines[w]), Start(s))
  <2>1. \A d : Has(Lines[w], d) <=> Has(Tail(Lines[w]), d) \/ d = c
    BY <1>2, <1>5, HasTail
  <2>2. ~Has(Tail(Lines[w]), Start(s))
    BY <1>2, <1>5, <1>9, OrderAtHead
  <2>3. /\ StartLine(w, s)' <=> Has(Lines'[w], Start(s))
        /\ StopLine(w, s)' <=> Has(Lines'[w], Stop(s))
    BY DEF StartLine, StopLine, Start, Stop
  <2>4. QED
    BY <1>2, <2>1, <2>2, <2>3 DEF StartLine, StopLine
<1>12. /\ Stopped(w, s)' <=> Stopped(w, s) \/ c = Stop(s)
       /\ \A b \in BOOLEAN : Started(w, s, b)' <=> Started(w, s, b) \/ (c = Start(s) /\ b = ok)
  <2>1. \A d : Has(stderr'[w], d) <=> Has(stderr[w], d) \/ d = r
    BY <1>4, <1>5, HasAppend
  <2>2. /\ c = Start(s) => c.op = "start"
        /\ c = Stop(s) => c.op = "stop"
    BY DEF Start, Stop
  <2>3. \A b : [s |-> s, op |-> "start", ok |-> b] = r <=> c = Start(s) /\ b = ok
    BY <1>2, <1>4, <2>2
  <2>4. \A b : [s |-> s, op |-> "stop", ok |-> b] = r <=> c = Stop(s) /\ b = ok
    BY <1>2, <1>4, <2>2
  <2>5. /\ Stopped(w, s)' <=> \E b \in BOOLEAN : Has(stderr'[w], [s |-> s, op |-> "stop", ok |-> b])
        /\ \A b \in BOOLEAN : Started(w, s, b)' <=> Has(stderr'[w], [s |-> s, op |-> "start", ok |-> b])
    BY DEF Stopped, Started
  <2>6. QED
    BY <2>1, <2>3, <2>4, <2>5 DEF Stopped, Started
<1>13. On(w, s) /\ SessionInv(s) /\ ~Unwritten(s)'
  <2>1. On(w, s) /\ SessionInv(s)
    BY <1>2, <1>11 DEF On, Facts, FreshWorkers
  <2>2. QED
    BY <1>7, <2>1 DEF SessionInv, NodeSame
<1>14. Start(s) # Stop(s)
  BY DEF Start, Stop
<1>15. ASSUME NEW v \in Workers, Playing(v, s)' \/ StartLine(v, s)'
       PROVE  assignments'[s] = v \/ StopLine(v, s)'
  <2>1. CASE v = w
    <3>1. c = Start(s) /\ StartLine(w, s)
      BY <1>2, <1>11, <1>15, <2>1 DEF Playing
    <3>2. QED
      BY <1>3, <1>11, <1>13, <1>14, <2>1, <3>1 DEF SessionInv
  <2>2. CASE v # w
    <3>1. /\ Playing(v, s)' <=> Playing(v, s)
          /\ StartLine(v, s)' <=> StartLine(v, s)
          /\ StopLine(v, s)' <=> StopLine(v, s)
      BY <1>2, <2>2 DEF Rests, Playing, StartLine, StopLine, Start, Stop
    <3>2. QED
      BY <1>3, <1>13, <1>15, <3>1 DEF SessionInv
  <2>3. QED
    BY <2>1, <2>2
<1>16. ASSUME NEW v \in Workers, assignments'[s] = v
       PROVE  Owned(v, s)'
  <2>1. /\ v = w /\ Owned(w, s) /\ calls[s] = 1
        /\ StartLine(w, s) => Start(s) \in Waiting
        /\ StopLine(w, s) => Stop(s) \in Waiting
        /\ Start(s) \in Waiting => Stop(s) \notin Waiting
    BY <1>2, <1>3, <1>11, <1>16, CommandOwner
  <2>2. \A x \in Workers : On(x, s)' => x = w
    <3>1. ASSUME NEW x \in Workers, x # w
          PROVE  ~On(x, s)'
      <4>1. ~On(x, s)
        BY <2>1, <3>1 DEF Owned
      <4>2. QED
        BY <1>6, <3>1, <4>1, LessOn
    <3>2. QED
      BY <3>1
  <2>3. Waiting' = Waiting /\ calls'[s] = 1 /\ ~StartLine(w, s)'
    BY <1>3, <1>7, <1>11, <2>1
  <2>4. CASE c = Start(s)
    <3>1. StartLine(w, s) /\ Start(s) \in Waiting /\ Stop(s) \notin Waiting
      BY <1>11, <2>1, <2>4
    <3>2. ~StopLine(w, s) /\ ~Stopped(w, s) /\ \A b \in BOOLEAN : ~Started(w, s, b)
      BY <2>1, <3>1 DEF Owned
    <3>3. ~StopLine(w, s)' /\ ~Stopped(w, s)'
      BY <1>11, <1>12, <1>14, <2>4, <3>2
    <3>4. \A b \in BOOLEAN : Started(w, s, b)' => (b <=> Playing(w, s)')
      BY <1>2, <1>12, <2>4, <3>2 DEF Playing
    <3>5. QED
      BY <2>1, <2>2, <2>3, <3>1, <3>3, <3>4 DEF Owned, Start, Stop
  <2>5. CASE c = Stop(s)
    <3>1. Stop(s) \in Waiting /\ Start(s) \notin Waiting
      BY <1>11, <2>1, <2>5
    <3>2. ~Playing(w, s)'
      BY <1>2, <2>5 DEF Playing
    <3>3. QED
      BY <2>1, <2>2, <2>3, <3>1, <3>2 DEF Owned, Start, Stop
  <2>6. QED
    BY <1>2, <2>4, <2>5
<1>17. SessionInv(s)'
  BY <1>3, <1>13, <1>15, <1>16 DEF SessionInv
<1>18. ASSUME NEW v \in Workers, v # w
       PROVE  WorkerInv(v)'
  BY <1>6, <1>18, ShrinksInv DEF Facts, FreshWorkers
<1>19. QED
  BY <1>8, <1>10, <1>17, <1>18 DEF FreshWorkers

LEMMA FreshWorkersPreserved ==
    ASSUME CallsInv, TimersFindNoWorker, Capacity, FreshNode, FreshWorkers, Fresh, [Next]_vars
    PROVE  FreshWorkers'
<1>1. Facts
  BY TypePreserved DEF Facts, Known, CallsInv
<1>2. CASE RegisterNativeDeviceRuntime \/ UnregisterNativeDeviceRuntime
  BY <1>1, <1>2, WorkersClear DEF RegisterNativeDeviceRuntime, UnregisterNativeDeviceRuntime
<1>3. ASSUME NEW w \in Workers,
             \/ InitialStart(w) \/ Restart(w) \/ StartFails(w)
             \/ WorkerCrashes(w) \/ ArchiveWorkerExit(w)
             \/ HandleStatusLine(w) \/ WorkerCommand(w)
      PROVE  FreshWorkers'
  BY <1>1, <1>3, WorkersStart, WorkersCrash, WorkersExit, WorkersStatusLine, WorkersCommand
<1>4. ASSUME NEW s \in Sessions, StartGroupedPlayback(s) \/ StopGroupedPlayback(s)
      PROVE  FreshWorkers'
  BY <1>1, <1>4, WorkersStartCall, WorkersStopCall
<1>5. CASE (\E s \in Sessions : StopUnassigned(s)) \/ UNCHANGED vars
  BY <1>1, <1>5, WorkersIdle
<1>6. CASE WriteCommandWithAck
  BY <1>1, <1>6, WorkersWrite
<1>7. CASE CommandRejected
  BY <1>1, <1>7, WorkersReject
<1>8. ASSUME NEW k \in Keys, StartAckTimeout(k) \/ StopAckTimeout(k) \/ WriteError(k)
      PROVE  FreshWorkers'
  BY <1>1, <1>8, WorkersStartTimeout, WorkersStopTimeout
<1>9. QED
  BY <1>2, <1>3, <1>4, <1>5, <1>6, <1>7, <1>8 DEF Next

LEMMA FreshWorkersInit == Init => FreshWorkers
<1> SUFFICES ASSUME Init
             PROVE  FreshWorkers
  OBVIOUS
<1>1. ASSUME NEW w \in Workers
      PROVE  Lines[w] = <<>> /\ stderr[w] = <<>> /\ playbacks[w] = {}
  <2>1. Lines[w] = <<>> \o <<>> /\ stderr[w] = <<>> /\ playbacks[w] = {}
    BY DEF Init, Lines, InputLines
  <2>2. <<>> \o <<>> = <<>>
    BY EmptySeq, ConcatEmptySeq
  <2>3. QED
    BY <2>1, <2>2
<1>2. ASSUME NEW s \in Sessions
      PROVE  SessionInv(s)
  <2>1. \A w \in Workers : ~On(w, s)
    BY <1>1, HasEmpty DEF On, Playing, StartLine, StopLine, Stopped, Started
  <2>2. assignments[s] = NoWorker /\ s \notin held
    BY DEF Init
  <2>3. QED
    BY <2>1, <2>2, NoWorkerIsNone DEF SessionInv, On
<1>3. ASSUME NEW w \in Workers
      PROVE  WorkerInv(w)
  <2>1. InOrder(Lines[w]) /\ Roomy(Lines[w], playbacks[w])
    BY <1>1, NoLines
  <2>2. QED
    BY <1>1, <2>1 DEF WorkerInv
<1>4. QED
  BY <1>2, <1>3 DEF FreshWorkers

LEMMA FreshWorkersInvariant ==
    ASSUME Fresh
    PROVE  Spec => []FreshWorkers
<1>1. /\ CallsInv /\ TimersFindNoWorker /\ Capacity /\ FreshNode /\ FreshWorkers /\ [Next]_vars
             => FreshWorkers'
  BY FreshWorkersPreserved
<1>2. Spec => []FreshNode
  BY FreshNodeInvariant
<1>3. QED
  BY <1>1, <1>2, FreshWorkersInit, CallsInvariant, TimersFindNothing, CapacityKept, PTL DEF Spec

LEMMA FreshTypes ==
    ASSUME Fresh
    PROVE  Spec => [](TypeOK /\ FreshWorkers)
<1>1. CallsInv => TypeOK
  BY DEF CallsInv
<1>2. QED
  BY <1>1, CallsInvariant, FreshWorkersInvariant, PTL

\* For callers with fresh ids and one registration at a time, every playback a worker process
\* has open holds a slot of that worker, or its STOP_PLAYBACK is among the lines the worker
\* has yet to read: deviceRuntime.ts writes one for each late start. (Whether the
\* worker reads on is the question of LateStartCleanedUp.)
THEOREM PlaybacksStoppable ==
    ASSUME Reusable = {}, ~AllowReplace
    PROVE  Spec => []NoLeakedPlayback
<1>1. ASSUME TypeOK, FreshWorkers
      PROVE  NoLeakedPlayback
  <2> SUFFICES ASSUME NEW w \in Workers, NEW s \in playbacks[w]
               PROVE  \/ assignments[s] = w
                      \/ \E i \in DOMAIN InputLines(w) :
                             InputLines(w)[i] = [s |-> s, op |-> "stop"]
    BY DEF NoLeakedPlayback
  <2>1. s \in Sessions
    BY <1>1, ProcessTypes
  <2>2. assignments[s] = w \/ StopLine(w, s)
    BY <1>1, <2>1 DEF FreshWorkers, SessionInv, Playing
  <2>3. QED
    BY <2>2 DEF StopLine, Stop, Has, Lines
<1>2. QED
  BY <1>1, FreshTypes, PTL DEF Fresh

\* For such callers, one that was told its playback started has it open on the worker it is
\* assigned to while that worker lives: no late line, ack or timeout of deviceRuntime.ts
\* makes the worker close what startGroupedPlayback answered for.
THEOREM HeldPlays ==
    ASSUME Reusable = {}, ~AllowReplace
    PROVE  Spec => []HeldIsPlaying
<1>1. ASSUME TypeOK, FreshWorkers
      PROVE  HeldIsPlaying
  <2> SUFFICES ASSUME NEW s \in held, assignments[s] # NoWorker,
                      archiveRuntimes[assignments[s]] = "ready"
               PROVE  s \in playbacks[assignments[s]]
    BY DEF HeldIsPlaying
  <2>1. s \in Sessions /\ assignments[s] \in Workers
    BY <1>1 DEF TypeOK
  <2>2. SessionInv(s)
    BY <1>1, <2>1 DEF FreshWorkers
  <2>3. calls[s] = 0 /\ Owned(assignments[s], s)
    BY <2>1, <2>2 DEF SessionInv
  <2>4. QED
    BY <2>3 DEF Owned, Playing
<1>2. QED
  BY <1>1, FreshTypes, PTL DEF Fresh

\* For such callers, a worker process that reads a PLAYBACK line has room for it: the slots
\* the pool of deviceRuntime.ts counts are never fewer than the playbacks the process counts
\* before it refuses one at stage=capacity.
THEOREM StartsHaveRoom ==
    ASSUME Reusable = {}, ~AllowReplace
    PROVE  Spec => []RoomForStart
<1>1. ASSUME TypeOK, FreshWorkers
      PROVE  RoomForStart
  <2> SUFFICES ASSUME NEW w \in Workers, InputLines(w) # <<>>,
                      Head(InputLines(w)).op = "start"
               PROVE  Cardinality(playbacks[w] \ {Head(InputLines(w)).s}) < MaxPerWorker
    BY DEF RoomForStart
  <2>1. Lines[w] = InputLines(w)
    BY DEF Lines
  <2>2. Lines[w] \in Seq(Cmds) /\ playbacks[w] \in SUBSET Sessions
    BY <1>1, ProcessTypes
  <2>3. Roomy(Lines[w], playbacks[w])
    BY <1>1 DEF FreshWorkers, WorkerInv
  <2>4. QED
    BY <2>1, <2>2, <2>3, HeadRoom
<1>2. QED
  BY <1>1, FreshTypes, PTL DEF Fresh
=============================================================================
