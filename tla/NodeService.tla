---------------------------- MODULE NodeService ----------------------------
(***************************************************************************)
(* The devices of a node: HikvisionNodeService (src/service.ts) with its   *)
(* encrypted file (src/state/encryptedStore.ts), the routes of             *)
(* src/http/controlRoutes.ts that change it, its timer, and the agent of   *)
(* src/master/nodeClient.ts.                                               *)
(*                                                                         *)
(* An async method is cut at its awaits: the file operations of a save,    *)
(* reconcile() of the recorder manager, the helpers that ask a DVR for its *)
(* channels, the master's answers.                                         *)
(***************************************************************************)
EXTENDS Naturals, Sequences, FiniteSets, SequencesExt

CONSTANTS
    Devices,        \* ids of devices
    Configs,        \* what master and control API may say of a device
    Enabled,        \* those of them with `enabled'
    Rank,           \* the order of the devices' names
    Requests,       \* requests of the control API at a time
    Ticks,          \* passes of the timer at a time
    MaxEvents,      \* bound: requests, changes at the master, restarts, rejections
    Nil

\* `channels': the configuration they were discovered under.  `error': last_sync_error.
Snapshots == [config : Configs, channels : Configs \cup {Nil}, error : BOOLEAN]
New(config) == [config |-> config, channels |-> Nil, error |-> FALSE]

\* Who calls beside requests and ticks, what a call is, and what it does next.
Names == {"agent", "file", "start", "syncAll", "config", "command",
          "sync", "record", "try", "throw"}

\* What the constants may be; MCLiveness assumes it of its instance.
ServiceAssumption ==
    /\ Enabled \subseteq Configs
    /\ IsFiniteSet(Devices)
    /\ Rank \in [Devices -> Nat]
    /\ \A d, e \in Devices : Rank[d] = Rank[e] => d = e
    /\ MaxEvents \in Nat
    /\ Nil \notin Devices \cup Configs \cup Requests \cup Ticks \cup Names \cup Snapshots
    /\ Names \cap (Requests \cup Ticks) = {}

VARIABLES
    snapshots,      \* state.devices: the snapshot of each device, or Nil
    order,          \* the order of the array state.devices
    file,           \* what the file holds
    calls,          \* the calls of service methods under way
    newest,         \* who is writing the newest save; "file" when it is in the file, Nil
                    \* when it was rejected or an older one overwrote it
    helpers,        \* the queue of discoveries in nativeSdk/client.ts
    recorders,      \* what the recorder manager was last told to record
    rejected,       \* was a save or reconcile() rejected since the start
    assigned,       \* the master's devices
    events

vars == <<snapshots, order, file, calls, newest, helpers, recorders, rejected,
          assigned, events>>

\* The agent is not started before initialize() is through, which is its call until then.
Callers == Requests \cup Ticks \cup {"agent"}

\* `dev', `under': the device a call synchronises, Nil once its snapshot object left
\* the state, and the configuration it asks with.
\* `list', `pos': the array a loop runs over and where; <<>> is state.devices itself.
\* Its entries have the configuration their objects had when they left the state.
\* `then': what the call does once its save, and then its reconcile(), has settled.
Idle == [op |-> Nil, at |-> "idle", then |-> Nil, dev |-> Nil, under |-> Nil,
         list |-> <<>>, pos |-> 0, changed |-> {},
         wanted |-> [d \in Devices |-> Nil], content |-> [d \in Devices |-> Nil]]

Reporting == [Idle EXCEPT !.op = "config", !.at = "reporting"]

Known(snap) == {d \in Devices : snap[d] # Nil}
IsEnabled(snapshot) == snapshot.config \in Enabled

\* devices.sort() in persist().
Sorted(S) ==
    CHOOSE s \in SetToSeqs(S) : \A i, j \in DOMAIN s : i < j => Rank[s[i]] < Rank[s[j]]

\* What reconcile() of the recorder manager makes of the devices: `wanted'.
Recorded(snap) ==
    [d \in Devices |->
       IF snap[d] # Nil /\ snap[d].config \in Enabled /\ snap[d].channels # Nil
       THEN [config |-> snap[d].config, channels |-> snap[d].channels] ELSE Nil]

Starting == calls["agent"].op = "start"

-----------------------------------------------------------------------------
(* How a stretch of code between two awaits ends.                          *)

Entries(arr) == [i \in DOMAIN arr |-> [dev |-> arr[i], config |-> Nil]]

\* The objects of the devices `gone' leave the state; loops keep theirs.
Left(list, gone) ==
    [i \in DOMAIN list |->
       IF list[i].config = Nil /\ list[i].dev \in gone
       THEN [list[i] EXCEPT !.config = snapshots[list[i].dev].config] ELSE list[i]]

\* The call c of p goes on with the snapshots snap in an array, which is arr unless a save
\* sorts what there is now.  It is a new one if objects left the state; loops under way run
\* on over the old one.
Settle(p, c, snap, arr, gone) ==
    /\ snapshots' = snap
    /\ order' = IF c.at = "saving" THEN Sorted(Known(snap)) ELSE arr
    /\ calls' = [q \in Callers |->
         IF q = p THEN [c EXCEPT !.content = IF c.at = "saving" THEN snap ELSE Idle.content]
         ELSE [calls[q] EXCEPT
                 !.dev = IF @ \in gone /\ calls[q].then # "sync" THEN Nil ELSE @,
                 !.list = IF gone = {} \/ calls[q].pos = 0 THEN @
                          ELSE Left(IF @ = <<>> THEN Entries(order) ELSE @, gone)]]
    /\ newest' = IF c.at = "saving" THEN p
                 ELSE IF newest = p THEN Nil ELSE newest
    /\ helpers' = LET rest == SelectSeq(helpers, LAMBDA q : q # p) IN
                  IF c.at = "discovering" THEN Append(rest, p) ELSE rest
    /\ recorders' = IF c.at = "recording" THEN Recorded(snap) ELSE recorders

Goes(p, c) == Settle(p, c, snapshots, order, {})

Saving(c, then) ==
    [c EXCEPT !.at = "saving", !.then = then, !.under = Nil,
              !.dev = IF then \in {"sync", "try"} THEN @ ELSE Nil]
Recording(c) == [c EXCEPT !.at = "recording"]
Discovering(c, d, snap) ==
    [c EXCEPT !.at = "discovering", !.then = Nil, !.dev = d, !.under = snap[d].config]

\* syncDevice() up to its first await.
SyncBegins(p, c, d) ==
    IF IsEnabled(snapshots[d])
    THEN Goes(p, Discovering(c, d, snapshots))
    ELSE Settle(p, Saving(c, "record"), [snapshots EXCEPT ![d].error = TRUE], order, {})

\* The next round of a loop, or its end.  Devices that are disabled, gone or not in
\* changedIds take no await.
Round(p, c) ==
    LET devs  == IF c.list = <<>> THEN Entries(order) ELSE c.list
        On(e) == IF e.config = Nil THEN IsEnabled(snapshots[e.dev]) ELSE e.config \in Enabled
        due   == {i \in DOMAIN devs : /\ i > c.pos
                                      /\ On(devs[i]) /\ snapshots[devs[i].dev] # Nil
                                      /\ c.op = "config" => devs[i].dev \in c.changed}
    IN  IF due # {} THEN SyncBegins(p, [c EXCEPT !.pos = Min(due)], devs[Min(due)].dev)
        ELSE Goes(p, IF c.op \in {"config", "command"} THEN Reporting ELSE Idle)

\* A syncDevice() or a whole call has returned or thrown: a loop goes on.
Returns(p, c) ==
    IF c.pos > 0 THEN Round(p, c)
    ELSE Goes(p, IF c.op = "command" THEN Reporting ELSE Idle)

\* snapshot.last_sync_error is set, on an object of the state or on another.
Failed(c, snap) == IF c.dev # Nil THEN [snap EXCEPT ![c.dev].error = TRUE] ELSE snap

-----------------------------------------------------------------------------
(* The calls.                                                              *)

Event == events < MaxEvents /\ events' = events + 1

upsertDevice(p, d, config) ==
    /\ calls[p].at = "idle" /\ ~Starting
    /\ Settle(p, Saving([Idle EXCEPT !.dev = d], "sync"),
              [snapshots EXCEPT ![d] = IF @ = Nil THEN New(config)
                                       ELSE [@ EXCEPT !.config = config]], order, {})
    /\ Event
    /\ UNCHANGED <<file, rejected, assigned>>

\* Mutant: without the last reconcileRecorders().
RemoveKeepsRecorders(p, d) ==
    /\ calls[p].at = "idle" /\ ~Starting
    /\ Settle(p, IF snapshots[d] = Nil THEN Idle ELSE Saving(Idle, "throw"),
              [snapshots EXCEPT ![d] = Nil], order, {d})
    /\ Event
    /\ UNCHANGED <<file, rejected, assigned>>

\* A device the node does not have changes nothing, but the array is a new one all the same.
removeDevice(p, d) ==
    /\ calls[p].at = "idle" /\ ~Starting
    /\ Settle(p, IF snapshots[d] = Nil THEN Idle ELSE Saving(Idle, "record"),
              [snapshots EXCEPT ![d] = Nil], order, {d})
    /\ Event
    /\ UNCHANGED <<file, rejected, assigned>>

syncDevice(p, d) ==
    /\ calls[p].at = "idle" /\ ~Starting
    /\ snapshots[d] # Nil
    /\ SyncBegins(p, Idle, d)
    /\ Event
    /\ UNCHANGED <<file, rejected, assigned>>

\* A tick of the timer, whose passes may overlap; a pass that finds nothing to do is none.
syncAll(p) ==
    /\ calls[p].at = "idle" /\ ~Starting
    /\ \E d \in Known(snapshots) : IsEnabled(snapshots[d])
    /\ Round(p, [Idle EXCEPT !.op = "syncAll"])
    /\ UNCHANGED <<file, rejected, assigned, events>>

-----------------------------------------------------------------------------
(* What calls wait for.                                                    *)

\* Helpers run one after the other, and so do the two of each discovery.
DiscoveryEnds(p, found) ==
    /\ calls[p].at = "discovering"
    /\ helpers # <<>> /\ Head(helpers) = p
    /\ LET c == calls[p] IN
         IF found
         THEN Settle(p, Saving(c, "try"),
                     IF c.dev # Nil
                     THEN [snapshots EXCEPT ![c.dev].channels = c.under, ![c.dev].error = FALSE]
                     ELSE snapshots, order, {})
         ELSE Settle(p, Saving(c, "throw"), Failed(c, snapshots), order, {})
    /\ UNCHANGED <<file, rejected, assigned, events>>

\* The temporary file of save() is written and takes the file's name.  Saves that
\* overlap may do so in any order.
SaveRenames(p) ==
    /\ calls[p].at = "saving"
    /\ file' = calls[p].content
    /\ calls' = [calls EXCEPT ![p].at = "saved", ![p].content = Idle.content]
    /\ newest' = IF newest = p THEN "file" ELSE IF newest = "file" THEN Nil ELSE newest
    /\ UNCHANGED <<snapshots, order, helpers, recorders, rejected, assigned, events>>

SaveReturns(p) ==
    /\ calls[p].at = "saved"
    /\ LET c == calls[p] IN
         \/ c.then = "sync" /\ snapshots[c.dev] # Nil /\ SyncBegins(p, c, c.dev)
         \/ c.then = "sync" /\ snapshots[c.dev] = Nil /\ Goes(p, Idle)
         \/ c.then \in {"record", "try"} /\ Goes(p, Recording(c))
         \/ c.then = "throw" /\ Returns(p, c)
    /\ UNCHANGED <<file, rejected, assigned, events>>

\* reconcile() returns: a poll begins its loop, a synchronisation is over.
ReconcileReturns(p) ==
    /\ calls[p].at = "recording"
    /\ IF calls[p].op = "config" THEN Round(p, calls[p]) ELSE Returns(p, calls[p])
    /\ UNCHANGED <<file, rejected, assigned, events>>

\* A save (its chmod included) or reconcile() is rejected.  syncDevice() catches it
\* where it has found something, notes it and saves again.
Rejected(p) ==
    /\ calls[p].at \in {"saving", "saved", "recording"}
    /\ rejected' = TRUE
    /\ LET c == calls[p] IN
         IF c.then = "try"
         THEN Settle(p, Saving(c, "throw"), Failed(c, snapshots), order, {})
         ELSE Returns(p, c)
    /\ Event
    /\ UNCHANGED <<file, assigned>>

-----------------------------------------------------------------------------
(* The master's agent.                                                     *)

\* runConfig(), unless configBusy: the master answers with its devices as they are.
LoadConfig ==
    /\ calls["agent"].at = "idle"
    /\ calls' = [calls EXCEPT !["agent"] =
                    [Idle EXCEPT !.op = "config", !.at = "loading", !.wanted = assigned]]
    /\ UNCHANGED <<snapshots, order, file, newest, helpers, recorders, rejected,
                   assigned, events>>

\* `needsDiscovery', or another configuration.
Changed(d, config) ==
    \/ snapshots[d] = Nil
    \/ snapshots[d].channels = Nil \/ snapshots[d].error
    \/ snapshots[d].config # config

\* `next': a device the node has keeps what was discovered.  Mutant: and its configuration.
NextKeepsConfig(wanted) ==
    [d \in Devices |-> IF wanted[d] = Nil THEN Nil
                      ELSE IF snapshots[d] = Nil THEN New(wanted[d]) ELSE snapshots[d]]
NextDevices(wanted) ==
    [d \in Devices |-> IF wanted[d] = Nil THEN Nil
                      ELSE IF snapshots[d] = Nil THEN New(wanted[d])
                      ELSE [snapshots[d] EXCEPT !.config = wanted[d]]]

\* Is the state saved?  Mutant: `removed' is left out.
NeedsSaveChangedOnly(changed, removed) == changed
NeedsSave(changed, removed) == changed \/ removed

\* The answer is there: every snapshot object is replaced, and the array, which has
\* the order of the answer; saved only if something changed.
reconcileMasterDevices ==
    /\ calls["agent"].at = "loading"
    /\ LET wanted  == calls["agent"].wanted
           named   == {d \in Devices : wanted[d] # Nil}
           changed == {d \in named : Changed(d, wanted[d])}
           c       == [Idle EXCEPT !.op = "config", !.changed = changed, !.then = "record"]
       IN \E arr \in SetToSeqs(named) :
            Settle("agent", IF NeedsSave(changed # {}, Known(snapshots) \ named # {})
                            THEN Saving(c, "record") ELSE Recording(c),
                   NextDevices(wanted), arr, Devices)
    /\ UNCHANGED <<file, rejected, assigned, events>>

\* A request to the master fails or times out: so does the pass, and configBusy is reset.
\* (One that fails within a command ends that command only; the next may be none.)
RequestFails ==
    /\ calls["agent"].at \in {"loading", "reporting"}
    /\ calls' = [calls EXCEPT !["agent"] = Idle]
    /\ UNCHANGED <<snapshots, order, file, newest, helpers, recorders, rejected,
                   assigned, events>>

\* reportDiscovery() is through, and processCommands() has a command to do, whose
\* result it reports then.
Command ==
    /\ calls["agent"].at = "reporting"
    /\ \/ Round("agent", [Idle EXCEPT !.op = "command"])
       \/ Goes("agent", Recording([Idle EXCEPT !.op = "command"]))
    /\ UNCHANGED <<file, rejected, assigned, events>>

\* No commands, or no more.
PassEnds ==
    /\ calls["agent"].at = "reporting"
    /\ Goes("agent", Idle)
    /\ UNCHANGED <<file, rejected, assigned, events>>

\* An operator of the master changes a device, gives it to the node or takes it away.
Assign(d, config) ==
    /\ assigned[d] # config
    /\ assigned' = [assigned EXCEPT ![d] = config]
    /\ Event
    /\ UNCHANGED <<snapshots, order, file, calls, newest, helpers, recorders, rejected>>

-----------------------------------------------------------------------------
(* The process.                                                            *)

\* The service of a node that starts with a file: initialize() synchronises every
\* device of it before the timer, the agent and the routes.
Start(content) ==
    LET arr == Sorted(Known(content))
        on  == {i \in DOMAIN arr : IsEnabled(content[arr[i]])}
    IN [order   |-> arr,
        helpers |-> IF on # {} THEN <<"agent">> ELSE <<>>,
        calls   |-> [p \in Callers |->
            IF p = "agent" /\ on # {}
            THEN Discovering([Idle EXCEPT !.op = "start", !.pos = Min(on)], arr[Min(on)], content)
            ELSE Idle]]

\* The node is killed and started again: what is in memory is lost.
Restart ==
    /\ snapshots' = file
    /\ order' = Start(file).order
    /\ calls' = Start(file).calls
    /\ helpers' = Start(file).helpers
    /\ newest' = "file"
    /\ recorders' = [d \in Devices |-> Nil]
    /\ rejected' = FALSE
    /\ Event
    /\ UNCHANGED <<file, assigned>>

\* Devices that were discovered before, some perhaps disabled since then.
Init ==
    /\ file \in [Devices -> [config : Configs, channels : Enabled, error : {FALSE}] \cup {Nil}]
    /\ snapshots = file
    /\ order = Start(file).order
    /\ calls = Start(file).calls
    /\ helpers = Start(file).helpers
    /\ newest = "file"
    /\ recorders = [d \in Devices |-> Nil]
    /\ rejected = FALSE
    /\ assigned \in [Devices -> Configs \cup {Nil}]
    /\ events = 0

Awaited(p) ==
    \/ \E found \in BOOLEAN : DiscoveryEnds(p, found)
    \/ SaveRenames(p) \/ SaveReturns(p) \/ ReconcileReturns(p)

Next ==
    \/ \E p \in Requests, d \in Devices :
         \/ \E config \in Configs : upsertDevice(p, d, config)
         \/ removeDevice(p, d)
         \/ syncDevice(p, d)
    \/ \E p \in Ticks : syncAll(p)
    \/ \E p \in Callers : Awaited(p) \/ Rejected(p)
    \/ LoadConfig \/ reconcileMasterDevices \/ RequestFails \/ Command \/ PassEnds
    \/ \E d \in Devices, config \in Configs \cup {Nil} : Assign(d, config)
    \/ Restart

Spec == Init /\ [][Next]_vars

\* Awaits settle, the agent's timer fires, the master answers now and then, and it has
\* no more than twenty commands at a time.
Answers == reconcileMasterDevices \/ PassEnds
Fairness ==
    /\ \A p \in Callers : WF_vars(Awaited(p))
    /\ WF_vars(LoadConfig)
    /\ SF_vars(Answers)

FairSpec == Spec /\ Fairness

-----------------------------------------------------------------------------
(* Properties.                                                             *)

Quiet == \A p \in Callers : calls[p].at \in {"idle", "loading", "reporting"}

\* Whatever calls overlap, once all is quiet the file is what is in memory, unless the
\* newest save was rejected or an older one overtaken by it came through after it: every
\* change is saved by whoever made it, by a poll of the master that only removes devices
\* and by a discovery for a snapshot that has been replaced, too.
FileCurrent == Quiet /\ newest # Nil => file = snapshots

\* Once all is quiet and nothing was rejected, the recorder manager was last told to record
\* what is in memory, whoever changed it; it may be behind only for a device whose last
\* synchronisation failed.  One that is disabled or gone is not recorded.
RecordersCurrent ==
    Quiet /\ ~rejected => \A d \in Devices :
        LET s == snapshots[d] IN
        \/ s # Nil /\ IsEnabled(s) /\ s.error
        \/ recorders[d] = Recorded(snapshots)[d]

Followed ==
    \A d \in Devices : assigned[d] = IF snapshots[d] = Nil THEN Nil ELSE snapshots[d].config

\* "После подключения к master именно master является источником истины для назначенных
\* устройств" (docs/MANUAL_MASTER_PAIRING.md): when nobody changes anything any more, the
\* node comes to have the master's devices, however its own timer, requests that failed
\* and earlier calls of the control API interfere.
MasterFollowed == <>[]Followed
=============================================================================
