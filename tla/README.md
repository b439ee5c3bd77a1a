# Chikin in TLA+

Chikin is one gateway process in front of a fleet of Chrome containers, one per
*Name*, each with its own profile volume.  A Name is driven over one of two
lanes: MCP (`/b/<name>/`, an HTTP session bridged to a `chrome-devtools-mcp`
child process) or raw CDP (`/cdp/<name>/`).  The gateway is single-threaded
TypeScript: everything between two `await`s is atomic, everything hard happens
at the `await`s.  The modules here take that literally: **one step is the
synchronous code between two awaits**, one Docker call, or one event of the
outside world.

    tlc -workers 2 -config FleetSafety.cfg MCFleet      # any run: <run>.cfg, MC
module tlapm FleetProofs.tla                               # the proofs

## 1. The system

Paths are below `src/gateway/src` unless they say otherwise.

| Component | State | Operations | Talks to | Must be right |
|---|---|---|---|---|
| **Provisioner** `provisioner.ts` | none but the promise chain `createGate`; containers and volumes live in Docker | ensureContainer (start, rotate, create), ensureVolume, resolveIp/waitHealthy, recreateContainer, reclaim, removeInstanceVolume, gcExited, gcOrphanInstanceVolumes | Docker; asks the registry whether a Name may rotate | never more than `MAX_FLEET` browsers; a profile is seeded once, never under a browser, never over one; the gate always moves on |
| **Reaper** `reaper.ts` | a timer | sweep: list, adopt, judge, close, stop, remove, discard volume, dropActivity | provisioner, registry, sessions | takes back what nobody uses, and nothing else |
| **Registry** `registry.ts` | sessions by id and Name, reservations, CDP claims, activity records (streams, sockets, clocks), declared provisions, handles | reserve/release/add/remove, claimCdp/unclaimCdp, streamOpened/Closed, cdpOpened/Closed, setProvisioning/clearProvisioning, dropActivity, claimHandle | everybody | counts are true; a Name is never open to two, never closed to all |
| **MCP endpoint** `server.ts`, `session.ts` | the HTTP transports | initialize, reclaim of a stale session, event stream, DELETE | registry, CDP lane, bridge | one lane at a time; a live client is not evicted by another |
| **CDP lane** `cdp.ts` | holders per Name, shared provisions | `/json/*` handshake, upgrade, release, refusal | registry, provisioner | exclusion from the first request; released exactly once |
| **Session bridge** `bridge.ts` | child and its generation, `respawning`, requests in flight, attach promise | client and child pumps, attachBrowser, respawnChild, handleReset, close | provisioner, child process | every request answered once; one child; no child left behind; honest answers |
| **Navigation watchdog** `bridge.ts` | strikes, probe timestamps | sampling after a navigation, verdict, respawn | bridge | no healthy child replaced, no wedged one kept |
| **Screenshot activation** `bridge.ts` | `selectionEpoch`, injected calls | bringSelectedToFront, selectToFront, restore | child | fronts no page the client has left; never holds a capture for ever |
| **Identity** `bridge.ts`, `registry.ts`, `session.ts` | handles | chikin_identify, release at close | registry | a handle belongs to one live session, and map and field agree |
| **Owned tools** `bridge.ts` | `ownedChain`, `lastRead`, `activeLoops` | runOwned, handleSnapshot, handleAct, handleAchieve, cancel | snapshot and act, achieve, identity | ids refer to the newest read; the queue always moves on |
| **Snapshot and act** `snapshot/*` | a CDP connection per act | observe, act | browser | acts on the page it observed |
| **Achieve** `loop/*` | transcript of a run | observe-decide-act loop, escalating decider | act, model | stops; never acts after a cancel |
| **Client bridge** `src/client/bridge.mjs` under `src/bin/chikin-mcp`; `keepalive.mjs` | link and its generation, requests in flight, cached initialize (in memory and on disk) | reconnect, replay, fail in flight, heartbeat, shutdown, respawn | MCP endpoint | one link; no request lost; only the client's own initialize replayed |
| **Startup** `index.ts` | - | gcExited, volume sweep, listen, shutdown | provisioner | a crash leaks nothing and loses nothing |

What is hard: several provisions of different (and of the same) Names run at
once, each some ten Docker calls long; the sweep runs beside them; clients
come, hang up and come back during every one of those calls; Docker calls fail
one by one; the gateway can die at any of them; a child process dies, wedges or
is replaced while its client's requests and three different replacers
(lazy attach, respawn, reset) are under way, and with them screenshots held back
for injected calls, navigations waiting for their verdict and loops that act on
a page that moves; at the client's end the link breaks and is rebuilt under
requests in flight.  `PROJECT.json` lists each such
hazard at its line with the properties aimed at it.

## 2. The modules

    ProfileStore <--implements-- Fleet <-- MCFleet (TLC), FleetProofs (TLAPS)
LaneLock     <--implements-- Lanes <-- MCLanes (TLC), LanesProofs (TLAPS) Bridge
<-- MCBridge (TLC), BridgeProofs (TLAPS) Tabs     <-- MCTabs (TLC), TabsProofs
(TLAPS) NavWatch <-- MCNavWatch (TLC), NavWatchProofs (TLAPS) Identity <-- Owned
<-- MCOwned (TLC), OwnedProofs (TLAPS) Achieve  <-- MCAchieve (TLC),
AchieveProofs (TLAPS) ClientBridge <-- MCClientBridge (TLC), ClientBridgeProofs
(TLAPS)

Neighbours meet in each other's code, so each module carries the part of its
neighbour that it can observe, at that neighbour's own granularity:

- `Lanes` has `running` (does the container run) and `idle` where Fleet has
  Docker and clocks; a provision is begun and ended, with Fleet's steps between.
- `Fleet` has `attached` (a stream or CDP socket is counted) where Lanes has
  sessions and counts.
- `Bridge` has `bound` (which children were given the address of the container
  that exists now) where Fleet has containers; `Owned` has `era` and `ip` for it.
- `Tabs`, `NavWatch` and `Owned` have `swap`, the replacement of the child in the
  three pieces they can tell apart (before the old child is closed, up to the
  installation, none); Bridge has all of it.
- `Owned` has the loop as a sequence of reads, decisions and acts that may end
  anywhere; `Achieve` has what it decides and counts, and the inside of an act.
- `ClientBridge` has `sound` and `served` (does a link work, is there a session
  behind it) where Lanes has sessions.

A definition marked *Slip* is not part of a specification: it is the same
operator with a plausible mistake in it, and `PROJECT.json` names the property
that finds it.

### Fleet

| Variable | Code |
|---|---|
| `container`, `oldImage`, `volume`, `helper` | Docker's state. `volume`: `"made"`: created, its seeding not settled; `"fresh"`: seeded, or left empty; `"used"`: a browser has written to it; `"overwritten"`: a seed copy ran over that. `helper[c]`: the container that copies the seed for a provision |
| `gate` | `createGate`, as the queue of the chain; the head is running |
| `pc`, `info`, `retried` | where each `provision()`/reset or sweep is, and its locals |
| `provisioning` | the registry's count of declared provisions |
| `activity`, `attached` | the activity record: its clock against the TTL of its tier, and whether a stream or a socket is counted |
| `listed`, `todo`, `target` | the locals of `sweep` |
| `boot` | `index.ts` before it listens |

`Inspect` ... `RecreateRemove` are `provision()` of either lane down to the last
Docker call; the callers in `Drivers` are the CDP lane's, which differ in two
things: they ask for more before they rotate (`busyWith`), and record activity
only once the browser answers.  `SeedVolume`, `SeedStart`, `SeedWait` are the
seed copy, which is a container of its own: it pins its volume and counts in the
fleet, a wait for it that fails is swallowed while the copy goes on
(`StrayCopyEnds`), and it outlives the gateway.  (The fleet list gives such a
container a Name nobody uses; that the reaper may adopt that Name, and stop the
copy, is left out: it ends a copy early, as its script may.)  `BeginReset`,
`ResetStop`, `ResetRemove` are the recreate of a reset; `SweepList` ...
`SweepDiscard` one pass of the reaper; `BootGc`, `BootVolumes` the startup.
`Crash` loses everything but Docker's state.  A Docker call does its effect or
fails (`Fault`), and the code's reaction to that failure - logged, rethrown,
read as "absent" - is part of the same action.  Docker's own rules are used
where the code leans on them: 409 for a second container of a name, 409 for the
removal of a mounted volume, a bind to a missing volume makes an empty one,
create of an existing volume is a no-op.

### Lanes

One Name.  A *slot* is an initialize request and the session it becomes;
sockets and handshakes are slots, too, each of a fixed driver, as the code tells
drivers apart by address.  `byName`, `pending`, `record`, `streams`, `cdp`,
`claims`, `holder` are the fields of the registry and of `cdp.ts`; they are
kept apart from the sessions, sockets and handshakes that exist (`slot`,
`stream`, `socket`, `claimed`), since whether the first tell the truth about the
second is the question.  `Reclaim`/`Resume` are the two sides of the await in
the reclaim of a stale session; `HangUp` is a response closed before it is
finished; `LookedUp` is the follow-up of a driver that holds the lane.
`DriverGone` and the third case of `Resolved` are the double release.  The
reaper's pass is `List`, `Judge`, `Stop`, `Remove`, `Forget`, cut at its awaits;
`listed` is what its list of containers says of this Name, which may be stale, or
have failed.  Neither stop nor removals throw (`provisioner.ts:633-737` catch and
log), nor does `Session.close` (`session.ts:59-65`), so the `catch` of the sweep
has nothing to catch, and a failed stop or removal shows as a container that
still runs.

### Bridge

One session.  Children are their generation numbers; `child` is the installed
one, `childGen` the one the pump listens to.  `attach` and `respawn` are the
program counters of `attachBrowser` and `respawnChild`, `req[r]` that of each
request.  `alive` are processes, `exited` those whose close event is on its way.
A child dies (`ChildDies`), is found out by its close event (`ChildGone`) or by
a failing send (`SendFails`), or is given up alive (`Wedge`, the watchdogs'
verdict).  A swap fails in its provision, its spawn or its replay.

### ClientBridge

The stdio side.  Links are their generation numbers, `generation` the newest,
`http` the installed transport's.  `reconnect` is the program counter of
`scheduleReconnect`; `inflight`, `replies`, `at` are the requests that still owe
an answer, the answers, and the link a request was sent over; `initFrame`,
`initFile` the cached initialize in memory and on disk (`old`: left behind by a
dead session, or written by another bridge of that Name).  `FileFaults` says
whether the file's writes and its removal may fail (they are caught and logged)
and whether another bridge shares it, `Neighbour`: its name is made of the URL's
path alone.  `astray` is history: such a write has failed, or the neighbour has
written.  `open`, `sound`, `served`, `events` are the world's: transports
not closed, links that work, links with a gateway session, close or error events
to come.  `LinkLost` is what all triggers share; `OldClosed` ... `Retry` are the
loop between its awaits.  `Crash` loses everything but the file; `Respawn` is the
supervisor's loop, `SupervisorEnds` what its script does today (section 6).

### Tabs

One session's screenshots.  `queue` and `pipe` are the child's calls and replies
in order (its tool mutex), `running` the gap within a `select_page` between
selecting and replying; `phase`, `pass`, `epoch`, `target` are the locals of
`bringSelectedToFront` per capture; `front`, `selected`, `open` the browser.
`chosen` is history: the tab that the client's own calls last left selected, by
selecting it, opening it or closing the one that was.

### NavWatch

One page, known by its document.  `step`, `gen`, `reported`, `atReply`, `now`
are, per navigation, where its verification is and what it holds: the child it
came from, the page the child named, the two samples.  `lied`, `left`,
`crossed`, `strange` are history for the properties.  `HandleReply` is the pump,
`VerifyNav` and `Verdict` the two sides of the await in `verifyNav`,
`NavVerdict` and `ShouldJudgeNav` the pure functions of those names.

### Identity and Owned

`Identity` has the registry's map, the session's field and the session's end.
`Owned` extends it: `chain` is `ownedChain`, `call[c]` a call's handler with the
locals it keeps over its awaits (child generation and address taken at the
start, page, table), `lastRead` the read that row ids refer to, `moves` the
counters it is compared with.  A table is known by its page, its container and
the number of inputs the page had had, so that "older" has a meaning; `told` is
the newest table the client was sent.  No tab closes in Owned: the fallback of
`choosePage` to the selected page is not needed there; Achieve's page may go.

### Achieve

`pc` is the await the loop or its current act is at, `state` the read it decides
on, `act` the row on its way, `tally` what the stop rules count.  `page` and
`gone` are the browser's, and change between any two steps.  `Target`, `RowAt`,
`JevPicks`, `GenerativePicks` are the action space of `jev.ts` and what the two
deciders may answer; `Merge` is the escalation's union of flags; `Check`,
`Resolve`, `Input`, `Observe`, `ReadRefused` are `act()`.  `inputs` counts what
the page was given since `state` was read.  `signal` is what runLoop's
`interrupted` looks at: a cancel or a closed session (`abort`, which the deciders
are told of, too) or a restarted browser (`restart`, which only the loop sees).

## 3. The abstract specifications

- **ProfileStore** - what the fleet promises about profiles and slots: make a
  profile once, mount it in one of `MaxFleet` slots, unmount, discard an
  unmounted disposable.  No gate, no Docker call, no reaper.  `Fleet!Store` maps
  an absent or half-seeded volume to "no profile" and the existing containers to
  the slots: that a half-seeded volume is *no* profile is what makes the
  refinement say something about the gate.
- **LaneLock** - one party at a time, and nobody takes over from one that has
  not let go.  `Lanes!Lock` maps it to the slots being created or live and the
  drivers of the open sockets - not to the registry's fields, which are the
  implementation.

## 4. The runs

Passing runs:

| Run | Question | Instance |
|---|---|---|
| `FleetSafety` | mounted profiles are ready; refinement of ProfileStore, which has the cap and the safety of profiles in it | 2 Names (one disposable, one sticky), 1 slot, an MCP and a driver's provision, a reset, 1 sweep, a client; any one Docker failure, the volume inspect and the wait for a seed copy excepted; 862k states |
| `FleetRotate` | every provision is declared; the safety of used profiles while the image is rebuilt and the gateway may crash | an MCP session's and a driver's provision of one Name, a reset, 1 sweep, 1 rebuild, 1 crash, 1 failing list, removal or wait; 1.46M |
| `FleetLive` | the cap across a boot; every provision ends; every unused browser gives its slot back | 2 Names, 1 slot, a provision each, 1 sweep, 1 crash, 1 failing create; 128k |
| `LanesSafety` | one owner, true counts, no eviction of an attached client | 2 clients, 2 drivers, 3 sockets (two of one driver), 2 handshakes of different drivers; 439k |
| `LanesReaped` | one session, and no Name shut for ever, while the reaper evicts | 2 clients, a socket of one driver, a handshake of another; 116k |
| `BridgeSafety` | one replacement at a time, requests with the current child only, honest resets, no stray process, every request answered | 1 plain and 2 browsing requests, 1 reset, any 2 failures (death, wedge, provision, spawn, replay), close at any moment; 202k |
| `ClientBridge` | one link, no stale frame, every request answered, every link rebuilt | initialize and 2 calls, 2 link failures, 1 crash, the client may go, the file fails or is shared; 309k |
| `Tabs` | captures front what the client has chosen, and go | 2 captures, 2 passes, 3 tabs, 2 choices, 1 tab that goes or 1 swap; 468k |
| `NavWatch` | strikes are deserved; a wedged child is replaced | 2 documents, 3 navigations, 2 strikes, any 2 of: the page moves, the child wedges, a sample fails, a reply names no page, the child is replaced; 601k |
| `Owned` | acts rest on the newest table, handles agree, every call settles | 2 sessions, 2 handles, 3 calls, 2 tabs, 1 step, 1 move, 1 swap, 1 lost container; 176k |
| `Achieve` | reads younger than inputs, honest refusals, aimed inputs, no unasked consequence, no act after a stop, the loop ends | 2 faces of 3 rows, 2 origins of which one is allowed, both deciders, 3 steps, 2 documents; 498k |

Why these bounds are enough.  The cap needs two Names and one slot to be
contended; a third Name adds no new pair.  The gate's order matters between a
provision and a sweep or between two provisions of one Name: both are there.
The interesting part of a failure is which call fails and what runs beside it,
so one failure with everything else concurrent says more than several in a row;
in Bridge a failing respawn needs a death *and* a failing attempt, hence two.
`MaxAttempts = 2` in Bridge shows both a retry and the last attempt.  Driver d1
has two sockets because the lane must survive the first of them closing.  One
sweep: overlapping sweeps (`setInterval` allows them) are in the actions and in
the theorems, which hold for any set `Sweeps`.  The initial state is a gateway
on a clean host; the runs reach every other boot through `Crash`.

In ClientBridge two failures are one that starts a rebuild and one that hits the
rebuild itself.  In Tabs two captures interleave their injected calls, and two
choices for two passes exhaust the passes; `ACTIVATION_PASSES` is 3 in the code,
and one capture with 3 passes and 3 choices passes, too.  In NavWatch three
navigations are what it takes for one check to be superseded while two strikes
accumulate.  In Owned three calls are a read, a loop or a failing call, and the
act that uses its rows; the constraint `Scenes` lets the second session contend
for handles only as long as the first has made no owned call, as the two share
nothing else.  In Achieve the face `Form` has an element with two rows and rows
without an element, `List` two options of one element; three steps are what the
stops for a stalled and for a repeatedly refused loop need.

What the runs leave out, and why: `FleetSafety` has no failing volume inspect,
no failing wait for a seed copy and no rebuild because the safety of profiles
and the cap do not survive them (section 6), and no crash, since a copy outlives
the gateway that waited for it.  `FleetRotate` has the wait and the crash with a
property that says what is left: a copy that nobody waits for is the one way to
lose a used profile.  `FleetLive` has no failing list, start or removal because
SlotReclaimed does not survive them (section 6).  `LanesSafety` has no reaper
because LockSpec does not survive it.  `BridgeSafety` has no failing removal and
one reset, since ResetHonest does not survive either.

`CHECK_DEADLOCK FALSE` is in the runs of Bridge, ClientBridge, Tabs, NavWatch,
Owned and Achieve: their clients send each of their requests once, and Achieve
is one loop, so a run ends when all is answered.  `TypeOK` is checked in the run
of Lanes; every module's is proved for every instance (section 7).

Properties, by what would have to go wrong:

- **CapRespected** - two provisions count before either creates; a boot or a
  failed list miscounts.
- **MountedProfileReady** - something removes or refills a volume between
  ensureVolume and the container that mounts it; a second provision takes a
  half-seeded one.
- **ProvisionsDeclared** - the end of one of two provisions of a Name takes back
  what the other has declared, so that a sweep removes the volume it is about to
  mount; a failing one stays declared and shields its Name for ever.
- **ProfilePreserved** - any step of anybody, at any time, that loses what a
  browser wrote, except the discarding of an unmounted disposable, and a seed
  copy that its provision has given up or did not survive.
- **ProvisionEnds**, **SlotReclaimed** - a link of the gate that never settles; a
  record, mark or count that pins a browser for ever.
- **LaneAccounted**, **LockSpec**, **OneSession**, **NameFreed**,
  **AttachedNotReclaimed** - two owners; an owner unknown to the registry; a
  Name refused for ever after a request was interrupted; a live client evicted.
- **SwapAlone**, **CurrentServes** - two swaps interleave their generations; a
  request waits for an answer the pump will drop.
- **EveryAnswered** (Bridge and ClientBridge) - an answer that never comes.
- **SecondReplyOnlyWhileClosing**, **LateReplyOnlyWhileClosing** - a request
  answered twice, outside the one gap in which the code does that (section 6).
- **NoStrayChild** - a process outlives its session, other than the one of
  section 6.
- **ResetHonest** - success reported although the container is still the old one
  or the child is attached to a removed one.
- **OnOneLink**, **OwnFrame**, **LinkRestored** - two rebuilds at once; a request
  left on a dead link; another session's initialize replayed, other than from a
  file whose write failed or that is shared; a link that died
  while it was being installed, which nobody notices.
- **ChoiceStands**, **CaptureInFront** - an injected select takes the session off
  the tab its client chose, or the capture is of a tab behind another.
- **InjectedHidden**, **CaptureGoes** - the client gets a reply to a call it
  never made; a capture waits for a reply that a dead child owes.
- **StruckOnlyIfLeft**, **StrikesOwnChild** - a healthy child is struck because
  another navigation has moved the page, or for its predecessor's report.
- **WedgeCleared** - a client so fast that no check of a wedged child is ever
  judged.
- **HandlesAgree** - two live sessions with one handle; a handle that leads to a
  session which has another.
- **ActsOnNewestAtRest** - an id looked up in an older table than the client has:
  another element is clicked.
- **StopIsFinal** - a cancel, or a browser that was restarted, in any of the
  loop's awaits (a read, either decider, the settling of an act), after which it
  begins an act all the same.
- **EveryCallSettles**, **LoopEnds** - one failing call blocks the queue behind
  it; a loop that no stop rule catches.
- **FreshEyes**, **NothingWasInput** - a row done twice, since a lost answer or a
  failed read was taken for nothing having happened.
- **AimedAtWhatWasRead** - an input to a row that has taken the id of the one
  that was decided on.
- **ConsequentialAsked** - the second model's answer drops the first one's flag.

## 5. Fairness

`FairSpec` of each module assumes that what is under way goes on: Docker
answers, promises settle, a live child answers, close events are delivered, the
sweep's timer fires, a dead peer's socket reports it, clocks advance.  Nobody is
obliged to call, attach, leave, choose, navigate or reset.  In the code the first
holds as far as Docker holds: dockerode is used without a timeout, so a Docker
call that never answers would keep the create gate for ever (listed as a
hazard).  Weak fairness suffices everywhere since the gate is a queue, not a
race.  `NameFreed` and `SlotReclaimed` are conditional: on everybody having left.

In ClientBridge the heartbeat's timer fires and a post over a dead link fails; in
Tabs the child finishes each call, if only by Puppeteer's protocol timeout - an
injected call has no clock of its own.  In NavWatch the verify timer fires and a
fetch of `/json/list` ends within its 2 s.  In Owned and Achieve every await of a
handler has a deadline in the code: 2 s for `/json/list`, 25 s, 5 s and 3 s for
the reads, 5 s for a socket and an input, 15 s and 10 s for a model's answer.

## 6. Disagreements between code and documentation

One run TLC must refute, with a property taken from a comment:

| Run | What happens |
|---|---|
| `LanesEvict` | For a Name without a container the sweep awaits removeInstanceVolume, which queues at the create gate, and then drops the activity record without asking again (`reaper.ts:120-134`); a driver that took the Name meanwhile is forgotten with it, and another driver or the other lane let in beside it (`server.ts:227` "One lane at a time"). The branch for a Name with a container has the same shape over three awaits (`180-205`) |

Further disagreements and races met on the way, with what shows them.

*Fleet.*
- Rotation re-creates in "the slot we just freed" - but a sweep took the
  container before the gate was reached and another Name has the slot:
  `MAX_FLEET + 1` browsers (`provisioner.ts:498`, `511`; `FleetRotate` with a
  second Name: CapRespected).
- The wait for a seed copy fails and is swallowed (`provisioner.ts:413-416`): the
  browser is created and started while the copy may still write into its volume
  (`796-797`: "the seed clone writes into the volume BEFORE the container
  exists"; `FleetSafety` with `"wait"` in `Faults`: MountedProfileReady).
- The copy is a container, which AutoRemove removes at its own end only: after a
  crash of the gateway it copies on, the next boot finds the volume and takes it
  for seeded, and the copy runs over what the browser writes
  (`provisioner.ts:395-407`; FleetRotate has it, as `"overwritten"`).
- A removal that fails after the stop succeeded leaves an exited container that
  no sweep adopts: it keeps its slot until the gateway restarts or the Name is
  used (`provisioner.ts:674`; `FleetLive` with `Faults = {"remove"}`:
  SlotReclaimed).  `reaper.ts:136` states the opposite intent for the sibling
  path.
- A CDP handshake stamps activity only once its browser answers (`cdp.ts:483`).
  Where the container it created does not start, nothing has recorded the Name,
  the reaper adopts running containers only (`reaper.ts:92`), and the slot is held
  until the gateway restarts or the Name is used: "precisely the class of bug this
  reaper exists to prevent" (`reaper.ts:80-82`; `FleetLive` with
  `Faults = {"start"}`: SlotReclaimed).  A boot whose list fails leaves a
  container that a crash caught between create and start in the same way
  (`Faults = {"list"}`).  A seed copy that was created and did not start carries
  the fleet's label and holds a slot until the next boot
  (`provisioner.ts:400`, `407`).
- A volume inspect that fails for any reason is read as "no such volume", and
  the seed is copied over a used profile (`FleetRotate` with `"inspectVolume"`
  in `Faults`: ProfilePreserved; `provisioner.ts:354`, "leave its profile
  untouched").
- With `ATTACHED_IDLE_TTL_SEC = 0` a client that attaches between the sweep's
  judgement and its removal still loses its browser (`src/README.md:356`,
  "never reap an attached browser").

*Lanes.*
- The late drop of `LanesEvict` also hides an attached session's stream, and the
  next initialize closes that session as stale (`LanesReaped` with
  AttachedNotReclaimed).
- A driver that hangs up gives back its claim while the provision it stands for
  goes on (`cdp.ts:452-468`); an MCP session attaches and provisions the same
  container, which the first may then recreate as unhealthy (`cdp.ts:373-388`).

*Bridge, Tabs, NavWatch.*
- A session closed while respawnChild awaits still gets a child, which nobody
  closes (`bridge.ts:1121` against the checks at `1168-1175`; BridgeSafety with
  `alive = {}` for NoStrayChild's conclusion).
- A reset whose removal failed, and two resets that overlap, report "container
  recreated and devtools reattached" of a container that was not, or is no more
  (`BridgeSafety` with `"remove"` in `Faults`, or with two `Resets`: ResetHonest).
- A live child replaced by a watchdog or a reset can answer what has just been
  failed: the generation is bumped only after the old child is closed.
  SecondReplyOnlyWhileClosing confines it to that gap.
- `verifyNav` compares generations before its await and not after
  (`bridge.ts:985`, `997`): a verdict whose samples were awaited at the swap
  counts against the new child.  StrikesOwnChild confines it to those.
- A page that moved on its own before a first sample could be taken looks like a
  lie; StruckOnlyIfLeft has it as `left`.  A client that pipelines navigations
  makes the page move, and can have a healthy child struck.

*Owned, Identity, Achieve.*
- Between `++childGen` (`bridge.ts:1119`) and startChild's `lastRead = null`
  (`1066`) a read begun under the old child is dropped by `remember`
  (`1403-1406`) and its table is sent all the same; a `chikin_act` that follows
  resolves the client's row id in the older table (`1477`, "most recent table").
  ActsOnNewestAtRest has `swap = "none"` as a premise for that reason.
- `remember` stamps a read with the counters as they are when it ends
  (`714-719`, `1403-1421`): a navigation during the read counts as not having
  moved, and the next read stays on a tab the client may have left.
- An act that was queued when its session closed still runs its input.  A claim
  of a handle that arrives late leaves an entry of a closed session in
  `byHandle`; it is harmless, since a closed holder does not hold.
- What follows the check of an act is not checked again: the later inputs of a
  fill reach whatever document is there by then.  `deadline_ms` and
  `allowed_origins` are asked at the head of a step only.  A select whose answer
  was lost is reported as refused although it may have been applied; the loop
  reads again before it decides (FreshEyes).

*Client bridge.*
- `bin/chikin-mcp` runs under `set -euo pipefail` (line 16), so a bridge that
  dies makes `wait "$child"; rc=$?` (66) end the script: the respawn loop that
  `chikin-mcp:45-50` and `bridge.mjs:78-83` describe is not reached.  ClientBridge
  has both (`SupervisorEnds`, `Respawn`), as other supervisors do respawn.
- Requests in flight at a crash are never answered (`lost`).
- "A live client's own `initialize` always overwrites a (possibly stale) recovered
  frame before any replay can use it, so a leftover file from a previous crash is
  harmless" (`bridge.mjs:83-85`): not when that write fails, which is logged
  (`245-249`), or when another bridge of the same Name, whose file has the same
  name (`119`), has written since.  A bridge respawned after a crash then replays
  another session's initialize (`ClientBridge` with `FALSE` for
  the `astray` of OwnFrame).
- A failed request may still be answered while its old link is being closed:
  the generation is bumped after `await http.close()`
  (LateReplyOnlyWhileClosing).
- Events of the new link during the replay are swallowed by the `reconnecting`
  guard; only the heartbeat finds the link dead (LinkRestored).  A shutdown during
  a rebuild leaves `reconnecting` set.

## 7. The proofs

Everything below holds for every value of the constants that satisfies the
module's named assumption: any Names, callers, sweeps, slots, sockets, requests,
tabs, navigations, pages, bounds.  Further premises are in the statement.  Every
safety invariant and every action property that a passing run checks, and both
refinements, are stated by a theorem.

Each proof has the same shape.  An inductive invariant, called `IInv` where it
has one name, is the conjunction of the types and of a few named parts; one
lemma per part, with a step per action, shows that it is kept; the theorem reads
the property off.  Each `IInv` was checked by TLC on the module's run before it
was proved.

### FleetProofs

| Theorem | Premise | Says |
|---|---|---|
| TypeCorrect | - | `[]TypeOK` |
| Declared | - | `[]ProvisionsDeclared`, crashes and every failure included |
| ProfilesKept | no failing volume inspect | `ProfilePreserved`: crashes, rebuilds and every other failure included |
| MountsReady | no failing volume inspect or wait for a seed copy, no crash | `[]MountedProfileReady` |
| CapKept | no rebuild | `[]CapRespected` |
| FleetImplementsStore | all of these | `Spec => Store!Spec` |

ProvisionsDeclared is inductive: `CallerDeclares` sorts a caller's steps into
those that begin a provision, end it or do neither; with the equality the clamp
of `clearProvisioning` at zero never acts. `GateInv` says that who is in the
middle of a create or a volume removal is the head of the gate; with it, two of
them are the same one (`Alone`), which is all the mutual exclusion the other
invariants use.  `SeedInv` says that whoever is about to seed seeds a volume
nobody has opened, that a Name has one waited-for copy at most, and that what a
copy runs over is a volume not yet settled, or one already overwritten.  It is
needed because ProfilePreserved is about a step, and the seed's step is harmless
only with what `ensureVolume` established some awaits earlier.  `BootInv`
(nobody runs before the gateway listens) keeps the boot's removals apart from
all that, `TargetInv` keeps the sweep to disposable Names.  `ReadyInv` carries
"the volume is there and seeded" from `ensureVolume` to the create: a mounted
volume is ready, one between the two is at least not absent, and no copy runs
that nobody waits for (which is where the failing wait and the crash are
excluded; both premises are necessary).  `CapInv` strengthens the cap by what a
count inside the gate is worth later: between the count and the create there is
still room for one more, as every other action only removes containers - except
a rotation, which `NoRotation` excludes when no image is rebuilt.  (With a
rebuild the cap is broken, section 6: the premise is necessary.)

### LanesProofs

| Theorem | Premise | Says |
|---|---|---|
| TypeCorrect | - | `[]TypeOK` |
| SessionUnique | - | `[]OneSession`, the reaper's evictions included |
| CountsAccurate | no reaper | `[]LaneAccounted` |
| LanesImplementLock | no reaper | `Spec => LockSpec` |
| AttachedStay | no reaper | `AttachedNotReclaimed` |

`SessionInv` ties `byName` and `pending` to the one slot that is live or being
created.  `ClaimInv` and `SocketInv` equate the counts with the cardinalities of
the sets they stand for - the decrements in the code are clamped at zero, so the
equalities must be strong enough to show that the clamp never acts - and name
every open socket's driver as the holder.  With them "the registry says free"
implies "nobody has it", and each acquisition is one of LaneLock.  `StreamInv`
does for event streams what the others do for sockets, and adds that a stream of
a session is open only while it is live: then an initialize that finds the count
at zero closes nobody's stream.  With the reaper the last three are false
(section 6): the record they count in is dropped under them.

### BridgeProofs

| Theorem | Premise | Says |
|---|---|---|
| BridgeTypes | - | `[]TypeOK` |
| OneSwapAtATime | - | `[]SwapAlone` |
| CurrentChildServes | - | `[]CurrentServes` |
| NoStrays | - | `[]NoStrayChild` |
| NoSecondReply | - | `SecondReplyOnlyWhileClosing` |
| ResetsHonest | no failing removal; resets take turns | `ResetHonest` |

`OwnInv` says what `respawning` stands for: it is up exactly while attachBrowser
holds a child it has not installed or respawnChild runs, and not both.  That is
the mutual exclusion of the replacers, and `GenInv` builds on it: which
generation is installed, which one is only handed out, at each step of either.
`ReqInv` ties a request to the generation that has it; a request in flight is
with the child that the pump listens to, and no replacement runs.  `PendInv` is
what NoSecondReply needs: a generation that is still current but owes an answer
nobody waits for has been entered by respawnChild and not yet been replaced.
`AliveInv` accounts for processes: whatever is alive is installed, in the hands
of attachBrowser's `finally`, or being started.  For resets, `OwnerInv` carries
"the address is that of the container made for this reset" from the removal over
provision, spawn and replay to the reply; a removal by another reset in between
would break it, which is the premise: `ResetsTakeTurns` holds at all times.

### ClientBridgeProofs

| Theorem | Says |
|---|---|
| ClientBridgeTypes | `[]TypeOK` |
| OneLink | `[]OnOneLink` |
| ReplaysItsOwn | `[]OwnFrame` |
| LateRepliesEnd | `LateReplyOnlyWhileClosing` |

`LinkInv` names, for each await of `scheduleReconnect`, the transport that may be
open; without it not even the
types are inductive, as a dead process must have left none with events to come.  `RideInv`: nothing is in
flight during a rebuild, and what is in flight rides on the newest link.
`StartInv` says that before the client's own initialize there is nothing to
reconnect for, and `FrameInv` that a frame of another session is known, in memory
or on disk, only until then - or the file went astray.  Together they follow the
frame from the disk over a crash to the replay.  `ReplyInv`
says who can still be answered twice: outside the closing, whoever is on an open
link of the current generation is owed that answer.

### TabsProofs

| Theorem | Says |
|---|---|
| TabsTypes | `[]TypeOK` |
| GatewayAsksUnseen | `[]InjectedHidden` |
| ChoicesStand | `ChoiceStands` |
| CapturesInFront | `CaptureInFront` |

The child's queue and pipe are sequences, so the first part of the proof is
about mail: what a head, a tail and an append do to what is asked and answered,
and that a capture has one call under way, asked or answered, and none while it
is idle (`Once`).  `PhaseInv` ties that call to the phase of its capture.
`ChoiceInv` is the argument that `selectionEpoch` is sound: what a capture
`Knows` is, as long as the epoch it took has not moved, the truth about which tab
is chosen, from its call of `list_pages` over the reply to the call of
`select_page` it makes of it; hence every injected select in the queue is aimed
at the chosen tab, or the chosen tab is gone, and no choice of the client is
ahead of it.  `CalmInv` adds, for as long as nothing but the client moves tabs,
that the tab a capture reaches last is in front.  That
the tab a new child selects, the least of the open ones, is one of them is taken
from the well-foundedness of the naturals.

The proof corrected the model: `chosen`, the property's own memory of the client's
choice, was bounded by the open tabs once for itself when a page was closed, and
`selected` once more.  "The chosen tab, if open, is selected" was then not
inductive, and TLC found the run with four tabs and three choices in which the
two part.  `chosen` now records what the child's answer to the client left
selected.

### NavWatchProofs

| Theorem | Says |
|---|---|
| NavWatchTypes | `[]TypeOK` |
| StrikesAreDeserved | `[]StruckOnlyIfLeft` |
| StrikesAreAimed | `[]StrikesOwnChild` |

`TruthInv` follows one navigation that was neither lied about nor left, from its
reply to its verdict: the first sample, if it names a document, names the
reported one, and if there was no such sample, the page is still there, so that
the second sample will name it.  `shouldJudgeNav` and `navVerdict` strike only
when neither does.  It needs `SampleInv` (a sample is missing until it is
taken) and `PipeInv` (a navigation has one reply).  `CrossInv` says that whatever
is between its samples and its verdict while the generation has moved on is
among those that crossed the swap.

### OwnedProofs

| Theorem | Says |
|---|---|
| OwnedTypes | `[]TypeOK` |
| HandlesKept | `[]HandlesAgree` |
| ActsOnNewest | `ActsOnNewestAtRest` |

HandlesAgree is inductive with the types of `Identity`; `HandleSteps` shows that
a step of Owned claims one handle, ends one session or leaves both alone.  For
the acts, `NewestInv` says that between swaps the remembered read is the table
that the client was told, and is current - or a call that has acted on that very
page is still on its way to its own read.  It stands on `GenInv` (a call that
was begun under an earlier child finds the memory empty), `EraInv` (no table is
of a container that does not exist yet) and `LoopInv` (what a loop decides on is
current).

### AchieveProofs

| Theorem | Says |
|---|---|
| AchieveTypes | `[]TypeOK` |
| DecidesOnFreshReads | `[]FreshEyes` |
| FailuresAreHonest | `[]NothingWasInput` |
| InputsAreAimed | `[]AimedAtWhatWasRead` |
| ConsequenceIsAskedFor | `[]ConsequentialAsked` |
| StopsForGood | `StopIsFinal` |

`FlowInv` lists the awaits and says that from the first decision on there is a
read.  `CleanInv` counts: no input has reached the page at any await before the
input itself, nor wherever a failure is reported as one that did nothing.
`ReadInv` carries what was read to the check: loads only grow, a page of the
same load has the same origin, the origin decided on is allowed and the row on
its way is the one of the read.  A loop that is stopped and in no act stays so
over every step (`HaltingStep`): each way from a pick to an act asks again.

### Assumptions

Each module names its own; they bound counters and keep kinds of values apart, no
more.  `AchieveAssumption` has `NoState` outside the pages that can be read and
a row's kind among the five the loop knows; `TabsAssumption` has `Nobody`
outside the captures; `BridgeAssumption` has the kinds of requests disjoint.
TLC evaluates them in every run.

### Only model-checked

Liveness - ProvisionEnds, SlotReclaimed, NameFreed, both EveryAnswered,
LinkRestored, CaptureGoes, WedgeCleared, EveryCallSettles, LoopEnds: they hold
under fairness only, and ENABLED is out of the prover's reach.  The refuted
property of `LanesEvict`.  The safety of Lanes beside the reaper is no more than
OneSession, for the reasons of section 6.

## 8. Not modelled

- Dashboard, noVNC proxy, runtime report, logging, seccomp and config parsing, the
  bind plan and the bearer check: pure functions of strings and environment, or
  bytes passed on.  The wrappers other than `chikin-mcp`, the installer, the
  browser image and the verification scripts; `keepalive.mjs`, an ordinary client.
- HTTP requests that are refused without touching state are not steps.
- The in-page scripts of a snapshot, the prompts and the models: what they return
  is a free choice of Achieve's page and deciders.  `choosePage`'s matching of
  URLs is a free choice among the tabs.
- Of `bridge.ts`: the streak of CDP failures read from stderr (it ends in the same
  respawn as a death), the stamps of browser activity by owned calls, the
  decoration of `tools/list`, captures that name their own page, popups that
  take the front, injected calls whose send fails.
- The grammar of names and handles.

## 9. The plan

1. *done* Fleet with ProfileStore: the profiles are what users lose.
2. *done* Lanes with LaneLock: exclusion across the two lanes.
3. *done* Bridge: replacement of children, resets, answers.
4. *done* Tabs, NavWatch: what rides on a child while it may be replaced.
5. *done* ClientBridge: reconnection with requests in flight, crash and respawn.
6. *done* Identity, Owned, Achieve: handles, the queue of owned tools, the loop,
   the guarded act.
7. *done* The proofs of every safety invariant and action property the runs check.
8. A composition of Lanes and Fleet over one Name, so that the provision that
   outlives its driver (section 6) is followed down to the container.
9. Abstract specifications that Bridge and ClientBridge implement - a request is
   answered, or failed, once - with the one gap of each in them, and their proofs.
10. The rules of the bind plan and the bearer check as operators against a
   reference definition.
