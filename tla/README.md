# whotyped in TLA+

whotyped watches a host's SSH sessions and says which of them an AI agent
drives. It reads sshd's log, auditd's log and `/proc`, joins what they say into
*tracks* (one per account, key and source address), scores each track and sends
alerts to sinks. This directory holds a formal model of it: TLA+ modules
translated from the Go source, TLC runs that check them on small instances, and
proofs, checked by TLAPS, of what holds for every instance.

The wording of log lines and regular expressions are not modelled. What is
modelled is what is hard to test: the state the daemon builds from lines of
three independent sources that come in any order, are lost or repeated, with
pids and ports reused; the goroutines, bounded queues and tickers between the
readers and the sinks; crashes and restarts at any moment; and how a host's
configuration and the allowlist decide what is reported at all.

## Inventory

| Part (source) | State | Operations | Hard about it | What makes it correct |
|---|---|---|---|---|
| correlator (`internal/session`) | tracks and their connections, samples; indexes by pid, tuple, audit session, process, user | one handler per event kind, `Expire`, `Snapshot`/`Restore` | order, loss and repetition of lines; pid and port reuse; connections that change track; restart | indexes lead to what they say; nothing is booked on another identity; evidence does not vanish; a declaration is backed |
| alert policy (`internal/alert/dispatcher.go`, `Observe`, `Ended`) | `MaxLevel`, `LastAlert` of a track; a memo per track (declared, freeze window) | `Observe`, `Ended`, `Forget`, `Dedupe`/`Restore` | crossings, declarations and freeze windows in any order; restart | every crossing is reported once; cadence; an end is reported for what was reported |
| delivery (`dispatcher.go`, `fanout` to `deliver`, `Close`) | a bounded queue and a goroutine per sink; counters | enqueue (evicts the oldest), deliver with retries, close | full queues, retries, cancellation, close against send | counted exactly once; bounded; order kept; drained before the deadline |
| pipeline (`internal/app/app.go`) | two channels, the dirty set, clock, tickers | `handle`, `flushDirty`, `maintain`, `saveState`, shutdown | overload, stale pointers, crash between emission and save, order of shutdown | what is dirty is evaluated; nothing is evaluated after it ended; a clean stop loses nothing |
| state file (`internal/state`) | `state.json` | `Load`, `Save` | crash during a save | old or new, never half |
| audit log tail (`internal/readers/auditd/tail.go`) | file, offset, inode, partial line | poll, drain, reopen, resume | rotation, truncation, restart | each complete line once |
| audit record groups (`internal/readers/auditd/parser.go`) | open groups of records | feed, flush, bounds | interleaved, late, missing records | every record in one event; bounded |
| sshd log sources (`internal/readers/sshlog`) | file or journal cursor | tail, follow | rotation, cursor written apart from the events | no line skipped while running |
| procfs scanner (`internal/readers/procfs`) | processes last seen | `Scan`, `ScanNet` | pid reuse, refresh against staleness | seen and gone alternate |
| scorer (`internal/score`, `internal/clues`) | none (a function of a track) | `Evaluate`, allowlist profiles | caps, classes and profiles interact | a profile hides no agent process unless it says so; a declaration stands |
| freeze windows (`internal/config`) | none | cron matching, `Prev`, `Active` | time arithmetic | active exactly inside an occurrence |
| sinks (`internal/sinks`) | file size, rate limits | `Send`, rotate, reopen | rotation failing half-way | no alert lost by a rotation |
| rules (`internal/rules`) | the merged pack | load, merge, validate | later files replace earlier entries | the entries in force are the last ones |
| check (`internal/check`) | the files it installs | `Run`, `--fix` | sshd and the kernel run what they loaded, not what the files say; a fix may fail halfway | a family reported live can fire; a clean fix is enough |
| metrics, other commands (`metrics`, `report`, `simulate`, `cmd`) | none that matters | - | - | - |

How they interact: readers send events on a channel of 256; a forwarder moves
them to a queue of 4096 that drops its oldest event when full; one goroutine,
the correlator loop, takes them, applies them (`Apply`), scores the track it
touched (`Evaluate`) and hands the verdict to the alert policy (`Observe`),
which enqueues alerts on the sinks' queues. The same loop runs a flush of the
dirty set every 2 s and, every 30 s, `Expire`, `Ended` for what expired and a
save of the state. The correlator and the policy are therefore sequential;
concurrency lies between the readers, the loop, and the sinks' goroutines.

## Modules

| Module | Part | Checked by | Proved in |
|---|---|---|---|
| `Tracks`, `Correlator` | correlator | `sessions`, `declarations`, `audit` and three counterexamples | `CorrelatorProofs`, `CorrelatorInvariants` |
| `AlertPolicy` (implements `Reporting`) | alert policy, freeze windows, what the state file keeps of them | `alerts`, `realert` | `AlertPolicyProofs` |
| `Delivery` (implements `Outbox`) | delivery | `delivery` | `DeliveryProofs` |
| `Pipeline` | pipeline, state file | `pipeline` | `PipelineProofs` |
| `AuditTail`, `RecordGroups`, `ProcScan`, `JournalSource` | readers | `readers` | `TailProofs`, `ReaderProofs` |
| `HostCheck`, `Allowlist` | check and its fix; rules and scorer | `host` | `HostProofs` |

The parts meet where one's output is the other's input, and each module takes
that input as wide as the other can make it: the correlator accepts any event at
any time, so it covers what the readers' crashes, losses and repetitions do;
the policy accepts any verdict; `Delivery` accepts any sequence of alert levels.
`Pipeline` composes reader, forwarder, loop, tickers and the state file, with
the tracks reduced to what the loop decides on. `MCReaders` and `MCHost` put
modules that share no state into one run; a behaviour follows one of them, so
that the run's states are the sum and not the product of theirs.

What could come next: the order of a track's samples across `moveConn`, cron
expressions (`Prev`), the rotation of the JSON file, truncation of `audit.log`
in place.

## The alert policy: `AlertPolicy`, `Reporting`

`AlertPolicy` models `Dispatcher.Observe` and `Ended` and what of them survives
a restart. The verdict is an input: any class and level `Evaluate` can return
together (`Verdict`), at any time. The branches of `Observe` are actions,
because each compares the verdict with another memory: the track's `MaxLevel`,
the memo's `declaredAt`, its window or its `freezeVerdict`.

| Code | Model |
|---|---|
| `Track.MaxLevel`, `.LastAlert` | `track[t].maxLevel`, `.lastAlert` (0 is the zero time) |
| `trackMemo` | `memo[t]`: `declared`, `freeze` (name and end), `verdict` |
| `state.State` | `disk`: the tracks and `Dedupe`, which leaves `verdict` out |
| `freeze_windows[]`, `Prev` | `Windows`: per window its `starts`, `length`, `level` and `declared` (`include_declared`); the occurrence that counts is the one of the latest start |
| an alert | a topic appended to `told[t]`, or a reminder (`agent_still_active`), which changes `lastAlert` only |
| the daemon killed and started again | `Restart`, at any moment after any save |

`told` and `heard` are history: the topics alerts were about, and the highest
levels that were seen and shown. After a restart they are those of the last
save, as what happened since is unknown to the daemon; an id whose track was
made after the save stands for a new track. No action reads them but for
appending to them.

A track's entries are touched by its own actions only, so one track is enough
for the runs; the proofs are for any number. The windows of the runs are a
recurring one with two occurrences and the default level, and a one-off window
at info that spares declared agents and begins where the other ends; five ticks
cover time before, inside, between and after them. A second restart meets no
state the first does not (`MaxRuns = 1`): only the number of the run differs.

### What the runs check

`alerts` checks that nothing goes unreported (`Covered`: the highest level the
scorer gave is that of an alert or of the verdict an alert carries), inside
windows on the verdict itself (`CarriedInFreeze`), that each occurrence of a
window is told (`OccurrenceTold`), and that the policy implements `Reporting`
(`PromiseKept`): a topic is told once, a reminder waits for `RealertInterval`,
`agent_ended` comes exactly for what was told at alert or above, and a restart
takes nothing back that a save recorded. `Reporting` knows neither windows nor
levels; the escalation topics carry the number of the run, because the code
does not keep what it would need to tell them once only.

The run `realert` (`NotRealerted`) ends with a counterexample: `Dedupe` does not
export `freezeVerdict`, so an escalation inside a window is told again after a
restart, although the package `state` promises to resume without re-alerting.

### What is proved

`AlertPolicyProofs` proves `PolicyKeepsPromise == ASSUME Steady PROVE Spec =>
PromiseKept` for every number of tracks, every interval, bound and list of
windows under `PolicyAssumption` (windows have unique, non-empty names and
positive lengths, as `Validate` demands).
`Steady` says that an occurrence that gave way to another does not come back.
Lists without overlaps are steady. Overlapping ones need not be: a window
hidden for a while by an earlier one of the list is told twice, by the code and
by the model. `MCAlertPolicy` checks that the runs' windows are steady.

The invariant `IInv` says that the track's level and memo account for every
topic told: its level is at most `maxLevel`; a declaration is in the memo; a
violation is of the memo's window or of one whose time is past (`Past`); an
escalation is of an earlier run, or past, or not above the memo's verdict. It
says so of the live state and of the saved one, the latter as of the next run.
From it follows for each branch of `Observe` that its topic is new
(`TellStep`), that reminders are about something told (`FrozenStep` needs that
an occurrence has one level, `OneLevel`), and for `Ended` that `maxLevel`
reaches alert exactly when a loud topic was told.

It also proves the four invariants of the run (`PolicyTypeOK`,
`PolicyCovers`, `PolicyCarries`, `PolicyTellsOccurrences`), without `Steady`.
Their invariant `HInv` ties what `Observe` compares with to what was shown: the
track's `maxLevel` is at most the level of an alert, the memo's verdict at most
one an alert carried, a window in the memo was told and carried at least info,
and a declaration left the track at info or above. A branch that stays silent
(`SilenceShown`) is silent about a verdict below one of these.

## The correlator: `Tracks`, `Correlator`

`Tracks` holds the state and the helpers (`findConn`, `index`, `unindex`,
`moveConn`, `trackFor`, `touch`, `drop`, `refreshDeclared`, `addExec`,
`attributeLocal`); `Correlator` holds one action per handler, `Expire`, a
restart and the clock. The Go struct is the record `c`, and a helper maps a
record to the next one, because a handler calls several in a row on a single
goroutine: their composition is one step. `Finish` is the tail of `Apply` (the
touch of the track the handler returned).

| Code | Model |
|---|---|
| `byPID`, `byTuple`, `bySes`, `byProcPID`, `userLast`, `plumb`, `sessParent` | fields of `c` with the same names: total functions whose absent entries hold the zero value a Go map returns |
| `tracks`, `byKey` | `c.live`, the keys of the tracks, and `c.tracks`: `trackFor` makes a track only when its key has none, so the key names it |
| `Track.Execs`, `.Procs`, `.NetConns`, `.Connections` | `c.execs[k]` (in order), `.procs` by pid, `.net` the times, `.conns` a set |
| `*connRef` with its `Connection` | an id in `1..MaxConns` and the record `c.conns[r]`; ids nothing refers to are blank and used again (garbage collection) |
| `uidUser` | the set of accounts whose uid is known: a uid stands for its account |
| an event | the handler's action, with the fields it reads chosen by `\E` from small sets: any reader may say anything the parsers produce |

Abstractions: `FirstSeen` is left out, so the order of the tracks in the state
file is any (`Rankings`); a track's `Mode`, banner, PTY and counters feed the
scorer only; a connection's first declaration is any of its declarations.
`recentOpenConn` and the loops over Go maps pick in any order: every choice is
taken. `MaxLag` lets a timestamp lag the clock.

Bounds of the model: `MaxConns` connections referenced at a time (a handler that
needs one more cannot happen), `MaxTime`, and the sets of pids, accounts,
addresses, sessions and agents. `MaxExecs`, `Window`, `ProcTTL` and `PlumbTTL`
are options of the program at small values.

### What the runs check

| Run | Instance | Shows |
|---|---|---|
| `sessions` | two accounts (interchangeable, by symmetry), two connections, one port, two pids, two ticks | sshd's own lines: provisional connections, moves, closes, expiry, restart |
| `declarations` | one account, one connection, an agent and a malformed claim, processes of two pids | claims of connections and processes |
| `audit` | one account, one connection, one audit session | auditd's logins and execves, sockets |

`TypeOK` is the type invariant and the bound of the exec samples.
`IndexIntegrity`: no index leads to a dropped track, to a track without the
process, to another account's track or to a connection that never had the pid,
and no connection is on two tracks. `IdentityKept`: a connection is on the
track of the account, address and key it has now. `EvidenceKept`: a track goes
only when idle or when another took over all it held. `DeclaredBacked`: a
track's declaration is the claim of something on it now. `UserLastNewest`: the
track unattributed processes fall back to is the user's most recent one (when
timestamps come in order, `MaxLag = 0`). `BornWithConn`: only a connection or a
local process makes a track.

Why the bounds suffice: the moves, drops and joins that can go wrong involve two
connections (or processes) and two or three tracks; two pids make reuse and a
child different from its parent possible; two ticks with `Window = 0` make every
track expire at some point while another lives. The runs are split by source of
the lines since the state space multiplies.

### What the code does not keep

Three runs end with a counterexample; each contradicts a comment of the code.

* `lost_connection` (`OpenConnFound`): when auditd announces a connection
  before sshd's Accepted line, `moveConn` empties the provisional track and
  drops it while the connection still names that track, so `drop` takes the
  connection out of the pid index, for good.
* `promoted_process` (`SessionJoinEarned`): `Restore` indexes the audit session
  of processes that were only placed on a track, so after a restart they count
  as attributed.
* `kept_claim` (`ProcWithdrawable`): a process seen again on another track keeps
  its sample on the first; its end does not reach that sample.

### What is proved

`CorrelatorProofs` proves `IndexIntegrityHolds == Spec => []IndexIntegrity` for
all constants that satisfy the two assumptions of `Tracks` and the one of
`Correlator` (sizes are naturals, names differ from the markers, pids, ports
and sessions are positive, inputs are of their types).

`IndexIntegrity` is not inductive: that an index leads to a live track after a
`drop` depends on the connections the indexes lead to naming tracks that are
live. The invariant is `IInv`: `Sound(c)` and a clock in `Nat`, where `Sound`
is the conjunction of

* `StateOK`, the types of all fields, with a bound on the samples of a track;
* `Listed`: a connection is listed by the live track it names and by no other;
* `Reached`: a connection an index leads to names a live track or none;
* `TrackIndexesLive` and `PidIndexSound`;
* `NoOrphan`: every connection names a live track or none.

In the middle of a handler a connection is off its old track and not yet on the
new one, and after a drop connections nothing refers to still name the dropped
track. Hence the helpers are proved with `Weak(s, X)`, which excepts the
connections of `X` and leaves `NoOrphan` out, and `CollectSound` gets `Sound`
back at the end of the step. There is one lemma per helper, one per part of a
handler and one per action; `NextIInv` puts them together.

The same invariant gives `StateTyped == Spec => []TypeOK`. Its hard part is the
samples `moveConn` takes along: `Tracks` writes the loop as `Pick(xs, own)`, the
elements at a set of places in their order, and not as a `SelectSeq`, of whose
definition the provers have nothing. `RankProps` and `PickProps` say of `Pick` that it is a
sequence of as many elements as there are places and has all of them, and
`AddExecsSaved` that a track full of samples lost one only to a newer one.

`CorrelatorInvariants` builds on that and proves five more, for the same constants:

* `IdentityHolds == Spec => []IdentityKept`,
* `DeclarationsBacked == Spec => []DeclaredBacked`,
* `LastTrackNewest == ASSUME MaxLag = 0 PROVE Spec => []UserLastNewest`,
* `TracksConnected == Spec => BornWithConn` and
* `EvidenceSurvives == Spec => EvidenceKept`.

The third has the hypothesis the property is stated under: an event that lags
the clock touches its track with an older time and may leave `userLast` on a
track another one has overtaken, and `sessions` checks it with `MaxLag = 0` too.
The invariant is `JInv`, `IInv` with `Fine(c, now)`, where

* `Identified` says of every connection, not only of those on a list, that the
  track it names is the one of its user, address and key. It also says that a
  connection no user is known of has no address and no key: `ensureConn` makes
  the key of a track from the *event's* user and address, so a connection that
  had learned an address before it learned its user would be booked on another
  identity than it has;
* `Held` joins `Backed`, that a track shows a claim of something on it, with
  `Newest`, that `userLast` is the user's most recent track and no track was
  active after the clock. The last is what `touch` needs: the track it moves
  `userLast` to must not be overtaken by one touched in the future.

Neither holds between two helpers of one handler: `moveConn` changes two lists
before `refreshDeclared` is called for them, and a track `trackFor` has just made
is active now while `userLast` still leads to another until `touch` at the end of
the event. `Held(s, X, Y, T)` excepts the tracks of `Y` from `Backed` and those
of `X` from `Newest`. A helper that disturbs neither is `Calm`, and `CalmHeld` is
the frame lemma most others cite; `DoubtHeld` and `RefreshHeld` take tracks out
of `Y`, `FinishFine` takes the event's track out of `X`.

`TracksConnected` is an action property and needs more than an invariant of the
states between helpers: `Grown(s, t, r)` says that a part of a handler has made
no track but the one connection `r` is on. With `Listed` the new track then has
that connection on its list (`ConnBorn`), so the step is `Born`. The other makers
of tracks, `proc.seen` and `net.conn`, use a track the correlator has or a local
one (`AttributeHome`).

`EvidenceSurvives` needs the same of the tracks a step ends. `Leave` drops a
track only when nothing is left on it, so its samples were all among those that
went to the destination (`Handed`), and that is a live track until the end of
the handler (`Stays`). `Spared(s, t)` says of a part of a handler that what it
ended has been taken over; a part that leaves processes, sockets, connections
and samples alone is `Alike`, and the lemmas on the three compose. Only `Expire`
drops a track for its age. `Saved` counts a sample as kept when the track it went
to is at `MaxExecs`: `addExec` then cuts the oldest, whichever it is.

Every property the passing runs check of the correlator is proved. The claims of
the three counterexample runs are false and stay with TLC.

## Delivery: `Delivery`, `Outbox`, `DeliveryProofs`

`Delivery` models `fanout`, `enqueue`, the goroutine of each sink (`run`,
`deliver`) and `Close`. `enqueue` is three channel operations with the worker
running between them (send if there is room, take the oldest, send again if
there is room now), so it is a program counter and four actions; the worker's
`select` may take its queue or the cancelled context when both are ready.

| Code | Model |
|---|---|
| `sinkWorker.ch` | `queue[s]`, bounded by the sink's `queue` |
| the goroutine of `Observe` and `Close` | `emitter`, `closer`: one goroutine, so no alert is emitted while `Close` runs (`app.Run` defers it); one emitted after `Close` is refused |
| `run`, `deliver` | `worker[s]`: `select`, `send`, `backoff`, `exited` |
| `SinkStats` | `tally[s][a]`: how an alert was counted, a sequence so that counting twice shows |
| timers of `Close` and of the retries | may fire at any moment |
| SIGINT, SIGTERM | `Signal`: cancels the context given to `Start` |

`delivery` checks on three alerts and two sinks that an alert a sink wants is
counted exactly once or is in one place on its way (`CountedOnce`); that a
`Close` within its deadline leaves nothing behind (`Flushed`); that an alert on
a queue is counted in the end as long as nothing cancels the context
(`Settles`); and that the queues implement `Outbox` (`KeepsPromise`), which
knows no goroutines: alerts go one at a time, the oldest first, a new one costs
at most one older one, and only if it found the queue full.
Three alerts fill the queue of two and overflow the queue of one while another
is in the worker's hands; one retry is enough to come to every branch of
`deliver`.

### What is proved

`DeliveryProofs` proves `TypeOK`, `CountedOnce`, `Flushed` and `KeepsPromise`
for every list of sinks with queues of at least one, every number of retries
and every number of alerts (`DeliveryAssumption`). The three invariants follow
from the inductive `IInv`, which has three parts beyond the types:

* `Doorway`: what `fanout` and `Close` leave to each other. They run on one
  goroutine, so a closed dispatcher never has an eviction under way, and the
  alert at the door is the newest one.
* `Shelf(s)`: the queue of a sink rises, so that its head is the oldest alert;
  each alert is at one place (`Placed`); and after an eviction there is room,
  since only `enqueue` puts, under `qmu`. Hence its last branch, which drops the
  new alert because the second attempt found the queue full again, is never
  taken.
* `Ending(s)`: a goroutine that ended while nothing was cancelled ended because
  its queue was closed and empty, and stays so until `Close` returns.

`KeepsPromise` needs, besides `IInv`, that the fate of an alert is determined by
its place (`FateFacts`), that one step changes one fate (`FatesChange`), and
that a rising queue has as many alerts as positions (`RisingCard`), since
`Outbox` counts the alerts that wait and the code looks at the channel's length.
Only model-checked: `Settles`, which is liveness.

## The pipeline: `Pipeline`

Events travel through the reader (`rd`, with its position), `in`, the
forwarder, the drop-oldest `queue` and the loop. The loop's pieces (`Handle`,
`FlushDirty`, `Maintain`) are functions of the tracks and the dirty set, since
`feed` (replay, `--once`) calls the same ones in another order and with time
taken from the events. What `Apply` makes of an event is given with the event
(its track, whether it is strong, a provisional track it absorbs and which
`OnDrop` removes from the dirty set).

Times are ages that count up to the limit they are compared with. A save stores
time stamps, which on disk become the age 0; the restart chooses whether the
daemon was down for no time or for longer than the window. `Restart` is both a
crash at any moment and the next start after a clean stop; a save that fails
leaves the old file (`state.Save` renames a complete one).

`pipeline` checks, with channels of length one so that every event contends:

* `DirtyExact`: a track is dirty exactly when it has evidence it was not
  evaluated for, and none that ended or was absorbed is. Restored tracks are
  the exception (`inherited`): the dirty set is not saved.
* `AppliedOnce`, `Accounted`: no event is applied twice, in memory or in what
  is saved, and each is applied, on its way, counted as dropped, or lost with
  the process. Lost ones exist: the position saved is the reader's, which is
  ahead of the tracks by what is on the channels.
* `EndedEvaluated`: no track ends unevaluated, in the daemon (the flush is more
  frequent than the tick) and in a replay that jumps over the whole window.
* `CleanStop`, `ShutdownEnds`: the shutdown ends although a reader hangs, and
  leaves nothing unevaluated.

The model keeps the order of the code's tickers by letting `Time` pass only when
the loop has taken the ticks that are due: a loop that lags behind by a whole
interval is outside the model. One reader stands for all that can resume.

### What is proved

`PipelineProofs` proves the six invariants of the run for every log, every
length of the two channels, every set of tracks, all intervals and any number of
starts (`PipelineAssumption`: sizes and intervals are positive, a log is a
sequence of events). Five of them follow from the inductive `IInv`, which adds
to the properties what they depend on:

* `Typed`, where the forwarder carries an event exactly between taking one and
  putting it (`Carrying`), and `Resting`: a replay and a daemon that is down have
  no reader, forwarder or channels, so nothing is on its way in `Restart`.
* `InOrder`: the events applied come before those on the queue, these before the
  one the forwarder holds, these before those on `in`, and each sequence rises.
  `AppliedOnce` is not inductive without it: that the next event to be applied
  is new is a fact about the whole way it went.
* `Kept`: the events up to the reader's position are those on that way, the
  dropped and the lost, and these are apart; while the daemon is down the same
  holds of the saved position and the saved tracks, from which `Start` has to
  come back to it.
* `SavedInOrder`: what is saved, or is being saved, is ordered, within its
  position, and behind what is in memory. The position is the reader's at the
  time of the save and the events applied came through it, so a restart never
  reads again what the tracks already have.
* `DirtyExact` and `Ended`, the latter of the tracks between the last flush and
  the last save.

`EvidenceEvaluated` (`EndedEvaluated`) is about time and needs `InTime` as
well: the age of each dirty track plus the time until the flush that evaluates
it (`Wait`) does not exceed the window. A track becomes dirty only if it was
evaluated less than an interval ago; it waits for the next flush, or for the one
after it if the next one comes too early for it. In a replay the clock jumps,
and the argument is another one: the event is applied, then comes the flush and
only then the end of the idle (`Late`, `FeedInTime`). The theorem assumes
`WindowAssumption`: the window is at least two flush intervals less a tick. TLC
finds a track that ends unevaluated for a shorter one, so the assumption is
needed; the code has a window of 15 minutes by default and an interval of 2
seconds, but the configuration accepts any positive window (`config.go:349`).

Only model-checked: `ShutdownEnds`, which is liveness.

## The readers: `AuditTail`, `RecordGroups`, `ProcScan`, `JournalSource`

`AuditTail` is `FileTail` next to an auditd that writes lines, perhaps in two
pieces, and rotates. A line is two units of an offset, so that offsets can fall
inside a line. `reopenIfNeeded` is two steps, the stat and the open, and
finishing the rotated file is a third. History variables say which line the
parser is due (`next`) and which lines were `skipped`; `excused` are lines in a
file that was rotated away before a poll could see it (two rotations between
two polls, or while the daemon was down), and those before the end of the file
when `Run` starts there, because it has no position or one of offset 0; `raced`
says that a rotation fell between a stat and the open after it. `NothingSkipped`, `LinesWhole` and, under
fairness of the poll, `LineFed` say that otherwise each complete line is fed,
once and uncut. Three lines, three files, one read error and one restart suffice
for a rotation before, during and after a poll that ends inside a line.

`RecordGroups` is the `Parser`: `FeedRecord` (`Feed`) closes groups two serials behind, at
`EOE`, and at `PROCTITLE`; `Flush` closes those too old; a replay closes all but
some and the rest at its end. Records of adjacent events interleave, one may be
lost, the serial numbers start again after a boot. The map of groups is a
function of the serial, and the slice `order` the set of older groups each group
has: closing one takes it out of the others' sets. `EventWhole`: an exec is told
once and with all its records, unless they came further apart than the age.
`ExecTold`: no group stays open.

`ProcScan` is `Scan` and `ScanNet`, composed with what `procSeen` and `procGone`
make of their events by pid (`view`). `ScanView`: the correlator knows what the
last scan saw. A reused pid is the exception, until the next telling: `proc.seen`
of the new process comes before `proc.gone` of the old one, which has the same
pid. `ProcKnown`: a process that keeps matching is known in the end, because of
the refresh.

`JournalSource` is `runOnce` with the journalctl child, the pipe and the cursor
file, which the child writes when it exits and the source on a timer and once
the child is gone. `JournalExact`: after any death of the child the next one
begins where the source was, because the source's last write comes after the
child's. The hypothesis is that the writes succeed (`unsaved = 0`).

### What is proved

`TailProofs` proves `NoLineSkipped` (`NothingSkipped`) and `NoLineCut`
(`LinesWhole`) as `THEOREM Spec => []...` for any number of lines, files, read
errors and restarts; `TailAssumption` says that these bounds are numbers and
that there is a file. Neither property is inductive: whether the next line fed
is the one due depends on where the offset, the partial line and the inode stand
together, and on what lies between a rotated file and `audit.log`. `IInv` has

* `World`: the files follow each other without a gap, all but the newest end
  with a whole line, and `lines` counts what they hold;
* while no poll raced, `Reading`: the offset is in the file of the inode, the
  partial line is one unit past it or there is none, an odd offset is the line
  the reader joined in the middle, the line due is not past the one at the
  offset and those between are excused (`Reached`), as are the lines between the
  end of the reader's file and the first that nobody passed over (`Beyond`);
  while a rotated file is being finished the same holds of the position kept
  of it, and the new one is at its start;
* `Saved`: the position in the state file is one the reader had, and what lies
  between the line due and the saved line is excused.

`FeedFacts` is the lemma all of it turns on: what is fed from a line not before
the one due, up to the end of a file, leaves nothing passed over, repeated or
cut. Each action then shows that it feeds from such a line. The condition
`~raced` is needed: after the race the reader holds one file under the inode of
another.

`ReaderProofs` proves `ViewFollowsScan` (`ScanView`) for every set of pids and of
sockets: between two scans the view of a pid is what the last one found, or
nothing for a pid that was used again; and a connection that was told stays
seen until it closes, so it is told once. It also proves
`EntriesSentOnce` (`JournalExact`) for any number of entries, children, failed
writes and cancellations. Its invariant says for each place of `runOnce` which
entry is due (`Expected`) and, as long as no write failed, whose the cursor in the
file can be (`Writers`): what the source flushed last, or, once the child is
dead, where the child stood, which may be ahead of what was read. The flush
after the wait for the child makes it the source's again, so that the next child
is spawned where the source was. `ScanAssumption` and
`JournalAssumption`, which give the constants their types, are hypotheses of the
two theorems; `MCReaders` assumes them, so TLC evaluates them.

Its third result is `EventsToldWhole` (`EventWhole`), for every set of events the
kernel may write that satisfies `GroupsAssumption`: a login record comes alone,
nothing but `EOE` comes after `PROCTITLE`, and a replay keeps at least two groups
open (`replayKeepOpen`). `ToldWhole` says of one event what the parser has of it:
nothing told and all its written records in the group, or all of it told and
nothing to come. It survives the closing of a group only when no record of the
event is to come (`CloseWhole`), so the rest of the invariant is about when groups
are closed. Stale ones belong to complete events, because the kernel writes only
two adjacent ones at a time, and numbers that start again make a group look newer
and never older (`Ordered`, `StaleComplete`). The sweep of a replay closes a group
with at least two newer ones; next to an event still being written at most one
was opened later (`Opened`). Only `Flush` may close a group too early, and
`late` says which.

`ReadersTyped` (`ReadersTypeOK`) joins the types of the four modules over `MCSpec`;
its assumption is `ReadersAssumption`, those of the four. The types are more than
domains, so each has an invariant of its own: `Typed` of the tail holds without
`~raced`, whatever file the reader took for another, because a position kept of
any file lies within what some file holds and what is fed ends with a written
line (`LinesWritten`, `TailStateTyped`); `GroupsBounded` follows the records of a
group to their event (`FeedBounded`, `WithoutEntries`, `GatheredEntries`);
`ScanBounded` uses that a process whose telling reaches `RefreshEvery` is told of in
that scan (`EmitFacts`); `JournalTyped` is the one above. A step of one reader
leaves the others alone (`ReadersOneAtATime`).

Only model-checked: the liveness properties `LineFed`, `ExecTold` and `ProcKnown`.

## The host: `HostCheck`, `Allowlist`

`HostCheck` has the files of a host, what sshd and the kernel have loaded of
them, an administrator who edits and reloads at moments of his own, and
`check --fix` as three steps, each of which may fail and between which it may be
killed. `Run(viewer)` is the report of `check`, with its coverage and exit code,
for root and others, with and without `--probe`. What sshd makes of the same
files (`SshdReads`) is defined apart from the parser of `check`: first value
wins, outside `Match`, `Include` in place.

* `CheckHonest`: on a host that runs what its files say, a family reported live
  can fire (when the results on the sshd log are clean), and exit code 0 means
  that all required families do.
* `FixConverges`: a fix that ends with exit code 0 makes `check` exit 0 once
  sshd and the audit rules are reloaded, unless the administrator's own lines
  override the drop-in (`Overridden`), as `fixfiles.go` says.

`Allowlist` goes from the profile entries of up to three files, merged by id,
over validation and `profiles_enabled` to the verdict on a session with any set
of the clues of `ClueIds`. The weights and caps of the code are kept.
`AllowlistBounded`: a session is scored without a profile or with one in force
that covers it, and a profile that does not allow agent processes neither
removes a clue of a protected category nor pushes the score below what agent
processes and flags are worth; a declaration stands whatever the profile.

Abstractions: drop-ins do not include other files; `sshd -t` accepts what is
written; audit rules count for the arch and the syscall only, not for a `never`
rule before them; an sshrc with the hook's marker has the hook; detectors'
`require_two_categories` and the thresholds are the defaults; of a pack only the
profiles.

### What is proved

`HostProofs` proves both properties of `check` for every host, every list of
`sshd_config` files and audit rules, and any number of edits:

* `ReportIsHonest == HostSpec => []CheckHonest` and
* `FixIsEnough == HostSpec => []FixConverges`.

The only assumption is `HostAssumption`: files are sequences of lines, a log file
is in one of the four conditions `check` tells apart. `HostInit` and `HostNext`
range over every file of the constants, so the heart of both is that the parser of
`check` and sshd read the same out of any files (`SettingsAgree`). The two work
differently: the parser walks the lines and keeps the first value it met, an
`Include` becoming a walk of the drop-ins; sshd's reading first puts the global
text together (`Global`) and then looks for the first level in it and for any
`AcceptEnv` (`SshdReads`). `Reads(p, text, q)` says that going from parser state
`p` to `q` took in exactly `text`; it holds of a line (`ParseLineReads`), composes
over a concatenation (`ReadsThen`), and so holds of a file, of the drop-ins and of
the main file with them at its `Include`.

Both readings are recursive functions over the lines, and the induction is done
here from first principles, because an induction theorem of the library takes its
hypothesis as an operator, which the installed provers do not instantiate. `Least`
gets a least element of a set of naturals from `WFMin` and the well-foundedness of
`<`; `Induction` is stated of the set of numbers a statement is true of; and
`Recursion` shows that a function given by its first value and a step exists, from
the least number up to which none does. `Agree` makes it the one a definition
chooses.

`ReportIsHonest` needs of a state only that it is typed (`HostTypeOK`, inductive):
`FactsAgree` and `CoverageFires` then follow the report's conditions one by one.
`FixIsEnough` needs `FixInv` too: as long as the last fix stands and no step of it
failed, the drop-in is in place and included, and what its finished steps promised
of the hook and the audit rules holds. `FixedSettings` shows from this that sshd,
once it reloads, reads a level and an `AcceptEnv` that suffice, unless the
administrator's lines come first (`DropInDecides`), and `ConvergedNow` that the
exit code is 0. TLC checks `HostTypeOK` and `FixInv` too when they are given to it
as invariants of `host`.

`HostProofs` also proves `VerdictsBounded == PolicySpec => []AllowlistBounded`, for
every embedded pack, any number of further files, every list of enabled ids, every
set of clues and any commands. The assumption, `AllowlistAssumption`, only says that
files are sequences of profile entries and that the clues are clues of the code. The
invariant (`PolicyInv`) is that the profiles of a daemon that runs are entries in
force (`PackInForce`). Two arguments carry it:

* Loading. `InForce` is read off all entries at once, the last of each id; the code
  folds `upsert` over each file and `Merge` over the files. `Latest(list, entries)`
  says that a list has no id twice and that each element is the newest entry of its
  id among those read so far, and does not disable it. `UpsertLatest` keeps it for
  one more entry (added, replaced in place, or removed), `MergeLatest` and
  `FilesLatest` by induction over a file and over the files, `KeptEnabled` over the
  loop that drops what is not enabled.
* Scoring. A sum over a set of clues is a choice of the library's `MapThenFoldSet`, so
  `SetInduction` and `SetRecursion` do for finite sets what `Induction` and `Recursion`
  do for numbers; `SumRemove` takes any element out of a sum first, `SumMonotone`
  compares two sums. A profile that does not allow agents leaves their clues
  (`ProtectedStay`), all other categories add at least 0 (`ContributionBounds`), and
  taking clues out never raises what a human's clues excuse (`NegativeGrows`): an
  interactive shell excuses nothing before and after, since the process clue that
  forbids it stays. Hence `ScoreCovers`, also where `max_score` applies.

Whether a session's commands reach the ratio of a profile is whatever the code
computes: the theorem needs only the conditions on the user and the required command.
Which of two profiles comes first, and that an invalid pack is refused, are in the
model but not in the property.

## Runs

| Run | Distinct states | Shows |
|---|---|---|
| `sessions`, `declarations`, `audit` | see above | the correlator |
| `alerts` | see above | the alert policy implements `Reporting` |
| `delivery` | 207 thousand | queues, retries, shutdown; implements `Outbox` |
| `pipeline` | 344 thousand | from the readers to the saved state |
| `readers` | 4 readers | tail, groups, scan, journal |
| `host` | 433 thousand | check, fix and the allowlist |
| `lost_connection`, `promoted_process`, `kept_claim`, `realert` | counterexamples | disagreements of the code with its comments |

`delivery`, `pipeline`, `readers` and `host` do not check for deadlock: alerts
stop coming, a daemon stops, a file is complete, and a daemon that was refused
its pack does not run.

## Fairness

None of the correlator's and the policy's properties is a liveness property and
their specifications state no fairness: which lines, verdicts, saves and ticks
come is not the program's choice.

* `Delivery`: weak fairness of the enqueue, of each sink's goroutine and of
  `Close`. Go runs a goroutine that can run; `Send` has a timeout, the waits
  between attempts and those of `Close` are timers. Nothing makes alerts come
  or `Close` be called.
* `Pipeline`: weak fairness of the forwarder and of each branch of the loop, and
  strong fairness of `Break`, the branch of the `select` that ends the loop. It
  is disabled while the loop saves and ready again after it; Go picks among the
  ready branches at random, so a branch that is ready again and again is taken.
  The reader has no fairness: `ShutdownEnds` holds although it hangs.
* `AuditTail`: weak fairness of the poll (a ticker) and of the creation of the
  next `audit.log` after a rename (auditd opens it at once). `RecordGroups`:
  weak fairness of the reading of lines that are there and of the `Flush` of
  every poll. `ProcScan`: weak fairness of the scan, which may fail a bounded
  number of times.

## Where code and documentation disagree

Four findings have a run that ends with a counterexample (`lost_connection`,
`promoted_process`, `kept_claim`, `realert`). Others were met while modelling
and have none; the properties above are stated so that they hold beside them.

* `docs/cli.md:17-19` says that a signal stops the readers, flushes the sinks
  for up to five seconds and saves. The signal cancels the very context the
  sinks' goroutines run under (`app.go:106`), so a goroutine may leave its queue
  as it is (`dispatcher.go:288`): the alerts on it are neither sent nor counted.
  `Flushed` excludes a signal.
* `ARCHITECTURE.md` promises an alert at the first crossing of 70 and 90; a
  freeze violation raises `MaxLevel` to the window's level, so that a crossing
  after the window is no alert. `Covered` speaks of the levels alerts had or
  carried.
* `FileTail` says that it "resumes at Offset when the inode still matches"
  (`tail.go:43`). `Run` takes an offset of 0 for no position (`tail.go:136-144`),
  and a save just after a rotation stores 0 with the new inode: started again,
  the reader begins at the end, and the lines written meanwhile are passed
  over. `excused` counts them.
* `check` asks for `journalctl --version` where the daemon wants a running
  journald, and falls back to the usual file where a configured one is missing,
  which the daemon does not (`SourceAgrees` in `HostCheck`).
* `check` validates `allowlist.extra_file` on its own and never merged with the
  pack, as `loadPack` does.

## Not modelled

Log and record syntax (what the parsers accept is represented by the fields the
events carry), regular expressions and the detectors that decide which clues a
session shows, wire formats of the sinks, the rotation of the JSON file and
what a closed sink does with a late alert, the metrics endpoint, cron
expressions, the resolved host names of `hostlist.go`, the table of failed
logins (nothing reads it), the audisp socket and the file source of sshd's log
(neither keeps a position), truncation of `audit.log` in place, and the
commands `report` and `simulate`.
