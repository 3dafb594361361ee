# block-sleep in TLA+

TLA+ specifications of `block-sleep`, TLC configurations that model-check them on
small instances, and proofs that TLAPS checks for every value of the constants.
The Go code in `src/` is the reference; line numbers are of that code.

## The system: inventory

| part | state | operations | hard parts | correct when |
|---|---|---|---|---|
| **when controller** (`when.go` 636-718) | inhibitor, grace timer and its channel, `holdUntil` | `onResult`, `onResume`, `onGraceExpired`, `stop` | verdicts, resumes and expiry in any order; timers across suspend | one lock at most; released only after a whole grace period and a whole hold |
| **when watcher** (`when.go` 396-634, 778) | event loop, check goroutine, `trig`, signal channels, its state file | one case of the `select` each | select picks any ready case; triggers during a check; suspend; restarts; a full signal channel | no trigger lost; settles on what the condition says; status is true; SIGTERM is honoured |
| **inhibitor** (`inhibit.go`) | a logind descriptor or a `sudo systemd-inhibit` process | acquire, release, loss | refusal, a process that dies at once or later | as part of the controller |
| **when unit and its commands** (`when.go` 128-392, 720-846) | user unit, its file, the state file, `[when]` in the config | start, persist, unpersist, stop, recheck, describe | placeholder state before the unit, restart windows, results of an earlier run | a live unit keeps its ID; a failed start leaves nothing; what is reported is so; stopped stays stopped |
| **state files** (`state.go`) | `<id>.json`, `<id>.json.tmp`, `<id>.pipe` | read, write by rename, list, clean up, next ID | several writers of one file; clean-up racing a start; reuse of IDs and of PIDs | readers see whole files; live blocks keep theirs; IDs are unique; signals go to blocks |
| **block daemon** (`daemon.go`) | FIFO, `sudo systemd-inhibit cat`, state file, `sigCh` | `startBlock` (client), `runDaemon` | client's time limit against the daemon's; signals before `Notify`; skipped deferred calls | reported means held; ended means released |
| **modes** (`modes.go`, `hold.go`, `await.go`) | timer, pipe, pidfd, poll | `Run`, `Reload` | reload races its own goroutines; a pipe that is made after the block is reported; PIDs that are reused | a block ends when its mode says, and then only |
| **run mode** (`run.go`) | like the daemon, in the foreground | `startRun` | `os.Exit` skips deferred calls; signals before, while and after they are caught | block as long as the command |
| **command line** (`main.go`) | none of its own | status, stop, extend, list, durations | PIDs read before they are used | does what it prints |
| **configuration, install-sudoers** (`config.go`, `install.go`) | files read or written once | load, install | none | not modelled: plain I/O |

The parts meet in four places: signals (D-Bus, SIGUSR1, SIGTERM), the state files,
the FIFOs, and logind, which holds the locks.

## Modules

| module | what it is | extends |
|---|---|---|
| `ConditionalBlock` | abstract: what `when` promises of one lock | |
| `HeldBlock` | abstract: what every other kind of block promises, from its start to its end | |
| `WatcherProcess` | abstract: the watcher's process, lock and state file as seen from outside | |
| `WhenController` | `whenController` and its inhibitor | |
| `WhenWatcher` | `runWhen`: loop, check goroutine, channels, state file, unit, suspend | `WhenController` |
| `WakeHold` | a statement of the documentation about wakes | `WhenWatcher` |
| `TimerMode` | `TimerMode`: timers, the goroutine of every `Run`, `Reload` | |
| `BlockDaemon` | client, daemon, FIFO, child and commands of one block | `TimerMode` |
| `BlockClaims` | three statements of the documentation and messages | `BlockDaemon` |
| `WhenUnit` | the systemd unit around a watcher, the clients that start it and the commands that look at it or stop it | |
| `EventBlock` | `HoldMode`, `AwaitPIDMode`, `AwaitCmdMode`, `ForeverMode` under `runDaemon`, and `startRun` | |
| `BlockRegistry` | the state directory, shared by several blocks and commands | |
| `MC*` | instances for TLC | the above |
| `WhenControllerProofs`, `WhenWatcherProofs`, `WhenTriggerProofs`, `BlockDaemonProofs`, `BlockEndProofs`, `WhenUnitProofs`, `EventBlockProofs`, `BlockRegistryProofs` | theorems | the above |

Definitions called "Variant" stand beside the definition they differ from by one
slip (a dropped save, a swapped order, a lost reset). No specification uses them:
putting one in the place of its original makes TLC report the property it is
meant for, which shows that the property depends on that piece of the code.

### ConditionalBlock

One lock and no mechanism: `blocking`, whether the checks are `failing` and for how long
(`failAge`), and the age of the last resume (`wakeAge`). The lock is taken by a passing
check and by nothing else. It is given up when the checks have been failing for a whole
grace period and the last resume is `ResumeGrace` old, or with the process that holds it,
which forgets everything.

### HeldBlock

A block is before, on, over or perished (killed by a signal). It goes on only under a lock, keeps
the lock while it is on unless somebody kills the child that has it, is over only when there is a
`reason`, and nothing takes a lock for it after that. `BlockDaemon` and `EventBlock` both implement
it, each with its own reason: the timer that has run down, a reload without a file, a stop; the
write to the pipe, the death of the very process that is awaited, a condition that is false, the end
of the command. `BlockStage` and `BlockReason` of either module are the mapping. In `BlockDaemon` a
daemon that died while its child had yet to get past the FIFO is still "before": that child may take
the lock or let it go (this is what `any_exit` shows). A daemon that was killed after its block had been
published has "perished".

### WatcherProcess

The process of a unit is there or not, starting or up; the lock and the file change in one step, at
a check; the end of the process takes the lock and what the file said with it; anybody else may only
remove the file, or write one for a process that is to come. `WhenWatcher` (the inside) and
`WhenUnit` (the outside) implement this one specification: `WhenUnit` leaves out how a check comes
about, and this is why it may. The mapping of `WhenWatcher` takes the lock to be `Armed`, what the
controller knows: the moments in which a sudo inhibitor is dead and nobody has noticed are not seen
from outside (`StatusIsTruthful` and `LockIsAccountedFor` are about those).

### WhenController

`inh` is `c.inhibitor`, `graceC` the channel with its timer (`Off`, or the ticks left),
`holdLeft` what is left to `c.holdUntil`, `lostC` the inhibitor's `Lost()` channel and
`locks` the number of locks logind has. `OnPass`, `OnFail`, `OnResume`,
`OnGraceExpired`, `CancelGrace`, `Release` and `Stop` are the functions of the same
name, `Acquire` is `acquireInhibitor`; `OnPass` and `OnFail` are the two halves of
`onResult`. `failing`, `failAge` and `wakeAge` are recorded beside the code for the refinement
and read by no action of it.

The clock is the monotonic one of Go's timers, which stands still while the machine is
suspended. So timers and `holdUntil` are ticks that are left, and no tick passes in
suspend.

### WhenWatcher

One action per case of the `select` (`Handle...`), per step of the check goroutine
(`TakeTrigger`, `CheckExits`, `CheckTimesOut`), per step of the start (`Start`,
`Subscribe`, `EnterLoop`), and per thing that happens outside. A handler is atomic: the
loop is one goroutine, and what it calls touches nothing another goroutine of the
process touches except channels. `Save` is part of every handler that ends in `save()`.

What the data is abstracted to:

- a D-Bus signal is what `isTrigger` and `isResume` make of it: a match, a name signal,
  either half of `PrepareForSleep`, or the closing of the connection;
- a check is its verdict, taken when the command ends (the condition may change right
  after), or a timeout that says nothing;
- the state file is the fields that status and the loop use: PID of this process or
  another, armed, releasing, exit code;
- the condition changes silently only with `--every` or in suspend: otherwise a rule the
  user gave announces the change, which is what those rules are for.

`sig` has a bound (`BusCap`). godbus puts aside what a full channel cannot take and
delivers it later, so nothing is lost at the bound; the world only waits. `osSig` is
different: `os/signal` drops what does not fit its capacity, and so does `Notify`.

A `recheck` command reads the state file (`RecheckReads`) and, in a later step, signals the PID it
read if systemctl says that the unit runs (`RecheckSignals`); in between the process may have ended
and another one started, and the PID may have been stale when it was read. `recheck` is the number of
the process whose PID was read. The clean-up that `activeStates` does first is in `WhenUnit`.

`StartLimit` bounds the starts: systemd forgets old failures after a while
(`StartLimitIntervalSec`), the model does not, and `failed` is final.

### TimerMode and BlockDaemon

`left`, `waitsOn` and `closed` are, for each call of `Run`, its timer, its goroutine and its
channel; the current ones are the last. The goroutine evaluates `m.timer.C` in a step of its
own (`GoReads`), because it does so when it is first scheduled. The read races with the
write in `Run`; on the machines Go runs on, a racing read gives a pointer the field had at
some moment since the goroutine was started, and `GoReads` may take that moment.

`client` and `daemon` are program counters of `startBlock` and `runDaemon`, with a value for
each point between two steps that others can see. `fatalf` is `os.Exit`: `DaemonDies` leaves
the FIFO and the child as they are; the deferred calls are three actions, `DeferRemoveState`,
`DeferClose` and `DeferWait`. `DaemonKilled` is a SIGKILL or a panic at any point after the PID was
published, the deferred calls included (`slain` records it). A FIFO connects when the writer and `cat` are both inside
`open(2)`. Before `signal.Notify` a Go process dies of SIGTERM and takes no notice of
SIGUSR1; `sigCh` holds one signal and drops the next.

`status` stands for everything that only calls `activeStates` (`list`, the first phase of
`extend` and of `stop` without an ID); `extend` and `stop` are `extendByID` and `stopByID`.
One runs at a time, in steps: read, judge, write or clean up, signal.

`Durations` and `Extensions` are what `parseDuration` may make of an argument, in ticks from now. It
takes any number (`main.go:596`), so 0 is among them in every instance: a block, or an extend,
whose end has come before it begins. `TimerState` is what `startFor` and `startUntil` build of it.

The two limits of five seconds are not timed: each may strike at any moment. This adds
orders that need a very slow machine; the three statements that fail below fail with a slow
`sudo`, or with a goroutine that is scheduled late, as well.

### WhenUnit

`WhenWatcher` is the inside of the process; `WhenUnit` is what is around it. `unit` is what
`systemctl is-active` answers, `proc` how far the process is, `run` the number of the process,
which stands for its PID, and `starts` counts against `StartLimit` as in `WhenWatcher`. `client` is
where `startWhenTransient` or `persistWhen` is, `cmd` the one other command. That the file tells
what the process has at every save is not repeated here: it is `StatusIsTruthful` and
`FirstCheckIsHonest` of `WhenWatcher`.

`systemctl` may give no answer at any time (`Answers`), and then the code trusts the PID
(`when.go:813`, `825`). A stop is split in two, the job (`StopJob`) and the end of the process
(`Terminates`), and everything else may come in between. The placeholder counts for ten seconds,
which may be over at any moment (`PlaceholderAges`). `stopped`, `early`, `saved`, `swept` and `took`
are recorded for the properties and read by no action.

### EventBlock

`at` is where `runDaemon` or `startRun` is, `code` how it ended, `go` where the goroutine of the mode
is. The two functions take a block and give it back in the same steps, so they share the actions,
and `kind` says which one runs. The world is what each mode waits for: the path of the pipe and a
shell that writes to it, the process that has the PID, the condition, the user's command.
`os.Stat` and `syscall.Mkfifo` of `HoldMode` are two steps with the writer in between;
`pidfd_open` comes after the block was reported, and its PID may be of another process by then;
`Deaf` is the time in which a signal kills the process: before `signal.Notify`, and in
`startRun` after `signal.Stop` again. The goroutine of `startRun` takes a signal from `sigCh`
(`Receives`; `forward` is what it has in hand) and sends it to the command in a step of its own
(`Forwards`), when `sigCh` may have the next one already. `served` records the last signal after which
the command got one while it ran: it counts a signal that was dropped because another one waited,
which is then forwarded in its place.

### BlockRegistry

`path`, `tmp` and `fifo` are the three files of an ID. A block is one start to its end, with `at`
for the point where client and daemon are; a command reads a file, judges by the PID, and cleans
up, extends or signals. `writeState` is three steps: open the temporary file (which empties it),
write, rename. `fd` says what an actor's open file is by now, because a rename or a removal under
it gives that file another name or none (`path`, `lost`). Reading is one step: what is `Half`
written cannot be parsed, and `allStates` skips it. A PID is the block; once the block is gone another process may have
it (`taken`), and then `/proc` says it is there.

The code locks nothing. Two starts at once get one ID, a clean-up takes a placeholder, two extends
write into one temporary file, a block on its way out removes the FIFO of the next one. `raced`
collects the IDs on which two operations overlapped, until nothing is left of the ID, and the
properties except just these. So they say what the code relies on: that its users do not do two
things with one ID at once. Everything else may overlap: other IDs, long-lived blocks, the reuse of an
ID after a crash, after a failed start, after an end in order, the kernel's reuse of PIDs.

## What the runs check

| run | instance | checks |
|---|---|---|
| `controller` | grace 3, hold 5, any order of calls | `LockTracksInhibitor`: logind has just the lock the controller will release; `TimerCoversPromises`: a running grace timer reaches to the end of the grace period and of the hold; `TimerIsNoLonger`: and not further; `KeepsPromise`: the controller implements `ConditionalBlock` |
| `watcher_safety` | system bus, grace 1, hold 2, two starts | types; `NoLostTrigger`, `SettledIsRight`, `StatusIsTruthful`, `FirstCheckIsHonest`, `LockIsAccountedFor`, `DrivesController`: the loop uses the controller as its specification says; `ActsAsProcess` |
| `watcher_two_buses` | both buses, `--every`, no grace period, one start | `NoLostTrigger` |
| `watcher_liveness` | fair, no grace period, hold 1, two OS signals, two starts | `EventuallyBlocks`, `EventuallyReleases`, `StopIsHonoured` |
| `block` | fair, ends and extensions of 0 and 2 ticks, three commands | types; `PublishedIsHeld`, `StatusShowsEnd`, `NeverEndsEarly`, `LoopEndReleases`, `EndsUnlessLate`, `KeepsBlock` |
| `unit` | start limit 2, four processes, transient and persistent | types; `KeepsItsID`, `FailedStartLeavesNothing`, `ReportIsTrue`, `BlockingIsReal`, `StoppedStaysStopped`, `ActsAsProcess` |
| `events` | fair, all five kinds, three signals | types; `HeldWhileCommandRuns`, `CleanExitLeavesNothing`, `EventEnds`, `SignalReachesCommand`, `KeepsBlock` |
| `registry` | two blocks, two commands, two IDs, symmetric | types; `OneBlockPerID`, `BlockIsListed`, `SignalsHitBlocks` |
| `wake_hold` | as `watcher_safety` | finds the counterexample to `HeldAfterWake` |
| `any_exit`, `block_expires`, `failed_start` | as `block` | find the counterexamples to `AnyExitReleases`, `BlockExpires`, `FailedStartHoldsNothing` |

In words:

- **TimerIsNoLonger.** A running grace timer ends with the grace period of the first failing check,
  or with the hold of the last resume, whichever is later; only a resume after that check, which
  starts the grace period over, puts it off. So failing checks that keep coming do not.
- **NoLostTrigger.** Whatever happened that must cause a check (a matching signal, a resume,
  a recheck, a tick, a restart) is still on its way to one: in a channel, in the token, in a
  process that has yet to start its loop, or a check runs that has not looked yet. A recheck counts
  from the moment it read the state file: if the PID was stale, or the process ends before the
  signal, the next process makes up for it with its first check, as `when.go:761` says.
- **SettledIsRight.** When nothing is on its way and the last check was not killed, the block
  is held exactly if the condition holds, or is on a grace timer if it does not.
- **StatusIsTruthful.** While the loop runs, the state file has its PID, says `releasing` exactly
  while the grace timer runs, and `armed` exactly while logind has the lock, but for the moment
  between the death of a sudo inhibitor and its handling.
- **FirstCheckIsHonest.** Exit code 0 is in the file only with the block it took: `when`
  waits for it to report success.
- **LockIsAccountedFor.** One lock while the loop has a live inhibitor, none at any other
  time, over crashes and restarts.
- **EventuallyBlocks.** Once the condition holds for good, the machine stays awake, checks are not
  killed and the unit is not stopped or given up, the block is taken and kept, through lost
  inhibitors, refusals and restarts. **EventuallyReleases.** Once the condition is false for good
  and the machine stays awake, the block goes: no run of triggers or failing checks puts it off.
  **StopIsHonoured.** A SIGTERM that got into `osSig` ends the watcher for good and frees the lock,
  whatever else is ready and behind the rechecks that came first. (One that found `osSig` full is
  lost, and systemd's SIGKILL ends the watcher.)
- **ActsAsProcess.** The watcher's inside and the unit around it implement `WatcherProcess`: what
  the file says of a process and what it has change together, and never without it.
- **KeepsBlock.** The block implements `HeldBlock`, whatever ends it: no step ends a block that has
  no reason to end, and none takes a lock when the deferred calls have begun.
- **PublishedIsHeld.** A PID in the state file, on which the client reports success, stands
  for a lock logind has, unless somebody killed the child, which the daemon does not notice.
- **StatusShowsEnd.** The end in the file is the one the timer runs to, once an extend is
  through. **NeverEndsEarly.** The loop does not return on `doneCh` before that end. Both
  except an extend whose SIGUSR1 came before `signal.Notify` (the file says the new end, the
  timer runs to the old one) and a reload that found no file (which ends the block).
- **LoopEndReleases.** A SIGTERM in `sigCh`, or the end of the mode, leads to a daemon that is
  gone, a lock that is free and a directory without the FIFO; a daemon that is killed, once it had
  published, frees the lock too and leaves the FIFO to `activeStates`. **EndsUnlessLate.** The block
  ends by itself unless a reload overtook a goroutine of the mode.
- **KeepsItsID.** A unit that is active or restarting and has saved once has its state file, so
  `nextID` gives its ID to nobody else (`when.go:501`), but for a clean-up that got no answer from
  systemctl, or one older than the start. **FailedStartLeavesNothing.** A `when` that says it failed
  leaves no process, lock, unit or file. **ReportIsTrue.** "blocking now" is said of a lock that was
  taken after the command began, never of the run before (`when.go:836`). **BlockingIsReal.** `status`
  says blocking only if the lock was held while it ran, except that a restarted watcher which has
  not saved yet is taken for the one before. **StoppedStaysStopped.** What a command stopped stays
  down until the next login or persist, and after `--unpersist` for good; except a stop that came
  before `systemd-run` had made the unit (`when.go:745`).
- **HeldWhileCommandRuns.** The command of `run` runs under a lock, and no SIGINT or SIGTERM ends
  `startRun` before it. By **KeepsBlock** a hold ends only after a write to its path (which may
  have made a plain file there, before there was a pipe), and an await only after the process that
  was seen at its start, whoever has the PID later; `HoldEndsByWrite` and `AwaitOutlivesProcess`,
  which say this of the goroutines, are theorems too, from the same invariant.
  **CleanExitLeavesNothing.** Exit code 0 means that state file, FIFO and child are gone; the other
  exits leave them to `activeStates`. **EventEnds.** The event ends the block and frees the lock,
  also when the write comes while the pipe is made, or the command fails; it may be undone
  in time only for a PID and a condition. **SignalReachesCommand.** After every signal that `startRun` catches,
  also one that comes before the command is started, the command gets a signal, unless it ends first,
  cannot be started, or `startRun` is killed. A signal that found another one waiting is dropped, and
  the one that waited is forwarded after it.
- **OneBlockPerID.** Two live blocks have two IDs. **BlockIsListed.** A block that is up has its
  FIFO and a whole state file with its PID at every moment. **SignalsHitBlocks.** No command is about
  to signal the PID of a block that ended in order. All three except IDs on which operations
  overlapped, as said above.

### Bounds

The hold is longer than the grace period, as two minutes are against the default, so that both the
timer that a failing check starts and the one a resume extends are checked against it; the proofs
cover the other order. A `Grace` of 0 is the case in which a failing check releases at once. Two
places in the queue of the system bus are what a suspend needs for both of its halves, so it comes
when the queue is empty, and a match or a name signal may come behind the resume; and they let one
trigger arrive behind another, or during a check. That a suspend finds a match in the queue takes a
third place and is covered by the theorems, which hold for any capacity. Two process signals let a
SIGTERM wait behind a recheck and a third be dropped. Two starts let a process inherit the file of a
crashed one. In `block`, two ticks let an extend come before, at and after the expiry, and three
commands allow two extends and a stop, or a clean-up between them. In `unit`, four processes are two
lives of two starts, or a persist over a running unit with restarts on both sides. In `events`,
three signals are one that is being forwarded, one that waits and one that is dropped, or one
before, one during and one after the command. In `registry`, two blocks and two commands are the
smallest instance in which an ID is used again while somebody still knows of its first block; with
symmetry it has 1.8 million states. The theorems below do not depend on any of these values.

### Fairness

Go's `select` chooses at random among the ready cases, so a case that stays ready is taken in
the end: weak fairness for each of them (a verdict, the grace timer, a lost inhibitor, each bus, the
ticker, and the head of `osSig`, be it a recheck or a SIGTERM). The check goroutine runs, and a check ends because of
its timeout. systemd starts a unit that is to be restarted. Time passes while the machine is
awake. In `BlockDaemon`, every process gets to run and time passes; in `EventBlock`, the process and its
goroutines run (the one that forwards signals among them), and so do cat and a writer that has begun. Nothing is assumed of
the world: no signal has to come, the machine need not wake up, no condition has to settle, no
failure has to be absent, and no SIGKILL follows a stop. The liveness properties state what they
need of it.

`CHECK_DEADLOCK FALSE` stands only in the runs of `BlockDaemon`, `EventBlock`, `BlockRegistry` and
`WhenUnit`, where the system ends: when all blocks are over, nothing is left to happen. The
watcher's world never stops, and deadlock is checked.

## What is proved

TLAPS proves the following for every value of the constants that the named assumptions allow
(a grace period in `Nat`, a hold, capacities and limits that are positive, with and without a
session bus and a ticker).

- `WhenControllerProofs`. `CtlInv`: types, `LockTracksInhibitor`, `TimerCoversPromises` and
  `HoldCoversResume`. The last one is what makes it inductive: it says that `holdLeft` reaches
  to the end of the hold after the last handled resume, without which nothing is known of the
  timer that `OnFail` starts later. From it: `ControllerTypes`, `NoLockLeaks`,
  `TimerIsLongEnough`, and the refinement `ControllerKeepsPromise`. `ShortInv` is its mirror image
  for `TimerIsNotTooLong`: `holdLeft` is no longer than the rest of the last hold
  (`HoldIsNoLonger`), and an armed controller whose check failed has its timer running
  (`FailingIsReleasing`), so that a second failing check is never taken for a first.
- `WhenWatcherProofs`. `WatcherDrivesController`: every step of the watcher is a step of the
  controller or leaves it alone, so all of the above holds of the watcher too
  (`WatcherKeepsPromise`, `WatcherControllerInvariant`). `FileInv` relates the state file to
  the controller, phase by phase; `WatcherStatusIsTruthful`, `WatcherFirstCheckIsHonest` and
  `WatcherLockIsAccountedFor` follow, and so does `WatcherTimerIsNotTooLong`. With `OwnInv`, that a
  file which is the watcher's own is of its loop (`WatcherOwnsItsFile`), `WatcherActsAsProcess` maps
  every handler to a check or an end of `WatcherProcess` and everything else to a stutter.
- `WhenTriggerProofs`. `WatcherTypes`, with the typing of the queues and their capacities, and
  `WatcherLosesNoTrigger`: `NoLostTrigger` is inductive once the queues are typed and, for the PID
  that a recheck reads, a file that is the watcher's own is of its loop. `SettledInv` says
  what the controller has made of the last verdict, and what that verdict still says of the
  condition; with `NoLostTrigger` it gives `WatcherSettlesRight`, that is `SettledIsRight`.
- `BlockDaemonProofs`. `BlockPublishedIsHeld`: `PublishedIsHeld`, from an invariant that ties
  the daemon's program counter, the two ends of the FIFO and the PIDs in the file and in a
  command's memory together; and `BlockTypes`.
- `BlockEndProofs`. `BlockStatusShowsEnd` and `BlockNeverEndsEarly`, for any number of extends.
  `EndInv` adds two facts to the properties: between the PID and the first timer the file has the
  end the daemon remembers (`FileAgrees`), and the channel of the last run is closed only after
  its own timer fired (`ClosedIsFired`), because its goroutine can wait on no other. The goroutine
  of an earlier run can; that is why the block may end late (see below) but not early.
  Two theorems are what the liveness properties of this block rest on, the part of them that does not
  need fairness. `LastTimerReachesLoop` (`EndsUnlessLate`): while the loop waits, its channel is closed
  or its timer runs and the goroutine of its own run, and no other, is going to receive from it, unless
  a goroutine was late. It follows from `OwnTimer`: no run before the loop (`NoRunYet`), every
  earlier goroutine on the timer of its own run (`EarlierRunsApart`), and a last timer that nobody
  else can have used up (`LastTimerKept`). `BlockWaitWillReturn` (`LoopEndReleases`): the last deferred call waits
  for a child that is gone or for a `cat` that is bound to see the end of the FIFO. It follows from
  `ChildInv`: no child before the daemon starts one, and at the end a closed FIFO with a `cat` that
  had it open, or what is left of one; the same child under a daemon that was killed (`SlainUnderCat`).
  `BlockKeepsPromise` is the refinement of `HeldBlock`. Its invariant is `BlockInv` and
  `EndInv`; each step of the daemon, the child and the commands is mapped by a
  lemma of its own.
- `WhenUnitProofs`. All six invariants of `WhenUnit`, for every start limit and any number of
  processes. The invariant relates the program counters to the unit: what the client knows at each of
  its steps, that a file with a PID is of a run there has been, that a lock has a process that is up. The same
  invariant carries the refinement `UnitActsAsProcess`: the starts and the exits that systemd decides
  on begin and end a process of `WatcherProcess`, one at a time, and no command touches the lock.
- `EventBlockProofs`. The invariants of `EventBlock`, for any number of signals, and
  `EventBlockKeepsPromise`: hold, await, forever and run blocks implement `HeldBlock`. What it adds to
  the invariants is `StartInv`: no goroutine of the mode before the loop, and no child before the start.
  `NoSignalIsLost` is the part of `SignalReachesCommand` that needs no fairness: while the command runs,
  the last signal that came has reached it, is in the goroutine's hand, or a signal waits in `sigCh`.
  The two liveness properties stay with TLC.
- `BlockRegistryProofs`. `BlocksHaveTheirIDs`, `BlocksAreListed` and `SignalsOnlyBlocks`, for any
  number of blocks, commands and IDs. `RegistryInv` rests on `SoleInv`: on an ID that is not raced at
  most one actor is in an operation. From it each other part follows step by step: who writes owns
  the temporary file (`WriteInv`), what a command has read is still so (`SawInv`), what it judged is
  still so (`JudgedInv`), a block that has ended in order is in no file and in no command's memory
  (`UnlistedInv`, `UnseenInv`). `NotesRaceStep` is the lemma that carries this over a step: an
  actor in the middle of an operation afterwards was alone on an ID that was not raced before.

Each invariant was first run as an invariant of the TLC instances above.

All of a run's invariants, and every refinement and action property, are theorems. Only
model-checked: everything about liveness (`EventuallyBlocks`, `EventuallyReleases`,
`StopIsHonoured`, `LoopEndReleases`, `EndsUnlessLate`, `EventEnds`, `SignalReachesCommand`), which
TLAPS does not do under fairness: the `WF_` conjuncts need ENABLED, which its backends cannot expand.

## Where the code and its documentation part

1. **A block may go right after a wake** (`wake_hold`). `README.md:116` promises two minutes from
   the wake. When the grace period has run out by then, the `select` may take `<-ctl.graceC`
   before the resume signal (`when.go:548`).
2. **A daemon that exits may leave its lock** (`any_exit`). `README.md:417` says that the lock goes
   when the daemon exits for any reason. When the five seconds at `daemon.go:90` run out before
   `cat` was started, `fatalf` leaves the FIFO and the child; `cat` then waits on a FIFO without
   a writer, and the lock stays until somebody kills it.
3. **An extended block may never end** (`block_expires`). If `Reload` runs before the goroutine of
   the `Run` before has read `m.timer` (`modes.go:37`), two goroutines receive from one timer;
   when the older one gets the value, `doneCh` is never closed.
4. **A start that is reported as failed may hold a block** (`failed_start`). The client gives up
   without stopping the daemon (`daemon.go:171`); a daemon that is just ready holds the block,
   without a state file if it published its PID before the client removed it.

## Plan

Done: `ConditionalBlock`, `WhenController`, `WhenWatcher`, `WakeHold`, `TimerMode`, `BlockDaemon`,
`WhenUnit`, `EventBlock`, `BlockRegistry`, and the abstract `HeldBlock` and `WatcherProcess`, with
proofs of all invariants the runs check and of all refinements. What could follow:

1. An abstract registry (an ID is free, taken or on its way out) that `BlockRegistry` implements
   where no operations overlap.
2. The rest of what the liveness properties rest on: for `EventBlock` that a goroutine whose event
   has come is not stuck (`EventEnds`), for `WhenWatcher` that a worker's verdict always finds a
   loop that takes it.
3. `EventBlock` over `BlockDaemon`'s client and child in place of its own shorter start.
4. The inhibitor's fallback from logind to sudo in steps of its own.
5. Pure algorithms: quoting for systemd units (`systemdQuote`, `envQuote`), `formatDuration` and
   `parseUntilTime`, against reference definitions over bounded inputs.

## What is not modelled

Argument parsing, times of day, printing, quoting, reading the TOML configuration, writing the
sudoers file, and the Makefile: no state to explore. Suspend in `BlockDaemon` (its timers stop with
the monotonic clock while the end in the file is wall-clock time). The retry of a D-Bus connection,
which the code does not do. In `WhenUnit`, a stop given while `persistWhen` restarts the unit, which
systemd's job queue decides, and a `systemctl stop` that fails. In `EventBlock`, `Reload`: no command
sends SIGUSR1 to these blocks. In `BlockRegistry`, the limits of five seconds (they are in
`BlockDaemon`), units, whose blocks have no PID to trust, and that `extend` refuses blocks without
an end, which only takes steps away. The PID of a process that is reused while `recheck` runs. A SIGTERM that
`sigCh` of a daemon drops because a SIGUSR1 waits is modelled, and nothing is claimed of it: the block
goes on, although `stop` then prints "stopped (forced)" (`main.go:444`). Any
failure of the kernel or of logind other than refusing or losing a lock.
