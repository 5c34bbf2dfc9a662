# A formal model of Omarchy Face ID

TLA+ specifications of Omarchy Face ID, with the TLC configurations that
model-check them on small instances and TLAPS proofs of their most important
theorems for every value of the constants. Paths below are those of the
repository; line numbers are those of the commit the model was written from.

* [The system](#the-system): its parts, their state, and how they meet
* [Modules](#modules): which module models what, and how to read its actions
* [Runs](#runs): what each configuration checks, its bounds and fairness
* [Proofs](#proofs): what is proved, from what, and by which invariant
* [Deviations](#deviations): what a document promises and the code does not keep
* [Not modelled](#not-modelled) and [Plan](#plan)

## The system

Omarchy Face ID adds face recognition by the Gaze daemon (external, reached over
the system D-Bus and through PAM) to the lock screen of Omarchy Shell and to
`sudo`. It is a setup application, a plugin that runs inside Omarchy Shell, a PAM
module with its privileged coordinator, a camera watcher, and two root scripts.

| Component | State | Operations | Meets |
|---|---|---|---|
| **Lock subscriber** `integration/omarchy-plugin/Service.qml`, `LockState.js` | `status`, lock and attempt generations, an authentication flag, seven one-shot timers, the watcher process, the PAM conversation | lock begins and ends, a password begins and ends, a timer fires, the watcher exits, PAM answers or fails, user input, the service or a file comes and goes | `omarchy.lock` in the same process (signals, `finishUnlock()`), PAM, the watcher, the camera |
| **Consent PAM module** `elevation/pam_consent.c` | a marker in the PAM transaction, the child it waits for | ask, wait at most 80 s, answer sudo | sudo, the coordinator (exit status), the terminal |
| **Consent coordinator** `elevation/main.cpp` | phase, outcome, a deadline per phase, two children, a socket, a file lock | poll, read a response, start and reap the children, report, tear down | the PAM module, the prompt, the verifier, other coordinators |
| **Prompt window** `elevation/ConsentPrompt.qml`, `runPrompt` | what it shows | become ready, approve, decline, cancel, close | coordinator (socket) |
| **Face verifier** `runVerifier` | none of its own | one PAM conversation with Gaze | coordinator (exit status) |
| **System installer** `scripts/install-gaze-arch.sh` and **uninstaller** `scripts/uninstall.sh` | files of `/etc` and `/usr`, a registry with a file per user, two receipts, a lock, a snapshot | plan as the user; snapshot, change, commit or roll back as root | each other, for any number of users; package manager; sudo |
| **Lock integration activation** `app/GazeClient.cpp` | phase, attempt, three deadlines, a child process, the previous plugin directory | authorise, stage, exchange, rescan, enable, restart, verify, commit or roll back | pkexec, Omarchy Shell, the new subscriber, an uninstall |
| **Enrollment** `app/GazeClient.cpp` | claim, generation, enrolling, complete, preview pipeline | begin, reply, status signal, cancel | Gaze (calls and signals) |
| **Face setup** `app/GazeClient.cpp` | installing, poll count, status file, process | start, poll, finish | installer, refresh |
| **Wizard** `qml/Main.qml` | step, enrolment started, upgrade in progress or complete, two timers | its buttons, closing | enrollment, face setup, activation |
| **Quiet upgrade** `app/main.cpp` | none of its own | face setup, then activation, then exit | both of them |
| **Presence watcher** `presence/main.cpp` | frame counters | compare frames, fall back to another camera, exit | lock subscriber (exit status), the log (it waits for its lock) |
| **Diagnostic log** `app/DiagnosticLog.cpp`, `log-event.sh` | four files, a lock file, a number in memory per program run, a number in a file for the lock events | wait for the lock, number, rotate, append | application, verifier, watcher, any number of detached loggers |
| Camera inventory, theme, visual components, packaging | none that decides anything | read only or presentation | |

### What is hard

* **Asynchrony in one thread** (subscriber, application). Handlers run one at a
  time, but timers, process exits, PAM results, D-Bus replies and signals arrive
  in any order. A result may belong to an attempt that is over; a timer may be
  the only event that a status still waits for and be stopped by another handler.
* **Processes** (sudo approval). Five processes and a lock; each of them may die or
  hang at any step, responses queue on a socket, two terminals may ask at once.
* **Files shared by users and commands** (installer). Steps fail or are killed,
  commands of several users overlap, what was read before the lock is used under it,
  and `sudo` reads the same files at every moment.
* **One log, many writers**. A C++ class and a shell script rotate the same four files;
  a process that renames them may be killed in between, or find the disk full.
* **Two-phase activation** across processes that nobody can stop: root's
  installer, a restart of the shell, a window that the user closes.

### What makes each component correct

* *Subscriber*: only a face recognised in this lock period, with no password begun
  since, unlocks; a password stops the face conversation; a stale result changes
  nothing; no status waits for an event that will not come; the watcher and the
  face conversation do not share the camera.
* *Approval*: a grant rests on the user's own approval of this request and a
  recognition after it; the camera is not used before; a cancelled command was
  refused by the user; one window at a time; nothing outlives its request; sudo
  comes back without the user, unless the user is being asked.
* *Transactions*: sudo is usable at every step; a rollback puts back everything; a
  registered user is served; nothing is left after the last user; every command ends.
* *Activation*: the previous plugin is on the disk until the new one has answered, or the uninstaller removes it itself;
  a failure puts it back; no timer of one attempt acts on another; every attempt ends.
* *Enrollment*: a claim does not outlive its enrolment; what the user has cancelled is
  stopped, however late Gaze answers, and a new scan is not stopped with it; the
  preview never takes the camera before Gaze has it.
* *Setup, wizard, quiet upgrade*: an update that reports its end is complete; a quiet
  upgrade exits, whatever the installer and the shell do.
* *Watcher*: it wakes the screen when, and only when, the camera has shown motion twice in
  a row, whatever else it meets on the way, and it does not run on without pictures.
* *Log*: what can be read is one history that grows at its end and loses its oldest part only,
  each session in the order of its numbers; no writer waits for ever.

## Modules

| Module | Models | Composes |
|---|---|---|
| `FaceUnlockContract` | what the subscriber promises the lock screen (abstract) | |
| `LockSubscriber` | the subscriber with its timers, PAM conversation and watcher | refines `FaceUnlockContract` |
| `ConsentDecision` | what an approval means, one decision per request (abstract) | |
| `Elevation` | PAM module, coordinator, prompt, verifier, for several sudo processes | refines `ConsentDecision` |
| `SharedInstallation` | what users of the machine see of both root scripts: each command in one step (abstract) | |
| `SystemTransaction` | both root scripts, for several users | refines `SharedInstallation` |
| `ActivationOutcome` | what the callers of an activation see of it (abstract) | |
| `Activation` | activation in the application, with shell, pkexec and a concurrent uninstall | refines `ActivationOutcome` |
| `Readiness` | what the application knows of the machine, and calls over the bus | |
| `Enrollment` | enrolling a face, with Gaze at the other end of the bus | `Readiness` |
| `FaceSetup` | the system installer as the application runs it | `Readiness` |
| `Setup` | the wizard and the quiet upgrade | `Enrollment`, `FaceSetup`; its view of the activation refines `ActivationOutcome` |
| `RecordHistory` | what a reader of the diagnostic log is promised (abstract) | |
| `DiagnosticLog` | the two writers of the log, their lock, rotation and numbers | refines `RecordHistory` |
| `PresenceWatcher` | the camera watcher | `DiagnosticLog` |
| `MCElevation`, `MCSystemTransaction` | symmetry sets for TLC | |
| `*_proof` | theorems and proofs about the module of that name | extends it and TLAPS |

Each component module has its state first, with a comment per variable naming the
field it stands for, then the helpers under the names of the source's functions,
then one action per handler, command or system call, in the order of the source,
then `Next`, the specifications and the properties. Definitions ending in `Fault`
are small errors somebody could make in that place; they are used nowhere in the
specifications, and serve to see that each property notices such an error.
`PROJECT.json` has, for every definition, the lines it was translated from.

### LockSubscriber

One action per QML handler. `status` is `faceStatus`, `timers` the set of running
`Timer`s, `facePam` the `PamContext`, `watcher` the `Process`. Handlers that others
call (`enterSleeping`, `queueAttempt`, `startAttempt`, `enterWaking`,
`resetState` ...) are operators that the actions use whole.

Environment, known from how `Service.qml` uses it:

* `PamContext.abort()` either ends the conversation at once or lets it linger, still
  `active`, until a result that nobody wants arrives (`AbortLingers`); `onError` is
  followed by a completion that finds no attempt.
* `Process.running = false` sends a signal; `running` is true until the process exits.
* `omarchy.lock` begins a generation with no password being verified. Whether a
  generation can begin while one *is* depends on code outside this repository, so
  it is a constant, `BeginsMidPassword`, and the safety properties hold either way.

Timer durations are abstracted: an armed timer may fire at any moment.
`MaxGeneration` bounds lock periods. Left out: the preview overlay and its IPC,
layer rule, sound, `keepAwakeTimer`, a watcher binary that cannot be started.

### Elevation

`pc[r]` is the coordinator of request `r` between two system calls through which it
sees another process; `phase`, `outcome` and the sockets are its locals. The PAM
module is `sudo[r]`, `marker[r]` (`pam_set_data`) and `tries[r]`. `prompt[r]` and
`verifier[r]` are the two children with the time between exit and `waitpid`.
Its faults are a constant set: `"call"` (a system call, a check of the caller, or
`poll` fails), `"crash"` and `"signal"` of the coordinator, `"deadline"` of a phase,
`"overdue"` of the PAM module, `"close"` of the window. Clocks are not counted: a
deadline passes at any time after it is set. `PR_SET_PDEATHSIG` makes the children
die with the coordinator. The verifier may hang for ever.
`MaxQueue` bounds unread responses and `MaxTries` the password tries of one sudo. The
1.5 s for which shortcuts are ignored, and finding the desktop of the caller, are left out.

### SystemTransaction

`disk` maps every path to what is in it: nothing, a managed file, somebody else's
file, and for `sudo` also the hook. Each user has at most one command; its
user part reads receipts and plans, its root part takes the lock, snapshots, changes
files in the order of the script (`InstallOrder`, `RemovalOrder`) and, if a
step fails, restores each file by removing it and copying it back: two steps.
`Faults`: `"fail"` (any step), `"crash"` (killed at any step but within a rollback),
`"tear"` (killed within a rollback), `"lose"` (a rollback's copy fails, `cp -a ... || true`, and leaves the
path absent). With `"fail"` the removal of the Gaze package, by the last uninstall or a failed install,
may fail as well (`GazeLeft`): Gaze then stays without a receipt, the uninstall ends before it tidies the
directories (`set -e`), and every later command takes this Gaze for one that was there before Face ID. `hadGaze` and
`original`, the history of how the machine was found, say so from then on, which is the one exception that
`CleanAfterLast` makes. `Overlap` lets commands of several users overlap;
`Replaceable` are artifacts over which another package may put its own file.
Left out: hashes and modes, temporary names (a file is replaced by one rename), an `rm -f` of a rollback
that fails (as root, where the writes before it have not), the
camera receipt and the Polkit rule, which go the way of the Gaze receipt and of the
sudo line. `SharedInstallation` knows a registry, whether all, none or some of the shared
parts are there, and whether a kill has left its traces; the mapping reads them from the disk, or
from the snapshot while somebody holds the lock (`Settled`), so a root part has done nothing until its
commit, and nothing at all if it rolls back. `interrupted` is history: whether a command was killed, and whether an install was
completed after that (a completed install repairs what a killed command has left, and the
properties ask for that). The user's steps of an uninstall that can fail before the root part are
one failing step (`EnterRoot`). A Gaze package scriptlet adds its sudo line only
when no transaction is under way. The receipt and sudo's file are read in one step.

### Activation

A directory is its version: `"old"`, `"new"`, `"newer"`, or none. `phase` is
`m_lockActivationPhase`, except that `"Staging"` and `"Staged"` are two points of the one
callback that stages and exchanges, between which only the end of the process
intervenes; `"Closed"` means that no application runs. `trial` holds what a rollback
would undo, `auth` the pkexec process of every attempt (it can be killed only until
it is root), `command` and `reply` the current child, `timers` the 200 ms single
shots, `before` and `disturbed` are history. `m_lockIntegrationInstalling` is
`phase # "Idle"`. Left out: the cached installed and active flags, `--allow-downgrade`,
symbolic links (a way to fail `"stage"`), and a foreign file that appears in
mid-attempt. The uninstall of the lock integration may run at any time (`"removed"`).

### Readiness, Enrollment, FaceSetup, Setup

`machine` is the world, `known` what the last `refresh()` saw of it. A blocking D-Bus
call returns after Gaze has taken what was sent before, so `Refresh` waits for an empty
`toGaze`; calls that are not waited for are appended to it, and replies and signals
to `mail`, each read in order. `BeginEnrollment` claims at once and sends `EnrollStart`,
which Gaze answers when the user has authorised it (`GazeAnswers`) while it takes other
calls. `generation` is `m_enrollmentGeneration`; `awaited` the pending calls;
`endedBy`, `confirmed` and `lapsed` are history. `Faults`: `"refused"` (claim or session),
`"timeout"` (the 120 s of `EnrollStart`), `"gone"` (Gaze goes and comes back; the bus answers
what it leaves). `MaxGeneration` bounds enrolments, `MaxMail` the pose messages that
are unread, and one `EnrollStart` at most times out. Left out: progress numbers, `FaceStatus`, the sound.

`FaceSetup` sees the installer as the code does: by its status file, and in a quiet upgrade by
its exit; `stray` is an installer in a terminal that the wizard has given up. `"setup"` lets it
fail, be killed, or be missing. `MaxPolls` stands for 300. The two
refreshes of a success are one step.

`Setup` composes them. A signal of `GazeClient` runs its handlers before `emit` returns, so
an action there is a component's step together with `OnFaceSetupChanged`,
`OnActivationFinished` or `OnEnrollmentChanged`, which read the new state. A button is enabled
where `Main.qml` shows it (`Page`, `UpgradePage`). The activation appears by its ends
(`"activation"` for those that are no success), as it has its own module; both implement
`ActivationOutcome`. Whether a camera is
free is left out (a scan may be refused at any time for want of one). When the window is closed the
bus tells Gaze that its client has gone, and Gaze drops the claim and the session. A
failed activation may leave the files of the lock integration in place or not. An uninstall while the application
runs is left out here; `Activation` has it.

### DiagnosticLog, PresenceWatcher

`files[0]` is `diagnostics.jsonl` and `files[1..3]` its predecessors, each the sequence of its
records; a record is its session and its number. `pc[w]` is where a writer is within `record()`
or `log-event.sh`: a step is what lies between two system calls, so a writer can be killed
between two renames (`torn`). An application (`Apps`) counts in memory and ends with its
process. The loggers of the lock subscriber are one session; the number they
share is in a file that a shell redirection empties before it is written, so that a full
disk, or a kill between the two, restarts it (`epoch`, at most once; `"full"` stands for both). The logger of an attempt waits for the loggers it starts,
one per camera (`CameraNodes`) and one for the selection, after it has given the lock back.
`Renamed` has the difference between the two: `QFile::rename` does not replace a file, `mv` does.
`FileSize` is 1 MiB counted in records; `MaxRecords` bounds the records begun. Left out: what a record
says, and a lock file that cannot be opened (nothing is recorded then).

`PresenceWatcher` is one of the `Apps`, so `Record` waits for the same lock as everybody. A picture
is a level of brightness, and two differ by motion if they differ by `Threshold`: the
two thresholds of the code are one decision about a pair of pictures. `seen` is history: the
pictures of the present pipeline, on which `WakesOnMotion` says what motion is without
counters. `EmptyPoll`, `ShortFrame` and `Frame` are the outcomes of one turn of the loop,
`FallBack` is the second camera, `KillWatcher` the subscriber. `MaxFrames` bounds the pictures of a
pipeline and `MaxEvents` the loggers beside it. Reading the configuration and finding the device
by its name are a choice (`selection`).

## Runs

All runs end with TLC's complete state space, in less than five minutes on two
workers. Deadlock checking is off: every component may really come to rest (no lock, no
request, no command, no activation begun within the bounds).

| Run | Question | Instance |
|---|---|---|
| `lock_safety` | Does only a fresh face of this period unlock, never beside a password, whatever lingers? Is the contract implemented? | 5 generations, aborts linger, generations begin mid-password |
| `lock_progress` | Does no status wait for a cancelled event, is the camera shared, does a recognised face unlock? | 4 generations, aborts end at once, no generation mid-password |
| `elevation_safety` | Are grants and cancellations founded, is there one window, no orphan? Is the decision implemented? | 2 requests (symmetric), 2 tries, 2 queued responses, all faults |
| `elevation_progress` | What can hold sudo up? Only the user. | 2 requests, 1 try, crash, deadlines and closing |
| `system_safety` | Is sudo usable throughout, a rollback complete, a registered user served, the machine clean after the last? Is `SharedInstallation` implemented? | 3 users (symmetric), one command at a time, failures and kills, foreign replacements |
| `system_live` | Does every command end, and does an unregistered installation survive? | 2 users, overlapping, no failures |
| `system_race` | finding: the check for other users is stale under the lock | 2 users, overlapping, no failures |
| `activation_safety` | Is the previous plugin never lost, restored on failure, no timer stale, is an end always ahead, does every attempt end? Is `ActivationOutcome` implemented? | 2 attempts, all faults |
| `enrollment_safety` | Is no claim left behind, what was cancelled stopped, a new scan spared, the preview after the capture? | 3 enrolments, all faults of Gaze |
| `setup_safety` | Is an update that reports its end complete, and does a quiet upgrade exit? | window and quiet upgrade, one enrolment, 2 polls, every fault, no uninstall meanwhile |
| `log_safety` | Is the log one history in order, however writers are killed, and does each record end? | an application and 2 loggers, files of 1 record, 5 records, kills, unwritable records, a full disk |
| `watch_safety` | Does the watcher wake on motion exactly, and end without pictures? | 2 brightness levels, 6 pictures, 1 logger beside it, kills |

### Why these bounds

* *Generations*: staleness needs the current period and an older one whose result,
  timer or process exit is still to come. Four generations let two such leftovers meet and
  leave room for the increments that one period makes (lock, password, sleep).
* *Two requests, users*: every rule between them is pairwise: one lock holder and one
  contender, one uninstall and one other registration. With one of them still active
  after the other has ended, the next command of the same user is the third party.
* *Two tries*: the second finds the marker; a third finds the same one.
* *Two queued responses*: enough for approve-then-deny, deny-then-approve and a
  duplicate; the coordinator reads one at a time and never looks behind.
* *Two attempts*: a leftover timer, pkexec or directory of the first meets the second.
* *Three enrolments* in `enrollment_safety` (`MaxGeneration = 3`): the generation grows with an
  enrolment and with its cancelling, so one that was cancelled with all its messages
  meets the next, and that one a third. Two unread pose messages suffice to have one before
  and one after the end of a session. `setup_safety` has one enrolment, as the questions
  between enrolments are asked in the other run and together they exceed its time.
* *Two polls*: one before the last and the last, which ends the setup.
* *Three users* in `system_safety`: one who leaves, one who stays and one who comes. Its commands
  do not overlap because two of its properties do not hold otherwise (`system_race`, and
  *Deviations*); overlap with failures and kills is covered for `SudoUsable` and `RollbackRestores` by
  their proofs, for every set of faults without `"tear"` and `"lose"`. The proofs have any number of users.
* `lock_progress` leaves out lingering aborts and generations that begin mid-password: with the
  second `OneCameraUser` does not hold, and with the first `NothingStranded` does not, as an attempt
  timer that fires while the aborted conversation is still active starts nothing.
* *Five records, files of one*: each record rotates, all four files fill, and the fifth drops one,
  while a writer killed in mid-rotation leaves a gap that the others meet. The proof has any size.
* *Six pictures*: three that are ignored, a motion, a picture without one, and room for two
  motions in a row at every later place. Files that do not fill (`FileSize = 12`) in
  `watch_safety`, as rotation is the other run's question.

### Fairness

* `LockSubscriber!LiveSpec`: armed Qt timers fire, PAM reports on a conversation,
  the verification of a password returns, a watcher that was told to stop exits.
  Nothing about the user, the watcher's motion, or a service or file that comes or goes.
* `Elevation!LiveSpec`: the coordinator runs, the PAM module reads its exit status, a deadline
  passes. Nothing about the user, the prompt or the verifier: a hung Gaze is inside.
* `SystemTransaction!LiveSpec`: a command that was started goes on (weak), which includes that its user answers
  sudo's password prompt, one way or the other (`EnterRoot`); `flock` is granted
  some time to one who waits while it is released again and again (strong).
  Nobody has to start a command.
* `Activation!LiveSpec`: a callback that is due runs, an armed deadline passes, the 30 s budget
  is spent, and the status command answers or is killed by the deadline armed with it.
  Nothing about the administrator, the rescan, the shell, or root's installer.
* `Setup!LiveSpec`: the first single shot and the poll timer fire, an exit of the child is
  noticed, and an activation ends, which is what `Activation!AttemptEnds` states. Nothing about
  the user, Gaze, or the installer, which may run for ever.
* `DiagnosticLog!LiveLogSpec`: a writer runs (weak), and who waits for the lock gets it some time,
  as `flock` serves in order (strong). A file operation returns.
* `PresenceWatcher!LiveSpec`: a poll of the camera takes at most two seconds (that is its
  argument, so an `EmptyPoll` comes if no picture does), and a writer runs. The camera owes
  nothing and the time limit need not pass.

## Proofs

`tlapm X_proof.tla` checks every obligation. The theorems hold for all values of
the constants that satisfy the named assumption of the module (types and
disjointness only; no set has to be finite), and for unboundedly many steps.

**LockSubscriber_proof.** `TypeCorrect`, `FaceUnlockVerified`, `PasswordExcludes`,
`StaleIgnored`, `ContractImplemented`. The inductive invariant `SafetyInv` strengthens the
properties by what makes them true: an active conversation is the one of the current
`attemptGeneration` (*AttemptMatches*, *AttemptIsOwn*), a subscriber without its
service holds nothing (*DetachedIsUnavailable*), a pending success carries a
verification in this period (*SuccessIsVerified*), and a generation is open exactly
while the session is locked (*PeriodIsOpen*). Without the middle two, a timer armed before a password
could unlock after it. The refinement maps `granted` to `verified`: every
handler is a step of the contract or a stutter.
`NeverStranded` and `CameraHasOneUser` assume what `lock_progress` fixes: `abort()` ends a conversation
at once and no generation begins mid-password. Their invariant `ProgressInv` says, for the two halves of
a lock period: with a password being verified nothing of the attempt is armed and the
watcher does not run (*Quiet*); otherwise every armed timer belongs to the status that
awaits it (*TimersFit*), a conversation to `checking` and the current generation (*AttemptFits*), the watcher to
Standby or to its release (*OnlyStandbyWatches*), and the status has its event (*EventAwaited*).

**Elevation_proof.** `TypeCorrect`, `GrantFounded`, `CameraNeedsConsent`,
`CancellationFounded`, `SingleFlight`, `OrphanFree`, `DecisionImplemented`, for any
set of requests, any queue length and any faults. The invariant is stated per request:
the coordinator's position fits the lock and the PAM module (*CoordinatorMatches*), the
children fit the position (*ChildrenMatch*), every response in the queue was said by the user
(*QueueIsTheUsers*), and an outcome has its reason (*AnswerIsFounded*). Queues are
sequences, so that a response is read from the head is the part that needs the library's
sequence facts.

**SystemTransaction_proof.** `TypeCorrect` for every set of faults; `SudoStaysUsable` and
`RollbackIsComplete` under the assumption that `"tear"` and `"lose"` are not among the faults:
with either both are false. The invariant `TransactionInv`: the snapshot of a lock holder
is a usable disk (*SnapshotUsable*); an install has written every file the hook needs
before the hook (*HookIsLast*), a removal takes the hook away before the rest
(*HookIsFirst*); and a holder has changed nothing that its list does not reach yet
(*OthersUntouched*), so a rollback from any position ends with the snapshot.

`LegacyUsersKeepFaceID`, for commands that overlap, without failures, kills and foreign files (TLC
refutes `LegacyIsKept` with any one of them: a command that is rolled back or killed in mid-install
leaves the registry without its mark, see *Deviations*). *LegacyInv*: the first install marks the registry, and with the
mark there no uninstall is the last; between the first user's entry and the mark
(*Marking*) nobody else is registered, so nobody can uninstall.

`RegisteredAreServed` and `NothingIsLeftBehind`, for any faults but `"lose"` (a rollback may be killed, too), if commands do
not overlap (`~Overlap`; TLC refutes both otherwise). The second has the exception of a Gaze package whose removal has
failed, and holds of all that comes after it. *MachineInv*: at rest,
with registered users every component is there and the receipts tell how
the machine was found; without, it is as it was found (*FilesSound*); what a
command found (its snapshot, or the disk before it holds the lock) is sound in that sense, and its
plan agrees with it (*InstallSound*, *RemovalSound*); and what it has written so far is its list up to its
position (*InstallWritten*, *RemovalWritten*). So a commit, a rollback and the steps after the last
uninstall (*TidySound*) leave a sound machine again; after a kill the machine is claimed to be
sound only once an install has been completed (`interrupted`).

`InstallationImplemented`, the refinement of `SharedInstallation`, and `OthersKeepComponents`, under the same
two assumptions. A commit is a step of the abstract machine, a kill its `Kill`, and every other
step a stutter, a rollback of any length included. *RegistryInv* adds what the commit needs:
somebody in a root part holds the lock (*HolderInRoot*); an entry of the registry has its directory
(*OrdinaryFiles*), without which an install could take registered users for an unregistered
installation and mark it; and an install has written the mark exactly if it decided to, and has taken no
component away (*RegistryWritten*). Overlapping commands do not implement it: the root part of an
uninstall acts on what it read before the lock, so its commit is then no `Remove` (TLC's counterexample is that
of `system_race`). `OthersKeepComponents` is `OtherUsersKeepComponents`, which that run refutes, proved for commands that do not overlap.

`InstallsAreValid` and `ForeignFilesAreKept` hold for commands that overlap, fail and are killed anywhere.
For the first, *InstallSoFar*: what a root part has written by its position is on the disk, as nobody else writes to the
files of a lock holder (*OthersWriteNothing*) and no two names of its list are one path. So the validation before the
commit (`Valid`) is never the reason of a rollback. For the second, *ForeignInv*: where no script looks at a marker
there is no foreign file, neither on the disk nor in a snapshot, and where one does there is none while the script
works. It assumes `Replaceable \subseteq {"face", "verifier"}`, the two artifacts with a check; for the
other two the property is a deviation. `PasswordStackIsPreserved`, without `"tear"` and `"lose"`, is a corollary of `SudoStaysUsable`.

**Activation_proof.** `TypeCorrect`, `TimersStayCurrent`, `PreviousIsAlwaysKept`,
`FailureAlwaysRestores`, for any number of attempts. `TimersStayCurrent` needs that a
restart of the shell ends the activation deadline (*RestartEndsDeadline*). The
other two need where the directories are: nothing is staged for an attempt to
come (*FutureStagesEmpty*), what is staged fits the phase (*StageFollowsPhase*), what
a rollback would undo fits it too (*TrialFollowsPhase*), and the directory found at
the beginning is the one under the staged name (*PreviousIsKnown*). That a rollback loses nothing after an uninstall
needs that the plugin's name is then the new one's, or nobody's (*NewIsInPlace*). `EndIsAhead` is the safety half of
`AttemptEnds`: an attempt never waits for nothing that will come by itself. It needs that a restart of
the shell has started the budget (*RestartIsBudgeted*), and that whoever verifies after it asks or is about to
(*VerifyingAsks*). `OutcomeImplemented` is the refinement of `ActivationOutcome`.

**DiagnosticLog_proof.** `LogInvariant`, `TypeCorrect`, `LogImplementsHistory`, `RecordsAreInOrder`, for any
number of writers, any size of a file and any faults. The refinement mapping is
`files[3] \o files[2] \o files[1] \o files[0]`; renaming must leave it alone, and dropping the oldest file
must lose no more than a reader was told. So the invariant says: who is between its first
and its last step holds the lock (*LockHeld*); a rotated file is full (*FilesFull*); a rotation finds
no file in its way (*RoomToShift*); unless a rotation was torn, files have no gap but
the one it moves (*Gapless*), so three full files stay when the oldest is dropped; and no
record has a number that was not given out (*AllAccounted*), and a logger's number is
greater than all that are written (*NumberIsNew*), without which a record could be written
out of order. Each step of a writer is a step of `RecordHistory` or a stutter.

**PresenceWatcher_proof.** `MotionWakes`: `WakesOnMotion` for any pictures, threshold and number of
frames. `LoopRemembers` relates the three variables of the loop to all the pictures seen: the
streak is 1 exactly if the last picture has motion, and there were never two in a row.
`WatchedLogIsHistory`: the watcher does nothing to the log but what `LogSpec` allows (`Spec => LogSpec`), so
what was proved of the log holds of the two together.

**Enrollment_proof.** `TypeCorrect`, `ClaimsAreReleased`, `CancellationStops`, `NewScansAreSpared`,
`PreviewFollowsCapture`, about `EnrollmentSpec`, for any number of enrolments, poses, unread messages and any faults.
`EnrollInv` relates what the application believes to what is on the bus: a claim that Gaze holds
and the application has forgotten has a `Release` on its way, behind everything that could take it; a start that
was sent is awaited, unless it has lapsed; a session the user has cancelled has an `EnrollStop` on its way, or an unread
reply that will cause one; a start is sent only when nothing else is on its way, so an old stop cannot
meet a new session; and the preview and its timers belong to a face that Gaze has confirmed.

**Setup_proof.** `SetupTypeCorrect`, `UpdateIsComplete`, `NothingIsLeftToGaze`, `LockOutcomeImplemented`,
`UpdateIsNotStranded`. The lemma *ScanSteps* shows that a
step of the whole application is, for the scan, a step of `Enrollment`, or one that leaves it alone but
for what is installed, or the closing of the window, after which the bus tells Gaze that its client
has gone; so `EnrollInv` is an invariant of `Spec` too. *UpdateInv* is what makes an update complete:
what is integrated stays so, an activation is begun only when the integration is there, and none is begun after the
update has reported its end. `LockOutcomeImplemented` is the other half of the activation's refinement: the four
flags by which `Setup` models it implement `ActivationOutcome`, too (*RunningIsInactive*), so no caller can tell
them from the component by anything that specification says. It is proved and not run, as it would double the run.
`UpdateIsNotStranded` is `UpgradeNeverStranded` without `"activation"` among the faults, with which it is a deviation:
a setup ends with an error, or with all that is needed and so with an activation (*SignalWorks*), and an activation
that succeeds ends the update.

**Only model-checked.** Liveness under fairness (`EveryPhaseEnds`, `SuccessUnlocks`,
`OnlyTheUserIsAwaited`, `EveryCommandEnds`, `AttemptEnds`, `QuietExits`, `EveryRecordEnds`, `WatchEnds`), which the proof system
cannot do.

## Deviations

One promise is refuted by the run `system_race`; `PROJECT.json` quotes its line. The following are
stated in the modules, too, and no run checks them, as the model of the code
violates them; each can be reproduced by adding the property to a configuration
with the constants given.

| Property | With | What the code does | What is promised |
|---|---|---|---|
| `LockSubscriber!OneCameraUser` | `BeginsMidPassword = TRUE`, `AbortLingers = FALSE`, 5 generations | `enterSleeping()` (`Service.qml:293`) stops three timers but neither `startTimer` nor `presenceReleaseTimer`; a generation that began during a password leaves one armed | `Service.qml:533`, `547` |
| `LockSubscriber!NothingStranded` | `AbortLingers = TRUE`, `BeginsMidPassword = FALSE`, 2 generations | an attempt timer that fires while an aborted conversation is still active starts nothing (`Service.qml:266`), and the status stays `grace` until something else happens; whether `abort()` lingers is the library's affair | none; not intended |
| `LockSubscriber!StreamOnlyInStandby` | any | a PAM file that becomes unreadable, or a service that goes (`Service.qml:483`, `407`), sets `unavailable` with the watcher still running | `docs/configuration.md:26` |
| `Elevation!DeclineCancels` | `Faults = {}` | a decline sent after an approval and before the window shows the check is taken for a failure and the password is asked (`elevation/main.cpp:1018`) | `README.md:22` "Decline cancels the command" |
| `Elevation!RequestStaysVisible` | `Faults = {"overdue"}` | the PAM module kills the coordinator, and the window with it, 80 seconds after it has started it (`elevation/pam_consent.c:268`) | `CHANGELOG.md:15` |
| `SystemTransaction!CleanAfterLast` | `Overlap = TRUE`, `Faults = {}` | each of two concurrent uninstalls sees the other's registration and leaves the shared files (`uninstall.sh:235`) | `CHANGELOG.md:92` |
| `SystemTransaction!LegacyIsKept` | `Faults = {"fail"}`, `Overlap = FALSE` | a rolled back install leaves the registry's directory (`install-gaze-arch.sh:201`), so a later uninstall takes the legacy users for gone (`uninstall.sh:265`) | `CHANGELOG.md:92` |
| `SystemTransaction!PasswordStackPreserved` | `Faults = {"fail", "crash", "tear"}` or `{"fail", "lose"}`, `Overlap = FALSE` | a rollback removes sudo's PAM file before it copies it back (`install-gaze-arch.sh:116`); a kill between the two, or a copy that fails, leaves none | `docs/2026-08-28-initial-build.md:29` |
| `SystemTransaction!UninstallIsNotRefused` | `Faults = {}`, `Overlap = FALSE` | the last uninstall is refused when the lock screen's PAM service is missing, because it was never enabled or was removed before (`uninstall.sh:134`) | `README.md:85` |
| `SystemTransaction!ForeignFilesStay` | `Replaceable = {"consent"}` | the last uninstall removes the consent module and the helper without looking at their markers (`uninstall.sh:153`) | `CHANGELOG.md:135` |
| `Activation!NothingChangedIsTrue` | `Faults = {}`, one attempt | the deadline restores the plugin directory but leaves the PAM service that pkexec has installed and the entry in `shell.json`; a pkexec that is root already installs it afterwards (`GazeClient.cpp:432`) | `GazeClient.cpp:435` "Nothing changed" |
| `Setup!DonePageIsShown` | `Faults = {}` | a first scan writes the receipt (`GazeClient.cpp:1772`), which makes `upgradeAvailable()` true (`488`) as long as the lock integration is not installed, so the page of an update replaces the last page (`qml/Main.qml:39`, `491`) | `docs/2026-08-28-initial-build.md:41` "**Done:** offers **Enable Face ID**" |
| `Setup!UpgradeNeverStranded` | `Faults = {"activation"}` | an activation whose files no longer match at the end is unsuccessful with an empty error (`GazeClient.cpp:1730`): the update page has neither a button nor anything to wait for | `docs/2026-08-28-initial-build.md:43` "one plain-language recovery action" |
| `Enrollment!ScanEndsWithItsSession` | `Faults = {}`, 3 enrolments | `onEnrollStatus` cannot tell whose session a status is about (`GazeClient.cpp:1744`): the late end of a cancelled one ends the next on the screen and releases its claim, while Gaze goes on with it | none; not intended |
| `Activation!ActiveIsTheNewOne` | `Faults = {}` | any running subscriber answers the status command, also the previous one (`GazeClient.cpp:1591`) | `CHANGELOG.md:93`, `127` |

Some of these are proved for the rest of the cases, so the constant in the table is what they depend on:
`NothingStranded` and `OneCameraUser` (`NeverStranded`, `CameraHasOneUser`), `CleanAfterLast` (`NothingIsLeftBehind`),
`LegacyIsKept` (`LegacyUsersKeepFaceID`), `PasswordStackPreserved` (`PasswordStackIsPreserved`),
`ForeignFilesStay` (`ForeignFilesAreKept`) and `UpgradeNeverStranded` (`UpdateIsNotStranded`).

With `"lose"` none of the five properties of `system_safety` holds, and with `"tear"` `SudoUsable` and `RollbackRestores` do not:
a rollback is the one part of the scripts that must not fail.

Things a reader of the documents might not expect, which the properties allow:

* a Gaze package that Face ID has added stays if its removal fails (`uninstall.sh:286`, as its comment says, and
  `install-gaze-arch.sh:283`, which ignores it), and as its receipt is gone, a later install and uninstall take it for the
  user's own and leave it;
* a full disk, or a kill at that point, restarts the number of the lock subscriber's session within it, so its order is
  per `epoch` (`log-event.sh:72`), and "`sequence` establishes ordering inside a session" (`docs/diagnostics.md:37`) is not met;
* a writer killed between two renames leaves a gap, so that a file goes one rotation earlier
  than "three older files" (`docs/diagnostics.md`) says;
* a streak of motion may span short frames and empty polls (`presence/main.cpp:271`); a camera that sends
  only short frames never lets the watcher end, unless it has a time limit; and a silent
  camera is 5, but 4 if the time limit passes at the last poll.

`CancelledIsStopped` excepts a session whose `EnrollStart` has timed out: its reply is dropped
by Qt, so a session that the user authorises after 120 seconds is stopped by nobody.

## Not modelled

* *Camera inventory, theme, visual components, packaging, layout of every QML file*: presentation or
  read-only data; nothing that another component waits for.
* *Desktop endpoint discovery of the prompt*: a sequence of tests without state; its failure is
  the fault `"call"` of `Elevation`.
* *Gaze, Omarchy Shell, PAM, polkit, the package manager*: external; only what this code
  relies on appears, in the actions named above.

## Plan

Done, in the order of importance: 1 `LockSubscriber` with its contract; 2 `Elevation` with
its decision; 3 `SystemTransaction`; 4 `Activation`; 5 `Enrollment`, `FaceSetup` and `Setup`, which composes
them; 6 `DiagnosticLog` with its history; 7 `PresenceWatcher`, which composes it; each with its proofs.

Not planned: what the enrolment promises has no abstract specification of its own. Its status handler acts whether or
not an enrolment is under way (*Deviations*, `ScanEndsWithItsSession`), so there is no sequence of begin and end that
it implements; its properties are stated and proved one by one instead.
