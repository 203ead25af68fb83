# A TLA+ model of void-init and void-initfs

void-init configures a Void Linux virtual machine at boot from the cloud-init
data that Proxmox attaches; void-initfs builds the disk image it runs in. Their
automated tests cover parsing and pure functions only ("Nothing that touches
the live system ... is covered by automated tests", README of the repository,
"Testing"). These modules model the rest: what the two programs do to a host, an
image, a machine and its log file, step by step, when steps fail, signals
arrive, or the machine goes down in between.

## Inventory

| Part (source) | State | Operations | Interacts with | Hard because | Correct if |
| --- | --- | --- | --- | --- | --- |
| cleanup stack (`cmd/void-initfs/cleanup.go`) | mutex, callbacks | `push`, `unwind` | main and handler goroutine; callbacks of the pipeline | both goroutines unwind at once | each callback runs once, newest first, none is lost, nobody waits forever |
| pipeline (`main.go`) | where it is, deferred calls, signal channel | `run`, `runBuild`, `runReuse`, handler | all parts of void-initfs | a signal between any two calls; the order of deferred calls | nothing stays behind on the host; success means a complete image |
| image (`image.go`) | nbd device, partition table, file systems, mounts, temporary directory | create, attach, detach, partition, format, mount, `detectLayout` | kernel (asynchronous), cleanup stack | device not ready; busy mounts; paths that lead elsewhere once unmounted | no write to a device without size; release order; no deletion through a mount |
| tree steps (`keys.go` ... `bootloader.go`) | files in the image | one function each | mounted tree, chroot, device | failure of any | products end up on the right partition |
| xbps cache (`xbps.go`) | tools in `/usr/local/bin`, key cache, temporary files | download, verify, install | network, file system, `preflight` | interruption between copies; a server that publishes or stalls | nothing unverified is installed; what counts as available is; failures leave the cache alone; the run ends |
| command line (`flags.go`), preflight | none | checks | file system | combinations; values that are flags | documented combinations only, and they mean what is written |
| text rewriting (`setGrubFastboot`, `setBashPrompt`, both `writeManagedFile`, `netmaskToCIDR`, `validate` of user-data) | none | pure | files of users and packages | any earlier content, done again | in place, idempotent, nothing of the user's lost |
| log rotation (`internal/vlog/rotate.go`) | active file, segments, size in memory | open, write, rotate | file system, logger | crash or failure between renames | segments in order, oldest lost first, bounded size |
| logger (`vlog.go`) | file or none | `New`, `logf`, `Close` | rotation | errors that are ignored | stderr always, file while it works |
| void-init run (`cmd/void-init/main.go`) | none in memory between boots | find, parse, apply, exit | everything below | partial application, crash, next boot with other media | success means all is in effect; a later boot is never stuck |
| datasource (`cloudinit.go`) | mount point | two scans of `/dev/sr*` | devices | devices that fail to mount | one datasource |
| user-data, network-config, hosts, managed files, services | `/etc` files, kernel addresses, service links | `Apply...`, `writeManagedFile`, `enableService`, `disableService` | kernel, runit | files and links of earlier boots, users' edits | see the properties of `VoidInit` |

The hazards that follow from this, each at its line, with the properties that
cover it, are listed in `PROJECT.json`.

## Modules

| Module | Models | Notes |
| --- | --- | --- |
| `CleanupStack` | `cleanup.go` | any sets of goroutines and callbacks; `push` is one action, `unwind` is `unwind`, `Lock`, `RunCallback`, `Unlock` |
| `CleanupStackProofs` | | theorems and proofs about it |
| `CommandLine` | `flags.go` | parsing, the checks, and a reference: what a command line says, and which are documented |
| `Pipeline` | `main.go`, `image.go`, the tree steps | contains an INSTANCE of `CleanupStack`, and implements its specification (`UsesStack`); starts from what `CommandLine!validate` accepts |
| `PipelineProofs` | | the control flow of `run()`, and the refinement of `CleanupStack`; order of registration and release, what is held, the device's size; types, and what is written where in the image |
| `XbpsCache` | `xbps.go`, `copyFile` | several runs on one host, one action per call that matters |
| `XbpsCacheProofs` | | theorems and proofs about it: what is installed, what failures and updates leave, and what a run that ends has achieved and removed |
| `TextRewrites` | the functions that rewrite or compose text, in both programs | operators on lines, tokens, characters, octets |
| `MCFunctions` | | every bounded input of `CommandLine` and `TextRewrites`, and the properties of these functions |
| `FoldProofs` | | theorems about `FoldLeft`, for any step |
| `FunctionProofs` | | theorems and proofs about `TextRewrites` and the specification of `MCFunctions` |
| `CommandLineProofs` | | theorems and proofs about `CommandLine` |
| `Rotation` | `rotate.go`, `vlog.go` | one action per system call |
| `RotationProofs` | | theorems and proofs about it |
| `VoidInit` | all of `cmd/void-init` | several runs on one machine |
| `VoidInitProofs` | | theorems and proofs about it, and lemmas about joined lists |
| `MC...` | | values for TLC |

### How they correspond to the code

*CleanupStack.* `mu`, `fns` are the fields of the struct; `i` is the loop
counter of `unwind`; `order` and `runs` are history. `CleanupStack` is at once
the detailed model of `cleanup.go` and the abstract specification that
`Pipeline` is shown to implement: the pipeline's steps either are steps of the
stack or leave its variables alone.

*Pipeline.* `todo` is the list of calls that `run` has left; every call that
changes something outside the process, and every `push`, is an entry, and the
action of the same name makes it. An error replaces what is left by `Return`,
the deferred calls in the order in which Go runs them: `signal.Stop`, then
`unwind`. The handler goroutine is `Receive`, its part of the unwinding, and
`HandlerExit`. `Kernel` completes the size handshake of the nbd device and its
release at any later time. A path below the temporary directory is resolved when
it is used (`Where`), so a step that goes on after the handler has unmounted
`/boot` writes to the root partition, or to the host. A tree is the set of
products it holds; what is in them is left out. Each step in the tree has an
operator of its own with what it makes and needs.

The initial states are all configurations that `validate` accepts, computed by
`CommandLine`, with every kind of image the path may name.

*XbpsCache.* `pc` says which call of `ensureXbps` is next, and `n` is the index
of the loops over tools and keys. A file is known by the archive it comes from and
whether all of it was written: `copyFile` truncates, then writes. The directory
of keys is removed file by file, as `os.RemoveAll` does. `served` is what the
alias delivers and `listed` the digests in `sha256sums.txt`; the server may move
on between the two downloads, and deliver bytes that are no archive of its own
(`Forged`). `Interrupt` is Ctrl-C or a crash: no deferred call runs. It can hit
any run at any call.

*CommandLine, TextRewrites, MCFunctions.* Parsing is a fold over the arguments.
An argument is a token, as the code tells them apart only by whether they begin
with `-` and which variable they set. The same is true of a value after `=`: the text
`-` stands for all that begin so, and becomes the same value (`Given`) as a flag that
was taken for one. What is documented (`Documented`) is taken from the README, the
help texts of the flags and the tests, not from `validate` or its comment, which
contradicts them in one point (see the disagreements). A configuration file is a sequence of lines,
a managed file one of tokens, user-data sequences of characters with one of each
class. `MCFunctions` builds every input step by step, so an input is a state. The
reference definitions (`Written`, `Documented`, `Effective`, `Section`, `Value`)
do not follow the code: `Written` asks what is on the command line without
parsing it from left to right, and `NetmaskExact` reads a mask as one number.
Powers of two are the recursive function `Pow2`. The cases of `ParseToken` exclude
one another in the order in which package flag looks at an argument: whether
parsing is over, whether a flag waits for its value, and only then what it is.

*Rotation.* Slot 0 is the active file and slot n is `path.n`. The renames of
`rotateLogFile` are `Shift` with `slot` as the loop counter. A line is its
number and its length.

*VoidInit.* `todo` again lists the calls that are left; finding user-data
determines the calls up to the second scan, and finding network-config the rest.
`writeManagedFile` is four calls: read, truncate, write, chmod. Files and service
links survive a reboot, and addresses, routes and the kernel's hostname do not.
The media are assumed to hold lists of any length (`MediaAssumption`).
Between runs the media may be changed, and the administrator may append to a
managed file below its marker, once per file.

## Runs

| Run | Shows |
| --- | --- |
| `stack` | Three goroutines, three callbacks: `AtMostOnce`, `ReverseOrder`, `NothingForgotten`, `UnwindReturns`, `RegisteredIsRun`, and the inductive invariant `StackInv`. Two goroutines can wait while one unwinds, and a callback can be registered between two unwindings that both have work. |
| `pipeline` | All accepted configurations and images; every fault at any step, and two signals at any time (the second one finds the channel full, or the handler busy). What is left behind when main ends was logged (`NothingLeftSilently`); neither the device nor the directory nor an outer mount is released before what is mounted in it (`InnermostFirst`), and nothing a mounted partition holds is removed (`ContentsSurvive`), both in all runs, with main and the handler unwinding side by side, except for a mount whose own umount failed, or was not registered yet when a signal came (`Lost`); no step works in the bare directory on the host (`NothingOnHost`); success without a logged failure means a complete image (`CompleteIfAllReleased`); `NeverCorrupts`, `Terminates`, and `UsesStack`, the refinement. |
| `rotation` | Three backups, files of three bytes, lines of one, two and four bytes, six lines, three starts: every pair of a crash point and a later rotation. |
| `boots` | Two runs, one crash, calls and mounts that fail, good and bad media. `UserDataInEffect`, `StaticNetworkInEffect`, `HostsAddressIsAssigned`. |
| `recovers` | Three runs, two crashes, supported media that change: `Configures`, and `EditsSurvive` while there was no crash. |
| `xbps` | Two tools, two keys, five archives (one without a key directory, one whose key directory is empty, one without a tool, one with other keys) and a forged one, three runs, one interruption: `OnlyVerifiedInstalled`, `Available`, `UpdateIsExact`, `FailureKeepsCache`, `NotFoundOnlyOffPath`, `NothingLeftInTmp`, and `RunEnds` although the server may stall. |
| `functions` | Command lines of up to five arguments out of sixteen, files of four lines or six tokens, user-data of four characters, netmasks of four octets of three bits: `AcceptsExactlyDocumented`, `EditedInPlace`, `SectionSurvives`, `SplicedExactly`, `NetmaskExact`. |

The bounds. One signal and one channel slot are exhausted by two signals. A
third run of void-init adds nothing to two except that the state it finds may
be left by two different media; `recovers` has it. Four slots (0 to
3) are the smallest number with a first, a middle and a last rename. Interface
and device names are data, and two of each suffice to confuse them. In `xbps`, the
third run is the one that finds what an interrupted run and a run after it left;
a second interruption only repeats the first, as a run starts from nothing but
the files. Five archives give the server a next one to publish at every moment
of a run, and each way in which an archive can be incomplete. Five arguments
hold every pair of flags with their values and one more, and every accepted
combination of `-o`, a layout and one option. Four lines hold a key twice
with two other lines; six tokens hold two markers with text around each. Four
octets are all there are; with three bits each octet has a first, a middle
and a last one.

### Disagreements between code and documentation

These runs end in a violation; each checks one property that states what a
comment or the README says.

| Run | What the code does |
| --- | --- |
| `leak` | Three ways out of `run` leave the device or a mount on the host: a signal between an acquisition and its `push`; a device that settles too late, for which `attachImage` returns an error with it connected; and a signal during main's own unwinding, as `signal.Stop` is deferred last and runs first. |
| `wipe` | The removal of the temporary directory is pushed before anything is mounted in it, so it runs after the `umount`s that are registered by then. A mount whose `umount` is not registered yet when a signal comes, or fails, is still there then, and `os.RemoveAll` deletes the contents of the partition: of an image given with `-i`, although no command failed, or of one just built, with exit status 0. |
| `reuse` | `-i` on a built image fails at `os.Mkdir` of `/boot`. |
| `not_sure` | `extendPath` returns if PATH lacks the directory and appends it if not, so tools just installed are not found. And of an archive whose key directory holds no `*.plist`, `installExtractedKeys` clears the cache, copies nothing and reports success: only a directory that cannot be read is an error. |
| `dynamic` | A static interface disables dhcpcd for a dynamic one; so with the repository's own sample. |

TLC reports the shortest of the ways of `leak`, a signal. With
`Faults = {"timeout"}` and `MaxSignals = 0` the second is what it finds, and the
third is in the states with `exit = "killed"`, also with `Faults = {}`.
Without signals and with `Faults = {"command"}` `NoLeak` holds; the parts of it
that hold under all faults are `NothingLeftSilently` and `InnermostFirst`.
Of `wipe`, too, TLC reports the signal; with `MaxSignals = 0` it finds the failing
`umount`. Without signals and with `Faults = {}` or `{"command"}` `ImageBoots` holds:
the exception `Lost` of `InnermostFirst` and `ContentsSurvive` is exactly the mounts that
`wipe` is about. Of `not_sure` it reports the first part, PATH; the second alone
(`Ended({ "ok" }) => haveCachedKeys`) is violated by the fifth archive. With a
signal, main may go on beside the handler: it may write to the host's temporary
directory after the handler has removed it, and even report success for an image
whose partitions were taken away under it, which is why `NothingOnHost` and
`CompleteIfAllReleased` speak of runs without one.

More were seen while modelling and have no run. The comment of `validate` says that
`--reinstall-bootloader` only makes sense "alongside -o" (flags.go:90-91); the code
accepts it with `-i` only (line 115), and so say its help text (line 38), its error
message and flags_test.go:66-68, which `Documented` follows. `os.WriteFile` truncates a
managed file before it writes it, so a crash in between loses the user's section
for good, which is why `EditsSurvive` speaks of histories without one
(fsutil.go:33, README of the repository, line 115). user-data and network-config
are looked for separately, so they may come from different devices
(cloudinit.go:19-27; line 16 says "on the same datasource"). And vlog.go:41 and
line 68 say ten segments are kept, line 44 and the code five (rotate.go:16).
`checkSwallowedValues` is there so that a swallowed flag fails "loudly instead of
silently" (flags.go:70), but does not look at `-p`, and sees only the last value
of a flag that is given twice: `-i --bios -i old.qcow2` loses `--bios`, and `-p=-x` passes
(`SwallowedUnseen` is the exception that `AcceptsExactlyDocumented` makes).
`ensureXbps` "makes sure" that tools and keys are available (xbps.go:58), but
after an interruption a truncated tool, or one key of several, counts as such in
every later run without `--update-xbps` (`cut` in `Available`). `--update-xbps`
installs to `/usr/local/bin`, while the tools that are run are the first on PATH,
possibly the host's own. `staticAddress` looks at the subnets of every entry,
whatever its type (hosts.go:57-66), while `ApplyNetworkConfig` applies only those of
type `physical`: a `nameserver` entry that carried a static subnet would put an
address into `/etc/hosts` that nobody assigned. The type's comment gives such
entries no subnets (network.go:28-30), and `HostsAddress` assumes that. And a user section is kept "verbatim" (fsutil.go:11) but
for blanks at its end.

## Fairness

* `CleanupStack`: a goroutine that can take a step of the loop takes it (Go
  schedules preemptively). `Lock` is strongly fair, since `sync.Mutex` hands the
  lock to a waiter that has starved for a millisecond. Nobody has to call
  `push` or `unwind`.
* `Pipeline`: goroutines run, external commands return (`runCommand` has no
  deadline, so a command that hangs hangs the program; this is outside the
  model), the handler receives what is in its channel. Nothing is assumed of the
  kernel or of the user: `waitForNBDSize` ends at its deadline. In runs without
  the fault `timeout` the kernel's step is not forced, and no liveness is
  checked there.
* `XbpsCache`: the run takes its next step, and so does a download that has
  reached the timeouts of `httpClient` (`downloadFails` is a step of the run).
  The user need not answer, and the server need not answer or deliver:
  `confirm`, `downloadSums` and `downloadTarball` are not fair.
* `VoidInit`: the run makes progress, and the machine is switched on again while
  boots are left (`Configures` speaks of what a boot achieves). rc.local
  runs the program at each boot.

## Proofs

`CleanupStackProofs` proves, for every set of goroutines and callbacks, under the
one assumption that `NoOwner` is no goroutine: `TypeCorrect`, `StackInvariant`,
`RunAtMostOnce`, `NothingIsForgotten`, `RunInReverseOrder`.

`AtMostOnce` is not inductive: it does not say that a callback still on the stack
has not been run. The invariant `StackInv` adds that at most one goroutine is in
the loop and holds the mutex (`Holder`), that callbacks are registered once
(`Distinct`), that `fns` is the tail of everything registered (`TailOfOrder`),
and that precisely the callbacks up to the loop counter, or all of `fns` while
the mutex is free, have yet to be run (`RunCounts`). One lemma per action shows that
it is preserved; `RunKeepsInv` needs that the callback below the counter has not
been run (`NewestLeft`). `AtMostOnce` and `NothingForgotten` follow from the
invariant; `ReverseOrder` is a property of steps, which only `RunCallback` can
break, and follows from `RunCounts` before the step.

`XbpsCacheProofs` proves all invariants for any tools, keys, archives, hosts and
numbers of runs and interruptions. It rests on the assumptions that `XbpsCache`
names: the constants have their types, an archive holds a set of tools and a
sequence of keys, and at least one archive is published.

* `TypeCorrect`. It needs `ListedWasServed`: the server lists only what it has
  served, and so only archives.
* `InstalledWasVerified`. `OnlyVerifiedInstalled` is not inductive: it does not say
  what the next copy writes. `GotListed` adds that from `extract` on the archive at
  hand is a listed one. `verifyChecksum` establishes that, because the list that
  was downloaded is part of what the server lists, which only grows
  (`ListedGrows`), and only a new download gives it up.
* `FailureLeavesCache`. `FailureKeepsCache` speaks of a run that has ended;
  `TouchedLate` says at each place what a run cannot have touched yet. An archive
  without a key directory leaves the keys alone; one with an empty directory does not,
  and the theorem does not say so.
* `UpdateInstallsExactly`. `UpdateIsExact` also speaks only of the end.
  `ToolsDone` and `KeysDone` are the invariants of the two loops: the entries
  before the index are copied whole, and a key that is not among them is not
  there. `LoopsBehind` keeps what a loop has achieved, and that an update needs
  both loops, until the end. `Before` allows an archive that names a file
  twice; the directory listing of the code never does.

It continues with the end of a run, under the same assumptions.

* `TmpIsCleaned`. `TmpInv` says which temporary files there are at each place.
* `MissingOnlyOffPath`. `ToolsThere`: the tools were found when the run began, or
  those before the index are installed.
* `EndsWithToolsAndKeys`. `Available` speaks of the end; `CacheInv` is what earlier
  runs leave for later ones. The archive of a run that ends well may have had no keys
  in its key directory (`NoKeyInDirectory`), and then there are none. Unless a run was interrupted amid its copies and no
  update came since, a tool that is there is whole but for the one being copied
  (`WholeTools`), the keys are those of one archive (`WholeKeys`), and a run that is
  past the keys has them (`KeysBehind`).

`RotationProofs` proves all properties of `Rotation` for any limit, number of
backups, and lines of positive length. Neither `Ordered` nor `OnlyOldestLost`
is inductive. `LogInv` adds that the slot a rename goes to is free (`Freed`; this is
why a rename that fails ends the rotation, and why the loop starts with a removal),
that a line that is pending is newer than all that are stored (`Numbered`), that it
fits or has the file for itself (`Fits`), and that a slot without a file holds
nothing (`NoFileNoLines`).

`PipelineProofs` is about every accepted configuration, any faults and any number
of signals.

* *Control and refinement.* The steps that `run()` has left are described by what comes
  after each (`After`): `FlowInv` says that they are the path from the step main is at
  to its exit, or to the point where it learns the layout. From that follows
  `RefinesStack`: every step of the pipeline is a step of the cleanup stack with
  `main` and `handler` as its goroutines, or leaves it alone. The theorems of
  `CleanupStackProofs` are then instantiated, not proved again
  (`CallbacksRunOnce`, `CallbacksRunInReverse`).
* *Safety.* `OrderInv`: the callbacks registered so far are a prefix of
  one list, detach first and the umount of efi last, and which prefix follows from
  the step main is at. `UnwindInv`: without a signal none of them is run before
  main's own unwinding, and nothing is on the stack after it. `MountedInv` says what
  is mounted at each step. `HeldInv` is what `NothingLeftSilently` needs: what main
  acquired waits on the stack, or is registered by the very next step, or its
  release failed and was logged. `InnermostFirst` and `ContentsSurvive` hold whichever
  goroutine unwinds: a callback runs after all that were registered later
  (`RunOne`, from `StackInv`), what is mounted in it was registered later
  (`InsideIsLater`), so that its umount has been tried (`InnerOnesTried`), and main
  mounts nothing before it registers what it mounted, unless a signal came.
  `SizeAwaited` gives `NeverCorrupts`: while the size is unknown main waits or is
  on its way out.
* *The image.* The type invariant needs `MountedInv`, since only what was
  formatted is ever mounted. `HostIsSpared` and `MountedContentsSurvive` follow from
  where main is when it writes or formats. `BuildIsComplete` needs `MadeInv`: the
  tree steps have an order (`Rank`), and in an undisturbed build all that the
  steps behind main make is on its partition.

`VoidInitProofs` proves all invariants of `VoidInit` for any media, interfaces and
faults, and any number of runs, reboots, crashes and changes of media.

* *Lists.* What a run does is a join of lists of any length (entries, their
  subnets, the calls for each). `FlattenSeq` is a recursive function; that joins of
  sequences are sequences, that what is true of each part and kept by `\o` is true of
  the whole (`FlattenCloses`), and what they contain (`FlattenRange`) is proved by
  taking the least length at which it could fail (`LeastMember`).
* *Plans.* `Plan` is closed under joining: the calls of `writeManagedFile` follow
  each other (`Bracketed`), a list neither begins nor ends within them (`Whole`),
  and an interface is looked up before it is used (`Resolved`). What a run has left is
  the end of a plan (`TodoInv`).
* *What is in effect.* `Done(x)` says that call `x` is in effect. `NothingSkipped` is
  the core: each call that the configuration needs (`UserSteps`, `NetSteps`) is still to
  come, or is in effect. It is inductive as no later call undoes an earlier one:
  two calls about the same file or name that a configuration can produce agree
  (`Known`). At the end nothing is left, which gives `UserDataTakesEffect` and
  `StaticNetworkTakesEffect`. Nothing is needed of what earlier runs left:
  each run starts over, and that is what makes it safe to be interrupted.
* *Edits.* `CarryInv`: between reading and writing a file, what is carried is the
  user's section or nothing. `KeptInv` excludes "nothing", unless a crash or a failing
  call came in between. `EditsAreKept` therefore has the hypothesis
  `"call" \notin Faults`, as the run `recovers` has; a write that fails amid a file
  loses the section in the code too.
* `HostsAddress` has the hypothesis named above, on entries that are no interfaces.

`FoldProofs`, `FunctionProofs` and `CommandLineProofs` prove the five properties of
`MCFunctions` for inputs of any length, any bounds, octets of any width, and any set
of existing files. They assume that the bounds are numbers and that an octet has a bit
(`BoundsAssumption`, `WidthAssumption`). Each is a theorem about the function (`ManagedFile`, `GrubEdited`,
`BashrcEdited`, `Spliced`, `Netmasks`, `CommandLines`), whose inputs are any sequences
of what the function tells apart, and from it a theorem of the specification, by
`InputsTyped`: the inputs it makes are such sequences.

* *Folds.* `FoldLeft` is defined by a recursive function on the sets of indices
  (`MapThenFoldSet`). `FoldProofs` shows that this function exists and is the only one
  (`IterExists`, `IterAgrees`), so that the result of one more element is one more step
  (`FoldAppend`). `Step` and `Base` are constants of the module, and each fold of the
  model is an instance of it. Facts about all prefixes follow by `UpTo`, from the least
  number at which one could fail; this replaces induction over the data.
* *Managed files.* Rendered texts are of two kinds, which are written alike up to the
  marker (`Heading`); the first marker of what is written is the one that was rendered,
  so a section may hold further markers. `TrimTwice`: trimming twice is trimming once.
* *Configuration files.* `Settles` says of a list of lines that it is the old one with
  each setting replaced in place or appended; from that follow that no key is missing
  and none has another value (`Settled`), and that a second edit finds nothing to do.
  The other lines are compared by a fold that ignores what is edited (`FoldSimilar`), and
  blanks at the end (`FoldNeutral`). `BashrcEdited` assumes that an assignment of PS1 has
  a value: `Effective` uses the empty text for "no assignment".
* *user-data.* The lines of a text that is joined from values without newlines are these
  values; the first colon of a record is the one between user and hash.
* *Netmasks.* What matters of a mask is its gap, 2^bits less its value: it's a power of
  two precisely if the mask is ones and then zeros. `SizeInv` says for the octets so far
  what `n`, `full` and `ok` say about the gap, and `GapStays` that a gap that is no power of
  two never becomes one.
* *Command lines.* `Parsed` describes the parser after each argument, as long as no value
  looks like a flag (`Clean`), in terms of the reference: it looks for flags, waits
  for a value, has seen `--`, has left arguments over, or has failed; and the variables
  are what is written so far (`Says`). If a value looks like a flag, in an argument of its
  own or after `=`, and nothing replaces it, the variable keeps it (`Stuck`), and `checkSwallowedValues` rejects it.

The proof of `CommandLines` found a flaw in an earlier form of the model: the cases of
`ParseToken` overlapped, so that what it computes was not determined. TLC takes the first
case that applies, and could not show it.

### Model-checked only

* Liveness and what depends on fairness: `UnwindReturns`, `RegisteredIsRun`,
  `Terminates`, `RunEnds`, `Configures`. The prover does not reason about ENABLED.
* The violated properties of the section on disagreements, which TLC refutes.

## Plan

1. `CleanupStack`, with proofs; `Pipeline` on top of it; `Rotation`; `VoidInit`. Done.
2. `XbpsCache`, `CommandLine`, `TextRewrites`, `MCFunctions`. Done.
3. `XbpsCacheProofs`: all invariants of `XbpsCache`. Done.
4. `PipelineProofs`: the refinement, all invariants and `ContentsSurvive`. Done.
5. `RotationProofs`: all invariants. Done.
6. `VoidInitProofs`: all invariants. Done.
7. `FoldProofs`, `FunctionProofs`, `CommandLineProofs`: what the functions of
   `CommandLine` and `TextRewrites` compute, for inputs of any length. Done.

## Not modelled

The contents of packages and templates, YAML parsing, message formats, command
output, HTTP below "a request is answered, fails or times out", the format of
`sha256sums.txt`, and everything inside external programs. Of package flag, `-h`
and the form `-flag=false` of a boolean are left out. Users of the host other
than void-initfs appear only as a foreign user of the nbd device and as `umount`
failing; two runs of void-initfs at once are not modelled, since all of them use
`/dev/nbd0` and the code is written for one build at a time (image.go:14-16).
`os.Stat` in `validate` and the use of the same path in `createImage` are far
apart, but only another user of the directory can tell.
