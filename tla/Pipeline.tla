------------------------------ MODULE Pipeline ------------------------------
(***************************************************************************)
(* cmd/void-initfs: one run of the program, from the start of run() to the *)
(* end of the process.  Three actors share the host: the main goroutine,   *)
(* which builds an image or refreshes an existing one; the signal handler  *)
(* goroutine, which unwinds the cleanup stack and exits; and the kernel,   *)
(* which connects and releases /dev/nbd0 in its own time.                  *)
(*                                                                         *)
(* Each call that changes something outside the process is a step of main  *)
(* (todo lists the ones that are left), so the handler may run between any *)
(* two of them, in particular between an acquisition and the registration  *)
(* of its cleanup.  The stack is the one of module CleanupStack.           *)
(*                                                                         *)
(* A file tree is the set of the build products it holds.  Whether a path  *)
(* below the temporary directory leads to a partition of the image or to   *)
(* the host depends on what is mounted when it is used (Where).            *)
(***************************************************************************)
EXTENDS Naturals, Sequences

CONSTANTS
  Faults,     \* what the environment may do: a subset of FaultKind
  MaxSignals  \* bound: SIGINT or SIGTERM sent to one run

FaultKind ==
  { "command",   \* an external command or a file operation fails
    "timeout",   \* the nbd device does not settle within nbdPollTimeout
    "umount",    \* umount fails although nothing of void-initfs uses the mount
    "detach" }   \* qemu-nbd -d fails

ASSUME FaultsAssumption == Faults \subseteq FaultKind
ASSUME MaxSignalsAssumption == MaxSignals \in Nat

VARIABLES
  cfg,        \* the command line, and the image it names when run() starts
  layout,     \* "bios", "efi", or "unknown" before detectLayout
  todo,       \* the steps main still has to make, in order
  err,        \* run() is going to return an error
  exit,       \* how the process ended: see TypeOK
  notify,     \* SIGINT and SIGTERM are delivered to the channel sig
  pending,    \* the channel sig (capacity 1) holds a signal
  signals,    \* signals sent so far
  handler,    \* "waiting" on sig, "unwinding", before os.Exit(1)
  nbd,        \* /dev/nbd0
  parts,      \* partitions in the image's table
  formatted,  \* partitions that hold a file system
  mounted,    \* partitions mounted below the temporary directory
  tmp,        \* the temporary directory exists on the host
  tree,       \* what each partition, and the temporary directory, holds
  failed,     \* acquisitions and callbacks whose failure was reported
  mu, fns, at, i, order, runs  \* the cleanup stack

ctlVars   == << cfg, layout, todo, err >>
sigVars   == << notify, pending, signals, handler >>
imageVars == << parts, formatted, tree >>
hostVars  == << nbd, mounted, tmp, failed >>
stackVars == << mu, fns, at, i, order, runs >>
vars == << ctlVars, exit, sigVars, imageVars, hostVars, stackVars >>

Partition == { "root", "boot", "efi" }

UmountOf == [root |-> "umount root", boot |-> "umount boot", efi |-> "umount efi"]
Callback == { "detach", "remove" } \union { UmountOf[p] : p \in Partition }

Stack == INSTANCE CleanupStack
           WITH Goroutine <- { "main", "handler" }, NoOwner <- "none"

-----------------------------------------------------------------------------
(* The layouts and the steps of the two pipelines *)

partitionCount(l) == IF l = "efi" THEN 4 ELSE 3
PartitionsOf(l) == IF l = "efi" THEN Partition ELSE { "root", "boot" }

\* A partition table that sgdisk wrote to a device of size 0.
Corrupt == 9

\* Mutant of Attach: no wait for the size of the device.
AttachWithoutWait == << "modprobe", "connect", "pushDetach" >>

Attach == << "modprobe", "connect", "waitAttach", "pushDetach" >>

\* Mutants of MountSteps: the removal is registered after the root mount; the
\* unmount of the EFI partition is not registered.
RemoveRegisteredLate(l) ==
  << "mkdirTemp", "mountRoot", "pushRoot", "pushRemove",
     "mkdirBoot", "mountBoot", "pushBoot" >>
  \o IF l = "efi" THEN << "mkdirEfi", "mountEfi", "pushEfi" >> ELSE << >>

EfiNotRegistered(l) ==
  << "mkdirTemp", "pushRemove", "mountRoot", "pushRoot",
     "mkdirBoot", "mountBoot", "pushBoot" >>
  \o IF l = "efi" THEN << "mkdirEfi", "mountEfi" >> ELSE << >>

MountSteps(l) ==
  << "mkdirTemp", "pushRemove", "mountRoot", "pushRoot",
     "mkdirBoot", "mountBoot", "pushBoot" >>
  \o IF l = "efi" THEN << "mkdirEfi", "mountEfi", "pushEfi" >> ELSE << >>

installBootloader(l) ==
  IF l = "efi" THEN << "grubInstall", "setGrubFastboot", "grubMkconfig" >>
               ELSE << "grubInstall", "grubMkconfig" >>

\* The end of run(): its deferred calls, last one first, then main().
Return == << "signalStop", "unwind", "exit" >>

\* Mutant of runBuild: the detach is registered once everything is mounted.
DetachRegisteredLate(l) ==
  << "createImage", "modprobe", "connect", "waitAttach", "partition", "makeFilesystems" >>
  \o MountSteps(l) \o << "pushDetach", "installRepoKeys" >> \o Return

\* Mutant of runBuild: /boot is mounted after the packages are installed.
BootMountedLate(l) ==
  << "createImage" >> \o Attach
  \o << "partition", "makeFilesystems", "mkdirTemp", "pushRemove", "mountRoot", "pushRoot",
        "mkdirBoot", "installRepoKeys", "bootstrap", "mountBoot", "pushBoot" >>
  \o SubSeq(MountSteps(l), 8, Len(MountSteps(l)))
  \o << "reconfigure", "configureBashPrompt", "configureShutdownAliases", "writeFstab",
        "installBinaries", "enableSSHService" >>
  \o installBootloader(l) \o Return

runBuild(l) ==
  << "createImage" >> \o Attach \o << "partition", "makeFilesystems" >>
  \o MountSteps(l)
  \o << "installRepoKeys", "bootstrap", "reconfigure", "configureBashPrompt",
        "configureShutdownAliases", "writeFstab", "installBinaries",
        "enableSSHService" >>
  \o installBootloader(l) \o Return

\* runReuse up to the point where the layout is known, and the rest.
runReuse == Attach \o << "detectLayout" >>

runReuseTail(l) ==
  MountSteps(l) \o << "installBinaries", "enableSSHService" >>
  \o (IF cfg.reinstall THEN installBootloader(l) ELSE << >>) \o Return

(***************************************************************************)
(* The steps that work in the mounted tree: what each makes and where that *)
(* goes; what it needs (one of the products named: the directory it writes *)
(* to, or the system it runs in, is there); whether it makes the directory *)
(* it writes to (os.MkdirAll, xbps-install -r), and whether it works on    *)
(* /dev/nbd0 as well (blkid, grub-install).                                *)
(***************************************************************************)
StepThat(makes, needs, mkdirAll, device) ==
  [makes |-> makes, needs |-> needs, mkdirAll |-> mkdirAll, device |-> device]

installRepoKeys == StepThat({ << "root", "keys" >> }, { }, TRUE, FALSE)
bootstrap ==
  StepThat({ << "root", "packages" >>, << "boot", "kernel" >> }, { "keys" }, TRUE, FALSE)
reconfigure ==
  StepThat({ << "root", "configured" >>, << "boot", "initramfs" >> }, { "packages" }, FALSE, FALSE)
configureBashPrompt == StepThat({ << "root", "prompt" >> }, { "packages" }, FALSE, FALSE)
configureShutdownAliases == StepThat({ << "root", "aliases" >> }, { }, TRUE, FALSE)
writeFstab == StepThat({ << "root", "fstab" >> }, { "packages", "aliases" }, FALSE, TRUE)
installBinaries == StepThat({ << "root", "binaries" >> }, { "packages" }, FALSE, FALSE)
enableSSHService == StepThat({ << "root", "sshd" >> }, { "packages" }, FALSE, FALSE)
grubInstall ==
  StepThat({ << "boot", "grub" >>, << "efi", "loader" >> }, { "packages" }, FALSE, TRUE)
setGrubFastboot == StepThat({ << "root", "fastboot" >> }, { "packages" }, FALSE, FALSE)
grubMkconfig == StepThat({ << "boot", "grub.cfg" >> }, { "packages" }, FALSE, TRUE)

TreeSteps ==
  [installRepoKeys |-> installRepoKeys, bootstrap |-> bootstrap, reconfigure |-> reconfigure,
   configureBashPrompt |-> configureBashPrompt,
   configureShutdownAliases |-> configureShutdownAliases, writeFstab |-> writeFstab,
   installBinaries |-> installBinaries, enableSSHService |-> enableSSHService,
   grubInstall |-> grubInstall, setGrubFastboot |-> setGrubFastboot,
   grubMkconfig |-> grubMkconfig]

TreeStep == DOMAIN TreeSteps

ProductsOf(S) == UNION { TreeSteps[s].makes : s \in S }

\* What an image has to hold for a virtual machine to boot it.
Complete(l) ==
  \A pr \in ProductsOf(TreeStep \ { "setGrubFastboot" }) :
    pr[1] \in PartitionsOf(l) => pr[2] \in tree[pr[1]]

-----------------------------------------------------------------------------
(* Initial states *)

NoFiles == [p \in Partition \union { "host" } |-> { }]

\* What the root, boot and EFI partitions of a finished build hold.
BuiltTree(l) ==
  [p \in Partition \union { "host" } |->
     IF p \notin PartitionsOf(l) THEN { } ELSE
       { pr[2] : pr \in { q \in ProductsOf(TreeStep) : q[1] = p } }
       \union (IF p = "root" THEN { "bootdir" } ELSE { })
       \union (IF p = "boot" /\ l = "efi" THEN { "efidir" } ELSE { })]

\* A root file system that was not made by runBuild: no /boot of its own.
ForeignTree == [BuiltTree("bios") EXCEPT !["root"] = @ \ { "bootdir" },
                                         !["boot"] = { }]

\* The image that -i or -o -f names: none, finished, or a build that failed
\* after partition or in the middle of it.
ImageIs(kind) ==
  CASE kind = "none"       -> parts = 0 /\ formatted = { } /\ tree = NoFiles
    [] kind = "bios"       -> parts = 3 /\ formatted = { "root", "boot" } /\ tree = BuiltTree("bios")
    [] kind = "efi"        -> parts = 4 /\ formatted = Partition /\ tree = BuiltTree("efi")
    [] kind = "foreign"    -> parts = 3 /\ formatted = { "root", "boot" } /\ tree = ForeignTree
    [] kind = "half efi"   -> parts = 3 /\ formatted = { } /\ tree = NoFiles
    [] kind = "blank"      -> parts = 0 /\ formatted = { } /\ tree = NoFiles

\* The path given with -i, or with -o -f, exists; another one does not.
CL == INSTANCE CommandLine WITH Existing <- { "old" }

\* The configurations that validate accepts, as far as run() depends on them.
Accepted ==
  LET paths == { CL!NoText, CL!Text("new"), CL!Text("old") }
  IN  { c \in [bios : BOOLEAN, efi : BOOLEAN, libc : { CL!Default.libc },
               packages : { CL!Default.packages }, output : paths, image : paths,
               reinstallBootloader : BOOLEAN, binaryPath : { CL!Default.binaryPath },
               updateXbps : BOOLEAN, assumeYes : { CL!Default.assumeYes },
               force : BOOLEAN] : CL!validate(c) }

\* What the path of an accepted configuration may hold.
ImagesAt(c) ==
  IF c.image # CL!NoText THEN { "bios", "efi", "foreign", "half efi", "blank" }
  ELSE IF c.output = CL!Text("old") THEN { "bios" } ELSE { "none" }

\* The program is run with an accepted configuration, on an image of some kind.
Command ==
  UNION { { [mode |-> IF c.image # CL!NoText THEN "reuse" ELSE "build",
             requested |-> CL!requestedLayout(c), force |-> c.force,
             reinstall |-> c.reinstallBootloader, image |-> kind] : kind \in ImagesAt(c) } :
          c \in Accepted }

\* run() has made the stack and called signal.Notify; preflight is next.
Init ==
  /\ cfg \in Command
  /\ layout = IF cfg.mode = "build" THEN cfg.requested ELSE "unknown"
  /\ todo = << "preflight" >> \o
              IF cfg.mode = "build" THEN runBuild(cfg.requested) ELSE runReuse
  /\ err = FALSE
  /\ exit = "no"
  /\ notify = TRUE /\ pending = FALSE /\ signals = 0 /\ handler = "waiting"
  /\ ImageIs(cfg.image)
  /\ nbd \in { "free", "foreign" }
  /\ mounted = { } /\ tmp = FALSE /\ failed = { }
  /\ Stack!Init

-----------------------------------------------------------------------------
(* Steps of the main goroutine *)

\* main is about to make step s.
At(s) ==
  /\ exit = "no" /\ at["main"] = "running"
  /\ todo # << >> /\ Head(todo) = s

Ok == todo' = Tail(todo) /\ UNCHANGED << cfg, layout, err, exit >>

\* "return err": only the deferred calls and main() are left.
Err == todo' = Return /\ err' = TRUE /\ UNCHANGED << cfg, layout, exit >>

\* The environment may make an external command or a file operation fail.
MayFail == "command" \in Faults

\* Steps that change nothing outside the process, or nothing that matters
\* here: preflight's checks, and loading the kernel module.
Check(s) ==
  /\ s \in { "preflight", "modprobe" }
  /\ At(s)
  /\ Ok \/ (MayFail /\ Err)
  /\ UNCHANGED << sigVars, imageVars, hostVars, stackVars >>

\* -f removes the file first; qemu-img may then fail and leave none.
createImage ==
  /\ At("createImage")
  /\ \/ /\ Ok
        /\ parts' = 0 /\ formatted' = { } /\ tree' = NoFiles
     \/ /\ MayFail /\ Err
        /\ \/ UNCHANGED imageVars
           \/ cfg.force /\ parts' = 0 /\ formatted' = { } /\ tree' = NoFiles
  /\ UNCHANGED << sigVars, hostVars, stackVars >>

\* attachImage: qemu-nbd -c returns before the kernel knows the size.
connect ==
  /\ At("connect")
  /\ \/ nbd = "free" /\ nbd' = "sizing" /\ Ok
     \/ (nbd # "free" \/ MayFail) /\ Err /\ UNCHANGED nbd
  /\ UNCHANGED << mounted, tmp, failed, sigVars, imageVars, stackVars >>

\* Mutant of waitAttach: no deadline.
WaitForever ==
  /\ At("waitAttach") /\ nbd = "ready" /\ Ok
  /\ UNCHANGED << failed, nbd, mounted, tmp, sigVars, imageVars, stackVars >>

\* attachImage: waitForNBDSize(sectors > 0), or its deadline.
waitAttach ==
  /\ At("waitAttach")
  /\ \/ nbd = "ready" /\ Ok /\ UNCHANGED failed
     \/ /\ nbd # "ready" /\ "timeout" \in Faults
        /\ Err /\ failed' = failed \union { "attach" }
  /\ UNCHANGED << nbd, mounted, tmp, sigVars, imageVars, stackVars >>

\* stack.push after an acquisition that succeeded.
PushOf ==
  [pushDetach |-> "detach", pushRemove |-> "remove", pushRoot |-> UmountOf.root,
   pushBoot |-> UmountOf.boot, pushEfi |-> UmountOf.efi]

push(s) ==
  /\ At(s)
  /\ Stack!push("main", PushOf[s])
  /\ Ok
  /\ UNCHANGED << sigVars, imageVars, hostVars >>

\* sgdisk creates the table and the partitions one by one; on a device that
\* still has size 0 what it writes is garbage.
partition ==
  /\ At("partition")
  /\ formatted' = { } /\ tree' = [tree EXCEPT !["root"] = { }, !["boot"] = { }, !["efi"] = { }]
  /\ \/ nbd = "sizing" /\ parts' = Corrupt /\ Ok
     \/ nbd = "ready" /\ parts' = partitionCount(layout) /\ Ok
     \/ /\ nbd # "sizing" /\ (nbd # "ready" \/ MayFail)
        /\ Err
        /\ parts' \in IF nbd = "ready" THEN 0 .. partitionCount(layout) ELSE { parts }
  /\ UNCHANGED << sigVars, hostVars, stackVars >>

\* mkfs, on the EFI partition first, then /boot, then /.
makeFilesystems ==
  LET all  == PartitionsOf(layout)
      some == { all \ { "root" }, all \ { "root", "boot" }, { } }
  IN  /\ At("makeFilesystems")
      /\ \/ nbd = "ready" /\ Ok /\ formatted' = all
         \/ /\ nbd # "ready" \/ MayFail
            /\ Err
            /\ formatted' \in IF nbd = "ready" THEN some ELSE { { } }
      /\ UNCHANGED << parts, tree, sigVars, hostVars, stackVars >>

\* detectLayout counts the partition device nodes, and runReuse compares the
\* answer with the layout that was asked for, if any.
detectLayout ==
  LET found == CASE parts = 3 -> "bios" [] parts = 4 -> "efi" [] OTHER -> "unknown"
  IN  /\ At("detectLayout")
      /\ \/ /\ nbd = "ready" /\ found # "unknown"
            /\ cfg.requested \in { "none", found }
            /\ layout' = found /\ todo' = runReuseTail(found)
            /\ UNCHANGED << cfg, err, exit >>
         \/ /\ \/ nbd # "ready" \/ found = "unknown"
               \/ cfg.requested \notin { "none", found }
               \/ MayFail
            /\ Err
      /\ UNCHANGED << sigVars, imageVars, hostVars, stackVars >>

mkdirTemp ==
  /\ At("mkdirTemp")
  /\ \/ Ok /\ tmp' = TRUE
     \/ MayFail /\ Err /\ UNCHANGED tmp
  /\ UNCHANGED << nbd, mounted, failed, sigVars, imageVars, stackVars >>

\* What a path below the temporary directory's p ("root" is the directory
\* itself) leads to: the innermost mount above it, or the host.
Where(p) ==
  IF p = "efi" /\ "efi" \in mounted THEN "efi"
  ELSE IF p # "root" /\ "boot" \in mounted THEN "boot"
  ELSE IF "root" \in mounted THEN "root" ELSE "host"

\* The directory that partition p is mounted on is there.
MountPointOf == [boot |-> "bootdir", efi |-> "efidir"]
ParentOf     == [boot |-> "root", efi |-> "boot"]

HasMountPoint(p) ==
  IF p = "root" THEN tmp ELSE MountPointOf[p] \in tree[Where(ParentOf[p])]

\* os.Mkdir of /boot or /boot/efi: an error if it exists already.
mkdir(p) ==
  LET where == Where(ParentOf[p])
  IN  /\ At(IF p = "boot" THEN "mkdirBoot" ELSE "mkdirEfi")
      /\ \/ /\ ~HasMountPoint(p) /\ (where # "host" \/ tmp)
            /\ Ok
            /\ tree' = [tree EXCEPT ![where] = @ \union { MountPointOf[p] }]
         \/ /\ HasMountPoint(p) \/ (where = "host" /\ ~tmp) \/ MayFail
            /\ Err /\ UNCHANGED tree
      /\ UNCHANGED << parts, formatted, sigVars, hostVars, stackVars >>

\* Mutants of mount: an error is ignored; the partition is not formatted.
MountErrorIgnored(p) ==
  /\ At([root |-> "mountRoot", boot |-> "mountBoot", efi |-> "mountEfi"][p]) /\ Ok
  /\ mounted' \in { mounted, mounted \union { p } }
  /\ UNCHANGED << nbd, tmp, failed, sigVars, imageVars, stackVars >>

MountUnformatted(p) ==
  /\ At([root |-> "mountRoot", boot |-> "mountBoot", efi |-> "mountEfi"][p])
  /\ \/ nbd = "ready" /\ HasMountPoint(p) /\ Ok /\ mounted' = mounted \union { p }
     \/ MayFail /\ Err /\ UNCHANGED mounted
  /\ UNCHANGED << nbd, tmp, failed, sigVars, imageVars, stackVars >>

mount(p) ==
  /\ At([root |-> "mountRoot", boot |-> "mountBoot", efi |-> "mountEfi"][p])
  /\ LET possible == nbd = "ready" /\ p \in formatted /\ HasMountPoint(p)
     IN  \/ possible /\ Ok /\ mounted' = mounted \union { p }
         \/ (~possible \/ MayFail) /\ Err /\ UNCHANGED mounted
  /\ UNCHANGED << nbd, tmp, failed, sigVars, imageVars, stackVars >>

\* A step that works in the mounted tree, or in what is left of it.
InTree(s) ==
  LET step     == TreeSteps[s]
      possible == /\ step.mkdirAll \/ Where("root") # "host" \/ tmp
                  /\ step.needs = { } \/ step.needs \intersect tree[Where("root")] # { }
                  /\ step.device => nbd = "ready"
      to(p)    == { pr[2] : pr \in { q \in step.makes :
                                       q[1] \in PartitionsOf(layout) /\ Where(q[1]) = p } }
  IN  /\ At(s)
      /\ \/ /\ possible /\ Ok
            /\ tree' = [p \in DOMAIN tree |-> tree[p] \union to(p)]
            /\ tmp' = (tmp \/ step.mkdirAll)
         \/ /\ ~possible \/ MayFail
            /\ Err /\ UNCHANGED << tree, tmp >>
      /\ UNCHANGED << parts, formatted, nbd, mounted, failed, sigVars, stackVars >>

\* The deferred signal.Stop: from now on a signal kills the process.  What is
\* in the channel stays there.
signalStop ==
  /\ At("signalStop") /\ Ok
  /\ notify' = FALSE
  /\ UNCHANGED << pending, signals, handler, imageVars, hostVars, stackVars >>

\* The deferred stack.unwind begins.
unwind ==
  /\ At("unwind") /\ Ok
  /\ Stack!unwind("main")
  /\ UNCHANGED << sigVars, imageVars, hostVars >>

\* main() returns, or fatal() exits with status 1.
Exit ==
  /\ At("exit")
  /\ exit' = IF err THEN "error" ELSE "success"
  /\ todo' = << >>
  /\ UNCHANGED << cfg, layout, err, sigVars, imageVars, hostVars, stackVars >>

Main ==
  \/ \E s \in { "preflight", "modprobe" } : Check(s)
  \/ createImage \/ connect \/ waitAttach
  \/ \E s \in DOMAIN PushOf : push(s)
  \/ partition \/ makeFilesystems \/ detectLayout \/ mkdirTemp
  \/ \E p \in { "boot", "efi" } : mkdir(p)
  \/ \E p \in Partition : mount(p)
  \/ \E s \in TreeStep : InTree(s)
  \/ signalStop \/ unwind \/ Exit

-----------------------------------------------------------------------------
(* The cleanup callbacks, and the two goroutines that unwind the stack *)

\* umount refuses a mount that another mount is nested in, and one that a
\* command main has started works in.
MustBeBusy(p) ==
  \/ p = "root" /\ { "boot", "efi" } \intersect mounted # { }
  \/ p = "boot" /\ "efi" \in mounted

MayBeBusy ==
  \/ "umount" \in Faults
  \/ at["main"] = "running" /\ todo # << >> /\ Head(todo) \in TreeStep

\* The callback mountAt registers: a failure is only logged.
umount(p) ==
  /\ \/ p \in mounted /\ ~MustBeBusy(p)
        /\ mounted' = mounted \ { p } /\ UNCHANGED failed
     \/ /\ p \notin mounted \/ MustBeBusy(p) \/ MayBeBusy
        /\ failed' = failed \union { UmountOf[p] } /\ UNCHANGED mounted
  /\ UNCHANGED << nbd, tmp, imageVars >>

\* The callback mount registers.  os.RemoveAll descends into whatever is
\* still mounted; only the directories that are mount points survive.
removeAll ==
  /\ tree' = [p \in DOMAIN tree |->
                IF p \in mounted \union { "host" }
                THEN { m \in tree[p] : \E q \in { "boot", "efi" } \intersect mounted :
                                         m = MountPointOf[q] /\ Where(ParentOf[q]) = p }
                ELSE tree[p]]
  /\ tmp' = (mounted # { })
  /\ failed' = IF mounted # { } THEN failed \union { "remove" } ELSE failed
  /\ UNCHANGED << nbd, mounted, parts, formatted >>

\* Mutant of detachImage: no wait for the kernel to release the device.
DetachWithoutWait ==
  /\ nbd' = "releasing"
  /\ UNCHANGED << failed, mounted, tmp, imageVars >>

\* detachImage: qemu-nbd -d does not ask whether the device is mounted; then
\* waitForNBDSize(sectors = 0), or its deadline.  Failures are only logged.
detachImage ==
  /\ \/ nbd' = "free" /\ UNCHANGED failed
     \/ "timeout" \in Faults /\ nbd' = "releasing" /\ failed' = failed \union { "detach" }
     \/ "detach" \in Faults /\ UNCHANGED nbd /\ failed' = failed \union { "detach" }
  /\ UNCHANGED << mounted, tmp, imageVars >>

Call(c) ==
  \/ c = "detach" /\ detachImage
  \/ c = "remove" /\ removeAll
  \/ \E p \in Partition : c = UmountOf[p] /\ umount(p)

RunCallback(g) ==
  /\ exit = "no"
  /\ Stack!RunCallback(g)
  /\ Call(fns[i[g]])
  /\ UNCHANGED << ctlVars, exit, sigVars >>

\* Mutant of Mutex: unwind does not wait for the other goroutine.
MutexDropped(g) ==
  /\ exit = "no"
  /\ \/ at[g] = "locking" /\ mu' = g /\ at' = [at EXCEPT ![g] = "unwinding"]
        /\ i' = [i EXCEPT ![g] = Len(fns)] /\ UNCHANGED << fns, order, runs >>
     \/ Stack!Unlock(g)
  /\ UNCHANGED << ctlVars, exit, sigVars, imageVars, hostVars >>

\* unwind takes the mutex, or releases it.
Mutex(g) ==
  /\ exit = "no"
  /\ Stack!Lock(g) \/ Stack!Unlock(g)
  /\ UNCHANGED << ctlVars, exit, sigVars, imageVars, hostVars >>

\* The handler goroutine receives from sig and calls unwind.
Receive ==
  /\ exit = "no" /\ handler = "waiting" /\ pending
  /\ pending' = FALSE /\ handler' = "unwinding"
  /\ Stack!unwind("handler")
  /\ UNCHANGED << ctlVars, exit, notify, signals, imageVars, hostVars >>

\* The handler goroutine's os.Exit(1), whatever main is doing.
HandlerExit ==
  /\ exit = "no" /\ handler = "unwinding" /\ at["handler"] = "running"
  /\ exit' = "interrupted"
  /\ UNCHANGED << ctlVars, sigVars, imageVars, hostVars, stackVars >>

-----------------------------------------------------------------------------
(* The environment *)

\* SIGINT or SIGTERM: to the channel, which drops it when it is full, or,
\* after signal.Stop, with the default action.
Interrupt ==
  /\ exit = "no" /\ signals < MaxSignals
  /\ signals' = signals + 1
  /\ IF notify THEN pending' = TRUE /\ UNCHANGED exit
               ELSE exit' = "killed" /\ UNCHANGED pending
  /\ UNCHANGED << ctlVars, notify, handler, imageVars, hostVars, stackVars >>

\* The kernel finishes the size handshake, or the release of the device.
Kernel ==
  /\ \/ nbd = "sizing" /\ nbd' = "ready"
     \/ nbd = "releasing" /\ nbd' = "free"
  /\ UNCHANGED << ctlVars, exit, sigVars, imageVars, mounted, tmp, failed, stackVars >>

Terminated == exit # "no" /\ UNCHANGED vars

Next ==
  \/ Main
  \/ \E g \in { "main", "handler" } : RunCallback(g) \/ Mutex(g)
  \/ Receive \/ HandlerExit
  \/ Interrupt \/ Kernel
  \/ Terminated

Spec == Init /\ [][Next]_vars

(***************************************************************************)
(* Every goroutine keeps running, external commands and system calls       *)
(* return, and a mutex is handed to whoever waits for it.  Nothing is      *)
(* assumed of the kernel or of the user: waitAttach ends at its deadline.  *)
(***************************************************************************)
Fairness ==
  /\ WF_vars(Main)
  /\ \A g \in { "main", "handler" } : WF_vars(RunCallback(g)) /\ SF_vars(Mutex(g))
  /\ WF_vars(Receive) /\ WF_vars(HandlerExit)

FairSpec == Spec /\ Fairness

-----------------------------------------------------------------------------
(* Properties *)

Item == { "bootdir", "efidir" } \union { pr[2] : pr \in ProductsOf(TreeStep) }

TypeOK ==
  /\ cfg \in Command
  /\ layout \in { "bios", "efi", "unknown" }
  /\ Len(todo) <= Len(runBuild("efi")) + 1
  /\ err \in BOOLEAN
  /\ exit \in { "no", "success", "error", "interrupted", "killed" }
  /\ notify \in BOOLEAN /\ pending \in BOOLEAN
  /\ signals \in 0 .. MaxSignals
  /\ handler \in { "waiting", "unwinding" }
  /\ nbd \in { "free", "foreign", "sizing", "ready", "releasing" }
  /\ parts \in (0 .. 4) \union { Corrupt }
  /\ formatted \subseteq Partition
  /\ mounted \subseteq formatted
  /\ tmp \in BOOLEAN
  /\ tree \in [Partition \union { "host" } -> SUBSET Item]
  /\ failed \subseteq Callback \union { "attach" }
  /\ Stack!TypeOK

\* main.go:39-41, cleanup.go:5-9: when the process has ended, nothing it
\* acquired is left on the host: no mount, no temporary directory, and the
\* nbd device is free for the next run.
NoLeak ==
  exit # "no" => mounted = { } /\ ~tmp /\ nbd \in { "free", "foreign" }

\* image.go:86-103, 247-250: whatever the environment does, when main itself ends the
\* process (with or without an error), a mount, a connected device or the
\* temporary directory is left behind only if its release was tried, failed and
\* was logged, or the device never became ready.  Nothing is left silently,
\* but for a directory that main made anew after a signal.
NothingLeftSilently ==
  exit \in { "success", "error" } =>
    /\ \A p \in mounted : UmountOf[p] \in failed
    /\ nbd \in { "sizing", "ready", "releasing" } => { "attach", "detach" } \intersect failed # { }
    /\ tmp => "remove" \in failed \/ signals > 0

\* The unwinding that is under way cannot release p: its umount failed, or the
\* signal came between the mount and the registration of its umount.
Lost(p) ==
  UmountOf[p] \in failed \/ (signals > 0 /\ UmountOf[p] \notin Stack!Registered)

\* The partitions that have to be unmounted before callback c is run: all of
\* them before the device or the directory goes, the nested ones before an
\* outer one.
Inside(c) ==
  { p \in Partition : \/ c \in { "detach", "remove" }
                      \/ c = UmountOf.root /\ p # "root"
                      \/ c = UmountOf.boot /\ p = "efi" }

\* cleanup.go:5-9, 15-17: whichever goroutine unwinds, and however main and the
\* handler overlap, neither the device nor the directory nor an outer mount is
\* released (or tried to be) while a file system in it is mounted, which would
\* fail, or lose what the kernel has not written back, unless the umount of
\* that one failed, or is not registered when a signal has the stack unwound.
InnermostFirst ==
  [][\A c \in Callback : runs'[c] # runs[c] => \A p \in Inside(c) \cap mounted : Lost(p)]_vars

\* image.go:247-260: os.RemoveAll of the temporary directory never reaches into
\* a partition whose umount is registered and has not failed: what that one
\* holds while it is mounted only grows, signal or not.
ContentsSurvive == [][\A p \in mounted : ~Lost(p) => tree[p] \subseteq tree'[p]]_vars

\* README, "void-initfs": a build that no signal disturbed, that reports success
\* and logged no failure of its cleanup, has produced an image that boots.
CompleteIfAllReleased ==
  exit = "success" /\ cfg.mode = "build" /\ failed = { } /\ signals = 0 => Complete(layout)

\* README, "void-initfs": a build that reports success has produced an image that
\* boots, every product of the pipeline on the partition where the boot process
\* looks for it; and an image that was built and is given with -i, to be
\* refreshed without another bootstrap, still boots, however that run ends.
ImageBoots ==
  /\ exit = "success" /\ cfg.mode = "build" => Complete(layout)
  /\ exit # "no" /\ cfg.mode = "reuse" /\ cfg.image \in { "bios", "efi" } => Complete(cfg.image)

\* main.go:129-166: unless a signal arrives, no step of the pipeline works in the
\* bare temporary directory, where its output would end up on the host's file
\* system.
NothingOnHost == signals = 0 => tree["host"] = { }

\* image.go:75-78: sgdisk never sees a device whose size is still 0.
NeverCorrupts == parts # Corrupt

\* README, "Reuse an already-built image": refreshing an image that a
\* successful build left, with no or with the right layout flag, succeeds if
\* nothing fails in the environment.
BuiltImageCanBeReused ==
  cfg.mode = "reuse" /\ cfg.image \in { "bios", "efi" } /\ cfg.requested \in { "none", cfg.image }
    => exit # "error" \/ failed # { } \/ nbd = "foreign"

\* Whatever happens, the process ends.
Terminates == <>(exit # "no")

\* The pipeline uses the stack as module CleanupStack describes it, so what
\* is proved of the stack there holds here.
UsesStack == Stack!Spec

=============================================================================
