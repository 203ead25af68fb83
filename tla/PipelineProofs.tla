--------------------------- MODULE PipelineProofs ---------------------------
(***************************************************************************)
(* What holds of a run of void-initfs for every command line, every image, *)
(* any faults of the environment and any number of signals: the control    *)
(* flow of main, the cleanup stack as main and the signal handler use it,  *)
(* what the run leaves on the host, and what it makes of the image.        *)
(***************************************************************************)
EXTENDS Pipeline, TLAPS

-----------------------------------------------------------------------------
(* The control flow of main *)

\* The step that main is at.
Here == IF todo = << >> THEN "ended" ELSE Head(todo)

\* Steps by what the stack holds when main comes to them.
Connecting == { "preflight", "createImage", "modprobe", "connect", "waitAttach", "pushDetach" }
Preparing  == { "partition", "makeFilesystems", "detectLayout", "mkdirTemp", "pushRemove" }
RootSteps  == { "mountRoot", "pushRoot" }
BootSteps  == { "mkdirBoot", "mountBoot", "pushBoot" }
EfiSteps   == { "mkdirEfi", "mountEfi", "pushEfi" }
Leaving    == { "signalStop", "unwind", "exit" }

Working  == Connecting \union Preparing \union RootSteps \union BootSteps \union EfiSteps
              \union TreeStep
StepName == Working \union Leaving

\* The step that comes after each, if it succeeds.
After(c, l) ==
  LET afterMounts == IF c.mode = "build" THEN "installRepoKeys" ELSE "installBinaries"
  IN  [preflight |-> IF c.mode = "build" THEN "createImage" ELSE "modprobe",
       createImage |-> "modprobe", modprobe |-> "connect", connect |-> "waitAttach",
       waitAttach |-> "pushDetach",
       pushDetach |-> IF c.mode = "build" THEN "partition" ELSE "detectLayout",
       partition |-> "makeFilesystems", makeFilesystems |-> "mkdirTemp",
       detectLayout |-> "mkdirTemp", mkdirTemp |-> "pushRemove", pushRemove |-> "mountRoot",
       mountRoot |-> "pushRoot", pushRoot |-> "mkdirBoot",
       mkdirBoot |-> "mountBoot", mountBoot |-> "pushBoot",
       pushBoot |-> IF l = "efi" THEN "mkdirEfi" ELSE afterMounts,
       mkdirEfi |-> "mountEfi", mountEfi |-> "pushEfi", pushEfi |-> afterMounts,
       installRepoKeys |-> "bootstrap", bootstrap |-> "reconfigure",
       reconfigure |-> "configureBashPrompt",
       configureBashPrompt |-> "configureShutdownAliases",
       configureShutdownAliases |-> "writeFstab", writeFstab |-> "installBinaries",
       installBinaries |-> "enableSSHService",
       enableSSHService |-> IF c.mode = "build" \/ c.reinstall THEN "grubInstall" ELSE "signalStop",
       grubInstall |-> IF l = "efi" THEN "setGrubFastboot" ELSE "grubMkconfig",
       setGrubFastboot |-> "grubMkconfig", grubMkconfig |-> "signalStop",
       signalStop |-> "unwind", unwind |-> "exit", exit |-> "ended"]

\* s leads from step a to step b.
Path(c, l, s, a, b) ==
  /\ s \in Seq(StepName) /\ s # << >>
  /\ s[1] = a /\ s[Len(s)] = b
  /\ \A k \in 1 .. Len(s) - 1 : s[k + 1] = After(c, l)[s[k]]

\* What main has left to do leads to its exit, or to where it learns the layout.
FlowInv ==
  /\ todo = << >> <=> exit \in { "success", "error" }
  /\ todo # << >> =>
       \/ Path(cfg, layout, todo, Here, "exit")
       \/ cfg.mode = "reuse" /\ Path(cfg, layout, todo, Here, "detectLayout")
  /\ Here = "detectLayout" => cfg.mode = "reuse"
  /\ signals \in Nat
  /\ Here \in Working => ~err
  /\ at["main"] # "running" => Here = "exit"
  /\ signals = 0 => ~pending /\ handler = "waiting" /\ at["handler"] = "running"

\* One path after another is a path.
LEMMA JoinPaths ==
  ASSUME NEW c, NEW l, NEW s, NEW t, NEW a, NEW b, NEW d, NEW e,
         Path(c, l, s, a, b), Path(c, l, t, d, e), d = After(c, l)[b]
  PROVE  Path(c, l, s \o t, a, e)
<1> DEFINE u == s \o t
<1>1. /\ s \in Seq(StepName) /\ t \in Seq(StepName)
      /\ Len(s) \in Nat \ { 0 } /\ Len(t) \in Nat \ { 0 }
  BY DEF Path
<1>2. /\ u \in Seq(StepName) /\ Len(u) = Len(s) + Len(t)
      /\ \A k \in 1 .. Len(s) : u[k] = s[k]
      /\ \A k \in 1 .. Len(t) : u[Len(s) + k] = t[k]
  BY <1>1
<1>3. /\ 1 \in 1 .. Len(s) /\ Len(s) \in 1 .. Len(s)
      /\ 1 \in 1 .. Len(t) /\ Len(t) \in 1 .. Len(t)
  BY <1>1
<1>4. u # << >> /\ u[1] = a /\ u[Len(u)] = e
  <2>1. Len(u) # 0
    BY <1>1, <1>2
  <2>2. QED
    BY <1>2, <1>3, <2>1 DEF Path
<1>5. ASSUME NEW k \in 1 .. Len(u) - 1
      PROVE  u[k + 1] = After(c, l)[u[k]]
  <2>1. CASE k < Len(s)
    <3>1. k \in 1 .. Len(s) /\ k + 1 \in 1 .. Len(s) /\ k \in 1 .. Len(s) - 1
      BY <1>1, <1>2, <2>1
    <3>2. QED
      BY <1>2, <3>1 DEF Path
  <2>2. CASE k = Len(s)
    BY <1>2, <1>3, <2>2 DEF Path
  <2>3. CASE k > Len(s)
    <3>1. PICK j \in 1 .. Len(t) - 1 : k = Len(s) + j
      <4>1. k - Len(s) \in 1 .. Len(t) - 1 /\ k = Len(s) + (k - Len(s))
        BY <1>1, <1>2, <2>3
      <4>2. QED
        BY <4>1
    <3>2. j \in 1 .. Len(t) /\ j + 1 \in 1 .. Len(t) /\ k + 1 = Len(s) + (j + 1)
      BY <1>1, <3>1
    <3>3. QED
      BY <1>2, <3>1, <3>2 DEF Path
  <2>4. QED
    BY <1>1, <1>2, <2>1, <2>2, <2>3
<1>6. QED
  BY <1>2, <1>4, <1>5 DEF Path

\* A step that is not the last leads to the rest of the path.
LEMMA TailOfPath ==
  ASSUME NEW c, NEW l, NEW s, NEW a, NEW b, Path(c, l, s, a, b), a # b
  PROVE  /\ Path(c, l, Tail(s), After(c, l)[a], b)
         /\ Head(Tail(s)) = After(c, l)[a]
<1>1. s \in Seq(StepName) /\ Len(s) \in Nat \ { 0 } /\ s[1] = a /\ s[Len(s)] = b
  BY DEF Path
<1>2. Len(s) > 1
  BY <1>1
<1>3. /\ Tail(s) \in Seq(StepName) /\ Len(Tail(s)) = Len(s) - 1
      /\ \A k \in 1 .. Len(s) - 1 : Tail(s)[k] = s[k + 1]
  BY <1>1
<1>4. Tail(s) # << >>
  <2>1. Len(Tail(s)) # 0
    BY <1>1, <1>2, <1>3
  <2>2. ASSUME NEW r, Len(r) # 0
        PROVE  r # << >>
    BY <2>2
  <2>3. QED
    BY <2>1, <2>2
<1>5. 1 \in 1 .. Len(s) - 1 /\ Len(s) - 1 \in 1 .. Len(s) - 1 /\ (Len(s) - 1) + 1 = Len(s)
  BY <1>1, <1>2
<1>6. Tail(s)[1] = After(c, l)[a] /\ Tail(s)[Len(Tail(s))] = b
  <2>1. Tail(s)[1] = s[1 + 1] /\ s[1 + 1] = After(c, l)[s[1]]
    BY <1>3, <1>5 DEF Path
  <2>2. Tail(s)[Len(s) - 1] = s[(Len(s) - 1) + 1]
    BY <1>3, <1>5
  <2>3. QED
    BY <1>1, <1>3, <1>5, <2>1, <2>2
<1>7. ASSUME NEW k \in 1 .. Len(Tail(s)) - 1
      PROVE  Tail(s)[k + 1] = After(c, l)[Tail(s)[k]]
  <2>1. k \in 1 .. Len(s) - 1 /\ k + 1 \in 1 .. Len(s) - 1
    BY <1>1, <1>3
  <2>2. QED
    BY <1>3, <2>1 DEF Path
<1>8. Head(Tail(s)) = Tail(s)[1]
  BY <1>3, <1>4
<1>9. QED
  BY <1>3, <1>4, <1>6, <1>7, <1>8 DEF Path

\* The names of the steps in the tree.
LEMMA TreeStepNames ==
  TreeStep = { "installRepoKeys", "bootstrap", "reconfigure", "configureBashPrompt",
               "configureShutdownAliases", "writeFstab", "installBinaries", "enableSSHService",
               "grubInstall", "setGrubFastboot", "grubMkconfig" }
BY DEF TreeStep, TreeSteps

\* The pieces that the pipelines are made of are paths.
LEMMA SinglePath ==
  ASSUME NEW c, NEW l, NEW a \in StepName
  PROVE  Path(c, l, << a >>, a, a)
BY DEF Path

\* The steps of attachImage.
LEMMA AttachPath ==
  ASSUME NEW c, NEW l
  PROVE  Path(c, l, Attach, "modprobe", "pushDetach")
BY DEF Path, Attach, After, StepName, Working, Connecting

\* The steps of mount, up to the registration of the innermost umount.
LEMMA MountPath ==
  ASSUME NEW c, NEW l
  PROVE  Path(c, l, MountSteps(l), "mkdirTemp", IF l = "efi" THEN "pushEfi" ELSE "pushBoot")
<1>1. Path(c, l, << "mkdirTemp", "pushRemove", "mountRoot", "pushRoot",
                    "mkdirBoot", "mountBoot", "pushBoot" >>, "mkdirTemp", "pushBoot")
  BY DEF Path, After, StepName, Working, Preparing, RootSteps, BootSteps
<1>2. Path(c, l, << "mkdirEfi", "mountEfi", "pushEfi" >>, "mkdirEfi", "pushEfi")
  BY DEF Path, After, StepName, Working, EfiSteps
<1>3. CASE l = "efi"
  BY <1>1, <1>2, <1>3, JoinPaths DEF MountSteps, After
<1>4. CASE l # "efi"
  BY <1>1, <1>4 DEF MountSteps
<1>5. QED
  BY <1>3, <1>4

\* The steps of installBootloader.
LEMMA BootloaderPath ==
  ASSUME NEW c, NEW l
  PROVE  Path(c, l, installBootloader(l), "grubInstall", "grubMkconfig")
<1>1. CASE l = "efi"
  BY <1>1, TreeStepNames DEF Path, installBootloader, After, StepName, Working
<1>2. CASE l # "efi"
  BY <1>2, TreeStepNames DEF Path, installBootloader, After, StepName, Working
<1>3. QED
  BY <1>1, <1>2

\* The deferred calls, and the end of main().
LEMMA ReturnPath ==
  ASSUME NEW c, NEW l
  PROVE  Path(c, l, Return, "signalStop", "exit")
BY DEF Path, Return, After, StepName, Leaving

\* A build goes through to its end.
LEMMA BuildPath ==
  ASSUME NEW c, NEW l, c.mode = "build"
  PROVE  Path(c, l, << "preflight" >> \o runBuild(l), "preflight", "exit")
<1> DEFINE Steps ==
      << "installRepoKeys", "bootstrap", "reconfigure", "configureBashPrompt",
         "configureShutdownAliases", "writeFstab", "installBinaries", "enableSSHService" >>
<1> HIDE DEF Steps
<1>1. Path(c, l, Steps, "installRepoKeys", "enableSSHService")
  BY TreeStepNames DEF Path, Steps, After, StepName, Working
<1>2. /\ Path(c, l, << "preflight" >>, "preflight", "preflight")
      /\ Path(c, l, << "createImage" >>, "createImage", "createImage")
  BY SinglePath DEF StepName, Working, Connecting
<1>3. Path(c, l, << "partition", "makeFilesystems" >>, "partition", "makeFilesystems")
  BY DEF Path, After, StepName, Working, Preparing
<1>4. Path(c, l, << "createImage" >> \o Attach, "createImage", "pushDetach")
  BY <1>2, AttachPath, JoinPaths DEF After
<1>5. Path(c, l, << "createImage" >> \o Attach \o << "partition", "makeFilesystems" >>,
           "createImage", "makeFilesystems")
  BY <1>3, <1>4, JoinPaths DEF After
<1>6. Path(c, l, << "createImage" >> \o Attach \o << "partition", "makeFilesystems" >>
                   \o MountSteps(l), "createImage", IF l = "efi" THEN "pushEfi" ELSE "pushBoot")
  BY <1>5, MountPath, JoinPaths DEF After
<1>7. Path(c, l, << "createImage" >> \o Attach \o << "partition", "makeFilesystems" >>
                   \o MountSteps(l) \o Steps, "createImage", "enableSSHService")
  BY <1>1, <1>6, JoinPaths DEF After
<1>8. Path(c, l, << "createImage" >> \o Attach \o << "partition", "makeFilesystems" >>
                   \o MountSteps(l) \o Steps \o installBootloader(l),
           "createImage", "grubMkconfig")
  BY <1>7, BootloaderPath, JoinPaths DEF After
<1>9. Path(c, l, << "createImage" >> \o Attach \o << "partition", "makeFilesystems" >>
                   \o MountSteps(l) \o Steps \o installBootloader(l) \o Return,
           "createImage", "exit")
  BY <1>8, ReturnPath, JoinPaths DEF After
<1>10. Path(c, l, runBuild(l), "createImage", "exit")
  BY <1>9 DEF runBuild, Steps
<1>11. QED
  BY <1>2, <1>10, JoinPaths DEF After

\* A refresh goes through to where it learns the layout, and then to its end.
LEMMA ReusePath ==
  ASSUME NEW c, NEW l, c.mode = "reuse"
  PROVE  Path(c, l, << "preflight" >> \o runReuse, "preflight", "detectLayout")
<1>1. /\ Path(c, l, << "preflight" >>, "preflight", "preflight")
      /\ Path(c, l, << "detectLayout" >>, "detectLayout", "detectLayout")
  BY SinglePath DEF StepName, Working, Connecting, Preparing
<1>2. Path(c, l, runReuse, "modprobe", "detectLayout")
  BY <1>1, AttachPath, JoinPaths DEF runReuse, After
<1>3. QED
  BY <1>1, <1>2, JoinPaths DEF After

\* What runReuse does once it knows the layout.
LEMMA ReuseTailPath ==
  ASSUME NEW l, cfg.mode = "reuse", cfg.reinstall \in BOOLEAN
  PROVE  Path(cfg, l, runReuseTail(l), "mkdirTemp", "exit")
<1>1. Path(cfg, l, << "installBinaries", "enableSSHService" >>,
           "installBinaries", "enableSSHService")
  BY TreeStepNames DEF Path, After, StepName, Working
<1>2. Path(cfg, l, MountSteps(l) \o << "installBinaries", "enableSSHService" >>,
           "mkdirTemp", "enableSSHService")
  BY <1>1, MountPath, JoinPaths DEF After
<1>3. CASE cfg.reinstall
  <2>1. Path(cfg, l, MountSteps(l) \o << "installBinaries", "enableSSHService" >>
                       \o installBootloader(l), "mkdirTemp", "grubMkconfig")
    BY <1>2, <1>3, BootloaderPath, JoinPaths DEF After
  <2>2. Path(cfg, l, MountSteps(l) \o << "installBinaries", "enableSSHService" >>
                       \o installBootloader(l) \o Return, "mkdirTemp", "exit")
    BY <2>1, ReturnPath, JoinPaths DEF After
  <2>3. QED
    BY <1>3, <2>2 DEF runReuseTail
<1>4. CASE ~cfg.reinstall
  <2>1. Path(cfg, l, MountSteps(l) \o << "installBinaries", "enableSSHService" >> \o << >>,
             "mkdirTemp", "enableSSHService")
    BY <1>2 DEF Path
  <2>2. Path(cfg, l, MountSteps(l) \o << "installBinaries", "enableSSHService" >> \o << >>
                       \o Return, "mkdirTemp", "exit")
    BY <1>4, <2>1, ReturnPath, JoinPaths DEF After
  <2>3. QED
    BY <1>4, <2>2 DEF runReuseTail
<1>5. QED
  BY <1>3, <1>4

\* A step of main that succeeds leads to the next one.
LEMMA OkLeadsOn ==
  ASSUME FlowInv, NEW s \in StepName \ { "detectLayout", "exit" }, At(s), Ok
  PROVE  /\ Here = s /\ Here' = After(cfg, layout)[s] /\ todo' # << >>
         /\ Path(cfg, layout, todo, Here, "exit") => Path(cfg, layout, todo, Here, "exit")'
         /\ Path(cfg, layout, todo, Here, "detectLayout")
              => Path(cfg, layout, todo, Here, "detectLayout")'
<1>1. Here = s /\ todo # << >>
  BY DEF At, Here
<1>2. ASSUME NEW b \in { "exit", "detectLayout" }, Path(cfg, layout, todo, Here, b)
      PROVE  /\ Path(cfg, layout, Tail(todo), After(cfg, layout)[s], b)
             /\ Head(Tail(todo)) = After(cfg, layout)[s] /\ Tail(todo) # << >>
  BY <1>1, <1>2, TailOfPath DEF Path
<1>3. /\ Head(Tail(todo)) = After(cfg, layout)[s] /\ Tail(todo) # << >>
  BY <1>1, <1>2 DEF FlowInv
<1>4. Here' = After(cfg, layout)[s] /\ todo' = Tail(todo) /\ todo' # << >>
  BY <1>3 DEF Ok, Here
<1>5. UNCHANGED << cfg, layout >>
  BY DEF Ok
<1>6. QED
  BY <1>1, <1>2, <1>4, <1>5

\* A step that fails leads to the deferred calls.
LEMMA ErrLeaves ==
  ASSUME Err
  PROVE  /\ Here' = "signalStop" /\ todo' # << >> /\ err'
         /\ Path(cfg, layout, todo, Here, "exit")'
<1>1. Here' = "signalStop" /\ todo' = Return /\ todo' # << >>
  BY DEF Err, Here, Return
<1>2. Path(cfg', layout', Return, "signalStop", "exit")
  BY ReturnPath
<1>3. QED
  BY <1>1, <1>2 DEF Err

-----------------------------------------------------------------------------
(* The refinement *)

\* What main and the handler do to the stack, the stack can do.
LEMMA StackStep == Next => [Stack!Next]_stackVars
<1> SUFFICES ASSUME Next PROVE [Stack!Next]_stackVars
  OBVIOUS
<1> USE DEF Stack!Next, Stack!Step
<1>1. CASE \E s \in DOMAIN PushOf : push(s)
  <2>1. PICK s \in DOMAIN PushOf : push(s)
    BY <1>1
  <2>2. PushOf[s] \in Callback
    <3>1. /\ UmountOf.root = UmountOf["root"] /\ UmountOf.boot = UmountOf["boot"]
          /\ UmountOf.efi = UmountOf["efi"]
      BY DEF UmountOf
    <3>2. s \in { "pushDetach", "pushRemove", "pushRoot", "pushBoot", "pushEfi" }
      BY DEF PushOf
    <3>3. PushOf[s] \in { "detach", "remove", UmountOf["root"], UmountOf["boot"], UmountOf["efi"] }
      BY <3>1, <3>2 DEF PushOf
    <3>4. QED
      BY <3>3 DEF Callback, Partition
  <2>3. QED
    BY <2>1, <2>2 DEF push
<1>2. CASE unwind
  BY <1>2 DEF unwind
<1>3. CASE Receive
  BY <1>3 DEF Receive
<1>4. CASE \E g \in { "main", "handler" } : RunCallback(g) \/ Mutex(g)
  BY <1>4 DEF RunCallback, Mutex
<1>5. CASE UNCHANGED stackVars
  BY <1>5
<1>6. CASE Main
  <2>1. CASE \/ \E s \in { "preflight", "modprobe" } : Check(s)
             \/ createImage \/ connect \/ waitAttach
             \/ partition \/ makeFilesystems \/ detectLayout \/ mkdirTemp
    BY <1>5, <2>1 DEF Check, createImage, connect, waitAttach, partition, makeFilesystems,
       detectLayout, mkdirTemp
  <2>2. CASE \/ \E p \in { "boot", "efi" } : mkdir(p)
             \/ \E p \in Partition : mount(p)
             \/ \E s \in TreeStep : InTree(s)
             \/ signalStop \/ Exit
    BY <1>5, <2>2 DEF mkdir, mount, InTree, signalStop, Exit
  <2>3. QED
    BY <1>1, <1>2, <1>6, <2>1, <2>2 DEF Main
<1>7. CASE HandlerExit \/ Interrupt \/ Kernel \/ Terminated
  BY <1>5, <1>7 DEF HandlerExit, Interrupt, Kernel, Terminated, vars
<1>8. QED
  BY <1>3, <1>4, <1>6, <1>7 DEF Next

\* A run of the program uses the stack as module CleanupStack describes it:
\* main and the signal handler are two of its goroutines.
THEOREM RefinesStack == Spec => UsesStack
<1>1. Init => Stack!Init
  BY DEF Init
<1>2. [Next]_vars => [Stack!Next]_stackVars
  BY StackStep DEF vars
<1>3. QED
  BY <1>1, <1>2, PTL DEF Spec, UsesStack, Stack!Spec, Stack!stackVars, stackVars

\* What is proved of the stack there.
SP == INSTANCE CleanupStackProofs
        WITH Goroutine <- { "main", "handler" }, NoOwner <- "none"

\* The two instances of the stack behave alike.
LEMMA SameStack == Spec => SP!Spec
<1>1. Stack!Init => SP!Init
  BY DEF Stack!Init, SP!Init
<1>2. [Stack!Next]_stackVars => [SP!Next]_SP!stackVars
  BY DEF Stack!Next, SP!Next, Stack!Step, SP!Step, Stack!push, SP!push, Stack!unwind, SP!unwind,
     Stack!Lock, SP!Lock, Stack!RunCallback, SP!RunCallback, Stack!Unlock, SP!Unlock,
     Stack!Registered, SP!Registered, stackVars, SP!stackVars
<1>3. Stack!Spec => SP!Spec
  BY <1>1, <1>2, PTL DEF Stack!Spec, SP!Spec, Stack!stackVars, stackVars
<1>4. QED
  BY <1>3, RefinesStack, PTL DEF UsesStack

\* Hence the stack of a run is well-formed, and however main and the handler
\* take turns, no callback is run twice.
THEOREM CallbacksRunOnce == Spec => [](Stack!StackInv /\ Stack!AtMostOnce)
<1>1. SP!Spec => []SP!StackInv /\ []SP!AtMostOnce
  <2>1. "none" \notin { "main", "handler" }
    OBVIOUS
  <2>2. SP!Spec => []SP!StackInv
    BY <2>1, SP!StackInvariant
  <2>3. SP!Spec => []SP!AtMostOnce
    BY <2>1, SP!RunAtMostOnce
  <2>4. QED
    BY <2>2, <2>3
<1>2. SP!StackInv => Stack!StackInv
  BY DEF SP!StackInv, Stack!StackInv, SP!TypeOK, Stack!TypeOK, SP!Holder, Stack!Holder,
     SP!Distinct, Stack!Distinct, SP!TailOfOrder, Stack!TailOfOrder, SP!RunCounts,
     Stack!RunCounts, SP!IsLeft, Stack!IsLeft, SP!Left, Stack!Left, SP!Base, Stack!Base,
     SP!Registered, Stack!Registered
<1>3. SP!AtMostOnce => Stack!AtMostOnce
  BY DEF SP!AtMostOnce, Stack!AtMostOnce
<1>4. QED
  BY <1>1, <1>2, <1>3, SameStack, PTL

\* And no callback is run before those that were registered after it.
THEOREM CallbacksRunInReverse == Spec => Stack!ReverseOrder
<1>1. SP!Spec => SP!ReverseOrder
  <2>1. "none" \notin { "main", "handler" }
    OBVIOUS
  <2>2. QED
    BY <2>1, SP!RunInReverseOrder
<1>2. ASSUME [\A c \in SP!Done' \ SP!Done :
                \A d \in SP!Registered : SP!After(d, c) => d \in SP!Done]_SP!stackVars
      PROVE  [\A c \in Stack!Done' \ Stack!Done :
                \A d \in Stack!Registered : Stack!After(d, c) => d \in Stack!Done]_Stack!stackVars
  BY <1>2 DEF SP!Done, Stack!Done, SP!Registered, Stack!Registered, SP!After, Stack!After,
     SP!stackVars, Stack!stackVars
<1>3. SP!ReverseOrder => Stack!ReverseOrder
  BY <1>2, PTL DEF SP!ReverseOrder, Stack!ReverseOrder
<1>4. QED
  BY <1>1, <1>3, SameStack, PTL

-----------------------------------------------------------------------------
(* Control *)

\* A configuration that validate accepts asks for a build with a layout, or for
\* a refresh.
LEMMA CommandFacts ==
  ASSUME NEW c \in Command
  PROVE  /\ c.mode \in { "build", "reuse" } /\ c.reinstall \in BOOLEAN
         /\ c.mode = "build" => c.requested \in { "bios", "efi" }
         /\ c.image \in { "none", "bios", "efi", "foreign", "half efi", "blank" }
<1>1. PICK d \in Accepted, kind \in { "none", "bios", "efi", "foreign", "half efi", "blank" } :
        c = [mode |-> IF d.image # CL!NoText THEN "reuse" ELSE "build",
             requested |-> CL!requestedLayout(d), force |-> d.force,
             reinstall |-> d.reinstallBootloader, image |-> kind]
  BY DEF Command, ImagesAt
<1>2. CL!validate(d) /\ d.reinstallBootloader \in BOOLEAN
  BY DEF Accepted
<1>3. d.image = CL!NoText => d.bios \/ d.efi
  BY <1>2 DEF CL!validate
<1>4. d.image = CL!NoText => CL!requestedLayout(d) \in { "bios", "efi" }
  BY <1>3 DEF CL!requestedLayout
<1>5. QED
  BY <1>1, <1>2, <1>4

\* The first step of a run is preflight.
LEMMA FlowInit ==
  ASSUME Init
  PROVE  FlowInv /\ cfg \in Command
<1>1. cfg.mode \in { "build", "reuse" }
  BY CommandFacts DEF Init
<1>2. Path(cfg, layout, todo, "preflight", IF cfg.mode = "build" THEN "exit" ELSE "detectLayout")
  BY <1>1, BuildPath, ReusePath DEF Init
<1>3. todo # << >> /\ Here = "preflight"
  BY <1>2 DEF Path, Here
<1>4. /\ exit = "no" /\ ~err /\ signals = 0 /\ ~pending /\ handler = "waiting"
      /\ at = [g \in { "main", "handler" } |-> "running"]
  BY DEF Init, Stack!Init
<1>5. QED
  BY <1>1, <1>2, <1>3, <1>4 DEF Init, FlowInv

\* A step of main goes on, fails, learns the layout, or ends the process; it
\* takes no part in the handling of signals.
LEMMA MainMoves ==
  ASSUME Main
  PROVE  /\ \/ \E s \in StepName \ { "detectLayout", "exit" } : At(s) /\ Ok
            \/ \E s \in Working : At(s) /\ Err
            \/ /\ At("detectLayout") /\ layout' \in { "bios", "efi" }
               /\ todo' = runReuseTail(layout') /\ UNCHANGED << cfg, err, exit >>
            \/ At("exit") /\ exit' \in { "success", "error" } /\ todo' = << >>
               /\ UNCHANGED << cfg, layout, err >>
         /\ UNCHANGED << pending, signals, handler >>
         /\ at' = at \/ (At("unwind") /\ Ok /\ at' = [at EXCEPT !["main"] = "locking"])
<1> USE DEF StepName, Working, Leaving
<1>1. CASE (\E s \in { "preflight", "modprobe" } : Check(s)) \/ createImage \/ connect \/ waitAttach
  BY <1>1 DEF Check, createImage, connect, waitAttach, Connecting, sigVars, stackVars
<1>2. CASE \E s \in DOMAIN PushOf : push(s)
  <2>1. PICK s \in { "pushDetach", "pushRemove", "pushRoot", "pushBoot", "pushEfi" } : push(s)
    BY <1>2 DEF PushOf
  <2>2. s \in StepName \ { "detectLayout", "exit" }
    BY <2>1 DEF Connecting, Preparing, RootSteps, BootSteps, EfiSteps
  <2>3. QED
    BY <2>1, <2>2 DEF push, Stack!push, sigVars
<1>3. CASE partition \/ makeFilesystems \/ mkdirTemp
  BY <1>3 DEF partition, makeFilesystems, mkdirTemp, Preparing, sigVars, stackVars
<1>4. CASE detectLayout
  <2>1. UNCHANGED << pending, signals, handler, at >>
    BY <1>4 DEF detectLayout, sigVars, stackVars
  <2>2. \/ At("detectLayout") /\ Err
        \/ /\ At("detectLayout") /\ layout' \in { "bios", "efi" }
           /\ todo' = runReuseTail(layout') /\ UNCHANGED << cfg, err, exit >>
    BY <1>4 DEF detectLayout
  <2>3. QED
    BY <2>1, <2>2 DEF Preparing
<1>5. CASE (\E p \in { "boot", "efi" } : mkdir(p)) \/ (\E p \in Partition : mount(p))
  BY <1>5 DEF mkdir, mount, Partition, RootSteps, BootSteps, EfiSteps, sigVars, stackVars
<1>6. CASE \E s \in TreeStep : InTree(s)
  <2>1. \A s \in TreeStep : s \in Working /\ s \in StepName \ { "detectLayout", "exit" }
    BY TreeStepNames
  <2>2. QED
    BY <1>6, <2>1 DEF InTree, sigVars, stackVars
<1>7. CASE signalStop \/ unwind
  BY <1>7 DEF signalStop, unwind, Stack!unwind, sigVars, stackVars
<1>8. CASE Exit
  BY <1>8 DEF Exit, sigVars, stackVars
<1>9. QED
  BY <1>1, <1>2, <1>3, <1>4, <1>5, <1>6, <1>7, <1>8 DEF Main

\* What comes after the work of the pipeline is not work.
LEMMA WorkIsBehind ==
  ASSUME NEW c, NEW l, NEW s \in Leaving
  PROVE  After(c, l)[s] \in Leaving \union { "ended" } /\ After(c, l)[s] \notin Working
<1>1. After(c, l)[s] \in { "unwind", "exit", "ended" }
  BY DEF After, Leaving
<1>2. { "unwind", "exit", "ended" } \intersect Working = { }
  BY TreeStepNames DEF Working, Connecting, Preparing, RootSteps, BootSteps, EfiSteps
<1>3. QED
  BY <1>1, <1>2 DEF Leaving

\* Only a refresh comes to the step that learns the layout.
LEMMA DetectsInReuse ==
  ASSUME NEW c \in Command, NEW l, NEW s \in StepName, After(c, l)[s] = "detectLayout"
  PROVE  c.mode = "reuse"
<1>1. c.mode # "build"
  <2>1. SUFFICES ASSUME c.mode = "build" PROVE After(c, l)[s] # "detectLayout"
    OBVIOUS
  <2>2. CASE s \in TreeStep
    BY <2>2, TreeStepNames DEF After
  <2>3. CASE s \in Connecting \union Preparing
    BY <2>1, <2>3 DEF After, Connecting, Preparing
  <2>4. CASE s \in RootSteps \union BootSteps \union EfiSteps \union Leaving
    BY <2>4 DEF After, RootSteps, BootSteps, EfiSteps, Leaving
  <2>5. QED
    BY <2>2, <2>3, <2>4 DEF StepName, Working
<1>2. QED
  BY <1>1, CommandFacts

\* Main keeps to the control flow.
LEMMA MainKeepsFlow ==
  ASSUME FlowInv, cfg \in Command, Stack!TypeOK, Main
  PROVE  FlowInv' /\ cfg' \in Command
<1>1. /\ UNCHANGED << pending, signals, handler >>
      /\ at' = at \/ (At("unwind") /\ Ok /\ at' = [at EXCEPT !["main"] = "locking"])
      /\ at' \in [{ "main", "handler" } -> { "running", "locking", "unwinding" }]
      /\ at'["handler"] = at["handler"]
  <2>1. /\ UNCHANGED << pending, signals, handler >>
        /\ at' = at \/ (At("unwind") /\ Ok /\ at' = [at EXCEPT !["main"] = "locking"])
    BY MainMoves
  <2>2. at \in [{ "main", "handler" } -> { "running", "locking", "unwinding" }]
    BY DEF Stack!TypeOK
  <2>3. QED
    BY <2>1, <2>2
<1>2. exit = "no" /\ at["main"] = "running" /\ signals \in Nat
  BY MainMoves DEF At, FlowInv
<1>3. signals' \in Nat /\ (signals' = 0 => ~pending' /\ handler' = "waiting"
                                             /\ at'["handler"] = "running")
  BY <1>1 DEF FlowInv
<1>4. CASE \E s \in StepName \ { "detectLayout", "exit" } : At(s) /\ Ok
  <2>1. PICK s \in StepName \ { "detectLayout", "exit" } : At(s) /\ Ok
    BY <1>4
  <2>2. /\ Here = s /\ Here' = After(cfg, layout)[s] /\ todo' # << >>
        /\ Path(cfg, layout, todo, Here, "exit") => Path(cfg, layout, todo, Here, "exit")'
        /\ Path(cfg, layout, todo, Here, "detectLayout")
             => Path(cfg, layout, todo, Here, "detectLayout")'
    BY <2>1, OkLeadsOn
  <2>3. UNCHANGED << cfg, layout, err, exit >> /\ todo # << >>
    BY <2>1 DEF Ok, At
  <2>4. Here' \in Working => Here \in Working
    BY <2>2, WorkIsBehind DEF StepName
  <2>5. at'["main"] # "running" => Here' = "exit"
    <3>1. at' # at => Here = "unwind" /\ Here' = "exit"
      BY <1>1, <2>2 DEF At, Here, After
    <3>2. QED
      BY <1>2, <3>1
  <2>6. Here' \in Working => ~err'
    BY <2>3, <2>4 DEF FlowInv
  <2>7. \/ Path(cfg, layout, todo, Here, "exit")'
        \/ cfg'.mode = "reuse" /\ Path(cfg, layout, todo, Here, "detectLayout")'
    BY <2>2, <2>3 DEF FlowInv
  <2>8. Here' = "detectLayout" => cfg'.mode = "reuse"
    BY <2>2, <2>3, DetectsInReuse
  <2>9. QED
    BY <1>2, <1>3, <2>2, <2>3, <2>5, <2>6, <2>7, <2>8 DEF FlowInv
<1>5. CASE \E s \in Working : At(s) /\ Err
  <2>1. /\ Here' = "signalStop" /\ todo' # << >>
        /\ Path(cfg, layout, todo, Here, "exit")' /\ UNCHANGED << cfg, exit >>
    BY <1>5, ErrLeaves DEF Err
  <2>2. at' = at
    <3>1. Here \in Working
      BY <1>5 DEF At, Here
    <3>2. "unwind" \notin Working
      BY TreeStepNames DEF Working, Connecting, Preparing, RootSteps, BootSteps, EfiSteps
    <3>3. QED
      BY <1>1, <3>1, <3>2 DEF At, Here
  <2>3. "signalStop" \notin Working
    BY TreeStepNames DEF Working, Connecting, Preparing, RootSteps, BootSteps, EfiSteps
  <2>4. QED
    BY <1>2, <1>3, <2>1, <2>2, <2>3 DEF FlowInv
<1>6. CASE /\ At("detectLayout") /\ layout' \in { "bios", "efi" }
           /\ todo' = runReuseTail(layout') /\ UNCHANGED << cfg, err, exit >>
  <2>1. Here = "detectLayout" /\ "detectLayout" \in Working /\ at' = at
    BY <1>1, <1>6 DEF At, Here, Working, Preparing
  <2>2. cfg.mode = "reuse"
    BY <2>1 DEF FlowInv
  <2>3. Path(cfg', layout', todo', "mkdirTemp", "exit")
    BY <1>6, <2>2, ReuseTailPath, CommandFacts
  <2>4. todo' # << >> /\ Here' = "mkdirTemp"
    BY <2>3 DEF Path, Here
  <2>5. ~err'
    BY <1>6, <2>1 DEF FlowInv
  <2>6. QED
    BY <1>2, <1>3, <1>6, <2>1, <2>3, <2>4, <2>5 DEF FlowInv
<1>7. CASE /\ At("exit") /\ exit' \in { "success", "error" } /\ todo' = << >>
           /\ UNCHANGED << cfg, layout, err >>
  <2>1. Here' = "ended" /\ at' = at
    BY <1>1, <1>7 DEF Here, At
  <2>2. "ended" \notin Working
    BY TreeStepNames DEF Working, Connecting, Preparing, RootSteps, BootSteps, EfiSteps
  <2>3. QED
    BY <1>2, <1>3, <1>7, <2>1, <2>2 DEF FlowInv
<1>8. QED
  BY <1>4, <1>5, <1>6, <1>7, MainMoves

\* The handler, the kernel and the user take no step for main, and there is no
\* handler to see without a signal.
LEMMA OthersKeepFlow ==
  ASSUME FlowInv, cfg \in Command, Stack!TypeOK,
         \/ \E g \in { "main", "handler" } : RunCallback(g) \/ Mutex(g)
         \/ Receive \/ HandlerExit \/ Interrupt \/ Kernel \/ Terminated
  PROVE  FlowInv' /\ cfg' \in Command
<1>1. UNCHANGED << cfg, layout, todo, err >>
  BY DEF RunCallback, Mutex, Receive, HandlerExit, Interrupt, Kernel, Terminated, ctlVars, vars
<1>2. Here' = Here
  BY <1>1 DEF Here
<1>3. todo = << >> <=> exit \in { "success", "error" }
  BY DEF FlowInv
<1>4. exit' = exit \/ (exit = "no" /\ exit' \notin { "success", "error" })
  BY DEF RunCallback, Mutex, Receive, HandlerExit, Interrupt, Kernel, Terminated, vars
<1>5. /\ todo' # << >> =>
           \/ Path(cfg, layout, todo, Here, "exit")'
           \/ cfg'.mode = "reuse" /\ Path(cfg, layout, todo, Here, "detectLayout")'
      /\ Here' = "detectLayout" => cfg'.mode = "reuse"
      /\ Here' \in Working => ~err'
  BY <1>1, <1>2 DEF FlowInv
<1>6. at \in [{ "main", "handler" } -> { "running", "locking", "unwinding" }]
  BY DEF Stack!TypeOK
<1>7. /\ at'["main"] # "running" => at["main"] # "running"
      /\ at'["handler"] # "running" => at["handler"] # "running" \/ pending
  BY <1>6 DEF RunCallback, Mutex, Receive, HandlerExit, Interrupt, Kernel, Terminated, vars,
     stackVars, Stack!RunCallback, Stack!Lock, Stack!Unlock, Stack!unwind
<1>8. /\ signals' \in Nat /\ (signals' = 0 => signals = 0)
      /\ pending' => pending \/ signals' # 0
      /\ handler' # "waiting" => handler # "waiting" \/ pending
  <2>1. signals \in Nat
    BY DEF FlowInv
  <2>2. CASE Interrupt
    BY <2>1, <2>2 DEF Interrupt
  <2>3. CASE ~Interrupt
    <3>1. signals' = signals
      BY <2>3 DEF RunCallback, Mutex, Receive, HandlerExit, Kernel, Terminated, vars, sigVars
    <3>2. pending' => pending
      BY <2>3 DEF RunCallback, Mutex, Receive, HandlerExit, Kernel, Terminated, vars, sigVars
    <3>3. handler' # "waiting" => handler # "waiting" \/ pending
      BY <2>3 DEF RunCallback, Mutex, Receive, HandlerExit, Kernel, Terminated, vars, sigVars
    <3>4. QED
      BY <2>1, <3>1, <3>2, <3>3
  <2>4. QED
    BY <2>2, <2>3 DEF Interrupt, sigVars
<1>9. todo' = << >> <=> exit' \in { "success", "error" }
  BY <1>1, <1>3, <1>4
<1>10. at'["main"] # "running" => Here' = "exit"
  BY <1>2, <1>7 DEF FlowInv
<1>11. signals' = 0 => ~pending' /\ handler' = "waiting" /\ at'["handler"] = "running"
  BY <1>7, <1>8 DEF FlowInv
<1>12. QED
  BY <1>1, <1>5, <1>8, <1>9, <1>10, <1>11 DEF FlowInv

\* Main keeps to the control flow in every run, and without a signal nobody
\* else unwinds the stack.
THEOREM FlowCorrect == Spec => [](FlowInv /\ cfg \in Command)
<1>1. FlowInv /\ cfg \in Command /\ Stack!StackInv /\ [Next]_vars
        => (FlowInv /\ cfg \in Command)'
  <2> SUFFICES ASSUME FlowInv, cfg \in Command, Stack!TypeOK, [Next]_vars
               PROVE  (FlowInv /\ cfg \in Command)'
    BY DEF Stack!StackInv
  <2>1. CASE Next
    BY <2>1, MainKeepsFlow, OthersKeepFlow DEF Next
  <2>2. CASE UNCHANGED vars
    <3>1. UNCHANGED << cfg, layout, todo, err, exit, pending, signals, handler, at >>
      BY <2>2 DEF vars, ctlVars, sigVars, stackVars
    <3>2. Here' = Here
      BY <3>1 DEF Here
    <3>3. QED
      BY <3>1, <3>2 DEF FlowInv
  <2>3. QED
    BY <2>1, <2>2
<1>2. QED
  BY <1>1, FlowInit, CallbacksRunOnce, PTL DEF Spec

-----------------------------------------------------------------------------
(* The cleanup stack *)

\* The callbacks in the order main registers them.
Full == << "detach", "remove", "umount root", "umount boot", "umount efi" >>

\* What the stack has seen when main comes to a step of the pipeline.
OrderInv ==
  /\ Len(order) <= 5 /\ \A k \in 1 .. Len(order) : order[k] = Full[k]
  /\ Here \in Connecting => Len(order) = 0
  /\ Here \in Preparing => Len(order) = 1
  /\ Here \in RootSteps => Len(order) = 2
  /\ Here \in BootSteps => Len(order) = 3
  /\ Here \in EfiSteps => Len(order) = 4 /\ layout = "efi"
  /\ Here \in TreeStep => Len(order) = IF layout = "efi" THEN 5 ELSE 4

\* Unless there is a signal, no callback is run before main's deferred unwind;
\* when that is over, the stack is empty.
UnwindInv ==
  /\ signals = 0 /\ Here \notin { "exit", "ended" } => \A c \in Callback : runs[c] = 0
  /\ Here \in { "exit", "ended" } /\ at["main"] = "running" => fns = << >>

\* Where the steps of the pipeline lead to.
LEMMA WorkLeadsTo ==
  ASSUME NEW c, NEW l, NEW s \in Working
  PROVE  /\ s \in Connecting \ { "pushDetach" } => After(c, l)[s] \in Connecting
         /\ s = "pushDetach" => After(c, l)[s] \in { "partition", "detectLayout" }
         /\ s \in Preparing \ { "pushRemove" } => After(c, l)[s] \in Preparing \ { "detectLayout" }
         /\ s = "pushRemove" => After(c, l)[s] = "mountRoot"
         /\ s \in RootSteps \ { "pushRoot" } => After(c, l)[s] \in RootSteps
         /\ s = "pushRoot" => After(c, l)[s] = "mkdirBoot"
         /\ s \in BootSteps \ { "pushBoot" } => After(c, l)[s] \in BootSteps
         /\ s = "pushBoot" => \/ After(c, l)[s] = "mkdirEfi" /\ l = "efi"
                              \/ After(c, l)[s] \in TreeStep /\ l # "efi"
         /\ s \in EfiSteps \ { "pushEfi" } => After(c, l)[s] \in EfiSteps
         /\ s = "pushEfi" => After(c, l)[s] \in TreeStep
         /\ s \in TreeStep => After(c, l)[s] \in TreeStep \union { "signalStop" }
         /\ After(c, l)[s] \in Working \union { "signalStop" }
<1>1. s \in Connecting \ { "pushDetach" } => After(c, l)[s] \in Connecting
  BY DEF After, Connecting
<1>2. s = "pushDetach" => After(c, l)[s] \in { "partition", "detectLayout" }
  BY DEF After
<1>3. s \in Preparing => After(c, l)[s] \in (Preparing \ { "detectLayout" }) \union { "mountRoot" }
  BY DEF After, Preparing
<1>4. s \in Preparing \ { "pushRemove" } => After(c, l)[s] # "mountRoot"
  BY DEF After, Preparing
<1>5. s \in TreeStep => After(c, l)[s] \in TreeStep \union { "signalStop" }
  BY TreeStepNames DEF After
<1>6. s \in RootSteps \union BootSteps \union EfiSteps => After(c, l)[s] \in Working
  BY TreeStepNames DEF After, RootSteps, BootSteps, EfiSteps, Working
<1>7. s = "pushRemove" => After(c, l)[s] = "mountRoot"
  BY DEF After
<1>8. { "partition", "detectLayout", "mountRoot" } \subseteq Working
  BY DEF Working, Preparing, RootSteps
<1>9. /\ s \in RootSteps \ { "pushRoot" } => After(c, l)[s] \in RootSteps
      /\ s = "pushRoot" => After(c, l)[s] = "mkdirBoot"
  BY DEF After, RootSteps
<1>10. /\ s \in BootSteps \ { "pushBoot" } => After(c, l)[s] \in BootSteps
       /\ s \in EfiSteps \ { "pushEfi" } => After(c, l)[s] \in EfiSteps
  BY DEF After, BootSteps, EfiSteps
<1>11. /\ s = "pushBoot" => \/ After(c, l)[s] = "mkdirEfi" /\ l = "efi"
                            \/ After(c, l)[s] \in TreeStep /\ l # "efi"
       /\ s = "pushEfi" => After(c, l)[s] \in TreeStep
  BY TreeStepNames DEF After
<1>12. After(c, l)[s] \in Working \union { "signalStop" }
  <2>1. CASE s \in Connecting
    <3>1. After(c, l)[s] \in Connecting \union { "partition", "detectLayout" }
      BY <1>1, <1>2, <2>1
    <3>2. QED
      BY <1>8, <3>1 DEF Working
  <2>2. CASE s \in Preparing
    <3>1. After(c, l)[s] \in Preparing \union { "mountRoot" }
      BY <1>3, <2>2
    <3>2. QED
      BY <1>8, <3>1 DEF Working
  <2>3. CASE s \in TreeStep
    BY <1>5, <2>3 DEF Working
  <2>4. QED
    BY <1>6, <2>1, <2>2, <2>3 DEF Working
<1>13. s \in Preparing \ { "pushRemove" } => After(c, l)[s] \in Preparing \ { "detectLayout" }
  BY <1>3, <1>4
<1>14. QED
  BY <1>1, <1>2, <1>5, <1>7, <1>9, <1>10, <1>11, <1>12, <1>13

\* A callback is run once there has been a signal, or main unwinds at its end.
LEMMA CallbacksComeLate ==
  ASSUME FlowInv, NEW g \in { "main", "handler" }, at[g] # "running", signals = 0
  PROVE  g = "main" /\ Here = "exit"
BY DEF FlowInv

\* The kinds of steps are different.
LEMMA KindsDiffer ==
  /\ Connecting \intersect (Preparing \union RootSteps \union BootSteps \union EfiSteps
                              \union TreeStep \union Leaving) = { }
  /\ Preparing \intersect (RootSteps \union BootSteps \union EfiSteps
                             \union TreeStep \union Leaving) = { }
  /\ RootSteps \intersect (BootSteps \union EfiSteps \union TreeStep \union Leaving) = { }
  /\ BootSteps \intersect (EfiSteps \union TreeStep \union Leaving) = { }
  /\ EfiSteps \intersect (TreeStep \union Leaving) = { }
  /\ TreeStep \intersect Leaving = { }
  /\ "ended" \notin StepName
BY TreeStepNames DEF Connecting, Preparing, RootSteps, BootSteps, EfiSteps, Leaving, StepName, Working

PushName == { "pushDetach", "pushRemove", "pushRoot", "pushBoot", "pushEfi" }

\* At the steps that register a callback, that is what main does.
LEMMA RegistersThere ==
  ASSUME Main, Here \in PushName
  PROVE  push(Here)
<1>1. Here = Head(todo)
  BY DEF Here, PushName
<1>2. Here \notin { "preflight", "modprobe", "createImage", "connect", "waitAttach",
                    "partition", "makeFilesystems", "detectLayout", "mkdirTemp",
                    "mkdirBoot", "mkdirEfi", "mountRoot", "mountBoot", "mountEfi",
                    "signalStop", "unwind", "exit" }
  BY DEF PushName
<1>3. Here \notin TreeStep
  BY TreeStepNames DEF PushName
<1>4. /\ ~\E s \in { "preflight", "modprobe" } : Check(s)
      /\ ~createImage /\ ~connect /\ ~waitAttach
  BY <1>1, <1>2 DEF Check, createImage, connect, waitAttach, At
<1>5. ~partition /\ ~makeFilesystems /\ ~detectLayout /\ ~mkdirTemp
  BY <1>1, <1>2 DEF partition, makeFilesystems, detectLayout, mkdirTemp, At
<1>6. /\ ~\E p \in { "boot", "efi" } : mkdir(p)
      /\ ~\E p \in Partition : mount(p)
  BY <1>1, <1>2 DEF mkdir, mount, At, Partition
<1>7. ~(\E s \in TreeStep : InTree(s)) /\ ~signalStop /\ ~unwind /\ ~Exit
  BY <1>1, <1>2, <1>3 DEF InTree, signalStop, unwind, Exit, At
<1>8. PICK s \in DOMAIN PushOf : push(s)
  BY <1>4, <1>5, <1>6, <1>7 DEF Main
<1>9. QED
  BY <1>1, <1>8 DEF push, At

\* A step of main that registers nothing leaves main among the steps with as
\* many callbacks as there are.
LEMMA OrderStays ==
  ASSUME FlowInv, OrderInv, cfg \in Command, Main, Here \notin PushName
  PROVE  OrderInv' /\ UNCHANGED << mu, fns, i, order, runs >>
<1>0. UNCHANGED << mu, fns, i, order, runs >>
  <2>1. ~\E s \in DOMAIN PushOf : push(s)
    BY DEF push, At, Here, PushOf, PushName
  <2>2. QED
    BY <2>1 DEF Main, Check, createImage, connect, waitAttach, partition, makeFilesystems,
       detectLayout, mkdirTemp, mkdir, mount, InTree, signalStop, unwind, Stack!unwind, Exit,
       stackVars
<1> SUFFICES OrderInv'
  BY <1>0
<1>1. CASE \E s \in StepName \ { "detectLayout", "exit" } : At(s) /\ Ok
  <2>1. PICK s \in StepName \ { "detectLayout", "exit" } : At(s) /\ Ok
    BY <1>1
  <2>2. Here = s /\ Here' = After(cfg, layout)[s] /\ layout' = layout
    BY <2>1, OkLeadsOn DEF Ok
  <2>3. CASE s \in Leaving
    <3>1. Here' \in Leaving \union { "ended" }
      BY <2>2, <2>3, WorkIsBehind
    <3>2. QED
      BY <1>0, <3>1, KindsDiffer DEF OrderInv, StepName, Working
  <2>4. CASE s \in Connecting \union Preparing
    <3>1. \/ s \in Connecting /\ Here' \in Connecting
          \/ s \in Preparing /\ Here' \in Preparing
      BY <2>2, <2>4, WorkLeadsTo, KindsDiffer DEF PushName, Working
    <3>2. QED
      BY <1>0, <2>2, <3>1, KindsDiffer DEF OrderInv
  <2>5. CASE s \in RootSteps \union BootSteps \union EfiSteps
    <3>1. \/ s \in RootSteps /\ Here' \in RootSteps
          \/ s \in BootSteps /\ Here' \in BootSteps
          \/ s \in EfiSteps /\ Here' \in EfiSteps
      BY <2>2, <2>5, WorkLeadsTo, KindsDiffer DEF PushName, Working
    <3>2. QED
      BY <1>0, <2>2, <3>1, KindsDiffer DEF OrderInv
  <2>6. CASE s \in TreeStep
    <3>1. Here' \in TreeStep \union { "signalStop" }
      BY <2>2, <2>6, WorkLeadsTo DEF Working
    <3>2. QED
      BY <1>0, <2>2, <2>6, <3>1, KindsDiffer DEF OrderInv, Leaving
  <2>7. QED
    BY <2>3, <2>4, <2>5, <2>6 DEF StepName, Working
<1>2. CASE \E s \in Working : At(s) /\ Err
  <2>1. Here' = "signalStop" /\ "signalStop" \in Leaving
    BY <1>2, ErrLeaves DEF Leaving
  <2>2. QED
    BY <1>0, <2>1, KindsDiffer DEF OrderInv
<1>3. CASE At("detectLayout") /\ todo' = runReuseTail(layout') /\ cfg' = cfg
  <2>1. Here = "detectLayout" /\ cfg.mode = "reuse" /\ cfg.reinstall \in BOOLEAN
    BY <1>3, CommandFacts DEF At, Here, FlowInv
  <2>2. Path(cfg', layout', todo', "mkdirTemp", "exit")
    BY <1>3, <2>1, ReuseTailPath
  <2>3. Here' = "mkdirTemp"
    BY <2>2 DEF Path, Here
  <2>4. { "detectLayout", "mkdirTemp" } \subseteq Preparing
    BY DEF Preparing
  <2>5. QED
    BY <1>0, <2>1, <2>3, <2>4, KindsDiffer DEF OrderInv
<1>4. CASE todo' = << >>
  <2>1. Here' = "ended"
    BY <1>4 DEF Here
  <2>2. QED
    BY <1>0, <2>1, KindsDiffer DEF OrderInv, StepName, Working
<1>5. QED
  BY <1>1, <1>2, <1>3, <1>4, MainMoves

\* What main registers at each of these steps.
LEMMA PushTable ==
  /\ PushOf["pushDetach"] = Full[1] /\ PushOf["pushRemove"] = Full[2]
  /\ PushOf["pushRoot"] = Full[3] /\ PushOf["pushBoot"] = Full[4] /\ PushOf["pushEfi"] = Full[5]
BY DEF PushOf, UmountOf, Full

\* Main registers its callbacks in their order.
LEMMA OrderGrows ==
  ASSUME FlowInv, OrderInv, Stack!TypeOK, cfg \in Command, push(Here), Here \in PushName
  PROVE  OrderInv' /\ order' = Append(order, PushOf[Here]) /\ fns' = Append(fns, PushOf[Here])
<1>1. /\ order' = Append(order, PushOf[Here]) /\ fns' = Append(fns, PushOf[Here])
      /\ order \in Seq(Callback) /\ At(Here) /\ Ok
  BY DEF push, Stack!push, Stack!TypeOK
<1>2. Here \in StepName \ { "detectLayout", "exit" } /\ Here \in Working
  BY DEF PushName, StepName, Working, Connecting, Preparing, RootSteps, BootSteps, EfiSteps
<1>3. Here' = After(cfg, layout)[Here] /\ layout' = layout
  BY <1>1, <1>2, OkLeadsOn DEF Ok
<1>4. /\ Len(order') = Len(order) + 1 /\ Len(order) \in Nat
      /\ order'[Len(order) + 1] = PushOf[Here]
      /\ \A k \in 1 .. Len(order) : order'[k] = order[k]
  BY <1>1
<1>5. ASSUME NEW j \in 1 .. 5, Len(order') = j, PushOf[Here] = Full[j]
      PROVE  /\ Len(order') <= 5
             /\ \A k \in 1 .. Len(order') : order'[k] = Full[k]
  <2>1. /\ Len(order) + 1 = j /\ Len(order') <= 5
        /\ \A k \in 1 .. Len(order') : k \in 1 .. Len(order) \/ k = j
    BY <1>4, <1>5
  <2>2. order'[j] = Full[j] /\ \A k \in 1 .. Len(order) : order'[k] = Full[k]
    BY <1>4, <1>5, <2>1 DEF OrderInv
  <2>3. QED
    BY <2>1, <2>2
<1>6. CASE Here = "pushDetach"
  <2>1. Here \in Connecting /\ Here' \in Preparing
    BY <1>2, <1>3, <1>6, WorkLeadsTo DEF Connecting, Preparing
  <2>2. Len(order') = 1
    <3>1. Len(order) = 0
      BY <2>1 DEF OrderInv
    <3>2. QED
      BY <1>4, <3>1
  <2>3. /\ Len(order') = 1 /\ Len(order') <= 5
        /\ \A k \in 1 .. Len(order') : order'[k] = Full[k]
    BY <1>5, <1>6, <2>2, PushTable
  <2>4. QED
    BY <1>1, <2>1, <2>3, KindsDiffer DEF OrderInv
<1>7. CASE Here = "pushRemove"
  <2>1. Here \in Preparing /\ Here' \in RootSteps
    BY <1>2, <1>3, <1>7, WorkLeadsTo DEF Preparing, RootSteps
  <2>2. Len(order') = 2
    <3>1. Len(order) = 1
      BY <2>1 DEF OrderInv
    <3>2. QED
      BY <1>4, <3>1
  <2>3. /\ Len(order') = 2 /\ Len(order') <= 5
        /\ \A k \in 1 .. Len(order') : order'[k] = Full[k]
    BY <1>5, <1>7, <2>2, PushTable
  <2>4. QED
    BY <1>1, <2>1, <2>3, KindsDiffer DEF OrderInv
<1>8. CASE Here = "pushRoot"
  <2>1. Here \in RootSteps /\ Here' \in BootSteps
    BY <1>2, <1>3, <1>8, WorkLeadsTo DEF RootSteps, BootSteps
  <2>2. Len(order') = 3
    <3>1. Len(order) = 2
      BY <2>1 DEF OrderInv
    <3>2. QED
      BY <1>4, <3>1
  <2>3. /\ Len(order') = 3 /\ Len(order') <= 5
        /\ \A k \in 1 .. Len(order') : order'[k] = Full[k]
    BY <1>5, <1>8, <2>2, PushTable
  <2>4. QED
    BY <1>1, <2>1, <2>3, KindsDiffer DEF OrderInv
<1>9. CASE Here = "pushBoot"
  <2>1. /\ Here \in BootSteps
        /\ \/ Here' \in EfiSteps /\ layout' = "efi"
           \/ Here' \in TreeStep /\ layout' # "efi"
    BY <1>2, <1>3, <1>9, WorkLeadsTo DEF BootSteps, EfiSteps
  <2>2. Len(order') = 4
    <3>1. Len(order) = 3
      BY <2>1 DEF OrderInv
    <3>2. QED
      BY <1>4, <3>1
  <2>3. /\ Len(order') = 4 /\ Len(order') <= 5
        /\ \A k \in 1 .. Len(order') : order'[k] = Full[k]
    BY <1>5, <1>9, <2>2, PushTable
  <2>4. QED
    BY <1>1, <2>1, <2>3, KindsDiffer DEF OrderInv
<1>10. CASE Here = "pushEfi"
  <2>1. Here \in EfiSteps /\ Here' \in TreeStep
    BY <1>2, <1>3, <1>10, WorkLeadsTo DEF EfiSteps
  <2>2. Len(order') = 5 /\ layout' = "efi"
    <3>1. Len(order) = 4 /\ layout' = "efi"
      BY <1>3, <2>1 DEF OrderInv
    <3>2. QED
      BY <1>4, <3>1
  <2>3. /\ Len(order') = 5 /\ Len(order') <= 5
        /\ \A k \in 1 .. Len(order') : order'[k] = Full[k]
    BY <1>5, <1>10, <2>2, PushTable
  <2>4. QED
    BY <1>1, <2>1, <2>2, <2>3, KindsDiffer DEF OrderInv
<1>11. QED
  BY <1>6, <1>7, <1>8, <1>9, <1>10 DEF PushName

\* The steps of everyone but main.
Others ==
  \/ \E g \in { "main", "handler" } : RunCallback(g) \/ Mutex(g)
  \/ Receive \/ HandlerExit \/ Interrupt \/ Kernel \/ Terminated

\* Nobody but main takes main's steps, or registers a callback.
LEMMA OthersElsewhere ==
  ASSUME Others
  PROVE  UNCHANGED << cfg, layout, todo, err, notify, order, parts, formatted >> /\ Here' = Here
<1>1. UNCHANGED << cfg, layout, todo, err >>
  BY DEF Others, RunCallback, Mutex, Receive, HandlerExit, Interrupt, Kernel, Terminated,
     ctlVars, vars
<1>2. UNCHANGED << notify, order >>
  BY DEF Others, RunCallback, Mutex, Receive, HandlerExit, Interrupt, Kernel, Terminated,
     sigVars, stackVars, vars, Stack!RunCallback, Stack!Lock, Stack!Unlock, Stack!unwind
<1>3. UNCHANGED << parts, formatted >>
  BY DEF Others, RunCallback, Call, detachImage, removeAll, umount, Mutex, Receive, HandlerExit,
     Interrupt, Kernel, Terminated, imageVars, vars
<1>4. QED
  BY <1>1, <1>2, <1>3 DEF Here

\* Steps that end main's work come from its end.
LEMMA EndsFromLeaving ==
  ASSUME NEW c, NEW l, NEW s \in StepName, After(c, l)[s] \in { "exit", "ended" }
  PROVE  s \in { "unwind", "exit" }
<1>1. s \notin Working
  <2>1. { "exit", "ended" } \intersect (Working \union { "signalStop" }) = { }
    BY TreeStepNames DEF Working, Connecting, Preparing, RootSteps, BootSteps, EfiSteps
  <2>2. QED
    BY <2>1, WorkLeadsTo
<1>2. s # "signalStop"
  BY DEF After
<1>3. QED
  BY <1>1, <1>2 DEF StepName, Leaving

\* No step of main runs a callback, and main comes to its end by unwinding.
LEMMA MainUnwinds ==
  ASSUME FlowInv, OrderInv, UnwindInv, Stack!StackInv, cfg \in Command, Main
  PROVE  UnwindInv'
<1>1. runs' = runs /\ signals' = signals
  <2>1. CASE Here \in PushName
    BY <2>1, RegistersThere DEF push, Stack!push, sigVars
  <2>2. CASE Here \notin PushName
    BY <2>2, OrderStays, MainMoves
  <2>3. QED
    BY <2>1, <2>2
<1>2. exit = "no" /\ at["main"] = "running" /\ Here # "ended"
  <2>1. todo # << >> /\ exit = "no" /\ at["main"] = "running"
    BY MainMoves DEF At
  <2>2. Here \in StepName
    BY <2>1 DEF FlowInv, Path, Here
  <2>3. QED
    BY <2>1, <2>2, KindsDiffer
<1>3. CASE Here = "exit"
  <2>1. Here' = "ended" /\ fns' = fns
    <3>1. Exit
      BY <1>3 DEF Main, Check, createImage, connect, waitAttach, partition, makeFilesystems,
         detectLayout, mkdirTemp, mkdir, mount, InTree, signalStop, unwind, push, At, Here,
         PushOf, Partition, TreeStep, TreeSteps
    <3>2. QED
      BY <3>1 DEF Exit, Here, stackVars
  <2>2. QED
    BY <1>2, <1>3, <2>1 DEF UnwindInv
<1>4. CASE Here # "exit"
  <2>1. signals' = 0 => \A c \in Callback : runs'[c] = 0
    BY <1>1, <1>2, <1>4 DEF UnwindInv
  <2>2. CASE \E s \in StepName \ { "detectLayout", "exit" } : At(s) /\ Ok
    <3>1. PICK s \in StepName \ { "detectLayout", "exit" } : At(s) /\ Ok
      BY <2>2
    <3>2. Here = s /\ Here' = After(cfg, layout)[s]
      BY <3>1, OkLeadsOn
    <3>3. Here' \in { "exit", "ended" } => Here = "unwind"
      BY <3>1, <3>2, EndsFromLeaving
    <3>4. Here = "unwind" => at'["main"] = "locking"
      <4>1. ASSUME Here = "unwind" PROVE unwind
        BY <4>1 DEF Main, Check, createImage, connect, waitAttach, partition, makeFilesystems,
           detectLayout, mkdirTemp, mkdir, mount, InTree, signalStop, push, Exit, At, Here,
           PushOf, Partition, TreeStep, TreeSteps
      <4>2. at \in [{ "main", "handler" } -> { "running", "locking", "unwinding" }]
        BY DEF Stack!StackInv, Stack!TypeOK
      <4>3. QED
        BY <4>1, <4>2 DEF unwind, Stack!unwind
    <3>5. QED
      BY <2>1, <3>3, <3>4 DEF UnwindInv
  <2>3. CASE \E s \in Working : At(s) /\ Err
    BY <2>1, <2>3, ErrLeaves DEF UnwindInv
  <2>4. CASE At("detectLayout") /\ todo' = runReuseTail(layout') /\ cfg' = cfg
    <3>1. Here = "detectLayout" /\ cfg.mode = "reuse" /\ cfg.reinstall \in BOOLEAN
      BY <2>4, CommandFacts DEF At, Here, FlowInv
    <3>2. Path(cfg', layout', todo', "mkdirTemp", "exit")
      BY <2>4, <3>1, ReuseTailPath
    <3>3. Here' = "mkdirTemp"
      BY <3>2 DEF Path, Here
    <3>4. QED
      BY <2>1, <3>3 DEF UnwindInv
  <2>5. QED
    BY <1>4, <2>2, <2>3, <2>4, MainMoves DEF At, Here
<1>5. QED
  BY <1>3, <1>4

\* Nor does anybody else, before main unwinds, unless there is a signal.
LEMMA OthersUnwind ==
  ASSUME FlowInv, UnwindInv, Stack!StackInv, Others
  PROVE  UnwindInv'
<1>1. /\ Here' = Here
      /\ at \in [{ "main", "handler" } -> { "running", "locking", "unwinding" }]
  BY OthersElsewhere DEF Stack!StackInv, Stack!TypeOK
<1>2. signals' = 0 => signals = 0
  BY DEF Others, RunCallback, Mutex, Receive, HandlerExit, Interrupt, Kernel, Terminated, vars,
     sigVars, FlowInv
<1>3. signals = 0 /\ Here \notin { "exit", "ended" } => runs' = runs
  <2>1. SUFFICES ASSUME signals = 0, Here \notin { "exit", "ended" }
                 PROVE  runs' = runs
    OBVIOUS
  <2>2. ~\E g \in { "main", "handler" } : RunCallback(g)
    BY <2>1, CallbacksComeLate DEF RunCallback, Stack!RunCallback
  <2>3. QED
    BY <2>2 DEF Others, Mutex, Receive, HandlerExit, Interrupt, Kernel, Terminated, vars,
       stackVars, Stack!Lock, Stack!Unlock, Stack!unwind
<1>4. at'["main"] = "running" => (at["main"] = "running" /\ fns' = fns) \/ fns' = << >>
  <2>1. CASE \E g \in { "main", "handler" } : Mutex(g)
    BY <1>1, <2>1 DEF Mutex, Stack!Lock, Stack!Unlock
  <2>2. CASE Receive
    BY <1>1, <2>2 DEF Receive, Stack!unwind
  <2>3. CASE ~Receive /\ ~\E g \in { "main", "handler" } : Mutex(g)
    BY <2>3 DEF Others, RunCallback, Stack!RunCallback, HandlerExit, Interrupt, Kernel,
       Terminated, vars, stackVars
  <2>4. QED
    BY <2>1, <2>2, <2>3
<1>5. QED
  BY <1>1, <1>2, <1>3, <1>4 DEF UnwindInv

\* The first step of a run.
LEMMA InitHere ==
  ASSUME Init
  PROVE  Here = "preflight"
<1>1. cfg.mode \in { "build", "reuse" }
  BY CommandFacts DEF Init
<1>2. Path(cfg, layout, todo, "preflight", IF cfg.mode = "build" THEN "exit" ELSE "detectLayout")
  BY <1>1, BuildPath, ReusePath DEF Init
<1>3. QED
  BY <1>2 DEF Path, Here

\* Main registers its callbacks in one order, in all runs; without a signal
\* none of them is run before main is done; and then all of them have been.
THEOREM RegisteredInOrder == Spec => [](OrderInv /\ UnwindInv)
<1>1. Init => OrderInv /\ UnwindInv
  <2> SUFFICES ASSUME Init PROVE OrderInv /\ UnwindInv
    OBVIOUS
  <2>2. /\ order = << >> /\ fns = << >> /\ runs = [c \in Callback |-> 0]
    <3>1. Stack!Init
      BY DEF Init
    <3>2. QED
      BY <3>1 DEF Stack!Init
  <2>3. Here = "preflight"
    BY InitHere
  <2>4. Here \in Connecting
    BY <2>3 DEF Connecting
  <2>5. Len(order) = 0
    BY <2>2
  <2>6. QED
    BY <2>2, <2>3, <2>4, <2>5, KindsDiffer DEF OrderInv, UnwindInv
<1>2. OrderInv /\ UnwindInv /\ FlowInv /\ cfg \in Command /\ Stack!StackInv /\ [Next]_vars
        => (OrderInv /\ UnwindInv)'
  <2> SUFFICES ASSUME OrderInv, UnwindInv, FlowInv, cfg \in Command, Stack!StackInv, [Next]_vars
               PROVE  (OrderInv /\ UnwindInv)'
    OBVIOUS
  <2>1. CASE Main
    <3>1. OrderInv'
      BY <2>1, OrderStays, OrderGrows, RegistersThere DEF Stack!StackInv
    <3>2. QED
      BY <2>1, <3>1, MainUnwinds
  <2>2. CASE Others
    BY <2>2, OthersElsewhere, OthersUnwind DEF OrderInv
  <2>3. CASE UNCHANGED vars
    <3>1. UNCHANGED << layout, todo, signals, at, order, runs, fns >>
      BY <2>3 DEF vars, ctlVars, sigVars, stackVars
    <3>2. Here' = Here
      BY <3>1 DEF Here
    <3>3. QED
      BY <3>1, <3>2 DEF OrderInv, UnwindInv
  <2>4. QED
    BY <2>1, <2>2, <2>3 DEF Next, Others
<1>3. QED
  BY <1>1, <1>2, FlowCorrect, CallbacksRunOnce, PTL DEF Spec

-----------------------------------------------------------------------------
(* What is mounted *)

\* What main does at each of its steps.
LEMMA WhichStep ==
  ASSUME Main
  PROVE  /\ exit = "no" /\ at["main"] = "running" /\ todo # << >>
         /\ \/ Here \in { "preflight", "modprobe" } /\ Check(Here)
            \/ Here = "createImage" /\ createImage
            \/ Here = "connect" /\ connect
            \/ Here = "waitAttach" /\ waitAttach
            \/ Here \in PushName /\ push(Here)
            \/ Here = "partition" /\ partition
            \/ Here = "makeFilesystems" /\ makeFilesystems
            \/ Here = "detectLayout" /\ detectLayout
            \/ Here = "mkdirTemp" /\ mkdirTemp
            \/ Here = "mkdirBoot" /\ mkdir("boot")
            \/ Here = "mkdirEfi" /\ mkdir("efi")
            \/ Here = "mountRoot" /\ mount("root")
            \/ Here = "mountBoot" /\ mount("boot")
            \/ Here = "mountEfi" /\ mount("efi")
            \/ Here \in TreeStep /\ InTree(Here)
            \/ Here = "signalStop" /\ signalStop
            \/ Here = "unwind" /\ unwind
            \/ Here = "exit" /\ Exit
<1>1. exit = "no" /\ at["main"] = "running" /\ todo # << >>
  BY MainMoves DEF At
<1>2. ASSUME NEW s, At(s) PROVE Here = s
  BY <1>2 DEF At, Here
<1>3. CASE \E s \in { "preflight", "modprobe" } : Check(s)
  BY <1>1, <1>2, <1>3 DEF Check
<1>4. CASE createImage \/ connect \/ waitAttach
  BY <1>1, <1>2, <1>4 DEF createImage, connect, waitAttach
<1>5. CASE \E s \in DOMAIN PushOf : push(s)
  BY <1>1, <1>2, <1>5 DEF push, PushOf, PushName
<1>6. CASE partition \/ makeFilesystems \/ detectLayout \/ mkdirTemp
  BY <1>1, <1>2, <1>6 DEF partition, makeFilesystems, detectLayout, mkdirTemp
<1>7. CASE \E p \in { "boot", "efi" } : mkdir(p)
  BY <1>1, <1>2, <1>7 DEF mkdir
<1>8. CASE \E p \in Partition : mount(p)
  BY <1>1, <1>2, <1>8 DEF mount, Partition
<1>9. CASE \E s \in TreeStep : InTree(s)
  BY <1>1, <1>2, <1>9 DEF InTree
<1>10. CASE signalStop \/ unwind \/ Exit
  BY <1>1, <1>2, <1>10 DEF signalStop, unwind, Exit
<1>11. QED
  BY <1>3, <1>4, <1>5, <1>6, <1>7, <1>8, <1>9, <1>10 DEF Main

\* Where main goes from a step.
LEMMA WhereTo ==
  ASSUME FlowInv, cfg \in Command, Main
  PROVE  \/ /\ Here \in StepName \ { "detectLayout", "exit" }
            /\ Ok /\ Here' = After(cfg, layout)[Here] /\ layout' = layout
         \/ Here \in Working /\ Err /\ Here' = "signalStop" /\ layout' = layout
         \/ Here = "detectLayout" /\ Here' = "mkdirTemp" /\ layout' \in { "bios", "efi" }
         \/ Here = "exit" /\ Here' = "ended" /\ layout' = layout
<1>1. CASE \E s \in StepName \ { "detectLayout", "exit" } : At(s) /\ Ok
  BY <1>1, OkLeadsOn DEF Ok
<1>2. CASE \E s \in Working : At(s) /\ Err
  BY <1>2, ErrLeaves DEF Err, At, Here
<1>3. CASE /\ At("detectLayout") /\ layout' \in { "bios", "efi" }
           /\ todo' = runReuseTail(layout') /\ UNCHANGED << cfg, err, exit >>
  <2>1. Here = "detectLayout" /\ cfg.mode = "reuse" /\ cfg.reinstall \in BOOLEAN
    BY <1>3, CommandFacts DEF At, Here, FlowInv
  <2>2. Path(cfg', layout', todo', "mkdirTemp", "exit")
    BY <1>3, <2>1, ReuseTailPath
  <2>3. Here' = "mkdirTemp"
    BY <2>2 DEF Path, Here
  <2>4. QED
    BY <1>3, <2>1, <2>3
<1>4. CASE At("exit") /\ todo' = << >> /\ UNCHANGED layout
  BY <1>4 DEF At, Here
<1>5. QED
  BY <1>1, <1>2, <1>3, <1>4, MainMoves

\* The steps by what is mounted when main comes to them.
Unmounted   == Connecting \union Preparing \union { "mountRoot" }
RootMounted == { "pushRoot", "mkdirBoot", "mountBoot" }
BootMounted == { "pushBoot", "mkdirEfi", "mountEfi" }

\* A signal may take away what main has mounted, and nobody else does before
\* main unwinds.
MountedInv ==
  /\ Here \in Unmounted => mounted = { }
  /\ Here \in RootMounted =>
       mounted \subseteq { "root" } /\ (signals = 0 => mounted = { "root" })
  /\ Here \in BootMounted =>
       mounted \subseteq { "root", "boot" } /\ (signals = 0 => mounted = { "root", "boot" })
  /\ Here = "pushEfi" /\ signals = 0 => mounted = Partition
  /\ Here \in TreeStep /\ signals = 0 => mounted = PartitionsOf(layout)

\* A step belongs to one of these kinds.
LEMMA MountKindsDiffer ==
  /\ Unmounted \intersect (RootMounted \union BootMounted \union { "pushEfi" }
                             \union TreeStep \union Leaving) = { }
  /\ RootMounted \intersect (BootMounted \union { "pushEfi" } \union TreeStep \union Leaving) = { }
  /\ BootMounted \intersect ({ "pushEfi" } \union TreeStep \union Leaving) = { }
  /\ TreeStep \intersect (Leaving \union { "pushEfi" }) = { }
  /\ "ended" \notin Unmounted \union RootMounted \union BootMounted \union TreeStep
                      \union Leaving
  /\ "pushEfi" \notin Leaving
  /\ StepName = Unmounted \union RootMounted \union BootMounted \union { "pushEfi" }
                  \union TreeStep \union Leaving
<1> USE TreeStepNames DEF Unmounted, RootMounted, BootMounted, Leaving, Connecting, Preparing
<1>1. /\ Unmounted \intersect (RootMounted \union BootMounted \union { "pushEfi" }
                                 \union TreeStep \union Leaving) = { }
      /\ "ended" \notin Unmounted
  OBVIOUS
<1>2. /\ RootMounted \intersect (BootMounted \union { "pushEfi" } \union TreeStep
                                   \union Leaving) = { }
      /\ BootMounted \intersect ({ "pushEfi" } \union TreeStep \union Leaving) = { }
      /\ "ended" \notin RootMounted \union BootMounted
  OBVIOUS
<1>3. /\ TreeStep \intersect (Leaving \union { "pushEfi" }) = { }
      /\ "ended" \notin TreeStep \union Leaving /\ "pushEfi" \notin Leaving
  OBVIOUS
<1>4. StepName = Unmounted \union RootMounted \union BootMounted \union { "pushEfi" }
                   \union TreeStep \union Leaving
  BY DEF StepName, Working, RootSteps, BootSteps, EfiSteps
<1>5. QED
  BY <1>1, <1>2, <1>3, <1>4

\* Only the mounts mount.
LEMMA MountsThere ==
  ASSUME Main, Here \notin { "mountRoot", "mountBoot", "mountEfi" }
  PROVE  mounted' = mounted
BY WhichStep DEF Check, createImage, connect, waitAttach, push, partition, makeFilesystems,
   detectLayout, mkdirTemp, mkdir, InTree, signalStop, unwind, Exit, hostVars

\* Main mounts one partition after the other.
LEMMA MainMounts ==
  ASSUME FlowInv, OrderInv, MountedInv, cfg \in Command, Main
  PROVE  MountedInv'
<1>1. signals' = signals
  BY MainMoves
<1>2. CASE /\ Here \in StepName \ { "detectLayout", "exit" }
           /\ Ok /\ Here' = After(cfg, layout)[Here] /\ layout' = layout
  <2>1. CASE Here \in Unmounted \ { "mountRoot" }
    <3>1. Here' \in Unmounted
      BY <1>2, <2>1, WorkLeadsTo DEF Unmounted, Working, Connecting, Preparing
    <3>2. mounted' = { }
      BY <2>1, MountsThere, MountKindsDiffer DEF MountedInv, Unmounted, RootMounted,
         BootMounted, Connecting, Preparing
    <3>3. QED
      BY <3>1, <3>2, MountKindsDiffer DEF MountedInv
  <2>2. CASE Here = "mountRoot"
    <3>1. Here' \in RootMounted
      BY <1>2, <2>2 DEF After, RootMounted
    <3>2. mount("root") /\ mounted = { } /\ ~Err
      BY <1>2, <2>2, <3>1, WhichStep, TreeStepNames, ErrLeaves DEF PushName, MountedInv,
         Unmounted, RootMounted
    <3>3. mounted' = { "root" }
      BY <3>2 DEF mount
    <3>4. QED
      BY <3>1, <3>3, MountKindsDiffer DEF MountedInv
  <2>3. CASE Here \in { "pushRoot", "mkdirBoot" }
    <3>1. Here' \in RootMounted /\ Here \in RootMounted
      BY <1>2, <2>3 DEF After, RootMounted
    <3>2. mounted' = mounted
      BY <2>3, MountsThere
    <3>3. QED
      BY <1>1, <3>1, <3>2, MountKindsDiffer DEF MountedInv
  <2>4. CASE Here = "mountBoot"
    <3>1. Here' \in BootMounted /\ Here \in RootMounted
      BY <1>2, <2>4 DEF After, RootMounted, BootMounted
    <3>2. mount("boot") /\ ~Err
      BY <1>2, <2>4, <3>1, WhichStep, TreeStepNames, ErrLeaves DEF PushName, BootMounted
    <3>3. mounted' = mounted \union { "boot" }
      BY <3>2 DEF mount
    <3>4. QED
      BY <1>1, <3>1, <3>3, MountKindsDiffer DEF MountedInv
  <2>5. CASE Here \in { "pushBoot", "mkdirEfi" }
    <3>1. /\ Here \in BootMounted
          /\ Here' \in BootMounted \/ (Here' \in TreeStep /\ layout' # "efi")
      BY <1>2, <2>5, TreeStepNames DEF After, BootMounted
    <3>2. mounted' = mounted
      BY <2>5, MountsThere
    <3>3. QED
      BY <1>1, <3>1, <3>2, MountKindsDiffer DEF MountedInv, PartitionsOf
  <2>6. CASE Here = "mountEfi"
    <3>1. Here' = "pushEfi" /\ Here \in BootMounted
      BY <1>2, <2>6 DEF After, BootMounted
    <3>2. mount("efi") /\ ~Err
      BY <1>2, <2>6, <3>1, WhichStep, TreeStepNames, ErrLeaves DEF PushName
    <3>3. mounted' = mounted \union { "efi" }
      BY <3>2 DEF mount
    <3>4. QED
      BY <1>1, <3>1, <3>3, MountKindsDiffer DEF MountedInv, Partition
  <2>7. CASE Here = "pushEfi"
    <3>1. Here' \in TreeStep /\ layout' = "efi"
      BY <1>2, <2>7, TreeStepNames DEF After, OrderInv, EfiSteps
    <3>2. mounted' = mounted
      BY <2>7, MountsThere
    <3>3. QED
      BY <1>1, <2>7, <3>1, <3>2, MountKindsDiffer DEF MountedInv, PartitionsOf
  <2>8. CASE Here \in TreeStep
    <3>1. Here' \in TreeStep \union Leaving
      BY <1>2, <2>8, WorkLeadsTo DEF Working, Leaving
    <3>2. mounted' = mounted
      BY <2>8, MountsThere, TreeStepNames
    <3>3. QED
      BY <1>1, <1>2, <2>8, <3>1, <3>2, MountKindsDiffer DEF MountedInv
  <2>9. CASE Here \in Leaving
    <3>1. Here' \in Leaving \union { "ended" }
      BY <1>2, <2>9, WorkIsBehind
    <3>2. QED
      BY <3>1, MountKindsDiffer DEF MountedInv
  <2>10. QED
    BY <1>2, <2>1, <2>2, <2>3, <2>4, <2>5, <2>6, <2>7, <2>8, <2>9, MountKindsDiffer
       DEF RootMounted, BootMounted
<1>3. CASE Here' \in Leaving \union { "ended" }
  BY <1>3, MountKindsDiffer DEF MountedInv
<1>4. CASE Here = "detectLayout" /\ Here' = "mkdirTemp"
  <2>1. Here \in Unmounted /\ Here' \in Unmounted /\ mounted' = mounted
    BY <1>4, MountsThere DEF Unmounted, Preparing
  <2>2. QED
    BY <2>1, MountKindsDiffer DEF MountedInv
<1>5. QED
  BY <1>2, <1>3, <1>4, WhereTo DEF Leaving

\* Nobody else mounts, and nobody else unmounts without a signal.
LEMMA OthersUnmount ==
  ASSUME Others
  PROVE  mounted' \subseteq mounted /\ signals' \in { signals, signals + 1 }
         /\ \/ \E g \in { "main", "handler" } : RunCallback(g)
            \/ UNCHANGED << mounted, tmp, failed, tree, runs >>
<1>1. CASE \E g \in { "main", "handler" } : RunCallback(g)
  <2>1. mounted' \subseteq mounted
    BY <1>1 DEF RunCallback, Call, detachImage, removeAll, umount
  <2>2. QED
    BY <1>1, <2>1 DEF RunCallback, sigVars
<1>2. CASE ~\E g \in { "main", "handler" } : RunCallback(g)
  <2>1. UNCHANGED << mounted, tmp, failed, tree, runs >>
    BY <1>2 DEF Others, Mutex, Receive, HandlerExit, Interrupt, Kernel, Terminated, vars,
       hostVars, imageVars, stackVars, Stack!Lock, Stack!Unlock, Stack!unwind
  <2>2. signals' \in { signals, signals + 1 }
    BY <1>2 DEF Others, Mutex, Receive, HandlerExit, Interrupt, Kernel, Terminated, vars, sigVars
  <2>3. QED
    BY <2>1, <2>2
<1>3. QED
  BY <1>1, <1>2

\* Without a signal, and before main unwinds, nobody but main does anything to
\* what is mounted.
LEMMA OthersWait ==
  ASSUME FlowInv, Others, signals' = 0, Here \notin { "exit", "ended" }
  PROVE  signals = 0 /\ UNCHANGED << mounted, tmp, failed, tree, runs >>
<1>1. signals = 0
  BY OthersUnmount DEF FlowInv
<1>2. \A g \in { "main", "handler" } : ~RunCallback(g)
  <2>1. SUFFICES ASSUME NEW g \in { "main", "handler" }, RunCallback(g) PROVE FALSE
    OBVIOUS
  <2>2. at[g] # "running"
    BY <2>1 DEF RunCallback, Stack!RunCallback
  <2>3. QED
    BY <1>1, <2>2, CallbacksComeLate
<1>3. QED
  BY <1>1, <1>2, OthersUnmount

\* What is mounted at each step of main, in all runs.
THEOREM MountsInOrder == Spec => []MountedInv
<1>1. Init => MountedInv
  <2> SUFFICES ASSUME Init PROVE MountedInv
    OBVIOUS
  <2>1. mounted = { } /\ Here = "preflight"
    BY InitHere DEF Init
  <2>2. Here \in Unmounted
    BY <2>1 DEF Unmounted, Connecting
  <2>3. QED
    BY <2>1, <2>2, MountKindsDiffer DEF MountedInv
<1>2. MountedInv /\ OrderInv /\ FlowInv /\ cfg \in Command /\ [Next]_vars => MountedInv'
  <2> SUFFICES ASSUME MountedInv, OrderInv, FlowInv, cfg \in Command, [Next]_vars
               PROVE  MountedInv'
    OBVIOUS
  <2>1. CASE Others
    <3>1. /\ Here' = Here /\ layout' = layout /\ mounted' \subseteq mounted
          /\ signals' = 0 /\ Here \notin { "exit", "ended" }
                => signals = 0 /\ mounted' = mounted
      BY <2>1, OthersElsewhere, OthersUnmount, OthersWait
    <3>2. { "exit", "ended" } \intersect (Unmounted \union RootMounted \union BootMounted
                                            \union { "pushEfi" } \union TreeStep) = { }
      BY MountKindsDiffer DEF Leaving
    <3>3. QED
      BY <3>1, <3>2 DEF MountedInv
  <2>2. CASE UNCHANGED vars
    <3>1. UNCHANGED << layout, todo, signals, mounted >>
      BY <2>2 DEF vars, ctlVars, sigVars, hostVars
    <3>2. Here' = Here
      BY <3>1 DEF Here
    <3>3. QED
      BY <3>1, <3>2 DEF MountedInv
  <2>3. QED
    BY <2>1, <2>2, MainMounts DEF Next, Others
<1>3. QED
  BY <1>1, <1>2, FlowCorrect, RegisteredInOrder, PTL DEF Spec

-----------------------------------------------------------------------------
(* What was acquired is released, or its release is still to come *)

\* c is registered and has not been run.
Waiting(c) == c \in Stack!Registered /\ runs[c] = 0

\* The step that registers the umount of each partition.
PushOfMount == [root |-> "pushRoot", boot |-> "pushBoot", efi |-> "pushEfi"]

\* Whatever main acquired: its release was tried and failed, or is registered
\* and still to come, or is registered next.
MountsHeld ==
  \A p \in mounted :
    UmountOf[p] \in failed \/ Waiting(UmountOf[p]) \/ Here = PushOfMount[p]

DeviceHeld ==
  nbd \in { "sizing", "ready", "releasing" } =>
    \/ { "attach", "detach" } \intersect failed # { }
    \/ Waiting("detach") \/ Here \in { "waitAttach", "pushDetach" }

TmpHeld ==
  tmp => \/ "remove" \in failed \/ signals > 0
         \/ Waiting("remove") \/ Here = "pushRemove"

HeldInv == mounted \subseteq Partition /\ MountsHeld /\ DeviceHeld /\ TmpHeld

\* The names of the callbacks are different, and belong to these steps.
LEMMA CallbackTable ==
  /\ Callback = { "detach", "remove", "umount root", "umount boot", "umount efi" }
  /\ UmountOf["root"] = "umount root" /\ UmountOf["boot"] = "umount boot"
  /\ UmountOf["efi"] = "umount efi"
  /\ \A p \in Partition : /\ PushOfMount[p] \in PushName /\ PushOf[PushOfMount[p]] = UmountOf[p]
                          /\ UmountOf[p] \in Callback \ { "detach", "remove" }
  /\ \A p, q \in Partition : UmountOf[p] = UmountOf[q] => p = q
  /\ PushOf["pushDetach"] = "detach" /\ PushOf["pushRemove"] = "remove"
  /\ \A s \in PushName : PushOf[s] \in Callback
<1>1. Callback = { "detach", "remove", "umount root", "umount boot", "umount efi" }
  <2>1. Callback = { "detach", "remove" } \union
                     { UmountOf["root"], UmountOf["boot"], UmountOf["efi"] }
    BY DEF Callback, Partition
  <2>2. QED
    BY <2>1 DEF UmountOf
<1>2. /\ UmountOf["root"] = "umount root" /\ UmountOf["boot"] = "umount boot"
      /\ UmountOf["efi"] = "umount efi"
  BY DEF UmountOf
<1>3. /\ PushOf["pushDetach"] = "detach" /\ PushOf["pushRemove"] = "remove"
      /\ PushOf["pushRoot"] = UmountOf["root"] /\ PushOf["pushBoot"] = UmountOf["boot"]
      /\ PushOf["pushEfi"] = UmountOf["efi"]
  BY DEF PushOf, UmountOf
<1>4. /\ PushOfMount["root"] = "pushRoot" /\ PushOfMount["boot"] = "pushBoot"
      /\ PushOfMount["efi"] = "pushEfi"
  BY DEF PushOfMount
<1>5. \A p \in Partition : /\ PushOfMount[p] \in PushName /\ PushOf[PushOfMount[p]] = UmountOf[p]
                           /\ UmountOf[p] \in Callback \ { "detach", "remove" }
  BY <1>1, <1>2, <1>3, <1>4 DEF Partition, PushName
<1>6. \A p, q \in Partition : UmountOf[p] = UmountOf[q] => p = q
  BY <1>2 DEF Partition
<1>7. \A s \in PushName : PushOf[s] \in Callback
  BY <1>1, <1>2, <1>3 DEF PushName
<1>8. QED
  BY <1>1, <1>2, <1>3, <1>5, <1>6, <1>7

\* When the stack is empty, everything that was registered has been run.
LEMMA AllRun ==
  ASSUME Stack!StackInv, fns = << >>, NEW c
  PROVE  ~Waiting(c)
<1>1. SUFFICES ASSUME NEW k \in 1 .. Len(order), c = order[k]
               PROVE  runs[order[k]] = 1
  BY DEF Waiting, Stack!Registered, Stack!StackInv, Stack!TypeOK
<1>2. Len(fns) = 0 /\ Len(order) \in Nat /\ i \in [{ "main", "handler" } -> Nat]
      /\ mu \in { "main", "handler" } \union { "none" }
  BY DEF Stack!StackInv, Stack!TypeOK
<1>3. Stack!Left = 0
  <2>1. CASE mu = "none"
    BY <1>2, <2>1 DEF Stack!Left
  <2>2. CASE mu \in { "main", "handler" }
    <3>1. i[mu] <= Len(fns) /\ mu # "none"
      BY <2>2 DEF Stack!StackInv, Stack!Holder
    <3>2. QED
      BY <1>2, <2>2, <3>1 DEF Stack!Left
  <2>3. QED
    BY <1>2, <2>1, <2>2
<1>4. ~Stack!IsLeft(k)
  BY <1>2, <1>3 DEF Stack!IsLeft, Stack!Base
<1>5. QED
  BY <1>4 DEF Stack!StackInv, Stack!RunCounts

\* The callback that an unwind is at: everything registered after it has been
\* run.
LEMMA NewestFirst ==
  ASSUME Stack!StackInv, NEW g \in { "main", "handler" }, at[g] = "unwinding", i[g] > 0
  PROVE  \E n \in 1 .. Len(order) :
           /\ fns[i[g]] = order[n] /\ order[n] \in Callback
           /\ \A k \in 1 .. Len(order) : k > n => runs[order[k]] = 1
<1>1. /\ fns \in Seq(Callback) /\ order \in Seq(Callback) /\ i \in [{ "main", "handler" } -> Nat]
      /\ Len(fns) \in Nat /\ Len(order) \in Nat /\ Len(fns) <= Len(order)
  BY DEF Stack!StackInv, Stack!TypeOK, Stack!TailOfOrder
<1>2. i[g] \in 1 .. Len(fns) /\ mu = g /\ mu # "none"
  BY <1>1 DEF Stack!StackInv, Stack!Holder
<1> DEFINE n == Stack!Base + i[g]
<1>3. n \in 1 .. Len(order) /\ Stack!Left = i[g]
  BY <1>1, <1>2 DEF Stack!Base, Stack!Left
<1>4. fns[i[g]] = order[n]
  BY <1>2 DEF Stack!StackInv, Stack!TailOfOrder
<1>5. ASSUME NEW k \in 1 .. Len(order), k > n PROVE ~Stack!IsLeft(k)
  BY <1>1, <1>3, <1>5 DEF Stack!IsLeft, Stack!Base
<1>6. \A k \in 1 .. Len(order) : k > n => runs[order[k]] = 1
  BY <1>5 DEF Stack!StackInv, Stack!RunCounts
<1>7. order[n] \in Callback
  BY <1>1, <1>3
<1>8. QED
  BY <1>3, <1>4, <1>6, <1>7

\* Running a callback takes away only that one.
LEMMA RunOne ==
  ASSUME Stack!StackInv, NEW g \in { "main", "handler" }, RunCallback(g)
  PROVE  \E n \in 1 .. Len(order) :
           /\ order[n] \in Callback /\ Call(order[n]) /\ order' = order
           /\ \A k \in 1 .. Len(order) : k > n => runs[order[k]] = 1
           /\ \A d \in Callback \ { order[n] } : Waiting(d) => Waiting(d)'
           /\ \A d \in Callback : runs'[d] # runs[d] <=> d = order[n]
<1>1. /\ at[g] = "unwinding" /\ i[g] > 0 /\ order' = order
      /\ Call(fns[i[g]]) /\ runs' = [runs EXCEPT ![fns[i[g]]] = @ + 1]
  BY DEF RunCallback, Stack!RunCallback
<1>2. PICK n \in 1 .. Len(order) :
           /\ fns[i[g]] = order[n] /\ order[n] \in Callback
           /\ \A k \in 1 .. Len(order) : k > n => runs[order[k]] = 1
  BY <1>1, NewestFirst
<1>3. \A d \in Callback \ { order[n] } : Waiting(d) => Waiting(d)'
  BY <1>1, <1>2 DEF Waiting, Stack!Registered, Stack!StackInv, Stack!TypeOK
<1>4. \A d \in Callback : runs'[d] # runs[d] <=> d = order[n]
  BY <1>1, <1>2 DEF Stack!StackInv, Stack!TypeOK
<1>5. QED
  BY <1>1, <1>2, <1>3, <1>4

\* Main only adds callbacks.
LEMMA MainWaits ==
  ASSUME FlowInv, OrderInv, Stack!StackInv, cfg \in Command, Main
  PROVE  /\ \A d \in Callback : Waiting(d) => Waiting(d)'
         /\ \A d \in Callback : Here \in PushName /\ d = PushOf[Here] => Waiting(d)'
<1>1. CASE Here \in PushName
  <2>1. push(Here) /\ PushOf[Here] \in Callback
    BY <1>1, RegistersThere, CallbackTable
  <2>2. /\ order' = Append(order, PushOf[Here]) /\ runs' = runs /\ order \in Seq(Callback)
        /\ PushOf[Here] \in Callback \ Stack!Registered
    BY <2>1 DEF push, Stack!push, Stack!StackInv, Stack!TypeOK
  <2>3. /\ \A k \in DOMAIN order : k \in DOMAIN order' /\ order'[k] = order[k]
        /\ Len(order) + 1 \in DOMAIN order' /\ order'[Len(order) + 1] = PushOf[Here]
    BY <2>2
  <2>4. runs'[PushOf[Here]] = 0
    BY <2>2 DEF Stack!StackInv, Stack!RunCounts
  <2>5. PushOf[Here] \in Stack!Registered' /\ Stack!Registered \subseteq Stack!Registered'
    BY <2>3 DEF Stack!Registered
  <2>6. QED
    <3>1. \A d \in Callback : Waiting(d) => Waiting(d)'
      BY <2>2, <2>5 DEF Waiting
    <3>2. \A d \in Callback : d = PushOf[Here] => Waiting(d)'
      BY <2>4, <2>5 DEF Waiting
    <3>3. QED
      BY <3>1, <3>2
<1>2. CASE Here \notin PushName
  <2>1. order' = order /\ runs' = runs
    BY <1>2, OrderStays
  <2>2. QED
    BY <1>2, <2>1 DEF Waiting, Stack!Registered
<1>3. QED
  BY <1>1, <1>2

\* The step that mounts each partition.
MountStepOf == [root |-> "mountRoot", boot |-> "mountBoot", efi |-> "mountEfi"]

\* What main acquires, and where.
LEMMA MainAcquires ==
  ASSUME Main
  PROVE  /\ failed \subseteq failed' /\ mounted \subseteq mounted'
         /\ \A p \in mounted' \ mounted :
              /\ p \in Partition /\ Here = MountStepOf[p] /\ Ok
              /\ nbd = "ready" /\ p \in formatted /\ formatted' = formatted
         /\ nbd' # nbd => Here = "connect" /\ nbd' = "sizing" /\ Ok
         /\ Here = "waitAttach" => (Ok /\ nbd = "ready") \/ (Err /\ "attach" \in failed')
         /\ tmp' /\ ~tmp => (Here = "mkdirTemp" /\ Ok) \/ Here \in TreeStep
<1>1. /\ exit = "no" /\ at["main"] = "running" /\ todo # << >>
  BY WhichStep
<1>2. CASE Here \in { "preflight", "modprobe" } /\ Check(Here)
  BY <1>2 DEF Check, hostVars
<1>3. CASE Here = "createImage" /\ createImage
  BY <1>3 DEF createImage, hostVars
<1>4. CASE Here = "connect" /\ connect
  BY <1>4 DEF connect
<1>5. CASE Here = "waitAttach" /\ waitAttach
  BY <1>5 DEF waitAttach
<1>6. CASE Here \in PushName /\ push(Here)
  BY <1>6 DEF push, hostVars, PushName
<1>7. CASE \/ Here = "partition" /\ partition
           \/ Here = "makeFilesystems" /\ makeFilesystems
           \/ Here = "detectLayout" /\ detectLayout
  BY <1>7 DEF partition, makeFilesystems, detectLayout, hostVars
<1>8. CASE Here = "mkdirTemp" /\ mkdirTemp
  BY <1>8 DEF mkdirTemp
<1>9. CASE (Here = "mkdirBoot" /\ mkdir("boot")) \/ (Here = "mkdirEfi" /\ mkdir("efi"))
  BY <1>9 DEF mkdir, hostVars
<1>10. ASSUME NEW p \in Partition, Here = MountStepOf[p], mount(p)
       PROVE  /\ UNCHANGED << nbd, failed, tmp >>
              /\ mounted' = mounted
                   \/ (mounted' = mounted \union { p } /\ Ok /\ nbd = "ready" /\ p \in formatted
                        /\ formatted' = formatted)
  BY <1>10 DEF mount, imageVars
<1>11. CASE \E p \in Partition : Here = MountStepOf[p] /\ mount(p)
  BY <1>10, <1>11 DEF MountStepOf, Partition
<1>12. CASE Here \in TreeStep /\ InTree(Here)
  BY <1>12, TreeStepNames DEF InTree
<1>13. CASE \/ Here = "signalStop" /\ signalStop
            \/ Here = "unwind" /\ unwind
            \/ Here = "exit" /\ Exit
  BY <1>13 DEF signalStop, unwind, Exit, hostVars
<1>14. /\ "root" \in Partition /\ "boot" \in Partition /\ "efi" \in Partition
       /\ MountStepOf["root"] = "mountRoot" /\ MountStepOf["boot"] = "mountBoot"
       /\ MountStepOf["efi"] = "mountEfi"
  BY DEF Partition, MountStepOf
<1>15. QED
  BY <1>2, <1>3, <1>4, <1>5, <1>6, <1>7, <1>8, <1>9, <1>11, <1>12, <1>13, <1>14, WhichStep

\* The steps that register a release are the ones after the acquisitions.
LEMMA RegistersNext ==
  ASSUME FlowInv, Main, Ok
  PROVE  /\ Here = "connect" => Here' = "waitAttach"
         /\ Here = "waitAttach" => Here' = "pushDetach"
         /\ Here = "mkdirTemp" => Here' = "pushRemove"
         /\ \A p \in Partition : Here = MountStepOf[p] => Here' = PushOfMount[p]
<1> DEFINE acquires == { "connect", "waitAttach", "mkdirTemp", "mountRoot", "mountBoot", "mountEfi" }
<1>1. At(Here)
  BY WhichStep DEF At, Here
<1>2. acquires \subseteq StepName \ { "detectLayout", "exit" }
  BY DEF StepName, Working, Connecting, Preparing, RootSteps, BootSteps, EfiSteps
<1>3. Here \in acquires => Here' = After(cfg, layout)[Here]
  BY <1>1, <1>2, OkLeadsOn
<1>4. \A p \in Partition : Here = MountStepOf[p] => Here' = PushOfMount[p]
  BY <1>3 DEF After, MountStepOf, PushOfMount, Partition
<1>5. QED
  BY <1>3, <1>4 DEF After

\* The positions of the callbacks.
LEMMA FullTable ==
  \A n \in 1 .. 5 : /\ Full[n] = "detach" <=> n = 1
                    /\ Full[n] = "remove" <=> n = 2
                    /\ Full[n] = "umount root" <=> n = 3
                    /\ Full[n] = "umount boot" <=> n = 4
                    /\ Full[n] = "umount efi" <=> n = 5
<1>1. /\ Full[1] = "detach" /\ Full[2] = "remove" /\ Full[3] = "umount root"
      /\ Full[4] = "umount boot" /\ Full[5] = "umount efi"
  BY DEF Full
<1>2. \A n \in 1 .. 5 : n = 1 \/ n = 2 \/ n = 3 \/ n = 4 \/ n = 5
  OBVIOUS
<1>3. QED
  BY <1>1, <1>2

\* Main releases nothing, and registers the release of what it acquires next.
LEMMA MainHolds ==
  ASSUME FlowInv, OrderInv, UnwindInv, Stack!StackInv, cfg \in Command, HeldInv, Main
  PROVE  HeldInv'
<1>1. /\ \A d \in Callback : Waiting(d) => Waiting(d)'
      /\ \A d \in Callback : Here \in PushName /\ d = PushOf[Here] => Waiting(d)'
  BY MainWaits
<1>2. failed \subseteq failed' /\ signals' = signals /\ mounted \subseteq mounted'
  BY MainAcquires, MainMoves
<1>3. mounted' \subseteq Partition
  BY MainAcquires DEF HeldInv
<1>4. MountsHeld'
  <2>1. SUFFICES ASSUME NEW p \in mounted'
                 PROVE  UmountOf[p] \in failed' \/ Waiting(UmountOf[p])' \/ Here' = PushOfMount[p]
    BY DEF MountsHeld
  <2>2. CASE p \notin mounted
    <3>1. p \in Partition /\ Here = MountStepOf[p] /\ Ok
      BY <2>1, <2>2, MainAcquires
    <3>2. QED
      BY <3>1, RegistersNext
  <2>3. CASE p \in mounted
    <3>1. p \in Partition /\ UmountOf[p] \in Callback
      BY <2>3, CallbackTable DEF HeldInv
    <3>2. CASE Here = PushOfMount[p]
      <4>1. Here \in PushName /\ PushOf[Here] = UmountOf[p]
        BY <3>1, <3>2, CallbackTable
      <4>2. QED
        BY <1>1, <3>1, <4>1
    <3>3. CASE Here # PushOfMount[p]
      <4>1. UmountOf[p] \in failed \/ Waiting(UmountOf[p])
        BY <2>3, <3>3 DEF HeldInv, MountsHeld
      <4>2. QED
        BY <1>1, <1>2, <3>1, <4>1
    <3>4. QED
      BY <3>2, <3>3
  <2>4. QED
    BY <2>2, <2>3
<1>5. DeviceHeld'
  <2>1. CASE nbd' # nbd
    <3>1. Here' = "waitAttach"
      BY <2>1, MainAcquires, RegistersNext
    <3>2. QED
      BY <3>1 DEF DeviceHeld
  <2>2. CASE nbd' = nbd /\ Here = "waitAttach"
    <3>1. "attach" \in failed' \/ Here' = "pushDetach"
      BY <2>2, MainAcquires, RegistersNext
    <3>2. QED
      BY <3>1 DEF DeviceHeld
  <2>3. CASE nbd' = nbd /\ Here = "pushDetach"
    <3>1. Here \in PushName /\ PushOf[Here] = "detach" /\ "detach" \in Callback
      BY <2>3, CallbackTable DEF PushName
    <3>2. Waiting("detach")'
      BY <1>1, <3>1
    <3>3. QED
      BY <3>2 DEF DeviceHeld
  <2>4. CASE nbd' = nbd /\ Here \notin { "waitAttach", "pushDetach" }
    <3>1. "detach" \in Callback
      BY CallbackTable
    <3>2. QED
      BY <1>1, <1>2, <2>4, <3>1 DEF HeldInv, DeviceHeld
  <2>5. QED
    BY <2>1, <2>2, <2>3, <2>4
<1>6. TmpHeld'
  <2>1. "remove" \in Callback
    BY CallbackTable
  <2>2. CASE ~tmp' \/ signals # 0
    BY <1>2, <2>2 DEF TmpHeld, FlowInv
  <2>3. CASE tmp' /\ ~tmp /\ Here = "mkdirTemp" /\ Ok
    BY <2>3, RegistersNext DEF TmpHeld
  <2>4. CASE tmp' /\ signals = 0 /\ Here \in TreeStep
    <3>1. Len(order) \in { 4, 5 } /\ \A k \in 1 .. Len(order) : order[k] = Full[k]
      BY <2>4 DEF OrderInv
    <3>2. 2 \in 1 .. Len(order)
      BY <3>1
    <3>3. order[2] = "remove"
      <4>1. order[2] = Full[2]
        BY <3>1, <3>2
      <4>2. QED
        BY <4>1 DEF Full
    <3>4. "remove" \in Stack!Registered
      <4>1. 2 \in DOMAIN order
        BY <3>2 DEF Stack!StackInv, Stack!TypeOK
      <4>2. QED
        BY <3>3, <4>1 DEF Stack!Registered
    <3>5. runs["remove"] = 0
      <4>1. Here \notin { "exit", "ended" }
        BY <2>4, MountKindsDiffer DEF Leaving
      <4>2. QED
        BY <2>1, <2>4, <4>1 DEF UnwindInv
    <3>6. Waiting("remove")
      BY <3>4, <3>5 DEF Waiting
    <3>7. QED
      BY <1>1, <2>1, <3>6 DEF TmpHeld
  <2>5. CASE tmp /\ Here = "pushRemove"
    <3>1. Here \in PushName /\ PushOf[Here] = "remove"
      BY <2>5, CallbackTable DEF PushName
    <3>2. Waiting("remove")'
      BY <1>1, <2>1, <3>1
    <3>3. QED
      BY <3>2 DEF TmpHeld
  <2>6. CASE tmp /\ Here # "pushRemove"
    BY <1>1, <1>2, <2>1, <2>6 DEF HeldInv, TmpHeld
  <2>7. QED
    BY <2>2, <2>3, <2>4, <2>5, <2>6, MainAcquires
<1>7. QED
  BY <1>3, <1>4, <1>5, <1>6 DEF HeldInv

\* What a callback releases, or fails to release.
LEMMA CallReleases ==
  ASSUME NEW c \in Callback, Call(c)
  PROVE  /\ failed \subseteq failed' /\ mounted' \subseteq mounted
         /\ \A p \in Partition : c = UmountOf[p] => p \notin mounted' \/ UmountOf[p] \in failed'
         /\ c = "detach" => nbd' = "free" \/ "detach" \in failed'
         /\ c # "detach" => nbd' = nbd
         /\ c = "remove" => ~tmp' \/ "remove" \in failed'
         /\ c # "remove" => tmp' = tmp
<1>1. CASE c = "detach"
  <2>1. detachImage
    BY <1>1, CallbackTable DEF Call
  <2>2. QED
    BY <1>1, <2>1, CallbackTable DEF detachImage
<1>2. CASE c = "remove"
  <2>1. removeAll
    BY <1>2, CallbackTable DEF Call
  <2>2. QED
    BY <1>2, <2>1, CallbackTable DEF removeAll
<1>3. CASE c \notin { "detach", "remove" }
  <2>1. PICK p \in Partition : c = UmountOf[p] /\ umount(p)
    BY <1>3 DEF Call
  <2>2. /\ mounted' \subseteq mounted /\ failed \subseteq failed'
        /\ (p \notin mounted' \/ UmountOf[p] \in failed') /\ UNCHANGED << nbd, tmp >>
    BY <2>1 DEF umount
  <2>3. \A q \in Partition : c = UmountOf[q] => q = p
    BY <2>1, CallbackTable
  <2>4. UNCHANGED << nbd, tmp >>
    BY <2>1 DEF umount
  <2>5. QED
    BY <1>3, <2>2, <2>3, <2>4
<1>4. QED
  BY <1>1, <1>2, <1>3

\* What is still to come while a callback is run was registered no later.
LEMMA OnlyEarlierWait ==
  ASSUME OrderInv, Stack!StackInv, NEW n \in 1 .. Len(order),
         \A k \in 1 .. Len(order) : k > n => runs[order[k]] = 1,
         NEW d, Waiting(d)
  PROVE  n \in 1 .. 5 /\ order[n] = Full[n] /\ \E k \in 1 .. n : Full[k] = d
<1>1. Len(order) \in Nat /\ Len(order) <= 5
  BY DEF OrderInv, Stack!StackInv, Stack!TypeOK
<1>2. PICK k \in 1 .. Len(order) : d = order[k]
  BY DEF Waiting, Stack!Registered, Stack!StackInv, Stack!TypeOK
<1>3. runs[order[k]] = 0
  BY <1>2 DEF Waiting
<1>4. k \in 1 .. n /\ n \in 1 .. 5
  BY <1>1, <1>3
<1>5. order[k] = Full[k] /\ order[n] = Full[n]
  BY DEF OrderInv
<1>6. QED
  BY <1>2, <1>4, <1>5

\* The kernel changes the state of the device, and the callbacks what is left.
LEMMA OthersTouch ==
  ASSUME Others
  PROVE  \/ \E g \in { "main", "handler" } : RunCallback(g)
         \/ /\ UNCHANGED << mounted, tmp, failed, runs, order >>
            /\ nbd' = nbd \/ (nbd = "sizing" /\ nbd' = "ready")
                 \/ (nbd = "releasing" /\ nbd' = "free")
<1>1. CASE Kernel
  BY <1>1 DEF Kernel, stackVars
<1>2. CASE ~Kernel /\ ~\E g \in { "main", "handler" } : RunCallback(g)
  <2>1. UNCHANGED << mounted, tmp, failed, runs >>
    BY <1>2, OthersUnmount
  <2>2. nbd' = nbd
    BY <1>2 DEF Others, Mutex, Receive, HandlerExit, Interrupt, Terminated, vars, hostVars
  <2>3. order' = order
    BY OthersElsewhere
  <2>4. QED
    BY <2>1, <2>2, <2>3
<1>3. QED
  BY <1>1, <1>2

\* A callback releases what it is there for.
LEMMA OthersHold ==
  ASSUME FlowInv, OrderInv, Stack!StackInv, HeldInv, Others
  PROVE  HeldInv'
<1>1. /\ Here' = Here /\ mounted' \subseteq mounted
      /\ signals \in Nat /\ signals' \in { signals, signals + 1 }
      /\ mounted \subseteq Partition
  BY OthersElsewhere, OthersUnmount DEF FlowInv, HeldInv
<1>2. ASSUME NEW g \in { "main", "handler" }, RunCallback(g)
      PROVE  HeldInv'
  <2>1. PICK n \in 1 .. Len(order) :
           /\ order[n] \in Callback /\ Call(order[n]) /\ order' = order
           /\ \A k \in 1 .. Len(order) : k > n => runs[order[k]] = 1
           /\ \A d \in Callback \ { order[n] } : Waiting(d) => Waiting(d)'
    BY <1>2, RunOne
  <2> DEFINE c == order[n]
  <2>2. /\ failed \subseteq failed'
        /\ \A p \in Partition : c = UmountOf[p] => p \notin mounted' \/ UmountOf[p] \in failed'
        /\ c = "detach" => nbd' = "free" \/ "detach" \in failed'
        /\ c # "detach" => nbd' = nbd
        /\ c = "remove" => ~tmp' \/ "remove" \in failed'
        /\ c # "remove" => tmp' = tmp
    BY <2>1, CallReleases
  <2>3. MountsHeld'
    <3>1. SUFFICES ASSUME NEW p \in mounted'
                   PROVE  UmountOf[p] \in failed' \/ Waiting(UmountOf[p])' \/ Here' = PushOfMount[p]
      BY DEF MountsHeld
    <3>2. p \in mounted /\ p \in Partition /\ UmountOf[p] \in Callback
      BY <1>1, CallbackTable
    <3>3. CASE c = UmountOf[p]
      BY <2>2, <3>2, <3>3
    <3>4. CASE c # UmountOf[p]
      <4>1. Waiting(UmountOf[p]) => Waiting(UmountOf[p])'
        <5>1. ASSUME NEW d \in Callback \ { c } PROVE Waiting(d) => Waiting(d)'
          BY <2>1
        <5>2. QED
          BY <3>2, <3>4, <5>1
      <4>2. QED
        BY <1>1, <2>2, <3>2, <4>1 DEF HeldInv, MountsHeld
    <3>5. QED
      BY <3>3, <3>4
  <2>4. DeviceHeld'
    <3>1. CASE c = "detach"
      BY <2>2, <3>1 DEF DeviceHeld
    <3>2. CASE c # "detach"
      BY <1>1, <2>1, <2>2, <3>2, CallbackTable DEF HeldInv, DeviceHeld
    <3>3. QED
      BY <3>1, <3>2
  <2>5. TmpHeld'
    <3>1. CASE c = "remove"
      BY <2>2, <3>1 DEF TmpHeld
    <3>2. CASE c # "remove"
      <4>1. signals > 0 => signals' > 0
        BY <1>1
      <4>2. Waiting("remove") => Waiting("remove")'
        BY <2>1, <3>2, CallbackTable
      <4>3. QED
        BY <1>1, <2>2, <3>2, <4>1, <4>2 DEF HeldInv, TmpHeld
    <3>3. QED
      BY <3>1, <3>2
  <2>6. QED
    BY <1>1, <2>3, <2>4, <2>5 DEF HeldInv
<1>3. CASE /\ UNCHANGED << mounted, tmp, failed, runs, order >>
           /\ nbd' = nbd \/ (nbd = "sizing" /\ nbd' = "ready")
                \/ (nbd = "releasing" /\ nbd' = "free")
  <2>1. \A d : Waiting(d)' <=> Waiting(d)
    BY <1>3 DEF Waiting, Stack!Registered
  <2>2. MountsHeld'
    BY <1>1, <1>3, <2>1 DEF HeldInv, MountsHeld
  <2>3. DeviceHeld'
    BY <1>1, <1>3, <2>1 DEF HeldInv, DeviceHeld
  <2>4. TmpHeld'
    <3>1. signals > 0 => signals' > 0
      BY <1>1
    <3>2. QED
      BY <1>1, <1>3, <2>1, <3>1 DEF HeldInv, TmpHeld
  <2>5. QED
    BY <1>1, <2>2, <2>3, <2>4 DEF HeldInv
<1>4. QED
  BY <1>2, <1>3, OthersTouch

\* Whatever main acquired is released, or its release is to come or has failed
\* (image.go:86-103, main.go:121-166), in all runs.
THEOREM EverythingIsHeld == Spec => []HeldInv
<1>1. Init => HeldInv
  <2> SUFFICES ASSUME Init PROVE HeldInv
    OBVIOUS
  <2>1. mounted = { } /\ ~tmp /\ nbd \in { "free", "foreign" }
    BY DEF Init
  <2>2. QED
    BY <2>1 DEF HeldInv, MountsHeld, DeviceHeld, TmpHeld
<1>2. HeldInv /\ OrderInv /\ UnwindInv /\ FlowInv /\ cfg \in Command
        /\ Stack!StackInv /\ [Next]_vars
        => HeldInv'
  <2> SUFFICES ASSUME HeldInv, OrderInv, UnwindInv, FlowInv, cfg \in Command,
                      Stack!StackInv, [Next]_vars
               PROVE  HeldInv'
    OBVIOUS
  <2>1. CASE UNCHANGED vars
    <3>1. UNCHANGED << todo, signals, mounted, tmp, nbd, failed, order, runs >>
      BY <2>1 DEF vars, ctlVars, sigVars, hostVars, stackVars
    <3>2. Here' = Here /\ \A d : Waiting(d)' <=> Waiting(d)
      BY <3>1 DEF Here, Waiting, Stack!Registered
    <3>3. QED
      BY <3>1, <3>2 DEF HeldInv, MountsHeld, DeviceHeld, TmpHeld
  <2>2. QED
    BY <2>1, MainHolds, OthersHold DEF Next, Others
<1>3. QED
  BY <1>1, <1>2, FlowCorrect, RegisteredInOrder, CallbacksRunOnce, PTL DEF Spec

\* When main itself ends the process, nothing is left behind silently
\* (image.go:86-103, 247-250): the stack is empty, so everything registered
\* has been run, and what is still there is what a callback failed to release.
THEOREM LeavesNothingSilently == Spec => []NothingLeftSilently
<1>1. FlowInv /\ UnwindInv /\ HeldInv /\ Stack!StackInv => NothingLeftSilently
  <2> SUFFICES ASSUME FlowInv, UnwindInv, HeldInv, Stack!StackInv, exit \in { "success", "error" }
               PROVE  /\ \A p \in mounted : UmountOf[p] \in failed
                      /\ nbd \in { "sizing", "ready", "releasing" }
                           => { "attach", "detach" } \intersect failed # { }
                      /\ tmp => "remove" \in failed \/ signals > 0
    BY DEF NothingLeftSilently
  <2>1. Here = "ended" /\ at["main"] = "running"
    BY DEF FlowInv, Here
  <2>2. \A d : ~Waiting(d)
    BY <2>1, AllRun DEF UnwindInv
  <2>3. \A p \in mounted : Here # PushOfMount[p]
    BY <2>1, CallbackTable DEF HeldInv, PushName
  <2>4. QED
    BY <2>1, <2>2, <2>3 DEF HeldInv, MountsHeld, DeviceHeld, TmpHeld
<1>2. QED
  BY <1>1, EverythingIsHeld, FlowCorrect, RegisteredInOrder, CallbacksRunOnce, PTL

\* The callback of a partition that main has mounted and not registered yet is
\* not on the stack.
LEMMA NotYetRegistered ==
  ASSUME OrderInv, Stack!StackInv, NEW p \in Partition, Here = PushOfMount[p]
  PROVE  UmountOf[p] \notin Stack!Registered
<1>1. Len(order) \in Nat /\ DOMAIN order = 1 .. Len(order)
  BY DEF Stack!StackInv, Stack!TypeOK
<1>2. \/ p = "root" /\ Here = "pushRoot" /\ UmountOf[p] = "umount root"
      \/ p = "boot" /\ Here = "pushBoot" /\ UmountOf[p] = "umount boot"
      \/ p = "efi" /\ Here = "pushEfi" /\ UmountOf[p] = "umount efi"
  <2>1. /\ PushOfMount["root"] = "pushRoot" /\ PushOfMount["boot"] = "pushBoot"
        /\ PushOfMount["efi"] = "pushEfi"
    BY DEF PushOfMount
  <2>2. p = "root" \/ p = "boot" \/ p = "efi"
    BY DEF Partition
  <2>3. QED
    BY <2>1, <2>2, CallbackTable
<1>3. /\ Here = "pushRoot" => Len(order) = 2
      /\ Here = "pushBoot" => Len(order) = 3
      /\ Here = "pushEfi" => Len(order) = 4
  BY DEF OrderInv, RootSteps, BootSteps, EfiSteps
<1>4. SUFFICES ASSUME NEW k \in 1 .. Len(order), order[k] = UmountOf[p] PROVE FALSE
  BY <1>1 DEF Stack!Registered
<1>5. k \in 1 .. 5 /\ Full[k] = UmountOf[p]
  BY <1>1, <1>4 DEF OrderInv
<1>6. QED
  <2>1. Full[k] = "umount root" => k = 3
    BY <1>5, FullTable
  <2>2. Full[k] = "umount boot" => k = 4
    BY <1>5, FullTable
  <2>3. Full[k] = "umount efi" => k = 5
    BY <1>5, FullTable
  <2>4. k <= Len(order)
    BY <1>1
  <2>5. CASE p = "root"
    <3>1. Len(order) = 2
      BY <1>2, <1>3, <2>5
    <3>2. k = 3
      BY <1>2, <1>5, <2>1, <2>5
    <3>3. QED
      BY <2>4, <3>1, <3>2
  <2>6. CASE p = "boot"
    <3>1. Len(order) = 3
      BY <1>2, <1>3, <2>6
    <3>2. k = 4
      BY <1>2, <1>5, <2>2, <2>6
    <3>3. QED
      BY <2>4, <3>1, <3>2
  <2>7. CASE p = "efi"
    <3>1. Len(order) = 4
      BY <1>2, <1>3, <2>7
    <3>2. k = 5
      BY <1>2, <1>5, <2>3, <2>7
    <3>3. QED
      BY <2>4, <3>1, <3>2
  <2>8. QED
    BY <1>2, <2>5, <2>6, <2>7

\* What is inside of what a callback releases was registered after it.
LEMMA InsideIsLater ==
  ASSUME NEW n \in 1 .. 5, NEW k \in 1 .. 5, NEW p \in Inside(Full[n]), Full[k] = UmountOf[p]
  PROVE  k > n
<1>1. \/ p = "root" /\ k = 3
      \/ p = "boot" /\ k = 4
      \/ p = "efi" /\ k = 5
  <2>1. p \in Partition
    BY DEF Inside, Partition
  <2>2. CASE p = "root"
    <3>1. Full[k] = "umount root"
      BY <2>2, CallbackTable
    <3>2. k = 3
      BY <3>1, FullTable
    <3>3. QED
      BY <2>2, <3>2
  <2>3. CASE p = "boot"
    <3>1. Full[k] = "umount boot"
      BY <2>3, CallbackTable
    <3>2. k = 4
      BY <3>1, FullTable
    <3>3. QED
      BY <2>3, <3>2
  <2>4. CASE p = "efi"
    <3>1. Full[k] = "umount efi"
      BY <2>4, CallbackTable
    <3>2. k = 5
      BY <3>1, FullTable
    <3>3. QED
      BY <2>4, <3>2
  <2>5. QED
    BY <2>1, <2>2, <2>3, <2>4 DEF Partition
<1>2. CASE n \in { 1, 2 }
  BY <1>1, <1>2
<1>3. CASE n \in { 3, 4, 5 }
  <2>1. /\ Full[n] \notin { "detach", "remove" }
        /\ n = 3 <=> Full[n] = UmountOf["root"]
        /\ n = 4 <=> Full[n] = UmountOf["boot"]
    BY <1>3, FullTable, CallbackTable
  <2>2. (n = 3 /\ p # "root") \/ (n = 4 /\ p = "efi")
    BY <2>1 DEF Inside
  <2>3. QED
    BY <1>1, <2>2
<1>4. QED
  BY <1>2, <1>3

\* A mount that is inside of what a callback releases can not be released any
\* more when the callback is run, whichever goroutine runs it: it was not
\* registered when the signal came, or its umount was registered later, was
\* tried, and failed.
LEMMA InnerOnesTried ==
  ASSUME FlowInv, OrderInv, HeldInv, Stack!StackInv, NEW g \in { "main", "handler" },
         RunCallback(g), NEW c \in Callback, ~(runs'[c] = runs[c]),
         NEW p \in mounted, p \in Inside(c)
  PROVE  Lost(p)
<1>1. PICK n \in 1 .. Len(order) :
        /\ order[n] \in Callback /\ Call(order[n]) /\ order' = order
        /\ \A k \in 1 .. Len(order) : k > n => runs[order[k]] = 1
        /\ \A d \in Callback \ { order[n] } : Waiting(d) => Waiting(d)'
        /\ \A d \in Callback : runs'[d] # runs[d] <=> d = order[n]
  BY RunOne
<1>2. c = order[n] /\ p \in Partition
  BY <1>1 DEF HeldInv
<1>3. ~Waiting(UmountOf[p])
  <2>1. SUFFICES ASSUME Waiting(UmountOf[p]) PROVE FALSE
    OBVIOUS
  <2>2. n \in 1 .. 5 /\ order[n] = Full[n] /\ \E k \in 1 .. n : Full[k] = UmountOf[p]
    BY <1>1, <2>1, OnlyEarlierWait
  <2>3. PICK k \in 1 .. n : Full[k] = UmountOf[p]
    BY <2>2
  <2>4. k \in 1 .. 5 /\ ~(k > n) /\ p \in Inside(Full[n])
    BY <1>2, <2>2
  <2>5. QED
    BY <2>2, <2>3, <2>4, InsideIsLater
<1>4. CASE Here = PushOfMount[p]
  <2>1. signals # 0
    <3>1. at[g] # "running"
      BY DEF RunCallback, Stack!RunCallback
    <3>2. Here # "exit"
      BY <1>2, <1>4, CallbackTable DEF PushName
    <3>3. QED
      BY <3>1, <3>2, CallbacksComeLate
  <2>2. signals > 0
    BY <2>1 DEF FlowInv
  <2>3. QED
    BY <1>2, <1>4, <2>2, NotYetRegistered DEF Lost
<1>5. CASE Here # PushOfMount[p]
  BY <1>3, <1>5 DEF HeldInv, MountsHeld, Lost
<1>6. QED
  BY <1>4, <1>5

\* Whichever goroutine unwinds, and however main and the handler overlap, neither
\* the device nor the directory nor an outer mount is released while a file
\* system in it is mounted, unless the umount of that one failed, or is not
\* registered when a signal has the stack unwound (cleanup.go:5-9, 15-17).
THEOREM ReleasesInnermostFirst == Spec => InnermostFirst
<1> DEFINE Innermost == \A c \in Callback :
                          runs'[c] # runs[c] => \A p \in Inside(c) \cap mounted : Lost(p)
<1>1. FlowInv /\ OrderInv /\ HeldInv /\ Stack!StackInv /\ cfg \in Command /\ [Next]_vars
        => [Innermost]_vars
  <2> SUFFICES ASSUME FlowInv, OrderInv, HeldInv, Stack!StackInv, cfg \in Command, Next,
                      NEW c \in Callback, ~(runs'[c] = runs[c]), NEW p \in mounted, p \in Inside(c)
               PROVE  Lost(p)
    OBVIOUS
  <2>1. CASE Main
    <3>1. runs' = runs
      <4>1. CASE Here \in PushName
        BY <2>1, <4>1, RegistersThere DEF push, Stack!push
      <4>2. CASE Here \notin PushName
        BY <2>1, <4>2, OrderStays
      <4>3. QED
        BY <4>1, <4>2
    <3>2. QED
      BY <3>1
  <2>2. CASE Others
    <3>1. PICK g \in { "main", "handler" } : RunCallback(g)
      BY <2>2, OthersUnmount
    <3>2. QED
      BY <3>1, InnerOnesTried
  <2>3. QED
    BY <2>1, <2>2 DEF Next, Others
<1>2. QED
  BY <1>1, EverythingIsHeld, FlowCorrect, RegisteredInOrder, CallbacksRunOnce, PTL
  DEF Spec, InnermostFirst

-----------------------------------------------------------------------------
(* The device is ready when it is partitioned *)

\* While the size of the device is not known, main waits, or leaves.
SizeAwaited == nbd = "sizing" => Here \in { "waitAttach", "ended" } \union Leaving

\* Only a device without a size gets a corrupt table.
LEMMA MainAwaitsSize ==
  ASSUME FlowInv, cfg \in Command, SizeAwaited, NeverCorrupts, Main
  PROVE  SizeAwaited' /\ NeverCorrupts'
<1>1. Here # "ended"
  BY WhereTo, MountKindsDiffer DEF StepName, Working, Preparing
<1>2. SizeAwaited'
  <2>1. SUFFICES ASSUME nbd' = "sizing" PROVE Here' \in { "waitAttach", "ended" } \union Leaving
    BY DEF SizeAwaited
  <2>2. CASE nbd' # nbd
    BY <2>2, MainAcquires, RegistersNext
  <2>3. CASE nbd' = nbd
    <3>1. Here = "waitAttach" \/ Here \in Leaving
      BY <1>1, <2>1, <2>3 DEF SizeAwaited
    <3>2. CASE Here = "waitAttach"
      <4>1. Err
        BY <2>1, <2>3, <3>2, MainAcquires
      <4>2. QED
        BY <4>1, ErrLeaves DEF Leaving
    <3>3. CASE Here \in Leaving
      <4>1. Here \notin Working /\ Here # "detectLayout"
        BY <3>3, KindsDiffer DEF Working, Leaving
      <4>2. QED
        BY <3>3, <4>1, WhereTo, WorkIsBehind
    <3>4. QED
      BY <3>1, <3>2, <3>3
  <2>4. QED
    BY <2>2, <2>3
<1>3. parts' # Corrupt
  <2>1. CASE Here = "partition"
    <3>1. partition
      BY <2>1, WhichStep, TreeStepNames DEF PushName
    <3>2. nbd # "sizing"
      BY <2>1 DEF SizeAwaited, Leaving
    <3>3. partitionCount(layout) \in { 3, 4 } /\ parts # Corrupt
      BY DEF partitionCount, NeverCorrupts
    <3>4. parts' \in (0 .. partitionCount(layout)) \union { parts }
      BY <3>1, <3>2, <3>3 DEF partition
    <3>5. QED
      BY <3>3, <3>4 DEF Corrupt
  <2>2. CASE Here # "partition"
    <3>1. parts' = parts \/ parts' = 0
      BY <2>2, WhichStep DEF Check, createImage, connect, waitAttach, push, makeFilesystems,
         detectLayout, mkdirTemp, mkdir, mount, InTree, signalStop, unwind, Exit, imageVars
    <3>2. QED
      BY <3>1 DEF NeverCorrupts, Corrupt
  <2>3. QED
    BY <2>1, <2>2
<1>4. QED
  BY <1>2, <1>3 DEF NeverCorrupts

\* sgdisk never sees a device whose size is still 0 (image.go:75-78), in all runs.
THEOREM NeverWritesToNothing == Spec => []NeverCorrupts
<1>1. Init => SizeAwaited /\ NeverCorrupts
  <2> SUFFICES ASSUME Init PROVE SizeAwaited /\ NeverCorrupts
    OBVIOUS
  <2>1. nbd # "sizing"
    BY DEF Init
  <2>2. parts \in { 0, 3, 4 }
    <3>1. cfg.image \in { "none", "bios", "efi", "foreign", "half efi", "blank" } /\ ImageIs(cfg.image)
      BY CommandFacts DEF Init
    <3>2. QED
      BY <3>1 DEF ImageIs
  <2>3. QED
    BY <2>1, <2>2 DEF SizeAwaited, NeverCorrupts, Corrupt
<1>2. SizeAwaited /\ NeverCorrupts /\ FlowInv /\ cfg \in Command /\ [Next]_vars
        => (SizeAwaited /\ NeverCorrupts)'
  <2> SUFFICES ASSUME SizeAwaited, NeverCorrupts, FlowInv, cfg \in Command, [Next]_vars
               PROVE  (SizeAwaited /\ NeverCorrupts)'
    OBVIOUS
  <2>1. CASE Others
    <3>1. nbd' = "sizing" => nbd = "sizing"
      <4>1. ASSUME NEW g \in { "main", "handler" }, RunCallback(g)
            PROVE  nbd' \in { nbd, "free", "releasing" }
        BY <4>1 DEF RunCallback, Call, detachImage, removeAll, umount
      <4>2. QED
        BY <2>1, <4>1, OthersTouch
    <3>2. Here' = Here /\ parts' = parts
      BY <2>1, OthersElsewhere
    <3>3. QED
      BY <3>1, <3>2 DEF SizeAwaited, NeverCorrupts
  <2>2. CASE UNCHANGED vars
    <3>1. UNCHANGED << todo, nbd, parts >>
      BY <2>2 DEF vars, ctlVars, hostVars, imageVars
    <3>2. Here' = Here
      BY <3>1 DEF Here
    <3>3. QED
      BY <3>1, <3>2 DEF SizeAwaited, NeverCorrupts
  <2>3. QED
    BY <2>1, <2>2, MainAwaitsSize DEF Next, Others
<1>3. QED
  BY <1>1, <1>2, FlowCorrect, PTL DEF Spec

-----------------------------------------------------------------------------
(* The mounted tree, and the length of what is to do *)

TreeOK == tree \in [Partition \union { "host" } -> SUBSET Item]

\* s is a sequence of m to n steps.
Long(s, m, n) == s \in Seq(StepName) /\ m <= Len(s) /\ Len(s) <= n

\* The lengths of two sequences add up.
LEMMA LengthsAdd ==
  ASSUME NEW s, NEW t, NEW m \in Nat, NEW n \in Nat, NEW p \in Nat, NEW q \in Nat,
         Long(s, m, n), Long(t, p, q)
  PROVE  Long(s \o t, m + p, n + q)
<1>1. s \in Seq(StepName) /\ t \in Seq(StepName)
  BY DEF Long
<1>2. s \o t \in Seq(StepName) /\ Len(s \o t) = Len(s) + Len(t) /\ Len(s) \in Nat /\ Len(t) \in Nat
  BY <1>1
<1>3. QED
  BY <1>2 DEF Long

\* The lengths of the pieces of the pipelines, for any layout, and for EFI.
LEMMA PieceLengths ==
  ASSUME NEW l
  PROVE  /\ Long(Attach, 4, 4) /\ Long(Return, 3, 3) /\ Long(<< >>, 0, 0)
         /\ Long(MountSteps(l), 0, 10) /\ Long(MountSteps("efi"), 10, 10)
         /\ Long(installBootloader(l), 0, 3) /\ Long(installBootloader("efi"), 3, 3)
<1>1. Long(Attach, 4, 4)
  BY DEF Long, Attach, StepName, Working, Connecting
<1>2. Long(Return, 3, 3)
  BY DEF Long, Return, StepName, Leaving
<1>3. Long(<< >>, 0, 0)
  BY DEF Long
<1>4. Long(MountSteps(l), 0, 10) /\ Long(MountSteps("efi"), 10, 10)
  <2> DEFINE a == << "mkdirTemp", "pushRemove", "mountRoot", "pushRoot",
                     "mkdirBoot", "mountBoot", "pushBoot" >>
             b == << "mkdirEfi", "mountEfi", "pushEfi" >>
  <2>1. Long(a, 7, 7) /\ Long(b, 3, 3)
    BY DEF Long, StepName, Working, Preparing, RootSteps, BootSteps, EfiSteps
  <2> HIDE DEF a, b
  <2>2. Long(a \o b, 7 + 3, 7 + 3) /\ Long(a \o << >>, 7 + 0, 7 + 0)
    BY <1>3, <2>1, LengthsAdd
  <2>3. Long(a \o b, 10, 10) /\ Long(a \o b, 0, 10) /\ Long(a \o << >>, 0, 10)
    BY <2>2 DEF Long
  <2>4. MountSteps("efi") = a \o b /\ MountSteps(l) \in { a \o b, a \o << >> }
    BY DEF MountSteps, a, b
  <2>5. QED
    BY <2>3, <2>4
<1>5. Long(installBootloader(l), 0, 3) /\ Long(installBootloader("efi"), 3, 3)
  <2> DEFINE a == << "grubInstall", "setGrubFastboot", "grubMkconfig" >>
             b == << "grubInstall", "grubMkconfig" >>
  <2>1. Long(a, 3, 3) /\ Long(a, 0, 3) /\ Long(b, 0, 3)
    BY TreeStepNames DEF Long, StepName, Working
  <2> HIDE DEF a, b
  <2>2. installBootloader("efi") = a /\ installBootloader(l) \in { a, b }
    BY DEF installBootloader, a, b
  <2>3. QED
    BY <2>1, <2>2
<1>6. QED
  BY <1>1, <1>2, <1>3, <1>4, <1>5

\* A build of an EFI image has the most steps.
LEMMA PipelineLengths ==
  ASSUME NEW l
  PROVE  /\ Long(runBuild("efi"), 31, 31) /\ Long(runBuild(l), 0, 31)
         /\ Long(runReuse, 0, 31) /\ Long(runReuseTail(l), 0, 31)
<1> DEFINE create == << "createImage" >>
           format == << "partition", "makeFilesystems" >>
           fill   == << "installRepoKeys", "bootstrap", "reconfigure", "configureBashPrompt",
                        "configureShutdownAliases", "writeFstab", "installBinaries",
                        "enableSSHService" >>
           detect == << "detectLayout" >>
           update == << "installBinaries", "enableSSHService" >>
<1>1. Long(create, 1, 1) /\ Long(format, 2, 2) /\ Long(fill, 8, 8) /\ Long(detect, 1, 1)
      /\ Long(update, 2, 2)
  BY TreeStepNames DEF Long, StepName, Working, Connecting, Preparing
<1> HIDE DEF create, format, fill, detect, update
<1>2. ASSUME NEW k, NEW m \in Nat, NEW n \in Nat, NEW p \in Nat, NEW q \in Nat,
             Long(MountSteps(k), m, n), Long(installBootloader(k), p, q)
      PROVE  Long(runBuild(k), 1 + 4 + 2 + m + 8 + p + 3, 1 + 4 + 2 + n + 8 + q + 3)
  <2>1. Long(create \o Attach, 1 + 4, 1 + 4)
    BY <1>1, PieceLengths, LengthsAdd
  <2>2. Long(create \o Attach \o format, 1 + 4 + 2, 1 + 4 + 2)
    BY <1>1, <2>1, LengthsAdd
  <2>3. Long(create \o Attach \o format \o MountSteps(k), 1 + 4 + 2 + m, 1 + 4 + 2 + n)
    BY <1>2, <2>2, LengthsAdd
  <2>4. Long(create \o Attach \o format \o MountSteps(k) \o fill,
             1 + 4 + 2 + m + 8, 1 + 4 + 2 + n + 8)
    BY <1>1, <2>3, LengthsAdd
  <2>5. Long(create \o Attach \o format \o MountSteps(k) \o fill \o installBootloader(k),
             1 + 4 + 2 + m + 8 + p, 1 + 4 + 2 + n + 8 + q)
    BY <1>2, <2>4, LengthsAdd
  <2>6. Long(create \o Attach \o format \o MountSteps(k) \o fill \o installBootloader(k) \o Return,
             1 + 4 + 2 + m + 8 + p + 3, 1 + 4 + 2 + n + 8 + q + 3)
    BY <2>5, PieceLengths, LengthsAdd
  <2>7. runBuild(k) = create \o Attach \o format \o MountSteps(k) \o fill
                        \o installBootloader(k) \o Return
    BY DEF runBuild, create, format, fill
  <2>8. QED
    BY <2>6, <2>7
<1>3. Long(runBuild("efi"), 31, 31)
  <2>1. Long(runBuild("efi"), 1 + 4 + 2 + 10 + 8 + 3 + 3, 1 + 4 + 2 + 10 + 8 + 3 + 3)
    BY <1>2, PieceLengths
  <2>2. QED
    BY <2>1
<1>4. Long(runBuild(l), 0, 31)
  <2>1. Long(runBuild(l), 1 + 4 + 2 + 0 + 8 + 0 + 3, 1 + 4 + 2 + 10 + 8 + 3 + 3)
    BY <1>2, PieceLengths
  <2>2. QED
    BY <2>1 DEF Long
<1>5. Long(runReuse, 0, 31)
  <2>1. Long(Attach \o detect, 4 + 1, 4 + 1)
    BY <1>1, PieceLengths, LengthsAdd
  <2>2. runReuse = Attach \o detect
    BY DEF runReuse, detect
  <2>3. QED
    BY <2>1, <2>2 DEF Long
<1>6. Long(runReuseTail(l), 0, 31)
  <2> DEFINE boot == IF cfg.reinstall THEN installBootloader(l) ELSE << >>
  <2>1. Long(boot, 0, 3)
    <3>1. Long(installBootloader(l), 0, 3) /\ Long(<< >>, 0, 3)
      BY PieceLengths DEF Long
    <3>2. QED
      BY <3>1
  <2> HIDE DEF boot
  <2>2. Long(MountSteps(l) \o update, 0 + 2, 10 + 2)
    BY <1>1, PieceLengths, LengthsAdd
  <2>3. Long(MountSteps(l) \o update \o boot, 0 + 2 + 0, 10 + 2 + 3)
    BY <2>1, <2>2, LengthsAdd
  <2>4. Long(MountSteps(l) \o update \o boot \o Return, 0 + 2 + 0 + 3, 10 + 2 + 3 + 3)
    BY <2>3, PieceLengths, LengthsAdd
  <2>5. runReuseTail(l) = MountSteps(l) \o update \o boot \o Return
    BY DEF runReuseTail, update, boot
  <2>6. QED
    BY <2>4, <2>5 DEF Long
<1>7. QED
  BY <1>3, <1>4, <1>5, <1>6

\* What is left to do never gets longer than a build from its start.
LEMMA TodoShrinks ==
  ASSUME FlowInv, Len(todo) <= Len(runBuild("efi")) + 1, Main
  PROVE  (Len(todo) <= Len(runBuild("efi")) + 1)'
<1>1. /\ Long(runBuild("efi"), 31, 31) /\ Long(Return, 3, 3)
      /\ Long(runReuseTail(layout'), 0, 31) /\ Long(<< >>, 0, 0)
  BY PieceLengths, PipelineLengths
<1>2. todo \in Seq(StepName) /\ todo # << >>
  BY WhichStep DEF FlowInv, Path
<1>3. Len(Tail(todo)) <= Len(todo) /\ Len(Tail(todo)) \in Nat /\ Len(todo) \in Nat
  BY <1>2
<1>4. todo' \in { Tail(todo), Return, runReuseTail(layout'), << >> }
  BY MainMoves DEF Ok, Err
<1>5. Len(runBuild("efi")) \in Nat
  BY <1>1 DEF Long
<1>6. ASSUME Long(todo', 0, 31)
      PROVE  Len(todo') <= Len(runBuild("efi")) + 1
  BY <1>1, <1>5, <1>6 DEF Long
<1>7. CASE todo' = Tail(todo)
  BY <1>3, <1>5, <1>7
<1>8. CASE todo' \in { Return, runReuseTail(layout'), << >> }
  BY <1>1, <1>6, <1>8 DEF Long
<1>9. QED
  BY <1>4, <1>7, <1>8

-----------------------------------------------------------------------------
(* The image *)

\* Nothing below the temporary directory is anywhere but on a partition or on
\* the host.
LEMMA WhereIs ==
  ASSUME NEW p
  PROVE  /\ Where(p) \in Partition \union { "host" }
         /\ "root" \in mounted => Where(p) # "host"
         /\ ParentOf["boot"] = "root" /\ ParentOf["efi"] = "boot"
         /\ MountPointOf["boot"] = "bootdir" /\ MountPointOf["efi"] = "efidir"
BY DEF Where, Partition, ParentOf, MountPointOf

\* What step s makes in q.
MadeIn(s, q) ==
  { pr[2] : pr \in { r \in TreeSteps[s].makes :
                       r[1] \in PartitionsOf(layout) /\ Where(r[1]) = q } }

\* The partitions grow, or get new file systems, only in the hands of main.
LEMMA MainWrites ==
  ASSUME TreeOK, Main
  PROVE  /\ Here \notin { "createImage", "partition", "makeFilesystems" }
              => UNCHANGED << parts, formatted >>
         /\ Here \notin { "createImage", "partition" }
              => \A q \in Partition \union { "host" } : tree[q] \subseteq tree'[q]
         /\ Here \notin { "createImage", "partition", "mkdirBoot", "mkdirEfi" } \union TreeStep
              => tree' = tree
         /\ TreeOK'
         /\ Here \in TreeStep /\ ~Err
              => \A q \in Partition \union { "host" } : tree'[q] = tree[q] \union MadeIn(Here, q)
<1> USE DEF TreeOK
<1> DEFINE Same == UNCHANGED << parts, formatted, tree >>
<1>1. CASE /\ Here \notin { "createImage", "partition", "makeFilesystems", "mkdirBoot", "mkdirEfi" }
           /\ Here \notin TreeStep
  <2>1. Same
    BY <1>1, WhichStep DEF Check, connect, waitAttach, push, detectLayout, mkdirTemp, mount,
       signalStop, unwind, Exit, imageVars
  <2>2. QED
    BY <1>1, <2>1
<1>2. CASE Here = "createImage"
  <2>1. createImage
    BY <1>2, WhichStep, TreeStepNames DEF PushName
  <2>2. tree' = tree \/ tree' = NoFiles
    BY <2>1 DEF createImage, imageVars
  <2>3. NoFiles \in [Partition \union { "host" } -> SUBSET Item]
    BY DEF NoFiles
  <2>4. Here \notin TreeStep
    BY <1>2, TreeStepNames
  <2>5. QED
    BY <1>2, <2>2, <2>3, <2>4
<1>3. CASE Here = "partition"
  <2>1. partition
    BY <1>3, WhichStep, TreeStepNames DEF PushName
  <2>2. tree' = [tree EXCEPT !["root"] = { }, !["boot"] = { }, !["efi"] = { }]
    BY <2>1 DEF partition
  <2>3. TreeOK'
    BY <2>2
  <2>4. Here \notin TreeStep
    BY <1>3, TreeStepNames
  <2>5. QED
    BY <1>3, <2>3, <2>4
<1>4. CASE Here = "makeFilesystems"
  <2>1. makeFilesystems
    BY <1>4, WhichStep, TreeStepNames DEF PushName
  <2>2. tree' = tree
    BY <2>1 DEF makeFilesystems
  <2>3. Here \notin TreeStep
    BY <1>4, TreeStepNames
  <2>4. QED
    BY <1>4, <2>2, <2>3
<1>5. CASE Here \in { "mkdirBoot", "mkdirEfi" }
  <2>1. PICK p \in { "boot", "efi" } : mkdir(p)
    BY <1>5, WhichStep, TreeStepNames DEF PushName
  <2> DEFINE w == Where(ParentOf[p])
             m == MountPointOf[p]
  <2>2. w \in Partition \union { "host" } /\ m \in Item
    BY <2>1, WhereIs DEF Item
  <2>3. UNCHANGED << parts, formatted >>
        /\ (tree' = tree \/ tree' = [tree EXCEPT ![w] = @ \union { m }])
    BY <2>1 DEF mkdir
  <2> HIDE DEF w, m
  <2>4. \A q \in Partition \union { "host" } : tree[q] \subseteq tree'[q]
    BY <2>2, <2>3
  <2>5. TreeOK'
    BY <2>2, <2>3
  <2>6. Here \notin TreeStep
    BY <1>5, TreeStepNames
  <2>7. QED
    BY <1>5, <2>3, <2>4, <2>5, <2>6
<1>6. CASE Here \in TreeStep
  <2>1. InTree(Here)
    BY <1>6, WhichStep, TreeStepNames DEF PushName
  <2>2. UNCHANGED << parts, formatted >>
        /\ \/ Err /\ tree' = tree
           \/ tree' = [q \in DOMAIN tree |-> tree[q] \union MadeIn(Here, q)]
    BY <2>1 DEF InTree, MadeIn
  <2>3. \A q : MadeIn(Here, q) \subseteq Item
    BY <1>6 DEF MadeIn, Item, ProductsOf
  <2>4. DOMAIN tree = Partition \union { "host" }
    OBVIOUS
  <2>5. TreeOK'
    BY <2>2, <2>3, <2>4
  <2>6. Here \notin { "createImage", "partition", "makeFilesystems", "mkdirBoot", "mkdirEfi" }
    BY <1>6, TreeStepNames
  <2>7. \A q \in Partition \union { "host" } : tree[q] \subseteq tree'[q]
    BY <2>2, <2>4
  <2>8. ~Err => \A q \in Partition \union { "host" } : tree'[q] = tree[q] \union MadeIn(Here, q)
    BY <2>2, <2>4
  <2>9. QED
    BY <1>6, <2>2, <2>5, <2>6, <2>7, <2>8
<1>7. QED
  BY <1>1, <1>2, <1>3, <1>4, <1>5, <1>6

\* os.RemoveAll takes files away; the other callbacks leave the trees alone.
LEMMA OthersWrite ==
  ASSUME TreeOK, Others
  PROVE  /\ UNCHANGED << parts, formatted >> /\ TreeOK'
         /\ \A q \in Partition \union { "host" } : tree'[q] \subseteq tree[q]
         /\ \A q \in Partition : q \notin mounted => tree'[q] = tree[q]
<1>1. UNCHANGED << parts, formatted >>
  BY OthersElsewhere
<1>2. CASE removeAll
  <2>1. /\ DOMAIN tree = Partition \union { "host" } /\ DOMAIN tree' = Partition \union { "host" }
        /\ \A q \in Partition \union { "host" } : tree'[q] \subseteq tree[q]
        /\ \A q \in Partition : q \notin mounted /\ q # "host" => tree'[q] = tree[q]
        /\ tree' = [q \in DOMAIN tree |-> tree'[q]]
    BY <1>2 DEF removeAll, TreeOK
  <2>2. "host" \notin Partition
    BY DEF Partition
  <2>3. QED
    BY <1>1, <2>1, <2>2 DEF TreeOK
<1>3. CASE tree' = tree
  BY <1>1, <1>3 DEF TreeOK
<1>4. removeAll \/ tree' = tree
  BY DEF Others, RunCallback, Call, detachImage, umount, Mutex, Receive, HandlerExit, Interrupt,
     Kernel, Terminated, vars, imageVars
<1>5. QED
  BY <1>2, <1>3, <1>4

\* The types of what main changes.
LEMMA MainKeepsTypes ==
  ASSUME TypeOK, FlowInv, MountedInv, cfg \in Command, cfg' \in Command, Main, Stack!TypeOK'
  PROVE  TypeOK'
<1>1. (Len(todo) <= Len(runBuild("efi")) + 1)'
  BY TodoShrinks DEF TypeOK
<1>2. /\ layout' \in { "bios", "efi", "unknown" } /\ err' \in BOOLEAN
      /\ exit' \in { "no", "success", "error", "interrupted", "killed" }
      /\ UNCHANGED << pending, signals, handler >>
  BY MainMoves DEF TypeOK, Ok, Err
<1>3. notify' \in BOOLEAN
  BY WhichStep DEF TypeOK, Check, createImage, connect, waitAttach, push, partition,
     makeFilesystems, detectLayout, mkdirTemp, mkdir, mount, InTree, signalStop, unwind, Exit,
     sigVars
<1>4. nbd' \in { "free", "foreign", "sizing", "ready", "releasing" }
  BY MainAcquires DEF TypeOK
<1>5. tmp' \in BOOLEAN
  BY WhichStep DEF TypeOK, Check, createImage, connect, waitAttach, push, partition,
     makeFilesystems, detectLayout, mkdirTemp, mkdir, mount, InTree, signalStop, unwind, Exit,
     hostVars, TreeSteps, StepThat
<1>6. failed' \subseteq Callback \union { "attach" }
  BY WhichStep DEF TypeOK, Check, createImage, connect, waitAttach, push, partition,
     makeFilesystems, detectLayout, mkdirTemp, mkdir, mount, InTree, signalStop, unwind, Exit,
     hostVars
<1>7. TreeOK'
  BY MainWrites DEF TypeOK, TreeOK
<1>8. CASE Here \in { "createImage", "partition", "makeFilesystems" }
  <2>1. Here \in Unmounted /\ mounted = { } /\ mounted' = mounted
    BY <1>8, MountsThere DEF Unmounted, Connecting, Preparing, MountedInv
  <2>2. parts' \in (0 .. 4) \union { Corrupt } /\ formatted' \subseteq Partition
    <3>1. CASE createImage
      BY <3>1 DEF createImage, imageVars, TypeOK
    <3>2. CASE partition
      <4>1. partitionCount(layout) \in { 3, 4 } /\ parts \in (0 .. 4) \union { Corrupt }
        BY DEF partitionCount, TypeOK
      <4>2. formatted' = { } /\ parts' \in (0 .. partitionCount(layout)) \union { parts, Corrupt }
        BY <3>2, <4>1 DEF partition
      <4>3. QED
        BY <4>1, <4>2
    <3>3. CASE makeFilesystems
      <4>1. PartitionsOf(layout) \subseteq Partition
        BY DEF PartitionsOf, Partition
      <4>2. QED
        BY <3>3, <4>1 DEF makeFilesystems, TypeOK
    <3>4. createImage \/ partition \/ makeFilesystems
      BY <1>8, WhichStep, TreeStepNames DEF PushName
    <3>5. QED
      BY <3>1, <3>2, <3>3, <3>4
  <2>3. QED
    BY <1>1, <1>2, <1>3, <1>4, <1>5, <1>6, <1>7, <2>1, <2>2 DEF TypeOK, TreeOK
<1>9. CASE Here \notin { "createImage", "partition", "makeFilesystems" }
  <2>1. UNCHANGED << parts, formatted >>
    BY <1>9, MainWrites DEF TypeOK, TreeOK
  <2>2. mounted' \subseteq formatted
    BY MainAcquires DEF TypeOK
  <2>3. QED
    BY <1>1, <1>2, <1>3, <1>4, <1>5, <1>6, <1>7, <2>1, <2>2 DEF TypeOK, TreeOK
<1>10. QED
  BY <1>8, <1>9

\* The types of what the others change.
LEMMA OthersKeepTypes ==
  ASSUME TypeOK, Others, Stack!TypeOK'
  PROVE  TypeOK'
<1>1. /\ UNCHANGED << cfg, layout, todo, err, notify, parts, formatted >> /\ mounted' \subseteq mounted
      /\ TreeOK'
  BY OthersElsewhere, OthersUnmount, OthersWrite DEF TypeOK, TreeOK
<1>2. /\ exit' \in { "no", "success", "error", "interrupted", "killed" }
      /\ pending' \in BOOLEAN /\ handler' \in { "waiting", "unwinding" }
  BY DEF TypeOK, Others, RunCallback, Mutex, Receive, HandlerExit, Interrupt, Kernel, Terminated,
     vars, sigVars
<1>3. signals' \in 0 .. MaxSignals
  <2>1. CASE Interrupt
    BY <2>1, MaxSignalsAssumption DEF Interrupt, TypeOK
  <2>2. CASE ~Interrupt
    BY <2>2 DEF TypeOK, Others, RunCallback, Mutex, Receive, HandlerExit, Kernel, Terminated,
       vars, sigVars
  <2>3. QED
    BY <2>1, <2>2
<1>4. /\ nbd' \in { "free", "foreign", "sizing", "ready", "releasing" } /\ tmp' \in BOOLEAN
      /\ failed' \subseteq Callback \union { "attach" }
  <2>1. ASSUME NEW g \in { "main", "handler" }, RunCallback(g)
        PROVE  /\ nbd' \in { nbd, "free", "releasing" } /\ tmp' \in BOOLEAN
               /\ failed' \subseteq Callback \union { "attach" }
    <3>1. PICK c : Call(c)
      BY <2>1 DEF RunCallback
    <3>2. CASE removeAll
      BY <3>2, CallbackTable DEF removeAll, TypeOK
    <3>3. CASE detachImage
      BY <3>3, CallbackTable DEF detachImage, TypeOK
    <3>4. CASE \E p \in Partition : umount(p)
      BY <3>4, CallbackTable DEF umount, TypeOK
    <3>5. QED
      BY <3>1, <3>2, <3>3, <3>4 DEF Call
  <2>2. QED
    BY <2>1, OthersTouch DEF TypeOK
<1>5. mounted' \subseteq formatted'
  BY <1>1 DEF TypeOK
<1>6. QED
  BY <1>1, <1>2, <1>3, <1>4, <1>5 DEF TypeOK, TreeOK

\* The types of the first state.
LEMMA InitTypes ==
  ASSUME Init, Stack!TypeOK
  PROVE  TypeOK
<1>1. cfg \in Command /\ cfg.mode \in { "build", "reuse" }
      /\ (cfg.mode = "build" => cfg.requested \in { "bios", "efi" })
      /\ cfg.image \in { "none", "bios", "efi", "foreign", "half efi", "blank" }
  BY CommandFacts DEF Init
<1>2. Len(todo) <= Len(runBuild("efi")) + 1
  <2>1. /\ Long(runBuild("efi"), 31, 31) /\ Long(runBuild(cfg.requested), 0, 31)
        /\ Long(runReuse, 0, 31)
    BY PipelineLengths
  <2>2. Long(<< "preflight" >>, 1, 1)
    BY DEF Long, StepName, Working, Connecting
  <2>3. /\ Long(<< "preflight" >> \o runBuild(cfg.requested), 1 + 0, 1 + 31)
        /\ Long(<< "preflight" >> \o runReuse, 1 + 0, 1 + 31)
    BY <2>1, <2>2, LengthsAdd
  <2>4. todo = << "preflight" >> \o runBuild(cfg.requested) \/ todo = << "preflight" >> \o runReuse
    BY DEF Init
  <2>5. Long(todo, 1 + 0, 1 + 31)
    BY <2>3, <2>4
  <2>6. QED
    BY <2>1, <2>5 DEF Long
<1>3. /\ parts \in 0 .. 4 /\ formatted \subseteq Partition /\ TreeOK
  <2>1. NoFiles \in [Partition \union { "host" } -> SUBSET Item]
    BY DEF NoFiles
  <2>2. ASSUME NEW l PROVE BuiltTree(l) \in [Partition \union { "host" } -> SUBSET Item]
    <3>1. \A S \in SUBSET ProductsOf(TreeStep) : { pr[2] : pr \in S } \subseteq Item
      BY DEF Item
    <3>2. ASSUME NEW p
          PROVE  { pr[2] : pr \in { q \in ProductsOf(TreeStep) : q[1] = p } } \subseteq Item
      BY <3>1
    <3>3. "bootdir" \in Item /\ "efidir" \in Item
      BY DEF Item
    <3>4. QED
      BY <3>2, <3>3 DEF BuiltTree
  <2>3. ForeignTree \in [Partition \union { "host" } -> SUBSET Item]
    <3>1. BuiltTree("bios") \in [Partition \union { "host" } -> SUBSET Item]
      BY <2>2
    <3>2. QED
      BY <3>1 DEF ForeignTree
  <2>4. ImageIs(cfg.image)
    BY DEF Init
  <2>5. parts \in { 0, 3, 4 } /\ formatted \in { { }, { "root", "boot" }, Partition }
        /\ tree \in { NoFiles, BuiltTree("bios"), BuiltTree("efi"), ForeignTree }
    BY <1>1, <2>4 DEF ImageIs
  <2>6. QED
    BY <2>1, <2>2, <2>3, <2>5 DEF TreeOK, Partition
<1>4. layout \in { "bios", "efi", "unknown" }
  BY <1>1 DEF Init
<1>5. signals \in 0 .. MaxSignals
  BY MaxSignalsAssumption DEF Init
<1>6. /\ err \in BOOLEAN /\ exit = "no" /\ notify \in BOOLEAN /\ pending \in BOOLEAN
      /\ handler = "waiting" /\ nbd \in { "free", "foreign" } /\ mounted = { } /\ tmp \in BOOLEAN
      /\ failed = { }
  BY DEF Init
<1>7. QED
  BY <1>1, <1>2, <1>3, <1>4, <1>5, <1>6 DEF TypeOK, TreeOK

\* The types of the state of a run.  That only partitions with a file system
\* are mounted (mounted \subseteq formatted) needs MountedInv: what formats
\* comes before what mounts.
THEOREM TypeCorrect == Spec => []TypeOK
<1>1. Init /\ Stack!StackInv => TypeOK
  BY InitTypes DEF Stack!StackInv
<1>2. TypeOK /\ FlowInv /\ MountedInv /\ cfg \in Command /\ (cfg \in Command)' /\ Stack!StackInv'
        /\ [Next]_vars
        => TypeOK'
  <2> SUFFICES ASSUME TypeOK, FlowInv, MountedInv, cfg \in Command, cfg' \in Command,
                      Stack!TypeOK', [Next]_vars
               PROVE  TypeOK'
    BY DEF Stack!StackInv
  <2>1. CASE UNCHANGED vars
    BY <2>1 DEF TypeOK, vars, ctlVars, sigVars, imageVars, hostVars, stackVars
  <2>2. QED
    BY <2>1, MainKeepsTypes, OthersKeepTypes DEF Next, Others
<1>3. QED
  BY <1>1, <1>2, FlowCorrect, MountsInOrder, CallbacksRunOnce, PTL DEF Spec

-----------------------------------------------------------------------------
(* Nothing is written to the host, and nothing of the image is lost *)

\* Without a signal, main works on the mounted partitions.
LEMMA MainSparesHost ==
  ASSUME TreeOK, MountedInv, NothingOnHost, Main
  PROVE  NothingOnHost'
<1>1. SUFFICES ASSUME signals = 0, tree["host"] = { } PROVE tree'["host"] = { }
  BY MainMoves DEF NothingOnHost
<1>2. "host" \in Partition \union { "host" } /\ "host" \notin Partition
  BY DEF Partition
<1>3. CASE Here = "createImage"
  <2>1. createImage
    BY <1>3, WhichStep, TreeStepNames DEF PushName
  <2>2. QED
    BY <1>1, <1>2, <2>1 DEF createImage, imageVars, NoFiles
<1>4. CASE Here = "partition"
  <2>1. partition
    BY <1>4, WhichStep, TreeStepNames DEF PushName
  <2>2. QED
    BY <1>1, <1>2, <2>1 DEF partition, TreeOK
<1>5. CASE Here \in { "mkdirBoot", "mkdirEfi" }
  <2>1. PICK p \in { "boot", "efi" } :
          mkdir(p) /\ Here = IF p = "boot" THEN "mkdirBoot" ELSE "mkdirEfi"
    BY <1>5, WhichStep, TreeStepNames DEF PushName
  <2>2. "root" \in mounted
    BY <1>1, <1>5 DEF MountedInv, RootMounted, BootMounted
  <2>3. Where(ParentOf[p]) # "host"
    BY <2>2, WhereIs
  <2>4. tree' = tree \/ tree' = [tree EXCEPT ![Where(ParentOf[p])] = @ \union { MountPointOf[p] }]
    BY <2>1 DEF mkdir
  <2>5. QED
    BY <1>1, <1>2, <2>3, <2>4 DEF TreeOK
<1>6. CASE Here \in TreeStep
  <2>1. "root" \in mounted
    BY <1>1, <1>6 DEF MountedInv, PartitionsOf, Partition
  <2>2. MadeIn(Here, "host") = { }
    BY <2>1, WhereIs DEF MadeIn
  <2>3. InTree(Here)
    BY <1>6, WhichStep, TreeStepNames DEF PushName
  <2>4. tree' = tree \/ tree' = [q \in DOMAIN tree |-> tree[q] \union MadeIn(Here, q)]
    BY <2>3 DEF InTree, MadeIn
  <2>5. QED
    BY <1>1, <1>2, <2>2, <2>4 DEF TreeOK
<1>7. CASE Here \notin { "createImage", "partition", "mkdirBoot", "mkdirEfi" } \union TreeStep
  BY <1>1, <1>7, MainWrites
<1>8. QED
  BY <1>3, <1>4, <1>5, <1>6, <1>7

\* Unless a signal arrives, no step of the pipeline writes to the bare temporary
\* directory (main.go:129-166): whenever main works in the tree, the root
\* partition is mounted there.
THEOREM HostIsSpared == Spec => []NothingOnHost
<1>1. Init => NothingOnHost
  <2> SUFFICES ASSUME Init PROVE tree["host"] = { }
    BY DEF NothingOnHost
  <2>1. "host" \in Partition \union { "host" } /\ "host" \notin Partition
    BY DEF Partition
  <2>2. \A l : BuiltTree(l)["host"] = { }
    BY <2>1 DEF BuiltTree, PartitionsOf
  <2>3. NoFiles["host"] = { } /\ ForeignTree["host"] = { }
    <3> DEFINE built == BuiltTree("bios")
    <3>1. "host" \in DOMAIN built /\ built["host"] = { }
      BY <2>1, <2>2 DEF BuiltTree
    <3>2. ForeignTree["host"] = built["host"]
      <4>1. ForeignTree = [built EXCEPT !["root"] = @ \ { "bootdir" }, !["boot"] = { }]
        BY DEF ForeignTree
      <4> HIDE DEF built
      <4>2. QED
        BY <3>1, <4>1
    <3>3. QED
      BY <2>1, <3>1, <3>2 DEF NoFiles
  <2>4. cfg.image \in { "none", "bios", "efi", "foreign", "half efi", "blank" } /\ ImageIs(cfg.image)
    BY CommandFacts DEF Init
  <2>5. tree \in { NoFiles, BuiltTree("bios"), BuiltTree("efi"), ForeignTree }
    BY <2>4 DEF ImageIs
  <2>6. QED
    BY <2>2, <2>3, <2>5
<1>2. NothingOnHost /\ TypeOK /\ FlowInv /\ MountedInv /\ [Next]_vars => NothingOnHost'
  <2> SUFFICES ASSUME NothingOnHost, TreeOK, FlowInv, MountedInv, [Next]_vars
               PROVE  NothingOnHost'
    BY DEF TypeOK, TreeOK
  <2>1. CASE Others
    <3>1. signals' = 0 => signals = 0
      BY <2>1, OthersUnmount DEF FlowInv
    <3>2. tree'["host"] \subseteq tree["host"]
      BY <2>1, OthersWrite
    <3>3. QED
      BY <3>1, <3>2 DEF NothingOnHost
  <2>2. CASE UNCHANGED vars
    BY <2>2 DEF NothingOnHost, vars, sigVars, imageVars
  <2>3. QED
    BY <2>1, <2>2, MainSparesHost DEF Next, Others
<1>3. QED
  BY <1>1, <1>2, TypeCorrect, FlowCorrect, MountsInOrder, PTL DEF Spec

\* When os.RemoveAll reaches into a partition, its umount was tried and failed,
\* or was not registered when the signal came.
LEMMA RemovedLast ==
  ASSUME FlowInv, OrderInv, HeldInv, Stack!StackInv, NEW g \in { "main", "handler" },
         RunCallback(g), ~(tree' = tree), NEW p \in mounted
  PROVE  Lost(p)
<1>1. PICK n \in 1 .. Len(order) :
        /\ order[n] \in Callback /\ Call(order[n])
        /\ \A d \in Callback : runs'[d] # runs[d] <=> d = order[n]
  BY RunOne
<1>2. order[n] = "remove"
  BY <1>1 DEF Call, detachImage, umount, imageVars
<1>3. "remove" \in Callback /\ ~(runs'["remove"] = runs["remove"])
  BY <1>1, <1>2
<1>4. p \in Inside("remove")
  <2>1. Inside("remove") = Partition
    BY DEF Inside
  <2>2. QED
    BY <2>1 DEF HeldInv
<1>5. QED
  BY <1>3, <1>4, InnerOnesTried

\* What a partition holds while it is mounted only grows, unless its umount
\* failed, or was not registered when a signal came (image.go:247-260): main
\* formats before it mounts, and whichever goroutine removes the directory does
\* so after the umounts.
THEOREM MountedContentsSurvive == Spec => ContentsSurvive
<1> DEFINE Survive ==
      \A p \in mounted : ~Lost(p) => tree[p] \subseteq tree'[p]
<1>1. TypeOK /\ FlowInv /\ OrderInv /\ HeldInv /\ MountedInv /\ Stack!StackInv /\ [Next]_vars
        => [Survive]_vars
  <2> SUFFICES ASSUME TypeOK, FlowInv, OrderInv, HeldInv, MountedInv, Stack!StackInv, Next,
                      NEW p \in mounted, ~Lost(p)
               PROVE  tree[p] \subseteq tree'[p]
    OBVIOUS
  <2>1. TreeOK /\ p \in Partition \union { "host" }
    BY DEF TypeOK, TreeOK, HeldInv
  <2>2. CASE Main
    <3>1. Here \notin { "createImage", "partition" }
      BY DEF MountedInv, Unmounted, Connecting, Preparing
    <3>2. QED
      BY <2>1, <2>2, <3>1, MainWrites
  <2>3. CASE Others
    <3>1. CASE \E g \in { "main", "handler" } : RunCallback(g)
      BY <3>1, RemovedLast
    <3>2. CASE ~\E g \in { "main", "handler" } : RunCallback(g)
      BY <2>3, <3>2, OthersUnmount
    <3>3. QED
      BY <3>1, <3>2
  <2>4. QED
    BY <2>2, <2>3 DEF Next, Others
<1>2. QED
  BY <1>1, TypeCorrect, FlowCorrect, RegisteredInOrder, EverythingIsHeld, MountsInOrder,
     CallbacksRunOnce, PTL DEF Spec, ContentsSurvive

-----------------------------------------------------------------------------
(* A build is complete *)

\* The tree steps of a build in their order.
Rank == [installRepoKeys |-> 1, bootstrap |-> 2, reconfigure |-> 3, configureBashPrompt |-> 4,
         configureShutdownAliases |-> 5, writeFstab |-> 6, installBinaries |-> 7,
         enableSSHService |-> 8, grubInstall |-> 9, setGrubFastboot |-> 10, grubMkconfig |-> 11]

\* Main is past step t.
Passed(t) == Here \in Leaving \union { "ended" } \/ (Here \in TreeStep /\ Rank[t] < Rank[Here])

\* A run that went well up to here: what the steps behind main made is there.
GoneWell == cfg.mode = "build" /\ ~err /\ signals = 0 /\ failed = { }

MadeInv ==
  /\ exit = "success" => ~err
  /\ GoneWell =>
       \A t \in TreeStep \ { "setGrubFastboot" } : Passed(t) =>
         \A pr \in TreeSteps[t].makes : pr[1] \in PartitionsOf(layout) => pr[2] \in tree[pr[1]]

\* The places of the steps.
LEMMA RankTable ==
  /\ Rank["installRepoKeys"] = 1 /\ Rank["bootstrap"] = 2 /\ Rank["reconfigure"] = 3
  /\ Rank["configureBashPrompt"] = 4 /\ Rank["configureShutdownAliases"] = 5
  /\ Rank["writeFstab"] = 6 /\ Rank["installBinaries"] = 7 /\ Rank["enableSSHService"] = 8
  /\ Rank["grubInstall"] = 9 /\ Rank["setGrubFastboot"] = 10 /\ Rank["grubMkconfig"] = 11
BY DEF Rank

\* A tree step that succeeds leaves only itself behind in addition.
LEMMA PassedGrows ==
  ASSUME NEW c, c.mode = "build", NEW l, NEW s \in TreeStep,
         NEW t \in TreeStep \ { "setGrubFastboot" },
         \/ After(c, l)[s] \in TreeStep /\ Rank[t] < Rank[After(c, l)[s]]
         \/ After(c, l)[s] = "signalStop"
  PROVE  t = s \/ Rank[t] < Rank[s]
<1>1. /\ Rank[t] \in Nat /\ Rank[s] \in Nat
      /\ Rank[t] = Rank[s] => t = s
      /\ Rank[t] <= 11 /\ Rank[t] # 10
  BY TreeStepNames, RankTable
<1>2. CASE After(c, l)[s] = "signalStop"
  <2>1. s = "grubMkconfig"
    BY <1>2, TreeStepNames DEF After
  <2>2. Rank[s] = 11
    BY <2>1, RankTable
  <2>3. QED
    BY <1>1, <2>2
<1>3. CASE After(c, l)[s] \in TreeStep /\ Rank[t] < Rank[After(c, l)[s]]
  <2>1. \/ s = "grubInstall" /\ After(c, l)[s] = "grubMkconfig"
        \/ Rank[After(c, l)[s]] = Rank[s] + 1
    <3>1. s \in { "installRepoKeys", "bootstrap", "reconfigure", "configureBashPrompt",
                  "configureShutdownAliases", "writeFstab", "installBinaries" }
            => Rank[After(c, l)[s]] = Rank[s] + 1
      BY RankTable DEF After
    <3>2. s \in { "enableSSHService", "setGrubFastboot" } => Rank[After(c, l)[s]] = Rank[s] + 1
      BY <1>3, RankTable DEF After
    <3>3. s = "grubInstall" => After(c, l)[s] = "grubMkconfig" \/ Rank[After(c, l)[s]] = Rank[s] + 1
      BY RankTable DEF After
    <3>4. s # "grubMkconfig"
      BY <1>3, TreeStepNames DEF After
    <3>5. QED
      BY <3>1, <3>2, <3>3, <3>4, TreeStepNames
  <2>2. CASE s = "grubInstall" /\ After(c, l)[s] = "grubMkconfig"
    <3>1. Rank[s] = 9 /\ Rank[After(c, l)[s]] = 11
      BY <2>2, RankTable
    <3>2. QED
      BY <1>1, <1>3, <3>1
  <2>3. CASE Rank[After(c, l)[s]] = Rank[s] + 1
    BY <1>1, <1>3, <2>3
  <2>4. QED
    BY <2>1, <2>2, <2>3
<1>4. QED
  BY <1>2, <1>3

\* A build begins its work in the tree with the keys, when everything is mounted.
LEMMA StartsWithKeys ==
  ASSUME NEW c, c.mode = "build", NEW l, NEW s \in Working \ TreeStep,
         After(c, l)[s] \in TreeStep \union Leaving \union { "ended" }
  PROVE  After(c, l)[s] = "installRepoKeys"
<1>1. After(c, l)[s] \in TreeStep
  BY WorkLeadsTo, KindsDiffer, TreeStepNames DEF Working, Connecting, Preparing, RootSteps, BootSteps,
     EfiSteps, Leaving
<1>2. CASE s \in Connecting \union Preparing
  BY <1>1, <1>2, TreeStepNames DEF After, Connecting, Preparing
<1>3. CASE s \in RootSteps \union BootSteps \union EfiSteps
  BY <1>1, <1>3, TreeStepNames DEF After, RootSteps, BootSteps, EfiSteps
<1>4. QED
  BY <1>2, <1>3 DEF Working

\* Main makes what it is to make, each step on the partition it is for.
LEMMA MainMakes ==
  ASSUME TreeOK, FlowInv, MountedInv, MadeInv, cfg \in Command, Main
  PROVE  MadeInv'
<1>1. exit' = "success" => ~err'
  <2>1. exit = "no"
    BY WhichStep
  <2>2. CASE Here = "exit"
    <3>1. Exit
      BY <2>2, WhichStep, TreeStepNames DEF PushName
    <3>2. QED
      BY <3>1 DEF Exit
  <2>3. CASE Here # "exit"
    BY <2>1, <2>3, MainMoves DEF Ok, Err, At, Here
  <2>4. QED
    BY <2>2, <2>3
<1>2. SUFFICES ASSUME GoneWell', NEW t \in TreeStep \ { "setGrubFastboot" }, Passed(t)',
                      NEW pr \in TreeSteps[t].makes, pr[1] \in PartitionsOf(layout')
               PROVE  pr[2] \in tree'[pr[1]]
  BY <1>1 DEF MadeInv
<1>3. ~Err
  BY <1>2 DEF Err, GoneWell
<1>4. cfg' = cfg /\ (~err' => ~err) /\ signals' = signals
  <2>1. signals' = signals
    BY MainMoves
  <2>2. cfg' = cfg
    BY MainMoves DEF Ok, Err
  <2>3. err' = err \/ err' = TRUE
    BY MainMoves DEF Ok, Err
  <2>4. ~err' => ~err
    BY <2>3
  <2>5. QED
    BY <2>1, <2>2, <2>4
<1>5. GoneWell
  BY <1>2, <1>4, MainAcquires DEF GoneWell
<1>6. ASSUME Passed(t), layout' = layout PROVE pr[2] \in tree[pr[1]]
  BY <1>2, <1>5, <1>6 DEF MadeInv
<1>7. pr[1] \in Partition
  BY <1>2 DEF PartitionsOf, Partition
<1>8. Here' \in TreeStep \union Leaving \union { "ended" }
  BY <1>2 DEF Passed
<1>9. CASE Here \in TreeStep
  <2>1. Here \in StepName \ { "detectLayout", "exit" }
    BY <1>9, TreeStepNames DEF StepName, Working
  <2>2. Here' = After(cfg, layout)[Here] /\ layout' = layout
    BY <1>3, <1>9, <2>1, WhereTo, TreeStepNames
  <2>3. Here' \in TreeStep \/ Here' = "signalStop"
    BY <1>9, <2>2, WorkLeadsTo DEF Working
  <2>4. \/ After(cfg, layout)[Here] \in TreeStep /\ Rank[t] < Rank[After(cfg, layout)[Here]]
        \/ After(cfg, layout)[Here] = "signalStop"
    <3>1. Here' \in TreeStep => Here' \notin Leaving \union { "ended" }
      BY MountKindsDiffer
    <3>2. Here' \in TreeStep => Rank[t] < Rank[Here']
      BY <1>2, <3>1 DEF Passed
    <3>3. QED
      BY <2>2, <2>3, <3>2
  <2>5. t = Here \/ Rank[t] < Rank[Here]
    BY <1>5, <1>9, <2>4, PassedGrows DEF GoneWell
  <2>6. tree'[pr[1]] = tree[pr[1]] \union MadeIn(Here, pr[1])
    BY <1>3, <1>7, <1>9, MainWrites
  <2>7. CASE t = Here
    <3>1. mounted = PartitionsOf(layout) /\ pr[1] \in PartitionsOf(layout)
      BY <1>2, <1>5, <1>9, <2>2 DEF MountedInv, GoneWell
    <3>2. Where(pr[1]) = pr[1]
      BY <3>1 DEF Where, PartitionsOf, Partition
    <3>3. pr[2] \in MadeIn(Here, pr[1])
      BY <2>7, <3>1, <3>2 DEF MadeIn
    <3>4. QED
      BY <2>6, <3>3
  <2>8. CASE t # Here
    <3>1. Passed(t)
      BY <1>9, <2>5, <2>8 DEF Passed
    <3>2. QED
      BY <1>6, <2>2, <2>6, <3>1
  <2>9. QED
    BY <2>7, <2>8
<1>10. CASE Here \in Leaving
  <2>1. Passed(t)
    BY <1>10 DEF Passed
  <2>2. tree' = tree
    BY <1>10, MainWrites, TreeStepNames DEF Leaving
  <2>3. layout' = layout
    BY <1>10, WhereTo DEF Leaving
  <2>4. QED
    BY <1>6, <2>1, <2>2, <2>3
<1>11. CASE Here \in Working \ TreeStep
  <2>1. Here # "exit"
    BY <1>11, KindsDiffer DEF Working, Leaving
  <2>2. Here # "detectLayout"
    <3>1. "mkdirTemp" \notin TreeStep \union Leaving \union { "ended" }
      BY TreeStepNames DEF Leaving
    <3>2. Here = "detectLayout" => Here' = "mkdirTemp"
      BY <1>3, WhereTo
    <3>3. QED
      BY <1>8, <3>1, <3>2
  <2>3. Here' = After(cfg, layout)[Here]
    BY <1>3, <2>1, <2>2, WhereTo
  <2>4. Here' = "installRepoKeys"
    BY <1>5, <1>8, <1>11, <2>3, StartsWithKeys DEF GoneWell
  <2>5. Rank[t] < 1
    <3>1. Here' \notin Leaving \union { "ended" }
      BY <2>4 DEF Leaving
    <3>2. Rank[t] < Rank[Here']
      BY <1>2, <3>1 DEF Passed
    <3>3. QED
      BY <2>4, <3>2, RankTable
  <2>6. Rank[t] >= 1 /\ Rank[t] \in Nat
    BY TreeStepNames, RankTable
  <2>7. QED
    BY <2>5, <2>6
<1>12. Here \in StepName
  <2>1. "detectLayout" \in StepName /\ "exit" \in StepName
    BY DEF StepName, Working, Preparing, Leaving
  <2>2. Here \in Working => Here \in StepName
    BY DEF StepName
  <2>3. QED
    BY <2>1, <2>2, WhereTo
<1>13. QED
  BY <1>9, <1>10, <1>11, <1>12 DEF StepName

\* The others take away no product from a run that goes well.
LEMMA OthersSpare ==
  ASSUME TreeOK, FlowInv, MadeInv, Others
  PROVE  MadeInv'
<1>1. UNCHANGED << cfg, layout, err >> /\ Here' = Here
  BY OthersElsewhere
<1>2. exit' = "success" => ~err'
  <2>1. exit' = exit \/ exit' \in { "interrupted", "killed" }
    BY DEF Others, RunCallback, Mutex, Receive, HandlerExit, Interrupt, Kernel, Terminated, vars
  <2>2. QED
    BY <1>1, <2>1 DEF MadeInv
<1>3. SUFFICES ASSUME GoneWell' PROVE GoneWell /\ \A p \in Partition : tree'[p] = tree[p]
  <2>1. PartitionsOf(layout) \subseteq Partition
    BY DEF PartitionsOf, Partition
  <2>2. ASSUME GoneWell', NEW t \in TreeStep \ { "setGrubFastboot" }, Passed(t)',
               NEW pr \in TreeSteps[t].makes, pr[1] \in PartitionsOf(layout')
        PROVE  pr[2] \in tree'[pr[1]]
    <3>1. Passed(t)
      BY <1>1, <2>2 DEF Passed
    <3>2. GoneWell /\ tree'[pr[1]] = tree[pr[1]]
      BY <1>1, <1>3, <2>1, <2>2
    <3>3. QED
      BY <1>1, <2>2, <3>1, <3>2 DEF MadeInv
  <2>3. QED
    BY <1>2, <2>2 DEF MadeInv
<1>4. signals = 0
  BY <1>3, OthersUnmount DEF GoneWell, FlowInv
<1>5. CASE \E g \in { "main", "handler" } : RunCallback(g)
  <2>1. PICK c : Call(c)
    BY <1>5 DEF RunCallback
  <2>2. CASE removeAll
    <3>1. mounted = { } /\ failed = { }
      BY <1>3, <2>2 DEF removeAll, GoneWell
    <3>2. QED
      BY <1>1, <1>3, <1>4, <3>1, OthersWrite DEF GoneWell
  <2>3. CASE detachImage \/ \E p \in Partition : umount(p)
    <3>1. failed \subseteq failed' /\ tree' = tree
      BY <2>3 DEF detachImage, umount, imageVars
    <3>2. QED
      BY <1>1, <1>3, <1>4, <3>1 DEF GoneWell
  <2>4. QED
    BY <2>1, <2>2, <2>3 DEF Call
<1>6. CASE ~\E g \in { "main", "handler" } : RunCallback(g)
  <2>1. UNCHANGED << failed, tree >>
    BY <1>6, OthersUnmount
  <2>2. QED
    BY <1>1, <1>3, <1>4, <2>1 DEF GoneWell
<1>7. QED
  BY <1>5, <1>6

\* A build that no signal disturbed, that reports success and logged no failure
\* of its cleanup, has produced an image that boots (README, "void-initfs"): at
\* each step of main, all that the steps behind it make is on its partition.
THEOREM BuildIsComplete == Spec => []CompleteIfAllReleased
<1>1. Init => MadeInv
  <2> SUFFICES ASSUME Init PROVE MadeInv
    OBVIOUS
  <2>1. Here = "preflight" /\ exit = "no"
    BY InitHere DEF Init
  <2>2. ASSUME NEW t PROVE ~Passed(t)
    BY <2>1, TreeStepNames DEF Passed, Leaving
  <2>3. QED
    BY <2>1, <2>2 DEF MadeInv
<1>2. MadeInv /\ TypeOK /\ FlowInv /\ MountedInv /\ cfg \in Command /\ [Next]_vars => MadeInv'
  <2> SUFFICES ASSUME MadeInv, TreeOK, FlowInv, MountedInv, cfg \in Command, [Next]_vars
               PROVE  MadeInv'
    BY DEF TypeOK, TreeOK
  <2>1. CASE UNCHANGED vars
    <3>1. UNCHANGED << cfg, layout, todo, err, exit, signals, failed, tree >>
      BY <2>1 DEF vars, ctlVars, sigVars, imageVars, hostVars
    <3>2. Here' = Here /\ (GoneWell' <=> GoneWell)
      BY <3>1 DEF Here, GoneWell
    <3>3. \A t : Passed(t)' <=> Passed(t)
      BY <3>2 DEF Passed
    <3>4. QED
      BY <3>1, <3>2, <3>3 DEF MadeInv
  <2>2. QED
    BY <2>1, MainMakes, OthersSpare DEF Next, Others
<1>3. MadeInv /\ FlowInv => CompleteIfAllReleased
  <2> SUFFICES ASSUME MadeInv, FlowInv, exit = "success", cfg.mode = "build", failed = { },
                      signals = 0, NEW pr \in ProductsOf(TreeStep \ { "setGrubFastboot" }),
                      pr[1] \in PartitionsOf(layout)
               PROVE  pr[2] \in tree[pr[1]]
    BY DEF CompleteIfAllReleased, Complete
  <2>1. Here = "ended"
    BY DEF FlowInv, Here
  <2>2. GoneWell
    BY DEF MadeInv, GoneWell
  <2>3. PICK t \in TreeStep \ { "setGrubFastboot" } : pr \in TreeSteps[t].makes
    BY DEF ProductsOf
  <2>4. Passed(t)
    BY <2>1 DEF Passed
  <2>5. QED
    BY <2>2, <2>3, <2>4 DEF MadeInv
<1>4. QED
  BY <1>1, <1>2, <1>3, TypeCorrect, FlowCorrect, MountsInOrder, PTL DEF Spec
=============================================================================
