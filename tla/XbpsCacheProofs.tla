-------------------------- MODULE XbpsCacheProofs --------------------------
(***************************************************************************)
(* What holds of ensureXbps for every sequence of tools, all archives, and *)
(* any number of runs and interruptions, and what a run leaves when it     *)
(* ends.                                                                   *)
(***************************************************************************)
EXTENDS XbpsCache, TLAPS

-----------------------------------------------------------------------------
(* The inductive invariant *)

\* Digests are listed after their archive is served.
ListedWasServed == listed \subseteq 1 .. served

\* From the verification on, the archive is one that is listed.
Trusting ==
  { "extract", "tool", "tool data", "key directory", "clear", "key", "key data", "look" }

GotListed == pc \in Trusting => got \in listed

\* Up to the extraction the run has changed nothing, and the keys are left
\* alone until they are cleared.
Preparing == { "confirm", "tar", "sums", "temp", "tarball", "verify", "extract" }

TouchedLate ==
  /\ pc \in Preparing => touched = {}
  /\ pc \in { "tool", "tool data", "key directory" } => "keys" \notin touched

Run == \E u, y, p \in BOOLEAN : ensureXbps(u, y, p)

Action == Run \/ confirm \/ downloadSums \/ downloadTarball \/ Step \/ Interrupt \/ Server

-----------------------------------------------------------------------------
(* Types *)

\* The first run finds an empty cache, and one archive that is listed.
LEMMA InitTypes == Init => TypeOK /\ ListedWasServed
<1> SUFFICES ASSUME Init PROVE TypeOK /\ ListedWasServed
  OBVIOUS
<1>1. ListedWasServed
  BY DEF Init, ListedWasServed
<1>2. bin \in [Tool -> Content] /\ keys \in [Key -> Content]
  BY DEF Init, None, Content, Bytes
<1>3. FilesOK
  BY <1>2, LatestAssumption, HostsAssumption DEF Init, FilesOK, Archive, Bytes
<1>4. FlagsOK
  BY DEF Init, FlagsOK
<1>5. ControlOK
  BY BoundsAssumption DEF Init, ControlOK, Place, Result
<1>6. QED
  BY <1>1, <1>3, <1>4, <1>5 DEF TypeOK

\* A step of the program or of the environment keeps the server's and the
\* files' types: it copies out of the archive it has, or deletes.
LEMMA FileTypes ==
  ASSUME TypeOK, ListedWasServed, Action
  PROVE  FilesOK' /\ ListedWasServed'
<1> USE DEF TypeOK, FilesOK, ListedWasServed
<1>1. /\ \A a \in Bytes : Part(a) \in Content /\ Whole(a) \in Content
      /\ None \in Content
  BY DEF Part, Whole, None, Content, Bytes
<1>2. CASE Run
  BY <1>2 DEF Run, ensureXbps, serverVars, cacheVars, Bytes
<1>3. CASE confirm \/ lookupTar \/ createTemp \/ downloadFails
  BY <1>3 DEF confirm, lookupTar, createTemp, downloadFails, Unchanged, serverVars, cacheVars
<1>4. CASE downloadSums \/ verifyChecksum \/ extract
  BY <1>4 DEF downloadSums, verifyChecksum, extract, Unchanged, serverVars, cacheVars
<1>5. CASE downloadTarball
  BY <1>5 DEF downloadTarball, Unchanged, serverVars, cacheVars, Bytes
<1>6. CASE openTool
  BY <1>1, <1>6 DEF openTool, Unchanged, serverVars
<1>7. CASE copyTool
  BY <1>1, <1>7 DEF copyTool, Unchanged, serverVars
<1>8. CASE readKeys \/ lookAgain
  BY <1>8 DEF readKeys, lookAgain, Unchanged, serverVars, cacheVars
<1>9. CASE clearKeys
  BY <1>1, <1>9 DEF clearKeys, Unchanged, serverVars
<1>10. CASE openKey
  BY <1>1, <1>10 DEF openKey, Unchanged, serverVars
<1>11. CASE copyKey
  BY <1>1, <1>11 DEF copyKey, Unchanged, serverVars
<1>12. CASE Interrupt
  BY <1>12 DEF Interrupt, serverVars, cacheVars
<1>13. CASE Server
  <2>1. /\ served \in Nat /\ served <= Latest
        /\ 1 .. served \subseteq 1 .. (served + 1) /\ 1 .. served \subseteq 1 .. Latest
    BY LatestAssumption DEF Archive
  <2>2. UNCHANGED << host, cacheVars, sums, got >>
    BY <1>13 DEF Server
  <2>3. CASE served < Latest /\ served' = served + 1 /\ UNCHANGED listed
    <3>1. served' \in Archive /\ listed' \subseteq 1 .. served'
      BY <2>1, <2>3, LatestAssumption DEF Archive
    <3>2. QED
      BY <2>2, <2>3, <3>1 DEF cacheVars
  <2>4. CASE listed' = 1 .. served /\ UNCHANGED served
    BY <2>1, <2>2, <2>4 DEF cacheVars, Archive
  <2>5. QED
    BY <1>13, <2>3, <2>4 DEF Server, Publish
<1>14. QED
  BY <1>2, <1>3, <1>4, <1>5, <1>6, <1>7, <1>8, <1>9, <1>10, <1>11, <1>12, <1>13
  DEF Action, Step

\* Flags are only ever set to truth values.
LEMMA FlagTypes ==
  ASSUME TypeOK, Action, History
  PROVE  FlagsOK'
<1> USE DEF TypeOK, FlagsOK
<1>1. cut' \in BOOLEAN
  BY DEF History
<1>2. \A u, p \in BOOLEAN : renew(u, p)[1] \in BOOLEAN /\ renew(u, p)[2] \in BOOLEAN
  BY DEF renew
<1>3. CASE Run
  BY <1>1, <1>2, <1>3 DEF Run, ensureXbps, Return
<1>4. CASE confirm \/ downloadSums \/ downloadTarball
  BY <1>1, <1>4 DEF confirm, downloadSums, downloadTarball, Goto, Return, Unchanged, flagVars, needVars
<1>5. CASE Step
  BY <1>1, <1>5 DEF Step, lookupTar, createTemp, downloadFails, verifyChecksum, extract, openTool,
     copyTool, readKeys, clearKeys, openKey, copyKey, lookAgain, Goto, Return, ReturnAmid,
     Unchanged, flagVars, needVars
<1>6. CASE Interrupt \/ Server
  BY <1>1, <1>6 DEF Interrupt, Server, Return, flagVars, needVars
<1>7. QED
  BY <1>3, <1>4, <1>5, <1>6 DEF Action

\* Where a run is, how it ended, and the indices of its loops.
LEMMA ControlTypes ==
  ASSUME TypeOK, Action, History
  PROVE  ControlOK'
<1>1. /\ n \in Nat \ { 0 } /\ (n # 1 => pc \in Looping)
      /\ pc \in Place /\ result \in Result
      /\ tmp \subseteq { "tarball", "extract" } /\ touched \subseteq { "bin", "keys" }
      /\ runs \in 0 .. MaxRuns /\ cuts \in 0 .. MaxCuts
  BY DEF TypeOK, ControlOK
<1>2. n + 1 \in Nat \ { 0 }
  BY <1>1
<1>3. touched' \subseteq { "bin", "keys" }
  BY <1>1 DEF History
<1>4. runs' \in 0 .. MaxRuns /\ cuts' \in 0 .. MaxCuts
  <2>1. CASE Run
    BY <1>1, <2>1, BoundsAssumption DEF Run, ensureXbps
  <2>2. CASE Interrupt
    BY <1>1, <2>2, BoundsAssumption DEF Interrupt
  <2>3. CASE UNCHANGED boundVars
    BY <1>1, <2>3 DEF boundVars
  <2>4. QED
    BY <2>1, <2>2, <2>3 DEF Action, Step, confirm, downloadSums, downloadTarball, lookupTar,
       createTemp, downloadFails, verifyChecksum, extract, openTool, copyTool, readKeys,
       clearKeys, openKey, copyKey, lookAgain, Server, Unchanged
<1>5. tmp' \subseteq { "tarball", "extract" }
  BY <1>1 DEF Action, Step, Run, ensureXbps, confirm, downloadSums, downloadTarball, lookupTar,
     createTemp, downloadFails, verifyChecksum, extract, openTool, copyTool, readKeys, clearKeys,
     openKey, copyKey, lookAgain, ReturnAmid, Interrupt, Server
<1>6. \/ UNCHANGED << pc, n, result >>
      \/ pc' \in Place /\ n' = 1 /\ result' \in Result
      \/ pc' \in Looping /\ n' \in { n, n + 1 } /\ result' = result
  <2>1. CASE Run
    BY <1>1, <2>1 DEF Run, ensureXbps, Return, Place, Looping, Result
  <2>2. CASE confirm \/ downloadSums \/ downloadTarball
    BY <1>1, <2>2 DEF confirm, downloadSums, downloadTarball, Goto, Return, Place, Result
  <2>3. CASE lookupTar \/ createTemp \/ downloadFails \/ verifyChecksum \/ extract
    BY <1>1, <2>3 DEF lookupTar, createTemp, downloadFails, verifyChecksum, extract, Install,
       Goto, Return, Place, Looping, Result
  <2>4. CASE openTool
    BY <1>1, <2>4 DEF openTool, Goto, Return, ReturnAmid, Place, Looping, Result
  <2>5. CASE copyTool
    BY <1>1, <2>5 DEF copyTool, Return, ReturnAmid, Place, Looping, Result
  <2>6. CASE readKeys \/ clearKeys
    BY <1>1, <2>6 DEF readKeys, clearKeys, Goto, Return, ReturnAmid, Place, Looping, Result
  <2>7. CASE openKey \/ copyKey
    BY <1>1, <2>7 DEF openKey, copyKey, Goto, Return, ReturnAmid, Place, Looping, Result
  <2>8. CASE lookAgain
    BY <1>1, <2>8 DEF lookAgain, Return, ReturnAmid, Place, Result
  <2>9. CASE Interrupt \/ Server
    BY <1>1, <2>9 DEF Interrupt, Server, Return, Place, Result
  <2>10. QED
    BY <2>1, <2>2, <2>3, <2>4, <2>5, <2>6, <2>7, <2>8, <2>9 DEF Action, Step
<1>7. QED
  <2>1. Looping \subseteq Place
    BY DEF Place
  <2>2. QED
    BY <1>1, <1>2, <1>3, <1>4, <1>5, <1>6, <2>1 DEF ControlOK

\* The type invariant holds in every reachable state, and a digest is listed
\* only after its archive was served.
THEOREM TypeCorrect == Spec => [](TypeOK /\ ListedWasServed)
<1>1. TypeOK /\ ListedWasServed /\ [Next]_vars => (TypeOK /\ ListedWasServed)'
  <2> SUFFICES ASSUME TypeOK, ListedWasServed, [Next]_vars
               PROVE  (TypeOK /\ ListedWasServed)'
    OBVIOUS
  <2>1. CASE Next
    <3>1. Action /\ History
      BY <2>1 DEF Next, Action, Run
    <3>2. QED
      BY <3>1, FileTypes, FlagTypes, ControlTypes DEF TypeOK
  <2>2. CASE UNCHANGED vars
    BY <2>2 DEF vars, serverVars, cacheVars, flagVars, needVars, historyVars, boundVars,
       TypeOK, FilesOK, FlagsOK, ControlOK, ListedWasServed
  <2>3. QED
    BY <2>1, <2>2
<1>2. QED
  BY InitTypes, <1>1, PTL DEF Spec

-----------------------------------------------------------------------------
(* Only what was verified is installed *)

\* What a list of digests holds, it holds from then on.
LEMMA ListedGrows ==
  ASSUME ListedWasServed, Action
  PROVE  listed \subseteq listed'
BY DEF ListedWasServed, Action, Step, Run, ensureXbps, confirm, downloadSums, downloadTarball,
   lookupTar, createTemp, downloadFails, verifyChecksum, extract, openTool, copyTool, readKeys,
   clearKeys, openKey, copyKey, lookAgain, Interrupt, Server, Publish, Unchanged, serverVars

\* The run gets past the verification with a listed archive only, and keeps
\* it until its end.
LEMMA TrustIsEarned ==
  ASSUME TypeOK, ListedWasServed, GotListed, Action
  PROVE  GotListed'
<1>1. listed \subseteq listed'
  BY ListedGrows
<1>2. sums \subseteq listed
  BY DEF TypeOK, FilesOK
<1>3. CASE Run
  BY <1>3 DEF Run, ensureXbps, Return, GotListed, Trusting
<1>4. CASE confirm \/ downloadSums \/ downloadTarball
  BY <1>4 DEF confirm, downloadSums, downloadTarball, Goto, Return, GotListed, Trusting
<1>5. CASE lookupTar \/ createTemp \/ downloadFails
  BY <1>5 DEF lookupTar, createTemp, downloadFails, Goto, Return, GotListed, Trusting
<1>6. CASE verifyChecksum
  BY <1>1, <1>2, <1>6 DEF verifyChecksum, Goto, Return, GotListed, Trusting
<1>7. CASE \/ extract \/ openTool \/ copyTool \/ readKeys \/ clearKeys \/ openKey \/ copyKey
           \/ lookAgain
  <2>1. pc \in Trusting /\ got' = got
    BY <1>7 DEF extract, openTool, copyTool, readKeys, clearKeys, openKey, copyKey, lookAgain, Trusting
  <2>2. QED
    BY <1>1, <2>1 DEF GotListed
<1>8. CASE Interrupt
  BY <1>8 DEF Interrupt, Return, GotListed, Trusting
<1>9. CASE Server
  BY <1>1, <1>9 DEF Server, GotListed
<1>10. QED
  BY <1>3, <1>4, <1>5, <1>6, <1>7, <1>8, <1>9 DEF Action, Step

\* The file is not there, or is out of a listed archive.
FromListed(c) == c = None \/ c.of \in listed

\* What is installed or cached is verified if each single file is.
LEMMA VerifiedFiles ==
  OnlyVerifiedInstalled
    <=> (\A t \in Tool : FromListed(bin[t])) /\ (\A k \in Key : FromListed(keys[k]))
BY DEF OnlyVerifiedInstalled, FromListed

\* A copy writes bytes of the archive that the run has; nothing else makes files.
LEMMA CopiesAreListed ==
  ASSUME TypeOK, ListedWasServed, GotListed, OnlyVerifiedInstalled, Action
  PROVE  OnlyVerifiedInstalled'
<1>1. listed \subseteq listed'
  BY ListedGrows
<1>2. /\ bin \in [Tool -> Content] /\ keys \in [Key -> Content]
  BY DEF TypeOK, FilesOK
<1>3. /\ \A t \in Tool : FromListed(bin[t])
      /\ \A k \in Key : FromListed(keys[k])
  BY VerifiedFiles
<1>4. /\ \A t \in Tool : bin'[t] \in { bin[t], Part(got), Whole(got) }
      /\ bin' # bin => pc \in Trusting
  BY <1>2 DEF Action, Step, Run, ensureXbps, confirm, downloadSums, downloadTarball, lookupTar,
     createTemp, downloadFails, verifyChecksum, extract, openTool, copyTool, readKeys, clearKeys,
     openKey, copyKey, lookAgain, Interrupt, Server, cacheVars, Trusting
<1>5. /\ \A k \in Key : keys'[k] \in { keys[k], None, Part(got), Whole(got) }
      /\ keys' # keys => pc \in Trusting
  BY <1>2 DEF Action, Step, Run, ensureXbps, confirm, downloadSums, downloadTarball, lookupTar,
     createTemp, downloadFails, verifyChecksum, extract, openTool, copyTool, readKeys, clearKeys,
     openKey, copyKey, lookAgain, Interrupt, Server, cacheVars, Trusting
<1>6. Part(got).of = got /\ Whole(got).of = got
  BY DEF Part, Whole
<1>7. \A t \in Tool : bin'[t] = None \/ bin'[t].of \in listed'
  BY <1>1, <1>3, <1>4, <1>6 DEF GotListed, FromListed
<1>8. \A k \in Key : keys'[k] = None \/ keys'[k].of \in listed'
  BY <1>1, <1>3, <1>5, <1>6 DEF GotListed, FromListed
<1>9. QED
  BY <1>7, <1>8 DEF OnlyVerifiedInstalled

\* Whatever is installed or cached, at any moment of any number of runs, is out
\* of an archive whose digest the server has listed, and so is what a run has
\* got hold of once it goes on to unpack it.
THEOREM InstalledWasVerified == Spec => [](GotListed /\ OnlyVerifiedInstalled)
<1>1. Init => GotListed /\ OnlyVerifiedInstalled
  BY DEF Init, GotListed, Trusting, OnlyVerifiedInstalled
<1>2. TypeOK /\ ListedWasServed /\ GotListed /\ OnlyVerifiedInstalled /\ [Next]_vars
        => (GotListed /\ OnlyVerifiedInstalled)'
  <2> SUFFICES ASSUME TypeOK, ListedWasServed, GotListed, OnlyVerifiedInstalled, [Next]_vars
               PROVE  (GotListed /\ OnlyVerifiedInstalled)'
    OBVIOUS
  <2>1. CASE Next
    <3>1. Action
      BY <2>1 DEF Next, Action, Run
    <3>2. QED
      BY <3>1, TrustIsEarned, CopiesAreListed
  <2>2. CASE UNCHANGED vars
    BY <2>2 DEF vars, serverVars, cacheVars, GotListed, OnlyVerifiedInstalled
  <2>3. QED
    BY <2>1, <2>2
<1>3. QED
  BY <1>1, <1>2, TypeCorrect, PTL DEF Spec

-----------------------------------------------------------------------------
(* A run that fails early changes nothing *)

\* What the history variable records in a step of a run, and at its start.
LEMMA TouchedBy ==
  ASSUME TypeOK, Action, History
  PROVE  /\ Run => touched' = {}
         /\ ~Run /\ UNCHANGED cacheVars => touched' = touched
         /\ ~Run /\ UNCHANGED keys /\ "keys" \notin touched => "keys" \notin touched'
<1>1. Run => runs' # runs
  <2>1. runs \in Nat
    BY BoundsAssumption DEF TypeOK, ControlOK
  <2>2. QED
    BY <2>1 DEF Run, ensureXbps
<1>2. ~Run => runs' = runs
  BY DEF Action, Step, confirm, downloadSums, downloadTarball, lookupTar, createTemp,
     downloadFails, verifyChecksum, extract, openTool, copyTool, readKeys, clearKeys, openKey,
     copyKey, lookAgain, Interrupt, Server, Unchanged, boundVars
<1>3. ~Run => touched' = touched \union (IF bin' # bin THEN { "bin" } ELSE {})
                                \union (IF keys' # keys THEN { "keys" } ELSE {})
  BY <1>2 DEF History
<1>4. Run => touched' = {}
  BY <1>1 DEF History
<1>5. QED
  BY <1>3, <1>4 DEF cacheVars

\* No step touches tools or keys before it is the turn of their loop.
LEMMA FailureStep ==
  ASSUME TypeOK, TouchedLate, FailureKeepsCache, Action, History
  PROVE  TouchedLate' /\ FailureKeepsCache'
<1> USE DEF TouchedLate, FailureKeepsCache, Ended, Preparing
<1>1. CASE Run
  <2>1. touched' = {}
    BY <1>1, TouchedBy
  <2>2. QED
    BY <2>1
<1>2. ASSUME ~Run, confirm \/ downloadSums \/ downloadTarball \/ lookupTar \/ createTemp
                   \/ downloadFails \/ verifyChecksum \/ extract
      PROVE  TouchedLate' /\ FailureKeepsCache'
  <2>1. pc \in Preparing /\ touched' = touched
    BY <1>2, TouchedBy DEF confirm, downloadSums, downloadTarball, lookupTar, createTemp,
       downloadFails, verifyChecksum, extract
  <2>2. QED
    BY <2>1
<1>3. ASSUME ~Run, openTool \/ copyTool
      PROVE  TouchedLate' /\ FailureKeepsCache'
  <2>1. "keys" \notin touched'
    BY <1>3, TouchedBy DEF openTool, copyTool
  <2>2. /\ pc' \notin Preparing
        /\ pc' = "idle" => result' \in { "copy", "no tool" }
    BY <1>3 DEF openTool, copyTool, Goto, Return, ReturnAmid
  <2>3. QED
    BY <2>1, <2>2
<1>4. ASSUME ~Run, readKeys
      PROVE  TouchedLate' /\ FailureKeepsCache'
  <2>1. "keys" \notin touched'
    BY <1>4, TouchedBy DEF readKeys, cacheVars
  <2>2. \/ pc' = "clear"
        \/ pc' = "idle" /\ result' = "no directory"
    BY <1>4 DEF readKeys, Goto, Return, ReturnAmid
  <2>3. QED
    BY <2>1, <2>2
<1>5. CASE clearKeys \/ openKey \/ copyKey \/ lookAgain
  <2>1. \/ pc' \in { "clear", "key", "key data", "look" }
        \/ pc' = "idle" /\ result' \in { "copy", "ok", "not found" }
    BY <1>5 DEF clearKeys, openKey, copyKey, lookAgain, Goto, Return, ReturnAmid
  <2>2. QED
    BY <2>1
<1>6. CASE Interrupt
  BY <1>6 DEF Interrupt, Return
<1>7. ASSUME ~Run, Server
      PROVE  TouchedLate' /\ FailureKeepsCache'
  <2>1. UNCHANGED << pc, result, touched >>
    BY <1>7, TouchedBy DEF Server
  <2>2. QED
    BY <2>1
<1>8. QED
  BY <1>1, <1>2, <1>3, <1>4, <1>5, <1>6, <1>7 DEF Action, Step

\* A run that ends before the archive is unpacked has changed neither tools nor
\* keys, and one that cannot read the archive's key directory leaves the
\* cached keys.
THEOREM FailureLeavesCache == Spec => [](TouchedLate /\ FailureKeepsCache)
<1>1. Init => TouchedLate /\ FailureKeepsCache
  BY DEF Init, TouchedLate, FailureKeepsCache, Preparing, Ended
<1>2. TypeOK /\ TouchedLate /\ FailureKeepsCache /\ [Next]_vars
        => (TouchedLate /\ FailureKeepsCache)'
  <2> SUFFICES ASSUME TypeOK, TouchedLate, FailureKeepsCache, [Next]_vars
               PROVE  (TouchedLate /\ FailureKeepsCache)'
    OBVIOUS
  <2>1. CASE Next
    <3>1. Action /\ History
      BY <2>1 DEF Next, Action, Run
    <3>2. QED
      BY <3>1, FailureStep
  <2>2. CASE UNCHANGED vars
    BY <2>2 DEF vars, historyVars, TouchedLate, FailureKeepsCache, Ended
  <2>3. QED
    BY <2>1, <2>2
<1>3. QED
  BY <1>1, <1>2, TypeCorrect, PTL DEF Spec

-----------------------------------------------------------------------------
(* An update installs exactly what it downloaded *)

\* The key with name k is among the first m - 1 ones of the archive.
Before(k, m) == \E j \in DOMAIN KeysOf[got] : j < m /\ KeysOf[got][j] = k

\* How far the loop over the tools is.
ToolsDone ==
  /\ pc = "tool" =>
       \A j \in DOMAIN xbpsTools : j < n => bin[xbpsTools[j]] = Whole(got)
  /\ pc = "tool data" =>
       /\ n \in DOMAIN xbpsTools
       /\ \A j \in DOMAIN xbpsTools :
            j < n => xbpsTools[j] = xbpsTools[n] \/ bin[xbpsTools[j]] = Whole(got)

\* How far the loop over the keys is; the cache was empty before it.
KeysDone ==
  /\ pc = "key" =>
       \A k \in Key : keys[k] = IF Before(k, n) THEN Whole(got) ELSE None
  /\ pc = "key data" =>
       /\ n \in DOMAIN KeysOf[got]
       /\ \A k \in Key \ { KeysOf[got][n] } :
            keys[k] = IF Before(k, n) THEN Whole(got) ELSE None

\* What the loops that are behind an update have achieved.
LoopsBehind ==
  update =>
    /\ pc # "idle" => needBinaries /\ needKeys
    /\ pc \in { "key directory", "clear", "key", "key data", "look" } =>
         \A t \in Tool : bin[t] = Whole(got)
    /\ pc = "look" => KeysAreOf(got)

UpdateInv == ToolsDone /\ KeysDone /\ LoopsBehind /\ UpdateIsExact

\* The archive that is unpacked has a sequence of keys.
LEMMA ArchiveOfKeys ==
  ASSUME TypeOK, GotListed, pc \in Trusting
  PROVE  KeysOf[got] \in Seq(Key)
BY KeysAssumption DEF TypeOK, FilesOK, GotListed

\* Until it comes to the tools, a step leaves nothing to show but the flags.
LEMMA UpdateBegins ==
  ASSUME TypeOK, UpdateInv,
         Run \/ confirm \/ downloadSums \/ downloadTarball \/ lookupTar \/ createTemp
             \/ downloadFails \/ verifyChecksum \/ extract
  PROVE  UpdateInv'
<1>1. CASE Run
  <2>1. PICK u, y, p \in BOOLEAN : ensureXbps(u, y, p)
    BY <1>1 DEF Run
  <2>2. ASSUME u
        PROVE  pc' # "idle" /\ needBinaries' /\ needKeys'
    <3>1. renew(u, p)[1] /\ renew(u, p)[2]
      BY <2>2 DEF renew
    <3>2. renew(u, p) # << FALSE, FALSE >>
      <4>1. ~<< FALSE, FALSE >>[1]
        OBVIOUS
      <4>2. QED
        BY <3>1, <4>1, Zenon
    <3>3. /\ pc' \in { "tar", "confirm" }
          /\ needBinaries' = renew(u, p)[1]
          /\ needKeys' = renew(u, p)[2]
      BY <2>1, <3>2 DEF ensureXbps
    <3>4. QED
      BY <3>1, <3>3
  <2>3. pc' \in { "idle", "tar", "confirm" } /\ update' = u
    BY <2>1 DEF ensureXbps, Return
  <2>4. QED
    BY <2>2, <2>3 DEF UpdateInv, ToolsDone, KeysDone, LoopsBehind, UpdateIsExact, Ended
<1>2. ASSUME \/ confirm \/ downloadSums \/ downloadTarball \/ lookupTar \/ createTemp
             \/ downloadFails \/ verifyChecksum \/ extract
      PROVE  UpdateInv'
  <2>1. pc # "idle" /\ update' = update
    BY <1>2 DEF confirm, downloadSums, downloadTarball, lookupTar, createTemp, downloadFails,
       verifyChecksum, extract, Unchanged, flagVars
  <2>2. \/ pc' = "idle" /\ result' \notin { "ok", "not found" }
        \/ /\ pc' \in { "tar", "sums", "temp", "tarball", "verify", "extract" }
           /\ UNCHANGED needVars
        \/ pc' = Install /\ n' = 1 /\ UNCHANGED needVars
    BY <1>2 DEF confirm, downloadSums, downloadTarball, lookupTar, createTemp, downloadFails,
       verifyChecksum, extract, Goto, Return
  <2>3. update => needBinaries /\ needKeys
    BY <2>1 DEF UpdateInv, LoopsBehind
  <2>4. CASE pc' = "idle" /\ result' \notin { "ok", "not found" }
    BY <2>4 DEF UpdateInv, ToolsDone, KeysDone, LoopsBehind, UpdateIsExact, Ended
  <2>5. CASE pc' \in { "tar", "sums", "temp", "tarball", "verify", "extract" } /\ UNCHANGED needVars
    BY <2>1, <2>3, <2>5
    DEF UpdateInv, ToolsDone, KeysDone, LoopsBehind, UpdateIsExact, Ended, needVars
  <2>6. CASE pc' = Install /\ n' = 1 /\ UNCHANGED needVars
    <3>1. \A j \in DOMAIN xbpsTools : ~(j < 1)
      BY ToolsAssumption
    <3>2. /\ pc' \in { "tool", "key directory" }
          /\ update => pc' = "tool"
      BY <2>3, <2>6 DEF Install
    <3>3. QED
      BY <2>1, <2>3, <2>6, <3>1, <3>2
      DEF UpdateInv, ToolsDone, KeysDone, LoopsBehind, UpdateIsExact, Ended, needVars
  <2>7. QED
    BY <2>2, <2>4, <2>5, <2>6
<1>3. QED
  BY <1>1, <1>2

\* Once the loop over the tools is done, all of them are copied.
LEMMA ToolsCopied ==
  ASSUME TypeOK, ToolsDone, pc = "tool", n > Len(xbpsTools)
  PROVE  \A t \in Tool : bin[t] = Whole(got)
<1>1. xbpsTools \in Seq(Tool) /\ n \in Nat \ { 0 }
  BY ToolsAssumption DEF TypeOK, ControlOK
<1>2. DOMAIN xbpsTools = 1 .. Len(xbpsTools) /\ Len(xbpsTools) \in Nat
  BY <1>1
<1>3. \A j \in 1 .. Len(xbpsTools) : j < n
  <2>1. n \in Nat \ { 0 } /\ n > Len(xbpsTools) /\ Len(xbpsTools) \in Nat
    BY <1>1, <1>2
  <2>2. QED
    BY <2>1
<1>4. \A j \in DOMAIN xbpsTools : bin[xbpsTools[j]] = Whole(got)
  BY <1>2, <1>3 DEF ToolsDone
<1>5. QED
  BY <1>4 DEF Tool

\* The loop over the tools.
LEMMA UpdateTools ==
  ASSUME TypeOK, UpdateInv, openTool \/ copyTool
  PROVE  UpdateInv'
<1>1. /\ xbpsTools \in Seq(Tool) /\ bin \in [Tool -> Content]
      /\ \A j \in DOMAIN xbpsTools : xbpsTools[j] \in Tool
      /\ DOMAIN xbpsTools = 1 .. Len(xbpsTools) /\ Len(xbpsTools) \in Nat
      /\ n \in Nat \ { 0 }
  BY ToolsAssumption DEF TypeOK, FilesOK, ControlOK, Tool
<1>2. /\ UNCHANGED << update, keys, got >>
      /\ pc # "idle"
      /\ update => needBinaries /\ needKeys
  BY DEF openTool, copyTool, Unchanged, flagVars, UpdateInv, LoopsBehind
<1>3. ASSUME ReturnAmid("copy") \/ ReturnAmid("no tool")
      PROVE  UpdateInv'
  BY <1>3 DEF ReturnAmid, Return, UpdateInv, ToolsDone, KeysDone, LoopsBehind, UpdateIsExact, Ended
<1>4. CASE openTool
  <2>1. CASE /\ n <= Len(xbpsTools) /\ bin' = [bin EXCEPT ![xbpsTools[n]] = Part(got)]
             /\ pc' = "tool data" /\ UNCHANGED << n, needVars >>
    <3>1. \A j \in DOMAIN xbpsTools : j < n => bin[xbpsTools[j]] = Whole(got)
      BY <1>4 DEF openTool, UpdateInv, ToolsDone
    <3>2. ToolsDone'
      <4>1. n' = n /\ n \in DOMAIN xbpsTools /\ got' = got
        <5>1. n \in Nat \ { 0 } /\ n <= Len(xbpsTools) /\ Len(xbpsTools) \in Nat
          BY <1>1, <2>1
        <5>2. n \in 1 .. Len(xbpsTools)
          BY <5>1
        <5>3. QED
          BY <1>1, <1>2, <2>1, <5>2
      <4>2. \A j \in DOMAIN xbpsTools :
              j < n => xbpsTools[j] = xbpsTools[n] \/ bin'[xbpsTools[j]] = Whole(got)
        BY <1>1, <2>1, <3>1
      <4>3. QED
        BY <2>1, <4>1, <4>2 DEF ToolsDone, Whole
    <3>3. QED
      BY <1>2, <2>1, <3>2 DEF UpdateInv, KeysDone, LoopsBehind, UpdateIsExact, Ended, needVars
  <2>2. CASE /\ n > Len(xbpsTools) /\ bin' = bin
             /\ Goto(IF needKeys THEN "key directory" ELSE "look")
    <3>1. pc = "tool"
      BY <1>4 DEF openTool
    <3>2. \A t \in Tool : bin[t] = Whole(got)
      BY <2>2, <3>1, ToolsCopied DEF UpdateInv
    <3>3. /\ pc' \in { "key directory", "look" }
          /\ update => pc' = "key directory"
          /\ UNCHANGED needVars
      BY <1>2, <2>2 DEF Goto
    <3>4. \A t \in Tool : bin'[t] = Whole(got')
      BY <1>2, <2>2, <3>2 DEF Whole
    <3>5. QED
      BY <1>2, <3>3, <3>4
      DEF UpdateInv, ToolsDone, KeysDone, LoopsBehind, UpdateIsExact, Ended, needVars
  <2>3. QED
    BY <1>3, <1>4, <2>1, <2>2 DEF openTool
<1>5. CASE copyTool
  <2>1. CASE /\ bin' = [bin EXCEPT ![xbpsTools[n]] = Whole(got)]
             /\ pc' = "tool" /\ n' = n + 1 /\ UNCHANGED needVars
    <3>1. /\ n \in DOMAIN xbpsTools
          /\ \A j \in DOMAIN xbpsTools :
               j < n => xbpsTools[j] = xbpsTools[n] \/ bin[xbpsTools[j]] = Whole(got)
      BY <1>5 DEF copyTool, UpdateInv, ToolsDone
    <3>2. \A j \in DOMAIN xbpsTools : j < n' => bin'[xbpsTools[j]] = Whole(got)
      BY <1>1, <2>1, <3>1
    <3>3. ToolsDone'
      BY <1>2, <2>1, <3>2 DEF ToolsDone, Whole
    <3>4. QED
      BY <1>2, <2>1, <3>3 DEF UpdateInv, KeysDone, LoopsBehind, UpdateIsExact, Ended, needVars
  <2>2. QED
    BY <1>3, <1>5, <2>1 DEF copyTool
<1>6. QED
  BY <1>4, <1>5

\* Once the loop over the keys is done, the cache is a copy of the archive's.
LEMMA KeysCopied ==
  ASSUME TypeOK, GotListed, KeysDone, pc = "key", n > Len(KeysOf[got])
  PROVE  KeysAreOf(got)
<1>1. KeysOf[got] \in Seq(Key) /\ n \in Nat \ { 0 }
  BY ArchiveOfKeys DEF Trusting, TypeOK, ControlOK
<1>2. DOMAIN KeysOf[got] = 1 .. Len(KeysOf[got]) /\ Len(KeysOf[got]) \in Nat
  BY <1>1
<1>3. \A k \in Key : Before(k, n) <=> \E j \in DOMAIN KeysOf[got] : KeysOf[got][j] = k
  BY <1>1, <1>2 DEF Before
<1>4. QED
  BY <1>3 DEF KeysDone, KeysAreOf

\* Clearing the cache, and the loop over the keys.
LEMMA UpdateKeys ==
  ASSUME TypeOK, GotListed, UpdateInv, readKeys \/ clearKeys \/ openKey \/ copyKey
  PROVE  UpdateInv'
<1>1. /\ KeysOf[got] \in Seq(Key) /\ keys \in [Key -> Content]
      /\ n \in Nat \ { 0 }
  BY ArchiveOfKeys DEF TypeOK, FilesOK, ControlOK, readKeys, clearKeys, openKey, copyKey, Trusting
<1>2. /\ \A j \in DOMAIN KeysOf[got] : KeysOf[got][j] \in Key
      /\ DOMAIN KeysOf[got] = 1 .. Len(KeysOf[got]) /\ Len(KeysOf[got]) \in Nat
  BY <1>1
<1>3. /\ UNCHANGED << update, bin, got >>
      /\ update => needBinaries /\ needKeys
      /\ update => \A t \in Tool : bin[t] = Whole(got)
  <2>1. pc \in { "key directory", "clear", "key", "key data" }
    BY DEF readKeys, clearKeys, openKey, copyKey
  <2>2. UNCHANGED << update, bin, got >>
    BY DEF readKeys, clearKeys, openKey, copyKey, Unchanged, flagVars, cacheVars
  <2>3. QED
    BY <2>1, <2>2 DEF UpdateInv, LoopsBehind
<1>4. ASSUME ReturnAmid("copy") \/ ReturnAmid("no directory")
      PROVE  UpdateInv'
  BY <1>4 DEF ReturnAmid, Return, UpdateInv, ToolsDone, KeysDone, LoopsBehind, UpdateIsExact, Ended
<1>5. update => \A t \in Tool : bin'[t] = Whole(got')
  BY <1>3 DEF Whole
<1>6. ASSUME pc' \in { "clear", "key", "key data" }, UNCHANGED needVars, KeysDone'
      PROVE  UpdateInv'
  BY <1>3, <1>5, <1>6 DEF UpdateInv, ToolsDone, LoopsBehind, UpdateIsExact, Ended, needVars
<1>7. CASE readKeys
  <2>1. pc' = "clear" /\ UNCHANGED needVars => UpdateInv'
    BY <1>6 DEF KeysDone
  <2>2. QED
    BY <1>4, <1>7, <2>1 DEF readKeys, Goto
<1>8. CASE clearKeys
  <2>1. pc' = "clear" /\ UNCHANGED needVars => UpdateInv'
    BY <1>6 DEF KeysDone
  <2>2. CASE ~haveCachedKeys /\ Goto("key") /\ UNCHANGED keys
    <3>1. \A k \in Key : keys'[k] = None
      BY <2>2 DEF haveCachedKeys
    <3>2. \A k \in Key : ~Before(k, 1)
      BY <1>2 DEF Before
    <3>3. pc' = "key" /\ n' = 1 /\ UNCHANGED needVars
      BY <2>2 DEF Goto
    <3>4. KeysDone'
      BY <1>3, <3>1, <3>2, <3>3 DEF KeysDone, Before
    <3>5. QED
      BY <1>6, <3>3, <3>4
  <2>3. QED
    BY <1>4, <1>8, <2>1, <2>2 DEF clearKeys
<1>9. CASE openKey
  <2>1. \A k \in Key : keys[k] = IF Before(k, n) THEN Whole(got) ELSE None
    BY <1>9 DEF openKey, UpdateInv, KeysDone
  <2>2. CASE /\ n <= Len(KeysOf[got]) /\ keys' = [keys EXCEPT ![KeysOf[got][n]] = Part(got)]
             /\ pc' = "key data" /\ UNCHANGED << n, needVars >>
    <3>1. n \in DOMAIN KeysOf[got]
      <4>1. n \in Nat \ { 0 } /\ n <= Len(KeysOf[got]) /\ Len(KeysOf[got]) \in Nat
        BY <1>1, <1>2, <2>2
      <4>2. n \in 1 .. Len(KeysOf[got])
        BY <4>1
      <4>3. QED
        BY <1>2, <4>2
    <3>2. \A k \in Key \ { KeysOf[got][n] } : keys'[k] = keys[k]
      BY <1>1, <2>2
    <3>3. \A k \in Key \ { KeysOf[got][n] } :
            keys'[k] = IF Before(k, n) THEN Whole(got) ELSE None
      BY <2>1, <3>2
    <3>4. KeysDone'
      BY <1>3, <2>2, <3>1, <3>3 DEF KeysDone, Before, Whole, None
    <3>5. QED
      BY <1>6, <2>2, <3>4
  <2>3. CASE n > Len(KeysOf[got]) /\ Goto("look") /\ UNCHANGED keys
    <3>1. pc = "key"
      BY <1>9 DEF openKey
    <3>2. KeysAreOf(got)
      BY <2>3, <3>1, KeysCopied DEF UpdateInv
    <3>3. KeysAreOf(got)'
      BY <1>3, <2>3, <3>2 DEF KeysAreOf, Whole, None
    <3>4. pc' = "look" /\ UNCHANGED needVars
      BY <2>3 DEF Goto
    <3>5. QED
      BY <1>3, <1>5, <3>3, <3>4
      DEF UpdateInv, ToolsDone, KeysDone, LoopsBehind, UpdateIsExact, Ended, needVars
  <2>4. QED
    BY <1>4, <1>9, <2>2, <2>3 DEF openKey
<1>10. CASE copyKey
  <2>1. /\ n \in DOMAIN KeysOf[got]
        /\ \A k \in Key \ { KeysOf[got][n] } :
             keys[k] = IF Before(k, n) THEN Whole(got) ELSE None
    BY <1>10 DEF copyKey, UpdateInv, KeysDone
  <2>2. CASE /\ keys' = [keys EXCEPT ![KeysOf[got][n]] = Whole(got)]
             /\ pc' = "key" /\ n' = n + 1 /\ UNCHANGED needVars
    <3>1. \A k \in Key : Before(k, n + 1) <=> Before(k, n) \/ k = KeysOf[got][n]
      BY <1>1, <1>2, <2>1 DEF Before
    <3>2. \A k \in Key : keys'[k] = IF Before(k, n + 1) THEN Whole(got) ELSE None
      <4>1. keys'[KeysOf[got][n]] = Whole(got)
        BY <1>1, <1>2, <2>1, <2>2
      <4>2. \A k \in Key \ { KeysOf[got][n] } : keys'[k] = keys[k]
        BY <1>1, <2>2
      <4>3. QED
        BY <2>1, <3>1, <4>1, <4>2
    <3>3. KeysDone'
      BY <1>3, <2>2, <3>2 DEF KeysDone, Before, Whole
    <3>4. QED
      BY <1>6, <2>2, <3>3
  <2>3. QED
    BY <1>4, <1>10, <2>2 DEF copyKey
<1>11. QED
  BY <1>7, <1>8, <1>9, <1>10

\* The end of a run, an interruption, and what the server does meanwhile.
LEMMA UpdateEnds ==
  ASSUME TypeOK, UpdateInv, lookAgain \/ Interrupt \/ Server
  PROVE  UpdateInv'
<1>1. CASE lookAgain
  <2>1. /\ pc = "look" /\ pc' = "idle"
        /\ UNCHANGED << update, bin, keys, got >>
    BY <1>1 DEF lookAgain, ReturnAmid, Return, Unchanged, flagVars, cacheVars
  <2>2. update => (\A t \in Tool : bin[t] = Whole(got)) /\ KeysAreOf(got)
    BY <2>1 DEF UpdateInv, LoopsBehind
  <2>3. update' => (\A t \in Tool : bin'[t] = Whole(got')) /\ KeysAreOf(got)'
    BY <2>1, <2>2 DEF KeysAreOf, Whole, None
  <2>4. QED
    BY <2>1, <2>3 DEF UpdateInv, ToolsDone, KeysDone, LoopsBehind, UpdateIsExact
<1>2. CASE Interrupt
  BY <1>2
  DEF Interrupt, Return, UpdateInv, ToolsDone, KeysDone, LoopsBehind, UpdateIsExact, Ended
<1>3. CASE Server
  <2>1. UNCHANGED << pc, n, update, needBinaries, needKeys, bin, keys, got, result >>
    BY <1>3 DEF Server, cacheVars, flagVars, needVars
  <2>2. ToolsDone'
    BY <2>1 DEF UpdateInv, ToolsDone, Whole
  <2>3. KeysDone'
    BY <2>1 DEF UpdateInv, KeysDone, Before, Whole, None
  <2>4. LoopsBehind' /\ UpdateIsExact'
    BY <2>1 DEF UpdateInv, LoopsBehind, UpdateIsExact, Ended, KeysAreOf, Whole, None
  <2>5. QED
    BY <2>2, <2>3, <2>4 DEF UpdateInv
<1>4. QED
  BY <1>1, <1>2, <1>3

\* An update that ends well leaves whole tools and exactly the keys of the
\* archive it downloaded, for any tools and any archives, and whatever was
\* there before.
THEOREM UpdateInstallsExactly == Spec => [](UpdateInv /\ UpdateIsExact)
<1>1. Init => UpdateInv
  BY DEF Init, UpdateInv, ToolsDone, KeysDone, LoopsBehind, UpdateIsExact
<1>2. TypeOK /\ GotListed /\ UpdateInv /\ [Next]_vars => UpdateInv'
  <2> SUFFICES ASSUME TypeOK, GotListed, UpdateInv, [Next]_vars
               PROVE  UpdateInv'
    OBVIOUS
  <2>1. CASE Next
    BY <2>1, UpdateBegins, UpdateTools, UpdateKeys, UpdateEnds DEF Next, Step, Run
  <2>2. CASE UNCHANGED vars
    BY <2>2 DEF vars, cacheVars, flagVars, needVars, UpdateInv, ToolsDone, KeysDone, LoopsBehind,
       UpdateIsExact, Ended, KeysAreOf, Before, Whole, None
  <2>3. QED
    BY <2>1, <2>2
<1>3. UpdateInv => UpdateIsExact
  BY DEF UpdateInv
<1>4. QED
  BY <1>1, <1>2, <1>3, TypeCorrect, InstalledWasVerified, PTL DEF Spec

-----------------------------------------------------------------------------
(* Temporary files *)

\* What the run has among the temporary files, at each place.
TmpInv ==
  /\ pc \in { "confirm", "tar", "sums", "temp" } => tmp = {}
  /\ pc \in { "tarball", "verify", "extract" } => tmp = { "tarball" }
  /\ pc \in Trusting \ { "extract" } => tmp = { "extract" }

\* Each step leaves the temporary files that belong to the place it goes to.
LEMMA TmpStep ==
  ASSUME TmpInv, NothingLeftInTmp, Action
  PROVE  TmpInv' /\ NothingLeftInTmp'
<1> USE DEF TmpInv, NothingLeftInTmp, Trusting
<1>1. CASE Run
  <2>1. tmp' = {} /\ pc' \in { "idle", "tar", "confirm" }
    BY <1>1 DEF Run, ensureXbps, Return
  <2>2. QED
    BY <2>1
<1>2. CASE confirm \/ downloadSums \/ lookupTar \/ createTemp
  BY <1>2 DEF confirm, downloadSums, lookupTar, createTemp, Goto, Return
<1>3. CASE downloadTarball \/ downloadFails \/ verifyChecksum
  BY <1>3 DEF downloadTarball, downloadFails, verifyChecksum, Goto, Return
<1>4. CASE extract
  BY <1>4 DEF extract, Install, Goto, Return
<1>5. CASE openTool \/ copyTool
  <2>1. /\ tmp = { "extract" }
        /\ \/ pc' = "idle" /\ tmp' = tmp \ { "extract" }
           \/ pc' \in { "tool", "tool data", "key directory", "look" } /\ tmp' = tmp
    BY <1>5 DEF openTool, copyTool, Goto, Return, ReturnAmid
  <2>2. QED
    BY <2>1
<1>6. CASE readKeys \/ clearKeys \/ openKey \/ copyKey \/ lookAgain
  <2>1. /\ tmp = { "extract" }
        /\ \/ pc' = "idle" /\ tmp' = tmp \ { "extract" }
           \/ pc' \in { "clear", "key", "key data", "look" } /\ tmp' = tmp
    BY <1>6 DEF readKeys, clearKeys, openKey, copyKey, lookAgain, Goto, Return, ReturnAmid
  <2>2. QED
    BY <2>1
<1>7. CASE Interrupt
  BY <1>7 DEF Interrupt, Return
<1>8. CASE Server
  BY <1>8 DEF Server
<1>9. QED
  BY <1>1, <1>2, <1>3, <1>4, <1>5, <1>6, <1>7, <1>8 DEF Action, Step

\* A run that is not interrupted has removed its temporary files when it ends.
THEOREM TmpIsCleaned == Spec => []NothingLeftInTmp
<1>1. Init => TmpInv /\ NothingLeftInTmp
  BY DEF Init, TmpInv, NothingLeftInTmp, Trusting
<1>2. TmpInv /\ NothingLeftInTmp /\ [Next]_vars => (TmpInv /\ NothingLeftInTmp)'
  <2>1. Next => Action
    BY DEF Next, Action, Run
  <2>2. UNCHANGED vars => UNCHANGED << pc, tmp, result >>
    BY DEF vars
  <2>3. QED
    BY <2>1, <2>2, TmpStep DEF TmpInv, NothingLeftInTmp
<1>3. QED
  BY <1>1, <1>2, PTL DEF Spec

-----------------------------------------------------------------------------
(* Tools on PATH *)

\* The tools are there if they were when the run began, or the loop is behind.
ToolsThere ==
  onPath /\ pc # "idle"
         /\ (needBinaries => pc \in { "key directory", "clear", "key", "key data", "look" })
    => \A t \in Tool : LookPath(t, TRUE)

\* Tools do not disappear.
LEMMA ToolsStay ==
  ASSUME TypeOK, GotListed, Action
  PROVE  host' = host /\ \A t \in Tool : bin[t] # None => bin'[t] # None
<1>1. bin \in [Tool -> Content]
  BY DEF TypeOK, FilesOK
<1>2. /\ host' = host
      /\ \A t \in Tool : bin'[t] \in { bin[t], Part(got), Whole(got) }
      /\ bin' # bin => pc \in Trusting
  BY <1>1 DEF Action, Step, Run, ensureXbps, confirm, downloadSums, downloadTarball, lookupTar,
     createTemp, downloadFails, verifyChecksum, extract, openTool, copyTool, readKeys, clearKeys,
     openKey, copyKey, lookAgain, Interrupt, Server, Unchanged, cacheVars, Trusting
<1>3. pc \in Trusting => Part(got) # None /\ Whole(got) # None
  BY LatestAssumption
  DEF GotListed, TypeOK, FilesOK, Archive, NoArchive, None, Part, Whole
<1>4. QED
  BY <1>2, <1>3

\* Where a step of a run comes from, if there is no need of tools or the loop
\* over them is behind.
LEMMA ToolsThereStep ==
  ASSUME TypeOK, GotListed, ToolsDone, ToolsThere, Action
  PROVE  ToolsThere'
<1> DEFINE After == { "key directory", "clear", "key", "key data", "look" }
<1> SUFFICES ASSUME onPath', pc' # "idle", needBinaries' => pc' \in After,
                    NEW t \in Tool
             PROVE  LookPath(t, TRUE)'
  BY DEF ToolsThere
<1>1. LookPath(t, TRUE) => LookPath(t, TRUE)'
  BY ToolsStay DEF LookPath, extendPath
<1>2. CASE Run
  <2>1. PICK u, y, p \in BOOLEAN : ensureXbps(u, y, p)
    BY <1>2 DEF Run
  <2>2. /\ p /\ ~needBinaries'
        /\ needBinaries' = renew(u, p)[1]
    BY <2>1 DEF ensureXbps, Return
  <2>3. missingTools(p) = {}
    BY <2>2 DEF renew
  <2>4. LookPath(t, p)
    BY <2>3 DEF missingTools
  <2>5. LookPath(t, TRUE)
    BY <2>2, <2>4 DEF LookPath, extendPath
  <2>6. QED
    BY <1>1, <2>5
<1>3. CASE openTool /\ pc' \in After
  <2>1. /\ pc = "tool" /\ n > Len(xbpsTools)
    BY <1>3 DEF openTool, ReturnAmid, Return
  <2>2. bin[t] = Whole(got)
    BY <2>1, ToolsCopied
  <2>3. bin[t] # None
    <3>1. Whole(got).whole /\ ~None.whole
      BY DEF Whole, None
    <3>2. QED
      BY <2>2, <3>1
  <2>4. QED
    BY <1>1, <2>3 DEF LookPath, extendPath
<1>4. ASSUME ~Run, ~(openTool /\ pc' \in After)
      PROVE  LookPath(t, TRUE)'
  <2>1. pc # "idle" /\ UNCHANGED << onPath, needBinaries >>
    BY <1>4 DEF Action, Step, confirm, downloadSums, downloadTarball, lookupTar,
       createTemp, downloadFails, verifyChecksum, extract, openTool, copyTool, readKeys,
       clearKeys, openKey, copyKey, lookAgain, Interrupt, Server, Unchanged, flagVars, needVars,
       Goto, Return, ReturnAmid
  <2>2. pc' \in After => pc \in After \/ ~needBinaries
    BY <1>4 DEF Action, Step, confirm, downloadSums, downloadTarball, lookupTar,
       createTemp, downloadFails, verifyChecksum, extract, Install, openTool, copyTool, readKeys,
       clearKeys, openKey, copyKey, lookAgain, Interrupt, Server,
       Goto, Return, ReturnAmid
  <2>3. LookPath(t, TRUE)
    BY <2>1, <2>2 DEF ToolsThere
  <2>4. QED
    BY <1>1, <2>3
<1>5. QED
  BY <1>2, <1>3, <1>4

\* A run that installed what it needs, and does not find the tools, has a PATH
\* without localBinDir.
LEMMA NotFoundStep ==
  ASSUME TypeOK, ToolsThere, NotFoundOnlyOffPath, Action
  PROVE  NotFoundOnlyOffPath'
<1> USE DEF NotFoundOnlyOffPath, Ended
<1>1. CASE Run
  <2>1. pc' = "idle" => result' = "ok"
    BY <1>1 DEF Run, ensureXbps, Return
  <2>2. QED
    BY <2>1
<1>2. CASE lookAgain
  <2>1. pc = "look" /\ onPath' = onPath
    BY <1>2 DEF lookAgain, Unchanged, flagVars
  <2>2. onPath => missingTools(onPath) = {}
    BY <2>1 DEF ToolsThere, missingTools, LookPath, extendPath
  <2>3. result' = IF missingTools(onPath) = {} THEN "ok" ELSE "not found"
    BY <1>2 DEF lookAgain, ReturnAmid, Return
  <2>4. QED
    BY <2>1, <2>2, <2>3
<1>3. CASE Server
  BY <1>3 DEF Server, flagVars
<1>4. ASSUME ~Run, ~lookAgain, ~Server
      PROVE  NotFoundOnlyOffPath'
  <2>1. pc' = "idle" => result' # "not found"
    BY <1>4 DEF Action, Step, confirm, downloadSums, downloadTarball, lookupTar,
       createTemp, downloadFails, verifyChecksum, extract, Install, openTool, copyTool, readKeys,
       clearKeys, openKey, copyKey, Interrupt, Goto, Return, ReturnAmid
  <2>2. QED
    BY <2>1
<1>5. QED
  BY <1>1, <1>2, <1>3, <1>4

\* After a download the tools can only be missing if the PATH that the program
\* was started with lacks localBinDir.
THEOREM MissingOnlyOffPath == Spec => [](ToolsThere /\ NotFoundOnlyOffPath)
<1>1. Init => ToolsThere /\ NotFoundOnlyOffPath
  BY DEF Init, ToolsThere, NotFoundOnlyOffPath, Ended
<1>2. TypeOK /\ GotListed /\ ToolsDone /\ ToolsThere /\ NotFoundOnlyOffPath /\ [Next]_vars
        => (ToolsThere /\ NotFoundOnlyOffPath)'
  <2> SUFFICES ASSUME TypeOK, GotListed, ToolsDone, ToolsThere, NotFoundOnlyOffPath, [Next]_vars
               PROVE  (ToolsThere /\ NotFoundOnlyOffPath)'
    OBVIOUS
  <2>1. Next => Action
    BY DEF Next, Action, Run
  <2>2. CASE UNCHANGED vars
    BY <2>2 DEF vars, cacheVars, flagVars, needVars, ToolsThere, NotFoundOnlyOffPath, Ended,
       LookPath, extendPath
  <2>3. QED
    BY <2>1, <2>2, ToolsThereStep, NotFoundStep
<1>3. UpdateInv => ToolsDone
  BY DEF UpdateInv
<1>4. QED
  BY <1>1, <1>2, <1>3, TypeCorrect, InstalledWasVerified, UpdateInstallsExactly, PTL DEF Spec

-----------------------------------------------------------------------------
(* The cache *)

GoodTool(t) == bin[t] = None \/ \E a \in listed : bin[t] = Whole(a)
GoodKeys    == ~haveCachedKeys \/ \E a \in listed : KeysAreOf(a)

\* Without an earlier run that was cut short, the tools are whole, but for the
\* one that is being copied, and then the run has touched them.
WholeTools ==
  ~cut => IF pc = "tool data"
          THEN "bin" \in touched /\ \A t \in Tool \ { xbpsTools[n] } : GoodTool(t)
          ELSE \A t \in Tool : GoodTool(t)

\* The keys are those of one archive, if there are any, unless the run has
\* touched them.
WholeKeys ==
  /\ ~cut /\ (pc = "idle" \/ "keys" \notin touched) => GoodKeys
  /\ pc = "key data" => "keys" \in touched

\* What a run that has come past the keys has achieved, or has no need of.
KeysBehind ==
  pc # "idle" =>
    /\ needBinaries \/ needKeys
    /\ ~needKeys =>
         /\ pc \notin { "key directory", "clear", "key", "key data" }
         /\ haveCachedKeys /\ "keys" \notin touched
    /\ pc \in { "clear", "key", "key data", "look" } /\ needKeys => got \in KeyDirectory
    /\ pc = "look" /\ needKeys => KeysAreOf(got)

CacheInv == WholeTools /\ WholeKeys /\ KeysBehind

\* A whole copy, a part of a listed archive's file, and no file are different.
LEMMA ContentsDiffer ==
  ASSUME TypeOK, GotListed
  PROVE  /\ \A a, b : Whole(a) # None /\ Whole(a) # Part(b)
         /\ pc \in Trusting => got \in listed /\ Part(got) # None
<1>1. \A a : Whole(a).whole /\ ~Part(a).whole
  BY DEF Whole, Part
<1>2. ~None.whole
  BY DEF None
<1>3. Part(got).of = got /\ None.of = 0
  BY DEF Part, None, NoArchive
<1>4. pc \in Trusting => got \in listed /\ got # 0
  BY LatestAssumption DEF GotListed, TypeOK, FilesOK, Archive
<1>5. QED
  BY <1>1, <1>2, <1>3, <1>4

\* What is good stays good while it is not touched.
LEMMA GoodStays ==
  ASSUME ListedWasServed, Action
  PROVE  /\ bin' = bin => \A t \in Tool : GoodTool(t) => GoodTool(t)'
         /\ keys' = keys => (GoodKeys => GoodKeys') /\ haveCachedKeys' = haveCachedKeys
                            /\ \A a : KeysAreOf(a) => KeysAreOf(a)'
<1>1. listed \subseteq listed'
  BY ListedGrows
<1>2. bin' = bin => \A t \in Tool : GoodTool(t) => GoodTool(t)'
  BY <1>1 DEF GoodTool, Whole, None
<1>3. keys' = keys => /\ haveCachedKeys' = haveCachedKeys
                      /\ \A a : KeysAreOf(a) => KeysAreOf(a)'
  BY DEF haveCachedKeys, KeysAreOf, Whole, None
<1>4. keys' = keys => (GoodKeys => GoodKeys')
  BY <1>1, <1>3 DEF GoodKeys
<1>5. QED
  BY <1>2, <1>3, <1>4

\* The key at hand in the loop is one of the archive's.
LEMMA KeyAtHand ==
  ASSUME TypeOK, GotListed, pc = "key", n <= Len(KeysOf[got])
  PROVE  KeysOf[got][n] \in Key
<1>1. KeysOf[got] \in Seq(Key)
  BY ArchiveOfKeys DEF Trusting
<1>2. n \in Nat \ { 0 }
  BY DEF TypeOK, ControlOK
<1>3. Len(KeysOf[got]) \in Nat
  BY <1>1
<1>4. n \in 1 .. Len(KeysOf[got])
  BY <1>2, <1>3
<1>5. QED
  BY <1>1, <1>4

\* There are keys in the cache, or none in the directory they were to come from.
KeysOrNone == haveCachedKeys \/ (NoKeyInDirectory /\ got \in listed)

\* A copy of an archive's keys is not empty if the archive has keys.
LEMMA CopiedKeysThere ==
  ASSUME TypeOK, GotListed, pc \in Trusting, KeysOf[got] # << >>, KeysAreOf(got)
  PROVE  haveCachedKeys
<1>1. KeysOf[got] \in Seq(Key)
  BY ArchiveOfKeys
<1>2. 1 \in DOMAIN KeysOf[got] /\ KeysOf[got][1] \in Key
  BY <1>1
<1>3. keys[KeysOf[got][1]] = Whole(got)
  BY <1>2 DEF KeysAreOf
<1>4. QED
  BY <1>2, <1>3, ContentsDiffer DEF haveCachedKeys

\* What the run has touched adds up, except when a new run begins.
LEMMA TouchedGrows ==
  ASSUME TypeOK, Action, History, ~Run
  PROVE  /\ touched \subseteq touched'
         /\ bin' # bin => "bin" \in touched'
         /\ keys' # keys => "keys" \in touched'
         /\ UNCHANGED cacheVars => touched' = touched
         /\ keys' = keys /\ "keys" \notin touched => "keys" \notin touched'
<1>1. runs' = runs
  BY DEF Action, Step, confirm, downloadSums, downloadTarball, lookupTar, createTemp,
     downloadFails, verifyChecksum, extract, openTool, copyTool, readKeys, clearKeys, openKey,
     copyKey, lookAgain, Interrupt, Server, Unchanged, boundVars
<1>2. touched' = touched \union (IF bin' # bin THEN { "bin" } ELSE {})
                         \union (IF keys' # keys THEN { "keys" } ELSE {})
  BY <1>1 DEF History
<1>3. QED
  BY <1>2 DEF cacheVars

\* A run that ends early without touching the cache in its last step: it is as
\* good as it was, unless the run is recorded as cut.
LEMMA EndsEarly ==
  ASSUME TypeOK, ListedWasServed, CacheInv, Action, History, ~Run,
         pc # "idle", pc' = "idle", result' \notin { "ok", "not found" },
         UNCHANGED cacheVars
  PROVE  CacheInv' /\ Available'
<1>1. touched' = touched /\ bin' = bin /\ keys' = keys
  BY TouchedGrows DEF cacheVars
<1>2. cut' = (cut \/ touched # {})
  BY <1>1 DEF History
<1>3. ~cut' => /\ \A t \in Tool : GoodTool(t)'
               /\ GoodKeys'
  <2>1. ~cut' => ~cut /\ "bin" \notin touched /\ "keys" \notin touched
    BY <1>2
  <2>2. ~cut' => \A t \in Tool : GoodTool(t)
    BY <2>1 DEF CacheInv, WholeTools
  <2>3. ~cut' => GoodKeys
    BY <2>1 DEF CacheInv, WholeKeys
  <2>4. QED
    BY <1>1, <2>2, <2>3, GoodStays
<1>4. QED
  BY <1>3 DEF CacheInv, WholeTools, WholeKeys, KeysBehind, Available, Ended

\* A copy that fails in the middle: the run is recorded as cut.
LEMMA EndsAmidCopy ==
  ASSUME TypeOK, CacheInv, Action, History, ~Run, pc \in { "tool data", "key data" },
         pc' = "idle", result' \notin { "ok", "not found" }
  PROVE  CacheInv' /\ Available'
<1>1. cut \/ touched # {}
  BY DEF CacheInv, WholeTools, WholeKeys
<1>2. cut'
  BY <1>1, TouchedGrows DEF History
<1>3. QED
  BY <1>2 DEF CacheInv, WholeTools, WholeKeys, KeysBehind, Available, Ended

\* The run finds the tools and has keys, and they are good.
FoundAndGood ==
  /\ missingTools(onPath) = {} /\ KeysOrNone
  /\ ~cut => GoodKeys /\ \A t \in Tool : GoodTool(t)

\* With good tools and keys, what a run that ends well leaves is available.
LEMMA GoodIsAvailable == FoundAndGood => Available
<1> SUFFICES ASSUME missingTools(onPath) = {}, KeysOrNone,
                    ~cut => GoodKeys /\ \A t \in Tool : GoodTool(t)
             PROVE  Available
  BY DEF FoundAndGood
<1>1. \A t \in Tool : LookPath(t, onPath)
  BY DEF missingTools
<1>2. \A t \in Tool \ host : bin[t] # None
  BY <1>1 DEF LookPath
<1>3. ~cut => \A t \in Tool \ host : \E a \in listed : bin[t] = Whole(a)
  BY <1>2 DEF GoodTool
<1>4. ~cut => \E a \in listed : KeysAreOf(a)
  <2>1. CASE haveCachedKeys
    BY <2>1 DEF GoodKeys
  <2>2. CASE ~haveCachedKeys
    <3>1. got \in listed /\ DOMAIN KeysOf[got] = {}
      BY <2>2 DEF KeysOrNone, NoKeyInDirectory
    <3>2. KeysAreOf(got)
      BY <2>2, <3>1 DEF KeysAreOf, haveCachedKeys
    <3>3. QED
      BY <3>1, <3>2
  <2>3. QED
    BY <2>1, <2>2
<1>5. QED
  BY <1>1, <1>3, <1>4 DEF Available, KeysOrNone

\* The same of the state that a step ends in.
LEMMA GoodIsAvailableThen == FoundAndGood' => Available'
<1>1. (FoundAndGood => Available)'
  BY GoodIsAvailable, PTL
<1>2. QED
  BY <1>1

\* A new run finds what the last one left; with nothing to do it ends at once.
LEMMA BeginKeeps ==
  ASSUME TypeOK, ListedWasServed, CacheInv, Run, History
  PROVE  CacheInv' /\ Available'
<1>1. PICK u, y, p \in BOOLEAN : ensureXbps(u, y, p)
  BY DEF Run
<1>2. /\ pc = "idle" /\ pc' \in { "idle", "tar", "confirm" }
      /\ bin' = bin /\ keys' = keys /\ host' = host /\ onPath' = p
  BY <1>1 DEF ensureXbps, Return, cacheVars
<1>3. touched' = {} /\ cut' = cut
  <2>1. Action
    BY DEF Action
  <2>2. QED
    BY <1>2, <2>1, TouchedBy DEF History
<1>4. ~cut => GoodKeys /\ \A t \in Tool : GoodTool(t)
  BY <1>2 DEF CacheInv, WholeKeys, WholeTools
<1>5. ~cut' => GoodKeys' /\ \A t \in Tool : GoodTool(t)'
  BY <1>2, <1>3, <1>4, GoodStays DEF Action
<1>6. WholeTools' /\ WholeKeys'
  BY <1>2, <1>5 DEF WholeTools, WholeKeys
<1>7. CASE pc' = "idle"
  <2>1. renew(u, p) = << FALSE, FALSE >>
    BY <1>1, <1>7 DEF ensureXbps
  <2>2. missingTools(p) = {} /\ haveCachedKeys
    <3>1. /\ renew(u, p)[1] = FALSE
          /\ renew(u, p)[2] = FALSE
      BY <2>1
    <3>2. QED
      BY <3>1 DEF renew
  <2>3. missingTools(onPath)' = {} /\ haveCachedKeys'
    BY <1>2, <2>2 DEF missingTools, LookPath, extendPath, haveCachedKeys
  <2>4. Available'
    BY <1>5, <2>3, GoodIsAvailableThen DEF FoundAndGood, KeysOrNone
  <2>5. QED
    BY <1>6, <1>7, <2>4 DEF CacheInv, KeysBehind
<1>8. CASE pc' # "idle"
  <2>1. /\ renew(u, p) # << FALSE, FALSE >>
        /\ needBinaries' = renew(u, p)[1] /\ needKeys' = renew(u, p)[2]
    BY <1>1, <1>8 DEF ensureXbps, Return
  <2>2. needBinaries' \/ needKeys'
    BY <2>1 DEF renew
  <2>3. ~needKeys' => haveCachedKeys'
    BY <1>2, <2>1 DEF renew, haveCachedKeys
  <2>4. KeysBehind'
    BY <1>2, <1>3, <1>8, <2>2, <2>3 DEF KeysBehind
  <2>5. QED
    BY <1>6, <1>8, <2>4 DEF CacheInv, Available, Ended
<1>9. QED
  BY <1>7, <1>8

\* Up to the extraction nothing happens to the cache.
LEMMA PrepareKeeps ==
  ASSUME TypeOK, ListedWasServed, TouchedLate, CacheInv, Action, History, ~Run,
         confirm \/ downloadSums \/ downloadTarball \/ lookupTar \/ createTemp
             \/ downloadFails \/ verifyChecksum \/ extract
  PROVE  CacheInv' /\ Available'
<1>1. pc \in Preparing /\ UNCHANGED cacheVars
  BY DEF confirm, downloadSums, downloadTarball, lookupTar, createTemp, downloadFails,
     verifyChecksum, extract, Preparing
<1>2. \/ pc' = "idle" /\ result' \notin { "ok", "not found" }
      \/ /\ pc' \in Preparing \union { "tool", "key directory" }
         /\ pc' = "key directory" => ~needBinaries
         /\ UNCHANGED needVars
  BY DEF confirm, downloadSums, downloadTarball, lookupTar, createTemp, downloadFails,
     verifyChecksum, extract, Install, Goto, Return, Preparing
<1>3. CASE pc' = "idle" /\ result' \notin { "ok", "not found" }
  BY <1>1, <1>3, EndsEarly DEF Preparing
<1>4. CASE /\ pc' \in Preparing \union { "tool", "key directory" }
           /\ pc' = "key directory" => ~needBinaries
           /\ UNCHANGED needVars
  <2>1. touched' = {} /\ touched = {} /\ bin' = bin /\ keys' = keys
    BY <1>1, TouchedGrows DEF TouchedLate, cacheVars
  <2>2. cut' = cut
    BY <1>4 DEF History, Preparing
  <2>3. WholeTools'
    BY <1>1, <1>4, <2>1, <2>2, GoodStays DEF CacheInv, WholeTools, Preparing
  <2>4. WholeKeys'
    BY <1>4, <2>1, <2>2, GoodStays DEF CacheInv, WholeKeys, Preparing
  <2>5. KeysBehind'
    BY <1>1, <1>4, <2>1, GoodStays DEF CacheInv, KeysBehind, Preparing, needVars
  <2>6. QED
    BY <1>4, <2>3, <2>4, <2>5 DEF CacheInv, Available, Ended, Preparing
<1>5. QED
  BY <1>2, <1>3, <1>4

\* Copying the tools: at most the one at hand is not whole, and it is recorded.
LEMMA ToolsKeep ==
  ASSUME TypeOK, ListedWasServed, GotListed, TouchedLate, CacheInv, Action, History, ~Run,
         openTool \/ copyTool
  PROVE  CacheInv' /\ Available'
<1>1. /\ pc \in { "tool", "tool data" } /\ keys' = keys
      /\ "keys" \notin touched /\ "keys" \notin touched'
  BY TouchedGrows DEF openTool, copyTool, TouchedLate
<1>2. /\ bin \in [Tool -> Content] /\ got \in listed
  BY <1>1, ContentsDiffer DEF TypeOK, FilesOK, Trusting
<1>3. listed \subseteq listed' /\ got' = got
  BY ListedGrows DEF openTool, copyTool
<1>4. pc' # "idle" => WholeKeys'
  <2>1. pc' # "idle" => cut' = cut
    BY DEF History
  <2>2. pc' # "key data"
    BY DEF openTool, copyTool, Goto, ReturnAmid, Return
  <2>3. ~cut => GoodKeys
    BY <1>1 DEF CacheInv, WholeKeys
  <2>4. ~cut => GoodKeys'
    BY <1>1, <2>3, GoodStays
  <2>5. pc' # "idle" /\ ~cut' => GoodKeys'
    BY <2>1, <2>4
  <2>6. QED
    BY <2>2, <2>5 DEF WholeKeys
<1>5. CASE openTool /\ pc' = "tool data"
  <2>1. /\ pc = "tool" /\ n' = n /\ UNCHANGED needVars
        /\ bin' = [bin EXCEPT ![xbpsTools[n]] = Part(got)]
        /\ xbpsTools[n] \in Tool
    <3>1. xbpsTools[n] \in ToolsOf[got]
      BY <1>5 DEF openTool, Goto, ReturnAmid, Return
    <3>2. ToolsOf[got] \subseteq Tool
      BY <1>2, ToolsAssumption DEF TypeOK, FilesOK
    <3>3. QED
      BY <1>5, <3>1, <3>2 DEF openTool, Goto, ReturnAmid, Return
  <2>2. cut' = cut
    BY <1>5 DEF History
  <2>3. ~cut => "bin" \in touched'
    <3>1. ~cut => GoodTool(xbpsTools[n])
      BY <2>1 DEF CacheInv, WholeTools
    <3>2. ~cut => bin[xbpsTools[n]] # Part(got)
      BY <1>1, <3>1, ContentsDiffer DEF GoodTool, Trusting
    <3>3. ~cut => bin' # bin
      BY <1>2, <2>1, <3>2
    <3>4. QED
      BY <3>3, TouchedGrows
  <2>4. \A t \in Tool \ { xbpsTools[n] } : GoodTool(t) => GoodTool(t)'
    BY <1>2, <1>3, <2>1 DEF GoodTool, Whole, None
  <2>5. WholeTools'
    BY <1>5, <2>1, <2>2, <2>3, <2>4 DEF CacheInv, WholeTools
  <2>6. KeysBehind'
    BY <1>1, <1>5, <2>1, GoodStays DEF CacheInv, KeysBehind, needVars
  <2>7. QED
    BY <1>4, <1>5, <2>5, <2>6 DEF CacheInv, Available, Ended
<1>6. CASE openTool /\ pc' \in { "key directory", "look" }
  <2>1. /\ pc = "tool" /\ bin' = bin /\ UNCHANGED needVars
        /\ pc' = "key directory" <=> needKeys
    BY <1>6 DEF openTool, Goto, ReturnAmid, Return
  <2>2. cut' = cut
    BY <1>6 DEF History
  <2>3. WholeTools'
    BY <1>6, <2>1, <2>2, GoodStays DEF CacheInv, WholeTools
  <2>4. KeysBehind'
    BY <1>1, <1>6, <2>1, GoodStays DEF CacheInv, KeysBehind, needVars
  <2>5. QED
    BY <1>4, <1>6, <2>3, <2>4 DEF CacheInv, Available, Ended
<1>7. CASE openTool /\ pc' = "idle"
  <2>1. UNCHANGED cacheVars /\ pc = "tool" /\ result' \notin { "ok", "not found" }
    BY <1>1, <1>7 DEF openTool, Goto, ReturnAmid, Return, cacheVars
  <2>2. QED
    BY <1>7, <2>1, EndsEarly
<1>8. CASE copyTool /\ pc' = "tool"
  <2>1. /\ pc = "tool data" /\ UNCHANGED needVars
        /\ bin' = [bin EXCEPT ![xbpsTools[n]] = Whole(got)]
    BY <1>8 DEF copyTool, ReturnAmid, Return
  <2>2. cut' = cut
    BY <1>8 DEF History
  <2>3. \A t \in Tool \ { xbpsTools[n] } : GoodTool(t) => GoodTool(t)'
    BY <1>2, <1>3, <2>1 DEF GoodTool, Whole, None
  <2>4. ASSUME NEW t \in Tool, t = xbpsTools[n]
        PROVE  GoodTool(t)'
    <3>1. bin'[t] = Whole(got)
      BY <1>2, <2>1, <2>4
    <3>2. got \in listed'
      BY <1>2, <1>3
    <3>3. bin'[t] = [of |-> got, whole |-> TRUE]
      BY <3>1 DEF Whole
    <3>4. QED
      BY <3>2, <3>3 DEF GoodTool, Whole
  <2>5. WholeTools'
    <3>1. ~cut => \A t \in Tool \ { xbpsTools[n] } : GoodTool(t)
      BY <2>1 DEF CacheInv, WholeTools
    <3>2. ~cut => \A t \in Tool : GoodTool(t)'
      BY <2>3, <2>4, <3>1
    <3>3. QED
      BY <1>8, <2>2, <3>2 DEF WholeTools
  <2>6. KeysBehind'
    BY <1>1, <1>8, <2>1, GoodStays DEF CacheInv, KeysBehind, needVars
  <2>7. QED
    BY <1>4, <1>8, <2>5, <2>6 DEF CacheInv, Available, Ended
<1>9. CASE copyTool /\ pc' = "idle"
  <2>1. pc = "tool data" /\ result' = "copy"
    BY <1>9 DEF copyTool, ReturnAmid, Return
  <2>2. QED
    BY <1>9, <2>1, EndsAmidCopy
<1>10. QED
  <2>1. openTool => pc' \in { "tool data", "key directory", "look", "idle" }
    BY DEF openTool, Goto, ReturnAmid, Return
  <2>2. copyTool => pc' \in { "tool", "idle" }
    BY DEF copyTool, ReturnAmid, Return
  <2>3. QED
    BY <1>5, <1>6, <1>7, <1>8, <1>9, <2>1, <2>2

\* A step of the loop over the keys that goes on, or comes past it: it does
\* not disturb the tools, and the run goes on with what it had.
LEMMA KeyLoopGoesOn ==
  ASSUME TypeOK, ListedWasServed, CacheInv, Action, History, ~Run,
         pc \in { "key directory", "clear", "key", "key data" },
         pc' \in { "clear", "key", "key data", "look" },
         UNCHANGED << bin, got, needVars >>,
         keys' = keys \/ "keys" \in touched',
         pc' = "key data" => "keys" \in touched',
         got \in KeyDirectory, pc' = "look" => KeysAreOf(got)'
  PROVE  CacheInv' /\ Available'
<1>1. cut' = cut
  BY DEF History
<1>2. needKeys /\ needKeys'
  BY DEF CacheInv, KeysBehind, needVars
<1>3. WholeTools'
  <2>1. ~cut => \A t \in Tool : GoodTool(t)
    BY DEF CacheInv, WholeTools
  <2>2. ~cut => \A t \in Tool : GoodTool(t)'
    BY <2>1, GoodStays
  <2>3. QED
    BY <1>1, <2>2 DEF WholeTools
<1>4. WholeKeys'
  <2>1. ~cut /\ "keys" \notin touched' => GoodKeys'
    <3>1. "keys" \notin touched' => keys' = keys /\ "keys" \notin touched
      BY TouchedGrows
    <3>2. ~cut /\ "keys" \notin touched => GoodKeys
      BY DEF CacheInv, WholeKeys
    <3>3. QED
      BY <3>1, <3>2, GoodStays
  <2>2. pc' # "idle"
    OBVIOUS
  <2>3. QED
    BY <1>1, <2>1, <2>2 DEF WholeKeys
<1>5. KeysBehind'
  BY <1>2 DEF KeysBehind
<1>6. QED
  BY <1>3, <1>4, <1>5 DEF CacheInv, Available, Ended

\* Replacing the keys: the run has touched them as long as they are not those
\* of one archive.
LEMMA KeysKeep ==
  ASSUME TypeOK, ListedWasServed, GotListed, KeysDone, CacheInv, Action, History, ~Run,
         readKeys \/ clearKeys \/ openKey \/ copyKey
  PROVE  CacheInv' /\ Available'
<1>1. /\ pc \in { "key directory", "clear", "key", "key data" }
      /\ UNCHANGED << bin, got >>
  BY DEF readKeys, clearKeys, openKey, copyKey, Unchanged, cacheVars
<1>2. pc' = "idle" => result' \notin { "ok", "not found" }
  BY DEF readKeys, clearKeys, openKey, copyKey, Goto, ReturnAmid, Return
<1>3. CASE pc' = "idle" /\ UNCHANGED cacheVars
  BY <1>1, <1>2, <1>3, EndsEarly
<1>4. CASE pc' = "idle" /\ ~UNCHANGED cacheVars
  <2>1. pc = "key data"
    BY <1>1, <1>4 DEF readKeys, clearKeys, openKey, copyKey, Goto, ReturnAmid, Return, cacheVars
  <2>2. QED
    BY <1>2, <1>4, <2>1, EndsAmidCopy
<1>5. CASE pc' # "idle"
  <2>1. UNCHANGED needVars
    BY <1>5 DEF readKeys, clearKeys, openKey, copyKey, Goto, ReturnAmid, Return
  <2>2. keys' = keys \/ "keys" \in touched'
    BY TouchedGrows
  <2>3. got \in KeyDirectory
    <3>1. needKeys
      BY <1>1 DEF CacheInv, KeysBehind
    <3>2. pc = "key directory" => got \in KeyDirectory
      BY <1>5 DEF readKeys, clearKeys, openKey, copyKey, Goto, ReturnAmid, Return
    <3>3. QED
      BY <1>1, <3>1, <3>2 DEF CacheInv, KeysBehind
  <2>4. pc' \in { "clear", "key", "key data", "look" }
    BY <1>5 DEF readKeys, clearKeys, openKey, copyKey, Goto, ReturnAmid, Return
  <2>5. pc' = "look" => KeysAreOf(got)'
    <3>1. ASSUME pc' = "look"
          PROVE  pc = "key" /\ n > Len(KeysOf[got]) /\ keys' = keys
      BY <3>1 DEF readKeys, clearKeys, openKey, copyKey, Goto, ReturnAmid, Return
    <3>2. ASSUME pc' = "look"
          PROVE  KeysAreOf(got)
      BY <3>1, <3>2, KeysCopied
    <3>3. ASSUME pc' = "look"
          PROVE  KeysAreOf(got)'
      BY <1>1, <3>1, <3>2, <3>3 DEF KeysAreOf, Whole, None
    <3>4. QED
      BY <3>3
  <2>6. pc' = "key data" => "keys" \in touched'
    <3>1. SUFFICES ASSUME pc' = "key data"
                   PROVE  "keys" \in touched'
      OBVIOUS
    <3>2. /\ pc = "key" /\ n <= Len(KeysOf[got])
          /\ keys' = [keys EXCEPT ![KeysOf[got][n]] = Part(got)]
      BY <3>1 DEF readKeys, clearKeys, openKey, copyKey, Goto, ReturnAmid, Return
    <3>3. KeysOf[got][n] \in Key
      BY <3>2, KeyAtHand
    <3>4. keys[KeysOf[got][n]] \in { None, Whole(got) }
      BY <3>2, <3>3 DEF KeysDone
    <3>5. Part(got) # None /\ Part(got) # Whole(got)
      BY <3>2, ContentsDiffer DEF Trusting
    <3>6. keys'[KeysOf[got][n]] = Part(got)
      BY <3>2, <3>3 DEF TypeOK, FilesOK
    <3>7. keys' # keys
      BY <3>4, <3>5, <3>6
    <3>8. QED
      BY <3>7, TouchedGrows
  <2>7. QED
    BY <1>1, <2>1, <2>2, <2>3, <2>4, <2>5, <2>6, KeyLoopGoesOn
<1>6. QED
  BY <1>3, <1>4, <1>5

\* The run ends well, or does not find its tools: the cache is good, and the
\* record of runs that were cut short is kept, or cleared by an update.
LEMMA LookKeeps ==
  ASSUME TypeOK, ListedWasServed, GotListed, UpdateInv, CacheInv, Action, History, ~Run, lookAgain
  PROVE  CacheInv' /\ Available'
<1>1. /\ pc = "look" /\ pc' = "idle" /\ bin' = bin /\ keys' = keys
      /\ UNCHANGED << update, onPath, host, listed >>
      /\ result' = IF missingTools(onPath) = {} THEN "ok" ELSE "not found"
  BY DEF lookAgain, ReturnAmid, Return, Unchanged, cacheVars, flagVars, serverVars
<1>2. cut' = (cut /\ ~update)
  BY <1>1 DEF History
<1>3. got \in listed
  BY <1>1 DEF GotListed, Trusting
<1>4. ~cut' => \A t \in Tool : GoodTool(t)
  <2>1. ~cut => \A t \in Tool : GoodTool(t)
    BY <1>1 DEF CacheInv, WholeTools
  <2>2. update => \A t \in Tool : GoodTool(t)
    BY <1>1, <1>3 DEF UpdateInv, LoopsBehind, GoodTool
  <2>3. QED
    BY <1>2, <2>1, <2>2
<1>5. needKeys => GoodKeys
  BY <1>1, <1>3 DEF CacheInv, KeysBehind, GoodKeys
<1>6. ~cut' => GoodKeys
  <2>1. update => needKeys
    BY <1>1 DEF UpdateInv, LoopsBehind
  <2>2. ~cut /\ ~needKeys => GoodKeys
    BY <1>1 DEF CacheInv, KeysBehind, WholeKeys
  <2>3. QED
    BY <1>2, <1>5, <2>1, <2>2
<1>7. KeysOrNone
  <2>1. CASE ~needKeys
    BY <1>1, <2>1 DEF CacheInv, KeysBehind, KeysOrNone
  <2>2. CASE needKeys
    <3>1. got \in KeyDirectory /\ KeysAreOf(got)
      BY <1>1, <2>2 DEF CacheInv, KeysBehind
    <3>2. KeysOf[got] # << >> => haveCachedKeys
      BY <1>1, <3>1, CopiedKeysThere DEF Trusting
    <3>3. QED
      BY <1>3, <3>1, <3>2 DEF KeysOrNone, NoKeyInDirectory
  <2>3. QED
    BY <2>1, <2>2
<1>8. /\ ~cut' => GoodKeys' /\ \A t \in Tool : GoodTool(t)'
      /\ KeysOrNone'
  <2>1. got' = got /\ listed' = listed
    BY <1>1 DEF lookAgain
  <2>2. haveCachedKeys' = haveCachedKeys
    BY <1>1, GoodStays
  <2>3. KeysOrNone'
    BY <1>7, <2>1, <2>2 DEF KeysOrNone, NoKeyInDirectory
  <2>4. QED
    BY <1>1, <1>4, <1>6, <2>3, GoodStays
<1>9. CASE result' = "ok"
  <2>1. missingTools(onPath) = {}
    BY <1>1, <1>9
  <2>2. missingTools(onPath)' = {}
    BY <1>1, <2>1 DEF missingTools, LookPath, extendPath
  <2>3. Available'
    BY <1>8, <2>2, GoodIsAvailableThen DEF FoundAndGood
  <2>4. QED
    BY <1>1, <1>8, <2>3 DEF CacheInv, WholeTools, WholeKeys, KeysBehind
<1>10. CASE result' # "ok"
  BY <1>1, <1>8, <1>10 DEF CacheInv, WholeTools, WholeKeys, KeysBehind, Available, Ended
<1>11. QED
  BY <1>9, <1>10

\* What the server does changes nothing on the host, and only adds to its list.
LEMMA ServerKeeps ==
  ASSUME TypeOK, ListedWasServed, CacheInv, Available, Action, History, ~Run, Server
  PROVE  CacheInv' /\ Available'
<1>1. /\ UNCHANGED << host, pc, n, onPath, needVars, got, result >>
      /\ bin' = bin /\ keys' = keys
  BY DEF Server, cacheVars, flagVars
<1>2. touched' = touched /\ cut' = cut
  <2>1. touched' = touched
    BY <1>1, TouchedGrows DEF cacheVars
  <2>2. pc = "idle" \/ pc' # "idle"
    BY <1>1
  <2>3. QED
    BY <2>1, <2>2 DEF History
<1>3. WholeTools'
  BY <1>1, <1>2, GoodStays DEF CacheInv, WholeTools
<1>4. WholeKeys'
  BY <1>1, <1>2, GoodStays DEF CacheInv, WholeKeys
<1>5. KeysBehind'
  <2>1. /\ needBinaries' = needBinaries /\ needKeys' = needKeys
        /\ haveCachedKeys' = haveCachedKeys
        /\ KeysAreOf(got) => KeysAreOf(got)'
    BY <1>1, GoodStays DEF needVars, KeysAreOf, Whole, None
  <2>2. QED
    BY <1>1, <1>2, <2>1 DEF CacheInv, KeysBehind
<1>6. Available'
  <2>1. listed \subseteq listed'
    BY ListedGrows
  <2>2. SUFFICES ASSUME Ended({ "ok" })
                 PROVE  Available'
    BY <1>1 DEF Available, Ended
  <2>3. /\ \A t \in Tool : LookPath(t, onPath)'
        /\ (haveCachedKeys \/ NoKeyInDirectory)'
    BY <1>1, <2>2 DEF Available, LookPath, extendPath, haveCachedKeys, NoKeyInDirectory, None
  <2>4. ~cut => \A t \in Tool \ host : \E a \in listed' : bin'[t] = Whole(a)
    BY <1>1, <2>1, <2>2 DEF Available
  <2>5. ~cut => \E a \in listed' : KeysAreOf(a)'
    BY <1>1, <2>1, <2>2, GoodStays DEF Available
  <2>6. QED
    BY <1>1, <1>2, <2>3, <2>4, <2>5 DEF Available, Whole
<1>7. QED
  BY <1>3, <1>4, <1>5, <1>6 DEF CacheInv

\* Each step of a run, or of its environment, keeps the cache good.
LEMMA CacheStep ==
  ASSUME TypeOK, ListedWasServed, GotListed, TouchedLate, UpdateInv, CacheInv, Available,
         Action, History
  PROVE  CacheInv' /\ Available'
<1>1. CASE Run
  BY <1>1, BeginKeeps
<1>2. CASE ~Run
  <2>1. CASE \/ confirm \/ downloadSums \/ downloadTarball \/ lookupTar \/ createTemp
             \/ downloadFails \/ verifyChecksum \/ extract
    BY <1>2, <2>1, PrepareKeeps
  <2>2. CASE openTool \/ copyTool
    BY <1>2, <2>2, ToolsKeep
  <2>3. CASE readKeys \/ clearKeys \/ openKey \/ copyKey
    BY <1>2, <2>3, KeysKeep DEF UpdateInv
  <2>4. CASE lookAgain
    BY <1>2, <2>4, LookKeeps
  <2>5. CASE Interrupt
    <3>1. /\ pc # "idle" /\ pc' = "idle" /\ result' = "interrupted" /\ UNCHANGED cacheVars
      BY <2>5 DEF Interrupt, Return
    <3>2. QED
      BY <1>2, <3>1, EndsEarly
  <2>6. CASE Server
    BY <1>2, <2>6, ServerKeeps
  <2>7. QED
    BY <1>2, <2>1, <2>2, <2>3, <2>4, <2>5, <2>6 DEF Action, Step
<1>3. QED
  BY <1>1, <1>2

\* A run that ends well has the tools on PATH and keys in the cache, for any
\* tools and archives, but for keys if the archive it downloaded has a key
\* directory without any; unless a run before it ended amid its copies and no
\* update came since, these are whole tools, and all the keys of one archive
\* and no other.
THEOREM EndsWithToolsAndKeys == Spec => [](CacheInv /\ Available)
<1>1. Init => CacheInv /\ Available
  BY DEF Init, CacheInv, WholeTools, WholeKeys, KeysBehind, GoodTool, GoodKeys, haveCachedKeys,
     Available, Ended
<1>2. TypeOK /\ ListedWasServed /\ GotListed /\ TouchedLate /\ UpdateInv /\ CacheInv
        /\ Available /\ [Next]_vars => (CacheInv /\ Available)'
  <2> SUFFICES ASSUME TypeOK, ListedWasServed, GotListed, TouchedLate, UpdateInv, CacheInv,
                      Available, [Next]_vars
               PROVE  (CacheInv /\ Available)'
    OBVIOUS
  <2>1. CASE Next
    <3>1. Action /\ History
      BY <2>1 DEF Next, Action, Run
    <3>2. QED
      BY <3>1, CacheStep
  <2>2. CASE UNCHANGED vars
    <3>1. UNCHANGED << listed, host, bin, keys, onPath, pc, n, needBinaries, needKeys, got,
                       result, touched, cut >>
      BY <2>2 DEF vars, serverVars, cacheVars, flagVars, needVars, historyVars
    <3>2. haveCachedKeys' = haveCachedKeys /\ GoodKeys' = GoodKeys
      BY <3>1 DEF haveCachedKeys, GoodKeys, KeysAreOf, Whole, None
    <3>3. \A t \in Tool : GoodTool(t)' = GoodTool(t)
      BY <3>1 DEF GoodTool, Whole, None
    <3>4. WholeTools' /\ WholeKeys'
      BY <3>1, <3>2, <3>3 DEF CacheInv, WholeTools, WholeKeys
    <3>5. KeysBehind'
      BY <3>1, <3>2 DEF CacheInv, KeysBehind, KeysAreOf, Whole, None
    <3>6. Available'
      BY <3>1, <3>2 DEF Available, Ended, LookPath, extendPath, KeysAreOf, NoKeyInDirectory,
         Whole, None
    <3>7. QED
      BY <3>4, <3>5, <3>6 DEF CacheInv
  <2>3. QED
    BY <2>1, <2>2
<1>3. QED
  BY <1>1, <1>2, TypeCorrect, InstalledWasVerified, FailureLeavesCache, UpdateInstallsExactly, PTL
  DEF Spec
=============================================================================
