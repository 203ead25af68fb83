----------------------------- MODULE XbpsCache -----------------------------
(***************************************************************************)
(* cmd/void-initfs, xbps.go: ensureXbps over several runs on one host.  It *)
(* sees to it that the xbps tools are on PATH and that the repository keys *)
(* are cached, downloading Void's static archive if it has to.  Between    *)
(* any two calls the run may be interrupted (Ctrl-C ends the process with  *)
(* os.Exit, which runs no deferred call; so does a crash), any call may    *)
(* fail, and the server may publish, stall or deliver other bytes.         *)
(*                                                                         *)
(* A file is known by the archive it was copied from, and whether all of   *)
(* it was: copyFile truncates before it writes.                            *)
(***************************************************************************)
EXTENDS Naturals, Sequences

CONSTANTS
  xbpsTools,  \* the tools that are needed, a sequence
  Key,        \* names of key files, *.plist
  Latest,     \* bound: versions of the archive that are published over time
  ToolsOf,    \* the tools that an archive holds: a set for each
  KeyDirectory, \* the archives that have a key directory
  KeysOf,     \* the files *.plist in it, in directory order; there may be none
  Hosts,      \* sets of tools that a host may have from its own packages
  MaxRuns,    \* bound: runs of void-initfs -o
  MaxCuts     \* bound: runs that are interrupted

Tool == { xbpsTools[k] : k \in DOMAIN xbpsTools }

\* Archives are numbered as they are published.  There are bytes that are none
\* of them, damaged or from someone else, and files that come from nowhere.
Archive   == 1 .. Latest
NoArchive == 0
Forged    == Latest + 1

ASSUME LatestAssumption == Latest \in Nat \ { 0 }
ASSUME ToolsAssumption ==
  /\ xbpsTools \in Seq(Tool)
  /\ ToolsOf \in [Archive \union { Forged } -> SUBSET Tool]
ASSUME KeysAssumption ==
  /\ KeyDirectory \subseteq Archive \union { Forged }
  /\ KeysOf \in [Archive \union { Forged } -> Seq(Key)]
  /\ \A a \in (Archive \union { Forged }) \ KeyDirectory : KeysOf[a] = << >>
ASSUME HostsAssumption == Hosts \subseteq SUBSET Tool
ASSUME BoundsAssumption == MaxRuns \in Nat /\ MaxCuts \in Nat

VARIABLES
  served,    \* what the server delivers for the "-latest" alias
  listed,    \* the archives whose digests sha256sums.txt holds
  host,      \* tools found in other directories on PATH
  bin,       \* the tools in localBinDir
  keys,      \* the files in localKeysDir
  update,    \* the run's --update-xbps
  onPath,    \* localBinDir is on the PATH it was started with
  pc, n,     \* where it is, and the index of its loop over tools or keys
  needBinaries, needKeys,
  sums,      \* the digests in the sha256sums.txt it downloaded
  got,       \* the archive it downloaded
  tmp,       \* what this run has in the directory for temporary files
  result,    \* how the last run ended
  touched,   \* history: which of bin and keys the run has changed
  cut,       \* history: a run ended amid its copies, and no update since
  runs, cuts

serverVars == << served, listed >>
cacheVars  == << bin, keys >>
flagVars   == << update, onPath >>
needVars   == << needBinaries, needKeys >>
historyVars == << touched, cut >>
boundVars  == << runs, cuts >>
vars == << serverVars, host, cacheVars, flagVars, pc, n, needVars, sums, got, tmp,
           result, historyVars, boundVars >>

None     == [of |-> NoArchive, whole |-> FALSE]
Part(a)  == [of |-> a, whole |-> FALSE]
Whole(a) == [of |-> a, whole |-> TRUE]

\* The key cache is a copy of archive a's keys.
KeysAreOf(a) ==
  \A k \in Key :
    keys[k] = IF \E j \in DOMAIN KeysOf[a] : KeysOf[a][j] = k THEN Whole(a) ELSE None

-----------------------------------------------------------------------------
(* What ensureXbps looks at *)

\* extendPath appends localBinDir to PATH if it is there already, and so
\* never adds it.
extendPath(path) == path

\* exec.LookPath wants a file that is executable, whatever it holds, and
\* copyFile creates the tools executable.
LookPath(t, path) == t \in host \/ (extendPath(path) /\ bin[t] # None)

missingTools(path) == { t \in Tool : ~LookPath(t, path) }

\* One file whose name ends in ".plist" is enough.
haveCachedKeys == \E k \in Key : keys[k] # None

Init ==
  /\ served = 1 /\ listed = { 1 }
  /\ host \in Hosts
  /\ bin = [t \in Tool |-> None] /\ keys = [k \in Key |-> None]
  /\ update = FALSE /\ onPath = FALSE
  /\ pc = "idle" /\ n = 1
  /\ needBinaries = FALSE /\ needKeys = FALSE
  /\ sums = {} /\ got = NoArchive /\ tmp = {}
  /\ result = "none" /\ touched = {} /\ cut = FALSE
  /\ runs = 0 /\ cuts = 0

-----------------------------------------------------------------------------
(* The run *)

\* Mutant of Goto: the index of the loop before is kept.
GotoKeepsIndex(p) == pc' = p /\ UNCHANGED << n, result, needVars >>

\* Go on at p; return with r, when the variables of the loops are gone.
Goto(p) == pc' = p /\ n' = 1 /\ UNCHANGED << result, needVars >>
Return(r) ==
  /\ pc' = "idle" /\ result' = r
  /\ n' = 1 /\ needBinaries' = FALSE /\ needKeys' = FALSE

\* "return err" below the deferred removal of the directory.
ReturnAmid(r) == Return(r) /\ tmp' = tmp \ { "extract" }

Unchanged == UNCHANGED << serverVars, host, flagVars, boundVars >>

\* Mutant of renew: the flag renews the tools only.
RenewToolsOnly(u, p) == << u \/ missingTools(p) # {}, ~haveCachedKeys >>

\* Mutant of renew: missing keys alone are not fetched.
KeysWithToolsOnly(u, p) == << u \/ missingTools(p) # {}, u \/ missingTools(p) # {} >>

\* Whether the tools, and the keys, are to be installed.
renew(u, p) == << u \/ missingTools(p) # {}, u \/ ~haveCachedKeys >>

\* preflight calls ensureXbps: there may be nothing to do, and -y answers for
\* the user.
ensureXbps(u, y, p) ==
  /\ pc = "idle" /\ runs < MaxRuns
  /\ runs' = runs + 1
  /\ update' = u /\ onPath' = p
  /\ tmp' = {} /\ got' = NoArchive
  /\ IF renew(u, p) = << FALSE, FALSE >> THEN Return("ok") ELSE
       /\ pc' = IF y THEN "tar" ELSE "confirm"
       /\ needBinaries' = renew(u, p)[1] /\ needKeys' = renew(u, p)[2]
       /\ UNCHANGED << n, result >>
  /\ UNCHANGED << serverVars, host, cacheVars, sums, cuts >>

\* The user may refuse.
confirm ==
  /\ pc = "confirm"
  /\ Goto("tar") \/ Return("declined")
  /\ Unchanged /\ UNCHANGED << cacheVars, sums, got, tmp >>

\* tar has to be installed for the downloads to begin.
lookupTar ==
  /\ pc = "tar"
  /\ Goto("sums") \/ Return("no tar")
  /\ Unchanged /\ UNCHANGED << cacheVars, sums, got, tmp >>

\* The server answers the request for sha256sums.txt.
downloadSums ==
  /\ pc = "sums" /\ sums' = listed /\ Goto("temp")
  /\ Unchanged /\ UNCHANGED << cacheVars, got, tmp >>

createTemp ==
  /\ pc = "temp"
  /\ \/ tmp' = { "tarball" } /\ Goto("tarball")
     \/ Return("temp") /\ UNCHANGED tmp
  /\ Unchanged /\ UNCHANGED << cacheVars, sums, got >>

\* The server answers the request for the tarball, whose bytes go to the
\* temporary file and the hash at once; they may not be what was published.
downloadTarball ==
  /\ pc = "tarball" /\ got' \in { served, Forged } /\ Goto("verify")
  /\ Unchanged /\ UNCHANGED << cacheVars, sums, tmp >>

\* Mutant of downloadFails: a request without timeouts, for the tarball.
FailsWithoutTimeout ==
  /\ pc = "sums" /\ Return("download")
  /\ Unchanged /\ UNCHANGED << cacheVars, sums, got, tmp >>

\* A download that fails, or that ends at the timeouts of the client because
\* the server does not answer, or not fast enough.
downloadFails ==
  /\ pc \in { "sums", "tarball" } /\ Return("download")
  /\ tmp' = tmp \ { "tarball" }
  /\ Unchanged /\ UNCHANGED << cacheVars, sums, got >>

\* Mutant of verifyChecksum: any digest does if the file lists something.
VerifyNotEmpty ==
  /\ pc = "verify"
  /\ sums # {} /\ Goto("extract") /\ sums' = {}
  /\ Unchanged /\ UNCHANGED << cacheVars, got, tmp >>

\* The digest is anywhere in the list that was downloaded before, which is
\* then of no more use.
verifyChecksum ==
  /\ pc = "verify"
  /\ \/ got \in sums /\ Goto("extract") /\ UNCHANGED tmp
     \/ got \notin sums /\ Return("untrusted") /\ tmp' = tmp \ { "tarball" }
  /\ sums' = {}
  /\ Unchanged /\ UNCHANGED << cacheVars, got >>

\* Mutant of Install: keys or tools, not both.
InstallOne == IF needKeys THEN "key directory" ELSE "tool"

\* Where the run goes on with what is needed: tools first, then keys.
Install == IF needBinaries THEN "tool" ELSE "key directory"

\* Mutant of extract: a failing tar leaves the directory.
ExtractDirStays ==
  /\ pc = "extract"
  /\ \/ tmp' = { "extract" } /\ (Goto(Install) \/ Return("extract"))
     \/ tmp' = {} /\ Return("extract")
  /\ Unchanged /\ UNCHANGED << cacheVars, sums, got >>

\* os.MkdirTemp and tar; the tarball is removed when the function returns,
\* the directory only when tar fails.
extract ==
  /\ pc = "extract"
  /\ \/ tmp' = { "extract" } /\ Goto(Install)
     \/ tmp' = {} /\ Return("extract")
  /\ Unchanged /\ UNCHANGED << cacheVars, sums, got >>

\* installExtractedXbps, its loop over xbpsTools: copyFile opens the target,
\* which truncates it.
openTool ==
  /\ pc = "tool"
  /\ Unchanged /\ UNCHANGED << keys, sums, got >>
  /\ \/ /\ n <= Len(xbpsTools) /\ xbpsTools[n] \in ToolsOf[got]
        /\ bin' = [bin EXCEPT ![xbpsTools[n]] = Part(got)]
        /\ pc' = "tool data" /\ UNCHANGED << n, result, needVars, tmp >>
     \/ /\ n <= Len(xbpsTools)
        /\ UNCHANGED bin
        /\ ReturnAmid(IF xbpsTools[n] \in ToolsOf[got] THEN "copy" ELSE "no tool")
     \/ /\ n > Len(xbpsTools)
        /\ Goto(IF needKeys THEN "key directory" ELSE "look")
        /\ UNCHANGED << bin, tmp >>

\* io.Copy and chmod.
copyTool ==
  /\ pc = "tool data"
  /\ Unchanged /\ UNCHANGED << keys, sums, got >>
  /\ \/ /\ bin' = [bin EXCEPT ![xbpsTools[n]] = Whole(got)]
        /\ pc' = "tool" /\ n' = n + 1 /\ UNCHANGED << result, needVars, tmp >>
     \/ /\ bin' \in { bin, [bin EXCEPT ![xbpsTools[n]] = Whole(got)] }
        /\ ReturnAmid("copy")

\* Mutant of readKeys: the cache is cleared before the directory is read.
ClearBeforeReading ==
  /\ pc = "key directory"
  /\ Unchanged /\ UNCHANGED << bin, sums, got >>
  /\ keys' = [k \in Key |-> None]
  /\ \/ got \in KeyDirectory /\ Goto("key") /\ UNCHANGED tmp
     \/ got \notin KeyDirectory /\ ReturnAmid("no directory")

\* installExtractedKeys reads the archive's key directory before it touches
\* the cache.  That there is one is enough: it may hold no *.plist.
readKeys ==
  /\ pc = "key directory"
  /\ \/ got \in KeyDirectory /\ Goto("clear") /\ UNCHANGED tmp
     \/ ReturnAmid("no directory")
  /\ Unchanged /\ UNCHANGED << cacheVars, sums, got >>

\* Mutant of clearKeys: old keys stay.
KeysNotCleared ==
  /\ pc = "clear"
  /\ Goto("key") /\ UNCHANGED << keys, tmp >>
  /\ Unchanged /\ UNCHANGED << bin, sums, got >>

\* os.RemoveAll deletes the files one by one; os.MkdirAll.
clearKeys ==
  /\ pc = "clear"
  /\ Unchanged /\ UNCHANGED << bin, sums, got >>
  /\ \/ /\ \E k \in Key : keys[k] # None /\ keys' = [keys EXCEPT ![k] = None]
        /\ UNCHANGED << pc, n, result, needVars, tmp >>
     \/ ~haveCachedKeys /\ Goto("key") /\ UNCHANGED << keys, tmp >>
     \/ UNCHANGED keys /\ ReturnAmid("copy")

openKey ==
  /\ pc = "key"
  /\ Unchanged /\ UNCHANGED << bin, sums, got >>
  /\ \/ /\ n <= Len(KeysOf[got])
        /\ \/ /\ keys' = [keys EXCEPT ![KeysOf[got][n]] = Part(got)]
              /\ pc' = "key data" /\ UNCHANGED << n, result, needVars, tmp >>
           \/ UNCHANGED keys /\ ReturnAmid("copy")
     \/ /\ n > Len(KeysOf[got])
        /\ Goto("look") /\ UNCHANGED << keys, tmp >>

copyKey ==
  /\ pc = "key data"
  /\ Unchanged /\ UNCHANGED << bin, sums, got >>
  /\ \/ /\ keys' = [keys EXCEPT ![KeysOf[got][n]] = Whole(got)]
        /\ pc' = "key" /\ n' = n + 1 /\ UNCHANGED << result, needVars, tmp >>
     \/ /\ keys' \in { keys, [keys EXCEPT ![KeysOf[got][n]] = Whole(got)] }
        /\ ReturnAmid("copy")

\* The tools are looked up once more.
lookAgain ==
  /\ pc = "look"
  /\ ReturnAmid(IF missingTools(onPath) = {} THEN "ok" ELSE "not found")
  /\ Unchanged /\ UNCHANGED << cacheVars, sums, got >>

Step ==
  \/ lookupTar \/ createTemp \/ downloadFails \/ verifyChecksum \/ extract
  \/ openTool \/ copyTool \/ readKeys \/ clearKeys \/ openKey \/ copyKey \/ lookAgain

-----------------------------------------------------------------------------
(* The environment *)

\* Ctrl-C, which the handler answers with os.Exit(1), or a crash.
Interrupt ==
  /\ pc # "idle" /\ cuts < MaxCuts
  /\ Return("interrupted") /\ cuts' = cuts + 1
  /\ UNCHANGED << serverVars, host, cacheVars, flagVars, sums, got, tmp, runs >>

\* The alias may serve a new archive before its digest is listed.
Publish ==
  \/ served < Latest /\ served' = served + 1 /\ UNCHANGED listed
  \/ listed' = 1 .. served /\ UNCHANGED served

Server ==
  /\ Publish
  /\ UNCHANGED << host, cacheVars, flagVars, pc, n, needVars, sums, got, tmp,
                  result, boundVars >>

\* What the properties remember.  An update renews what an earlier run left
\* half done.
History ==
  /\ touched' = IF runs' # runs THEN {} ELSE
       touched \union (IF bin' # bin THEN { "bin" } ELSE {})
               \union (IF keys' # keys THEN { "keys" } ELSE {})
  /\ cut' = IF pc = "idle" \/ pc' # "idle" THEN cut
            ELSE IF result' \in { "ok", "not found" } THEN cut /\ ~update
            ELSE cut \/ touched' # {}

Next ==
  /\ \/ \E u, y, p \in BOOLEAN : ensureXbps(u, y, p)
     \/ confirm \/ downloadSums \/ downloadTarball \/ Step
     \/ Interrupt \/ Server
  /\ History

Spec == Init /\ [][Next]_vars

\* The run goes on, but nobody has to answer its question, and the server
\* does not have to answer its requests.
FairSpec == Spec /\ WF_vars(Step /\ History)

-----------------------------------------------------------------------------
(* Properties *)

Bytes == Archive \union { Forged, NoArchive }
Content == [of : Bytes, whole : BOOLEAN]

FilesOK ==
  /\ served \in Archive /\ listed \subseteq Archive
  /\ host \subseteq Tool
  /\ bin \in [Tool -> Content] /\ keys \in [Key -> Content]
  /\ sums \subseteq listed /\ got \in Bytes

FlagsOK ==
  /\ update \in BOOLEAN /\ onPath \in BOOLEAN
  /\ needBinaries \in BOOLEAN /\ needKeys \in BOOLEAN /\ cut \in BOOLEAN

Looping == { "tool", "tool data", "key", "key data" }
Place   == Looping \union { "idle", "confirm", "tar", "sums", "temp", "tarball", "verify",
                            "extract", "key directory", "clear", "look" }
Result  == { "none", "ok", "declined", "no tar", "download", "temp", "untrusted",
             "extract", "no tool", "copy", "no directory", "not found", "interrupted" }

ControlOK ==
  /\ pc \in Place /\ result \in Result
  /\ n \in Nat \ { 0 } /\ (n # 1 => pc \in Looping)
  /\ tmp \subseteq { "tarball", "extract" } /\ touched \subseteq { "bin", "keys" }
  /\ runs \in 0 .. MaxRuns /\ cuts \in 0 .. MaxCuts

TypeOK == FilesOK /\ FlagsOK /\ ControlOK

Ended(R) == pc = "idle" /\ result \in R

\* xbps.go:26-37, 163-164: whatever is installed as a tool or cached as a key
\* is out of an archive whose digest the server has listed, at every moment.
OnlyVerifiedInstalled ==
  \A c \in { bin[t] : t \in Tool } \union { keys[k] : k \in Key } :
    c = None \/ c.of \in listed

\* The archive of the run has a key directory without a key in it.
NoKeyInDirectory == got \in KeyDirectory /\ KeysOf[got] = << >>

\* xbps.go:58-63: a run that ends well has the tools on PATH and keys in the
\* cache, but for keys if the archive it downloaded has a key directory
\* without any.  Unless some run before it ended amid its copies, these are
\* whole tools, and all the keys of one archive and no other.
Available ==
  Ended({ "ok" }) =>
    /\ \A t \in Tool : LookPath(t, onPath)
    /\ haveCachedKeys \/ NoKeyInDirectory
    /\ cut \/ /\ \A t \in Tool \ host : \E a \in listed : bin[t] = Whole(a)
              /\ \E a \in listed : KeysAreOf(a)

\* xbps.go:62-63, 321-326: an update leaves whole tools and exactly the keys
\* of the archive it downloaded, whatever interrupted runs left before.
UpdateIsExact ==
  (update /\ Ended({ "ok", "not found" })) =>
    (\A t \in Tool : bin[t] = Whole(got)) /\ KeysAreOf(got)

\* xbps.go:163-164, 327-339: a run that fails before it has verified and
\* unpacked an archive leaves tools and keys alone, and one that does not get
\* to read the archive's key directory leaves the keys alone.
FailureKeepsCache ==
  /\ Ended({ "declined", "no tar", "download", "temp", "untrusted", "extract" })
       => touched = {}
  /\ Ended({ "no directory" }) => "keys" \notin touched

\* xbps.go:97-101: after a download the tools can only be missing if the PATH
\* the program was started with lacks localBinDir.
NotFoundOnlyOffPath == Ended({ "not found" }) => ~onPath

\* xbps.go:84, 181, 206: a run that is not interrupted leaves none of its
\* temporary files.
NothingLeftInTmp == pc = "idle" /\ result # "interrupted" => tmp = {}

\* xbps.go:236-242: once the user has agreed, the run ends, even if the server
\* stops answering for good.
RunEnds == pc \notin { "idle", "confirm" } ~> pc = "idle"

\* xbps.go:58-63, 132-134: a run that went through, no call of it failing, has made
\* sure of the tools, which exec.LookPath finds in localBinDir, and of the keys,
\* which are in the cache.
MadeSure ==
  /\ ~Ended({ "not found" })
  /\ Ended({ "ok" }) => haveCachedKeys
=============================================================================
