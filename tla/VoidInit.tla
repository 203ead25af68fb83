------------------------------ MODULE VoidInit ------------------------------
(***************************************************************************)
(* cmd/void-init: the program that rc.local runs once per boot, over       *)
(* several boots of one machine.  Each call that changes something is a    *)
(* step of the run (todo lists those that are left), so the machine may    *)
(* crash, or the call fail, between any two of them.  Files and runit      *)
(* services survive a reboot; addresses, routes and the kernel's hostname  *)
(* do not.  Between boots the hypervisor may attach other media, and the   *)
(* administrator may edit the files below their marker line.               *)
(*                                                                         *)
(* Names, keys and addresses are uninterpreted values, "" where user-data  *)
(* leaves one out; a managed file is its head (all up to the marker), the  *)
(* user's section, and whether its mode was set.                           *)
(***************************************************************************)
EXTENDS Naturals, Sequences, SequencesExt

CONSTANTS
  Media,       \* possible media: sequences of devices, in glob order
  Mac,         \* hardware addresses of this machine's interfaces
  Faults,      \* a subset of {"call", "mount"}: what may fail
  MaxRuns,     \* bound: runs of void-init
  MaxCrashes   \* bound: boots that end in a crash during the run

ASSUME FaultsAssumption == Faults \subseteq { "call", "mount" }
ASSUME BoundsAssumption == MaxRuns \in Nat /\ MaxCrashes \in Nat

\* Lists are sequences: the devices, a file on a device (none or one), and the
\* entries and subnets of a network-config.
IsSeq(s) == s \in Seq(Range(s))

NetIsSeq(n) == IsSeq(n.config) /\ \A d \in Range(n.config) : IsSeq(d.subnets)

ASSUME MediaAssumption ==
  \A m \in Media :
    /\ IsSeq(m)
    /\ \A d \in Range(m) : IsSeq(d.net) /\ \A n \in Range(d.net) : NetIsSeq(n)

File == { "authorized_keys", "dhcpcd.conf", "resolv.conf", "hosts" }

VARIABLES
  media,     \* the devices attached now
  status,    \* the machine is "off", or the run is "running", "ok", "failed"
  todo,      \* the steps of this run that are left
  user, net, \* the parsed user-data and network-config of this run
  from,      \* the devices they were found on
  carry,     \* writeManagedFile's userSection
  files,     \* the managed files
  edits,     \* history: what the user appended to each file
  hostname,  \* /etc/hostname
  password,  \* the user's password hash in /etc/shadow
  owned,     \* what was given to the user: .ssh, authorized_keys
  services,  \* links in runsvdir/current
  kernel,    \* the running kernel: hostname, up, addrs, routes
  runs, crashes

runVars  == << todo, user, net, from, carry >>
diskVars == << files, hostname, password, owned, services >>
envVars  == << media, edits, runs, crashes >>
vars == << status, runVars, diskVars, kernel, envVars >>

NoFile == [there |-> FALSE, head |-> << >>, section |-> "", mode |-> FALSE]
NoUser == [valid |-> FALSE, hostname |-> "", manage |-> FALSE, name |-> "",
           password |-> "", keys |-> ""]
NoNet  == [valid |-> FALSE, config |-> << >>]

\* A step of the run: what it does, to what, with which value.
Do(op, on, value) == [op |-> op, on |-> on, value |-> value]

-----------------------------------------------------------------------------
(* The steps that a configuration calls for *)

ManagedFileWithoutChmod(f, head) ==   \* mutant: os.WriteFile's perm is relied on
  << Do("read", f, ""), Do("truncate", f, ""), Do("write", f, head) >>

\* writeManagedFile: read the user's section, then os.WriteFile, which
\* truncates before it writes, then chmod.
writeManagedFile(f, head) ==
  << Do("read", f, ""), Do("truncate", f, ""), Do("write", f, head), Do("chmod", f, "") >>

ApplyUserData(u) ==
  (IF u.hostname = "" THEN << >> ELSE
     << Do("truncateHostname", "", ""), Do("writeHostname", "", u.hostname),
        Do("sethostname", "", u.hostname) >>)
  \o (IF u.name = "" \/ u.password = "" THEN << >> ELSE
        << Do("chpasswd", "", u.password) >>)
  \o (IF u.name = "" \/ u.keys = "" THEN << >> ELSE
        << Do("chown", ".ssh", "") >> \o writeManagedFile("authorized_keys", << u.keys >>)
        \o << Do("chown", "authorized_keys", "") >>)

applyDynamicNetwork(mac) ==
  << Do("up", mac, "") >> \o writeManagedFile("dhcpcd.conf", << "template" >>)
  \o << Do("enable", "dhcpcd", "") >>

\* A subnet without a prefix or netmask is an error before anything is run.
applyStaticNetwork(mac, s) ==
  IF ~s.prefix THEN << Do("error", "", "") >> ELSE
  << Do("up", mac, ""), Do("addr", mac, s.address) >>
  \o (IF s.gateway = << >> THEN << >> ELSE << Do("route", "", s.gateway) >>)
  \o << Do("disable", "dhcpcd", "") >>

subnetSteps(mac, s) ==
  CASE s.type = "dynamic" -> applyDynamicNetwork(mac)
    [] s.type = "static"  -> applyStaticNetwork(mac, s)
    [] OTHER              -> << Do("error", "", "") >>

deviceSteps(d) ==
  CASE d.type = "physical" ->
         << Do("lookup", d.mac, "") >>
         \o FlattenSeq([k \in DOMAIN d.subnets |-> subnetSteps(d.mac, d.subnets[k])])
    [] d.type = "nameserver" -> << >>
    [] OTHER -> << Do("error", "", "") >>

nameservers(n) ==
  UNION ({ n[k].address : k \in { j \in DOMAIN n : n[j].type = "nameserver" } }
    \union UNION { { n[k].subnets[j].dns : j \in { l \in DOMAIN n[k].subnets :
                                                   n[k].subnets[l].type = "static" } } :
                   k \in { j \in DOMAIN n : n[j].type = "physical" } })

applyResolvConf(n) ==
  IF nameservers(n) = {} THEN << >> ELSE writeManagedFile("resolv.conf", << nameservers(n) >>)

ResolvConfPerDevice(n) ==   \* mutant: resolv.conf is written for each device
  FlattenSeq([k \in DOMAIN n |-> deviceSteps(n[k]) \o applyResolvConf(<< n[k] >>)])

ApplyNetworkConfig(n) ==
  FlattenSeq([k \in DOMAIN n |-> deviceSteps(n[k])]) \o applyResolvConf(n)

\* What a hostname stands for if no address is configured.
LoopbackAlias == "127.0.1.1"

AddressOfFirstSubnet(n) ==   \* mutant: whatever the type of the subnet is
  LET all == FlattenSeq([k \in DOMAIN n |-> n[k].subnets])
  IN  IF all = << >> THEN LoopbackAlias ELSE all[1].address

\* The first static address of the configuration, or the loopback alias.
staticAddress(n) ==
  LET all   == FlattenSeq([k \in DOMAIN n |-> n[k].subnets])
      first == SelectInSeq(all, LAMBDA s : s.type = "static")
  IN  IF first = 0 THEN LoopbackAlias ELSE all[first].address

ApplyHosts(u, address) ==
  IF ~u.manage \/ u.hostname = "" THEN << >>
  ELSE writeManagedFile("hosts", << address, u.hostname >>)

\* The end of main(): ApplyHosts, and the guest agent's service.
Finish(u, n) == ApplyHosts(u, staticAddress(n)) \o << Do("enable", "qemu-ga", "") >>

-----------------------------------------------------------------------------
(* The run *)

NoKernel == [hostname |-> "", up |-> {}, addrs |-> {}, routes |-> {}]

Init ==
  /\ media \in Media
  /\ status = "off" /\ todo = << >>
  /\ user = NoUser /\ net = NoNet /\ from = << 0, 0 >> /\ carry = ""
  /\ \E there \in BOOLEAN : files = [f \in File |-> [NoFile EXCEPT !.there = there]]
  /\ edits = [f \in File |-> ""]
  /\ hostname = "" /\ password = "" /\ owned = {} /\ services = {}
  /\ kernel = NoKernel /\ runs = 0 /\ crashes = 0

\* The first step that is left.
At(op) == status = "running" /\ todo # << >> /\ Head(todo).op = op

On    == Head(todo).on
Value == Head(todo).value
Continue == todo' = Tail(todo) /\ UNCHANGED << status, user, net, from >>

\* fatal(err)
Fatal == status' = "failed" /\ todo' = << >> /\ UNCHANGED << user, net, from >>

\* An external command, or a file operation, may fail.
MayFail == "call" \in Faults

\* findCloudInitFile: the first device that can be mounted and has the file,
\* or 0.  A device that cannot be mounted or read is skipped.
Find(name) ==
  LET has(skip) == { d \in DOMAIN media : media[d][name] # << >> /\ d \notin skip }
      first(D)  == IF D = {} THEN 0 ELSE CHOOSE d \in D : \A e \in D : d <= e
  IN  { first(has(skip)) :
          skip \in IF "mount" \in Faults THEN SUBSET DOMAIN media ELSE { {} } }

\* FindUserData, ParseUserData; then the rest is known up to the network.
FindUserData ==
  /\ At("findUserData")
  /\ \E d \in Find("user") :
       IF d = 0 THEN Fatal
       ELSE IF ~media[d].user[1].valid THEN Fatal
       ELSE LET u == media[d].user[1]
            IN  /\ user' = u /\ from' = << d, 0 >>
                /\ todo' = ApplyUserData(u) \o << Do("findNetworkConfig", "", "") >>
                /\ UNCHANGED << status, net >>
  /\ UNCHANGED << carry, diskVars, kernel, envVars >>

\* FindNetworkConfig, an error of which only skips the network setup, and
\* ParseNetworkConfig.
FindNetworkConfig ==
  /\ At("findNetworkConfig")
  /\ \E d \in Find("net") :
       IF d # 0 /\ ~media[d].net[1].valid THEN Fatal
       ELSE LET n == IF d = 0 THEN NoNet ELSE media[d].net[1]
            IN  /\ net' = n /\ from' = [from EXCEPT ![2] = d]
                /\ todo' = ApplyNetworkConfig(n.config) \o Finish(user, n.config)
                /\ UNCHANGED << status, user >>
  /\ UNCHANGED << carry, diskVars, kernel, envVars >>

\* applyHostname: os.WriteFile, which truncates first, then the kernel.
WriteHostname ==
  /\ At("truncateHostname") \/ At("writeHostname")
  /\ \/ Continue /\ hostname' = Value
     \/ MayFail /\ Fatal /\ UNCHANGED hostname
  /\ UNCHANGED << carry, files, password, owned, services, kernel, envVars >>

Sethostname ==
  /\ At("sethostname")
  /\ \/ Continue /\ kernel' = [kernel EXCEPT !.hostname = Value]
     \/ MayFail /\ Fatal /\ UNCHANGED kernel
  /\ UNCHANGED << carry, diskVars, envVars >>

\* applyPassword: chpasswd replaces the hash, or fails and leaves it.
ApplyPassword ==
  /\ At("chpasswd")
  /\ \/ Continue /\ password' = Value
     \/ MayFail /\ Fatal /\ UNCHANGED password
  /\ UNCHANGED << carry, files, hostname, owned, services, kernel, envVars >>

\* applySSHAuthorizedKeys: os.MkdirAll and os.Chown of .ssh, and os.Chown of
\* the file once it is written; looking the user up may fail, too.
Chown ==
  /\ At("chown")
  /\ \/ Continue /\ owned' = owned \union { On }
     \/ MayFail /\ Fatal /\ UNCHANGED owned
  /\ UNCHANGED << carry, files, hostname, password, services, kernel, envVars >>

ReadNothing ==   \* mutant: the file is regenerated from its template alone
  /\ At("read")
  /\ Continue /\ carry' = ""
  /\ UNCHANGED << diskVars, kernel, envVars >>

\* writeManagedFile: what follows the marker is kept for later.
Read ==
  /\ At("read")
  /\ \/ Continue /\ carry' = files[On].section
     \/ MayFail /\ Fatal /\ UNCHANGED carry
  /\ UNCHANGED << diskVars, kernel, envVars >>

\* writeManagedFile: os.WriteFile opens with O_CREATE|O_TRUNC, then writes;
\* its perm is the mode of a file that it creates.
Truncate ==
  /\ At("truncate")
  /\ \/ /\ Continue
        /\ files' = [files EXCEPT ![On] = [there |-> TRUE, head |-> << >>, section |-> "",
                                          mode |-> @.mode \/ ~@.there]]
     \/ MayFail /\ Fatal /\ UNCHANGED files
  /\ UNCHANGED << carry, hostname, password, owned, services, kernel, envVars >>

WriteContent ==
  /\ At("write")
  /\ \/ /\ Continue
        /\ files' = [files EXCEPT ![On].head = Value, ![On].section = carry]
     \/ MayFail /\ Fatal /\ UNCHANGED files
  /\ UNCHANGED << carry, hostname, password, owned, services, kernel, envVars >>

Chmod ==
  /\ At("chmod")
  /\ \/ Continue /\ files' = [files EXCEPT ![On].mode = TRUE]
     \/ MayFail /\ Fatal /\ UNCHANGED files
  /\ UNCHANGED << carry, hostname, password, owned, services, kernel, envVars >>

LookupAnything ==   \* mutant: the name in the configuration is trusted
  /\ At("lookup") /\ Continue
  /\ UNCHANGED << carry, diskVars, kernel, envVars >>

\* interfaceNameByMAC, and errors in the configuration.
Lookup ==
  /\ At("lookup")
  /\ IF On \in Mac THEN Continue ELSE Fatal
  /\ UNCHANGED << carry, diskVars, kernel, envVars >>

Unsupported ==
  /\ At("error") /\ Fatal
  /\ UNCHANGED << carry, diskVars, kernel, envVars >>

\* ip link set up, ip addr add, ip route add default: the last two fail if the
\* kernel has the address, or a default route of the same family, already.
Exists ==
  \/ At("addr") /\ << On, Value >> \in kernel.addrs
  \/ At("route") /\ \E gateway \in kernel.routes : gateway[1] = Value[1]

Ip ==
  /\ At("up") \/ At("addr") \/ At("route")
  /\ \/ /\ ~Exists /\ Continue
        /\ kernel' = CASE At("up")    -> [kernel EXCEPT !.up = @ \union { On }]
                       [] At("addr")  -> [kernel EXCEPT !.addrs = @ \union { << On, Value >> }]
                       [] At("route") -> [kernel EXCEPT !.routes = @ \union { Value }]
     \/ (Exists \/ MayFail) /\ Fatal /\ UNCHANGED kernel
  /\ UNCHANGED << carry, diskVars, envVars >>

ServiceUnchecked ==   \* mutant: enabling an enabled service fails
  /\ \/ At("enable") /\ On \notin services /\ Continue /\ services' = services \union { On }
     \/ At("enable") /\ On \in services /\ Fatal /\ UNCHANGED services
     \/ At("disable") /\ Continue /\ services' = services \ { On }
  /\ UNCHANGED << carry, files, hostname, password, owned, kernel, envVars >>

\* enableService and disableService: nothing to do if it is so already.
Service ==
  /\ \/ At("enable") /\ Continue /\ services' = services \union { On }
     \/ At("disable") /\ Continue /\ services' = services \ { On }
     \/ At("enable") /\ On \notin services /\ MayFail /\ Fatal /\ UNCHANGED services
     \/ At("disable") /\ On \in services /\ MayFail /\ Fatal /\ UNCHANGED services
  /\ UNCHANGED << carry, files, hostname, password, owned, kernel, envVars >>

\* "finished successfully"
Finished ==
  /\ status = "running" /\ todo = << >>
  /\ status' = "ok"
  /\ UNCHANGED << runVars, diskVars, kernel, envVars >>

Run ==
  \/ FindUserData \/ FindNetworkConfig
  \/ WriteHostname \/ Sethostname \/ ApplyPassword \/ Chown
  \/ Read \/ Truncate \/ WriteContent \/ Chmod
  \/ Lookup \/ Unsupported \/ Ip \/ Service \/ Finished

-----------------------------------------------------------------------------
(* The machine and its administrator *)

main ==
  /\ status' = "running" /\ todo' = << Do("findUserData", "", "") >>
  /\ user' = NoUser /\ net' = NoNet /\ from' = << 0, 0 >> /\ carry' = ""
  /\ runs < MaxRuns /\ runs' = runs + 1
  /\ UNCHANGED << diskVars, kernel, media, edits, crashes >>

\* rc.local runs it once per boot; root may run it again by hand.
Boot     == status = "off" /\ main
RunAgain == status \in { "ok", "failed" } /\ main

Off ==
  /\ status' = "off" /\ kernel' = NoKernel /\ todo' = << >>
  /\ UNCHANGED << user, net, from, carry, diskVars >>

\* A reboot after the run, with the same media or with other media.
Shutdown ==
  /\ status \in { "ok", "failed" }
  /\ Off /\ media' \in Media
  /\ UNCHANGED << edits, runs, crashes >>

\* Power is lost, or the kernel panics, while void-init runs.
Crash ==
  /\ status = "running" /\ crashes < MaxCrashes
  /\ Off /\ crashes' = crashes + 1
  /\ UNCHANGED << media, edits, runs >>

\* The user appends to a managed file, below its marker.
Edit(f) ==
  /\ status = "ok" /\ files[f].head # << >> /\ edits[f] = ""
  /\ edits' = [edits EXCEPT ![f] = "edit"]
  /\ files' = [files EXCEPT ![f].section = "edit"]
  /\ UNCHANGED << status, runVars, hostname, password, owned, services, kernel,
                  media, runs, crashes >>

Terminated == status = "off" /\ runs = MaxRuns /\ UNCHANGED vars

Next ==
  \/ Run
  \/ Boot \/ RunAgain \/ Shutdown \/ Crash \/ \E f \in File : Edit(f)
  \/ Terminated

Spec == Init /\ [][Next]_vars

\* The run makes progress, and a machine that is off is switched on again.
FairSpec == Spec /\ WF_vars(Run) /\ WF_vars(Boot)

-----------------------------------------------------------------------------
(* Properties *)

Subnets(type) ==
  UNION { { << d.mac, s >> : s \in { x \in Range(d.subnets) : x.type = type } } :
          d \in { x \in Range(net.config) : x.type = "physical" } }

TypeOK ==
  /\ media \in Media
  /\ status \in { "off", "running", "ok", "failed" }
  /\ status # "running" => todo = << >>
  /\ from \in (0 .. Len(media)) \X (0 .. Len(media)) \/ status = "off"
  /\ carry \in { "", "edit" }
  /\ \A f \in File : files[f].section \in { "", edits[f] } /\ files[f].mode \in BOOLEAN
  /\ owned \subseteq { ".ssh", "authorized_keys" }
  /\ services \subseteq { "dhcpcd", "qemu-ga" }
  /\ kernel.up \subseteq Mac
  /\ runs \in 0 .. MaxRuns /\ crashes \in 0 .. MaxCrashes

\* A file that void-init manages holds what it should: the head it was given,
\* and a mode that was set explicitly.
Holds(f, head) == files[f].head = head /\ files[f].mode

\* main.go: whatever earlier boots with other media, crashes and failures left
\* behind, a run that ends well has put into effect all that its user-data
\* asks for.
UserDataInEffect ==
  status = "ok" =>
    /\ user.hostname # "" =>
         hostname = user.hostname /\ kernel.hostname = user.hostname
    /\ (user.name # "" /\ user.password # "") => password = user.password
    /\ (user.name # "" /\ user.keys # "") =>
         /\ Holds("authorized_keys", << user.keys >>)
         /\ { ".ssh", "authorized_keys" } \subseteq owned
    /\ "qemu-ga" \in services

\* network.go: likewise for the static part of its network-config: every
\* interface is up, every static address is assigned, the gateways are the
\* default routes, and the nameservers are in resolv.conf.
StaticNetworkInEffect ==
  status = "ok" =>
    /\ \A ms \in Subnets("static") :
         /\ ms[1] \in kernel.up /\ << ms[1], ms[2].address >> \in kernel.addrs
         /\ ms[2].gateway # << >> => ms[2].gateway \in kernel.routes
    /\ \A ms \in Subnets("dynamic") : ms[1] \in kernel.up /\ Holds("dhcpcd.conf", << "template" >>)
    /\ nameservers(net.config) # {} => Holds("resolv.conf", << nameservers(net.config) >>)

\* hosts.go:24-26: the address that /etc/hosts gives the hostname is one the
\* machine has, after a run that ends well and renders the file.
HostsAddressIsAssigned ==
  (status = "ok" /\ user.manage /\ user.hostname # "") =>
    \/ /\ Subnets("static") = {}
       /\ Holds("hosts", << LoopbackAlias, user.hostname >>)
    \/ \E a \in kernel.addrs : Holds("hosts", << a[2], user.hostname >>)

\* fsutil.go:14-17: what the user appended to a file is there, whatever runs,
\* reboots and media there were since, except while the file is being written.
\* (A crash at that moment loses it: os.WriteFile truncates the file in place.)
EditsSurvive ==
  crashes = 0 =>
    \A f \in File :
      \/ files[f].section = edits[f]
      \/ At("write") /\ On = f

\* main.go: with media it supports and no call failing, every boot ends with the
\* machine configured unless it crashes again: no earlier run, complete or
\* interrupted, with these media or others, leaves a state that stops it.
Configures ==
  \A c \in 0 .. MaxCrashes :
    (status = "off" /\ runs < MaxRuns /\ crashes = c) ~> (status = "ok" \/ crashes > c)

\* README, "Supported network-config keys": an interface with a dynamic subnet
\* is handed to dhcpcd, whose service is enabled.
DynamicIsServed ==
  (status = "ok" /\ Subnets("dynamic") # {}) => "dhcpcd" \in services

=============================================================================
