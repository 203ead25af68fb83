----------------------------- MODULE MCVoidInit -----------------------------
(* VoidInit for TLC: two interfaces, one or two attached devices, and       *)
(* configurations that differ in what each part of the run reacts to.       *)
EXTENDS VoidInit

User(name, manage) ==
  [valid |-> TRUE, hostname |-> name, manage |-> manage, name |-> "admin",
   password |-> "hash", keys |-> "keys"]

UserA == User("vm-a", TRUE)
UserB == [User("vm-b", FALSE) EXCEPT !.password = "", !.keys = "other keys"]

Dynamic == [type |-> "dynamic", address |-> "", prefix |-> FALSE, gateway |-> << >>, dns |-> {}]
Static(address, gateway, dns) ==
  [type |-> "static", address |-> address, prefix |-> TRUE, gateway |-> gateway, dns |-> dns]

Physical(mac, subnets) ==
  [type |-> "physical", mac |-> mac, subnets |-> subnets, address |-> {}]
Nameserver(servers) ==
  [type |-> "nameserver", mac |-> "", subnets |-> << >>, address |-> servers]

Net(devices) == [valid |-> TRUE, config |-> devices]

NetDynamic == Net(<< Physical("eth0", << Dynamic >>) >>)
NetStatic  == Net(<< Physical("eth0", << Static("10.0.0.2", << "inet", "gw" >>, { "dns-a" }) >>),
                     Nameserver({ "dns-b" }) >>)
\* testfiles/network-config: SLAAC on one interface, a static one, a nameserver.
NetMixed   == Net(<< Physical("eth0", << Dynamic >>),
                     Physical("eth1", << Static("fd8c::900", << >>, {}) >>),
                     Nameserver({ "dns-b" }) >>)
\* Both families on one interface, and (Bad) two IPv4 gateways.
NetDual    == Net(<< Physical("eth0", << Static("10.0.0.2", << "inet", "gw" >>, { "dns-a" }),
                                         Static("fd8c::2", << "inet6", "gw6" >>, { "dns-b" }) >>) >>)
NetTwoGws  == Net(<< Physical("eth0", << Static("10.0.0.2", << "inet", "gw" >>, {}) >>),
                     Physical("eth1", << Static("10.0.1.2", << "inet", "gw1" >>, {}) >>) >>)
NetNoMask  == Net(<< Physical("eth0", << [Static("10.0.0.2", << >>, {}) EXCEPT !.prefix = FALSE] >>) >>)
NetNoMac   == Net(<< Physical("eth7", << Dynamic >>) >>)

Device(u, n) == [user |-> u, net |-> n]

Good == { << Device(<< UserA >>, << NetStatic >>) >>,
          << Device(<< UserA >>, << NetMixed >>) >>,
          << Device(<< UserB >>, << NetDual >>) >>,
          << Device(<< UserB >>, << NetDynamic >>) >>,
          << Device(<< UserB >>, << >>) >> }

Bad == { << Device(<< UserA >>, << NetTwoGws >>) >>,
         << Device(<< UserA >>, << NetNoMask >>) >>, << Device(<< UserB >>, << NetNoMac >>) >>,
         << Device(<< NoUser >>, << >>) >>, << Device(<< UserA >>, << NoNet >>) >>, << >> }

\* Two CD-ROMs: one with user-data only, one with both.
Two == { << Device(<< >>, << NetStatic >>), Device(<< UserA >>, << NetDynamic >>) >> }

MCMac == { "eth0", "eth1" }
All == Good \union Bad \union Two
=============================================================================
