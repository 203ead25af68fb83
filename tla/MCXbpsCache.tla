---------------------------- MODULE MCXbpsCache ----------------------------
(* XbpsCache for TLC: the second archive has no key directory, the third    *)
(* other keys than the first, the fourth one of the two tools only, and the *)
(* fifth a key directory without a key in it.                               *)
EXTENDS XbpsCache

CONSTANTS k1, k2

MCTools   == << "xbps-install", "xbps-reconfigure" >>
MCKey     == { k1, k2 }
MCToolsOf == << Tool, Tool, Tool, { "xbps-install" }, Tool, Tool >>
MCHosts   == { {}, { "xbps-install" } }
MCKeyDirectory == { 1, 3, 4, 5, 6 }
MCKeysOf  == << << k1, k2 >>, << >>, << k2 >>, << k1 >>, << >>, << k1 >> >>
=============================================================================
