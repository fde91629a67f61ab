------------------------------- MODULE IfAddrs -------------------------------
(* get_addrs_ioctl(): which addresses the watched interface has, in the      *)
(* build with getifaddrs() and in the one with a single ioctl().             *)
(* An entry of the address list says whose interface it is of, its family    *)
(* and whether IN6_IS_ADDR_LINKLOCAL or _SITELOCAL hold of its bytes, which  *)
(* for an IPv4 address is an accident; an entry may have no address.         *)
EXTENDS Naturals, Sequences

CONSTANTS
  NoAddr,           \* no address has been found, or an entry has none
  GetifaddrsFails   \* what getifaddrs() gives for a list when it fails

Found(hw, ip, ip6) == [hw |-> hw, ip |-> ip, ip6 |-> ip6]

MutantExamine(interface, found, entry) ==
  IF \/ found.ip # NoAddr /\ found.ip6 # NoAddr
     \/ entry.interface # interface \/ entry.addr = NoAddr
     \/ entry.family \notin {"inet", "inet6"} THEN found
  ELSE IF entry.family = "inet" /\ found.ip = NoAddr THEN [found EXCEPT !.ip = entry.addr]
  ELSE [found EXCEPT !.ip6 = entry.addr]

(* One entry of the list, once the search is complete or not: another        *)
(* interface, entries without an address and other families are passed over, *)
(* the first IPv4 address is taken, and everything else is read as an IPv6   *)
(* address.                                                                  *)
Examine(interface, found, entry) ==
  IF \/ found.ip # NoAddr /\ found.ip6 # NoAddr
     \/ entry.interface # interface \/ entry.addr = NoAddr
     \/ entry.family \notin {"inet", "inet6"} THEN found
  ELSE IF entry.family = "inet" /\ found.ip = NoAddr THEN [found EXCEPT !.ip = entry.addr]
  ELSE IF entry.local THEN found
  ELSE [found EXCEPT !.ip6 = entry.addr]

(* The build with getifaddrs(): the whole list.                              *)
get_addrs_ifaddrs(interface, hw, ifas) ==
  LET after[i \in 0 .. Len(ifas)] ==
        IF i = 0 THEN Found(hw, NoAddr, NoAddr) ELSE Examine(interface, after[i - 1], ifas[i])
  IN  IF ifas = GetifaddrsFails THEN Found(hw, NoAddr, NoAddr) ELSE after[Len(ifas)]

(* The build without it: SIOCGIFADDR gives the interface's IPv4 address.     *)
get_addrs_siocgifaddr(interface, hw, ifas) ==
  LET its == SelectSeq(ifas, LAMBDA e : e.interface = interface /\ e.family = "inet" /\ e.addr # NoAddr)
  IN  Found(hw, IF its = << >> THEN NoAddr ELSE its[1].addr, NoAddr)
=============================================================================
