------------------------------ MODULE MCStartup ------------------------------
EXTENDS Startup

MCRank ==
    LET order == <<"dns-resolution", "filter-code", "hide-destination", "hide-source", "interface",
                   "line-display", "link-local", "log-scale", "max-bandwidth", "net-filter",
                   "net-filter6", "port-display", "port-resolution", "promiscuous", "screen-filter",
                   "show-bars", "show-processes", "show-totals", "sort", "use-bytes">>
    IN  [d \in {order[i] : i \in DOMAIN order} |-> CHOOSE i \in DOMAIN order : order[i] = d]

Rate(digits, unit) == [digits |-> digits, unit |-> unit]

MCArgs ==
    {<<"interface", "eth1">>, <<"interface", "eth2">>, <<"dns-resolution", "false">>,
     <<"max-bandwidth", Rate(10, "m")>>, <<"show-processes", "true">>}

MCLines ==
    {<<"interface", "eth3">>, <<"interface", "eth4">>, <<"dns-resolution", "yes">>,
     <<"sort", "source">>, <<"sort", "bogus">>, <<"show-processes", "no">>,
     <<"max-bandwidth", Rate(1, "k")>>, <<"max-bandwidth", Rate(1, "kb")>>,
     <<"max-bandwidth", Rate(NULL, "g")>>, <<"screen-filter", "x">>}

Net(net, kind, n) ==
    [net |-> net, mask |-> CASE kind = "prefix" -> [kind |-> kind, len |-> n]
                             [] kind = "bits" -> [kind |-> kind, bits |-> n]
                             [] OTHER -> [kind |-> kind]]

MCNets(prefixes) ==
    {Net({0, 9, 30}, "prefix", n) : n \in prefixes}
        \cup {Net({0, 9, 30}, "bits", {0, 1, 9}), Net({0, 9}, "none", 0), Net({0, 9}, "bad", 0),
              Net(NULL, "prefix", 8)}

MCNetLines ==
    {<<"net-filter", n>> : n \in MCNets({0, 1, 24, 31, 32, 33})}
        \cup {<<"net-filter6", n>> : n \in MCNets({0, 1, 9, 16, 21, 64, 127, 128, 129})}

MCNetArgs == {<<"net-filter", Net({0, 9, 30}, "prefix", 24)>>, <<"net-filter6", Net({0, 9}, "bad", 0)>>}

Nic(name, bad, state) == [name |-> name, bad |-> bad, state |-> state]

(* The interface to watch is not the first one.                             *)
MCNics == <<Nic("lo", TRUE, "up"), Nic("eth9", FALSE, "down"), Nic("eth0", FALSE, "unknown"),
            Nic("eth1", FALSE, "up")>>

Machine(margs, mlines, goesOn, dlpi, getifaddrs, ifas, export, has_colors) ==
    [args |-> margs, lines |-> mlines, interfaces |-> MCNics, goesOn |-> goesOn, dlpi |-> dlpi,
     getifaddrs |-> getifaddrs, ifas |-> ifas, export |-> export,
     has_colors |-> has_colors, fileLines |-> {}, ends |-> TRUE]

(* Settings in general, and network filters. *)
MCSettings ==
    {Machine(MCArgs, MCLines, FALSE, FALSE, TRUE, <<>>, FALSE, FALSE),
     Machine(MCNetArgs, MCNetLines, FALSE, FALSE, TRUE, <<>>, FALSE, FALSE)}

MCEntries ==
    {[interface |-> "eth0", family |-> "inet", addr |-> "a", local |-> FALSE],
     [interface |-> "eth0", family |-> "inet6", addr |-> "b", local |-> TRUE],
     [interface |-> "eth0", family |-> "inet6", addr |-> "c", local |-> FALSE],
     [interface |-> "eth0", family |-> "packet", addr |-> "d", local |-> FALSE],
     [interface |-> "eth1", family |-> "inet", addr |-> "e", local |-> FALSE],
     [interface |-> "eth1", family |-> "inet6", addr |-> "f", local |-> FALSE],
     [interface |-> "eth1", family |-> "inet", addr |-> NoAddr, local |-> FALSE]}

MCLists == UNION {[1 .. n -> MCEntries] : n \in 0 .. 3}

(* Interfaces with all kinds of addresses, in both modes. *)
MCMachines ==
    {Machine({<<"interface", "eth1">>}, {}, TRUE, FALSE, getifaddrs, ifas, TRUE, FALSE) :
        getifaddrs \in BOOLEAN, ifas \in MCLists}
    \cup
    {Machine({}, {}, TRUE, FALSE, TRUE, GetifaddrsFails, TRUE, FALSE)}
    \cup
    {Machine({}, {}, TRUE, TRUE, FALSE, <<e>>, export, FALSE) :
        e \in MCEntries, export \in BOOLEAN}

MCLine(words) == words \o <<NewLine>>

MCFileLines ==
    {MCLine(<<>>), MCLine(<<"#HOST1_COLOR", "red">>),
     MCLine(<<"#", "x", "HOST1_COLOR">>), MCLine(<<"#", "x", "x", "HOST1_COLOR">>),
     MCLine(<<"HOST1_COLOR", "red", "bold">>), MCLine(<<"HOST1_COLOR", "white", "nonbold">>),
     MCLine(<<"PROC_NAME_COLOR", "pink", "bold">>), MCLine(<<"HOST1_COLOR", "red">>),
     <<"PROC_NAME_COLOR", "black", "-">>}

MCComments == {"#", "#HOST1_COLOR"}

MCFiles == {<<>>} \cup {l \o m : l \in MCFileLines, m \in MCFileLines \cup {<<>>}}

(* Displays that are told to end, and one whose colours are changed.        *)
MCDisplays ==
    LET display(has_colors) == Machine({}, {}, TRUE, FALSE, TRUE, <<>>, FALSE, has_colors)
        line == MCLine(<<"HOST1_COLOR", "red", "bold">>)
    IN  {display(FALSE), [display(TRUE) EXCEPT !.fileLines = {line}],
         [display(TRUE) EXCEPT !.fileLines = MCFileLines, !.ends = FALSE]}

MCInputs == MCSettings \cup MCMachines \cup MCDisplays
=============================================================================
