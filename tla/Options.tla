------------------------------- MODULE Options -------------------------------
(***************************************************************************)
(* How the settings come about: options_set_defaults(), the command line   *)
(* (options_read_args()), the configuration file (read_config_file()) and  *)
(* options_make(), in the order of main().  Command line and file both end *)
(* up in the tree "config", by directive.                                  *)
(*                                                                         *)
(* Of the text of a value the model keeps what the parsers look at: a rate *)
(* is digits and a unit, a network an address and a mask, and addresses    *)
(* are the sets of their one bits, bit 0 being the first.                  *)
(***************************************************************************)
EXTENDS Integers, Sequences, FiniteSets

CONSTANTS
    Inputs,            \* what the command line may set and the file may hold: sets of
                       \* <<directive, value>> in the fields args and lines, and the
                       \* machine's interfaces, in order, in the field interfaces
    MaxArgs, MaxLines, \* bounds on how many there are
    Rank,              \* order of the directives, as strcmp() sees them
    Garbage,           \* what an uninitialised variable may hold
    NoKey, NULL

VARIABLES
    input,             \* the one of Inputs that is used
    phase,             \* "args", "file", "made" or "exited"
    config,            \* the tree
    options,           \* by directive
    args, lines        \* what has been read

vars == <<input, phase, config, options, args, lines>>

Before(k, l) == Rank[k] < Rank[l]

INSTANCE Stringmap

config_directives ==
    {"interface", "dns-resolution", "port-resolution", "filter-code", "show-bars",
     "promiscuous", "hide-source", "hide-destination", "use-bytes", "sort",
     "line-display", "show-totals", "log-scale", "max-bandwidth", "net-filter",
     "net-filter6", "link-local", "port-display", "show-processes"}

Enumeration(d) ==
    CASE d = "sort" -> {"2s", "10s", "40s", "source", "destination"}
      [] d = "line-display" -> {"two-line", "one-line-both", "one-line-sent", "one-line-received"}
      [] d = "port-display" -> {"off", "source-only", "destination-only", "on"}

Ones(n) == 0 .. n - 1

(* The first interface with a good name that is not known to be down.       *)
get_first_interface(interfaces) ==
    LET good == SelectSeq(interfaces, LAMBDA i : ~ i.bad /\ i.state # "down")
    IN  IF good = <<>> THEN NULL ELSE good[1].name

options_set_defaults ==
    [d \in config_directives \cup {"screen-filter"} |->
        CASE d = "interface" -> LET first == get_first_interface(input.interfaces)
                                IN  IF first = NULL THEN "eth0" ELSE first
          [] d \in {"filter-code", "screen-filter"} -> NULL
          [] d \in {"dns-resolution", "port-resolution", "show-bars", "show-processes"} -> TRUE
          [] d = "sort" -> "10s"
          [] d = "line-display" -> "two-line"
          [] d = "port-display" -> "off"
          [] d = "max-bandwidth" -> [value |-> 0, power |-> 0]
          [] d = "net-filter" -> [on |-> FALSE, net |-> {4, 6, 23}, mask |-> Ones(24)]
          [] d = "net-filter6" -> [on |-> FALSE, net |-> {0, 1, 2, 3, 4, 5, 6, 8}, mask |-> Ones(16)]
          [] OTHER -> FALSE]

Init ==
    /\ input \in Inputs
    /\ phase = "args"
    /\ config = stringmap_new
    /\ options = options_set_defaults
    /\ args = <<>>
    /\ lines = <<>>

-----------------------------------------------------------------------------
(* Command line and file *)

config_set_string(d, v) ==
    IF stringmap_find(config, d)
    THEN [config EXCEPT !.node[d].data = v]
    ELSE stringmap_insert(config, d, v)

ReadArg(a) ==
    /\ phase = "args" /\ Len(args) < MaxArgs
    /\ config' = config_set_string(a[1], a[2])
    /\ args' = Append(args, a)
    /\ UNCHANGED <<phase, options, lines>>

(* Help, an unknown option, a bad export format or duration. *)
ReadArgExits ==
    /\ phase = "args"
    /\ phase' = "exited"
    /\ UNCHANGED <<config, options, args, lines>>

ReadArgsEnd ==
    /\ phase = "args"
    /\ phase' = "file"
    /\ UNCHANGED <<config, options, args, lines>>

MutantReadLine(l) ==
    /\ phase = "file" /\ Len(lines) < MaxLines
    /\ config' = IF l[1] \in config_directives THEN config_set_string(l[1], l[2]) ELSE config
    /\ lines' = Append(lines, l)
    /\ UNCHANGED <<phase, options, args>>

(* A directive that is there already keeps its value, from the command line *)
(* or from an earlier line.                                                 *)
ReadLine(l) ==
    /\ phase = "file" /\ Len(lines) < MaxLines
    /\ config' = IF l[1] \in config_directives THEN stringmap_insert(config, l[1], l[2]) ELSE config
    /\ lines' = Append(lines, l)
    /\ UNCHANGED <<phase, options, args>>

-----------------------------------------------------------------------------
(* options_make() *)

IsTrue(str) == str \in {"yes", "true"}

options_config_get_enum(d, str, old) == IF str \in Enumeration(d) THEN str ELSE old

Power(unit) == CASE unit \in {"", "b"} -> 0 [] unit = "k" -> 1 [] unit = "m" -> 2 [] unit = "g" -> 3

(* Without digits the number is whatever the variable held. *)
options_config_get_bw_rate(rate, old, held) ==
    IF rate.unit \notin {"", "b", "k", "m", "g"} THEN old
    ELSE [value |-> IF rate.digits = NULL THEN held ELSE rate.digits, power |-> Power(rate.unit)]

(* A request for a network is [net, mask]: the bits of the address, or NULL *)
(* if it is none, and a mask, of kind "prefix" with a length, "bits" with   *)
(* the bits, "bad", or "none" if there is no slash.                         *)
options_config_get_net_filter(r, old) ==
    LET mask == CASE r.mask.kind = "prefix" -> IF r.mask.len > 32 THEN old.mask ELSE Ones(r.mask.len)
                  [] r.mask.kind = "bits" -> r.mask.bits
    IN  IF r.mask.kind = "none" \/ r.net = NULL THEN [old EXCEPT !.on = FALSE]
        ELSE IF r.mask.kind = "bad" THEN [old EXCEPT !.on = FALSE, !.net = r.net]
        ELSE [on |-> TRUE, net |-> r.net \cap mask, mask |-> mask]

(* The whole bytes of the prefix and the partial one are stored over the    *)
(* mask that was there.                                                     *)
PrefixMask(len, old) ==
    LET full == 8 * (len \div 8)
        stored == IF len % 8 > 0 THEN full + 8 ELSE full
    IN  Ones(len) \cup {b \in old : b >= stored}

options_config_get_net_filter6(r, old) ==
    LET valid == r.mask.kind = "bits" \/ (r.mask.kind = "prefix" /\ r.mask.len \in 1 .. 128)
        mask == IF ~ valid THEN old.mask
                ELSE IF r.mask.kind = "bits" THEN r.mask.bits ELSE PrefixMask(r.mask.len, old.mask)
    IN  IF r.mask.kind = "none" \/ r.net = NULL THEN [old EXCEPT !.on = FALSE]
        ELSE IF r.mask.kind = "bad" THEN [old EXCEPT !.on = FALSE, !.net = r.net]
        ELSE [on |-> valid, net |-> r.net \cap mask, mask |-> mask]

(* The option that comes of a directive with a value. *)
Setting(d, v, old, held) ==
    CASE d \in {"interface", "filter-code", "screen-filter"} -> v
      [] d \in {"sort", "line-display", "port-display"} -> options_config_get_enum(d, v, old)
      [] d = "max-bandwidth" -> options_config_get_bw_rate(v, old, held)
      [] d = "net-filter" -> options_config_get_net_filter(v, old)
      [] d = "net-filter6" -> options_config_get_net_filter6(v, old)
      [] OTHER -> IsTrue(v)

options_make ==
    /\ phase = "file"
    /\ phase' = "made"
    /\ \E held \in Garbage :
          options' = [d \in DOMAIN options |->
                         IF stringmap_find(config, d)
                         THEN Setting(d, Data(config, d), options[d], held) ELSE options[d]]
    /\ UNCHANGED <<config, args, lines>>

Step ==
    \/ \E a \in input.args : ReadArg(a)
    \/ ReadArgExits
    \/ ReadArgsEnd
    \/ \E l \in input.lines : ReadLine(l)
    \/ options_make

Next == Step /\ UNCHANGED input

Spec == Init /\ [][Next]_vars

-----------------------------------------------------------------------------
(* Properties *)

Values(s, d) == SelectSeq(s, LAMBDA x : x[1] = d)

(* What a directive is asked to be: its last mention on the command line,   *)
(* or else its first in the file.                                           *)
Mentioned(d) == Values(args, d) # <<>> \/ Values(lines, d) # <<>>

Asked(d) ==
    LET a == Values(args, d) IN IF a # <<>> THEN a[Len(a)][2] ELSE Values(lines, d)[1][2]

WellFormed(r, longest) ==
    /\ r.net # NULL
    /\ r.mask.kind = "bits" \/ (r.mask.kind = "prefix" /\ r.mask.len \in 0 .. longest)

AskedMask(r) == IF r.mask.kind = "bits" THEN r.mask.bits ELSE Ones(r.mask.len)

FilterIs(d, longest) ==
    IF WellFormed(Asked(d), longest)
    THEN options[d] = [on |-> TRUE, net |-> Asked(d).net \cap AskedMask(Asked(d)),
                       mask |-> AskedMask(Asked(d))]
    ELSE ~ options[d].on

PrefixIn(d, lengths) == Asked(d).mask.kind = "prefix" => Asked(d).mask.len \in lengths

(* Settings have the precedence the manual states (man/iftop.8:286-287,     *)
(* "Any command line options specified will override settings in the config *)
(* file"): the last option given on the command line, or else the first     *)
(* line of the file (cfgfile.c:131), or else the default.                   *)
(* And a network filter is on only if the network asked for is well formed, *)
(* and has the mask asked for: "a single number specifying the number of   *)
(* bits set in the netmask" (man/iftop.8:138-139), or for IPv6 "a prefix    *)
(* length" (man/iftop.8:142-143).  Left out are the lengths the code treats *)
(* otherwise: more than 32 is reported but the filter is turned on          *)
(* (options.c:535), up to 8 bits of IPv6 leave part of the default mask in  *)
(* place, and 0 is refused (options.c:583-596).                             *)
SettingsAreTheAskedOnes ==
    phase = "made" =>
        /\ \A d \in config_directives \ {"net-filter", "net-filter6"} :
              IF Mentioned(d)
              THEN \E held \in Garbage : options[d] = Setting(d, Asked(d), options_set_defaults[d], held)
              ELSE options[d] = options_set_defaults[d]
        /\ Mentioned("net-filter") /\ PrefixIn("net-filter", 0 .. 32) => FilterIs("net-filter", 32)
        /\ Mentioned("net-filter6") /\ PrefixIn("net-filter6", 9 .. 200) => FilterIs("net-filter6", 128)
=============================================================================
