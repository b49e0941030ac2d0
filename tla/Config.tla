------------------------------- MODULE Config -------------------------------
(***************************************************************************)
(* How knockd starts (server/src/config.cpp, log.cpp and the first half of *)
(* main): knockd.conf is read line by line into sections, the sections are *)
(* turned into a ServerConfig, and main makes of it what Firewall, Session *)
(* and the match callback are given, or exits.                             *)
(*                                                                         *)
(* A section is a name and a number: <<"channel", 3>> is [channel.3].  A   *)
(* value is its words, between blanks and commas, none of which comes      *)
(* first.  A word that starts with a number an int can hold is that        *)
(* number: std::stoi ignores what follows it.                              *)
(***************************************************************************)
EXTENDS Integers, Sequences

CONSTANT Files       \* the contents of knockd.conf that are looked at

Word == [number : BOOLEAN, n : Int, text : STRING]

\* The sections that load_server_config reads, and all the others.
Section    == {"nameless", "knock", "server", "channel", "other"} \X Nat
NoSection  == <<"nameless", 0>>
Knock      == <<"knock", 0>>
Server     == <<"server", 0>>
Channel(c) == <<"channel", c>>

Skipped          == [kind |-> "skipped", section |-> NoSection, key |-> "", value |-> <<>>]
Header(section)  == [Skipped EXCEPT !.kind = "header", !.section = section]
Pair(key, value) == [Skipped EXCEPT !.kind = "pair", !.key = key, !.value = value]

ASSUME ConfigAssumption ==
    \A f \in Files : f \in Seq([kind : {"skipped", "header", "pair"},
                                section : Section, key : STRING, value : Seq(Word)])

VARIABLES
    file,               \* the lines of the file
    phase,              \* where main is
    line,               \* the line that getline returns next
    current_section,
    sections,           \* <<section, key>> |-> value
    cfg,                \* the ServerConfig, once it is loaded
    level               \* g_min_level of log.cpp

vars == <<file, phase, line, current_section, sections, cfg, level>>

EmptyMap == [x \in {} |-> x]
Put(f, key, v) == [x \in DOMAIN f \cup {key} |-> IF x = key THEN v ELSE f[x]]

Init ==
    /\ file \in Files
    /\ phase = "opening" /\ line = 1
    /\ current_section = NoSection /\ sections = EmptyMap
    /\ cfg = EmptyMap
    /\ level = "info"

-----------------------------------------------------------------------------
\* The names that log_level_from_string knows.
Levels == {"debug", "info", "warn", "error"}

log_level_from_string(text) == text \in Levels

\* An exception reaches the end of main, which returns 1.
Fatal == phase' = "failed"

-----------------------------------------------------------------------------
(***************************************************************************)
(* parse_ini, one action for each kind of line.  A comment, a blank line,  *)
(* a line without '=' and a header that goes on after its bracket change   *)
(* nothing; the section of a line before any header has no name.           *)
(***************************************************************************)
OpenFile ==
    /\ phase = "opening"
    /\ phase' = "reading" \/ Fatal
    /\ UNCHANGED <<file, line, current_section, sections, cfg, level>>

Reads(kind) ==
    /\ phase = "reading" /\ line <= Len(file)
    /\ file[line].kind = kind
    /\ line' = line + 1
    /\ UNCHANGED <<file, phase, cfg, level>>

SkipLine ==
    /\ Reads("skipped")
    /\ UNCHANGED <<current_section, sections>>

\* Mutant: a section that comes again starts anew.
ResetSection ==
    /\ Reads("header")
    /\ current_section' = file[line].section
    /\ sections' = [x \in {y \in DOMAIN sections : y[1] # file[line].section} |-> sections[x]]

ReadHeader ==
    /\ Reads("header")
    /\ current_section' = file[line].section
    /\ UNCHANGED sections

\* A key that comes again replaces the value.
ReadPair ==
    /\ Reads("pair")
    /\ sections' = Put(sections, <<current_section, file[line].key>>, file[line].value)
    /\ UNCHANGED current_section

-----------------------------------------------------------------------------
(***************************************************************************)
(* load_server_config.                                                     *)
(***************************************************************************)
Has(section, key) == <<section, key>> \in DOMAIN sections
Get(section, key, fallback) ==
    IF Has(section, key) THEN sections[<<section, key>>] ELSE fallback

Convertible(value) == value # <<>> /\ value[1].number

\* Mutant: a port is narrowed to a signed number.
Int16(n) == ((n + 32768) % 65536) - 32768

UInt16(n) == n % 65536
Port == 0..65535

get_int(section, key, fallback) ==
    IF Has(section, key) THEN sections[<<section, key>>][1].n ELSE fallback

get_bool(section, key, fallback) ==
    IF Has(section, key)
    THEN LET value == sections[<<section, key>>]
         IN  Len(value) = 1 /\ value[1].text \in {"true", "1", "yes"}
    ELSE fallback

IsPortList(value)      == \A i \in 1..Len(value) : value[i].number
parse_port_list(value) == [i \in 1..Len(value) |-> UInt16(value[i].n)]

get_port_list(section, key, fallback) ==
    IF Has(section, key) THEN parse_port_list(sections[<<section, key>>]) ELSE fallback

IntKeys ==
    {Knock} \X {"time_step", "n_ports", "port_low", "port_high", "inactivity_timeout",
                "replay_ttl"}
      \cup {Server} \X {"open_duration", "base_chain_priority"}

\* Mutant: the command wins.
BadChannelList(c) ==
    /\ ~Has(Channel(c), "command")
    /\ ~IsPortList(Get(Channel(c), "open_port", <<>>))

\* A channel with both keys is refused; with one of them, the list is converted.
BadChannel(c) ==
    /\ Has(Channel(c), "open_port")
    /\ \/ Has(Channel(c), "command")
       \/ ~IsPortList(sections[<<Channel(c), "open_port">>])

\* What makes load_server_config throw.
Throws ==
    \/ ~Has(Knock, "keyfile") \/ ~Has(Server, "interface")
    \/ \E x \in IntKeys : x \in DOMAIN sections /\ ~Convertible(sections[x])
    \/ \E key \in {"target_port", "always_allow_ports"} : ~IsPortList(Get(Server, key, <<>>))
    \/ Has(Server, "target_port") /\ sections[<<Server, "target_port">>] = <<>>
    \/ \E c \in 1..10 : BadChannel(c)

parse_channel_actions ==
    [c \in {x \in 1..10 : Has(Channel(x), "command") \/ Has(Channel(x), "open_port")} |->
        [command    |-> Get(Channel(c), "command", <<>>),
         open_ports |-> get_port_list(Channel(c), "open_port", <<>>)]]

load_server_config ==
    [keyfile                    |-> sections[<<Knock, "keyfile">>],
     time_step_seconds          |-> get_int(Knock, "time_step", 30),
     n_ports                    |-> get_int(Knock, "n_ports", 6),
     port_low                   |-> UInt16(get_int(Knock, "port_low", 20000)),
     port_high                  |-> UInt16(get_int(Knock, "port_high", 60000)),
     inactivity_timeout_seconds |-> get_int(Knock, "inactivity_timeout", 5),
     replay_ttl_seconds         |-> get_int(Knock, "replay_ttl", 90),
     interface                  |-> sections[<<Server, "interface">>],
     target_ports               |-> get_port_list(Server, "target_port", <<22>>),
     open_duration_seconds      |-> get_int(Server, "open_duration", 30),
     base_chain_priority        |-> get_int(Server, "base_chain_priority", -10),
     default_deny               |-> get_bool(Server, "default_deny", FALSE),
     always_allow_ports         |-> get_port_list(Server, "always_allow_ports", <<>>),
     log_level                  |-> Get(Server, "log_level",
                                        <<[number |-> FALSE, n |-> 0, text |-> "info"]>>),
     channel_actions            |-> parse_channel_actions]

EndOfFile == phase = "reading" /\ line > Len(file)

LoadConfig ==
    /\ EndOfFile /\ ~Throws
    /\ cfg' = load_server_config
    /\ phase' = "loaded"
    /\ UNCHANGED <<file, line, current_section, sections, level>>

RefuseConfig ==
    /\ EndOfFile /\ Throws
    /\ Fatal
    /\ UNCHANGED <<file, line, current_section, sections, cfg, level>>

-----------------------------------------------------------------------------
(***************************************************************************)
(* main, up to the construction of the Firewall.  With an invalid          *)
(* log_level main returns 2.                                               *)
(***************************************************************************)
SetLogLevel ==
    /\ phase = "loaded"
    /\ LET known == Len(cfg.log_level) = 1 /\ log_level_from_string(cfg.log_level[1].text)
       IN  \/ /\ known
              /\ level' = cfg.log_level[1].text
              /\ phase' = "keyfile"
           \/ /\ ~known
              /\ phase' = "failed" /\ UNCHANGED level
    /\ UNCHANGED <<file, line, current_section, sections, cfg>>

\* The keyfile is missing, open to others, not readable, or not 32 bytes long.
load_secret ==
    /\ phase = "keyfile"
    /\ phase' = "armed" \/ Fatal
    /\ UNCHANGED <<file, line, current_section, sections, cfg, level>>

Next ==
    \/ OpenFile \/ SkipLine \/ ReadHeader \/ ReadPair
    \/ LoadConfig \/ RefuseConfig \/ SetLogLevel \/ load_secret

Spec == Init /\ [][Next]_vars

-----------------------------------------------------------------------------
(***************************************************************************)
(* What main derives of cfg: the firewall's groups, and what the match     *)
(* callback does when a channel fires.                                     *)
(***************************************************************************)
\* Mutant: the channels that run commands are groups too.
AllActions == [c \in DOMAIN cfg.channel_actions |-> cfg.channel_actions[c].open_ports]

channel_port_groups ==
    [c \in {x \in DOMAIN cfg.channel_actions : cfg.channel_actions[x].open_ports # <<>>}
        |-> cfg.channel_actions[c].open_ports]

\* Mutant: whatever is not a command opens ports.
EffectByCommand(c) ==
    IF c = 0 THEN "open_for"
    ELSE IF c \notin DOMAIN cfg.channel_actions THEN "ignore"
    ELSE IF cfg.channel_actions[c].command # <<>> THEN "run_channel_command"
    ELSE "open_port_for"

Effect(c) ==
    IF c = 0 THEN "open_for"
    ELSE IF c \notin DOMAIN cfg.channel_actions THEN "ignore"
    ELSE IF cfg.channel_actions[c].open_ports # <<>> THEN "open_port_for"
    ELSE "run_channel_command"

PortsOpenedBy(c) == IF c = 0 THEN cfg.target_ports ELSE channel_port_groups[c]

-----------------------------------------------------------------------------
(***************************************************************************)
(* What the file says, without a parser: the section of a line is that of  *)
(* the last header before it, and a key's value the last one given there.  *)
(***************************************************************************)
Under(i, section) ==
    \/ \E h \in 1..i :
          /\ file[h].kind = "header" /\ file[h].section = section
          /\ \A j \in (h + 1)..i : file[j].kind # "header"
    \/ section = NoSection /\ \A j \in 1..i : file[j].kind # "header"

Gives(i, section, key) ==
    /\ file[i].kind = "pair" /\ file[i].key = key
    /\ Under(i, section)

\* The lines before n that give a value to key in section.
Lines(n, section, key) == {i \in 1..(n - 1) : Gives(i, section, key)}

Written(section, key) == Lines(Len(file) + 1, section, key)
LastWritten(section, key) ==
    LET lines == Written(section, key)
    IN  file[CHOOSE i \in lines : \A j \in lines : j <= i].value

TypeOK ==
    /\ phase \in {"opening", "reading", "loaded", "keyfile", "armed", "failed"}
    /\ line \in 1..(Len(file) + 1)
    /\ current_section \in Section
    /\ DOMAIN sections \subseteq Section \X STRING
    /\ \A x \in DOMAIN sections : sections[x] \in Seq(Word)
    /\ level \in Levels

(***************************************************************************)
(* At every line, the parser holds exactly what was written so far: no key *)
(* of a section that comes again is lost, none moves to another section,   *)
(* and of several values the last one counts.                              *)
(***************************************************************************)
ParsedAsWritten ==
    /\ \A x \in DOMAIN sections :
          \E i \in Lines(line, x[1], x[2]) :
              /\ sections[x] = file[i].value
              /\ \A j \in Lines(line, x[1], x[2]) : j <= i
    /\ \A i \in 1..(line - 1) :
          file[i].kind = "pair" => \E x \in DOMAIN sections : Gives(i, x[1], x[2])

\* The inductive invariant: which section the parser is in.
IInv ==
    /\ file \in Files
    /\ TypeOK
    /\ Under(line - 1, current_section)
    /\ ParsedAsWritten

(***************************************************************************)
(* The match callback asks the firewall only for groups that main gave it, *)
(* so that open_port_for never throws for a "config/dispatch mismatch",    *)
(* and each group is one that Firewall can build: not empty, of ports.     *)
(***************************************************************************)
DispatchMatches ==
    phase = "armed" =>
        /\ {c \in 0..10 : Effect(c) = "open_port_for"} = DOMAIN channel_port_groups
        /\ \A c \in {0} \cup DOMAIN channel_port_groups :
              /\ PortsOpenedBy(c) # <<>>
              /\ PortsOpenedBy(c) \in Seq(Port)

(***************************************************************************)
(* server/knockd.conf.example: setting both keys for a channel is refused, *)
(* wherever in the file the two are.                                       *)
(***************************************************************************)
BothKeysRefused ==
    phase = "armed" =>
        \A c \in 1..10 :
            Written(Channel(c), "command") = {} \/ Written(Channel(c), "open_port") = {}

\* What was written for a channel's ports, and that a knock on it opens them.
Numbers(value) == [i \in 1..Len(value) |-> value[i].n]
PortKey(c) == IF c = 0 THEN <<Server, "target_port">> ELSE <<Channel(c), "open_port">>

OpensExactly(c) ==
    LET x == PortKey(c)
    IN  PortsOpenedBy(c) = IF Written(x[1], x[2]) = {} THEN <<22>>
                           ELSE Numbers(LastWritten(x[1], x[2]))

(***************************************************************************)
(* A knock opens the ports that were last written for its channel, and     *)
(* channel 0 the default one if none was, provided that what was written   *)
(* are ports: parse_port_list narrows 65558 to 22.                         *)
(***************************************************************************)
OpensWrittenPorts ==
    phase = "armed" =>
        \A c \in {0} \cup DOMAIN channel_port_groups :
            LET x == PortKey(c)
            IN  (\A i \in Written(x[1], x[2]) : Numbers(file[i].value) \in Seq(Port))
                    => OpensExactly(c)

(***************************************************************************)
(* config.hpp: a channel runs the one action that its section sets, and is *)
(* ignored without one.  It opens ports exactly when the last open_port    *)
(* written for it lists any, and a command that runs is the last one       *)
(* written for it; only an open_port that lists nothing runs the empty     *)
(* command, which no program answers to.                                   *)
(***************************************************************************)
ChannelsAsWritten ==
    phase = "armed" =>
        \A c \in 1..10 :
            LET command   == Written(Channel(c), "command")
                open_port == Written(Channel(c), "open_port")
            IN  /\ Effect(c) = "ignore" <=> command = {} /\ open_port = {}
                /\ Effect(c) = "open_port_for" <=>
                      open_port # {} /\ LastWritten(Channel(c), "open_port") # <<>>
                /\ Effect(c) = "run_channel_command" =>
                      cfg.channel_actions[c].command =
                          IF command = {} THEN <<>> ELSE LastWritten(Channel(c), "command")

\* The inductive invariant of the rest: from the last line on, main has in cfg
\* what load_server_config makes of a whole file that it does not refuse.
LoadedFromFile ==
    phase \in {"loaded", "keyfile", "armed"} =>
        line = Len(file) + 1 /\ ~Throws /\ cfg = load_server_config

StartInv ==
    /\ IInv
    /\ LoadedFromFile
=============================================================================
