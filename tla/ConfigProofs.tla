---------------------------- MODULE ConfigProofs ----------------------------
(***************************************************************************)
(* Theorems about Config, for every file.  The parser holds at every line  *)
(* what was written so far (uniqueness of a line's section carries the     *)
(* argument); and what main gets from load_server_config is what is        *)
(* written, unless it is refused.                                          *)
(***************************************************************************)
EXTENDS Config, TLAPS

Line == [kind : {"skipped", "header", "pair"},
         section : Section, key : STRING, value : Seq(Word)]

LEMMA FilesAreLines == ASSUME file \in Files PROVE file \in Seq(Line)
  BY ConfigAssumption DEF Line

\* A line belongs to one section.
LEMMA OneSection ==
  ASSUME NEW i \in Nat, NEW a, NEW b, Under(i, a), Under(i, b)
  PROVE  a = b
<1>1. CASE \A j \in 1..i : file[j].kind # "header"
  BY <1>1 DEF Under
<1>2. CASE \E j \in 1..i : file[j].kind = "header"
  <2>1. PICK h \in 1..i : /\ file[h].kind = "header" /\ file[h].section = a
                          /\ \A j \in (h + 1)..i : file[j].kind # "header"
    BY <1>2 DEF Under
  <2>2. PICK g \in 1..i : /\ file[g].kind = "header" /\ file[g].section = b
                          /\ \A j \in (g + 1)..i : file[j].kind # "header"
    BY <1>2 DEF Under
  <2>3. h = g
    BY <2>1, <2>2
  <2> QED BY <2>1, <2>2, <2>3
<1> QED BY <1>1, <1>2

\* A line that is no header stays in the section of the line before.
LEMMA SameSection ==
  ASSUME NEW i \in Nat \ {0}, NEW a, file[i].kind # "header"
  PROVE  Under(i, a) <=> Under(i - 1, a)
<1>1. \A h \in 1..i : file[h].kind = "header" => h \in 1..(i - 1)
  OBVIOUS
<1>2. \A h \in 1..(i - 1) :
        (\A j \in (h + 1)..i : file[j].kind # "header")
          <=> (\A j \in (h + 1)..(i - 1) : file[j].kind # "header")
  OBVIOUS
<1>3. 1..(i - 1) \subseteq 1..i
  OBVIOUS
<1>4. (\A j \in 1..i : file[j].kind # "header")
        <=> (\A j \in 1..(i - 1) : file[j].kind # "header")
  OBVIOUS
<1> QED BY <1>1, <1>2, <1>3, <1>4 DEF Under

LEMMA NothingGiven ==
  ASSUME NEW n \in Nat \ {0}, NEW section, NEW key, ~Gives(n, section, key)
  PROVE  Lines(n + 1, section, key) = Lines(n, section, key)
<1>1. /\ 1..(n + 1 - 1) = 1..(n - 1) \cup {n}
      /\ \A i \in 1..(n + 1 - 1) : i # n => i \in 1..(n - 1)
  OBVIOUS
<1> QED BY <1>1 DEF Lines

\* The property after a step, in terms of the file, which no step changes.
LEMMA ParsedNext ==
  ASSUME file' = file, line' = line + 1, line \in Nat,
         \A x \in DOMAIN sections' :
            \E i \in Lines(line + 1, x[1], x[2]) :
                /\ sections'[x] = file[i].value
                /\ \A j \in Lines(line + 1, x[1], x[2]) : j <= i,
         \A i \in 1..line :
            file[i].kind = "pair" => \E x \in DOMAIN sections' : Gives(i, x[1], x[2])
  PROVE  ParsedAsWritten'
<1>1. line' - 1 = line
  OBVIOUS
<1>2. \A i \in 1..(line' - 1) :
        file'[i].kind = "pair" => \E x \in DOMAIN sections' : Gives(i, x[1], x[2])'
  BY <1>1 DEF Gives, Under
<1>3. \A x \in DOMAIN sections' :
        \E i \in Lines(line, x[1], x[2])' :
            /\ sections'[x] = file'[i].value
            /\ \A j \in Lines(line, x[1], x[2])' : j <= i
  BY DEF Lines, Gives, Under
<1> QED BY <1>2, <1>3 DEF ParsedAsWritten, Lines, Gives, Under

LEMMA StepKeepsIInv ==
  ASSUME IInv, [Next]_vars
  PROVE  IInv'
<1> USE DEF IInv
<1>0. /\ file \in Seq(Line) /\ line \in Nat \ {0}
      /\ file \in Files
  BY FilesAreLines DEF TypeOK
<1>a. ASSUME UNCHANGED <<file, line, current_section, sections>>, TypeOK'
      PROVE  IInv'
  BY <1>a DEF Under, ParsedAsWritten, Lines, Gives
<1>b. ASSUME NEW kind, Reads(kind)
      PROVE  /\ line' = line + 1 /\ file' = file /\ line \in 1..Len(file)
             /\ file[line] \in Line /\ file[line].kind = kind
             /\ line' \in 1..(Len(file') + 1)
             /\ UNCHANGED <<phase, cfg, level>>
             /\ line' - 1 = line
  BY <1>b, <1>0 DEF Reads
\* A line that is not a pair gives nothing.
<1>c. ASSUME NEW kind, Reads(kind), kind # "pair", UNCHANGED sections
      PROVE  ParsedAsWritten'
  <2>1. \A section, key : Lines(line + 1, section, key) = Lines(line, section, key)
    <3> SUFFICES ASSUME NEW section, NEW key
                 PROVE  Lines(line + 1, section, key) = Lines(line, section, key)
      OBVIOUS
    <3>1. ~Gives(line, section, key)
      BY <1>b, <1>c DEF Gives
    <3> QED BY <3>1, <1>0, NothingGiven
  <2>2. \A i \in 1..line : file[i].kind = "pair" => i \in 1..(line - 1)
    BY <1>b, <1>c, <1>0
  <2>3. line' = line + 1 /\ file' = file /\ sections' = sections
    BY <1>b, <1>c
  <2>4. \A x \in DOMAIN sections :
          \E i \in Lines(line + 1, x[1], x[2]) :
              /\ sections[x] = file[i].value
              /\ \A j \in Lines(line + 1, x[1], x[2]) : j <= i
    BY <2>1 DEF ParsedAsWritten
  <2>5. \A i \in 1..line :
          file[i].kind = "pair" => \E x \in DOMAIN sections : Gives(i, x[1], x[2])
    BY <2>2 DEF ParsedAsWritten
  <2> QED BY <1>0, <2>3, <2>4, <2>5, ParsedNext
<1>1. CASE SkipLine
  <2>1. TypeOK'
    BY <1>1, <1>b DEF SkipLine, TypeOK
  <2>2. Under(line, current_section)
    BY <1>1, <1>b, <1>0, SameSection DEF SkipLine
  <2> QED BY <1>1, <1>b, <1>c, <2>1, <2>2 DEF SkipLine, Under
<1>2. CASE ReadHeader
  <2>1. TypeOK'
    BY <1>2, <1>b DEF ReadHeader, TypeOK, Line
  <2>2. Under(line, file[line].section)
    BY <1>2, <1>b, <1>0 DEF ReadHeader, Under
  <2> QED BY <1>2, <1>b, <1>c, <2>1, <2>2 DEF ReadHeader, Under
<1>3. CASE ReadPair
  <2> DEFINE mine == <<current_section, file[line].key>>
  <2>1. /\ line' = line + 1 /\ line' - 1 = line /\ file' = file
        /\ file[line] \in Line /\ file[line].kind = "pair"
        /\ sections' = Put(sections, mine, file[line].value)
        /\ current_section' = current_section
    BY <1>3, <1>b DEF ReadPair
  <2>2. TypeOK'
    BY <1>3, <1>b, <2>1 DEF ReadPair, TypeOK, Line, Put
  <2>3. Under(line, current_section)
    BY <2>1, <1>0, SameSection
  <2>4. \A a : Gives(line, a, file[line].key) <=> a = current_section
    BY <2>1, <2>3, <1>0, OneSection DEF Gives
  <2>5. DOMAIN sections' = DOMAIN sections \cup {mine}
    BY <2>1 DEF Put
  <2>6. ASSUME NEW x \in DOMAIN sections'
        PROVE  \E i \in Lines(line + 1, x[1], x[2]) :
                  /\ sections'[x] = file[i].value
                  /\ \A j \in Lines(line + 1, x[1], x[2]) : j <= i
    <3>1. CASE x = mine
      <4>1. line \in Lines(line + 1, x[1], x[2])
        BY <3>1, <2>4, <1>0 DEF Lines
      <4>2. \A j \in Lines(line + 1, x[1], x[2]) : j <= line
        BY <1>0 DEF Lines
      <4>3. sections'[x] = file[line].value
        BY <2>1, <3>1 DEF Put
      <4> QED BY <4>1, <4>2, <4>3
    <3>2. CASE x # mine
      <4>1. x \in DOMAIN sections /\ sections'[x] = sections[x]
        BY <2>1, <2>5, <3>2 DEF Put
      <4>2. x = <<x[1], x[2]>>
        BY <4>1 DEF TypeOK
      <4>3. ~Gives(line, x[1], x[2])
        BY <2>4, <3>2, <4>2 DEF Gives
      <4>4. Lines(line + 1, x[1], x[2]) = Lines(line, x[1], x[2])
        BY <4>3, <1>0, NothingGiven
      <4> QED BY <4>1, <4>4 DEF ParsedAsWritten
    <3> QED BY <3>1, <3>2
  <2>7. ASSUME NEW i \in 1..line, file[i].kind = "pair"
        PROVE  \E x \in DOMAIN sections' : Gives(i, x[1], x[2])
    <3>1. CASE i = line
      <4>1. mine \in DOMAIN sections' /\ Gives(line, mine[1], mine[2])
        BY <2>4, <2>5
      <4> QED BY <3>1, <4>1
    <3>2. CASE i # line
      <4>1. i \in 1..(line - 1)
        BY <3>2, <1>0
      <4> QED BY <4>1, <2>5, <2>7 DEF ParsedAsWritten
    <3> QED BY <3>1, <3>2
  <2>8. ParsedAsWritten'
    BY <1>0, <2>1, <2>6, <2>7, ParsedNext
  <2> QED BY <1>0, <2>1, <2>2, <2>3, <2>8 DEF Under
<1>4. CASE OpenFile
  <2>1. UNCHANGED <<file, line, current_section, sections>>
    BY <1>4 DEF OpenFile, Fatal
  <2>2. TypeOK'
    BY <1>4 DEF OpenFile, Fatal, TypeOK
  <2> QED BY <2>1, <2>2, <1>a
<1>5. CASE LoadConfig
  <2>1. UNCHANGED <<file, line, current_section, sections>>
    BY <1>5 DEF LoadConfig
  <2>2. TypeOK'
    BY <1>5 DEF LoadConfig, TypeOK
  <2> QED BY <2>1, <2>2, <1>a
<1>6. CASE RefuseConfig
  <2>1. UNCHANGED <<file, line, current_section, sections>>
    BY <1>6 DEF RefuseConfig, Fatal
  <2>2. TypeOK'
    BY <1>6 DEF RefuseConfig, Fatal, TypeOK
  <2> QED BY <2>1, <2>2, <1>a
<1>7. CASE SetLogLevel
  <2>1. UNCHANGED <<file, line, current_section, sections>>
    BY <1>7 DEF SetLogLevel
  <2>2. TypeOK'
    BY <1>7 DEF SetLogLevel, TypeOK, log_level_from_string
  <2> QED BY <2>1, <2>2, <1>a
<1>8. CASE load_secret
  <2>1. UNCHANGED <<file, line, current_section, sections>>
    BY <1>8 DEF load_secret, Fatal
  <2>2. TypeOK'
    BY <1>8 DEF load_secret, Fatal, TypeOK
  <2> QED BY <2>1, <2>2, <1>a
<1>9. CASE UNCHANGED vars
  <2>1. TypeOK'
    BY <1>9 DEF vars, TypeOK
  <2> QED BY <1>9, <2>1, <1>a DEF vars
<1> QED BY <1>1, <1>2, <1>3, <1>4, <1>5, <1>6, <1>7, <1>8, <1>9 DEF Next

LEMMA InitKeepsIInv == Init => IInv
<1> SUFFICES ASSUME Init PROVE IInv
  OBVIOUS
<1>1. file \in Seq(Line)
  BY FilesAreLines DEF Init
<1>2. TypeOK
  <2>1. line \in 1..(Len(file) + 1)
    BY <1>1 DEF Init
  <2>2. DOMAIN sections = {}
    BY DEF Init, EmptyMap
  <2>3. current_section \in Section
    BY DEF Init, NoSection, Section
  <2> QED BY <2>1, <2>2, <2>3 DEF Init, TypeOK, Levels
<1>3. line - 1 = 0 /\ Under(0, current_section)
  BY DEF Init, Under
<1>4. ParsedAsWritten
  BY <1>3 DEF Init, EmptyMap, ParsedAsWritten
<1> QED BY <1>2, <1>3, <1>4 DEF Init, IInv

\* The invariant holds in every reachable state, for every file.
THEOREM Invariance == Spec => []IInv
BY InitKeepsIInv, StepKeepsIInv, PTL DEF Spec

\* The types of the start-up's state.
THEOREM TypeCorrectness == Spec => []TypeOK
<1>1. IInv => TypeOK
  BY DEF IInv
<1> QED BY <1>1, Invariance, PTL

\* parse_ini holds what the file says, whatever the order of sections and keys.
THEOREM ParsesFaithfully == Spec => []ParsedAsWritten
<1>1. IInv => ParsedAsWritten
  BY DEF IInv
<1> QED BY <1>1, Invariance, PTL

-----------------------------------------------------------------------------
(***************************************************************************)
(* From here on: what main makes of the sections.                          *)
(***************************************************************************)
LEMMA StepKeepsStartInv ==
  ASSUME StartInv, [Next]_vars
  PROVE  StartInv'
<1>1. IInv' /\ IInv /\ TypeOK /\ LoadedFromFile
  BY StepKeepsIInv DEF StartInv, IInv
<1>2. line \in 1..(Len(file) + 1) /\ Len(file) \in Nat
  <2>1. Len(file) \in Nat
    BY <1>1, FilesAreLines DEF IInv
  <2> QED BY <1>1, <2>1 DEF TypeOK
<1>3. CASE OpenFile
  BY <1>1, <1>2, <1>3 DEF OpenFile, Fatal, StartInv, LoadedFromFile
<1>4. ASSUME NEW kind, Reads(kind)
      PROVE  LoadedFromFile'
  BY <1>4 DEF Reads, LoadedFromFile
<1>5. CASE SkipLine \/ ReadHeader \/ ReadPair
  BY <1>1, <1>4, <1>5 DEF SkipLine, ReadHeader, ReadPair, StartInv
<1>6. CASE LoadConfig
  <2>1. /\ line = Len(file) + 1 /\ ~Throws /\ cfg' = load_server_config /\ phase' = "loaded"
        /\ line' = line /\ file' = file /\ sections' = sections
    BY <1>2, <1>6 DEF LoadConfig, EndOfFile
  <2>2. Throws' <=> Throws
    BY <2>1 DEF Throws, Has, Get, BadChannel
  <2>3. load_server_config' = load_server_config
    BY <2>1 DEF load_server_config, get_int, get_port_list, get_bool, Get, Has,
                parse_channel_actions
  <2> QED BY <1>1, <2>1, <2>2, <2>3 DEF StartInv, LoadedFromFile
<1>7. CASE RefuseConfig
  BY <1>1, <1>2, <1>7 DEF RefuseConfig, Fatal, StartInv, LoadedFromFile
\* Once the file is loaded, no step changes what it was loaded from.
<1>8. ASSUME UNCHANGED <<file, line, current_section, sections, cfg>>,
             phase' \in {"loaded", "keyfile", "armed"} =>
                phase \in {"loaded", "keyfile", "armed"}
      PROVE  LoadedFromFile'
  <2>1. Throws' <=> Throws
    BY <1>8 DEF Throws, Has, Get, BadChannel
  <2>2. load_server_config' = load_server_config
    BY <1>8 DEF load_server_config, get_int, get_port_list, get_bool, Get, Has,
                parse_channel_actions
  <2> QED BY <1>1, <1>8, <2>1, <2>2 DEF LoadedFromFile
<1>9. CASE SetLogLevel
  <2>1. LoadedFromFile'
    BY <1>8, <1>9 DEF SetLogLevel
  <2> QED BY <1>1, <1>9, <2>1 DEF SetLogLevel, StartInv
<1>10. CASE load_secret
  <2>1. LoadedFromFile'
    BY <1>8, <1>10 DEF load_secret, Fatal
  <2> QED BY <1>1, <1>2, <1>10, <2>1 DEF load_secret, Fatal, StartInv
<1>11. CASE UNCHANGED vars
  <2>1. LoadedFromFile'
    BY <1>8, <1>11 DEF vars
  <2> QED BY <1>1, <1>11, <2>1 DEF vars, StartInv
<1> QED BY <1>3, <1>5, <1>6, <1>7, <1>9, <1>10, <1>11 DEF Next

\* What main arms itself with is what load_server_config makes of the file.
THEOREM StartInvariance == Spec => []StartInv
<1>1. Init => LoadedFromFile
  BY DEF Init, LoadedFromFile
<1>2. Init => StartInv
  BY <1>1, InitKeepsIInv DEF StartInv
<1> QED BY <1>2, StepKeepsStartInv, PTL DEF Spec

\* At the end of the file, a key is held exactly when it was written, with
\* the value written last.
LEMMA HeldIsWritten ==
  ASSUME StartInv, phase = "armed", NEW section, NEW key
  PROVE  /\ Has(section, key) <=> Written(section, key) # {}
         /\ Has(section, key) =>
               /\ LastWritten(section, key) = sections[<<section, key>>]
               /\ \E i \in Written(section, key) : file[i].value = sections[<<section, key>>]
<1>1. /\ IInv /\ TypeOK /\ ParsedAsWritten /\ line = Len(file) + 1 /\ Len(file) \in Nat
  BY FilesAreLines DEF StartInv, IInv, LoadedFromFile
<1>2. Written(section, key) = Lines(line, section, key)
  BY <1>1 DEF Written
<1>3. ASSUME Has(section, key)
      PROVE  /\ Written(section, key) # {}
             /\ LastWritten(section, key) = sections[<<section, key>>]
             /\ \E i \in Written(section, key) : file[i].value = sections[<<section, key>>]
  <2> DEFINE lines == Written(section, key)
  <2>1. PICK i \in lines : /\ sections[<<section, key>>] = file[i].value
                           /\ \A j \in lines : j <= i
    BY <1>1, <1>2, <1>3 DEF Has, ParsedAsWritten
  <2>2. lines \subseteq Int
    BY DEF Written, Lines
  <2> DEFINE last == CHOOSE k \in lines : \A j \in lines : j <= k
  <2> HIDE DEF lines
  <2>3. last \in lines /\ \A j \in lines : j <= last
    BY <2>1
  <2>4. last = i
    <3> HIDE DEF last
    <3> QED BY <2>1, <2>2, <2>3
  <2> QED BY <2>1, <2>4 DEF LastWritten, lines
<1>4. ASSUME Written(section, key) # {}
      PROVE  Has(section, key)
  <2>1. PICK i \in 1..(line - 1) : Gives(i, section, key)
    BY <1>2, <1>4 DEF Lines
  <2>2. PICK x \in DOMAIN sections : Gives(i, x[1], x[2])
    BY <1>1, <2>1 DEF ParsedAsWritten, Gives
  <2>3. x[2] = key /\ x[1] = section
    BY <1>1, <2>1, <2>2, OneSection DEF Gives
  <2>4. x = <<x[1], x[2]>>
    BY <1>1 DEF TypeOK
  <2> QED BY <2>3, <2>4 DEF Has
<1> QED BY <1>3, <1>4

(***************************************************************************)
(* A channel with both a command and ports never arms knockd, wherever in  *)
(* the file the two keys and the channel's sections are.                   *)
(***************************************************************************)
THEOREM BothKeysAreRefused == Spec => []BothKeysRefused
<1>1. StartInv => BothKeysRefused
  <2> SUFFICES ASSUME StartInv, phase = "armed", NEW c \in 1..10,
                      Written(Channel(c), "command") # {}, Written(Channel(c), "open_port") # {}
               PROVE  FALSE
    BY DEF BothKeysRefused
  <2>1. Has(Channel(c), "command") /\ Has(Channel(c), "open_port")
    BY HeldIsWritten
  <2>2. ~BadChannel(c)
    BY DEF StartInv, LoadedFromFile, Throws
  <2> QED BY <2>1, <2>2 DEF BadChannel
<1> QED BY <1>1, StartInvariance, PTL

(***************************************************************************)
(* What main gives the firewall, as far as the sections decide it.         *)
(***************************************************************************)
LEMMA ArmedWith ==
  ASSUME StartInv, phase = "armed"
  PROVE  /\ Has(Server, "target_port") => sections[<<Server, "target_port">>] # <<>>
         /\ cfg.target_ports = get_port_list(Server, "target_port", <<22>>)
         /\ cfg.channel_actions = parse_channel_actions
         /\ DOMAIN cfg.channel_actions =
              {c \in 1..10 : Has(Channel(c), "command") \/ Has(Channel(c), "open_port")}
         /\ \A c \in DOMAIN cfg.channel_actions :
              cfg.channel_actions[c].open_ports = get_port_list(Channel(c), "open_port", <<>>)
         /\ DOMAIN channel_port_groups \subseteq 1..10
         /\ \A c \in DOMAIN channel_port_groups :
              /\ Has(Channel(c), "open_port") /\ channel_port_groups[c] # <<>>
              /\ channel_port_groups[c] = parse_port_list(sections[<<Channel(c), "open_port">>])
<1>1. ~Throws /\ cfg = load_server_config
  BY DEF StartInv, LoadedFromFile
<1>2. /\ cfg.target_ports = get_port_list(Server, "target_port", <<22>>)
      /\ cfg.channel_actions = parse_channel_actions
  BY <1>1 DEF load_server_config
<1>3. /\ DOMAIN cfg.channel_actions =
           {c \in 1..10 : Has(Channel(c), "command") \/ Has(Channel(c), "open_port")}
      /\ \A c \in DOMAIN cfg.channel_actions :
           cfg.channel_actions[c].open_ports = get_port_list(Channel(c), "open_port", <<>>)
  BY <1>2 DEF parse_channel_actions
<1>4. /\ DOMAIN channel_port_groups \subseteq DOMAIN cfg.channel_actions
      /\ \A c \in DOMAIN channel_port_groups :
           /\ channel_port_groups[c] = cfg.channel_actions[c].open_ports
           /\ channel_port_groups[c] # <<>>
  BY DEF channel_port_groups
<1>5. Has(Server, "target_port") => sections[<<Server, "target_port">>] # <<>>
  BY <1>1 DEF Throws
<1>6. \A c \in DOMAIN channel_port_groups :
         /\ Has(Channel(c), "open_port")
         /\ channel_port_groups[c] = parse_port_list(sections[<<Channel(c), "open_port">>])
  BY <1>3, <1>4 DEF get_port_list
<1> QED BY <1>2, <1>3, <1>4, <1>5, <1>6

\* Narrowing to a port.
LEMMA SmallRemainder == \A n, d \in Int : 0 <= n /\ n < d => n % d = n
OBVIOUS

LEMMA Narrowing ==
  /\ \A n \in Int : UInt16(n) \in Port
  /\ \A n \in Port : n \in Int /\ UInt16(n) = n
<1>1. \A n \in Int : 0 <= n /\ n < 65536 => n % 65536 = n
  BY SmallRemainder, SMT
<1>2. \A n \in Int : UInt16(n) \in Port
  BY SMT DEF UInt16, Port
<1>3. \A n \in Port : n \in Int /\ UInt16(n) = n
  BY <1>1, SMT DEF UInt16, Port
<1> QED BY <1>2, <1>3

LEMMA PortListsArePorts ==
  ASSUME TypeOK, NEW x \in DOMAIN sections
  PROVE  /\ parse_port_list(sections[x]) \in Seq(Port)
         /\ Len(parse_port_list(sections[x])) = Len(sections[x])
<1> DEFINE v == sections[x]
<1>1. v \in Seq(Word)
  BY DEF TypeOK
<1> HIDE DEF v
<1>2. \A i \in 1..Len(v) : v[i] \in Word
  BY <1>1
<1>3. \A i \in 1..Len(v) : UInt16(v[i].n) \in Port
  BY <1>2, Narrowing DEF Word
<1>4. Len(v) \in Nat /\ parse_port_list(v) = [i \in 1..Len(v) |-> UInt16(v[i].n)]
  BY <1>1 DEF parse_port_list
<1>5. parse_port_list(v) \in Seq(Port) /\ Len(parse_port_list(v)) = Len(v)
  <2> DEFINE u(i) == UInt16(v[i].n)
  <2>1. parse_port_list(v) = [i \in 1..Len(v) |-> u(i)] /\ \A i \in 1..Len(v) : u(i) \in Port
    BY <1>3, <1>4
  <2> HIDE DEF u
  <2> QED BY <1>4, <2>1
<1> QED BY <1>5 DEF v

(***************************************************************************)
(* open_port_for is only called for groups that Firewall was given, and    *)
(* each is a list of ports with at least one in it: neither constructor    *)
(* nor call can throw for what the file says.                              *)
(***************************************************************************)
THEOREM DispatchAlwaysMatches == Spec => []DispatchMatches
<1>1. StartInv => DispatchMatches
  <2> SUFFICES ASSUME StartInv, phase = "armed"
               PROVE  /\ {c \in 0..10 : Effect(c) = "open_port_for"} = DOMAIN channel_port_groups
                      /\ \A c \in {0} \cup DOMAIN channel_port_groups :
                            /\ PortsOpenedBy(c) # <<>>
                            /\ PortsOpenedBy(c) \in Seq(Port)
    BY DEF DispatchMatches
  <2>1. TypeOK
    BY DEF StartInv, IInv
  <2>2. {c \in 0..10 : Effect(c) = "open_port_for"} = DOMAIN channel_port_groups
    <3>1. \A c \in 0..10 :
            Effect(c) = "open_port_for" <=>
              /\ c # 0 /\ c \in DOMAIN cfg.channel_actions
              /\ cfg.channel_actions[c].open_ports # <<>>
      BY DEF Effect
    <3>2. DOMAIN channel_port_groups =
            {c \in DOMAIN cfg.channel_actions : cfg.channel_actions[c].open_ports # <<>>}
      BY DEF channel_port_groups
    <3>3. DOMAIN cfg.channel_actions \subseteq 1..10
      BY ArmedWith
    <3> QED BY <3>1, <3>2, <3>3
  <2>3. PortsOpenedBy(0) # <<>> /\ PortsOpenedBy(0) \in Seq(Port)
    <3>1. PortsOpenedBy(0) = get_port_list(Server, "target_port", <<22>>)
      BY ArmedWith DEF PortsOpenedBy
    <3>2. CASE Has(Server, "target_port")
      <4> DEFINE x == <<Server, "target_port">>
      <4>1. x \in DOMAIN sections /\ PortsOpenedBy(0) = parse_port_list(sections[x])
        BY <3>1, <3>2 DEF get_port_list, Has
      <4>2. sections[x] # <<>> /\ sections[x] \in Seq(Word)
        <5>1. sections[x] # <<>>
          BY <3>2, ArmedWith
        <5> HIDE DEF x
        <5>2. sections[x] \in Seq(Word)
          BY <2>1, <4>1 DEF TypeOK
        <5> QED BY <5>1, <5>2
      <4>3. Len(sections[x]) # 0
        BY <4>2
      <4> HIDE DEF x
      <4>4. PortsOpenedBy(0) \in Seq(Port) /\ Len(PortsOpenedBy(0)) # 0
        BY <2>1, <4>1, <4>3, PortListsArePorts
      <4> QED BY <4>4
    <3>3. CASE ~Has(Server, "target_port")
      <4>1. PortsOpenedBy(0) = <<22>>
        BY <3>1, <3>3 DEF get_port_list
      <4>2. <<22>> \in Seq(Port) /\ <<22>> # <<>>
        <5>1. 22 \in Port
          BY SMT DEF Port
        <5> QED BY <5>1
      <4> QED BY <4>1, <4>2
    <3> QED BY <3>2, <3>3
  <2>4. ASSUME NEW c \in DOMAIN channel_port_groups
        PROVE  PortsOpenedBy(c) # <<>> /\ PortsOpenedBy(c) \in Seq(Port)
    <3>1. /\ c # 0 /\ channel_port_groups[c] # <<>> /\ Has(Channel(c), "open_port")
          /\ channel_port_groups[c] = parse_port_list(sections[<<Channel(c), "open_port">>])
      BY ArmedWith
    <3>2. channel_port_groups[c] \in Seq(Port)
      BY <2>1, <3>1, PortListsArePorts DEF Has
    <3> QED BY <3>1, <3>2 DEF PortsOpenedBy
  <2> QED BY <2>2, <2>3, <2>4
<1> QED BY <1>1, StartInvariance, PTL

(***************************************************************************)
(* A knock opens exactly the ports that the file gives its channel, as     *)
(* long as what is written fits a port: what narrowing, defaults and       *)
(* repeated keys make of them changes none.                                *)
(***************************************************************************)
THEOREM WrittenPortsAreOpened == Spec => []OpensWrittenPorts
<1>1. StartInv => OpensWrittenPorts
  <2> SUFFICES ASSUME StartInv, phase = "armed",
                      NEW c \in {0} \cup DOMAIN channel_port_groups,
                      NEW x, x = PortKey(c),
                      \A i \in Written(x[1], x[2]) : Numbers(file[i].value) \in Seq(Port)
               PROVE  PortsOpenedBy(c) = IF Written(x[1], x[2]) = {} THEN <<22>>
                                         ELSE Numbers(LastWritten(x[1], x[2]))
    BY DEF OpensWrittenPorts, OpensExactly
  <2>1. TypeOK
    BY DEF StartInv, IInv
  <2>2. x = <<x[1], x[2]>> /\ x \in {<<Server, "target_port">>, <<Channel(c), "open_port">>}
    BY DEF PortKey
  <2>3. ASSUME x \in DOMAIN sections
        PROVE  parse_port_list(sections[x]) = Numbers(LastWritten(x[1], x[2]))
    <3>1. Has(x[1], x[2])
      BY <2>2, <2>3 DEF Has
    <3>2. /\ LastWritten(x[1], x[2]) = sections[x]
          /\ \E i \in Written(x[1], x[2]) : file[i].value = sections[x]
      BY <2>2, <3>1, HeldIsWritten
    <3>3. Numbers(sections[x]) \in Seq(Port)
      BY <3>2
    <3> DEFINE v == sections[x]
    <3>4. v \in Seq(Word)
      BY <2>1, <2>3 DEF TypeOK
    <3> HIDE DEF v
    <3>5. Len(v) \in Nat /\ Numbers(v) = [i \in 1..Len(v) |-> v[i].n]
      BY <3>4 DEF Numbers
    <3>6. \A i \in 1..Len(v) : v[i].n \in Port
      <4>1. DOMAIN Numbers(v) = 1..Len(v) /\ Numbers(v) \in Seq(Port)
        BY <3>3, <3>5 DEF v
      <4>2. \A i \in DOMAIN Numbers(v) : Numbers(v)[i] \in Port
        BY <4>1
      <4> QED BY <3>5, <4>1, <4>2
    <3>7. \A i \in 1..Len(v) : UInt16(v[i].n) = v[i].n
      BY <3>6, Narrowing
    <3>8. parse_port_list(v) = Numbers(v)
      BY <3>7 DEF parse_port_list, Numbers
    <3> QED BY <3>2, <3>8 DEF v
  <2>4. CASE c = 0
    <3>1. x = <<Server, "target_port">>
      BY <2>4 DEF PortKey
    <3>2. PortsOpenedBy(c) = get_port_list(x[1], x[2], <<22>>)
      BY <2>4, <3>1, ArmedWith DEF PortsOpenedBy
    <3>3. Has(x[1], x[2]) <=> Written(x[1], x[2]) # {}
      BY HeldIsWritten
    <3> QED BY <2>2, <2>3, <3>2, <3>3 DEF get_port_list, Has
  <2>5. CASE c # 0
    <3>1. x = <<Channel(c), "open_port">> /\ c \in DOMAIN channel_port_groups
      BY <2>5 DEF PortKey
    <3>2. /\ PortsOpenedBy(c) = parse_port_list(sections[x])
          /\ Has(x[1], x[2]) /\ x \in DOMAIN sections
      BY <2>5, <3>1, ArmedWith DEF PortsOpenedBy, Has
    <3>3. Written(x[1], x[2]) # {}
      BY <3>2, HeldIsWritten
    <3> QED BY <2>3, <3>2, <3>3
  <2> QED BY <2>4, <2>5
<1> QED BY <1>1, StartInvariance, PTL

(***************************************************************************)
(* The action of a channel is the one that the file sets for it: none if   *)
(* it sets neither key, its last list of ports if that lists any, and      *)
(* otherwise its last command, wherever in the file these stand.           *)
(***************************************************************************)
THEOREM ChannelsRunAsWritten == Spec => []ChannelsAsWritten
<1>1. StartInv => ChannelsAsWritten
  <2> SUFFICES ASSUME StartInv, phase = "armed", NEW c \in 1..10,
                      NEW command, command = Written(Channel(c), "command"),
                      NEW open_port, open_port = Written(Channel(c), "open_port")
               PROVE  /\ Effect(c) = "ignore" <=> command = {} /\ open_port = {}
                      /\ Effect(c) = "open_port_for" <=>
                            open_port # {} /\ LastWritten(Channel(c), "open_port") # <<>>
                      /\ Effect(c) = "run_channel_command" =>
                            cfg.channel_actions[c].command =
                                IF command = {} THEN <<>>
                                ELSE LastWritten(Channel(c), "command")
    BY DEF ChannelsAsWritten
  <2>1. TypeOK
    BY DEF StartInv, IInv
  <2>2. /\ Has(Channel(c), "command") <=> command # {}
        /\ Has(Channel(c), "open_port") <=> open_port # {}
    BY HeldIsWritten
  <2>3. c \in DOMAIN cfg.channel_actions <=> command # {} \/ open_port # {}
    BY <2>2, ArmedWith
  <2>4. ASSUME c \in DOMAIN cfg.channel_actions
        PROVE  cfg.channel_actions[c].command = IF command = {} THEN <<>>
                                                ELSE LastWritten(Channel(c), "command")
    <3>1. cfg.channel_actions[c].command = Get(Channel(c), "command", <<>>)
      <4>1. cfg.channel_actions = parse_channel_actions
        BY ArmedWith
      <4> QED BY <2>4, <4>1 DEF parse_channel_actions
    <3>2. command # {} => LastWritten(Channel(c), "command")
                              = sections[<<Channel(c), "command">>]
      BY <2>2, HeldIsWritten
    <3> QED BY <2>2, <3>1, <3>2 DEF Get
  <2>5. ASSUME c \in DOMAIN cfg.channel_actions
        PROVE  cfg.channel_actions[c].open_ports # <<>> <=>
                 open_port # {} /\ LastWritten(Channel(c), "open_port") # <<>>
    <3>1. cfg.channel_actions[c].open_ports = get_port_list(Channel(c), "open_port", <<>>)
      BY <2>5, ArmedWith
    <3>2. CASE open_port = {}
      BY <2>2, <3>1, <3>2 DEF get_port_list
    <3>3. CASE open_port # {}
      <4> DEFINE value == sections[<<Channel(c), "open_port">>]
      <4>1. cfg.channel_actions[c].open_ports = parse_port_list(value)
        BY <2>2, <3>1, <3>3 DEF get_port_list
      <4>2. LastWritten(Channel(c), "open_port") = value
        BY <2>2, <3>3, HeldIsWritten
      <4>3. /\ parse_port_list(value) \in Seq(Port) /\ value \in Seq(Word)
            /\ Len(parse_port_list(value)) = Len(value)
        <5>1. <<Channel(c), "open_port">> \in DOMAIN sections
          BY <2>2, <3>3 DEF Has
        <5> QED BY <2>1, <5>1, PortListsArePorts DEF TypeOK
      <4> HIDE DEF value
      <4>4. parse_port_list(value) # <<>> <=> value # <<>>
        BY <4>3
      <4> QED BY <3>3, <4>1, <4>2, <4>4
    <3> QED BY <3>2, <3>3
  <2>6. /\ c # 0
        /\ Effect(c) = IF c \notin DOMAIN cfg.channel_actions THEN "ignore"
                       ELSE IF cfg.channel_actions[c].open_ports # <<>> THEN "open_port_for"
                       ELSE "run_channel_command"
    BY DEF Effect
  <2>7. CASE c \notin DOMAIN cfg.channel_actions
    BY <2>3, <2>6, <2>7
  <2>8. CASE c \in DOMAIN cfg.channel_actions
    BY <2>3, <2>4, <2>5, <2>6, <2>8
  <2> QED BY <2>7, <2>8
<1> QED BY <1>1, StartInvariance, PTL
=============================================================================
