------------------------------ MODULE MCConfig ------------------------------
(***************************************************************************)
(* Config with every file that goes on, after a minimal head, with up to   *)
(* three of the given lines, or with up to five about two channels.        *)
(***************************************************************************)
EXTENDS Config, TLC

Num(n)  == [number |-> TRUE, n |-> n, text |-> ToString(n)]
Text(t) == [number |-> FALSE, n |-> 0, text |-> t]

Head1 == <<Header(Knock), Pair("keyfile", <<Text("/etc/knockd/secret.key")>>),
           Header(Server), Pair("interface", <<Text("eth0")>>)>>

UpTo(S, n) == UNION {[1..i -> S] : i \in 0..n}

\* Every kind of line and of value, repeated keys and sections, no known section.
Lines3 == {
    Skipped, Header(Knock), Header(Server), Header(Channel(2)), Header(<<"other", 0>>),
    Pair("port_low", <<Num(70000)>>), Pair("port_low", <<Num(30000)>>),
    Pair("n_ports", <<Num(4)>>), Pair("n_ports", <<Text("six")>>), Pair("time_step", <<>>),
    Pair("target_port", <<Num(80), Num(443)>>), Pair("target_port", <<Num(65558)>>),
    Pair("target_port", <<>>), Pair("target_port", <<Num(22), Text("ssh")>>),
    Pair("log_level", <<Text("error")>>), Pair("log_level", <<Text("INFO")>>),
    Pair("open_port", <<Num(50000)>>), Pair("command", <<Text("/bin/true")>>)}

\* Sections that come in pieces, in any order.
Lines5 == {Header(Channel(1)), Header(Channel(10)), Pair("open_port", <<Num(50000)>>),
           Pair("open_port", <<>>), Pair("command", <<Text("/bin/true")>>),
           Pair("command", <<>>)}

AfterHead(S) == {Head1 \o f : f \in S}

MCFiles == AfterHead(UpTo(Lines3, 3)) \cup AfterHead([1..5 -> Lines5])
             \cup {<<>>, SubSeq(Head1, 1, 2), SubSeq(Head1, 3, 4), Tail(Head1)}
=============================================================================
