----------------------------- MODULE MCFirewall -----------------------------
(***************************************************************************)
(* Firewall with small configurations.  No group holds port 4.             *)
(***************************************************************************)
EXTENDS Firewall, TLC

Primary == <<1>>
TwoGroups == [c \in {2} |-> <<2>>]
\* server/knockd.conf.example: channel 2 has 8080, channel 3 has 8080 and 8443.
ExampleGroups == (2 :> <<2>>) @@ (3 :> <<2, 3>>)
Nothing == <<>>
=============================================================================
