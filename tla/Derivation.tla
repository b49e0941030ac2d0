----------------------------- MODULE Derivation -----------------------------
(***************************************************************************)
(* derive_ports of server/src/derive.cpp: the port sequence that belongs   *)
(* to one time window and one channel under the shared secret.             *)
(*                                                                         *)
(* The keyed hash is OpenSSL's HMAC-SHA256.  It is the constant operator   *)
(* hmac_sha256, a fixed but arbitrary map from messages to 32 bytes: the   *)
(* specifications built on this module depend on nothing else about it.    *)
(***************************************************************************)
EXTENDS Naturals

CONSTANTS
    n_ports,          \* SessionConfig::n_ports, not range checked by config.cpp
    port_low,         \* first port of the knock range
    port_high,        \* last port of the knock range
    kNumChannels,     \* channel ids are 0 .. kNumChannels - 1
    hmac_sha256(_)    \* message |-> 32 bytes under the shared secret

ASSUME DerivationAssumption ==
    /\ n_ports \in Nat
    /\ port_low \in Nat /\ port_low < 65536
    /\ port_high \in Nat /\ port_high < 65536
    /\ kNumChannels \in Nat \ {0} /\ kNumChannels <= 256

Channels == 0..(kNumChannels - 1)
KnockPorts == port_low..port_high
Byte     == 0..255
Window   == Nat       \* time counters; their 64-bit width is never reached

(***************************************************************************)
(* The two configuration checks of derive_ports that can fail: the loop    *)
(* over channels never passes a channel out of range.                      *)
(***************************************************************************)
ValidArguments ==
    /\ 1 <= n_ports /\ n_ports <= 16
    /\ port_low < port_high

(***************************************************************************)
(* The 9-byte message: the time counter, 8 bytes, most significant first,  *)
(* then the channel.  ShiftRight(t)[i] is t >> 8*i.                        *)
(***************************************************************************)
ShiftRight(t) ==
    LET shifted[i \in 0..7] == IF i = 0 THEN t ELSE shifted[i - 1] \div 256
    IN  shifted

message(time_counter, channel) ==
    LET shifted == ShiftRight(time_counter)
    IN  [i \in 1..9 |-> IF i = 9 THEN channel ELSE shifted[8 - i] % 256]

span == port_high - port_low + 1

raw16(digest, i) == 256 * digest[2 * i - 1] + digest[2 * i]

derive_ports(time_counter, channel) ==
    LET digest == hmac_sha256(message(time_counter, channel))
    IN  [i \in 1..n_ports |-> port_low + (raw16(digest, i) % span)]

=============================================================================
