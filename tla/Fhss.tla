--------------------------------- MODULE Fhss ---------------------------------
(***************************************************************************)
(* The shared hop sequence of both ends of the radio link and the OTA slot *)
(* counter that paces it (FHSS.h, FHSS.cpp, OtaNonce).  A nonce and a hop  *)
(* index are a byte each in the code: NonceRange and FhssRange are 256.    *)
(***************************************************************************)
EXTENDS Naturals

CONSTANTS
  NonceRange,      \* OtaNonce counts modulo this
  FhssRange,       \* FHSSptr counts modulo this, and FHSSsequence is as long
  SequenceCount,   \* FHSSgetSequenceCount(): the entries that are in use
  HopTable,        \* FHSSsequence; the entries past SequenceCount are padding
  HopInterval,     \* FHSShopInterval: slots between two hops
  Denoms           \* the telemetry denominators, 1 for no telemetry

\* Every hop interval is 2 or 4, and the denominators are powers of two.
ASSUME FhssAssumption ==
  /\ NonceRange \in Nat \ {0} /\ HopInterval \in Nat \ {0}
  /\ HopInterval % 2 = 0 /\ NonceRange % HopInterval = 0
  /\ FhssRange \in Nat \ {0} /\ SequenceCount \in 1 .. FhssRange
  /\ HopTable \in [0 .. FhssRange - 1 -> Nat]
  /\ Denoms \subseteq Nat \ {0} /\ 1 \in Denoms
  /\ \A d \in Denoms \ {1} : d % 2 = 0 /\ NonceRange % d = 0

Nonce == 0 .. NonceRange - 1
HopIndex == 0 .. FhssRange - 1
Channels == {HopTable[i] : i \in HopIndex}

\* FHSSgetInitialFreq: entry 0 of every sequence is the sync channel.
SyncChannel == HopTable[0]

NextNonce(n) == (n + 1) % NonceRange

\* FHSSgetNextFreq advances the index, FHSSsetCurrIndex loads it: both keep it
\* below the sequence count.
NextIndex(i) == (i + 1) % SequenceCount
SetCurrIndex(i) == i % SequenceCount

\* FHSSonSyncChannel looks at the sequence, not at the radio.
OnSyncChannel(i) == HopTable[i] = SyncChannel

HopSlot(n) == n % HopInterval = 0
TelemetrySlot(n, denom) == denom # 1 /\ n % denom = 0
===============================================================================
