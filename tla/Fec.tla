---------------------------------- MODULE Fec ----------------------------------
(***************************************************************************)
(* The forward error correction of the 1000 Hz rates (FEC.cpp, hamming.cpp *)
(* and the codecs of the LR1121 and LR2021 drivers): eight bytes go out as *)
(* sixteen code words of seven bits, one bit of each in turn.  Words are   *)
(* numbered as encodedBuffer is, the bits on air as they lie in FECBuffer. *)
(***************************************************************************)
EXTENDS Integers, FiniteSetsExt

CONSTANT BurstLen    \* bits in a row that are all received wrongly

Words == 0 .. 15
Bits == 0 .. 111

VARIABLES
  packet,    \* which packet is on air
  first      \* where the burst begins that came meanwhile; BurstLen before it for none

vars == <<packet, first>>

Bit(v, i) == (v \div 2^i) % 2

hammingCodes ==
  <<\h00, \h71, \h62, \h13, \h54, \h25, \h36, \h47,
    \h38, \h49, \h5A, \h2B, \h6C, \h1D, \h0E, \h7F>>

\* The nearest data for a code word, two words to an entry.
hammingPackedDecodeValues ==
  <<\h00, \h03, \h05, \hE7, \h09, \hEB, \hED, \hEE, \h03, \h33, \h4D, \h63,
    \h8D, \hA3, \hDD, \hED, \h05, \h2B, \h55, \h65, \h8B, \hBB, \hC5, \hEB,
    \h81, \h63, \h65, \h66, \h88, \h8B, \h8D, \h6F, \h09, \h27, \h47, \h77,
    \h99, \hA9, \hC9, \hE7, \h41, \hA3, \h44, \h47, \hA9, \hAA, \h4D, \hAF,
    \h21, \h22, \hC5, \h27, \hC9, \h2B, \hCC, \hCF, \h11, \h21, \h41, \h6F,
    \h81, \hAF, \hCF, \hFF>>

HammingTableEncode(data) == hammingCodes[data + 1]

HammingTableDecode(code) ==
  LET packed == hammingPackedDecodeValues[code \div 2 + 1]
  IN IF code % 2 = 1 THEN packed % 16 ELSE packed \div 16

\* Mutant: not interleaved.
PlaceInOrder(p) == [word |-> p \div 7, bit |-> p % 7]

\* Which bit of which word the bit p of the buffer is.
Place(p) == [word |-> p % 16, bit |-> p \div 16]
Places == [w \in Words |-> {p \in Bits : Place(p).word = w}]

FECEncode(data) == [p \in Bits |-> Bit(HammingTableEncode(data[Place(p).word]), Place(p).bit)]

FECDecode(air) ==
  [w \in Words |->
     HammingTableDecode(MapThenSumSet(LAMBDA p : air[p] * 2^Place(p).bit, Places[w]))]

\* Sixteen packets, in which each word has each nibble once.
Payload(n) == [w \in Words |-> (n + w) % 16]

\* FECBuffer as it arrives.
Received ==
  LET sent == FECEncode(Payload(packet))
  IN [p \in Bits |-> IF p \in first .. first + BurstLen - 1 THEN 1 - sent[p] ELSE sent[p]]

Init == packet = 0 /\ first = -BurstLen

Send == packet' = (packet + 1) % 16 /\ first' = -BurstLen

Burst ==
  /\ first = -BurstLen
  /\ first' \in -(BurstLen - 1) .. 111
  /\ UNCHANGED packet

Next == Send \/ Burst

Spec == Init /\ [][Next]_vars

-------------------------------------------------------------------------------
\* FEC.h: "the best defence against burst interference, and single bit errors in
\* each codeword can be repaired".  A burst of two bytes hits each word once.
BurstsRepaired == FECDecode(Received) = Payload(packet)
===============================================================================
