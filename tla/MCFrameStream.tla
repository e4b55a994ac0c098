---------------------------- MODULE MCFrameStream ----------------------------
(***************************************************************************)
(* Byte sequences and the checksum for model-checking FrameStream.         *)
(***************************************************************************)
EXTENDS FrameStream, Bitwise

CONSTANTS Alphabet, MaxWire

XorOf[n \in Nat, s \in Seq(Nat)] ==
  IF n = 0 THEN 0 ELSE XorOf[n - 1, s] ^^ s[n]

\* computeChecksum().
XorChecksum(s) == XorOf[Len(s), s]

\* Any bytes of the alphabet: noise, frames, and frames cut by noise.
FullWires == [1..MaxWire -> Alphabet]

\* Frames as encode() writes them: address 0, LEN, the rest, XOR.
Unsummed == {<<0, n - LenBias>> \o rest : n \in {MinFrame, MaxFrame},
               rest \in UNION {[1..k -> Alphabet] : k \in {MinFrame - 3, MaxFrame - 3}}}

ValidFrames == {Append(u, XorChecksum(u)) :
                  u \in {v \in Unsummed : v[2] + LenBias = Len(v) + 1}}

\* A frame, perhaps behind the first bytes of a long one that was cut off,
\* and a shortest frame.
Remnants == {<<>>, <<0, MaxFrame - LenBias>>}

FramedWires == {m \o f \o g : m \in Remnants, f \in ValidFrames,
                              g \in {h \in ValidFrames : Len(h) = MinFrame}}

=============================================================================
