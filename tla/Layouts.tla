------------------------------ MODULE Layouts ------------------------------
(***************************************************************************)
(* How the codecs of ikbus-commands lay a frame out.  A payload is a       *)
(* sequence of bytes, the command first.  A layout names the command, the  *)
(* lengths the parser takes, the ways the builder writes a payload, the    *)
(* fields the parser reads and the text or data at the end.                *)
(*                                                                         *)
(* A field sits in the bytes "at" (the most significant first; the command *)
(* is byte 0), from the bit of weight "lo" on, and has "size" values.  It  *)
(* is a number of "takes", written as it is, or rounded to units of "step" *)
(* and moved between "least" and "most"; or it is coded by the tables "to" *)
(* and "from".  Bits outside "known" are refused by the parser.  For the   *)
(* properties, "vague" has values that stand for bits without a meaning,   *)
(* "kept" the arguments that a code expresses, and "tries" arguments to    *)
(* try.  Arguments, and what is read, are in the order of the fields.      *)
(*                                                                         *)
(* What may be missing is a set of at most one element: {} is an error     *)
(* thrown by a builder or a parser, or a field beyond the end.             *)
(***************************************************************************)
EXTENDS Integers, Sequences, SequencesExt, Functions

CONSTANT LongestPayload    \* bound: the longest payload looked at

ASSUME LongestAssumption == LongestPayload \in Nat \ {0}

Octets == 0..255

-----------------------------------------------------------------------------
(* Fields.                                                                 *)

Coded(name, at, lo, size, tries, to, from) ==
  [kind |-> "coded", name |-> name, at |-> <<at>>, lo |-> lo, size |-> size, tries |-> tries,
   to |-> to, from |-> from, known |-> DOMAIN from, kept |-> DOMAIN to, vague |-> {}]

Flag(name, at, lo) ==
  Coded(name, at, lo, 2, BOOLEAN, [v \in BOOLEAN |-> IF v THEN 1 ELSE 0],
        [b \in 0..1 |-> b = 1])

Named(name, at, lo, size, table) ==
  Coded(name, at, lo, size, DOMAIN table, table,
        [b \in Range(table) |-> CHOOSE v \in DOMAIN table : table[v] = b])

\* Bits that are not in the table are read as "other", not refused.
OrElse(f, other) ==
  [f EXCEPT !.from = [b \in 0..(f.size - 1) |-> IF b \in DOMAIN f.from THEN f.from[b] ELSE other],
            !.known = 0..(f.size - 1), !.vague = {other}]

BCD(v) == 16 * (v \div 10) + (v % 10)

\* Two decimal digits, both ways in "valid".
Decimal(name, at, valid) ==
  Coded(name, at, 1, 256, {-1, 0, 1, 9, 10, 12, 13, 23, 24, 31, 32, 59, 60, 99, 100},
        [v \in valid |-> BCD(v)],
        [b \in {BCD(v) : v \in valid} |-> 10 * (b \div 16) + (b % 16)])

\* A number that is written as it is, if it is one of "takes".
Number(name, at, lo, size, takes) ==
  [kind |-> "number", name |-> name, at |-> at, lo |-> lo, size |-> size,
   tries |-> {-1, 0, 1, 2, 15, 16, 30, 31, size - 1, size},
   takes |-> takes, known |-> 0..(size - 1), vague |-> {}]

Octet(name, at) == Number(name, <<at>>, 1, 256, Octets)

Word(name, hi) == Number(name, <<hi, hi + 1>>, 1, 65536, 0..65535)

\* A number of which the low bits are written.
Masked(name, at, lo, size) == Number(name, <<at>>, lo, size, -1..256)

\* A number written in units of "step", from "least" to "most" of them.
Rounded(name, at, lo, size, step, least, most, takes) ==
  [kind |-> "rounded", name |-> name, at |-> at, lo |-> lo, size |-> size,
   tries |-> {step * (least - 1), step * least, -1, 0, 1, step + 1, step * most,
              step * (most + 1)},
   takes |-> takes, step |-> step, least |-> least, most |-> most,
   known |-> 0..(size - 1), vague |-> {}]

Scaled(name, at, size, step, takes) == Rounded(name, at, 1, size, step, 0, size - 1, takes)

Clamped(name, at, lo, size, least, most) ==
  Rounded(name, <<at>>, lo, size, 1, least, most, -1000..1000)

-----------------------------------------------------------------------------
(* Arguments and bits.                                                     *)

Takes(f, v) == IF f.kind = "coded" THEN v \in DOMAIN f.to ELSE v \in f.takes

\* A bug: what is beyond the range of the byte is wrapped.
Wrapped(f, v) ==
  CASE f.kind = "coded"   -> f.to[v]
    [] f.kind = "number"  -> v % f.size
    [] f.kind = "rounded" -> ((v + f.step \div 2) \div f.step) % f.size

\* Math.round, Math.max and Math.min, then the byte the number becomes.
ToBits(f, v) ==
  CASE f.kind = "coded"   -> f.to[v]
    [] f.kind = "number"  -> v % f.size
    [] f.kind = "rounded" ->
         LET unit == (v + f.step \div 2) \div f.step
         IN  (IF unit < f.least THEN f.least ELSE IF unit > f.most THEN f.most ELSE unit) % f.size

FromBits(f, b) ==
  CASE f.kind = "coded"   -> f.from[b]
    [] f.kind = "number"  -> b
    [] f.kind = "rounded" -> f.step * (IF f.least < 0 /\ b > f.most THEN b - f.size ELSE b)

-----------------------------------------------------------------------------
(* Texts and data at the end of a frame, from byte "at" on.                *)

\* What is refused, cut, masked and padded, in this order, and what of the
\* bytes of a frame is taken for the text.
Ending(at, longest, lastChar, taken) ==
  [at |-> at, longest |-> longest, cut |-> FALSE, least |-> 0, lastChar |-> lastChar,
   mask |-> FALSE, room |-> 0, pad |-> 0, taken |-> taken]

DataFrom(at) == Ending(at, LongestPayload, 255, "all")

NoEnding == Ending(LongestPayload, 0, 255, "all")

\* slice(0, longest)
Cut(t, text) ==
  IF t.cut /\ Len(text) > t.longest THEN SubSeq(text, 1, t.longest) ELSE text

\* A bug: a short text is not padded.
Unpadded(t, text) ==
  LET short == Cut(t, text)
  IN  IF \/ Len(text) < t.least
         \/ Len(short) > t.longest
         \/ ~t.mask /\ \E i \in DOMAIN short : short[i] > t.lastChar
      THEN {} ELSE {[i \in DOMAIN short |-> short[i] % 256]}

WriteText(t, text) ==
  LET short == Cut(t, text)
  IN  IF \/ Len(text) < t.least
         \/ Len(short) > t.longest
         \/ ~t.mask /\ \E i \in DOMAIN short : short[i] > t.lastChar
      THEN {}
      ELSE {[i \in DOMAIN short |-> short[i] % 256] \o
            [i \in 1..(t.room - Len(short)) |-> t.pad]}

ReadText(t, payload) ==
  LET bytes == SubSeq(payload, t.at + 1, Len(payload))
  IN  CASE t.taken = "all"     -> bytes
        [] t.taken = "trimmed" ->
             SubSeq(bytes, 1, SelectLastInSeq(bytes, LAMBDA b : b # 32))
        [] t.taken = "terminated"  ->
             IF Contains(bytes, 0)
             THEN SubSeq(bytes, 1, SelectInSeq(bytes, LAMBDA b : b = 0) - 1) ELSE bytes

-----------------------------------------------------------------------------
(* Frames.                                                                 *)

Way(length, fields) == [length |-> length, fields |-> fields]

Layout(cmd, lengths, ways, reads, optional, tail) ==
  [cmd |-> cmd, lengths |-> lengths, ways |-> ways, reads |-> reads,
   optional |-> optional, tail |-> tail]

\* A frame of one length, and one of at least "least" bytes, written with n.
Fixed(cmd, n, fields) == Layout(cmd, {n}, <<Way(n, fields)>>, fields, {}, NoEnding)

Open(cmd, least, n, fields, tail) ==
  Layout(cmd, least..LongestPayload, <<Way(n, fields)>>, fields, {}, tail)

Total(numbers) ==
  LET sum[n \in 0..Len(numbers)] == IF n = 0 THEN 0 ELSE sum[n - 1] + numbers[n]
  IN  sum[Len(numbers)]

\* What a byte weighs that has k bytes behind it; no field has more than three.
Weight(k) == CASE k = 0 -> 1 [] k = 1 -> 256 [] k = 2 -> 65536

\* The value a field has in byte i of the payload.
Share(f, bits, i) ==
  IF i \in Range(f.at)
  THEN LET place == CHOOSE k \in DOMAIN f.at : f.at[k] = i
       IN  ((bits * f.lo) \div Weight(Len(f.at) - place)) % 256
  ELSE 0

ByteOf(fields, args, i) ==
  Total([k \in DOMAIN fields |-> Share(fields[k], ToBits(fields[k], args[k]), i)]) % 256

\* The builder: the fields, in any byte the sum of their bits, then the text.
Build(l, way, args, text) ==
  IF \A k \in DOMAIN way.fields : Takes(way.fields[k], args[k])
  THEN {<<l.cmd>> \o [i \in 1..(way.length - 1) |-> ByteOf(way.fields, args, i)] \o bytes :
          bytes \in WriteText(l.tail, text)}
  ELSE {}

Present(f, payload) == \A i \in Range(f.at) : i < Len(payload)

\* A bug: the bytes of a number are read in the opposite order.
LowByteFirst(f, payload) ==
  (Total([k \in DOMAIN f.at |-> Weight(k - 1) * payload[f.at[k] + 1]]) \div f.lo) % f.size

BitsOf(f, payload) ==
  (Total([k \in DOMAIN f.at |-> Weight(Len(f.at) - k) * payload[f.at[k] + 1]]) \div f.lo)
    % f.size

\* The parser: the command, the length, then the fields that are there.
Read(l, payload) ==
  LET there(k) == Present(l.reads[k], payload)
      bits(k)  == BitsOf(l.reads[k], payload)
  IN  IF /\ payload[1] = l.cmd
         /\ Len(payload) \in l.lengths
         /\ \A k \in DOMAIN l.reads : there(k) => bits(k) \in l.reads[k].known
      THEN {[fields |-> [k \in DOMAIN l.reads |->
                           IF there(k) THEN {FromBits(l.reads[k], bits(k))} ELSE {}],
             text   |-> ReadText(l.tail, payload)]}
      ELSE {}

=============================================================================
