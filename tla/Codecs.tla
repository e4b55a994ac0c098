------------------------------- MODULE Codecs -------------------------------
(***************************************************************************)
(* The codecs of ikbus-commands at work: a caller gives a builder its      *)
(* arguments, and the payload is read by the parser of the same name; or   *)
(* a unit of the car sends a payload of its own making, which is read and  *)
(* then built anew from what was read.                                     *)
(*                                                                         *)
(* The two codecs with lists of texts, the menu of the telephone and the   *)
(* stations of the radio, follow the layouts.                              *)
(***************************************************************************)
EXTENDS ClusterFrames, UnitFrames, FiniteSets

CONSTANTS
  Characters,   \* characters of the texts that are tried
  Foreign       \* bytes of the payloads that other units send

ASSUME CharactersAssumption == \A c \in Characters : c \in Nat /\ c < 65536
ASSUME ForeignAssumption == Foreign \subseteq Octets

\* A frame has room for the lists that are tried.
ASSUME ListsAssumption == LongestPayload >= 31

VARIABLES
  codec,    \* the name of the codec
  way,      \* the way its builder is called
  given,    \* the arguments, and the text at the end
  payload,  \* what was built or sent: {} or the payload
  before,   \* what was read of a payload before it was built anew
  stage     \* "idle", "built", "sent", "again", "menu" or "stations"

codecs == <<codec, way, given, payload, before, stage>>

Layouts == ClusterLayouts @@ UnitLayouts

Names == DOMAIN Layouts

Powers == {1, 2, 4, 8, 16, 32, 64, 128, 256}

\* A byte has room for every number of units, and no two share one.
Roomy(size, least, most) ==
  /\ size \in Nat \ {0} /\ least \in Int /\ most \in Int /\ least <= most
  /\ IF least < 0 THEN -size <= least /\ most < size + least ELSE most < size

\* The ends of texts: what is cut is not padded, and what is trimmed or what
\* ends a text is what it is padded with.
Endings(t) ==
  /\ t.at \in Nat /\ t.longest \in Nat /\ t.room \in Nat /\ t.pad \in Octets
  /\ t.least \in Nat
  /\ t.taken \in {"all", "trimmed", "terminated"}
  /\ t.cut => t.room <= t.longest
  /\ t.room > 0 /\ t.taken = "trimmed" => t.pad = 32
  /\ t.room > 0 /\ t.taken = "terminated" => t.pad = 0

\* A field is a run of bits of one byte, or all bits of up to three bytes.
Sits(f) ==
  /\ f.at \in Seq(Nat) /\ Len(f.at) \in 1..3
  /\ \A i, j \in DOMAIN f.at : f.at[i] = f.at[j] => i = j
  /\ IF Len(f.at) = 1
     THEN f.lo \in Powers /\ f.size \in Powers \ {1} /\ f.lo * f.size <= 256
     ELSE f.lo = 1 /\ f.size = 256 * Weight(Len(f.at) - 1)

\* What is written has room in the field and is among the bits the parser
\* knows, and a value that is told apart is read as it was written.
Codes(f) ==
  \/ /\ f.kind = "coded"
     /\ \A v \in DOMAIN f.to : f.to[v] \in 0..(f.size - 1) /\ f.to[v] \in f.known
     /\ \A v \in f.kept \ f.vague : v \in DOMAIN f.to /\ f.from[f.to[v]] = v
  \/ f.kind = "number" /\ f.known = 0..(f.size - 1) /\ f.tries \subseteq Int
  \/ /\ f.kind = "rounded" /\ f.known = 0..(f.size - 1) /\ f.tries \subseteq Int
     /\ f.step \in Nat \ {0} /\ Roomy(f.size, f.least, f.most)

\* The lowest bit of a field in each of its bytes, and how many values it has
\* there.
LowBit(f) == IF Len(f.at) = 1 THEN f.lo ELSE 1
Room(f) == IF Len(f.at) = 1 THEN f.size ELSE 256

Under(f, g, i) == i \in Range(f.at) /\ LowBit(f) * Room(f) <= LowBit(g)

Over(f, g, i) == i \in Range(f.at) /\ LowBit(f) % (LowBit(g) * Room(g)) = 0

\* No two fields share a bit: in the byte of one, the others are above or below
\* it, and all that are below together do not reach it.
Apart(fields) ==
  \A k \in DOMAIN fields : \A i \in Range(fields[k].at) :
    /\ \A j \in DOMAIN fields \ {k} :
         i \in Range(fields[j].at) =>
           Under(fields[j], fields[k], i) \/ Over(fields[j], fields[k], i)
    /\ Total([j \in DOMAIN fields |->
                IF j # k /\ Under(fields[j], fields[k], i)
                THEN LowBit(fields[j]) * (Room(fields[j]) - 1) ELSE 0]) < LowBit(fields[k])

\* Three builders take an empty text that their parsers refuse.
RefusedWhenEmpty == {"navControl", "bodyText", "directDial"}

\* The lengths of what a way to call the builder writes, for texts of a frame.
Written(l, w) ==
  {w.length + (IF l.tail.room > n THEN l.tail.room ELSE n) :
     n \in {m \in 0..(LongestPayload - l.tail.at) : l.tail.least <= m /\ m <= l.tail.longest}}

\* The fields of a way to call the builder are in its bytes, the text follows
\* them, and the parser reads a field of the same name where it was written.
WaySound(l, w) ==
  /\ w.length \in Nat \ {0} /\ Len(w.fields) \in Nat /\ DOMAIN w.fields = 1..Len(w.fields)
  /\ l.tail.longest > 0 => w.length = l.tail.at
  /\ Apart(w.fields)
  /\ \A k \in DOMAIN w.fields :
       LET f == w.fields[k]
       IN  /\ Sits(f) /\ Codes(f) /\ Range(f.at) \subseteq 1..(w.length - 1)
           /\ \E v \in f.tries : Takes(f, v)
           /\ \A j \in DOMAIN l.reads : l.reads[j].name = f.name => l.reads[j] = f
           /\ f.kind = "rounded" => \E j \in DOMAIN l.reads : l.reads[j].name = f.name

\* The parser takes each length that is written, and the bits that are.
WayAccepted(c, l, w) ==
  /\ \A n \in Written(l, w) : n \in l.lengths \/ (n = w.length /\ c \in RefusedWhenEmpty)
  /\ \A j \in DOMAIN l.reads :
       \/ l.reads[j].known = 0..(l.reads[j].size - 1)
       \/ \E k \in DOMAIN w.fields : w.fields[k].name = l.reads[j].name

\* The parser finds every byte it reads in each length it accepts.
ReadsSound(l) ==
  /\ l.cmd \in Octets /\ l.lengths \subseteq 1..LongestPayload
  /\ \A j \in DOMAIN l.reads : Sits(l.reads[j])
  /\ \A n \in l.lengths, j \in DOMAIN l.reads :
       l.reads[j].name \in l.optional \/ \A i \in Range(l.reads[j].at) : i < n

\* A frame without a text, or one that has room for those that are tried; and
\* what is taken with its padding is as long as the padding.
TailSound(l) ==
  /\ Endings(l.tail)
  /\ \/ l.tail = NoEnding
     \/ l.tail.longest > 0 /\ l.tail.at + 30 <= LongestPayload
  /\ l.tail.cut => l.tail.least = 0
  /\ l.tail.taken = "all" /\ l.tail.room > 0 =>
       \A n \in l.lengths : l.tail.at + l.tail.room <= n

\* What is written fits into a frame, and so does what is a byte longer than the
\* shortest payload the parser takes.
LengthsFit(l) ==
  /\ \A w \in DOMAIN l.ways : Written(l, l.ways[w]) \subseteq 1..LongestPayload
  /\ l.lengths # {} =>
       \E m \in l.lengths : m < LongestPayload /\ \A n \in l.lengths : m <= n

LayoutSound(c) ==
  LET l == Layouts[c]
  IN  /\ TailSound(l) /\ ReadsSound(l) /\ LengthsFit(l)
      /\ \A w \in DOMAIN l.ways :
           /\ WaySound(l, l.ways[w])
           /\ l.lengths # {} => WayAccepted(c, l, l.ways[w])
           /\ \A i, j \in DOMAIN l.reads : l.reads[i].name = l.reads[j].name => i = j

\* The layouts are sound.  (What the proofs need to know of the tables.)
ASSUME LayoutsAssumption == \A c \in Names : LayoutSound(c)

\* The codec that a behaviour starts with is one of them.
ASSUME PingAssumption == "ping" \in Names

CodecsTypeOK ==
  /\ codec \in Names
  /\ stage \in {"idle", "built", "sent", "again", "menu", "stations"}
  /\ \A p \in payload : Len(p) \in 1..LongestPayload /\ \A i \in DOMAIN p : p[i] \in Octets
  /\ \A r \in before : DOMAIN r.fields = DOMAIN Layouts[codec].reads

CodecsInit ==
  /\ codec = "ping"
  /\ way = 1
  /\ given = [args |-> <<>>, text |-> <<>>]
  /\ payload = {}
  /\ before = {}
  /\ stage = "idle"

-----------------------------------------------------------------------------
(* Arguments: any two fields take what is tried, the others their first.   *)

First(f) == CHOOSE v \in f.tries : Takes(f, v)

ArgumentsOf(fields) ==
  LET plain == [k \in DOMAIN fields |-> First(fields[k])]
  IN  {plain} \cup
      UNION {UNION {{[plain EXCEPT ![j] = v, ![k] = w] : v \in fields[j].tries,
                                                         w \in fields[k].tries} :
               k \in DOMAIN fields} : j \in DOMAIN fields}

\* Short texts, and long ones about the lengths that the builders know.
TextsOf(ending) ==
  IF ending.longest = 0 THEN {<<>>}
  ELSE (UNION {[1..n -> Characters] : n \in 0..2})
       \cup {[i \in 1..n |-> 65] : n \in {ending.longest - 1, ending.longest,
                                          ending.longest + 1} \cap 3..30}

\* Payloads up to one byte longer than the shortest the parser takes: one
\* byte among zeros or among eighteens.
PayloadsOf(l) ==
  LET longest == CHOOSE n \in l.lengths : \A m \in l.lengths : n <= m
  IN  IF l.lengths = {} THEN {}
      ELSE {<<l.cmd>> \o [i \in 1..n |-> IF i = k THEN b ELSE c] :
              n \in 0..longest, k \in 1..longest, b \in Foreign, c \in {0, 18}}

-----------------------------------------------------------------------------

\* A builder is called.
Compose ==
  /\ stage = "idle"
  /\ \E c \in Names :
       \E w \in DOMAIN Layouts[c].ways :
         \E args \in ArgumentsOf(Layouts[c].ways[w].fields), text \in TextsOf(Layouts[c].tail) :
           /\ codec' = c
           /\ way' = w
           /\ given' = [args |-> args, text |-> text]
           /\ payload' = Build(Layouts[c], Layouts[c].ways[w], args, text)
  /\ stage' = "built"
  /\ UNCHANGED before

\* A unit sends a payload that starts with the command.
Receive ==
  /\ stage = "idle"
  /\ \E c \in Names : \E p \in PayloadsOf(Layouts[c]) :
       codec' = c /\ payload' = {p} /\ before' = Read(Layouts[c], p)
  /\ stage' = "sent"
  /\ UNCHANGED <<way, given>>

\* What was read is given to the builder of the same name, if every argument
\* of a way to call it was there.
BuildAgain ==
  /\ stage = "sent"
  /\ \E read \in before, w \in DOMAIN Layouts[codec].ways :
       LET l == Layouts[codec]
           fields == l.ways[w].fields
           value(k) == UNION {read.fields[j] : j \in {i \in DOMAIN l.reads :
                                                        l.reads[i].name = fields[k].name}}
       IN  /\ \A k \in DOMAIN fields : \E j \in DOMAIN l.reads :
                l.reads[j].name = fields[k].name /\ read.fields[j] # {}
           /\ way' = w
           /\ given' = [args |-> [k \in DOMAIN fields |-> CHOOSE v \in value(k) : TRUE],
                        text |-> read.text]
           /\ payload' = Build(l, l.ways[w], given'.args, read.text)
  /\ stage' = "again"
  /\ UNCHANGED <<codec, before>>

-----------------------------------------------------------------------------
(* Lists of texts.                                                         *)

\* The sequences one after the other.
Joined(parts) ==
  LET upTo[n \in 0..Len(parts)] == IF n = 0 THEN <<>> ELSE upTo[n - 1] \o parts[n]
  IN  upTo[Len(parts)]

\* The loop of a parser: a byte of "cuts" ends a text, any other is added to
\* the text that has begun.
Step(done, b, cuts) ==
  IF b \in cuts
  THEN [ended |-> Append(done.ended, [text |-> done.rest, by |-> b]), rest |-> <<>>]
  ELSE [ended |-> done.ended, rest |-> Append(done.rest, b)]

Split(bytes, cuts) ==
  LET upTo[n \in 0..Len(bytes)] ==
        IF n = 0 THEN [ended |-> <<>>, rest |-> <<>>] ELSE Step(upTo[n - 1], bytes[n], cuts)
  IN  upTo[Len(bytes)]

\* parseTELMenuTextSegments: everything before the first NUL, cut at each 6.
Segments(data) ==
  LET done == Split(ReadText([NoEnding EXCEPT !.at = 0, !.taken = "terminated"], data), {6})
  IN  Append([k \in DOMAIN done.ended |-> done.ended[k].text], done.rest)

\* A bug: the separator is written after the last text as well.
EndEach(texts) == Joined([i \in DOMAIN texts |-> texts[i] \o <<6>>]) \o <<0>>

\* buildTELMenuTextFromFields: 6 between the texts, NUL at the end.
JoinFields(texts) ==
  Joined([i \in DOMAIN texts |-> (IF i > 1 THEN <<6>> ELSE <<>>) \o texts[i]]) \o <<0>>

BuildMenu(texts) ==
  IF \E i \in DOMAIN texts : \E k \in DOMAIN texts[i] : texts[i][k] > 255 THEN {}
  ELSE {<<33, 240, 1, 0>> \o JoinFields(texts)}

\* parseRADNGStationList: names end at a control character, of which bit 4
\* marks the station that is selected.
Stations(bytes) ==
  LET done == Split(bytes, 0..31)
  IN  [k \in DOMAIN done.ended |-> [name |-> done.ended[k].text,
                                    selected |-> (done.ended[k].by \div 16) % 2 = 1]]
      \o IF done.rest = <<>> THEN <<>> ELSE <<[name |-> done.rest, selected |-> FALSE]>>

\* buildRADNGStationListChunk: three stations at most, of eight characters.
BuildStations(entries) ==
  IF \/ Len(entries) > 3
     \/ \E k \in DOMAIN entries : \/ Len(entries[k].name) > 8
                                  \/ \E c \in Range(entries[k].name) : c > 127
  THEN {}
  ELSE {<<212, 3, Len(entries) % 256, 0>> \o
        Joined([k \in DOMAIN entries |->
                  entries[k].name \o <<IF entries[k].selected THEN 16 ELSE 0>>])}

ShortTexts ==
  (UNION {[1..n -> Characters] : n \in 0..2}) \cup {[i \in 1..8 |-> 66], [i \in 1..9 |-> 66]}

ComposeMenu ==
  /\ stage = "idle"
  /\ \E n \in 1..2 : \E texts \in [1..n -> ShortTexts] :
       /\ given' = [args |-> texts, text |-> <<>>]
       /\ payload' = BuildMenu(texts)
  /\ stage' = "menu"
  /\ UNCHANGED <<codec, way, before>>

ComposeStations ==
  /\ stage = "idle"
  /\ \E first, second \in ShortTexts, n \in {0, 1, 2, 3, 4}, k \in 1..3 :
       LET entry(i) == [name |-> IF i = 1 THEN first ELSE second, selected |-> i = k]
       IN  /\ given' = [args |-> [i \in 1..n |-> entry(i)], text |-> <<>>]
           /\ payload' = BuildStations(given'.args)
  /\ stage' = "stations"
  /\ UNCHANGED <<codec, way, before>>

CodecsNext == Compose \/ Receive \/ BuildAgain \/ ComposeMenu \/ ComposeStations

CodecsSpec == CodecsInit /\ [][CodecsNext]_codecs

-----------------------------------------------------------------------------

L == Layouts[codec]

\* The index, among the fields read, of field k of the way it was built.
Place(k) == CHOOSE j \in DOMAIN L.reads : L.reads[j].name = L.ways[way].fields[k].name

IsRead(k) == \E j \in DOMAIN L.reads : L.reads[j].name = L.ways[way].fields[k].name

\* The arguments that a frame can express.
Kept(f, v) ==
  CASE f.kind = "coded"   -> v \in f.kept \ f.vague
    [] f.kind = "number"  -> v \in f.takes /\ v \in 0..(f.size - 1)
    [] f.kind = "rounded" -> v % f.step = 0 /\ v \div f.step \in f.least..f.most

\* What a frame can express arrives: whatever the other arguments, a value
\* that the builder takes and the frame has room for is the value the parser
\* of the same name returns.  Two fields that share a bit, two of a run of
\* flags in the wrong order or a table that names one code twice break it.
\* (src/packages/ikbus-commands/src: buildX() followed by parseX().)
WhatFitsArrives ==
  stage = "built" =>
    \A p \in payload : \A r \in Read(L, p) : \A k \in DOMAIN given.args :
      LET f == L.ways[way].fields[k]
      IN  (IsRead(k) /\ Kept(f, given.args[k])) =>
            r.fields[Place(k)] = {given.args[k]}

\* How far two values are apart.
Distance(a, b) == IF a < b THEN b - a ELSE a - b

\* What a frame cannot express arrives as near as possible: no neighbour of
\* the value read is nearer to a temperature, speed, distance or intensity
\* that had to be rounded or clamped.  A wrapped byte would turn a hot
\* engine into a cold one.  (ike/temperature.ts:20-23 encodeSignedByte,
\* ike/speed-rpm.ts:41-42, rls/light-sensor.ts:63.)
RoundedToNearest ==
  stage = "built" =>
    \A p \in payload : \A r \in Read(L, p) : \A k \in DOMAIN given.args :
      LET f == L.ways[way].fields[k]
      IN  f.kind = "rounded" =>
            \A v \in r.fields[Place(k)] : \A near \in {v - f.step, v + f.step} :
              Kept(f, near) => Distance(v, given.args[k]) <= Distance(near, given.args[k])

\* What the caller of a builder meant is what the reader of the frame gets, or
\* as near as the frame can say it.
FieldsArrive == WhatFitsArrives /\ RoundedToNearest

\* A parser that takes a payload finds every byte it reads, but for the
\* fields that are declared optional: a length that is accepted and too short
\* would hand on NaN and undefined (internal.ts:16-31, payload[n]! everywhere).
NothingUndefined ==
  stage \in {"built", "sent", "again"} => \A p \in payload : \A r \in Read(L, p) :
    \A j \in DOMAIN r.fields : r.fields[j] = {} => L.reads[j].name \in L.optional

\* A parser takes what the builder of the same name made: the length that is
\* asserted on one side is the length written on the other.
BuiltIsAccepted ==
  (stage \in {"built", "again"} /\ L.lengths # {}) =>
    \A p \in payload :
      Read(L, p) # {} \/ (given.text = <<>> /\ codec \in RefusedWhenEmpty)

\* The lengths that are asserted are those the fields need and the builders
\* write.
LengthsAgree == BuiltIsAccepted /\ NothingUndefined

\* A frame of another unit, read and built anew, says what it said, whatever
\* its reserved bits and its length: reading, building and reading again
\* returns the values of the first reading, but for codes without a meaning
\* (rls/light-sensor.ts:38 reads an intensity of 7).
SaysTheSameAgain ==
  stage = "again" =>
    \A p \in payload : \A r \in Read(L, p), first \in before :
      /\ \A k \in DOMAIN L.ways[way].fields :
           LET j == Place(k)
           IN  \A v \in first.fields[j] : Kept(L.reads[j], v) => r.fields[j] = {v}
      /\ IsPrefix(r.text, first.text)

\* A text loses its end and nothing else: the text read is the text given, or
\* the one is the beginning of the other, and printable characters that fit
\* all arrive (ccm-text.ts:80-81 cuts and pads, obc-text.ts:48-49
\* trims, direct-dial.ts:35 stops at NUL).
OnlyEndsAreLost ==
  (stage = "built" /\ L.tail.longest > 0) =>
    \A p \in payload : \A r \in Read(L, p) :
      LET text == [i \in DOMAIN given.text |-> given.text[i] % 256]
          plain == \A i \in DOMAIN text : text[i] \in 33..127
      IN  /\ IsPrefix(r.text, text) \/ IsPrefix(text, r.text)
          /\ plain /\ Len(text) <= L.tail.longest => IsPrefix(text, r.text)
          /\ Len(r.text) > Len(text) => L.tail.taken = "all" /\ L.tail.room = Len(r.text)

Printable(text) == \A i \in DOMAIN text : text[i] >= 32

\* Lists of texts keep their texts and their boundaries: the menu entries and
\* the stations that were sent are the ones that are read, as long as no text
\* has a control character in it (menu-text.ts:105-106, ng-station-list.ts:107).
ListsSurvive ==
  \A p \in payload :
    /\ (stage = "menu" /\ \A i \in DOMAIN given.args : Printable(given.args[i])) =>
         Segments(SubSeq(p, 5, Len(p))) = given.args
    /\ (stage = "stations" /\ \A i \in DOMAIN given.args : Printable(given.args[i].name)) =>
         Stations(SubSeq(p, 5, Len(p))) = given.args

\* Texts and lists of texts arrive with their boundaries.
TextsSurvive == OnlyEndsAreLost /\ ListsSurvive

=============================================================================
