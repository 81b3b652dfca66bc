------------------------------- MODULE BulkXfer -------------------------------
(***************************************************************************)
(* The bulk colour-transfer command of config.c (sysExCmdBulkXfer) and    *)
(* the power remap of display.c it calls (adjust_inactive_bank_leds_for_  *)
(* power, adjust_active_bank_leds_for_power).                              *)
(*                                                                         *)
(* Tag 1 addresses default_bank_inactive, tag 2 default_bank_active, each *)
(* uint8_t [NUM_BANKS][BANK_BYTES], seen by the pull as one flat array.  A *)
(* push of part p writes `size` doubled bytes at [bank][offset] with       *)
(* bank = (p-1) >> 3 and offset = ((p-1) & 7) * 24, then remaps every RGB *)
(* triplet from offset while this_byte < offset + size onto the palette   *)
(* default_color.  A pull streams the flat table as parts of 24 bytes,    *)
(* each byte scaled by 127/48.                                             *)
(*                                                                         *)
(* The layout is scaled down: PART_SIZE stands for 24 and PARTS_PER_BANK  *)
(* for 8 (the code's >> 3 and & 7 are \div and % by it).  Each table is  *)
(* followed by SLACK cells that stand for the memory after it, so a write *)
(* past the table is visible.                                              *)
(***************************************************************************)
EXTENDS Integers, Sequences

CONSTANTS
  PART_SIZE,        \* 24: payload bytes of a part
  PARTS_PER_BANK,   \* 8
  NUM_BANKS,        \* 2 (constants.h)
  SLACK,            \* cells modelled past the end of a table
  Messages          \* SysEx payloads the host may send (after the header)

BANK_BYTES == PARTS_PER_BANK * PART_SIZE      \* 64 * 3
TABLE_BYTES == NUM_BANKS * BANK_BYTES
\* Mutant: the part bound one too large ("if (part > 17) return").
MAX_PART_off == NUM_BANKS * PARTS_PER_BANK + 1
MAX_PART == NUM_BANKS * PARTS_PER_BANK         \* "if (part > 16) return"
Addr == 0 .. TABLE_BYTES + SLACK - 1
Tables == {1, 2}                                \* the two supported tags

\* 0xF7, end of SysEx: the last byte of every message, counted in its length
EOT == 247

\* display.h: DISPLAY_SCALING_COLOR_OUT_MAX_VALUE / _IN_MAX_VALUE
OUT_MAX == 127
IN_MAX == 48
MF3D_UTILITY_BRIGHT_COLOR_LIMIT == 128
LAVENDER_GREEN_LIMIT == 36

\* display.c: enum DefaultColorIds and const uint8_t default_color[20][3]
COLORID_OFF == 0
COLORID_RED == 1
COLORID_RED_DIM == 2
COLORID_ORANGE == 3
COLORID_ORANGE_DIM == 4
COLORID_YELLOW == 5
COLORID_YELLOW_DIM == 6
COLORID_CHARTREUSE == 7
COLORID_CHARTREUSE_DIM == 8
COLORID_GREEN == 9
COLORID_GREEN_DIM == 10
COLORID_CYAN == 11
COLORID_CYAN_DIM == 12
COLORID_BLUE == 13
COLORID_BLUE_DIM == 14
COLORID_LAVENDER == 15
COLORID_LAVENDER_DIM == 16
COLORID_PINK == 17
COLORID_PINK_DIM == 18
COLORID_WHITE == 19

default_color ==
  << <<0, 0, 0>>, <<48, 0, 0>>, <<24, 0, 0>>, <<40, 12, 0>>, <<20, 6, 0>>,
     <<32, 25, 0>>, <<16, 12, 0>>, <<25, 32, 0>>, <<12, 16, 0>>, <<0, 48, 0>>,
     <<0, 24, 0>>, <<0, 30, 30>>, <<0, 15, 15>>, <<0, 0, 48>>, <<0, 0, 24>>,
     <<25, 7, 32>>, <<13, 3, 17>>, <<36, 0, 18>>, <<18, 0, 9>>, <<24, 24, 24>> >>

\* default_color[id][c] with C's 0-based id and channel (0 red, 1 green, 2 blue)
Palette(id, c) == default_color[id + 1][c + 1]

\* an id that is no colour: the loop body ends with "continue"
NoChange == -1

VARIABLES
  mem,      \* tag -> the table and the SLACK cells after it
  sent,     \* the parts of the last pull, in the order they were sent
  pushed    \* history: tag and part of the last push that wrote

vars == <<mem, sent, pushed>>

-----------------------------------------------------------------------------
(* Mutants.                                                                *)
ScaleOut_mf3d(v) == v \div 2
-----------------------------------------------------------------------------

\* uint8_t bank = (part-1) >> 3;  uint8_t offset = ((part-1) & 0x07) * 24;
PartBank(part) == (part - 1) \div PARTS_PER_BANK
PartOffset(part) == ((part - 1) % PARTS_PER_BANK) * PART_SIZE

\* The colour a triplet is remapped to: the if/else tree of
\* adjust_*_bank_leds_for_power.  Each branch keeps the triplet when the one
\* channel it tests already has its palette value ("Patch: do not change if
\* already assigned as MF64 Color"), and otherwise picks the bright or the
\* dim colour by comparing one channel with the bright limit.
AdjustedColorId(r, g, b) ==
  LET Pick(kept, v, bright, dim) ==
        IF kept THEN NoChange
        ELSE IF v > MF3D_UTILITY_BRIGHT_COLOR_LIMIT THEN bright ELSE dim
  IN
  IF r = 0 THEN
    IF g = 0 THEN
      IF b = 0 THEN COLORID_OFF
      ELSE Pick(b = Palette(COLORID_BLUE, 2), b, COLORID_BLUE, COLORID_BLUE_DIM)
    ELSE IF b = 0 THEN Pick(g = Palette(COLORID_GREEN, 1), g, COLORID_GREEN, COLORID_GREEN_DIM)
    ELSE Pick(g = Palette(COLORID_CYAN, 1), g, COLORID_CYAN, COLORID_CYAN_DIM)
  ELSE IF g = 0 THEN
    IF b = 0 THEN Pick(r = Palette(COLORID_RED, 0), r, COLORID_RED, COLORID_RED_DIM)
    ELSE Pick(r = Palette(COLORID_PINK, 0), r, COLORID_PINK, COLORID_PINK_DIM)
  ELSE IF b = 0 THEN
    IF r < g THEN Pick(g = Palette(COLORID_CHARTREUSE, 1), g, COLORID_CHARTREUSE, COLORID_CHARTREUSE_DIM)
    ELSE IF r \div 2 >= g THEN Pick(r = Palette(COLORID_ORANGE, 0), r, COLORID_ORANGE, COLORID_ORANGE_DIM)
    ELSE Pick(r = Palette(COLORID_YELLOW, 0), r, COLORID_YELLOW, COLORID_YELLOW_DIM)
  ELSE IF g > LAVENDER_GREEN_LIMIT THEN COLORID_WHITE
  ELSE Pick(b = Palette(COLORID_LAVENDER, 2), r, COLORID_LAVENDER, COLORID_LAVENDER_DIM)

\* One loop iteration at flat address a: read the triplet, write the colour.
AdjustTriplet(m, a) ==
  LET id == AdjustedColorId(m[a], m[a + 1], m[a + 2])
  IN  IF id = NoChange THEN m
      ELSE [m EXCEPT ![a] = Palette(id, 0), ![a + 1] = Palette(id, 1),
                     ![a + 2] = Palette(id, 2)]

\* for (this_byte = offset; this_byte < offset + size; this_byte += 3)
RECURSIVE AdjustFrom(_, _, _, _)
AdjustFrom(m, bank, this_byte, limit) ==
  IF this_byte < limit
  THEN AdjustFrom(AdjustTriplet(m, bank * BANK_BYTES + this_byte), bank, this_byte + 3, limit)
  ELSE m

\* for (idx = 0; idx < size; ++idx) table[bank][offset + idx] = (*buffer++) * 2;
\* with base the flat address of [bank][offset], stored as uint8_t.
CopyPayload(m, base, size, payload) ==
  [a \in Addr |-> IF a - base \in 0 .. size - 1
                  THEN (payload[a - base + 1] * 2) % 256 ELSE m[a]]

\* The push of one part into table m: copy, then remap for power.
PushPart(m, part, size, payload) ==
  LET bank == PartBank(part)
      offset == PartOffset(part)
  IN  AdjustFrom(CopyPayload(m, bank * BANK_BYTES + offset, size, payload),
                 bank, offset, offset + size)

\* this_color * OUT_MAX / IN_MAX in uint16_t, stored into a uint8_t payload
ScaleOut(v) == ((v * OUT_MAX) \div IN_MAX) % 256

\* The pull: parts 1 .. total of the flat table, index running on across
\* banks (source = (uint8_t*)default_bank_*).
PullParts(m) ==
  LET total == TABLE_BYTES \div PART_SIZE
      size(part) == IF TABLE_BYTES - (part - 1) * PART_SIZE > PART_SIZE
                    THEN PART_SIZE ELSE TABLE_BYTES - (part - 1) * PART_SIZE
  IN  [part \in 1 .. total |->
         [part |-> part, total |-> total, size |-> size(part),
          data |-> [i \in 1 .. size(part) |-> ScaleOut(m[(part - 1) * PART_SIZE + i - 1])]]]
\* load_default_colors: bank 0 idle off / active blue, bank 1 idle white /
\* active green.  The memory after a table starts zeroed.
DefaultTable(c0, c1) ==
  [a \in Addr |-> IF a < BANK_BYTES THEN Palette(c0, a % 3)
                  ELSE IF a < TABLE_BYTES THEN Palette(c1, a % 3) ELSE 0]

Init ==
  /\ mem = [t \in Tables |-> IF t = 1 THEN DefaultTable(COLORID_OFF, COLORID_WHITE)
                                     ELSE DefaultTable(COLORID_BLUE, COLORID_GREEN)]
  /\ sent = <<>>
  /\ pushed = [tag |-> 0, part |-> 0]

\* sysExCmdBulkXfer, command 0 (PUSH): msg is CMD TAG PART TOTAL SIZE
\* PAYLOAD 0xF7 and length is Len(msg).  Every early return is a conjunct;
\* a tag other than 1 and 2 passes the checks and writes nothing.
BulkPush ==
  \E msg \in Messages :
    LET length == Len(msg)
    IN  /\ length > 5
        /\ msg[1] = 0
        /\ msg[2] # 0
        /\ msg[3] # 0
        /\ msg[5] <= length - 5
        /\ msg[3] <= MAX_PART
        /\ msg[2] \in Tables
        /\ mem' = [mem EXCEPT ![msg[2]] = PushPart(@, msg[3], msg[5], SubSeq(msg, 6, length))]
        /\ pushed' = [tag |-> msg[2], part |-> msg[3]]
        /\ UNCHANGED sent

\* sysExCmdBulkXfer, command 1 (PULL): every part of the table, sent with
\* midi_stream_sysex one after the other.
BulkPull ==
  \E msg \in Messages :
    /\ Len(msg) > 2
    /\ msg[1] = 1
    /\ msg[2] \in Tables
    /\ sent' = PullParts(mem[msg[2]])
    /\ UNCHANGED <<mem, pushed>>

Next == BulkPush \/ BulkPull

Spec == Init /\ [][Next]_vars

-----------------------------------------------------------------------------
\* The bytes of part p in the flat table, as the pull numbers them.
PartAddrs(p) == (p - 1) * PART_SIZE .. p * PART_SIZE - 1

\* A push of part p changes only the bytes of its own table that the pull
\* sends as part p: neither the copy loop nor the triplet loop of the power
\* remap reaches into another part, the other bank, or the memory after the
\* table (spec 4.9: 8 parts of 24 bytes fill one bank; part and size bounded).
PushStaysInPart ==
  [][\A t \in Tables, a \in Addr :
       mem'[t][a] # mem[t][a] =>
         /\ t = pushed'.tag
         /\ a \in PartAddrs(pushed'.part)
         /\ a < TABLE_BYTES]_vars

\* The twenty colours of default_color.
PaletteColours == {default_color[i] : i \in DOMAIN default_color}

\* Every triplet of part p of table m is a palette colour.
PartInPalette(m, p) ==
  \A a \in PartAddrs(p) : a % 3 = 0 => <<m[a], m[a + 1], m[a + 2]>> \in PaletteColours

\* Pull, then push back a part as pulled (a host editing the colour table
\* round-trips every other part): a part holding only palette colours is
\* unchanged, because the 127/48 scaling of the pull and the doubling plus
\* remap of the push agree on the palette, in whatever mix of bright, dim
\* and default colours pushes have left in the table.  A part holding a
\* kept off-palette triplet (display.c:1136) does not round-trip and is
\* excluded; bulk_mf3d shows what its pull sends.
PullPushFixpoint ==
  \A t \in Tables :
    LET parts == PullParts(mem[t])
    IN  \A p \in DOMAIN parts :
          PartInPalette(mem[t], p) =>
            PushPart(mem[t], p, parts[p].size, parts[p].data \o <<EOT>>) = mem[t]

\* Every data byte of a pulled part is 7-bit (spec 4.9: rescaled to the
\* wire's 7-bit-safe range; config.c: binary data must avoid setting the MSB).
PulledBytes7Bit ==
  \A i \in DOMAIN sent : \A j \in DOMAIN sent[i].data : sent[i].data[j] < 128
=============================================================================
