----------------------------- MODULE MC_BulkXfer -----------------------------
EXTENDS BulkXfer

\* A push message: CMD 0, TAG, PART, TOTAL, SIZE, payload, 0xF7.
PushMsg(tag, part, size, payload) ==
  <<0, tag, part, NUM_BANKS * PARTS_PER_BANK, size>> \o payload \o <<EOT>>

\* A colour as a pull reports it (lavender), pushed back.
UtilityColors == { <<66, 18, 84>> }

\* A colour of the MF3D utility that is not an MF64 palette colour.
Mf3dColors == { <<0, 15, 26>> }

\* Full parts to every part number, one past the last and 0, of tags 1, 2
\* and the unsupported 3; a pull of each tag.
MC_Messages(colors) ==
  { PushMsg(t, p, PART_SIZE, c) : t \in {1, 2, 3}, p \in 0 .. MAX_PART + 1, c \in colors }
  \cup { <<1, t, EOT>> : t \in {1, 2, 3} }

MC_UtilityMessages == MC_Messages(UtilityColors)

MC_Mf3dMessages == MC_Messages(UtilityColors \cup Mf3dColors)

\* One byte more than a part holds, to the first and the last part.
MC_OversizeMessages ==
  MC_UtilityMessages
  \cup { PushMsg(1, p, PART_SIZE + 1, <<0, 79, 79, 0>>) : p \in {1, MAX_PART} }
=============================================================================
