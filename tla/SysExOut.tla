------------------------------ MODULE SysExOut ------------------------------
(***************************************************************************)
(* midi_stream_sysex (src/midi_fighter_64/midi.c): a SysEx message of     *)
(* length bytes is cut into USB-MIDI event packets.  While more than three *)
(* bytes remain, a packet with code index 0x4 (SysEx starts or continues) *)
(* carries three; the rest, if any, goes into one packet 0x5, 0x6 or 0x7   *)
(* (SysEx ends with 1, 2 or 3 bytes), or 0x3 when the whole message fits   *)
(* in one packet of three.  Unused data bytes of the last packet are 0.    *)
(* A packet is a record [cin, data] with data a triple of bytes.          *)
(***************************************************************************)
EXTENDS Integers, Sequences

\* Mutant: the loop runs while three or more bytes remain.
MoreThanOnePacket_ge(num) == num >= 3

\* while (num > 3)
MoreThanOnePacket(num) == num > 3

\* The code index of the last packet: 0x5 for one byte, 0x6 for two, 0x7
\* for three after a continuation, 0x3 for three when nothing came before.
TailCin(num, first) ==
  CASE num = 1 -> 5
    [] num = 2 -> 6
    [] num = 3 /\ first -> 3
    [] num = 3 /\ ~first -> 7

\* The last packet: Data1 = *data++, Data2 = Data3 = 0, then the bytes the
\* code index calls for.
TailPacket(rest, first) ==
  [cin |-> TailCin(Len(rest), first),
   data |-> [k \in 1 .. 3 |-> IF k <= Len(rest) THEN rest[k] ELSE 0]]

\* The packets sent from byte i on; first is still TRUE when no 0x4 packet
\* has been sent.  num = length - (bytes already sent).
RECURSIVE SendFrom(_, _, _)
SendFrom(msg, i, first) ==
  LET num == Len(msg) - i + 1
  IN  IF MoreThanOnePacket(num)
      THEN <<[cin |-> 4, data |-> <<msg[i], msg[i + 1], msg[i + 2]>>]>>
             \o SendFrom(msg, i + 3, FALSE)
      ELSE IF num = 0 THEN <<>>
      ELSE <<TailPacket(SubSeq(msg, i, Len(msg)), first)>>

midi_stream_sysex(msg) == SendFrom(msg, 1, TRUE)
=============================================================================
