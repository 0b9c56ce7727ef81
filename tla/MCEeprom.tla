------------------------------ MODULE MCEeprom ------------------------------
(* Images for a 4-bit "u16": the u16 offset wraps at 16 bytes and a      *)
(* configuration_size is at most 15, so at most 12 with 6-byte records. *)
EXTENDS Eeprom

(* An image with header <<sig, size>>, body halfwords, and the          *)
(* reference CRC (xor-ed with flip) in its last dword.                  *)
MkImage(sig, size, body, flip) ==
  LET pre == <<sig, size>> \o body
      crc == RefCrc(pre \o <<0, 0>>) ^^ flip
  IN  pre \o <<crc % 2^H, crc \div 2^H>>

(* Valid 14-byte images (a 2-byte tail before the CRC) and one of each  *)
(* way eeprom_validate rejects one.                                     *)
MCFiles ==
  { MkImage(2, 6, <<a, b, c>>, 0) : a \in {0, 9}, b \in {0, 9}, c \in {0, 9} }
  \cup { MkImage(2, 6, <<0, 0, 0>>, 1),       \* wrong CRC
         MkImage(1, 6, <<0, 0, 0>>, 0),       \* wrong signature
         MkImage(2, 12, <<0, 0, 0>>, 0),      \* size mismatch
         MkImage(2, 4, <<0, 0>>, 0),          \* size not a multiple of 6
         MkImage(2, 0, <<>>, 0) }             \* too short

(* The largest image the u16 configuration_size allows: 20 bytes, past *)
(* the 16 a u16 offset counts to.                                       *)
MCFilesWrap == { MkImage(2, 12, <<0, 9, 0, 9, 0, 9>>, 0) }
=============================================================================
