-------------------------------- MODULE Ime --------------------------------
(***************************************************************************)
(* app/ime.c: text to and from the system's keyboard, which works in       *)
(* UTF-16, and remove_illegal_chars (app/io.c), which every file name goes *)
(* through.  A text is the sequence of its units or bytes, without the     *)
(* terminating zero.                                                       *)
(***************************************************************************)
EXTENDS Integers, Sequences

Lead(u) == u \div 1024 = 54    \* (u & 0xFC00) == 0xD800
Trail(u) == u \div 1024 = 55   \* (u & 0xFC00) == 0xDC00

At(s, i) == IF i \in DOMAIN s THEN s[i] ELSE 0

MaxUnit == 65535
CodeUnit == 0..MaxUnit   \* uint16_t

(* The loop of both conversions: from the first character to the end of the
   text, append what the character becomes and go on behind it.  become[i] and
   width[i] are for a character that starts at i; WalkFrom(..)[i] is what the
   loop still appends from there on. *)
WalkFrom(become, width) ==
    LET dst[i \in 1..(Len(become) + 3)] ==
          IF i > Len(become) THEN <<>> ELSE become[i] \o dst[i + width[i]]
    IN  dst
Walk(become, width) == WalkFrom(become, width)[1]

(* The bytes of a unit s with t behind it, shifts and masks as divisions and
   remainders. *)
Bytes(s, t) ==
    IF s < 128 THEN <<s>>
    ELSE IF s < 2048 THEN <<192 + (s \div 64), 128 + (s % 64)>>
    ELSE IF Lead(s) /\ Trail(t)
    THEN <<240 + (((s + 64) \div 256) % 4), 128 + (((s \div 4) + 16) % 64),
           128 + ((s \div 256) % 4) * 16 + ((t * 4) % 16), 128 + (t % 64)>>
    ELSE <<224 + (s \div 4096), 128 + ((s \div 64) % 64), 128 + (s % 64)>>

utf16_to_utf8(src) ==
    Walk([i \in DOMAIN src |-> Bytes(src[i], At(src, i + 1))],
         [i \in DOMAIN src |-> IF Lead(src[i]) /\ Trail(At(src, i + 1)) THEN 2 ELSE 1])

(* The unit of a character that starts with the bytes b, c, d; no four-byte form
   is known. *)
Unit(b, c, d) ==
    IF b \in 224..255 THEN (b % 16) * 4096 + (c % 64) * 64 + (d % 64)
    ELSE IF b \in 192..223 THEN (b % 32) * 64 + (c % 64)
    ELSE b
Width(b) == IF b \in 224..255 THEN 3 ELSE IF b \in 192..223 THEN 2 ELSE 1

(* Mutant of utf8_to_utf16: the test for two bytes, which a lead byte of three
   passes too, comes first. *)
TwoByteTestFirst(src) ==
    Walk([i \in DOMAIN src |->
            <<IF src[i] \in 192..255 THEN (src[i] % 32) * 64 + (At(src, i + 1) % 64)
              ELSE src[i]>>],
         [i \in DOMAIN src |-> IF src[i] \in 192..255 THEN 2 ELSE 1])

(* utf8_to_utf16 reads past the end of a text that breaks off inside a
   character. *)
utf8_to_utf16(src) ==
    Walk([i \in DOMAIN src |-> <<Unit(src[i], At(src, i + 1), At(src, i + 2))>>],
         [i \in DOMAIN src |-> Width(src[i])])

(* A text without surrogates, and bytes that are the UTF-8 form of one. *)
Narrow(u) == u \in Seq(CodeUnit) /\ \A i \in DOMAIN u : ~Lead(u[i])
IsUtf8(b) == Narrow(utf8_to_utf16(b)) /\ utf16_to_utf8(utf8_to_utf16(b)) = b

(* '/' '\\' ':' '?' '*' '"' '|' '>' '\n' '\r' '<' *)
Illegal == {47, 92, 58, 63, 42, 34, 124, 62, 10, 13, 60}

remove_illegal_chars(str) ==
    [i \in DOMAIN str |-> IF str[i] \in Illegal THEN 32 ELSE str[i]]

(* open_ime: the dialog starts with the text and ends with a button; CLOSE
   leaves the text as it was. *)
open_ime(text, button, input) ==
    IF button = "CLOSE" THEN text ELSE utf16_to_utf8(input)

(* open_ime_short: num is what atoi reads of the five digits. *)
open_ime_short(number, button, num) ==
    IF button = "CLOSE" THEN number ELSE IF num > 65535 THEN 65535 ELSE num
=============================================================================
