------------------------------ MODULE GcIdent ------------------------------
(***************************************************************************)
(* app/gc_ident.c: what "Get Game Cart Info" says of the inserted card.    *)
(* The vendor's and the device type's names are left out.                  *)
(***************************************************************************)
EXTENDS Integers

Byte == 0..255

keyid_to_keygroup(key_id) ==
    CASE key_id = 1 -> "Retail"
      [] key_id = 32769 -> "Prototype Group 1"
      [] key_id = 32770 -> "Prototype Group 2"
      [] key_id = 32771 -> "Prototype Group 3"
      [] OTHER -> "Unknown"

(* Mutant of mmc_datetime_from_byte: every year of a later revision is moved. *)
DateAlwaysMoved(rev, mdt) ==
    [year |-> (IF rev > 4 THEN 2013 ELSE 1997) + (mdt % 16), month |-> mdt \div 16]

(* mmc_datetime_from_byte: the years of a revision above 4 start at 2010. *)
mmc_datetime_from_byte(rev, mdt) ==
    LET y == mdt % 16
    IN  [year |-> IF rev > 4 /\ 1997 + y < 2010 THEN 2013 + y ELSE 1997 + y,
         month |-> mdt \div 16]

(* get_gc_info: a register that cannot be read stays 0, and so do the key id and
   the keys of a card that is not authenticated. *)
get_gc_info(cid, ext, auth, key_id) ==
    [rev |-> ext, mdt |-> cid, date |-> mmc_datetime_from_byte(ext, cid),
     group |-> keyid_to_keygroup(IF auth THEN key_id ELSE 0)]
=============================================================================
