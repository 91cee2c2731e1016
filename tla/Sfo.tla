-------------------------------- MODULE Sfo --------------------------------
(***************************************************************************)
(* app/sfo.c and app/gameinfo.c: the title of the game on the inserted     *)
(* card, read from its param.sfo.                                          *)
(*                                                                         *)
(* A param.sfo is a record: its size, io (it could be opened, read and     *)
(* held in memory), magic (its first four bytes are right), count (of the  *)
(* header) and ents, the entries counted, as far as the size has room for  *)
(* them.  An entry has a type, a key name, a value (bytes without the      *)
(* terminator) and inside: its two offsets pass the size tests.            *)
(***************************************************************************)
EXTENDS Integers, Sequences, SequencesExt

CONSTANT TitleSize   \* sizeof(title) in do_gc_options and get_output_filename

ASSUME TitleSizeAssumption == TitleSize \in Nat /\ TitleSize > 2

HeaderSize == 20   \* sizeof(GcSfoHeader)
KeySize == 16      \* sizeof(GcSfoKey)

(* What an uninitialised, or an unterminated, char array reads as. *)
Unset == <<256>>
DEFAULT_TITLE == <<85>>   \* stands for "UNKNOWN"

SfoFile == [size : Nat, io : BOOLEAN, magic : BOOLEAN, count : Nat,
        ents : Seq([type : {"STR", "VAL"}, inside : BOOLEAN, name : STRING,
                    value : Seq(Nat)])]
Card == [app : {"missing", "empty", "there"}, sfo : SfoFile]

SfoMissing == [size |-> 0, io |-> FALSE, magic |-> FALSE, count |-> 0, ents |-> <<>>]

(* strncpy(out_key, key_value, out_key_size - 1), out_key_size being one less
   than the array: the terminator is copied only from a value two bytes shorter
   than out_key_size. *)
CopyValue(value) == IF Len(value) < TitleSize - 2 THEN value ELSE Unset

(* The tests made before the entries are read. *)
Rejected(sfo) ==
    \/ ~sfo.io
    \/ sfo.size <= HeaderSize
    \/ ~sfo.magic
    \/ sfo.count > 200
    \/ sfo.size < HeaderSize + KeySize * sfo.count

(* read_sfo_key: the first text entry with the key, unless an entry before it
   points outside the file.  A file of size 0, and so one that is not there, is
   returned as result 0 with nothing copied. *)
read_sfo_key(sfo, key) ==
    LET hit == SelectInSeq(sfo.ents, LAMBDA e :
                   e.type = "STR" /\ (e.inside => e.name = key))
        without(r) == [res |-> r, out |-> Unset]
    IN  IF sfo.size = 0 THEN without("ok")
        ELSE IF Rejected(sfo) THEN without("error")
        ELSE IF hit = 0 THEN without("SFO_KEY_NOT_FOUND")
        ELSE IF ~sfo.ents[hit].inside THEN without("error")
        ELSE [res |-> "ok", out |-> CopyValue(sfo.ents[hit].value)]

(* Mutant of read_gameinfo: the long title first. *)
LongTitleFirst(card) ==
    LET long == read_sfo_key(card.sfo, "TITLE")
        r    == IF long.res = "SFO_KEY_NOT_FOUND"
                THEN read_sfo_key(card.sfo, "STITLE") ELSE long
    IN  IF card.app = "missing" \/ r.res # "ok" THEN DEFAULT_TITLE ELSE r.out

(* read_gameinfo's title.  card.app is the directory gro0:/app: missing, empty
   (read_first_filename still succeeds, and the path it yields names no file)
   or there.  The result of reading TITLE_ID is ignored. *)
read_gameinfo(card) ==
    LET sfo   == IF card.app = "there" THEN card.sfo ELSE SfoMissing
        short == read_sfo_key(sfo, "STITLE")
        r     == IF short.res = "SFO_KEY_NOT_FOUND"
                 THEN read_sfo_key(sfo, "TITLE") ELSE short
    IN  IF card.app = "missing" \/ r.res # "ok" THEN DEFAULT_TITLE ELSE r.out

-----------------------------------------------------------------------------
(* The reference: what the format says the title is. *)

TextEntries(sfo, key) ==
    {i \in DOMAIN sfo.ents : sfo.ents[i].type = "STR" /\ sfo.ents[i].name = key}
FirstText(sfo, key) ==
    sfo.ents[CHOOSE i \in TextEntries(sfo, key) :
                \A j \in TextEntries(sfo, key) : i <= j].value
RefTitle(sfo) ==
    IF TextEntries(sfo, "STITLE") # {} THEN FirstText(sfo, "STITLE")
    ELSE IF TextEntries(sfo, "TITLE") # {} THEN FirstText(sfo, "TITLE")
    ELSE DEFAULT_TITLE

(* A file as the format has it, of values the title array has room for. *)
WellFormed(sfo) ==
    /\ sfo.io /\ sfo.magic
    /\ sfo.count = Len(sfo.ents) /\ sfo.count \in 1..200
    /\ sfo.size >= HeaderSize + KeySize * sfo.count
    /\ \A i \in DOMAIN sfo.ents : sfo.ents[i].inside
Fits(sfo) == \A i \in DOMAIN sfo.ents : Len(sfo.ents[i].value) < TitleSize - 2
=============================================================================
