-------------------------------- MODULE Wire --------------------------------
(***************************************************************************)
(* What append_spot_config puts into a D-Bus message.  A SpotConfig is a   *)
(* block of bytes:                                                         *)
(*                                                                         *)
(*    0  q (double)     8  bounded    9-11  padding   12  max_excess (int) *)
(*   16  alert         17  up        18  down         19  padding          *)
(*   20  n_init (int)  24  level (double)                                  *)
(*                                                                         *)
(* libdbus takes a double or a 32-bit integer as it is.  For a BOOLEAN it  *)
(* reads four bytes, too, where the program gives it the address of a bool *)
(* of one byte: the three bytes after the flag are read with it.           *)
(***************************************************************************)
EXTENDS Integers, Sequences

CONSTANTS Paddings,  \* bytes the padding may hold
          Libraries  \* what libdbus may do with a BOOLEAN neither 0 nor 1

\* Built without checks it sends TRUE.  With checks it refuses the argument, or,
\* where warnings are fatal, ends the process.
ASSUME WireAssumption ==
    /\ 0 \in Paddings /\ Paddings \subseteq 0..255
    /\ Libraries # {} /\ Libraries \subseteq {"sends", "refuses", "fatal"}

Number == {"q", "max_excess", "n_init", "level"}
Flag == {"bounded", "alert", "up", "down"}

\* n_init stays below 2^16 here, the other numbers are read by nobody's flag.
TwoBytes == 0..65535

ConfigFields == [q : Nat, max_excess : Nat, n_init : TwoBytes, level : Nat,
                 bounded : BOOLEAN, alert : BOOLEAN, up : BOOLEAN, down : BOOLEAN]

\* The fields in the order Dbuspotcher.h gives them.
Fields == <<"q", "bounded", "max_excess", "alert", "up", "down", "n_init", "level">>

PadBytes == {9, 10, 11, 19}

Bit(flag) == IF flag THEN 1 ELSE 0

\* The bytes the four flags' reads can touch, low byte of a number first.
Byte(c, pad, k) ==
    CASE k = 8 -> Bit(c.bounded)
      [] k = 16 -> Bit(c.alert)
      [] k = 17 -> Bit(c.up)
      [] k = 18 -> Bit(c.down)
      [] k \in PadBytes -> pad[k]
      [] k = 20 -> c.n_init % 256
      [] k = 21 -> c.n_init \div 256

Offset == [bounded |-> 8, alert |-> 16, up |-> 17, down |-> 18]

\* Mutant: a BOOLEAN is sent as whether its four bytes are those of TRUE.
SentIsOne(c, pad, flag) ==
    /\ Byte(c, pad, Offset[flag]) = 1
    /\ \A k \in 1..3 : Byte(c, pad, Offset[flag] + k) = 0

\* A BOOLEAN goes out as TRUE unless its four bytes are zero.
SentTrue(c, pad, flag) == \E k \in 0..3 : Byte(c, pad, Offset[flag] + k) # 0

\* The four bytes are those of 0 or of 1.
WellFormed(c, pad, flag) == \A k \in 1..3 : Byte(c, pad, Offset[flag] + k) = 0

\* dbus_message_iter_append_basic: one argument more, the field it stands for and its
\* value, unless the library refuses it.
AppendBasic(arguments, c, pad, library, field) ==
    LET value == IF field \in Number THEN c[field] ELSE SentTrue(c, pad, field)
    IN  IF field \in Number \/ library = "sends" \/ WellFormed(c, pad, field)
        THEN Append(arguments, [field |-> field, value |-> value])
        ELSE arguments

\* The arguments of the reply, one call after the other.
AppendConfig(c, pad, library) ==
    LET Put(arguments, field) == AppendBasic(arguments, c, pad, library, field)
        half == Put(Put(Put(Put(<< >>, "q"), "bounded"), "max_excess"), "alert")
    IN  Put(Put(Put(Put(half, "up"), "down"), "n_init"), "level")

\* A library whose warnings are fatal does not survive some flag.
Survives(c, pad, library) ==
    library # "fatal" \/ \A flag \in Flag : WellFormed(c, pad, flag)
=============================================================================
