---------------------------- MODULE StorageCodecs ----------------------------
(***************************************************************************)
(* Attr.encode and Attr.decode (src/snekql/storage.py): what a column      *)
(* sends to the driver, what it refuses to send, and what it makes of what *)
(* comes back.                                                             *)
(*                                                                         *)
(* A column type is a record; kind is the storage type.  A value is what   *)
(* the refusals tell apart:                                                *)
(*   "int"     the integer                                                 *)
(*   "day"     the number of a day; days before FirstNativeDay are before  *)
(*             the year 1000                                               *)
(*   "dec"     <<c, e>>: the Decimal c * 10^e, with its trailing zeros     *)
(*   "time"    <<native, us>>: whether the year is at least 1000, and the  *)
(*             microseconds                                                *)
(*   "offset"  <<local, off>>: the civil seconds and the UTC offset of a   *)
(*             datetime that is stored as ISO text                         *)
(*   "real"    an integer, or NaN                                          *)
(*   "text"    the length of the string                                    *)
(* A day is sent as ISO text, which sorts like the day: DayText + day.     *)
(***************************************************************************)
EXTENDS Integers, Sequences

CONSTANTS None,            \* None, and SQL NULL
          Refused,         \* an exception of the library, before the driver
          NaN,             \* a float that is not finite
          IntMax,          \* _INT64_MAX: 2^63 - 1 in the program
          TextMax,         \* max_text_chars of MariaDB: 255 in the program
          FirstNativeDay   \* the first day of the year 1000

DayText == 100

(* One minute of a UTC offset, in seconds. *)
Minute == 60

Larger(m, n) == IF m > n THEN m ELSE n

Power10[n \in Nat] == IF n = 0 THEN 1 ELSE 10 * Power10[n - 1]

(* len(decimal_tuple.digits): the digits of a coefficient. *)
Digits[c \in Nat] == IF c < 10 THEN 1 ELSE 1 + Digits[c \div 10]

(* The trailing zeros of a coefficient, which need no fractional storage. *)
TrailingZeros[c \in Nat] ==
  IF c = 0 \/ c % 10 # 0 THEN 0 ELSE 1 + TrailingZeros[c \div 10]

InRange(n) == -IntMax - 1 <= n /\ n <= IntMax

(* A DECIMAL that cannot be stored without a numeric change is refused. *)
_encode_decimal(t, v) ==
  LET integer_digits == Larger(Digits[v[1]] + v[2], 0)
      fractional_digits == Larger(-(v[2] + TrailingZeros[v[1]]), 0)
  IN IF /\ v[1] # 0
        /\ integer_digits > t.precision - t.scale \/ fractional_digits > t.scale
       THEN Refused ELSE v

(***************************************************************************)
(* Native dates and datetimes: the native range always, the precision only *)
(* for a value that is written.  A bound of a comparison is not quantised. *)
(***************************************************************************)
_encode_native_temporal(t, v, write) ==
  IF t.kind = "day"
    THEN IF v < FirstNativeDay THEN Refused ELSE DayText + v
    ELSE IF \/ ~v[1]
            \/ write /\ v[2] % Power10[6 - t.precision] # 0
           THEN Refused ELSE v

(***************************************************************************)
(* Everything else goes through the serializer.  It writes a UTC offset in *)
(* whole minutes, so an offset with seconds is refused.  An integer_sum is *)
(* a bound of a SUM, which may be wider than its column.                   *)
(***************************************************************************)
_encode_primitive(b, t, v, integer_sum) ==
  CASE t.kind = "int"    -> IF integer_sum \/ InRange(v) THEN v ELSE Refused
    [] t.kind = "day"    -> DayText + v
    [] t.kind = "offset" -> IF v[2] % Minute # 0 THEN Refused
                            ELSE <<v[1], v[2] - (v[2] % Minute)>>
    [] t.kind = "real"   -> IF v = NaN THEN Refused ELSE v
    [] t.kind = "text"   -> IF b = "mariadb" /\ t.length <= TextMax /\ v > TextMax
                              THEN Refused ELSE v

_encode_value(b, t, v, write, integer_sum) ==
  CASE v = None                                -> None
    [] v # None /\ t.kind = "dec"              -> _encode_decimal(t, v)
    [] v # None /\ \/ t.kind = "time"
                   \/ t.kind = "day" /\ b = "mariadb" ->
                                       _encode_native_temporal(t, v, write)
    [] OTHER                       -> _encode_primitive(b, t, v, integer_sum)

(* encode_write_value and encode_column_value of the dialects. *)
encode_write_value(b, t, v) == _encode_value(b, t, v, TRUE, FALSE)
encode_column_value(b, t, v) == _encode_value(b, t, v, FALSE, FALSE)

(* encode_sum_value: only MariaDB's SUM is wider than a column. *)
encode_sum_value(b, t, v) == _encode_value(b, t, v, FALSE, b = "mariadb")

(***************************************************************************)
(* Attr.decode with validation.  NULL in a column that is not nullable is  *)
(* refused; the text of a day must be the one the encoder writes.  An      *)
(* integer arrives as it was sent.  Values of the other kinds are written  *)
(* and never fetched, so their decoders are not modelled: what is stored   *)
(* stands for itself.                                                      *)
(***************************************************************************)
decode(column, w) ==
  CASE w = None -> IF column.nullable THEN None ELSE Refused
    [] w # None /\ column.type.kind = "day" ->
         IF w < DayText THEN Refused ELSE w - DayText
    [] OTHER -> w
=============================================================================
