----------------------------- MODULE PointFields -----------------------------
(***************************************************************************)
(* What the persist methods of app/storage/influxdb.py turn a JSON value   *)
(* into, by the field it is written to, and what an InfluxDB shard makes   *)
(* of it: the first write of a field in a shard fixes the field's type,    *)
(* and a point with a field of another type is refused as a whole.         *)
(* A value is abstracted to its kind, a point is a function from its       *)
(* fields to kinds, and of the shard the model keeps the Watched fields.   *)
(***************************************************************************)
EXTENDS Integers, Sequences

CONSTANT Watched  \* bound: the fields whose type in the shard is kept

\* 3, 3.0, 3.5, "3", "on", true, null or missing, NaN, and a list or an object.
Numbers == {"whole", "point_zero", "fraction"}
Kinds == Numbers \cup {"numeral", "text", "bool", "absent", "nonfinite", "structure"}

Types == {"int", "float", "string", "bool"}

\* Fields that pass float(), _num, _as_float or _yearly_cost, and _whole; the
\* others (REST usage, states, versions) are written as they come.
FloatFields == {"current", "wifi_strength", "progress"}
NumFields == {"watts", "hertz", "voltage", "device_watts", "sd_watts", "sd_voltage",
              "sd_energy", "always_on_watts", "cohort_avg_w"}
ParsedFields == {"sd_current", "yearly_cost"}
WholeFields == {"count", "display_count"}
RawFields == {"usage", "user_version", "always_on_state"}

Fields == FloatFields \cup NumFields \cup ParsedFields \cup WholeFields \cup RawFields

ASSUME WatchedAssumption == Watched \subseteq Fields

\* How the client writes a Python value: None and NaN are left out of the point.
TypeOf(k) ==
    CASE k = "whole" -> "int"
      [] k \in {"point_zero", "fraction"} -> "float"
      [] k \in {"numeral", "text"} -> "string"
      [] k = "bool" -> "bool"
      [] k \in {"absent", "nonfinite"} -> "none"
      [] k = "structure" -> "unwritable"

\* float(): the frame or the answer is lost where it raises.
FloatRaises(k) == k \in {"text", "absent", "structure"}
Float(k) == IF k \in Numbers \cup {"numeral", "bool"} THEN "float" ELSE TypeOf(k)

\* A point as the persist methods make it: its float() has not raised.
IsPoint(point) ==
    \A f \in DOMAIN point :
        /\ f \in Fields /\ point[f] \in Kinds
        /\ f \in FloatFields => ~FloatRaises(point[f])

\* Faulty: a reading keeps the type that its spelling has.
NumAsSpelled(k) == TypeOf(k)

Num(k) == IF k \in Numbers THEN "float" ELSE TypeOf(k)

\* _as_float and _yearly_cost: what is no number is left out.
Parsed(k) == IF k \in Numbers \cup {"numeral"} THEN "float" ELSE "none"

Whole(k) == IF k = "point_zero" THEN "int" ELSE TypeOf(k)

\* The type with which field f of a point goes out.
Written(f, k) ==
    CASE f \in FloatFields -> Float(k)
      [] f \in NumFields -> Num(k)
      [] f \in ParsedFields -> Parsed(k)
      [] f \in WholeFields -> Whole(k)
      [] f \in RawFields -> TypeOf(k)

\* The values that a field is meant for.
Proper(f, k) == k \in IF f \in WholeFields THEN {"whole", "point_zero"} ELSE Numbers

\* `usable` of persist_realtime_data: finite current and watts, and a finite
\* hertz where the monitor sends one.
UsableMains(mains) ==
    /\ mains["current"] \in Numbers \cup {"numeral", "bool"}
    /\ mains["watts"] \in Numbers
    /\ mains["hertz"] \in Numbers \cup {"absent"}

-----------------------------------------------------------------------------
(* A shard *)

EmptyShard == [type |-> [f \in Watched |-> "none"], fouled |-> {}, refused |-> {}]

\* The shard after one point: `type` as above; as histories, the fields whose
\* type an improper value fixed (fouled) and those of which a proper value has
\* been refused for its type (refused).
Stored(point, shard) ==
    LET out == [f \in DOMAIN point |-> Written(f, point[f])]
        present == {f \in DOMAIN point \cap Watched : out[f] # "none"}
        clash == {f \in present : shard.type[f] \notin {"none", out[f]}}
        first == {f \in present : shard.type[f] = "none"}
    IN  IF \E f \in DOMAIN point : out[f] = "unwritable" THEN shard
        ELSE IF clash # {}
        THEN [shard EXCEPT !.refused = @ \cup {f \in clash : Proper(f, point[f])}]
        ELSE [shard EXCEPT !.type = [f \in Watched |-> IF f \in first THEN out[f] ELSE @[f]],
                           !.fouled = @ \cup {f \in first : ~Proper(f, point[f])}]

\* The shard after a batch of points.
StoredAll(points, shard) ==
    LET after[i \in 0..Len(points)] ==
          IF i = 0 THEN shard ELSE Stored(points[i], after[i - 1])
    IN  after[Len(points)]
=============================================================================
