-------------------------------- MODULE DayLine --------------------------------
(***************************************************************************)
(* Bounds (bounds.rs Bound, Bounds) and their order (relation.rs Ext): the *)
(* calendar days with an infinity on either side.  Unknown is a bound that *)
(* has no place in the order.                                              *)
(***************************************************************************)
EXTENDS EdtfCalendar

NegInf  == [at |-> "NegInf"]
PosInf  == [at |-> "PosInf"]
Unknown == [at |-> "Unknown"]
DayBound(t) == [at |-> "Day", day |-> t]

MkBounds(e, l) == [earliest |-> e, latest |-> l]
UnknownBounds == MkBounds(Unknown, Unknown)

Below(x, y) == \/ x.at = "NegInf" /\ y.at # "NegInf"
               \/ x.at = "Day" /\ y.at = "Day" /\ Before(x.day, y.day)
               \/ x.at = "Day" /\ y.at = "PosInf"

NotAbove(x, y) == ~Below(y, x)
LaterOf(x, y) == IF Below(x, y) THEN y ELSE x
EarlierOf(x, y) == IF Below(y, x) THEN y ELSE x

(* A bound of the given side, over the days with the given years. *)
IsBound(x, infinity, years) ==
  \/ x = infinity
  \/ x = Unknown
  \/ x.at = "Day" /\ x = DayBound(x.day) /\ x.day \in Position("Day", years)

(* The bounds an expression may have: an infinity only on its own side,    *)
(* days in order. *)
IsBounds(r, years) == /\ IsBound(r.earliest, NegInf, years)
                      /\ IsBound(r.latest, PosInf, years)
                      /\ NotAbove(r.earliest, r.latest)
=============================================================================
