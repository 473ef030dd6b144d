----------------------------- MODULE ExprRelation -----------------------------
(***************************************************************************)
(* Edtf::relation on parsed expressions: a consumer holds two expressions  *)
(* the parser accepted and asks how they relate.  The regions module       *)
(* BoundsRelation works on are computed here, so what it assumes of them   *)
(* has to be true of every accepted expression.                            *)
(***************************************************************************)
EXTENDS Validate

CONSTANT Exprs      \* the expressions a consumer may hold

ASSUME ExprsAssumption == \A e \in Exprs : IsExpr(e) /\ Accepted(e)

VARIABLES x, y,     \* the two expressions
          answer    \* the modality of each relation, once asked

vars == <<x, y, answer>>

Regions == INSTANCE BoundsRelation WITH
  MinYear <- I64Min, MaxYear <- I64Max,
  Questions <- {}, Timeline <- {},
  a <- bounds(x), b <- bounds(y)

Init == x \in Exprs /\ y \in Exprs /\ answer = Regions!NoAnswer

Relate == answer' = Regions!relation(bounds(x), bounds(y)) /\ UNCHANGED <<x, y>>
Exchange == x' = y /\ y' = x /\ answer' = Regions!NoAnswer

Next == Relate \/ Exchange

Spec == Init /\ [][Next]_vars

-----------------------------------------------------------------------------
(* Every accepted expression has bounds of the shape relation() and the    *)
(* iterator rely on: days that exist, in an i64 year, the earliest not     *)
(* after the latest, an infinity only on its own side.                     *)
TypeOK == /\ IsBounds(bounds(x), I64Min..I64Max) /\ IsBounds(bounds(y), I64Min..I64Max)
          /\ DOMAIN answer = Regions!RelationNames

(* D18 and D23 agree: the parser refuses a/b exactly when relation() finds *)
(* a definitely after b (props.rs:600, there only in one direction).       *)
OrderAgreesWithRelation ==
  answer # Regions!NoAnswer /\ x.type = "Date" /\ y.type = "Date" =>
    (parse_interval(At(x.date), At(y.date)) <=> answer["After"] # "Definite")

(* The year as written, however large. *)
WrittenYear(d) == IF d.year.kind.form = "Exponential"
                  THEN d.year.kind.significand * 10^d.year.kind.exponent
                  ELSE Get(year_of(d.year.kind))

CannotReach(start, end) ==
  LET plain(d) == ~has_unspecified(d) /\ d.year.significant_digits = None
  IN  plain(start) /\ plain(end) /\ WrittenYear(end) < WrittenYear(start)

(* D18: an interval whose end cannot possibly reach its start is invalid,  *)
(* so the parser accepts none whose end year is written as the smaller one. *)
EndReachesStart ==
  x.type = "Interval" /\ x.start.kind = "Date" /\ x.end.kind = "Date" =>
    ~CannotReach(x.start.date, x.end.date)
=============================================================================
