-------------------------------- MODULE Postgres --------------------------------
(***************************************************************************)
(* The SQL face (edtf-postgres): the first and the last day of an          *)
(* expression as PostgreSQL dates, and its relation to another as labels.  *)
(*                                                                         *)
(* A date is made by pgrx, which is outside the repository; whether it     *)
(* counts a year 0 (zero) is left open.  NULL is None.  PostgreSQL's dates *)
(* have infinities and are in the order of days.                           *)
(***************************************************************************)
EXTENDS ExprRelation

Null == None

FirstPgYear == -4712
LastPgYear == 5874897

(* Without a year 0, a year of that number is an error. *)
NewDate(day, zero) == IF day[1] = 0 /\ ~zero THEN Null ELSE Some(DayBound(day))

(* Mutant of to_pg_date: a day out of range is put at the end of the line. *)
to_pg_date_clamped(b, zero) ==
  CASE b \in {NegInf, PosInf} -> Some(b)
    [] b = Unknown -> Null
    [] OTHER -> IF b.day[1] < FirstPgYear THEN Some(NegInf)
                ELSE IF b.day[1] > LastPgYear THEN Some(PosInf)
                ELSE NewDate(b.day, zero)

to_pg_date(b, zero) ==
  CASE b \in {NegInf, PosInf} -> Some(b)
    [] b = Unknown -> Null
    [] OTHER -> IF b.day[1] \in FirstPgYear..LastPgYear THEN NewDate(b.day, zero) ELSE Null

edtf_min(e, zero) == to_pg_date(bounds(e).earliest, zero)
edtf_max(e, zero) == to_pg_date(bounds(e).latest, zero)

(* One label for each relation that is not impossible. *)
Label(adverb, r) == [adverb |-> adverb, relation |-> r]

edtf_relation(modalities) ==
  {Label(IF modalities[r] = "Definite" THEN "definitely" ELSE "possibly", r) :
     r \in {r \in DOMAIN modalities : modalities[r] # "Impossible"}}

-----------------------------------------------------------------------------
(* SQL's comparison: what is NULL satisfies none. *)
Less(d, e) == d # Null /\ e # Null /\ Below(Get(d), Get(e))

(* The columns agree with the labels: where relation says that x is        *)
(* definitely before y, no date says otherwise, and where all four dates   *)
(* are there, edtf_max(x) < edtf_min(y) is definitely_before and nothing   *)
(* else.  A bound no PostgreSQL date can hold is NULL and is never moved   *)
(* to one that can be compared (edtf-postgres lib.rs:10-12, 43).           *)
DatesAgreeWithLabels ==
  answer # Regions!NoAnswer =>
    \A zero \in BOOLEAN :
      LET definite == Label("definitely", "Before") \in edtf_relation(answer)
          dates == {edtf_min(x, zero), edtf_max(x, zero), edtf_min(y, zero), edtf_max(y, zero)}
          apart == Less(edtf_max(x, zero), edtf_min(y, zero))
      IN  /\ definite => apart \/ edtf_max(x, zero) = Null \/ edtf_min(y, zero) = Null
          /\ Null \notin dates => (apart <=> edtf_relation(answer) = {Label("definitely", "Before")})
=============================================================================
