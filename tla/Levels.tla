-------------------------------- MODULE Levels --------------------------------
(***************************************************************************)
(* The conformance level of an expression (types.rs): the least of the     *)
(* levels 0, 1 and 2 of ISO 8601-2 that can write it.                      *)
(***************************************************************************)
EXTENDS EdtfTypes
LOCAL INSTANCE FiniteSetsExt

all_x(o) == IsSome(o) /\ \A i \in DOMAIN Get(o).digits : Get(o).digits[i] = X
fully_written(o) == IsSome(o) /\ ~has_x(Get(o).digits)

-----------------------------------------------------------------------------
(* 0 = unqualified; 1 = one qualifier for the whole date; 2 = mixed. *)
(* Mutant of qualification_level: unqualified components are passed over.  *)
qualification_level_qualified(d) ==
  IF qualifiers(d) = {{}} THEN 0
  ELSE IF \E q \in qualifiers(d) : qualifiers(d) \ {{}} = {q} THEN 1
  ELSE 2

qualification_level(d) == IF qualifiers(d) = {{}} THEN 0
                          ELSE IF qualifiers(d) = {d.year.qualifier} THEN 1
                          ELSE 2

(* 0 = nothing masked; 1 = one of the shapes 1985-04-XX, 1985-XX-XX,       *)
(* 2004-XX, 201X and 20XX; 2 = any other.                                  *)
level_1_mask(d) ==
  LET year_full == d.year.kind.form = "Standard" => ~has_x(d.year.kind.digits)
  IN  \/ year_full /\ fully_written(d.month) /\ all_x(d.day)
      \/ year_full /\ all_x(d.month) /\ (d.day = None \/ all_x(d.day))
      \/ /\ d.month = None /\ d.year.kind.form = "Standard"
         /\ d.year.kind.digits[1] # X /\ d.year.kind.digits[2] # X
         /\ d.year.kind.digits[4] = X

mask_level(d) == IF ~has_unspecified(d) THEN 0 ELSE IF level_1_mask(d) THEN 1 ELSE 2

year_level(year) ==
  CASE IsSome(year.significant_digits) -> 2
    [] year.significant_digits = None ->
         CASE year.kind.form = "Standard" -> IF year.kind.negative THEN 1 ELSE 0
           [] year.kind.form = "Big" -> 1
           [] year.kind.form = "Exponential" -> 2

season_level(month) ==
  CASE slot_value(month) \in {Some(v) : v \in 21..24} -> 1
    [] slot_value(month) \in {Some(v) : v \in 25..41} -> 2
    [] OTHER -> 0

(* Inside an interval every mask is a level 2 feature. *)
date_level(d, in_interval) ==
  Max({year_level(d.year), season_level(d.month), qualification_level(d),
       IF in_interval /\ mask_level(d) > 0 THEN 2 ELSE mask_level(d)})

(* Mutant of endpoint_level: a mask inside an interval keeps its level.    *)
endpoint_level_as_date(e) ==
  CASE e.kind \in {"Open", "Unknown"} -> 1
    [] e.kind \in {"OnOrBefore", "OnOrAfter"} -> 2
    [] e.kind = "Date" -> date_level(e.date, FALSE)

endpoint_level(e) ==
  CASE e.kind \in {"Open", "Unknown"} -> 1
    [] e.kind \in {"OnOrBefore", "OnOrAfter"} -> 2
    [] e.kind = "Date" -> date_level(e.date, TRUE)

interval_level(start, end) == Max({endpoint_level(start), endpoint_level(end)})

level(x) == CASE x.type = "Date" -> date_level(x.date, FALSE)
              [] x.type = "DateTime" -> 0
              [] x.type = "Interval" -> interval_level(x.start, x.end)
              [] x.type = "Set" -> 2
=============================================================================
