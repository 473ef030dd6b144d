------------------------------- MODULE Cli_proof -------------------------------
(***************************************************************************)
(* Proofs about Cli, for any inputs and any number of them.                *)
(***************************************************************************)
EXTENDS Parser_proof, FromJulian, Cli

(* The places below n are finitely many. *)
LEMMA PlacesFinite ==
  ASSUME NEW n \in Nat, NEW places, places \subseteq 1..n
  PROVE  IsFiniteSet(places) /\ Cardinality(places) \in Nat
<1>1. IsFiniteSet(1..n)
  BY FS_Interval
<1>2. IsFiniteSet(places)
  BY <1>1, FS_Subset
<1> QED BY <1>2, FS_CardinalityType

(* One more place, after all others. *)
LEMMA OneMorePlace ==
  ASSUME NEW n \in Nat, NEW places, places \subseteq 1..n
  PROVE  Cardinality(places \cup {n + 1}) = Cardinality(places) + 1
<1>1. n + 1 \notin places
  OBVIOUS
<1>2. IsFiniteSet(places)
  BY PlacesFinite
<1> QED BY <1>1, <1>2, FS_AddElement

(* Nothing is selected from no places.                                     *)
LEMMA NothingSelected ==
  ASSUME NEW s
  PROVE  Selects(<<>>, s, {})
BY FS_EmptySet DEF Selects

(* What stands at one more place is one more element. *)
LEMMA SelectsOneMore ==
  ASSUME NEW T, NEW t \in Seq(T), NEW s, NEW n \in Nat, NEW places, places \subseteq 1..n,
         s[n + 1] \in T, Selects(t, s, places)
  PROVE  Selects(Append(t, s[n + 1]), s, places \cup {n + 1})
<1> DEFINE more == places \cup {n + 1}
           u == Append(t, s[n + 1])
           rank(set, i) == Cardinality({j \in set : j <= i})
<1>1. Len(u) = Cardinality(more) /\ u[Len(u)] = s[n + 1]
  <2>1. Len(u) = Len(t) + 1 /\ u[Len(t) + 1] = s[n + 1]
    OBVIOUS
  <2>2. Cardinality(more) = Cardinality(places) + 1
    BY OneMorePlace
  <2> QED BY <2>1, <2>2 DEF Selects
<1>2. ASSUME NEW i \in places
      PROVE  u[rank(more, i)] = s[i]
  <2>1. {j \in more : j <= i} = {j \in places : j <= i}
    OBVIOUS
  <2>2. rank(places, i) \in 1..Len(t)
    <3> DEFINE below == {j \in places : j <= i}
    <3>1. below \subseteq places /\ i \in below
      OBVIOUS
    <3>2. IsFiniteSet(places) /\ IsFiniteSet(below) /\ Cardinality(below) \in Nat
      BY PlacesFinite
    <3>3. Cardinality(below) <= Cardinality(places)
      BY <3>1, <3>2, FS_Subset
    <3>4. Cardinality(below) # 0
      BY <3>1, <3>2, FS_EmptySet
    <3> QED BY <3>2, <3>3, <3>4 DEF Selects
  <2>3. u[rank(places, i)] = t[rank(places, i)]
    BY <2>2
  <2> QED BY <2>1, <2>3 DEF Selects
<1>3. u[rank(more, n + 1)] = s[n + 1]
  <2>1. \A j \in more : j <= n + 1
    OBVIOUS
  <2>2. {j \in more : j <= n + 1} = more
    <3> HIDE DEF more
    <3> QED BY <2>1
  <2> HIDE DEF u, more
  <2> QED BY <1>1, <2>2
<1> QED BY <1>1, <1>2, <1>3 DEF Selects

-----------------------------------------------------------------------------
(* How many inputs the loop has passed, and which of them it was asked     *)
(* about and made something of. *)
passed == Len(Requests) - Len(todo)
Seen == {i \in Asked : i <= passed}
Good == {i \in Seen : accepts(cmd, Requests[i])}
Bad == {i \in Seen : ~accepts(cmd, Requests[i])}

Lines == Inputs \cup {Torn}

(* The loop stands before a suffix of the inputs. *)
LoopTyped == /\ Requests \in Seq(Lines) /\ todo \in Seq(Lines) /\ Len(todo) <= Len(Requests)
             /\ \A i \in DOMAIN todo : todo[i] = Requests[passed + i]
             /\ ok \in BOOLEAN /\ out \in Seq(Lines) /\ complaints \in Seq(Lines)
             /\ stdout \in {"read", "gone"}

(* While it runs, all it passed could be read; what was said is about what *)
(* it passed, and ok tells whether all of that was answered. *)
Ongoing == /\ \A i \in 1..passed : Requests[i] # Torn
           /\ stdout = "read" => Selects(out, Requests, Good)
           /\ Selects(complaints, Requests, Bad)
           /\ ok => Selects(out, Requests, Seen)
           /\ ~ok => Len(out) < Cardinality(Seen)

Inv == /\ ExitTellsAll /\ OneByOne
       /\ Looped /\ exit = "none" => LoopTyped /\ Ongoing

(* What has been seen lies among the lines passed.                         *)
LEMMA SeenPlaces ==
  ASSUME LoopTyped
  PROVE  /\ Len(Requests) \in Nat /\ Len(todo) \in Nat /\ passed \in Nat /\ passed <= Len(Requests)
         /\ DOMAIN Requests = 1..Len(Requests)
         /\ Asked \subseteq 1..Len(Requests)
         /\ Seen \subseteq 1..passed /\ Good \subseteq 1..passed /\ Bad \subseteq 1..passed
<1>1. Len(Requests) \in Nat /\ Len(todo) \in Nat /\ DOMAIN Requests = 1..Len(Requests)
  BY DEF LoopTyped
<1>2. passed \in Nat /\ passed <= Len(Requests)
  BY <1>1 DEF LoopTyped, passed
<1> QED BY <1>1, <1>2 DEF Asked, Seen, Good, Bad

(* The next input is the one after those passed. *)
LEMMA NextInput ==
  ASSUME LoopTyped, todo # <<>>
  PROVE  /\ passed + 1 \in DOMAIN Requests /\ Requests[passed + 1] = Head(todo)
         /\ Head(todo) \in Lines /\ Tail(todo) \in Seq(Lines)
         /\ Len(Tail(todo)) = Len(todo) - 1
         /\ \A i \in DOMAIN Tail(todo) : Tail(todo)[i] = Requests[passed + 1 + i]
<1>1. Len(todo) \in Nat \ {0} /\ Head(todo) = todo[1]
  BY DEF LoopTyped
<1>2. passed + 1 \in 1..Len(Requests)
  BY <1>1, SeenPlaces DEF LoopTyped, passed
<1>3. Requests[passed + 1] = Head(todo)
  BY <1>1 DEF LoopTyped
<1>4. Tail(todo) \in Seq(Lines) /\ Len(Tail(todo)) = Len(todo) - 1 /\ Head(todo) \in Lines
  BY <1>1 DEF LoopTyped
<1>5. ASSUME NEW i \in DOMAIN Tail(todo)
      PROVE  Tail(todo)[i] = Requests[passed + 1 + i]
  <2>1. i \in 1..(Len(todo) - 1) /\ Tail(todo)[i] = todo[i + 1] /\ i + 1 \in DOMAIN todo
    BY <1>1, <1>4 DEF LoopTyped
  <2>2. passed + (i + 1) = passed + 1 + i
    BY <2>1, SeenPlaces
  <2> QED BY <2>1, <2>2 DEF LoopTyped
<1> QED BY <1>2, <1>3, <1>4, <1>5, SeenPlaces

(* A turn of the loop passes one input. *)
LEMMA Advance ==
  ASSUME LoopTyped, todo # <<>>, UNCHANGED given, todo' = Tail(todo)
  PROVE  LET this == passed + 1
         IN  /\ Requests' = Requests /\ Asked' = Asked /\ passed' = this
             /\ todo' \in Seq(Lines) /\ Len(todo') <= Len(Requests)
             /\ \A i \in DOMAIN todo' : todo'[i] = Requests[passed' + i]
             /\ this \notin Asked => Seen' = Seen /\ Good' = Good /\ Bad' = Bad
             /\ this \in Asked => Seen' = Seen \cup {this}
             /\ this \in Asked /\ accepts(cmd, Requests[this]) => Good' = Good \cup {this} /\ Bad' = Bad
             /\ this \in Asked /\ ~accepts(cmd, Requests[this]) => Good' = Good /\ Bad' = Bad \cup {this}
<1> DEFINE this == passed + 1
<1>1. Requests' = Requests /\ Asked' = Asked /\ cmd' = cmd
  BY DEF given, Requests, Asked
<1>2. passed' = this
  BY <1>1, NextInput, SeenPlaces DEF passed
<1>3. /\ todo' \in Seq(Lines) /\ Len(todo') <= Len(Requests)
      /\ \A i \in DOMAIN todo' : todo'[i] = Requests[passed' + i]
  BY <1>2, NextInput, SeenPlaces DEF LoopTyped
<1>4. \A i \in Asked : i <= this <=> i <= passed \/ i = this
  BY SeenPlaces
<1>5. ~(this <= passed)
  BY SeenPlaces
<1>6. Seen' = {i \in Asked : i <= this}
  BY <1>1, <1>2 DEF Seen
<1>7. Good' = {i \in Seen' : accepts(cmd, Requests[i])} /\ Bad' = {i \in Seen' : ~accepts(cmd, Requests[i])}
  BY <1>1 DEF Good, Bad, accepts
<1> HIDE DEF this
<1>8. this \notin Asked => Seen' = Seen
  BY <1>4, <1>6 DEF Seen
<1>9. this \in Asked => Seen' = Seen \cup {this}
  BY <1>4, <1>6 DEF Seen
<1>10. this \notin Asked => Good' = Good /\ Bad' = Bad
  BY <1>7, <1>8 DEF Good, Bad
<1>11. this \in Asked /\ accepts(cmd, Requests[this]) => Good' = Good \cup {this} /\ Bad' = Bad
  BY <1>7, <1>9 DEF Good, Bad
<1>12. this \in Asked /\ ~accepts(cmd, Requests[this]) => Good' = Good /\ Bad' = Bad \cup {this}
  BY <1>7, <1>9 DEF Good, Bad
<1> QED BY <1>1, <1>2, <1>3, <1>8, <1>9, <1>10, <1>11, <1>12 DEF this

(* More were seen by one. *)
LEMMA SeenGrows ==
  ASSUME LoopTyped
  PROVE  /\ Cardinality(Seen) \in Nat
         /\ Cardinality(Seen \cup {passed + 1}) = Cardinality(Seen) + 1
BY SeenPlaces, PlacesFinite, OneMorePlace

(* Passing one more line appends it to what is selected.                   *)
LEMMA SelectedOneMore ==
  ASSUME LoopTyped, todo # <<>>, NEW t \in Seq(Lines), NEW places, places \subseteq 1..passed,
         Selects(t, Requests, places)
  PROVE  Selects(Append(t, Head(todo)), Requests, places \cup {passed + 1})
<1>1. passed \in Nat /\ Requests[passed + 1] = Head(todo) /\ Head(todo) \in Lines
  BY SeenPlaces, NextInput
<1>2. Selects(Append(t, Requests[passed + 1]), Requests, places \cup {passed + 1})
  BY <1>1, SelectsOneMore, Zenon
<1> QED BY <1>1, <1>2

(* An empty line is passed over.                                           *)
LEMMA SkipKeeps ==
  ASSUME LoopTyped, Ongoing, Skip
  PROVE  LoopTyped' /\ Ongoing'
<1>1. Blank # Torn
  BY InputsAssumption
<1>2. Requests[passed + 1] = Blank /\ from_stdin(args)
  BY NextInput DEF Skip, skipped
<1>3. passed + 1 \notin Asked
  BY <1>2 DEF Asked
<1>4. /\ Requests' = Requests /\ passed' = passed + 1 /\ Seen' = Seen /\ Good' = Good /\ Bad' = Bad
      /\ LoopTyped'
  BY <1>3, Advance DEF Skip, LoopTyped
<1>5. \A i \in 1..passed' : Requests'[i] # Torn
  BY <1>1, <1>2, <1>4, SeenPlaces DEF Ongoing
<1> QED BY <1>4, <1>5 DEF Ongoing, Skip

(* A line that is handled was asked for, and is the next one.              *)
LEMMA HandledAsked ==
  ASSUME LoopTyped, NEW l \in Inputs, Handle(l)
  PROVE  /\ todo # <<>> /\ passed + 1 \in Asked /\ Requests[passed + 1] = l /\ l # Torn
         /\ UNCHANGED given /\ todo' = Tail(todo) /\ Head(todo) = l
BY NextInput DEF Handle, Asked, skipped

(* An answer to a good line keeps the invariant.                           *)
LEMMA AnswerKeeps ==
  ASSUME LoopTyped, Ongoing, Answer
  PROVE  LoopTyped' /\ Ongoing'
<1>1. PICK l \in Inputs : /\ Handle(l) /\ accepts(cmd, l)
                          /\ out' = IF stdout = "read" THEN Append(out, l) ELSE out
                          /\ ok' = (ok /\ stdout = "read")
                          /\ UNCHANGED complaints
  BY DEF Answer, still_ok
<1>2. /\ todo # <<>> /\ passed + 1 \in Asked /\ Requests[passed + 1] = l /\ l # Torn
      /\ UNCHANGED given /\ todo' = Tail(todo) /\ Head(todo) = l
  BY <1>1, HandledAsked
<1>3. /\ Requests' = Requests /\ passed' = passed + 1
      /\ Seen' = Seen \cup {passed + 1} /\ Good' = Good \cup {passed + 1} /\ Bad' = Bad
      /\ todo' \in Seq(Lines) /\ Len(todo') <= Len(Requests)
      /\ \A i \in DOMAIN todo' : todo'[i] = Requests[passed' + i]
  BY <1>1, <1>2, Advance
<1>4. stdout' = stdout
  BY <1>1 DEF Handle
<1>5. LoopTyped'
  BY <1>1, <1>3, <1>4 DEF LoopTyped, Lines
<1>6. \A i \in 1..passed' : Requests'[i] # Torn
  BY <1>2, <1>3, SeenPlaces DEF Ongoing
<1>7. ASSUME stdout = "read"
      PROVE  /\ Selects(out', Requests, Good \cup {passed + 1})
             /\ ok => Selects(out', Requests, Seen \cup {passed + 1})
             /\ Len(out') = Len(out) + 1
  <2>1. out' = Append(out, Head(todo)) /\ out \in Seq(Lines)
    BY <1>1, <1>2, <1>7 DEF LoopTyped
  <2>2. Selects(out', Requests, Good \cup {passed + 1})
    BY <1>2, <1>7, <2>1, SelectedOneMore, SeenPlaces DEF Ongoing
  <2>3. ok => Selects(out', Requests, Seen \cup {passed + 1})
    BY <1>2, <2>1, SelectedOneMore, SeenPlaces DEF Ongoing
  <2>4. Len(out') = Len(out) + 1
    BY <2>1
  <2> QED BY <2>2, <2>3, <2>4
<1>8. ~ok' => Len(out') < Cardinality(Seen')
  <2>1. Cardinality(Seen') = Cardinality(Seen) + 1 /\ Cardinality(Seen) \in Nat /\ Len(out) \in Nat
    BY <1>3, SeenGrows DEF LoopTyped
  <2>2. ok => Len(out) = Cardinality(Seen)
    BY DEF Ongoing, Selects
  <2> QED BY <1>1, <1>7, <2>1, <2>2 DEF Ongoing, LoopTyped
<1> QED BY <1>1, <1>3, <1>4, <1>5, <1>6, <1>7, <1>8 DEF Ongoing

(* So does a complaint about a bad one.                                    *)
LEMMA ComplainKeeps ==
  ASSUME LoopTyped, Ongoing, Complain
  PROVE  LoopTyped' /\ Ongoing'
<1>1. PICK l \in Inputs : /\ Handle(l) /\ ~accepts(cmd, l)
                          /\ complaints' = Append(complaints, l)
                          /\ ok' = FALSE
                          /\ UNCHANGED out
  BY DEF Complain, still_ok
<1>2. /\ todo # <<>> /\ passed + 1 \in Asked /\ Requests[passed + 1] = l /\ l # Torn
      /\ UNCHANGED given /\ todo' = Tail(todo) /\ Head(todo) = l
  BY <1>1, HandledAsked
<1>3. /\ Requests' = Requests /\ passed' = passed + 1
      /\ Seen' = Seen \cup {passed + 1} /\ Good' = Good /\ Bad' = Bad \cup {passed + 1}
      /\ todo' \in Seq(Lines) /\ Len(todo') <= Len(Requests)
      /\ \A i \in DOMAIN todo' : todo'[i] = Requests[passed' + i]
  BY <1>1, <1>2, Advance
<1>4. stdout' = stdout
  BY <1>1 DEF Handle
<1>5. LoopTyped'
  <2>1. complaints \in Seq(Lines) /\ out' \in Seq(Lines)
    BY <1>1 DEF LoopTyped
  <2>2. l \in Lines
    BY DEF Lines
  <2>3. complaints' \in Seq(Lines)
    BY <1>1, <2>1, <2>2
  <2>4. ok' \in BOOLEAN
    BY <1>1, Zenon
  <2> QED BY <1>3, <1>4, <2>1, <2>3, <2>4 DEF LoopTyped
<1>6. \A i \in 1..passed' : Requests'[i] # Torn
  BY <1>2, <1>3, SeenPlaces DEF Ongoing
<1>7. Selects(complaints', Requests, Bad \cup {passed + 1})
  BY <1>1, <1>2, SelectedOneMore, SeenPlaces DEF Ongoing, LoopTyped
<1>8. Len(out') < Cardinality(Seen')
  <2>1. Cardinality(Seen') = Cardinality(Seen) + 1 /\ Cardinality(Seen) \in Nat /\ Len(out) \in Nat
    BY <1>3, SeenGrows DEF LoopTyped
  <2>2. Len(out) <= Cardinality(Seen)
    BY <2>1 DEF Ongoing, Selects, LoopTyped
  <2> QED BY <1>1, <2>1, <2>2
<1> QED BY <1>1, <1>3, <1>4, <1>5, <1>6, <1>7, <1>8 DEF Ongoing

-----------------------------------------------------------------------------
(* The end of the loop: all that was asked about was passed. *)
LEMMA LoopEndsTrue ==
  ASSUME LoopTyped, Ongoing, LoopEnds
  PROVE  ExitTellsAll' /\ OneByOne'
<1>1. UNCHANGED given /\ out' = out /\ complaints' = complaints /\ stdout' = stdout /\ exit' = code(ok)
  BY DEF LoopEnds
<1>2. passed = Len(Requests)
  BY SeenPlaces DEF LoopEnds, passed
<1>3. Seen = Asked /\ ReachedPlaces = Asked
  BY <1>2, SeenPlaces DEF Seen, ReachedPlaces, Ongoing
<1>4. Requests' = Requests /\ Asked' = Asked /\ ReachedPlaces' = ReachedPlaces /\ cmd' = cmd
  BY <1>1 DEF given, Requests, Asked, ReachedPlaces
<1>5. exit' = "SUCCESS" <=> ok
  BY <1>1 DEF code
<1>6. Selects(out, Requests, Asked) <=> ok
  <2>1. ok => Selects(out, Requests, Asked)
    BY <1>3 DEF Ongoing
  <2>2. ~ok => ~Selects(out, Requests, Asked)
    <3>1. Cardinality(Seen) \in Nat /\ Len(out) \in Nat
      BY SeenGrows DEF LoopTyped
    <3> QED BY <1>3, <3>1 DEF Ongoing, Selects
  <2> QED BY <2>1, <2>2
<1>7. ExitTellsAll'
  BY <1>1, <1>4, <1>5, <1>6 DEF ExitTellsAll, code
<1>8. OneByOne'
  BY <1>1, <1>3, <1>4 DEF OneByOne, Ongoing, Good, Bad, accepts
<1> QED BY <1>7, <1>8

(* The end at a line that cannot be read: it was asked about, and nobody   *)
(* answers it.                                                             *)
LEMMA ReadFailsTrue ==
  ASSUME LoopTyped, Ongoing, ReadFails
  PROVE  ExitTellsAll' /\ OneByOne'
<1> DEFINE this == passed + 1
<1>1. /\ UNCHANGED given /\ out' = out /\ stdout' = stdout /\ exit' = "FAILURE"
      /\ complaints' = Append(complaints, Head(todo)) /\ Head(todo) = Torn /\ todo # <<>>
  BY DEF ReadFails
<1>2. Requests[this] = Torn /\ this \in DOMAIN Requests
  BY <1>1, NextInput
<1>3. Torn # Blank /\ ~accepts(cmd, Torn)
  BY InputsAssumption DEF accepts
<1>4. this \in Asked
  BY <1>2, <1>3 DEF Asked
<1>5. ReachedPlaces = Seen \cup {this}
  <2>1. ASSUME NEW i \in Asked
        PROVE  i \in ReachedPlaces <=> i <= passed \/ i = this
    BY <1>2, SeenPlaces DEF ReachedPlaces, Ongoing
  <2> QED BY <1>4, <2>1 DEF ReachedPlaces, Seen
<1>6. /\ {i \in ReachedPlaces : accepts(cmd, Requests[i])} = Good
      /\ {i \in ReachedPlaces : ~accepts(cmd, Requests[i])} = Bad \cup {this}
  BY <1>2, <1>3, <1>5 DEF Good, Bad
<1>7. Selects(complaints', Requests, Bad \cup {this})
  BY <1>1, SelectedOneMore, SeenPlaces DEF Ongoing, LoopTyped
<1>8. ~Selects(out, Requests, Asked)
  <2>1. Seen \cup {this} \subseteq Asked
    BY <1>4 DEF Seen
  <2>2. IsFiniteSet(Asked) /\ Cardinality(Asked) \in Nat
    BY SeenPlaces, PlacesFinite
  <2>3. Cardinality(Seen \cup {this}) <= Cardinality(Asked)
    BY <2>1, <2>2, FS_Subset
  <2>4. Len(out) <= Cardinality(Seen)
    BY SeenGrows DEF Ongoing, Selects, LoopTyped
  <2> QED BY <2>2, <2>3, <2>4, SeenGrows DEF Selects, LoopTyped
<1>9. Requests' = Requests /\ Asked' = Asked /\ ReachedPlaces' = ReachedPlaces /\ cmd' = cmd
  BY <1>1 DEF given, Requests, Asked, ReachedPlaces
<1>10. ExitTellsAll'
  BY <1>1, <1>8, <1>9 DEF ExitTellsAll
<1>11. OneByOne'
  BY <1>1, <1>6, <1>7, <1>9 DEF OneByOne, Ongoing, accepts
<1> QED BY <1>10, <1>11

(* Every step of the command keeps it.                                     *)
LEMMA StepKeeps ==
  ASSUME Inv, [CallNext]_call_vars
  PROVE  Inv'
<1>1. CASE exit # "none"
  <2>1. UNCHANGED call_vars
    BY <1>1 DEF CallNext, Help, UnknownCommand, Relate, Skip, Answer, Complain, ReadFails, LoopEnds, ReaderLeaves,
                Exited, Running, Looping, Handle, call_vars
  <2> QED BY <1>1, <2>1 DEF call_vars, Inv, ExitTellsAll, OneByOne, Requests, Asked, ReachedPlaces, Looped, accepts
<1>2. CASE exit = "none" /\ ~Looped
  <2>1. ~Looped'
    BY <1>2 DEF CallNext, Help, UnknownCommand, Relate, Skip, Answer, Complain, ReadFails, LoopEnds, ReaderLeaves,
                Exited, Handle, call_vars, given, Looped
  <2> QED BY <2>1 DEF Inv, ExitTellsAll, OneByOne
<1>3. CASE exit = "none" /\ Looped
  <2>1. LoopTyped /\ Ongoing
    BY <1>3 DEF Inv
  <2>2. ~Help /\ ~UnknownCommand /\ ~Relate /\ ~Exited
    BY <1>3 DEF Help, UnknownCommand, Relate, Exited, Running, Looped
  <2>3. CASE Skip
    <3>1. exit' = "none"
      BY <1>3, <2>3 DEF Skip
    <3> QED BY <2>1, <2>3, <3>1, SkipKeeps DEF Inv, ExitTellsAll, OneByOne
  <2>4. CASE Answer
    <3>1. exit' = "none"
      BY <1>3, <2>4 DEF Answer, Handle
    <3> QED BY <2>1, <2>4, <3>1, AnswerKeeps DEF Inv, ExitTellsAll, OneByOne
  <2>5. CASE Complain
    <3>1. exit' = "none"
      BY <1>3, <2>5 DEF Complain, Handle
    <3> QED BY <2>1, <2>5, <3>1, ComplainKeeps DEF Inv, ExitTellsAll, OneByOne
  <2>6. CASE ReadFails
    <3>1. exit' # "none"
      BY <2>6 DEF ReadFails
    <3> QED BY <2>1, <2>6, <3>1, ReadFailsTrue DEF Inv
  <2>7. CASE LoopEnds
    <3>1. exit' # "none"
      BY <2>7 DEF LoopEnds, code
    <3> QED BY <2>1, <2>7, <3>1, LoopEndsTrue DEF Inv
  <2>8. CASE ReaderLeaves
    <3>1. exit' = "none" /\ UNCHANGED <<given, todo, ok, out, complaints>> /\ stdout' = "gone"
      BY <1>3, <2>8 DEF ReaderLeaves
    <3>2. Requests' = Requests /\ passed' = passed /\ Seen' = Seen /\ Good' = Good /\ Bad' = Bad
      BY <3>1 DEF given, Requests, passed, Seen, Asked, Good, Bad, accepts
    <3>3. LoopTyped' /\ Ongoing'
      BY <2>1, <3>1, <3>2 DEF LoopTyped, Ongoing
    <3> QED BY <3>1, <3>3 DEF Inv, ExitTellsAll, OneByOne
  <2>9. CASE UNCHANGED call_vars
    BY <1>3, <2>9 DEF call_vars, Inv, LoopTyped, Ongoing, ExitTellsAll, OneByOne, Requests, Asked, ReachedPlaces, Looped,
                      passed, Seen, Good, Bad, accepts
  <2> QED BY <2>2, <2>3, <2>4, <2>5, <2>6, <2>7, <2>8, <2>9 DEF CallNext
<1> QED BY <1>1, <1>2, <1>3

(* The inputs of a call are a sequence.                                    *)
LEMMA CallIsSequence ==
  ASSUME NEW S, NEW T, S \subseteq T, NEW c \in Calls(S)
  PROVE  c \in Seq(T)
<1>1. PICK n \in 0..MaxInputs : c \in [1..n -> S]
  BY DEF Calls
<1>2. n \in Nat
  BY InputsAssumption
<1> QED BY <1>1, <1>2

(* The command starts in the invariant.                                    *)
LEMMA StartsRight ==
  ASSUME CallInit
  PROVE  Inv
<1>1. CASE Looped
  <2>1. args \in Seq(Lines) /\ stdin \in Seq(Lines)
    <3>1. args \in Seq(Lines)
      BY CallIsSequence DEF CallInit, Lines
    <3>2. stdin \in Calls(Inputs \cup {Torn}) \/ stdin = <<>>
      BY DEF CallInit
    <3>3. CASE stdin \in Calls(Inputs \cup {Torn})
      BY <3>1, <3>3, CallIsSequence DEF Lines
    <3>4. CASE stdin = <<>>
      BY <3>1, <3>4
    <3> QED BY <3>2, <3>3, <3>4
  <2>2. /\ Requests \in Seq(Lines) /\ todo = Requests /\ ok = TRUE /\ out = <<>> /\ complaints = <<>>
        /\ stdout \in {"read", "gone"} /\ exit = "none"
    BY <2>1 DEF CallInit, Requests
  <2>3. passed = 0
    BY <2>2 DEF passed
  <2>4. LoopTyped
    BY <2>2, <2>3 DEF LoopTyped
  <2>5. Seen = {} /\ Good = {} /\ Bad = {}
    BY <2>3, <2>4, SeenPlaces
  <2>6. Ongoing
    BY <2>2, <2>3, <2>5, NothingSelected DEF Ongoing
  <2> QED BY <2>2, <2>4, <2>6 DEF Inv, ExitTellsAll, OneByOne
<1> QED BY <1>1 DEF Inv, ExitTellsAll, OneByOne

(* However many inputs a call is given and wherever a bad one stands, the  *)
(* exit code tells whether all of it was answered (main.rs run()).         *)
THEOREM AlwaysTellsAll == CallSpec => []ExitTellsAll
<1>1. Inv => ExitTellsAll
  BY DEF Inv
<1> QED BY <1>1, StartsRight, StepKeeps, PTL DEF CallSpec

(* And each input was handled as it would be alone, in order.              *)
THEOREM AlwaysOneByOne == CallSpec => []OneByOne
<1>1. Inv => OneByOne
  BY DEF Inv
<1> QED BY <1>1, StartsRight, StepKeeps, PTL DEF CallSpec

-----------------------------------------------------------------------------
(* A Julian date (FromJulian).  What Calendars_proof knows of the numbers  *)
(* of days, from a day both calendars can be counted from.                 *)
FirstOfYearOne == [jdn |-> 1721426, gregorian |-> <<1, 1, 1>>, julian |-> <<1, 1, 3>>]

C == INSTANCE Calendars_proof WITH
       MinYear <- I64Min, MaxYear <- I64Max, Anchor <- FirstOfYearOne, LastJdn <- 1721426,
       jdn <- 0, gregorian <- 0, julian <- 0, month_began <- 0, year_began <- 0

(* That day has both names, and both count to its number.                  *)
LEMMA Anchored == C!AnchorAssumption
<1>1. C!gregorian_jdn(1, 1, 1) = 1721426
  BY SMT DEF C!gregorian_jdn, C!Era, C!before_month
<1>2. C!julian_jdn(1, 1, 3) = 1721426
  BY SMT DEF C!julian_jdn, C!Era, C!before_month
<1>3. <<1, 1, 1>> \in C!Days /\ <<1, 1, 3>> \in C!Days
  BY DEF C!Days
<1>4. \A leap : C!check(1, 1, leap) /\ C!check(1, 3, leap)
  BY DEF C!check, C!last_day
<1> QED BY <1>1, <1>2, <1>3, <1>4, SMT DEF C!AnchorAssumption, FirstOfYearOne

(* The calendars of both are the same.                                     *)
LEMMA SameCalendar ==
  /\ \A m, leap : J!last_day(m, leap) = C!last_day(m, leap) /\ last_day(m, leap) = C!last_day(m, leap)
  /\ \A y : J!is_julian_leap(y) = C!is_julian_leap(y)
  /\ \A y : J!is_gregorian_leap(y) = C!is_gregorian_leap(y)
  /\ \A m, d, leap : J!check(m, d, leap) = C!check(m, d, leap)
  /\ \A t : successor("Day", t) = C!successor("Day", t)
<1>1. \A m, leap : J!last_day(m, leap) = C!last_day(m, leap) /\ last_day(m, leap) = C!last_day(m, leap)
  BY DEF J!last_day, C!last_day, last_day
<1>2. /\ \A y : J!is_julian_leap(y) = C!is_julian_leap(y)
      /\ \A y : J!is_gregorian_leap(y) = C!is_gregorian_leap(y)
  BY DEF J!is_julian_leap, C!is_julian_leap, J!is_gregorian_leap, C!is_gregorian_leap
<1>3. \A m, d, leap : J!check(m, d, leap) = C!check(m, d, leap)
  BY <1>1 DEF J!check, C!check
<1>4. \A t : successor("Day", t) = C!successor("Day", t)
  <2>1. \A y : is_leap(y) = C!is_leap(y)
    BY DEF is_leap, C!is_leap
  <2>2. \A y, m, d : next_month(y, m, d) = C!next_month(y, m, d)
    BY DEF next_month, C!next_month
  <2> QED BY <1>1, <2>1, <2>2 DEF successor, C!successor
<1> QED BY <1>1, <1>2, <1>3, <1>4

(* So are their day numbers.                                               *)
LEMMA SameNumbers ==
  /\ \A y, m, d : J!julian_jdn(y, m, d) = C!julian_jdn(y, m, d)
  /\ \A y, m, d : J!gregorian_jdn(y, m, d) = C!gregorian_jdn(y, m, d)
  /\ \A n : J!jdn_to_gregorian(n) = C!jdn_to_gregorian(n)
  /\ \A n : J!jdn_to_julian(n) = C!jdn_to_julian(n)
<1>1. \A n : J!before_month(n) = C!before_month(n)
  BY DEF J!before_month, C!before_month
<1>2. \A y, m : J!Era(y, m) = C!Era(y, m)
  BY DEF J!Era, C!Era
<1>3. \A n : J!split(n) = C!split(n)
  BY <1>1 DEF J!split, C!split
<1>4. /\ \A y, m, d : J!julian_jdn(y, m, d) = C!julian_jdn(y, m, d)
      /\ \A y, m, d : J!gregorian_jdn(y, m, d) = C!gregorian_jdn(y, m, d)
  BY <1>1, <1>2 DEF J!julian_jdn, C!julian_jdn, J!gregorian_jdn, C!gregorian_jdn
<1>5. /\ \A n : J!jdn_to_gregorian(n) = C!jdn_to_gregorian(n)
      /\ \A n : J!jdn_to_julian(n) = C!jdn_to_julian(n)
  BY <1>3 DEF J!jdn_to_gregorian, C!jdn_to_gregorian, J!jdn_to_julian, C!jdn_to_julian
<1> QED BY <1>4, <1>5

(* And their conversions.                                                  *)
LEMMA SameConversions ==
  /\ J!Years = C!Years
  /\ \A t : J!DayOf(t) = C!DayOf(t) /\ J!narrow(t) = C!narrow(t)
  /\ \A r : J!Ok(r) = C!Ok(r)
  /\ \A t : J!gregorian_to_julian(t) = C!gregorian_to_julian(t)
  /\ \A y, month, day : J!convert(y, month, day) = C!convert(y, month, day)
<1>1. J!Years = C!Years /\ J!InvalidDate = C!InvalidDate /\ J!OutOfRange = C!OutOfRange
  BY DEF J!Years, C!Years, J!InvalidDate, C!InvalidDate, J!OutOfRange, C!OutOfRange
<1>2. /\ \A t : J!DayOf(t) = C!DayOf(t)
      /\ \A s, t : J!Span(s, t) = C!Span(s, t)
      /\ \A r : J!Ok(r) = C!Ok(r)
  BY DEF J!DayOf, C!DayOf, J!Span, C!Span, J!Ok, C!Ok
<1>3. \A t : J!narrow(t) = C!narrow(t)
  BY <1>1, <1>2 DEF J!narrow, C!narrow
<1>4. \A t : J!gregorian_to_julian(t) = C!gregorian_to_julian(t)
  BY <1>1, <1>3, SameCalendar, SameNumbers DEF J!gregorian_to_julian, C!gregorian_to_julian
<1>5. \A t : J!julian_to_gregorian(t) = C!julian_to_gregorian(t)
  BY <1>1, <1>3, SameCalendar, SameNumbers DEF J!julian_to_gregorian, C!julian_to_gregorian
<1>6. \A s, t : J!SpanOf(s, t) = C!SpanOf(s, t)
  BY <1>2, <1>5 DEF J!SpanOf, C!SpanOf
<1>7. \A y, m : J!month_end(y, m) = C!month_end(y, m)
  BY SameCalendar DEF J!month_end, C!month_end
<1>8. \A y, month, day : J!convert(y, month, day) = C!convert(y, month, day)
  BY <1>1, <1>5, <1>6, <1>7 DEF J!convert, C!convert
<1> QED BY <1>1, <1>2, <1>3, <1>4, <1>8

(* A part that is there is a number of two digits.                         *)
LEMMA TwoDigitRead ==
  ASSUME NEW left \in Option(TokenText), is_two_digit(left)
  PROVE  two_digit(left) \in C!Part
<1>1. CASE left = None
  BY <1>1 DEF two_digit, C!Part
<1>2. CASE left # None
  <2>1. slice(left) \in TokenText
    BY <1>2, Options, CutTypes DEF slice
  <2>2. PICK g \in Seq(MaskDigit) : /\ slice(left)[1].digits = g /\ Len(g) = 2 /\ ~has_x(g)
    <3>1. is_number(slice(left)) /\ Len(slice(left)[1].digits) = 2
      BY <1>2 DEF is_two_digit
    <3>2. slice(left)[1] \in Token
      BY <2>1, <3>1 DEF TokenText, is_number
    <3> QED BY <3>1, <3>2, OfGroup DEF is_number
  <2>3. g[1] \in Int /\ g[2] \in Int
    <3>1. g[1] \in MaskDigit /\ g[2] \in MaskDigit
      BY <2>2
    <3> QED BY <3>1 DEF MaskDigit, Digit, X
  <2>4. two(slice(left)[1]) \in Int
    BY <2>2, <2>3 DEF two
  <2> QED BY <1>2, <2>4 DEF two_digit, C!Part
<1> QED BY <1>1, <1>2

(* What is read of a Julian date: a year that fits, a month and a day.     *)
LEMMA JulianRead ==
  ASSUME NEW t \in TokenText, readable(t)
  PROVE  /\ julian_year(t) \in Int /\ julian_year(t) \in C!Years
         /\ julian_month(t) \in C!Part /\ julian_day(t) \in C!Part
         /\ julian_month(t) = <<>> => julian_day(t) = <<>>
<1>1. eat(t, "-") \in TokenText
  BY CursorTypes
<1>2. /\ year_ahead_of(t) \in Option(TokenText)
      /\ Get(year_ahead_of(t)) \in TokenText
  BY <1>1, Options DEF year_ahead_of
<1>3. ASSUME NEW left \in Option(TokenText)
      PROVE  beyond(left) \in Option(TokenText)
  <2>1. CASE left = None
    BY <2>1 DEF beyond
  <2>2. CASE left # None
    <3>1. Get(left) \in TokenText
      BY <2>2, Options
    <3> QED BY <2>2, <3>1, CutTypes DEF beyond
  <2> QED BY <2>1, <2>2
<1>4. month_ahead_of(t) \in Option(TokenText) /\ day_ahead_of(t) \in Option(TokenText)
  BY <1>2, <1>3 DEF month_ahead_of, day_ahead_of
<1>5. julian_month(t) \in C!Part /\ julian_day(t) \in C!Part
  BY <1>4, TwoDigitRead DEF readable, julian_month, julian_day
<1>6. julian_month(t) = <<>> => julian_day(t) = <<>>
  <2>1. julian_month(t) = <<>> => month_ahead_of(t) = None
    BY DEF julian_month, two_digit
  <2>2. month_ahead_of(t) = None => day_ahead_of(t) = None
    BY DEF day_ahead_of, beyond
  <2> QED BY <2>1, <2>2 DEF julian_day, two_digit
<1>7. Get(take_number(slice(year_ahead_of(t)))) \in 0..I64Max
  <2>1. slice(year_ahead_of(t)) \in TokenText
    BY <1>2, CutTypes DEF slice
  <2> QED BY <2>1, NumberTaken DEF readable
<1>8. julian_year(t) \in Int /\ julian_year(t) \in C!Years
  BY <1>7, I64Assumption DEF julian_year, C!Years
<1> QED BY <1>5, <1>6, <1>8

(* A conversion that answers covers what was asked.                        *)
LEMMA Covers ==
  ASSUME NEW t \in TokenText, readable(t), NEW r, r = converted(t), J!Ok(r)
  PROVE  /\ J!gregorian_to_julian(earliest_of(r)) = J!DayOf(BeginsAt(t))
         /\ J!gregorian_to_julian(successor("Day", latest_of(r))) = J!narrow(NextBeginsAt(t))
<1> DEFINE y == julian_year(t)
           month == julian_month(t)
           day == julian_day(t)
           leap == C!is_julian_leap(y)
           last == C!Ends(y, month, day)
<1>1. /\ y \in Int /\ y \in C!Years /\ month \in C!Part /\ day \in C!Part
      /\ month = <<>> => day = <<>>
  BY JulianRead
<1>2. r = C!convert(y, month, day) /\ C!Ok(r)
  BY SameConversions DEF converted
<1> HIDE DEF y, month, day
<1>3. /\ C!gregorian_to_julian(C!FirstDay(r)) = C!DayOf(C!Begins(y, month, day))
      /\ C!gregorian_to_julian(C!successor("Day", C!LastDay(r))) = C!narrow(C!day_after(last, leap))
      /\ last \in C!Days /\ C!check(last[2], last[3], leap)
  BY <1>1, <1>2, Anchored, C!ConversionsCover
<1>4. C!FirstDay(r) = earliest_of(r) /\ C!LastDay(r) = latest_of(r)
  BY DEF C!FirstDay, C!LastDay, earliest_of, latest_of
<1>5. C!Begins(y, month, day) = BeginsAt(t)
  BY DEF C!Begins, BeginsAt, y, month, day
<1>6. C!day_after(last, leap) = NextBeginsAt(t)
  <2>1. BeginsAt(t)[1] = y
    BY DEF BeginsAt, y
  <2>2. CASE month = <<>>
    <3>1. last = <<y, 12, 31>>
      BY <2>2 DEF C!Ends
    <3>2. C!last_day(12, leap) = 31
      BY DEF C!last_day
    <3>3. C!day_after(last, leap) = <<y + 1, 1, 1>>
      BY <3>1, <3>2 DEF C!day_after
    <3> QED BY <2>1, <2>2, <3>3 DEF NextBeginsAt, month
  <2>3. CASE month # <<>>
    <3>1. PICK m \in Int : month = <<m>> /\ BeginsAt(t)[2] = m
      BY <1>1, <2>3 DEF C!Part, BeginsAt, month
    <3>2. m \in 1..12 /\ last[1] = y /\ last[2] = m
      BY <1>3, <2>3, <3>1 DEF C!Ends, C!check
    <3>3. C!last_day(m, leap) \in Int
      BY DEF C!last_day
    <3>4. next_month(y, m, 1) = IF m < 12 THEN <<y, m + 1, 1>> ELSE <<y + 1, 1, 1>>
      BY <3>2 DEF next_month
    <3>5. CASE day = <<>>
      <4>1. last[3] = C!last_day(m, leap)
        BY <2>3, <3>1, <3>5 DEF C!Ends, C!month_end
      <4>2. C!day_after(last, leap) = next_month(y, m, 1)
        BY <3>2, <3>3, <3>4, <4>1 DEF C!day_after
      <4> QED BY <2>1, <2>3, <3>1, <3>5, <4>2 DEF NextBeginsAt, month, day
    <3>6. CASE day # <<>>
      <4>1. PICK d \in Int : day = <<d>> /\ BeginsAt(t)[3] = d
        BY <1>1, <3>6 DEF C!Part, BeginsAt, day
      <4>2. last[3] = d /\ d \in 1..C!last_day(m, leap)
        BY <1>3, <2>3, <3>1, <3>2, <3>6, <4>1 DEF C!Ends, C!check
      <4>3. J!check(m, d + 1, J!is_julian_leap(y)) <=> d < C!last_day(m, leap)
        <5>1. J!check(m, d + 1, J!is_julian_leap(y)) <=> C!check(m, d + 1, leap)
          BY SameCalendar
        <5> QED BY <3>2, <3>3, <4>2, <5>1 DEF C!check
      <4>4. C!day_after(last, leap) =
              IF d < C!last_day(m, leap) THEN <<y, m, d + 1>> ELSE next_month(y, m, 1)
        BY <3>2, <3>4, <4>2 DEF C!day_after
      <4> QED BY <2>1, <2>3, <3>1, <3>6, <4>1, <4>3, <4>4 DEF NextBeginsAt, month, day
    <3> QED BY <3>5, <3>6
  <2> QED BY <2>2, <2>3
<1> QED BY <1>3, <1>4, <1>5, <1>6, SameConversions, SameCalendar

(* What answers a Julian date was read whole, and its conversion answered. *)
OfAnAnswer ==
  /\ input \in TokenText
  /\ Answered => readable(input) /\ J!Ok(converted(input))

(* It is so of every state.                                                *)
LEMMA AnswersHold == FromJulianSpec => []OfAnAnswer
<1>1. Typed => OfAnAnswer
  BY JulianInputsAssumption DEF Typed, OfAnAnswer, Answered
<1>2. OfAnAnswer /\ [FromJulianNext]_<<input, vars>> => OfAnAnswer'
  <2> SUFFICES ASSUME OfAnAnswer, [FromJulianNext]_<<input, vars>>
               PROVE  OfAnAnswer'
    OBVIOUS
  <2>1. CASE Convert
    <3>1. input' = input /\ readable(input) /\ J!Ok(converted(input))
      BY <2>1 DEF Convert
    <3> QED BY <3>1 DEF OfAnAnswer, Answered
  <2>2. CASE Refuse
    BY <2>2 DEF Refuse, OfAnAnswer, Answered
  <2>5. CASE Panic
    BY <2>5 DEF Panic, OfAnAnswer, Answered
  <2>3. CASE ReadPrinted
    <3>1. input' = input /\ Answered
      BY <2>3 DEF ReadPrinted
    <3> QED BY <3>1 DEF OfAnAnswer, Answered
  <2>4. CASE Finished \/ UNCHANGED <<input, vars>>
    <3>1. input' = input /\ pc' = pc
      BY <2>4 DEF Finished, vars
    <3> QED BY <3>1 DEF OfAnAnswer, Answered
  <2> QED BY <2>1, <2>2, <2>3, <2>4, <2>5 DEF FromJulianNext
<1> QED BY <1>1, <1>2, PTL DEF FromJulianSpec

(* What the command line answers for a Julian year, month or day is        *)
(* exactly its own days.                                                   *)
THEOREM PrecisionCovered == FromJulianSpec => []CoversPrecision
<1>1. OfAnAnswer => CoversPrecision
  <2> SUFFICES ASSUME OfAnAnswer, Answered, NEW r, r = converted(input)
               PROVE  /\ J!gregorian_to_julian(earliest_of(r)) = J!DayOf(BeginsAt(input))
                      /\ J!gregorian_to_julian(successor("Day", latest_of(r)))
                           = J!narrow(NextBeginsAt(input))
    BY DEF CoversPrecision
  <2> QED BY Covers DEF OfAnAnswer
<1> QED BY <1>1, AnswersHold, PTL

-----------------------------------------------------------------------------
(* The printed text reads back.  A day whose year has four digits is       *)
(* written as this date.                                                   *)
DateOn(y, m, d) ==
  Date(concrete_year(y, {}), Some(concrete_field(m, {})), Some(concrete_field(d, {})))

YearDigits(n) == <<n \div 1000, (n \div 100) % 10, (n \div 10) % 10, n % 10>>
FieldDigits(n) == <<n \div 10, n % 10>>

(* Its parts: digits without a mask, read back as the numbers, and no      *)
(* qualifier.                                                              *)
IsDateOn(e, y, m, d) ==
  /\ e \in Dates /\ e = DateOn(y, m, d)
  /\ e.year.kind = Standard(y < 0, YearDigits(Abs(y))) /\ e.year.significant_digits = None
  /\ e.year.kind.form = "Standard" /\ ~has_x(e.year.kind.digits)
  /\ e.year.qualifier = {} /\ year_of(e.year.kind) = Some(y)
  /\ e.month = Some(Field(FieldDigits(m), {})) /\ e.day = Some(Field(FieldDigits(d), {}))
  /\ ~has_x(FieldDigits(m)) /\ ~has_x(FieldDigits(d))
  /\ field_value(Field(FieldDigits(m), {})) = Some(m) /\ field_value(Field(FieldDigits(d), {})) = Some(d)

(* A short year's four digits.                                             *)
LEMMA YearOfFour ==
  ASSUME NEW y \in ShortYears
  PROVE  /\ concrete_year(y, {}) = Year(Standard(y < 0, YearDigits(Abs(y))), None, {})
         /\ YearDigits(Abs(y)) \in [1..4 -> MaskDigit] /\ ~has_x(YearDigits(Abs(y)))
         /\ y < 0 => YearDigits(Abs(y)) # <<0, 0, 0, 0>>
<1>0. y \in Int /\ -9999 <= y /\ y <= 9999
  BY DEF ShortYears
<1>1. PICK n \in Nat : n = Abs(y) /\ (y < 0 => n > 0) /\ n <= 9999
  <2>1. Abs(y) \in Nat /\ (y < 0 => Abs(y) > 0) /\ Abs(y) <= 9999
    BY <1>0 DEF Abs
  <2> QED BY <2>1
<1>2. PICK a \in 0..9, b \in 0..9, c \in 0..9, e \in 0..9 :
        /\ a = n \div 1000 /\ b = (n \div 100) % 10 /\ c = (n \div 10) % 10 /\ e = n % 10
  <2>1. n \div 1000 \in 0..9 /\ (n \div 100) % 10 \in 0..9 /\ (n \div 10) % 10 \in 0..9 /\ n % 10 \in 0..9
    BY <1>1
  <2> QED BY <2>1
<1>3. (n \div 1000) % 10 = n \div 1000
  BY <1>1
<1>4. YearDigits(n) = <<a, b, c, e>>
  BY <1>2 DEF YearDigits
<1>5. concrete_year(y, {}) = Year(Standard(y < 0, <<a, b, c, e>>), None, {})
  BY <1>1, <1>2, <1>3 DEF concrete_year, ShortYears
<1>6. <<a, b, c, e>> \in [1..4 -> MaskDigit] /\ ~has_x(<<a, b, c, e>>)
  BY <1>2 DEF MaskDigit, Digit, X, has_x
<1>7. n > 0 => <<a, b, c, e>> # <<0, 0, 0, 0>>
  <2>1. 1000 * a + 100 * b + 10 * c + e = n
    <3>1. n = 10 * (n \div 10) + e
      BY <1>2
    <3>2. n \div 10 = 10 * (n \div 100) + c
      BY <1>2
    <3>3. n \div 100 = 10 * (n \div 1000) + b
      BY <1>2
    <3>4. n \div 10 \in Int /\ n \div 100 \in Int
      BY <1>1
    <3> QED BY <1>2, <3>1, <3>2, <3>3, <3>4
  <2> SUFFICES ASSUME <<a, b, c, e>> = <<0, 0, 0, 0>> PROVE n = 0
    BY <1>1
  <2>2. a = 0 /\ b = 0 /\ c = 0 /\ e = 0
    OBVIOUS
  <2> QED BY <2>1, <2>2
<1> QED BY <1>1, <1>4, <1>5, <1>6, <1>7

(* A month's or a day's two digits.                                        *)
LEMMA FieldOfTwo ==
  ASSUME NEW v \in 0..99
  PROVE  /\ concrete_field(v, {}) = Field(FieldDigits(v), {})
         /\ FieldDigits(v) \in [1..2 -> MaskDigit] /\ ~has_x(FieldDigits(v))
         /\ field_value(Field(FieldDigits(v), {})) = Some(v)
<1>1. concrete_field(v, {}) = Field(FieldDigits(v), {})
  BY DEF concrete_field, FieldDigits
<1>2. PICK a \in 0..9, b \in 0..9 : a = v \div 10 /\ b = v % 10 /\ 10 * a + b = v
  OBVIOUS
<1>3. FieldDigits(v) = <<a, b>>
  BY <1>2 DEF FieldDigits
<1>4. <<a, b>> \in [1..2 -> MaskDigit] /\ ~has_x(<<a, b>>)
  BY <1>2 DEF MaskDigit, Digit, X, has_x
<1>5. field_value(Field(<<a, b>>, {})) = Some(v)
  BY <1>2, <1>4 DEF field_value, Field
<1> QED BY <1>1, <1>3, <1>4, <1>5

(* A day's date has these parts.                                           *)
LEMMA DayOnParts ==
  ASSUME NEW y \in ShortYears, NEW m \in 0..99, NEW d \in 0..99, NEW e, e = DateOn(y, m, d)
  PROVE  IsDateOn(e, y, m, d)
<1> DEFINE k == Standard(y < 0, YearDigits(Abs(y)))
           f == Field(FieldDigits(m), {})
           g == Field(FieldDigits(d), {})
<1>1. e = Date(Year(k, None, {}), Some(f), Some(g))
  BY YearOfFour, FieldOfTwo, Zenon DEF DateOn
<1>2. k.form = "Standard" /\ k.digits = YearDigits(Abs(y)) /\ ~has_x(k.digits)
  BY YearOfFour DEF Standard
<1>3. year_of(k) = Some(y)
  <2>1. y \in Int
    BY DEF ShortYears
  <2>2. year_of(concrete_year(y, {}).kind) = Some(y)
    BY <2>1, YearReadBack
  <2> QED BY <2>2, YearOfFour, Selectors
<1>4. k \in YearKinds
  <2>1. (y < 0) \in BOOLEAN
    OBVIOUS
  <2> QED BY <2>1, YearOfFour, KindForms
<1>5. f \in Fields /\ g \in Fields
  BY FieldOfTwo, FieldParts DEF Qualifier
<1> HIDE DEF k, f, g
<1>6. None \in Option(Nat) /\ Some(f) \in Option(Fields) /\ Some(g) \in Option(Fields)
  BY <1>5, Options
<1>7. e \in Dates
  <2>1. {} \in Qualifier
    BY DEF Qualifier
  <2> QED BY <1>1, <1>4, <1>6, <2>1, DateParts
<1>8. /\ e.year = Year(k, None, {}) /\ e.year.kind = k /\ e.year.significant_digits = None
      /\ e.year.qualifier = {} /\ e.month = Some(f) /\ e.day = Some(g)
  BY <1>1 DEF Date, Year
<1> QED BY <1>2, <1>3, <1>7, <1>8, FieldOfTwo DEF IsDateOn, k, f, g

(* A day of the calendar is a valid date, and its bounds are that day.     *)
LEMMA DayIsValid ==
  ASSUME NEW y \in ShortYears, NEW m \in 1..12, NEW d \in Int, C!check(m, d, C!is_gregorian_leap(y)),
         NEW e, e = DateOn(y, m, d)
  PROVE  /\ IsDateOn(e, y, m, d) /\ ValidDate(e)
         /\ date_bounds(e) = MkBounds(DayBound(<<y, m, d>>), DayBound(<<y, m, d>>))
<1> DEFINE f == Field(FieldDigits(m), {})
           g == Field(FieldDigits(d), {})
           k == e.year.kind
<1>1. d \in 1..31 /\ d <= last_day(m, is_leap(y))
  <2>1. last_day(m, is_leap(y)) = C!last_day(m, C!is_gregorian_leap(y))
    BY SameCalendar DEF is_leap, C!is_gregorian_leap
  <2>2. last_day(m, is_leap(y)) \in 28..31
    BY LastDayBounds
  <2> QED BY <2>1, <2>2 DEF C!check
<1>2. IsDateOn(e, y, m, d)
  <2>1. m \in 0..99 /\ d \in 0..99
    BY <1>1
  <2> QED BY <2>1, DayOnParts, Zenon
<1>3. /\ e.month = Some(f) /\ e.day = Some(g) /\ e.month # None /\ e.day # None
      /\ Get(e.month) = f /\ Get(e.day) = g
      /\ f.digits = FieldDigits(m) /\ g.digits = FieldDigits(d)
      /\ f.qualifier = {} /\ g.qualifier = {}
      /\ ~has_x(FieldDigits(m)) /\ ~has_x(FieldDigits(d))
      /\ field_value(f) = Some(m) /\ field_value(g) = Some(d)
      /\ year_of(k) = Some(y) /\ k.form = "Standard" /\ ~has_x(k.digits)
      /\ k = Standard(y < 0, YearDigits(Abs(y)))
      /\ e.year.significant_digits = None /\ e.year.qualifier = {}
  BY <1>2, SomeFacts, Selectors DEF IsDateOn
<1> HIDE DEF f, g, k
<1>4. day_has_valid_completion(k, f, g)
  <2>1. m \in accepted_months(f) /\ d \in accepted_days(g)
    BY <1>1, <1>3, SomeFacts DEF accepted_months, accepted_days
  <2>2. year_leap_possible(k) <=> is_leap(y)
    <3>1. year_of(k) # None /\ Get(year_of(k)) = y
      BY <1>3, SomeFacts
    <3>2. year_leap_possible(k) = is_leap(Get(year_of(k)))
      BY <3>1, Zenon DEF year_leap_possible
    <3> QED BY <3>1, <3>2, Zenon
  <2>3. d <= last_day(m, m = 2 /\ d > 28 /\ year_leap_possible(k))
    BY <1>1, <2>2 DEF last_day
  <2> QED BY <2>1, <2>3 DEF day_has_valid_completion, month_admits_day
<1>5. validate_month_day(k, e.month, e.day)
  <2>1. Get(field_value(f)) = m /\ field_value(f) # None
    BY <1>3, SomeFacts
  <2>2. m \notin SeasonCode
    BY DEF SeasonCode
  <2> QED BY <1>3, <1>4, <2>1, <2>2 DEF validate_month_day
<1>6. ValidDate(e)
  <2>1. k.negative => ~has_x(k.digits) /\ k.digits # <<0, 0, 0, 0>>
    <3>1. k.negative = (y < 0) /\ k.digits = YearDigits(Abs(y))
      BY <1>3 DEF Standard
    <3> QED BY <1>3, <3>1, YearOfFour
  <2> QED BY <1>3, <1>5, <2>1 DEF ValidDate, ValidStandardDate, k
<1>7. precision(e) = "Day"
  BY <1>3, PrecisionBySlots
<1>8. check_range_endpoint(e)
  <2>1. ~has_unspecified(e)
    BY <1>3 DEF has_unspecified, k
  <2>2. qualifiers(e) = {{}}
    BY <1>3 DEF qualifiers, IsSome
  <2>3. ~is_uncertain(e) /\ ~is_approximate(e)
    BY <2>2 DEF is_uncertain, is_approximate
  <2> QED BY <1>3, <1>7, <2>1, <2>3 DEF check_range_endpoint
<1>9. IsDateRecord(e)
  <2>1. k.negative \in BOOLEAN /\ k.digits \in [1..4 -> MaskDigit]
    BY <1>3, YearOfFour DEF Standard
  <2>2. f.digits \in [1..2 -> MaskDigit] /\ g.digits \in [1..2 -> MaskDigit]
    <3>1. m \in 0..99 /\ d \in 0..99
      BY <1>1
    <3> QED BY <1>3, <3>1, FieldOfTwo
  <2> QED BY <1>3, <2>1, <2>2 DEF IsDateRecord, IsYearKind, IsSignificance, IsSlot, Qualifier, k
<1>10. PlaceOf(e) = <<y, m, d>>
  <2>1. slot_value(e.month) = Some(m) /\ slot_value(e.day) = Some(d)
    BY <1>3 DEF slot_value, IsSome
  <2>2. SlotNumber(e.month) = m /\ SlotNumber(e.day) = d
    BY <2>1, SomeFacts DEF SlotNumber
  <2> QED BY <1>3, <2>2, SomeFacts DEF PlaceOf, k
<1>11. date_bounds(e) = MkBounds(DayBound(FirstDay("Day", <<y, m, d>>)), DayBound(FinalDay("Day", <<y, m, d>>)))
  <2>1. year_of(e.year.kind) # None
    BY <1>3, SomeFacts DEF k
  <2> QED BY <1>6, <1>7, <1>8, <1>9, <1>10, <2>1, PlainDate
<1>12. FirstDay("Day", <<y, m, d>>) = <<y, m, d>> /\ FinalDay("Day", <<y, m, d>>) = <<y, m, d>>
  BY DEF FirstDay, FinalDay
<1> QED BY <1>2, <1>6, <1>11, <1>12

(* Texts joined from either side. *)
Joined(s, a, b, c, d) == s \o a \o b \o c \o b \o d = s \o (a \o (b \o (c \o (b \o d))))

(* They are the same.                                                      *)
LEMMA JoinedEitherSide ==
  ASSUME NEW s \in TokenText, NEW a \in TokenText, NEW b \in TokenText, NEW c \in TokenText, NEW d \in TokenText
  PROVE  Joined(s, a, b, c, d)
<1>1. \A u, v \in TokenText : u \o v \in TokenText
  BY DEF TokenText
<1>2. \A u, v, w \in TokenText : Regrouped(u, v, w)
  BY Regroup DEF TokenText
<1> DEFINE n1 == b \o d
           n2 == c \o n1
           n3 == b \o n2
           h1 == s \o a
           h2 == h1 \o b
           h3 == h2 \o c
<1>3. n1 \in TokenText /\ h1 \in TokenText
  BY <1>1
<1>4. n2 \in TokenText /\ h2 \in TokenText
  <2> HIDE DEF n1, h1
  <2> QED BY <1>1, <1>3
<1>5. n3 \in TokenText /\ h3 \in TokenText
  <2> HIDE DEF n2, h2
  <2> QED BY <1>1, <1>4
<1>6. Regrouped(h3, b, d)
  <2> HIDE DEF h3
  <2> QED BY <1>2, <1>5
<1>7. Regrouped(h2, c, n1)
  <2> HIDE DEF h2, n1
  <2> QED BY <1>2, <1>3, <1>4
<1>8. Regrouped(h1, b, n2)
  <2> HIDE DEF h1, n2
  <2> QED BY <1>2, <1>3, <1>4
<1>9. Regrouped(s, a, n3)
  <2> HIDE DEF n3
  <2> QED BY <1>2, <1>5
<1> QED BY <1>6, <1>7, <1>8, <1>9, Zenon DEF Regrouped, Joined

(* A day is printed as that date is displayed.                             *)
LEMMA DayIsPrinted ==
  ASSUME NEW y \in ShortYears, NEW m \in 1..12, NEW d \in Int, C!check(m, d, C!is_gregorian_leap(y)),
         NEW e, e = DateOn(y, m, d)
  PROVE  DateText(e) = DayText(<<y, m, d>>)
<1> DEFINE s == SignText(y < 0)
           a == Group(YearDigits(Abs(y)))
           g == Group(FieldDigits(m))
           h == Group(FieldDigits(d))
           dash == Sym("-")
           r == s \o (<<a>> \o (<<dash>> \o (<<g>> \o (<<dash>> \o <<h>>))))
<1>1. IsDateOn(e, y, m, d) /\ ValidDate(e)
  BY DayIsValid
<1>2. Written(e)
  BY <1>1, ValidIsWritten DEF IsDateOn
<1> DEFINE f == Get(e.month)
           n == Get(e.day)
<1>3. /\ f.digits = FieldDigits(m) /\ n.digits = FieldDigits(d) /\ f.qualifier = {} /\ n.qualifier = {}
      /\ e.month # None /\ e.day # None /\ e.year.qualifier = {} /\ e.year.significant_digits = None
      /\ e.year.kind.negative = (y < 0) /\ e.year.kind.digits = YearDigits(Abs(y))
      /\ e.year.kind.form = "Standard"
  BY <1>1, SomeFacts, Selectors DEF IsDateOn, Standard
<1>4. DateText(e) = s \o (<<a>> \o SuffixedText(e))
  BY <1>2, <1>3, StandardText
<1>5. /\ \A i : Closing(e, i) = <<>>
      /\ Opening(e, 2, f.qualifier) = <<>> /\ Opening(e, 3, n.qualifier) = <<>>
      /\ SuffixText("S", e.year.significant_digits) = <<>>
  BY <1>3 DEF Closing, Opening, qual_symbol, SuffixText
<1>6. /\ SuffixedText(e) = <<>> \o (<<>> \o MonthText(e))
      /\ MonthText(e) = <<dash>> \o (<<>> \o (<<g>> \o (<<>> \o TextOfDay(e))))
      /\ TextOfDay(e) = <<dash>> \o (<<>> \o (<<h>> \o (<<>> \o <<>>)))
  BY <1>3, <1>5 DEF SuffixedText, YearEndText, MonthText, TextOfDay, FieldText
<1>7. d \in 0..99
  BY DEF C!check, C!last_day
<1>8. a \in Token /\ g \in Token /\ h \in Token /\ dash \in Token
  <2>1. /\ YearDigits(Abs(y)) \in Seq(MaskDigit) /\ YearDigits(Abs(y)) # <<>>
        /\ FieldDigits(m) \in Seq(MaskDigit) /\ FieldDigits(m) # <<>>
        /\ FieldDigits(d) \in Seq(MaskDigit) /\ FieldDigits(d) # <<>>
    <3>1. m \in 0..99
      OBVIOUS
    <3>2. PICK u \in [1..4 -> MaskDigit] : u = YearDigits(Abs(y))
      BY YearOfFour
    <3>3. PICK v \in [1..2 -> MaskDigit] : v = FieldDigits(m)
      BY <3>1, FieldOfTwo
    <3>4. PICK w \in [1..2 -> MaskDigit] : w = FieldDigits(d)
      BY <1>7, FieldOfTwo
    <3> QED BY <3>2, <3>3, <3>4, DigitGroup
  <2>2. dash \in Token
    <3>1. "-" \in Symbols
      BY Zenon DEF Symbols
    <3> QED BY <3>1, Symbol, Zenon
  <2> QED BY <2>1, <2>2, GroupOf
<1>9. DayText(<<y, m, d>>) = s \o <<a>> \o <<dash>> \o <<g>> \o <<dash>> \o <<h>>
  <2>1. YearText(magnitude(y)) = <<a>>
    <3>1. ~(Abs(y) < 0 \/ Abs(y) > 9999)
      BY DEF ShortYears, Abs
    <3>2. magnitude(y) = Abs(y)
      <4>1. I64Min < -9999
        BY I64Assumption
      <4> QED BY <4>1 DEF ShortYears, Abs, magnitude
    <3>3. YearText(Abs(y)) = <<a>>
      BY <3>1 DEF YearText, YearDigits
    <3> QED BY ONLY <3>2, <3>3
  <2>2. TwoDigits(m) = <<g>> /\ TwoDigits(d) = <<h>>
    BY DEF TwoDigits, FieldDigits
  <2>3. (IF y < 0 THEN <<dash>> ELSE <<>>) = s
    BY DEF SignText
  <2> QED BY <2>1, <2>2, <2>3 DEF DayText
<1> HIDE DEF a, g, h, dash
<1>10. /\ <<a>> \in TokenText /\ <<g>> \in TokenText /\ <<h>> \in TokenText /\ <<dash>> \in TokenText
       /\ \A u \in TokenText : <<>> \o u = u /\ u \o <<>> = u
       /\ \A u, v \in TokenText : u \o v \in TokenText
       /\ <<>> \in TokenText
  BY <1>8 DEF TokenText
<1>11. s \in TokenText
  BY <1>10 DEF SignText, dash
<1>12. TextOfDay(e) = <<dash>> \o <<h>> /\ TextOfDay(e) \in TokenText
  BY <1>6, <1>10
<1>13. MonthText(e) = <<dash>> \o (<<g>> \o (<<dash>> \o <<h>>)) /\ MonthText(e) \in TokenText
  <2>1. <<g>> \o TextOfDay(e) \in TokenText
    BY <1>10, <1>12
  <2>2. <<dash>> \o (<<g>> \o TextOfDay(e)) \in TokenText
    BY <1>10, <2>1
  <2>3. MonthText(e) = <<dash>> \o (<<g>> \o TextOfDay(e))
    BY <1>6, <1>10, <1>12, <2>1
  <2> QED BY <1>12, <2>2, <2>3
<1>14. DateText(e) = r
  <2>1. SuffixedText(e) = MonthText(e)
    BY <1>6, <1>10, <1>13
  <2> QED BY <1>4, <1>13, <2>1
<1> HIDE DEF s
<1>15. s \o <<a>> \o <<dash>> \o <<g>> \o <<dash>> \o <<h>> = r
  <2>1. Joined(s, <<a>>, <<dash>>, <<g>>, <<h>>)
    BY <1>10, <1>11, JoinedEitherSide, Zenon
  <2> QED BY <2>1, Zenon DEF Joined
<1> QED BY <1>9, <1>14, <1>15

(* What the days answered are written as: a date, or an interval of two.   *)
DateOf(t) == DateOn(t[1], t[2], t[3])

ExprOf(r) == IF r.out = "Day" THEN DateExpr(DateOf(r.day))
             ELSE IntervalExpr(At(DateOf(r.earliest)), At(DateOf(r.latest)))

Short(r) == {earliest_of(r)[1], latest_of(r)[1]} \subseteq ShortYears

(* It is a day of the calendar, with its date's text and bounds.           *)
IsDateOfDay(t) ==
  /\ DateOf(t) \in Dates /\ ValidDate(DateOf(t)) /\ DateText(DateOf(t)) = DayText(t)
  /\ date_bounds(DateOf(t)) = MkBounds(DayBound(t), DayBound(t))

(* A short day of the calendar has such a date.                            *)
LEMMA DayHasDate ==
  ASSUME NEW t \in C!Days, t[1] \in ShortYears, C!check(t[2], t[3], C!is_gregorian_leap(t[1]))
  PROVE  IsDateOfDay(t)
<1>1. PICK y \in ShortYears, m \in 1..12, d \in Int : y = t[1] /\ m = t[2] /\ d = t[3] /\ t = <<y, m, d>>
  BY DEF C!Days
<1>2. C!check(m, d, C!is_gregorian_leap(y))
  BY <1>1
<1>3. PICK e : e = DateOn(y, m, d) /\ e = DateOf(t)
  BY <1>1 DEF DateOf
<1>4. /\ IsDateOn(e, y, m, d) /\ ValidDate(e)
      /\ date_bounds(e) = MkBounds(DayBound(t), DayBound(t))
  BY <1>1, <1>2, <1>3, DayIsValid
<1>5. DateText(e) = DayText(t)
  BY <1>1, <1>2, <1>3, DayIsPrinted
<1> QED BY <1>3, <1>4, <1>5 DEF IsDateOfDay, IsDateOn

(* An answer in short years is printed as an accepted expression that      *)
(* spans its days.                                                         *)
LEMMA AnswerIsEdtf ==
  ASSUME NEW t \in TokenText, readable(t), NEW r, r = converted(t), J!Ok(r), Short(r)
  PROVE  /\ ExprOf(r) \in Expressions /\ Accepted(ExprOf(r))
         /\ display(ExprOf(r)) = printed(r) /\ printed(r) \in TokenText
         /\ bounds(ExprOf(r)) = MkBounds(DayBound(earliest_of(r)), DayBound(latest_of(r)))
<1> DEFINE y == julian_year(t)
           month == julian_month(t)
           day == julian_day(t)
           s == earliest_of(r)
           u == latest_of(r)
<1>1. y \in Int /\ month \in C!Part /\ day \in C!Part
  BY JulianRead
<1>2. r = C!convert(y, month, day) /\ C!Ok(r)
  BY SameConversions DEF converted
<1>3. C!FirstDay(r) = s /\ C!LastDay(r) = u
  BY DEF C!FirstDay, C!LastDay, earliest_of, latest_of
<1> HIDE DEF y, month, day
<1>4. /\ s \in C!Days /\ C!check(s[2], s[3], C!is_gregorian_leap(s[1]))
      /\ u \in C!Days /\ C!check(u[2], u[3], C!is_gregorian_leap(u[1]))
      /\ ~C!Before(u, s)
  BY <1>1, <1>2, <1>3, Anchored, C!AnswersInOrder
<1>5. IsDateOfDay(s) /\ IsDateOfDay(u)
  BY <1>4, DayHasDate DEF Short
<1>6. CASE r.out = "Day"
  <2>1. s = r.day /\ u = r.day /\ printed(r) = DayText(r.day) /\ ExprOf(r) = DateExpr(DateOf(r.day))
    BY <1>6 DEF earliest_of, latest_of, printed, ExprOf
  <2>2. PICK e \in Dates : e = DateOf(r.day) /\ ValidDate(e) /\ DateText(e) = DayText(r.day)
                           /\ date_bounds(e) = MkBounds(DayBound(r.day), DayBound(r.day))
    BY <1>5, <2>1 DEF IsDateOfDay
  <2>3. DateExpr(e).type = "Date" /\ DateExpr(e).date = e /\ DateExpr(e) \in Expressions
    BY DEF DateExpr, Expressions
  <2>4. Accepted(DateExpr(e)) /\ display(DateExpr(e)) = DateText(e) /\ bounds(DateExpr(e)) = date_bounds(e)
    BY <2>2, <2>3 DEF Accepted, display, bounds
  <2>5. display(DateExpr(e)) \in TokenText
    BY <2>3, <2>4, DisplayIsText
  <2> QED BY <2>1, <2>2, <2>3, <2>4, <2>5
<1>7. CASE r.out # "Day"
  <2>1. s = r.earliest /\ u = r.latest /\ printed(r) = DayText(s) \o <<Sym("/")>> \o DayText(u)
    BY <1>7 DEF earliest_of, latest_of, printed
  <2>2. PICK e \in Dates : e = DateOf(s) /\ ValidDate(e) /\ DateText(e) = DayText(s)
                           /\ date_bounds(e) = MkBounds(DayBound(s), DayBound(s))
    BY <1>5 DEF IsDateOfDay
  <2>3. PICK f \in Dates : f = DateOf(u) /\ ValidDate(f) /\ DateText(f) = DayText(u)
                           /\ date_bounds(f) = MkBounds(DayBound(u), DayBound(u))
    BY <1>5 DEF IsDateOfDay
  <2> DEFINE x == IntervalExpr(At(e), At(f))
  <2>4. ExprOf(r) = x
    BY <1>7, <2>1, <2>2, <2>3 DEF ExprOf
  <2>5. /\ At(e) \in Ends /\ At(e).kind = "Date" /\ At(e).date = e /\ is_dated(At(e))
        /\ At(f) \in Ends /\ At(f).kind = "Date" /\ At(f).date = f /\ is_dated(At(f))
    BY DEF At, Ends, is_dated
  <2>6. x.type = "Interval" /\ x.start = At(e) /\ x.end = At(f) /\ x \in Expressions
    BY <2>5 DEF IntervalExpr, Expressions
  <2>7. ~dates_out_of_order(e, f)
    <3>1. ~Before(u, s)
      BY <1>4 DEF C!Before, Before
    <3>2. date_bounds(e).earliest = DayBound(s) /\ date_bounds(f).latest = DayBound(u)
      BY <2>2, <2>3 DEF MkBounds
    <3>3. DayBound(s).day = s /\ DayBound(u).day = u
      BY DEF DayBound
    <3> QED BY <3>1, <3>2, <3>3 DEF dates_out_of_order
  <2> HIDE DEF x, s, u
  <2>8. Accepted(x)
    <3>1. ends_agree(At(e), At(f))
      BY <2>5, <2>7 DEF ends_agree
    <3>2. parse_interval(At(e), At(f))
      BY <2>2, <2>3, <2>5, <3>1 DEF parse_interval
    <3> QED BY <2>6, <3>2 DEF Accepted
  <2>9. display(x) = printed(r)
    <3>1. EndText(At(e)) = DayText(s) /\ EndText(At(f)) = DayText(u)
      BY <2>2, <2>3, <2>5 DEF EndText
    <3>2. display(x) = EndText(At(e)) \o <<Sym("/")>> \o EndText(At(f))
      BY <2>6 DEF display
    <3> QED BY <2>1, <3>1, <3>2
  <2>10. bounds(x) = MkBounds(DayBound(s), DayBound(u))
    <3>1. bounds(x) = interval_bounds(At(e), At(f))
      BY <2>6 DEF bounds
    <3>2. /\ start_bound(At(e), date_bounds(e)) = DayBound(s)
          /\ end_bound(At(f), date_bounds(f)) = DayBound(u)
      BY <2>2, <2>3, <2>5 DEF start_bound, end_bound, MkBounds
    <3> QED BY <2>5, <3>1, <3>2 DEF interval_bounds
  <2>11. display(x) \in TokenText
    BY <2>6, <2>8, DisplayIsText
  <2> QED BY <2>4, <2>6, <2>8, <2>9, <2>10, <2>11 DEF s, u
<1> QED BY <1>6, <1>7

(* A text at its start, of which nothing is read.                          *)
AtStart == text \in TokenText /\ pc = "start" /\ NothingRead /\ value = None /\ first = None

(* There the parser's invariant holds, and any expression is on its track. *)
LEMMA StartIsSound == AtStart => IInv /\ Tracks
<1> SUFFICES ASSUME AtStart PROVE IInv /\ Tracks
  OBVIOUS
<1>1. /\ text \in TokenText /\ pc = "start" /\ value = None /\ first = None
      /\ later = None /\ part = "Date" /\ slices = <<>> /\ dates = <<>>
      /\ rest = <<>> /\ date = None /\ width = 0 /\ ends = <<>>
  BY DEF AtStart, NothingRead
<1>2. TypeOK
  <2>1. later \in Option(TokenText) /\ value \in Option(Expressions) /\ first \in Option(Expressions)
    BY <1>1, Options
  <2>2. rest \in TokenText /\ slices \in Seq(TokenText) /\ dates \in Seq(Dates) /\ ends \in Seq(Ends)
        /\ DOMAIN dates = {}
    BY <1>1 DEF TokenText
  <2> QED BY <1>1, <2>1, <2>2 DEF TypeOK, IsSome
<1>3. part \in Kinds /\ width \in Nat /\ DateInv /\ PartInv /\ EndsInv /\ StartInv /\ FirstInv
  BY <1>1 DEF DateInv, PartInv, EndsInv, StartInv, FirstInv, Scanning, Kinds, IsSome
<1>4. Tracks
  BY <1>1 DEF Tracks, Track, Scanning
<1> QED BY <1>2, <1>3, <1>4 DEF IInv

(* Reading goes on: the text stays, and so does what is answered.          *)
LEMMA ReadGoesOn ==
  ASSUME Read \/ Reject
  PROVE  text' = text /\ pc' \notin {"typed", "refused", "panicked"}
<1>1. CASE Read
  <2>1. CASE Dispatch \/ ReadDateTime \/ NextPart \/ NextDate
    BY <2>1, Zenon DEF Dispatch, ReadDateTime, NextPart, NextDate, SameDate, SamePart, SameText
  <2>2. CASE ReadYear \/ ReadSignificant \/ EndYear \/ ReadMonth \/ ReadDay
    BY <2>2, Zenon DEF ReadYear, ReadSignificant, EndYear, ReadMonth, ReadDay, SameYear, SameDate, SamePart,
       SameText, Continue
  <2>3. CASE ReadMantissa \/ NoExponent \/ ReadExponent \/ ReadPrefixedEnd
    BY <2>3, Zenon DEF ReadMantissa, NoExponent, ReadExponent, ReadPrefixedEnd, SameYear, SameDate, SamePart,
       SameText
  <2>4. CASE FinishDate \/ EndPart \/ Assemble
    BY <2>4, Zenon DEF FinishDate, EndPart, Assemble, SamePart, SameText
  <2> QED BY <1>1, <2>1, <2>2, <2>3, <2>4 DEF Read
<1>2. CASE Reject
  BY <1>2 DEF Reject
<1> QED BY <1>1, <1>2

(* The reading of a short answer: its text, soundly read.                  *)
ReadingInv ==
  /\ OfAnAnswer
  /\ pc = "typed" => NothingRead /\ value = None /\ first = None
  /\ Answered /\ Short(converted(input)) => text = printed(converted(input)) /\ IInv /\ Tracks

(* Printing the answer begins such a reading.                              *)
LEMMA ConvertReads == ReadingInv /\ Convert => ReadingInv'
<1> SUFFICES ASSUME ReadingInv, Convert PROVE ReadingInv'
  OBVIOUS
<1>1. PICK r : r = converted(input) /\ J!Ok(r) /\ text' = printed(r)
  BY DEF Convert
<1>2. /\ pc' = "start" /\ input' = input /\ readable(input) /\ input \in TokenText
      /\ later' = later /\ part' = part /\ slices' = slices /\ dates' = dates /\ rest' = rest
      /\ date' = date /\ width' = width /\ ends' = ends /\ value' = value /\ first' = first
      /\ NothingRead /\ value = None /\ first = None
  BY DEF Convert, ReadingInv, OfAnAnswer
<1>3. OfAnAnswer'
  BY <1>1, <1>2 DEF OfAnAnswer, Answered
<1>4. ASSUME Short(r) PROVE IInv' /\ Tracks'
  <2>1. text' \in TokenText
    BY <1>1, <1>2, <1>4, AnswerIsEdtf
  <2>2. AtStart'
    BY <1>2, <2>1 DEF AtStart, NothingRead
  <2>3. AtStart' => IInv' /\ Tracks'
    BY StartIsSound, PTL
  <2> QED BY <2>2, <2>3
<1>5. converted(input)' = r
  BY <1>1, <1>2
<1> QED BY <1>1, <1>2, <1>3, <1>4, <1>5 DEF ReadingInv

(* Reading it keeps on.                                                    *)
LEMMA ReadingKept == ReadingInv /\ [FromJulianNext]_<<input, vars>> => ReadingInv'
<1> SUFFICES ASSUME ReadingInv, [FromJulianNext]_<<input, vars>> PROVE ReadingInv'
  OBVIOUS
<1>1. CASE Convert
  BY <1>1, ConvertReads
<1>2. CASE Refuse
  BY <1>2 DEF Refuse, ReadingInv, OfAnAnswer, Answered
<1>5. CASE Panic
  BY <1>5 DEF Panic, ReadingInv, OfAnAnswer, Answered
<1>3. CASE ReadPrinted
  <2>1. Answered /\ (Read \/ Reject) /\ input' = input
    BY <1>3 DEF ReadPrinted
  <2>2. text' = text /\ pc' \notin {"typed", "refused", "panicked"}
    BY <2>1, ReadGoesOn
  <2>3. IInv /\ Tracks => IInv' /\ Tracks'
    <3>1. [Next]_vars
      BY <2>1 DEF Next
    <3> QED BY <3>1, NextIInv, NextTracks
  <2>4. converted(input)' = converted(input)
    BY <2>1
  <2>5. OfAnAnswer'
    BY <2>1, <2>4 DEF ReadingInv, OfAnAnswer
  <2> QED BY <2>1, <2>2, <2>3, <2>4, <2>5 DEF ReadingInv
<1>4. CASE Finished \/ UNCHANGED <<input, vars>>
  <2>1. input' = input /\ UNCHANGED vars
    BY <1>4 DEF Finished
  <2>2. IInv /\ Tracks => IInv' /\ Tracks'
    BY <2>1, NextIInv, NextTracks
  <2>3. /\ pc' = pc /\ text' = text /\ value' = value /\ first' = first
        /\ NothingRead' = NothingRead
    BY <2>1 DEF vars, NothingRead
  <2>4. converted(input)' = converted(input) /\ Answered' = Answered
    BY <2>1, <2>3 DEF Answered
  <2>5. OfAnAnswer'
    BY <2>1, <2>4 DEF ReadingInv, OfAnAnswer
  <2> QED BY <2>2, <2>3, <2>4, <2>5 DEF ReadingInv
<1> QED BY <1>1, <1>2, <1>3, <1>4, <1>5 DEF FromJulianNext

(* While its years have four digits, what the command line answers for a   *)
(* Julian date is never rejected, and what the parser reads of it spans    *)
(* exactly the days that were answered.                                    *)
THEOREM AnswersReadBack == FromJulianSpec => []ReadsBack
<1>1. Typed => ReadingInv
  BY JulianInputsAssumption DEF Typed, ReadingInv, OfAnAnswer, Answered
<1>2. ReadingInv => ReadsBack
  <2> SUFFICES ASSUME ReadingInv, Answered, NEW r, r = converted(input), Short(r)
               PROVE  /\ pc # "rejected"
                      /\ pc = "parsed" => bounds(Get(value)) =
                           MkBounds(DayBound(earliest_of(r)), DayBound(latest_of(r)))
    BY DEF ReadsBack, Short
  <2>1. input \in TokenText /\ readable(input) /\ J!Ok(r)
    BY DEF ReadingInv, OfAnAnswer
  <2>2. PICK x \in Expressions : /\ Accepted(x) /\ display(x) = printed(r)
                                 /\ bounds(x) = MkBounds(DayBound(earliest_of(r)), DayBound(latest_of(r)))
    BY <2>1, AnswerIsEdtf
  <2>3. text = printed(r) /\ Tracks
    BY DEF ReadingInv
  <2>4. Track(x)
    BY <2>2, <2>3 DEF Tracks
  <2>5. pc # "rejected" /\ (pc = "parsed" => value = Some(x))
    BY <2>4 DEF Track
  <2> QED BY <2>2, <2>5, SomeFacts
<1> QED BY <1>1, <1>2, ReadingKept, PTL DEF FromJulianSpec
=============================================================================
