------------------------------ MODULE ValueStream ------------------------------
(***************************************************************************)
(* What Edtf::values promises (D26, D28, D29): a stream that hands out, in *)
(* written order of the elements, every value an element denotes, each     *)
(* once and ascending, and then says it has ended, for ever.               *)
(***************************************************************************)
EXTENDS Naturals, Sequences

CONSTANTS Sources,           \* the expressions a stream may be made from
          Denoted(_),        \* what one denotes: a sequence of sets of values
          Precedes(_, _)     \* the order of values within one element

VARIABLES source,   \* the expression of this stream
          todo,     \* the values still owed, one set per element
          asked,    \* a call is waiting for its answer
          answer    \* the last answer

streamVars == <<source, todo, asked, answer>>

Unanswered == [out |-> "NotAsked"]
Ended      == [out |-> "End"]

Init == /\ source \in Sources /\ todo = Denoted(source)
        /\ asked = FALSE /\ answer = Unanswered

Ask == asked = FALSE /\ asked' = TRUE /\ UNCHANGED <<source, todo, answer>>

(* The first element with something left, and the least value in it. *)
Current(i) == todo[i] # {} /\ \A j \in 1..(i - 1) : todo[j] = {}
Least(values) == {v \in values : \A w \in values \ {v} : Precedes(v, w)}

Yield == \E i \in DOMAIN todo :
           /\ Current(i)
           /\ \E v \in Least(todo[i]) :
                /\ answer' = [out |-> "Value", value |-> v]
                /\ todo' = [todo EXCEPT ![i] = @ \ {v}]

Finish == /\ \A i \in DOMAIN todo : todo[i] = {}
          /\ answer' = Ended /\ UNCHANGED todo

Answer == asked = TRUE /\ asked' = FALSE /\ UNCHANGED source /\ (Yield \/ Finish)

Next == Ask \/ Answer

Spec == Init /\ [][Next]_streamVars /\ WF_streamVars(Answer)
=============================================================================
