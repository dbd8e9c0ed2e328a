------------------------------ MODULE ListSpec ------------------------------
(* What DequeI (internal/eval/deque.go) promises: a list of elements and   *)
(* the answer of the last operation.  Both implementations, Deque and      *)
(* DequeBasic, are shown to implement it in module Deque.                  *)
EXTENDS Integers, Sequences, SequencesExt

CONSTANTS Elems,     \* texts a client pushes
          Pivots,    \* texts a client inserts beside
          Norm       \* text -> the text it is read back as: 007 becomes 7

VARIABLES list,      \* the elements, left to right
          reply      \* the answer of the last operation

LPushed(x) == list' = <<Norm[x]>> \o list /\ reply' = <<"len", Len(list) + 1>>
RPushed(x) == list' = list \o <<Norm[x]>> /\ reply' = <<"len", Len(list) + 1>>

Popped(rest, x) == list' = rest /\ reply' = <<"elem", x>>
NothingPopped   == list = <<>> /\ reply' = <<"error">> /\ UNCHANGED list
LPopped == list # <<>> /\ Popped(Tail(list), Head(list))
RPopped == list # <<>> /\ Popped(Front(list), Last(list))

\* The pivot is compared with what is read back; the first match counts.
Inserted(pivot, x, where) ==
  \E i \in 1 .. Len(list) :
    /\ list[i] = pivot
    /\ \A j \in 1 .. i - 1 : list[j] # pivot
    /\ list' = InsertAt(list, IF where = "before" THEN i ELSE i + 1, Norm[x])
    /\ reply' = <<"len", Len(list) + 1>>
NoPivot(pivot) ==
  (\A i \in 1 .. Len(list) : list[i] # pivot) /\ reply' = <<"len", -1>> /\ UNCHANGED list

\* DUMP and RESTORE of the list.
Restored == reply' = <<"OK">> /\ UNCHANGED list

Init == list = <<>> /\ reply = <<"OK">>
Next == \/ \E x \in Elems : LPushed(x) \/ RPushed(x)
        \/ LPopped \/ RPopped \/ NothingPopped \/ Restored
        \/ \E p \in Pivots, x \in Elems, w \in {"before", "after"} : Inserted(p, x, w)
        \/ \E p \in Pivots : NoPivot(p)

Spec == Init /\ [][Next]_<<list, reply>>
=============================================================================
