-------------------------- MODULE MCValueConversion --------------------------
(* Values that lead to up to four objects: a struct s of two fields, a     *)
(* struct t of one, a map m, and a closure.                                *)
EXTENDS ValueConversion

s == 1
t == 2
m == 3
f == 4

Pointer(obj, first, last) == [kind |-> "pointer", obj |-> obj, first |-> first, last |-> last]
Func(code) == [kind |-> "func", obj |-> Nil, code |-> code]
Closed == [kind |-> "func", obj |-> f, code |-> "old"]
Of(kind, obj) == [kind |-> kind, obj |-> obj]
Interface(methods, link, known, holds) ==
  [kind |-> "interface", methods |-> methods, link |-> link, known |-> known, holds |-> holds]
Scalar == [kind |-> "scalar"]

S == Pointer(s, 1, 2)
S1 == Pointer(s, 1, 1)
T == Pointer(t, 1, 1)
NilPointer == Pointer(Nil, 1, 1)

\* The first field of s.
Firsts == {S, T, Interface(TRUE, "old", TRUE, T), Func("old"), Of("map", m)}

\* The second field of s.
Seconds ==
  Firsts \cup
  {Interface(TRUE, "runtime", TRUE, T), Interface(TRUE, "lost", TRUE, S),
   Interface(FALSE, "old", TRUE, S), Interface(FALSE, "old", FALSE, T),
   Interface(FALSE, "old", TRUE, Func("old")), Interface(FALSE, "host", TRUE, Of("map", m)),
   Interface(FALSE, "old", TRUE, Scalar), Interface(FALSE, "old", FALSE, Of("box", t)),
   Interface(FALSE, "old", TRUE, Of("box", t)), Interface(FALSE, "host", TRUE, [kind |-> "nil"]),
   Closed, Func("host"), Func("lost"), Func("other"), Of("slice", t), Of("slice", m)}

\* What t, and a value of m, may be.
Thirds == {S, S1, Closed, Func("old"), Interface(TRUE, "old", TRUE, S), Interface(TRUE, "runtime", TRUE, Scalar)}
Entry == {NilPointer, T, S, Interface(FALSE, "old", TRUE, Of("map", m)), Closed}

Roots == {<<S>>, <<Of("slice", t)>>, <<Of("map", m)>>, <<Func("old")>>, <<Interface(FALSE, "old", TRUE, Scalar)>>}

MCFresh == 5 .. 10

MCHeaps ==
  {0 :> r @@ s :> <<a, b>> @@ t :> <<c>> @@ m :> e @@ f :> <<[kind |-> "code", code |-> "old"]>> :
     r \in Roots, a \in Firsts \cup {Of("slice", s)}, b \in Seconds, c \in Thirds, e \in {<<>>} \cup {<<v>> : v \in Entry}}
=============================================================================
