---------------------------- MODULE ValueConversion ----------------------------
(***************************************************************************)
(* ConvertTypesAcrossModules (convert.go): a value of one module is turned *)
(* into one of another version of that module, before the old module is    *)
(* unloaded.  The two types have been found equal; the walk over the value *)
(* replaces, in place, what refers to the old module: itabs, the types in  *)
(* empty interfaces, and functions.                                        *)
(*                                                                         *)
(* The heap maps objects to sequences of cells.  Cells without references  *)
(* are left out, and keys of maps are scalars.  A cell is one of           *)
(*   pointer    to the cells first .. last of the object obj               *)
(*   slice      of all cells of obj                                        *)
(*   map        whose values are the cells of obj                          *)
(*   func       obj is Nil and code the function, or obj is a closure      *)
(*   code       the function of a closure, its first cell                  *)
(*   interface  with or without methods; link is its itab, or its type; it *)
(*              holds one of the first four, a scalar, or a box: a struct  *)
(*              whose fields are the cells of obj; known tells whether the *)
(*              host or the new module have an equivalent of its type      *)
(* Functions and links are "old" (with an equivalent in the new module),   *)
(* "lost" (of the old module, without one), "runtime" (an itab for a type  *)
(* of the old module that the runtime made, so that itablinks lack it),    *)
(* "other" (of a third module), "host" or "new".                           *)
(***************************************************************************)
EXTENDS Integers, Sequences, FiniteSets, TLC

CONSTANTS
  Heaps,   \* the heaps to begin with
  Root,    \* the box with the value to be converted
  Fresh,   \* bound: objects that the walk may allocate
  Stack,   \* bound: calls and steps that may be due, for the stack of the goroutine
  Nil      \* no object

ASSUME HeapsAssumption ==
  \A h \in Heaps : Root \in DOMAIN h /\ DOMAIN h \cap Fresh = {} /\ Nil \notin DOMAIN h \cup Fresh

VARIABLES
  heap,    \* per object, its cells
  origin,  \* the heap at the start
  seen,    \* cycleDetector: addresses of pointers that were followed
  todo,    \* the calls of cvt on the stack, and what the Map case does between them
  result   \* "running", "converted", "failed" or "overflow"

vars == <<heap, origin, seen, todo, result>>

\* A place is a cell, or what the interface in that cell holds.
Place(obj, i) == [obj |-> obj, i |-> i, held |-> FALSE]
At(h, p) == IF p.held THEN h[p.obj][p.i].holds ELSE h[p.obj][p.i]

\* The heap once the value at a place is another one.
With(p, v) == [heap EXCEPT ![p.obj][p.i] = IF p.held THEN [@ EXCEPT !.holds = v] ELSE v]

Cells(h) == UNION {{<<o, i>> : i \in DOMAIN h[o]} : o \in DOMAIN h}
Values(h) ==
  {h[c[1]][c[2]] : c \in Cells(h)}
    \cup {h[c[1]][c[2]].holds : c \in {c \in Cells(h) : h[c[1]][c[2]].kind = "interface"}}

\* Fields of a struct held by value cannot be addressed.
Boxes == {Root} \cup {v.obj : v \in {v \in Values(origin) : v.kind = "box"}}

Visit(p) == [do |-> "visit", place |-> p]
VisitAll(obj, first, last) ==
  [k \in 1 .. last - first + 1 |-> Visit(Place(obj, first + k - 1))]
VisitObject(obj) == VisitAll(obj, 1, Len(heap[obj]))

Init ==
  /\ origin \in Heaps /\ heap = origin
  /\ seen = {}
  /\ todo = VisitAll(Root, 1, Len(origin[Root]))
  /\ result = "running"

Then(tasks) == todo' = tasks \o Tail(todo)

\* A panic becomes the error of the conversion; what was converted stays so.
Panic == result' = "failed" /\ todo' = <<>>

\* A func or a map is set in its place, or by setting the interface that holds it.
CanPut(p) == p.obj \notin Boxes

\* The runtime ends the process when a goroutine's stack overflows.
Overflow == result' = "overflow" /\ todo' = <<>>

HasRoom == Fresh \ DOMAIN heap # {}
New == CHOOSE o \in Fresh \ DOMAIN heap : TRUE

------------------------------------------------------------------------------
\* The cases of cvt, for the value at the place p.

\* Mutant: a pointer is not noted.
CvtPointer_Unnoted(p) ==
  LET v == At(heap, p) IN
  /\ v.kind = "pointer"
  /\ Then(IF v.obj = Nil \/ <<v.obj, v.first>> \in seen THEN <<>>
          ELSE VisitAll(v.obj, v.first, v.last))
  /\ UNCHANGED <<heap, seen, result>>

\* Mutant: only the last pointer is noted.
CvtPointer_LastOnly(p) ==
  LET v == At(heap, p)
      up == <<v.obj, v.first>> IN
  /\ v.kind = "pointer"
  /\ IF v.obj = Nil \/ up \in seen
       THEN Then(<<>>) /\ UNCHANGED seen
       ELSE Then(VisitAll(v.obj, v.first, v.last)) /\ seen' = {up}
  /\ UNCHANGED <<heap, result>>

CvtPointer(p) ==
  LET v == At(heap, p)
      up == <<v.obj, v.first>> IN
  /\ v.kind = "pointer"
  /\ IF v.obj = Nil \/ up \in seen
       THEN Then(<<>>) /\ UNCHANGED seen
       ELSE Then(VisitAll(v.obj, v.first, v.last)) /\ seen' = seen \cup {up}
  /\ UNCHANGED <<heap, result>>

CvtSlice(p) ==
  /\ At(heap, p).kind = "slice"
  /\ Then(VisitObject(At(heap, p).obj))
  /\ UNCHANGED <<heap, seen, result>>

\* A struct that an interface holds.
CvtStruct(p) ==
  /\ At(heap, p).kind = "box"
  /\ Then(VisitObject(At(heap, p).obj))
  /\ UNCHANGED <<heap, seen, result>>

Code(h, v) == IF v.obj = Nil THEN v.code ELSE h[v.obj][1].code

\* A function is found again by its name.  A closure gets its new code in place,
\* for all that share it; what it has captured is left alone.
CvtFunc(p) ==
  LET v == At(heap, p)
      code == Code(heap, v) IN
  /\ v.kind = "func"
  /\ \/ code = "host" /\ Then(<<>>) /\ UNCHANGED <<heap, result>>
     \/ /\ code = "old"
        /\ heap' = IF v.obj # Nil THEN [heap EXCEPT ![v.obj][1].code = "new"]
                   ELSE IF CanPut(p) THEN With(p, [v EXCEPT !.code = "new"]) ELSE heap
        /\ IF CanPut(p) THEN Then(<<>>) /\ UNCHANGED result ELSE Panic
     \/ code \notin {"host", "old"} /\ Panic /\ UNCHANGED heap
  /\ UNCHANGED seen

\* Mutant: itabs are left to the runtime.
Relinked_TypesOnly(v) ==
  IF v.methods THEN v.link ELSE IF v.known THEN "new" ELSE v.link

\* The itab of an interface is looked for in itablinks of the old module; the type
\* of an empty interface among the types of host and new module.
Relinked(v) ==
  IF v.methods THEN (IF v.link = "old" THEN "new" ELSE v.link)
  ELSE IF v.link # "host" /\ v.known THEN "new" ELSE v.link

\* Types without a name have no package: an old one without equivalent is kept.
\* A scalar is converted, and the interface set to it.
CvtInterface(p) ==
  LET v == At(heap, p)
      named == v.holds.kind \in {"box", "scalar"}
      found == (v.known \/ ~named) /\ ~(v.methods /\ v.link = "lost")
      scalar == v.holds.kind = "scalar" IN
  /\ v.kind = "interface"
  /\ IF v.holds.kind = "nil" THEN Then(<<>>) /\ UNCHANGED <<heap, result>>
     ELSE IF ~found THEN Panic /\ UNCHANGED heap
     ELSE /\ heap' = With(p, [v EXCEPT !.link =
                                IF scalar /\ CanPut(p) /\ v.link = "runtime" THEN "new" ELSE Relinked(v)])
          /\ IF ~scalar THEN Then(<<Visit([p EXCEPT !.held = TRUE])>>) /\ UNCHANGED result
             ELSE IF CanPut(p) THEN Then(<<>>) /\ UNCHANGED result
             ELSE Panic
  /\ UNCHANGED seen

\* A map is built anew, value by value, and then put in place of the old one.
CvtMap(p) ==
  LET old == At(heap, p).obj
      Entry(k) == [do |-> "entry", place |-> p, from |-> old, i |-> k, to |-> New] IN
  /\ At(heap, p).kind = "map"
  /\ IF heap[old] = <<>> THEN Then(<<>>) /\ UNCHANGED <<heap, result>>
     ELSE IF ~HasRoom THEN Overflow /\ UNCHANGED heap
     ELSE /\ heap' = New :> <<>> @@ heap
          /\ Then([k \in 1 .. Len(heap[old]) |-> Entry(k)]
                    \o <<[do |-> "put", place |-> p, obj |-> New]>>)
          /\ UNCHANGED result
  /\ UNCHANGED seen

------------------------------------------------------------------------------
\* An entry is copied: a pointer is given a copy of what it points to, which a nil
\* pointer does not have.
CopyEntry(e) ==
  LET now == IF e.place.held THEN e.from ELSE At(heap, e.place).obj
      v == heap[now][e.i] IN
  IF v.kind # "pointer"
    THEN /\ heap' = [heap EXCEPT ![e.to] = Append(@, v)]
         /\ Then(<<Visit(Place(e.to, e.i))>>)
         /\ UNCHANGED result
  ELSE IF v.obj = Nil THEN Panic /\ UNCHANGED heap
  ELSE IF ~HasRoom THEN Overflow /\ UNCHANGED heap
  ELSE /\ heap' = New :> SubSeq(heap[v.obj], v.first, v.last)
                    @@ [heap EXCEPT ![e.to] =
                          Append(@, [v EXCEPT !.obj = New, !.first = 1, !.last = @ - v.first + 1])]
       /\ Then(<<Visit(Place(e.to, e.i))>>)
       /\ UNCHANGED result

PutMap(e) ==
  IF CanPut(e.place)
    THEN /\ heap' = With(e.place, [At(heap, e.place) EXCEPT !.obj = e.obj])
         /\ Then(<<>>) /\ UNCHANGED result
    ELSE Panic /\ UNCHANGED heap

Cvt(p) ==
  \/ CvtPointer(p) \/ CvtSlice(p) \/ CvtStruct(p) \/ CvtFunc(p) \/ CvtInterface(p) \/ CvtMap(p)

Step ==
  /\ result = "running" /\ todo # <<>> /\ Len(todo) <= Stack
  /\ LET task == Head(todo) IN
     \/ task.do = "visit" /\ Cvt(task.place)
     \/ task.do = "entry" /\ CopyEntry(task) /\ UNCHANGED seen
     \/ task.do = "put" /\ PutMap(task) /\ UNCHANGED seen
  /\ UNCHANGED origin

OverflowStack ==
  /\ result = "running" /\ Len(todo) > Stack
  /\ Overflow /\ UNCHANGED <<heap, origin, seen>>

Finish ==
  /\ result = "running" /\ todo = <<>>
  /\ result' = "converted"
  /\ UNCHANGED <<heap, origin, seen, todo>>

Next == Step \/ OverflowStack \/ Finish

Spec == Init /\ [][Next]_vars /\ WF_vars(Next)

------------------------------------------------------------------------------
\* The cells that a value leads to, and all that are reached from some.
Covers(h, v) ==
  CASE v.kind = "pointer" /\ v.obj # Nil -> {v.obj} \X (v.first .. v.last)
    [] v.kind \in {"slice", "map", "box"} -> {v.obj} \X (1 .. Len(h[v.obj]))
    [] OTHER -> {}

Contents(h, c) ==
  LET v == h[c[1]][c[2]] IN IF v.kind = "interface" THEN {v, v.holds} ELSE {v}

Closure(h, from, Follow(_)) ==
  LET reached[n \in Nat] ==
        IF n = 0 THEN from
        ELSE UNION {before \cup UNION {Follow(c) : c \in before} : before \in {reached[n - 1]}}
  IN reached[Cardinality(Cells(h))]

Reachable(h) ==
  LET Follow(c) == UNION {Covers(h, v) : v \in Contents(h, c)}
  IN Closure(h, {Root} \X (1 .. Len(h[Root])), Follow)

Entries(h) == UNION {Covers(h, v) : v \in {v \in Values(h) : v.kind = "map"}}

\* Cells that the walk enters however often it meets them: cycleDetector is asked
\* about pointers only, and a pointer in a map is replaced by one to a copy first.
EnteredAnew(h, c) ==
  UNION {Covers(h, v) : v \in {v \in Contents(h, c) :
           v.kind = "pointer" => v = h[c[1]][c[2]] /\ c \in Entries(h)}}

Unguarded(h) ==
  LET Follow(c) == EnteredAnew(h, c)
  IN \E c \in Reachable(h) : c \in Closure(h, Follow(c), Follow)

Refers(h, c) ==
  {v.link : v \in {v \in Contents(h, c) : v.kind = "interface" /\ v.holds.kind # "nil"}}
    \cup {Code(h, v) : v \in {v \in Contents(h, c) : v.kind = "func"}}

\* Cells that a pointer to a whole object covers, and not one to its first part.
BeyondFirstPart(h) ==
  LET pointers == {v \in UNION {Contents(h, c) : c \in Reachable(h)} : v.kind = "pointer"}
  IN UNION {Covers(h, pq[2]) \ Covers(h, pq[1]) :
              pq \in {pq \in pointers \X pointers : pq[1].obj = pq[2].obj /\ pq[1].first = pq[2].first}}

\* A converted value has nothing of the old module, but for itabs that the runtime
\* made, types without a name that the new module lacks, and whatever is reached
\* only beyond the end of a pointer to the first part of an object: when that one
\* is met first, the walk never enters the rest (convert.go:36, 423).
OnlyKnownRemains ==
  result = "converted" =>
    LET beyond == BeyondFirstPart(heap)
        Follow(c) == UNION {Covers(heap, v) : v \in Contents(heap, c)} \ beyond
    IN \A c \in Closure(heap, {Root} \X (1 .. Len(heap[Root])), Follow) :
         Refers(heap, c) \cap {"old", "lost", "runtime"} # {} =>
           \E v \in Contents(heap, c) : v.kind = "interface" /\ (v.link = "runtime" \/ ~v.known)

\* Two values other than pointers to one address lead to the same cell, or two
\* functions share a closure.
Shared(h, c, d) ==
  c # d /\ \E v \in Contents(h, c), x \in Contents(h, d) :
    \/ /\ Covers(h, v) \cap Covers(h, x) # {}
       /\ v.kind = "pointer" /\ x.kind = "pointer" =>
            v.first # x.first \/ {c, d} \cap Entries(h) # {}
    \/ v.kind = "func" /\ x.kind = "func" /\ v.obj # Nil /\ v.obj = x.obj

\* A conversion fails only where it must: something has no equivalent, cannot be
\* set, or is a nil pointer in a map; or where functions are shared: the second
\* visit finds code that is neither the host's nor the old module's (convert.go:353).
FailsForAReason ==
  result = "failed" =>
    LET reachable == Reachable(origin) IN
    \/ \E c \in reachable : \E v \in Contents(origin, c) :
         \/ v.kind = "interface" /\ (v.link = "lost" \/ ~v.known)
         \/ v.kind = "func" /\ Code(origin, v) \in {"lost", "other"}
         \/ c[1] \in Boxes /\ v.kind \in {"func", "map", "scalar"}
         \/ c \in Entries(origin) /\ v.kind = "pointer" /\ v.obj = Nil
    \/ /\ \E c \in reachable : \E v \in Contents(origin, c) : v.kind = "func"
       /\ \E c, d \in reachable : Shared(origin, c, d)

\* A conversion ends, however the value refers to itself, unless a cycle goes
\* through maps and slices alone: of those cycleDetector knows nothing.
ConversionEnds == Unguarded(origin) \/ <>(result \in {"converted", "failed"})
=============================================================================
