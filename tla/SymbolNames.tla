----------------------------- MODULE SymbolNames -----------------------------
(***************************************************************************)
(* The names that types go by, and the packages of functions: type.go and  *)
(* obj/readobj.1.16.go.                                                    *)
(*                                                                         *)
(* The compiler names the symbol of a type by what the type is built of.   *)
(* The program that loads has lost those names: it makes them again from   *)
(* what reflection tells of a type.  Two things in a name are lost for     *)
(* good, the number of a type local to a function and the mark of a type   *)
(* without equality, which is why they are taken out of a symbol's name    *)
(* when the name as it is finds no type.                                   *)
(*                                                                         *)
(* A name is a sequence of texts, separators being texts of their own, and *)
(* so is the path of a package.                                            *)
(* A type is a record of what reflection tells:                            *)
(*   kind    its Kind                                                      *)
(*   pkg     its package path, or NoPackage                                *)
(*   name    its Name(), or <<>>                                           *)
(*   string  its String(), with package names in place of paths            *)
(*   elems   the types it is built of: key and element, parameters and     *)
(*           then results, the types of the fields                         *)
(* and, by its kind, len, dir, ins and variadic, fields or methods.        *)
(* Package paths that need escaping are left out.                          *)
(***************************************************************************)
EXTENDS Naturals, Sequences, SequencesExt, FiniteSetsExt

NoPackage == <<>>

Join(parts, separator) ==
  FlattenSeq([i \in DOMAIN parts |-> IF i = 1 THEN parts[i] ELSE <<separator>> \o parts[i]])

Split(name, separator) ==
  FoldLeft(LAMBDA parts, text : IF text = separator THEN Append(parts, <<>>)
                                ELSE Front(parts) \o <<Append(Last(parts), text)>>,
           <<<<>>>>, name)

\* nameFromTypeString: what follows the last dot that is in no brackets.
NameFromTypeString(string) ==
  LET depth(i) == Len(SelectSeq(SubSeq(string, i, Len(string)), LAMBDA x : x = "]"))
                  - Len(SelectSeq(SubSeq(string, i, Len(string)), LAMBDA x : x = "["))
      dots == {i \in DOMAIN string : string[i] = "." /\ depth(i) = 0}
  IN IF dots = {} THEN string
     ELSE SubSeq(string, (CHOOSE i \in dots : \A j \in dots : j <= i) + 1, Len(string))

\* resolveFullyQualifiedSymbolName, for the types of a program.
Resolved(types) ==
  LET name[t \in DOMAIN types] ==
        LET T == types[t]
            elem(i) == name[T.elems[i]]
            own == IF T.name = <<>> THEN NameFromTypeString(T.string) ELSE T.name
            field(i) ==
              LET f == T.fields[i] IN
              (IF f.pkg # NoPackage /\ ~f.embedded THEN f.pkg \o <<".">> ELSE <<>>)
              \o (IF f.embedded THEN <<>> ELSE <<f.name, " ">>)
              \o elem(i)
              \o (IF f.tag # "" THEN <<" ", f.tag>> ELSE <<>>)
            parameter(i) ==
              IF i = T.ins /\ T.variadic THEN <<"...">> \o name[types[T.elems[i]].elems[1]] ELSE elem(i)
            outs == Len(T.elems) - T.ins
            results == Join([i \in 1 .. outs |-> elem(T.ins + i)], ", ")
            \* The signature without its "func(".
            method(i) == <<T.methods[i].name, "(">> \o Tail(name[T.methods[i].type])
        IN CASE T.pkg # NoPackage /\ own # <<>> ->
                  (IF Head(T.string) = "*" THEN <<"*">> ELSE <<>>) \o T.pkg \o <<".">> \o own
             [] T.kind = "ptr" -> <<"*">> \o elem(1)
             [] T.kind = "slice" -> <<"[]">> \o elem(1)
             [] T.kind = "array" -> <<"[", T.len, "]">> \o elem(1)
             [] T.kind = "chan" -> <<T.dir, " ">> \o elem(1)
             [] T.kind = "map" -> <<"map[">> \o elem(1) \o <<"]">> \o elem(2)
             [] T.kind = "func" ->
                  <<"func(">> \o Join([i \in 1 .. T.ins |-> parameter(i)], ", ") \o <<")">>
                  \o (IF outs > 0 THEN <<" ">> ELSE <<>>)
                  \o (IF outs > 1 THEN <<"(">> \o results \o <<")">> ELSE results)
             [] T.kind = "struct" /\ T.fields # <<>> ->
                  <<"struct", " ", "{", " ">>
                  \o Join([i \in DOMAIN T.fields |-> field(i)], "; ") \o <<" ", "}">>
             [] T.kind = "interface" /\ T.methods # <<>> ->
                  <<"interface", " ", "{", " ">>
                  \o Join([i \in DOMAIN T.methods |-> method(i)], "; ") \o <<" ", "}">>
             [] OTHER -> T.string
  IN name

------------------------------------------------------------------------------
\* symbolIsVariant: the name of a symbol without number and mark, or <<>> if it has
\* none that is looked for.

IsNumber(text) == text \in {"·1", "·2"}
IsTag(text) == text \in {"\"tag\""}

Struct == <<"struct", " ", "{">>

\* The part of a field that is taken for its type.
TypePart(parts) == IF Len(parts) = 1 \/ (Len(parts) = 2 /\ IsTag(parts[2][1])) THEN 1 ELSE 2

IsNumbered(part) == part # <<>> /\ IsNumber(Last(part))

WithoutNumber(field) ==
  LET parts == Split(field, " ")
      k == TypePart(parts)
  IN IF IsNumbered(parts[k]) THEN Join([parts EXCEPT ![k] = Front(@)], " ") ELSE field

\* Only behind a star is the beginning of a struct taken off before its fields
\* are looked at.
VariantOfStruct(name) ==
  LET pointer == <<"*">> \o Struct \o <<" ">>
      start == IF IsPrefix(pointer, name) THEN Len(pointer) + 1 ELSE 1
      end == IF IsSuffix(<<" ", "}">>, name) THEN Len(name) - 2 ELSE Len(name)
      fields == Split(SubSeq(name, start, end), "; ")
      without == [i \in DOMAIN fields |-> WithoutNumber(fields[i])]
  IN IF without = fields THEN <<>>
     ELSE (IF Head(name) = "*" THEN <<"*">> ELSE <<>>)
          \o Struct \o <<" ">> \o Join(without, "; ") \o <<" ", "}">>

Variant(name) ==
  CASE IsPrefix(Struct, name) \/ IsPrefix(<<"*">> \o Struct, name) -> VariantOfStruct(name)
    [] OTHER -> IF IsNumbered(name) THEN Front(name)
                ELSE IF Head(name) = "noalg." THEN Tail(name) ELSE <<>>

------------------------------------------------------------------------------
\* funcPkgPath: the package that a function's name begins with.  A method that comes
\* with an embedded type has two paths in its name, and the name of a dictionary
\* those of its type arguments.

Occurrences(name, S) == {i \in DOMAIN name : name[i] \in S}

\* Where the last element of the path begins; none of the elements has a dot.
PathFrom(name) ==
  LET slash == Max({0} \cup Occurrences(name, {"/"}))
      bracket == Max({0} \cup {i \in Occurrences(name, {"."}) : i + 1 \in Occurrences(name, {"("})})
  IN IF bracket > 0 /\ slash > bracket THEN bracket ELSE slash

WithoutEq(name) == IF Head(name) = "type:.eq." THEN Tail(name) ELSE name
WithoutEllipsis(path) == IF path # <<>> /\ Head(path) = "[...]" THEN Tail(path) ELSE path

PathBefore(name, end) == WithoutEllipsis(SubSeq(name, 1, end - 1))

PathEnd(name) ==
  Min({i \in Occurrences(name, {".", "(", "["}) : i >= PathFrom(name)} \cup {Len(name) + 1})

FuncPkgPath(function) ==
  LET name == WithoutEq(function)
      dict == Occurrences(name, {"..dict"})
  IN CASE IsPrefix(<<"go:">> \o Struct, name) \/ IsPrefix(<<"go:(*">> \o Struct, name) -> NoPackage
       [] dict # {} -> SubSeq(name, 1, Min(dict) - 1)
       [] OTHER -> PathBefore(name, PathEnd(name))

\* The same in the reader of objects, which looks for slashes of type arguments too.
ObjFuncPkgPath(function) ==
  LET name == WithoutEq(function)
      dict == Occurrences(name, {"..dict"})
      square == Min(Occurrences(name, {"["}) \cup {Len(name) + 1})
  IN CASE \E start \in {<<"go:">>, <<"go:", "*">>, <<>>} : IsPrefix(start \o Struct, name) -> NoPackage
       [] dict # {} -> SubSeq(name, 1, Min(dict) - 1)
       [] dict = {} /\ 1 < square /\ square < PathFrom(name) ->
            SubSeq(name, 1, Max({1} \cup {i \in Occurrences(name, {"."}) : i < square}) - 1)
       [] OTHER -> PathBefore(name, PathEnd(name))

\* typePkgPath: the package of a type by the name of its symbol.  Slices and arrays
\* are not told apart from types with a name.
TypePkgPath(symbol) ==
  LET stars == {i \in DOMAIN symbol : \A j \in 2 .. i : symbol[j] = "*"}
      name == SubSeq(symbol, Max(stars) + 1, Len(symbol))
      Unnamed == {"func(", "noalg.", "map[", "map.bucket[", "map.iter[", "map.hdr["}
      hasPackage == Occurrences(name, {"."}) # {} /\ Head(name) \notin Unnamed /\ ~IsPrefix(Struct, name)
  IN IF Head(symbol) = "type:" /\ hasPackage THEN ObjFuncPkgPath(name) ELSE NoPackage

\* What is named as types are, and has no function in it.
IsTypeSymbol(symbol) ==
  Head(symbol) \in {"type:", "type:.namedata.", "go:info.", "go:cuinfo.", "go:interface {"}
==============================================================================
