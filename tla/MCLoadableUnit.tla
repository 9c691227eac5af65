---------------------------- MODULE MCLoadableUnit ---------------------------
(* Programs of up to five packages.  Package 0 is main, 1 the runtime.     *)
(* Names say where a symbol is defined.                                    *)
EXTENDS LoadableUnit

Library == {1}
None == [s \in {} |-> {}]

\* A program in which main.f leads to symbols given by where they are defined and
\* what they refer to; every symbol names the package that defines it.
Program(definedIn, refs) ==
  [syms |-> DOMAIN definedIn, definedIn |-> definedIn, pkgOf |-> definedIn,
   refs |-> [s \in DOMAIN definedIn |-> IF s \in DOMAIN refs THEN refs[s] ELSE {}],
   types |-> {}, named |-> {}, elem |-> None, byIndex |-> None, ifaceUse |-> None,
   dead |-> [s \in DOMAIN definedIn |-> {}], inner |-> None,
   host |-> {}, cgo |-> {}, libs |-> {}, deps |-> {1, 2, 3, 4}, std |-> Library,
   escaped |-> {}, skip |-> {}, blind |-> FALSE,
   imports |-> 0 :> <<2, 3, 4>> @@ 1 :> <<>> @@ 2 :> <<1, 3>> @@ 3 :> <<1>> @@ 4 :> <<1, 2>>,
   tasks |-> 0 .. 4, hostTasks |-> {0, 1}, ownTasks |-> {0}]

\* A chain of packages whose last symbol is linknamed into the runtime; the host
\* has none of them, or one.  Without the host the chain is too long by one.
Chain ==
  LET p == [Program("main.f" :> 0 @@ "p2.g" :> 2 @@ "p3.h" :> 3 @@ "p4.k" :> 4 @@ "p3.linked" :> 1,
                    "main.f" :> {"p2.g"} @@ "p2.g" :> {"p3.h"} @@ "p3.h" :> {"p4.k"}
                      @@ "p4.k" :> {"p3.linked"})
            EXCEPT !.pkgOf["p3.linked"] = 3]
  IN {[p EXCEPT !.host = h] : h \in {{}, {"p3.linked"}, {"p3.h"}, {"p4.k"}}}

\* Three packages in a round, and a symbol of C, which a library may have.
Wide ==
  LET p == [Program("main.f" :> 0 @@ "p2.g" :> 2 @@ "p3.h" :> 3 @@ "p4.k" :> 4 @@ "c" :> NoPackage,
                    "main.f" :> {"p2.g", "p3.h", "p4.k"} @@ "p3.h" :> {"c"})
            EXCEPT !.cgo = {"c"}]
  IN {[p EXCEPT !.libs = l] : l \in {{}, {"c"}}}

\* Main has a symbol of p2, and p2 refers to it; nobody defines p2.gone.  A symbol
\* may be linknamed into a package that is not the runtime, or into the runtime by a
\* package whose path is escaped.
Pulled ==
  LET p == [Program("main.f" :> 0 @@ "p2.g" :> 2 @@ "p2.pushed" :> 0 @@ "p2.gone" :> NoPackage
                      @@ "p4.only" :> 3,
                    "main.f" :> {"p2.g"} @@ "p2.g" :> {"p2.pushed"})
            EXCEPT !.pkgOf["p2.pushed"] = 2, !.pkgOf["p2.gone"] = 2, !.pkgOf["p4.only"] = 4]
  IN {[p EXCEPT !.refs["p2.g"] = @ \cup r] : r \in {{}, {"p2.gone"}, {"p4.only"}}}
     \cup {[p EXCEPT !.refs["p2.g"] = {"p4.only"}, !.definedIn["p4.only"] = 1, !.escaped = e] : e \in {{}, {4}}}

\* Types: main's type has fields *p2.T and p2.T, and p2.T one of p3.U; the host has
\* them all, and has dropped a method of p3.U that p4.k calls.  The archive of main or
\* that of p2 has *p2.T.
Types ==
  LET p == [Program("main.f" :> 0 @@ "type.main" :> 0 @@ "type.*p2.T" :> 0 @@ "type.p2.T" :> 2
                      @@ "type.p3.U" :> 3 @@ "p3.U.m" :> 3 @@ "p4.k" :> 4,
                    "main.f" :> {"p4.k"} @@ "type.main" :> {"type.*p2.T", "type.p2.T"}
                      @@ "type.*p2.T" :> {"type.p2.T"} @@ "type.p2.T" :> {"type.p3.U"}
                      @@ "type.p3.U" :> {"p3.U.m"} @@ "p4.k" :> {"p3.U.m"})
            EXCEPT !.types = {"type.main", "type.*p2.T", "type.p2.T", "type.p3.U"},
                   !.named = {"type.main", "type.p2.T", "type.p3.U"},
                   !.elem = "type.*p2.T" :> "type.p2.T", !.dead["type.p3.U"] = {"p3.U.m"},
                   !.host = {"type.*p2.T", "type.p2.T", "type.p3.U"}]
  IN {[[p EXCEPT !.blind = b, !.std = Library \cup s]
         EXCEPT !.refs["type.main"] = @ \ d, !.definedIn["type.*p2.T"] = o] :
        b \in BOOLEAN, s \in {{}, {2}, {3}}, d \in {{}, {"type.p2.T"}}, o \in {0, 2}}

\* A variable of main has a type that an index into p2 names.
ByIndex ==
  {[[Program("main.f" :> 0 @@ "main.v" :> 0 @@ "type.p2.T" :> 2 @@ "p2 type" :> NoPackage,
            "main.f" :> {"main.v"})
    EXCEPT !.pkgOf["p2 type"] = 2, !.types = {"type.p2.T"}, !.named = {"type.p2.T"},
           !.byIndex = "main.v" :> [type |-> "type.p2.T", fake |-> "p2 type"],
           !.host = h, !.deps = d, !.escaped = e]
    EXCEPT !.imports[0] = IF 2 \in d THEN <<1, 2>> ELSE <<1>>] :
     h \in {{}, {"type.p2.T"}}, d \in {{1}, {1, 2}}, e \in {{}, {2}}}

\* main.f calls a method of an interface of the host; the host's p2.T implements it
\* with that method dropped.  The symbols of p3 are not to be shared; its init task, or
\* that of p2 as well, has that prefix, and the host has them all.
Shared ==
  {[Program("main.f" :> 0 @@ "type.I" :> 1 @@ "type.p2.T" :> 2 @@ "p3.h" :> 3
              @@ "type.runtime/internal.N" :> 4,
            "main.f" :> {"type.I", "p3.h"} @@ "p3.h" :> {"type.runtime/internal.N"})
    EXCEPT !.types = {"type.I", "type.p2.T", "type.runtime/internal.N"},
           !.pkgOf["type.runtime/internal.N"] = 1, !.inner = "type.runtime/internal.N" :> 4,
           !.named = {"type.p2.T"}, !.host = {"type.I", "type.p2.T", "p3.h"},
           !.ifaceUse = "main.f" :> [iface |-> "type.I", types |-> {"type.p2.T"}],
           !.std = Library \cup s, !.skip = k, !.escaped = e,
           !.hostTasks = {0, 1, 2, 3}, !.ownTasks = {0} \cup k \cup o] :
     s \in {{}, {2}}, k \in {{}, {3}}, e \in {{}, {2}, {3}}, o \in {{}, {2}}}

\* Each kind of call, with each way to come by a TmpDir and to leave it.
MCCalls ==
  {[kind |-> "files", keep |-> FALSE, tmpDir |-> "missing"],
   [kind |-> "text", keep |-> FALSE, tmpDir |-> "there"],
   [kind |-> "text", keep |-> TRUE, tmpDir |-> "missing"],
   [kind |-> "package", keep |-> FALSE, tmpDir |-> "there"],
   [kind |-> "remote", keep |-> FALSE, tmpDir |-> "default"]}

MCPrograms == Chain \cup Wide \cup Pulled \cup Types \cup ByIndex \cup Shared
=============================================================================
