--------------------------- MODULE VisitorInvariants ---------------------------
(***************************************************************************)
(* The inductive invariant of the visitors and of the traversals they call *)
(* (Visitor, Statements): how the calls in progress nest, what those that  *)
(* wait count on, and of what the structures are built.                    *)
(***************************************************************************)
EXTENDS Statements

-----------------------------------------------------------------------------
(* The invariant behind NoReentry.  y is x or what a type somewhere in one *)
(* named x is renamed to.                                                  *)
IsAnon(w) == w[1] = "::anon"
Within(y, x) == /\ Len(x) <= Len(y)
                /\ \A l \in 1..Len(x) : y[l] = x[l]
                /\ \A l \in Len(x) + 1..Len(y) : IsAnon(y[l])

HasStructure(n) == HasKey(allComponents \cup Components, "struct", n)

(* The calls that traverse a record, or are about to, have renamed it and  *)
(* bound it, and the variable whose type is renamed is bound.              *)
Traversing == {"record", "rename"}
Fits(f) ==
  /\ {"proc", "D", "C"} \subseteq DOMAIN f
  /\ f.proc \in Traversing => IsTag(f.D) /\ names[f.D] # Anonymous
  /\ f.proc = "record" =>
       /\ Decl(f.D).kind = "record" /\ "i" \in DOMAIN f /\ f.i \in Nat \ {0}
       /\ f.C \in allComponents \cup Components /\ Matches(f.C, "struct", names[f.D])
  /\ f.proc \in {"var", "typedef"} => Declared(f.D) /\ Decl(f.D).kind = f.proc
  /\ f.proc = "var" => f.C \in 1..Len(heap) /\ heap[f.C].id = Decl(f.D).name

(* Of two calls the inner one, j, is about no record that the outer one is *)
(* about or within; only records, enums and renaming nest in a record.     *)
Nest(f, g) ==
  /\ g.proc \notin {"rename", "enum"}
  /\ g.proc = "record" => f.proc \in Traversing \cup {"enum"}
  /\ NamesApart /\ g.proc = "record" /\ f.proc \in Traversing => ~Within(names[g.D], names[f.D])

Calls(s) ==
  /\ IsSeq(s)
  /\ \A k \in 1..Len(s) : Fits(s[k])
  /\ \A k \in 1..Len(s) : \A j \in 1..k-1 : Nest(s[j], s[k])

StoreFits == IsSeq(heap) /\ allComponents \cup Components \subseteq 1..Len(heap)

(* A declaration has the name it is declared with, or the longer one it    *)
(* got as an anonymous type: of a record that is renamed there is a        *)
(* structure, unless it is just about to be visited.                       *)
Renaming(d) == stack # <<>> /\ Head(stack).proc = "rename" /\ Head(stack).D = d
WellNamed(d) ==
  /\ IsSeq(names[d])
  /\ names[d] = Decl(d).name \/ (Decl(d).name = Anonymous /\ Len(names[d]) >= 2)
  /\ Decl(d).kind = "record" /\ Len(names[d]) >= 2 => HasStructure(names[d]) \/ Renaming(d)

(* A record within another one, or within a variable                       *)
Rooted(d) == (\A l \in 2..Len(names[d]) : IsAnon(names[d][l])) =>
  \/ HasStructure(<<names[d][1]>>)
  \/ \E v \in DOMAIN program.decls :
       Decl(v).kind = "var" /\ Nests(Decl(v)) /\ Decl(v).name = <<names[d][1]>>

NestingInv ==
  /\ phase # "ast" => stack = <<>>
  /\ StoreFits
  /\ Calls(stack)
  /\ DOMAIN names = DOMAIN program.decls
  /\ \A d \in DOMAIN names : WellNamed(d)
  /\ \A d \in DOMAIN names : Decl(d).kind = "record" /\ Len(names[d]) >= 2 => Rooted(d)

-----------------------------------------------------------------------------
(* What the calls that wait for others count on when those return: the     *)
(* type of the field a record is at has a name and, once it was visited, a *)
(* structure, like the type a typedef has had visited; the structure that  *)
(* was visited last is there, for a record and a variable that adopts.     *)
Present(t) == /\ IsTag(t) /\ names[t] # Anonymous
              /\ HasKey(allComponents \cup Components, ModelType(t), names[t])
Adopts(f) == f.proc = "var" /\ f.at = "adopt"
Waits(f) ==
  /\ "at" \in DOMAIN f
  /\ f.proc = "record" \/ Adopts(f) => _currentStructure # NULL \/ Head(stack).proc = "rename"
  /\ f.proc = "record" /\ f.at # "start" =>
       /\ f.i <= Len(Decl(f.D).fields)
       /\ LET t == Decl(f.D).fields[f.i].type
          IN  /\ ~NeedsName(t)
              /\ f.at = "adopt" => Present(t) \/ Renaming(t)
              /\ f.at = "retry" => Present(t)
  /\ f.proc = "typedef" /\ f.at = "check" => Present(Decl(f.D).type)

(* A variable only has its own anonymous type visited before it adopts it. *)
Waiting(s) ==
  /\ \A k \in 1..Len(s) : Waits(s[k])
  /\ \A k \in 2..Len(s) : Adopts(s[k]) => s[k-1].proc \in Traversing \cup {"enum"}

-----------------------------------------------------------------------------
(* What the structures are built of, if names are unambiguous              *)

IsRecord(d) == Declared(d) /\ Decl(d).kind = "record"

Structures == {c \in Components : heap[c].type = "struct"}

(* The names of the structures, and of the records of this unit; n is what *)
(* the anonymous type of a field of a record named x is renamed to.        *)
Labels == {heap[c].id : c \in Structures} \cup {names[d] : d \in {e \in DOMAIN names : IsRecord(e)}}
Number(n) == n[Len(n)][2]
Inside(n, x) == Len(n) >= 2 /\ n = Append(x, Anon(Number(n)))
InStructure(n) == \E c \in Structures : Inside(n, heap[c].id)

(* The names d has, or gets, wherever it is visited from: its own one, or  *)
(* that of its variable or typedef                                         *)
Denotes(n, d) ==
  \/ n # Anonymous /\ Decl(d).name = n
  \/ \E v \in DOMAIN program.decls :
       /\ Nests(Decl(v)) /\ Decl(v).type = d
       /\ \/ Decl(v).kind = "var" /\ n = Append(Decl(v).name, Anon(0))
          \/ Decl(v).kind = "typedef" /\ n = Append(Decl(v).name, OfTypedef)

(* Only variables and functions are in the cache, and no two components    *)
(* are alike; a record that was visited has a structure.                   *)
StoreBuilt ==
  /\ \A c \in allComponents : heap[c].type \notin {"struct", "enum", "typedef"}
  /\ \A c, e \in Components : Matches(c, heap[e].type, heap[e].id) => c = e
  /\ DOMAIN fields \subseteq 1..Len(heap) /\ \A c \in DOMAIN fields : IsSeq(fields[c])
  /\ IsSeq(TranslationUnits) /\ (TU = 0 => phase = "idle" /\ Components = {})
  /\ visited \in Nat /\ (phase = "preprocess" => visited = 0)
  /\ \A d \in Visited : IsRecord(d) /\ Decl(d).name # Anonymous => HasStructure(Decl(d).name)

(* A structure has the name of a record, or one that a variable, a typedef *)
(* or a field gives to its type; no two types are renamed to the same.     *)
NamesBuilt ==
  /\ \A c \in Structures : LET n == heap[c].id IN
       /\ IsSeq(n) /\ n # Anonymous
       /\ InStructure(n) \/ \E d \in DOMAIN program.decls : IsRecord(d) /\ Denotes(n, d)
  /\ \A d \in DOMAIN names : IsRecord(d) /\ Len(names[d]) >= 2 =>
       /\ InStructure(names[d]) \/ Denotes(names[d], d)
       /\ \A e \in DOMAIN names : IsRecord(e) /\ names[d] = names[e] => d = e

(* The reference of c for its field i of type t                            *)
RefersTo(c, i, t) == t # 0 => \E s \in Components :
  /\ <<c, s, <<"field", i>>>> \in references
  /\ heap[s].type = ModelType(t)
  /\ Decl(t).name # Anonymous => heap[s].id = Decl(t).name
  /\ TU = 1 => names[t] # Anonymous /\ heap[s].id = names[t]

(* A record that is traversed has the fields before the one it is at, and  *)
(* its anonymous types have got the numbers below anons.                   *)
Progress(f) == [D |-> f.D, C |-> f.C, at |-> f.at, i |-> f.i, anons |-> f.anons]
Building(s) == {Progress(s[k]) : k \in {j \in 1..Len(s) : s[j].proc = "record"}}
Builds(b) ==
  LET fs == Decl(b.D).fields
  IN  /\ Decl(b.D).def
      /\ b.at \in {"start", "adopt", "field", "type", "retry"} /\ b.i \in 1..Len(fs) + 1
      /\ Size(b.C) = IF b.at \in {"type", "retry"} THEN b.i ELSE b.i - 1
      /\ \A i \in 1..b.i - 1 : RefersTo(b.C, i, fs[i].type)
      /\ b.anons \in Nat /\ (b.i = 1 /\ b.at = "start" => b.anons = 0)
      /\ \A n \in Labels : Inside(n, names[b.D]) =>
           Number(n) \in 0..b.anons - 1 \/ (b.at = "adopt" /\ Number(n) = b.anons)

(* Any other structure has the fields of the one definition that has, or   *)
(* may get, its name - or none yet.                                        *)
BuiltFrom(c, d) ==
  /\ Size(c) = Len(Decl(d).fields)
  /\ \A i \in 1..Len(Decl(d).fields) : RefersTo(c, i, Decl(d).fields[i].type)
Built(c) ==
  /\ Size(c) = 0 => \A n \in Labels : ~Inside(n, heap[c].id)
  /\ \A d \in DOMAIN program.decls :
       IsRecord(d) /\ Decl(d).def /\ (names[d] = heap[c].id \/ Denotes(heap[c].id, d)) =>
         BuiltFrom(c, d) \/ (Size(c) = 0 /\ Unbuilt(d))

BuildInv ==
  /\ StoreBuilt /\ NamesBuilt
  /\ \A b \in Building(stack) : Builds(b)
  /\ \A c \in Structures : Built(c) \/ \E b \in Building(stack) : b.C = c

-----------------------------------------------------------------------------
(* What the functions have, if their declarations agree                    *)

(* A traversal is at one of the nodes of a body, an initializer at one of  *)
(* the elements of a declared variable or behind them.                     *)
Reads(f) ==
  /\ f.proc = "stmt" => /\ {"n", "at", "nodes"} \subseteq DOMAIN f /\ IsBody(program, f.nodes)
                        /\ f.n \in 1..Len(f.nodes) /\ (f.at # "leave" => f.n < Len(f.nodes))
  /\ f.proc = "init" => /\ {"i", "k"} \subseteq DOMAIN f /\ Declared(f.D)
                        /\ f.i \in Nat \ {0} /\ f.k \in Nat \ {0}

Reading(s) == \A k \in 1..Len(s) :
  /\ Reads(s[k])
  /\ s[k].proc \in {"function", "params"} => {"C", "at", "i"} \subseteq DOMAIN s[k]

(* The visitor of a function is called by VisitDeclContext only.  It is    *)
(* the outermost call, the loop over the arguments the one in it.          *)
Making(s) == {[proc |-> s[k].proc, D |-> s[k].D, C |-> s[k].C, at |-> s[k].at, i |-> s[k].i,
               depth |-> Len(s) - k] : k \in {j \in 1..Len(s) : s[j].proc \in {"function", "params"}}}

(* A typedef on its way to the store; a type that is there or is awaited   *)
Defining(s, t) == \E k \in 1..Len(s) : s[k].proc = "typedef" /\ s[k].D = t /\ s[k].at # "link"
Comes(t) == NamedType(t) => HasKey(Held, ModelType(t), Decl(t).name) \/ Defining(stack, t)

(* Component c of the type function is that of declaration d.              *)
Declares(d, c) == /\ Matches(c, "function", Decl(d).name)
                  /\ (heap[c].local <=> Decl(d).static)
                  /\ Decl(d).static => d \in Range(TopLevel)

(* The reference of c to the type t, and its first n arguments             *)
Refers(c, t, ref) == NamedType(t) =>
  \E s \in Components : <<c, s, ref>> \in references /\ Matches(s, ModelType(t), Decl(t).name)
Argued(c, d, n) ==
  /\ c \in DOMAIN arguments /\ arguments[c] = [i \in 1..n |-> Decl(d).params[i]]
  /\ \A i \in 1..n : Refers(c, Decl(d).params[i].type, <<"argument", i>>)

(* Nothing but variables and functions is TULocal, no two components of a  *)
(* scope are alike, and static functions in the cache are of this unit.    *)
FunctionStore ==
  /\ \A c \in allComponents : heap[c].local /\ heap[c].type \in {"global", "function"}
  /\ \A c \in Components : ~heap[c].local
  /\ \A c, e \in Components : Matches(c, heap[e].type, heap[e].id) => c = e
  /\ \A c, e \in allComponents : Matches(c, heap[e].type, heap[e].id) => c = e
  /\ \A c \in allComponents : heap[c].type = "function" =>
       \E d \in Functions : Declares(d, c)
  /\ argscomplete \subseteq 1..Len(heap)

(* The declarations visited are those of the unit.                         *)
UnitFits ==
  /\ IsSeq(TranslationUnits) /\ (phase # "idle" => TU \in 1..Len(Mains))
  /\ visited \in Nat /\ (phase = "preprocess" => visited = 0)
  /\ \A d \in Visited : d \in Range(TopLevel)

(* What the visitor of a function and its loop have come to                *)
Makes(m) ==
  /\ m.D \in Visited \cap Functions /\ m.C \in Held /\ Declares(m.D, m.C)
  /\ m.proc = "function" => m.depth = 0 /\ (m.at = "retry" => Comes(Decl(m.D).type))
  /\ m.proc = "params" =>
       /\ m.depth = 1
       /\ \E f \in Making(stack) : f.proc = "function" /\ f.D = m.D /\ f.C = m.C /\ f.at = "macros"
       /\ m.i \in 1..Len(Decl(m.D).params) + 1 /\ Argued(m.C, m.D, m.i - 1)
       /\ m.at = "retry" => Comes(Decl(m.D).params[m.i].type)
       /\ m.C \in argscomplete => \A d \in Functions :
            Decl(d).def /\ Declares(d, m.C) => Decl(m.D).params = <<>>

(* Every function that was visited has a component.  If it is a definition *)
(* the arguments are complete, or the visitor will see to it; and          *)
(* arguments that are complete are those of the definition.                *)
Completed(d, c) == c \in argscomplete \/ \E m \in Making(stack) :
  m.D = d /\ m.C = c /\ (m.proc = "params" \/ m.at # "macros")
ReturnReferred(d, c) == Refers(c, Decl(d).type, <<"return", -1>>) \/ \E m \in Making(stack) :
  m.proc = "function" /\ m.C = c /\ m.at \in {"type", "retry"}

FunctionInv ==
  /\ FunctionStore /\ UnitFits /\ Reading(stack)
  /\ \A m \in Making(stack) : Makes(m)
  /\ \A d \in Visited \cap Functions : \E c \in Held :
       Declares(d, c) /\ (Decl(d).def => Completed(d, c))
  /\ \A d \in Functions : \A c \in Held : Declares(d, c) =>
       /\ ReturnReferred(d, c)
       /\ c \in argscomplete /\ Decl(d).def => Argued(c, d, Len(Decl(d).params))

(* The inductive invariant of the visitors                                 *)
VisitorInv == /\ NestingInv /\ Waiting(stack)
              /\ Unambiguous /\ ~aborted => BuildInv
              /\ Prototyped /\ ~aborted => FunctionInv
=============================================================================
