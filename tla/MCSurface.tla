------------------------------ MODULE MCSurface ------------------------------
(***************************************************************************)
(* A small repository for TLC: a generated TypeScript client, a Dart       *)
(* client that is completed from its reviewed source, and a shell client   *)
(* whose functions carry the product's name.                               *)
(***************************************************************************)
EXTENDS SurfaceSystem

Entry(o, n) == [op |-> o, params |-> n, optional |-> 0, listed |-> TRUE]
Decl(o, s, a, w) == [op |-> o, spelling |-> s, arity |-> a, public |-> TRUE, where |-> w]
Client(decls) ==
  [decls |-> decls, types |-> {"FiduciaClient"}, errors |-> TRUE, census |-> {}]

SmallRepo == [
  clients |-> [
    ts |-> Client({Decl("lock", "styled", 1, "generated"), Decl("get", "styled", 1, "generated")}),
    dart |-> Client({Decl("lock", "styled", 1, "source")}),
    shell |-> Client({Decl("lock", "prefixed", NoArity, "source")})],
  sources |-> [manifest |-> {Entry("lock", 1), Entry("get", 1), Entry("get", 0)},
               api |-> {Entry("lock", 2), Entry("new", 0)},
              openapi |-> {[Entry("lock", 2) EXCEPT !.optional = 1]}],
  copy |-> "same", upstream |-> "same"]

\* Only waivers depend on the day.
DayMatters == day = 1 \/ (contract # NoContract /\ contract.waivers # {})

SmallPreferred == <<"ts">>

SmallWaivers ==
  {[language |-> l, operation |-> "*", expires |-> 1, reasoned |-> TRUE] : l \in {"dart", "shell"}}
    \union {[language |-> "dart", operation |-> "lock", expires |-> x, reasoned |-> x # 1] :
              x \in {-1, 1, 2}}

Command(k, f, i, e) == [given |-> k, from |-> f, interfaces |-> i, enrich |-> e]
SmallCommands ==
  {Command("manifest", NoLang, TRUE, FALSE), Command("manifest", NoLang, FALSE, TRUE),
   Command("api", NoLang, FALSE, FALSE), Command("openapi", "dart", TRUE, FALSE),
   Command("reference", "dart", FALSE, TRUE)}

SmallDecls == {Decl("lock", "styled", 0, "source"), Decl("lock", "cased", 1, "source"),
               Decl("get", "prefixed", 1, "source"), Decl("lock", "styled", 1, "test"),
               Decl("get", "odd", 1, "source"), Decl("lock", "prefixed", NoArity, "source")}
=============================================================================
