--------------------------- MODULE SurfaceExtract ---------------------------
(***************************************************************************)
(* What contract/bin/extract.py reads from the source of a client: the     *)
(* names it exports, their arity, and its client type.                     *)
(*                                                                         *)
(* A client is [decls, types, errors, census]: the declarations that the   *)
(* patterns of its language find, the names of its types that end in       *)
(* "client", whether it names an error type, and the bytes of its files by *)
(* language.  A declaration is                                             *)
(*   [op, spelling, arity, public, where]:                                 *)
(* an operation and how it is written, "styled" in one of the accepted     *)
(* renderings, "cased" equal to one but for its case, "prefixed" with the  *)
(* product's name, or "odd"; its number of parameters as far as the        *)
(* parentheses balance; what the language's `private` says of it; and the  *)
(* file it is in: "source", "generated", "test" (a hint of tests in the    *)
(* path, or a skipped directory).                                          *)
(***************************************************************************)
EXTENDS Naturals, Integers, FiniteSets, FiniteSetsExt, Sequences, SequencesExt

NoArity == -1
NoType == "none"

\* The language table, by the style of its names.
StyleOf == [
  snake_case |-> {"python", "ruby", "rust", "elixir", "erlang", "gleam", "ocaml",
                  "crystal", "c", "cpp", "lua", "r", "julia", "matlab", "shell"},
  camelCase  |-> {"typescript", "javascript", "java", "kotlin", "scala", "swift",
                  "dart", "php", "haskell", "nim", "zig"},
  PascalCase |-> {"go", "csharp", "fsharp", "powershell"},
  kebabCase  |-> {"clojure"}]
Languages == UNION {StyleOf[s] : s \in DOMAIN StyleOf}

\* Their declarations have no parameter list to read.
NoParen == {"haskell", "ocaml", "clojure", "powershell", "shell"}

\* Other names of client directories; "javascript" is not one of them.
DirAliases == [
  typescript |-> {"ts", "reactive-ts"}, javascript |-> {"js", "node"}, go |-> {"golang"},
  python |-> {"python3", "py"}, gleam |-> {"gleamlang"}, cpp |-> {"c++", "cxx"},
  rust |-> {"rust-wasm", "rust-policy", "rust-connectivity", "rust-db", "desktop-rust"},
  dart |-> {"flutter", "flutter_background", "reactive-dart"}, csharp |-> {"dotnet", "cs"}]

\* By the directory's name, else by the bytes of each language's files in it.
DetectLanguage(dir, census) ==
  IF dir \in Languages \ {"javascript"} THEN dir
  ELSE IF \E l \in DOMAIN DirAliases : dir \in DirAliases[l]
  THEN CHOOSE l \in DOMAIN DirAliases : dir \in DirAliases[l]
  ELSE IF census = {} THEN "none"
  ELSE (CHOOSE c \in census : \A d \in census : d.bytes <= c.bytes).lang

\* Read are the files without a hint of tests that no pattern excludes.
Sources(client, exclude) ==
  {d \in client.decls : d.where \notin {"test"} \union exclude}

\* The name of a declaration, up to the accepted spellings.  One behind the
\* product's name, or an odd one, is another name than the operation's: were it
\* read as an operation of its own, it would be that operation's styled name.
Behind(o) == "fiducia_" \o o
Other(o) == "odd_" \o o
Name(d) ==
  CASE d.spelling = "prefixed" -> [op |-> Behind(d.op), spelling |-> "styled"]
    [] d.spelling = "odd"      -> [op |-> Other(d.op), spelling |-> "styled"]
    [] OTHER                   -> [op |-> d.op, spelling |-> d.spelling]

\* extract: the public names, and of the arities seen for a name the widest.
Symbols(client, exclude) ==
  {Name(d) : d \in {e \in Sources(client, exclude) : e.public}}
Arity(client, exclude, lang, name) ==
  LET seen == {d.arity : d \in {e \in Sources(client, exclude) : e.public /\ Name(e) = name}}
  IN  IF lang \in NoParen THEN NoArity ELSE Max(seen)

\* The pinned client type if it is there, else the shortest, then the first.
TypeOrder == <<"Client", "FiduciaClient", "FiduciaLockClient">>
FindClientType(client, prefer) ==
  CASE client.types = {} -> NoType
    [] prefer \in client.types -> prefer
    [] OTHER -> TypeOrder[Min({i \in DOMAIN TypeOrder : TypeOrder[i] \in client.types})]
=============================================================================
