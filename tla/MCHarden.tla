------------------------------ MODULE MCHarden ------------------------------
(***************************************************************************)
(* Four rows of the fleet for TLC: a plain target, one with an older name, *)
(* and the two kinds of TypeScript runtime; and three repositories: one    *)
(* as this one is, one with a shared TypeScript package, and an empty one. *)
(***************************************************************************)
EXTENDS HardenSystem, TLC

Repo(impl, runtimes, targets) ==
  [dirs |-> DOMAIN impl, impl |-> impl, runtimes |-> runtimes, targets |-> targets,
   interfaces |-> 1, surface |-> Nothing, fingerprint |-> Nothing, markers |-> <<>>,
   manifest |-> Nothing, matrix |-> <<>>]

Fleet == {"c", "gleamlang", "typescript-nodejs", "typescript-deno"}
SmallTargets == SelectSeq(StandardFleet, LAMBDA s : s.name \in Fleet)

Package == NewFiles
Unlisted == [NoFiles EXCEPT !.other = ByHand]

\* In the first c, besides, has tests, and lua-jit has no source with a listed suffix;
\* in the second c is beside clients/.
SmallRepos == {
  Repo(<<"c">> :> Package @@ <<"c", "test">> :> Package @@ <<"gleam">> :> Package
         @@ <<"ts">> :> Package @@ <<"lua-jit">> :> Unlisted @@ Typescript :> NoFiles
         @@ <<"typescript", "deno">> :> Package,
       {}, "repository" :> Root @@ "c" :> <<"c">> @@ "gleam" :> <<"gleam">>
             @@ "nodejs" :> <<"ts">>),
  Repo(Typescript :> Package @@ <<"sdk">> :> Package, {"nodejs", "deno"},
       "contract" :> Root @@ "nodejs" :> Typescript @@ "c" :> <<"sdk">>),
  Repo(<<>>, {}, <<>>)}

SmallDirs == {<<"lua_jit">>, <<"gleam">>, <<"typescript", "nodejs">>}
SmallEdits == {[dir |-> <<"c">>, kind |-> "source"], [dir |-> <<"c", "test">>, kind |-> "source"],
               [dir |-> <<"lua-jit">>, kind |-> "metadata"],
               [dir |-> <<"gleam">>, kind |-> "other"], [dir |-> Typescript, kind |-> "source"]}
SmallPlaces == {[target |-> "nodejs", dir |-> Typescript], [target |-> "deno", dir |-> <<"lua-jit">>],
                [target |-> "docs", dir |-> Outside], [target |-> "c", dir |-> <<"gleam">>],
                [target |-> "gleamlang", dir |-> <<"gleam">>]}
SmallRequired == "gleam" :> <<"gleam">> @@ "nodejs" :> <<"ts">>
SmallPackages == SmallRequired @@ "c" :> <<"c">>
SmallKebab == "lua_jit" :> "lua-jit"
=============================================================================
