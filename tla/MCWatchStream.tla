---------------------------- MODULE MCWatchStream ----------------------------
(***************************************************************************)
(* A small instance of WatchStream for TLC.                                *)
(***************************************************************************)
EXTENDS WatchInvariants

L(f, v) == [field |-> f, value |-> v]

\* An event of two data lines with a name and an id behind them, one of a single
\* line, one whose data is empty, a comment that keeps the stream alive, and a
\* name without data.
SmallBlocks == {
  <<L("event:", <<"p">>), L("data:", <<"x", "y">>), L("data:", <<"z">>), L("id:", <<"1">>)>>,
  <<L("data:", <<"x">>)>>,
  <<L("data:", <<>>)>>,
  <<L(":", <<>>)>>,
  <<L("event:", <<"q">>)>> }

SmallCharacters == {"p", "q", "x", "y", "z", "1"}
=============================================================================
