----------------------------- MODULE MCMlxMemory -----------------------------
(***************************************************************************)
(* Instances of MlxMemory for TLC: turns of one conversation and a second  *)
(* one that leaves it after two tokens.                                    *)
(***************************************************************************)
EXTENDS MlxMemory

Turns == {<<0, 0, 0>>, <<0, 0, 0, 1, 0, 0>>, <<0, 0, 1, 1>>}
Answers == {<<1>>, <<1, 0>>}
Ahead == {<<>>, <<1>>}

\* Hybrids with recurrent and with windowed layers, full attention, and windowed layers alone.
Kinds == {<<0, TRUE>>, <<4, TRUE>>, <<100, TRUE>>, <<4, FALSE>>}
=============================================================================
