---------------------------- MODULE MCPrefixDisk ----------------------------
(* Instances of PrefixDisk for TLC: small sets of block hashes and the      *)
(* prompts they belong to.                                                  *)
EXTENDS PrefixDisk

CONSTANTS r, a, b

\* Two prompts that share their first block.
Fork == {<<r, a>>, <<r, b>>}
\* A single prompt of two blocks.
Single == {<<r, a>>}
\* A single prompt of one block.
One == {<<r>>}
=============================================================================
