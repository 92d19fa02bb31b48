----------------------------- MODULE PrefixStore -----------------------------
(***************************************************************************)
(* The RAM tier of the prefix cache (prefix_cache.py): an LRU list of      *)
(* snapshots, each the caches of all layers under the tokens they were     *)
(* inserted for.  What the caches hold is the tokens that were fed to them.*)
(*                                                                         *)
(* A store st has                                                          *)
(*    entries   in the order they were inserted                            *)
(*    recent    their token sequences, the least recently used first       *)
(***************************************************************************)
EXTENDS Naturals, Sequences, SequencesExt, FiniteSetsExt

CONSTANTS
    MinMatch,   \* MIN_MATCH_TOKENS
    MaxBytes,   \* max_bytes
    TokenBytes, \* what a token takes in the attention caches
    StateBytes  \* what a snapshot takes whatever its length

ASSUME StoreAssumption ==
    /\ MinMatch \in Nat \ {0} /\ MaxBytes \in Nat
    /\ TokenBytes \in Nat /\ StateBytes \in Nat

\* The caches can be cut back to any length as long as they are shorter than the window:
\* always for full attention, never for recurrent state, up to a size for a sliding window.
Trimmable(n, window) == n < window

Empty == [entries |-> <<>>, recent |-> <<>>]
Keys(st) == {st.entries[i].tokens : i \in DOMAIN st.entries}
Nbytes(e) == TokenBytes * Len(e.fed) + StateBytes
Total(entries) == FoldLeft(LAMBDA n, e : n + Nbytes(e), 0, entries)

\* insert() filters by the tokens; it finds one entry at most, for no two have the same
\* (StoreSane of MlxMemory), and so removing the first is enough.
WithoutKey(entries, tokens) == RemoveFirstMatch(entries, LAMBDA e : e.tokens = tokens)

\* _evict(): the least recently used go until the rest fits; the entry just inserted, which
\* is also the one used last, always stays.
Evict(st) ==
    LET left[k \in Nat] ==
            IF k = 0 THEN st
            ELSE IF Total(left[k - 1].entries) > MaxBytes /\ Len(left[k - 1].entries) > 1
            THEN [entries |-> WithoutKey(left[k - 1].entries, Head(left[k - 1].recent)),
                  recent  |-> Tail(left[k - 1].recent)]
            ELSE left[k - 1]
    IN  left[Len(st.entries)]

\* insert(): a copy of the state, which takes the place of what had the same tokens.
Insert(st, tokens, fed) ==
    IF Len(tokens) < MinMatch THEN st
    ELSE Evict([entries |-> Append(WithoutKey(st.entries, tokens), [tokens |-> tokens, fed |-> fed]),
                recent  |-> Append(RemoveFirst(st.recent, tokens), tokens)])

Common(a, b) == Len(LongestCommonPrefix({a, b}))

\* MUTANT: an exact match is restored whole, and nothing is left to process.
UsableUncapped(e, tokens, window) ==
    LET common == Common(e.tokens, tokens)
    IN  IF Trimmable(Len(e.fed), window) \/ common = Len(e.tokens) THEN common ELSE 0

\* How much of a prompt an entry can save.  One token at least is left to process, and what
\* cannot be trimmed is restored whole or not at all.
Usable(e, tokens, window) ==
    LET common == Common(e.tokens, tokens)
        cap    == Len(tokens) - 1
    IN  IF Trimmable(Len(e.fed), window) THEN (IF common < cap THEN common ELSE cap)
        ELSE IF common = Len(e.tokens) /\ common <= cap THEN common
        ELSE 0

\* lookup(): the first of the entries that save most, or 0; the caller is given its place
\* and how much it saves, and it counts as used.
Best(st, tokens, window) ==
    LET usable(i) == Usable(st.entries[i], tokens, window)
        best(i)   == \A j \in DOMAIN st.entries :
                         usable(j) < usable(i) \/ (usable(j) = usable(i) /\ i <= j)
        found     == {i \in DOMAIN st.entries : usable(i) >= MinMatch /\ best(i)}
    IN  IF found = {} THEN [at |-> 0, n |-> 0]
        ELSE LET i == CHOOSE i \in found : TRUE IN [at |-> i, n |-> usable(i)]

Touched(st, hit) ==
    IF hit.at = 0 THEN st
    ELSE LET key == st.entries[hit.at].tokens
         IN  [st EXCEPT !.recent = Append(RemoveFirst(@, key), key)]

\* restore(): a copy of the state, cut back by what is too much of it.
Restored(st, hit) ==
    IF hit.at = 0 THEN <<>>
    ELSE LET e == st.entries[hit.at]
         IN  SubSeq(e.fed, 1, Len(e.fed) - (Len(e.tokens) - hit.n))
=============================================================================
