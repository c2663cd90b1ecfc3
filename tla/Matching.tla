------------------------------- MODULE Matching -------------------------------
(***************************************************************************)
(* How routers/scan.py finds a wine that is already in the collection from *)
(* what was read of its label.  A name is the set of its words, a word a   *)
(* sequence of letters; case and accents, which _fold removes, are left    *)
(* out.  A maker is the set of its words.                                  *)
(***************************************************************************)
EXTENDS Integers, Sequences, FiniteSets, SequencesExt

CONSTANTS
  Weak,       \* _WEAK_TOKENS
  Recent,     \* 200: so many of the newest wines are compared
  MaxMatches  \* 5

ASSUME MatchingAssumption == Recent \in Nat \ {0} /\ MaxMatches \in Nat \ {0}

Singular(w) == IF Len(w) > 4 /\ Last(w) = "s" THEN Front(w) ELSE w

\* _significant_tokens
Tokens(name) == {Singular(w) : w \in {v \in name \ Weak : Len(v) >= 3}}

Least(S) == CHOOSE x \in S : \A y \in S : x <= y

\* Variant of NextRow: a row starts with zero, as if letters were free in front.
NextRowFree(prev, letter, b) ==
  LET cur[j \in 0..Len(b)] ==
        IF j = 0 THEN 0
        ELSE Least({prev[j] + 1, cur[j - 1] + 1, prev[j - 1] + (IF letter = b[j] THEN 0 ELSE 1)})
  IN [j \in 0..Len(b) |-> cur[j]]

\* One row of _lev's table: distances from a longer beginning to all beginnings of b.
NextRow(prev, letter, b) ==
  LET cur[j \in 0..Len(b)] ==
        IF j = 0 THEN prev[0] + 1
        ELSE Least({prev[j] + 1, cur[j - 1] + 1, prev[j - 1] + (IF letter = b[j] THEN 0 ELSE 1)})
  IN [j \in 0..Len(b) |-> cur[j]]

Lev(a, b) ==
  LET row[i \in 0..Len(a)] ==
        IF i = 0 THEN [j \in 0..Len(b) |-> j] ELSE NextRow(row[i - 1], a[i], b)
  IN row[Len(a)][Len(b)]

\* Variant of TokensMatch: a word is compared as it is.
TokensMatchExact(a, b) == a = b

\* _tokens_match: one edit in a short word, two in a longer one.
TokensMatch(a, b) ==
  LET n == IF Len(a) > Len(b) THEN Len(a) ELSE Len(b) IN
  a = b \/ (n >= 4 /\ Lev(a, b) <= (IF n <= 6 THEN 1 ELSE 2))

Unit == 90  \* a similarity of 1; the maker's 0.9 is 81

\* _name_similarity: its argument a is the stored name.
Similarity(a, b) ==
  LET ta == Tokens(a)
      tb == Tokens(b)
      matched == {t \in ta : \E u \in tb : TokensMatch(u, t)} IN
  IF ta = {} \/ tb = {} THEN 0
  ELSE (Cardinality(matched) * Unit) \div Least({Cardinality(ta), Cardinality(tb)})

\* What _lookup_existing gives a wine: for its name and maker, or its maker alone.
Score(wine, name, maker) ==
  LET likely == maker # {} /\ maker \subseteq wine.maker
      s == Similarity(wine.name, name) IN
  IF name = {} THEN (IF likely THEN Unit ELSE 0) ELSE IF likely /\ s < 81 THEN 81 ELSE s

\* The matches among the wines of the collection, which is in the order of creation:
\* the best ones, of equals the newest.
Lookup(cellar, name, maker) ==
  LET N == Len(cellar)
      compared == IF name # {} THEN {i \in 1..N : i > N - Recent} ELSE 1..N
      scored == {<<Score(cellar[i], name, maker), i>> : i \in compared}
      found == {p \in scored : 2 * p[1] >= Unit}
      before(p, q) == p[1] > q[1] \/ (p[1] = q[1] /\ p[2] > q[2]) IN
  {p[2] : p \in {q \in found : Cardinality({o \in found : before(o, q)}) < MaxMatches}}
=============================================================================
