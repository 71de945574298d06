-------------------------- MODULE MatrixExpansion --------------------------
(***************************************************************************)
(* ExpandMatrix (internal/eval/matrix.go): the combinations of a matrix    *)
(* step, in an order that a replay of the workflow finds again.            *)
(*                                                                         *)
(* Keys are numbers, in the order of the sorted strings; a combination,    *)
(* like a pattern of exclude, is a function from keys to values, which are *)
(* not empty strings.  The recursion of cartesian is a machine that takes  *)
(* the keys from the last, and appends one combination per step.           *)
(***************************************************************************)
EXTENDS Naturals, SequencesExt

CONSTANTS
  LastKey,     \* keys are numbers up to LastKey
  Values,
  MatrixCases  \* [dims, exclude, include]

Pattern == UNION {[S -> Values] : S \in SUBSET (1..LastKey)}

IsMatrix(m) ==
  /\ DOMAIN m.dims \subseteq 1..LastKey
  /\ \A k \in DOMAIN m.dims : m.dims[k] \in Seq(Values)
  /\ m.exclude \subseteq Pattern /\ m.include \in Seq(Pattern)

ASSUME MatrixOK == LastKey \in Nat /\ \A m \in MatrixCases : IsMatrix(m)

VARIABLES
  ask,     \* what is asked for
  stage,
  left,    \* keys that cartesian has not come back to
  rest,    \* the combinations of the others
  value,   \* where the loops of cartesian are
  place,
  result,  \* what they have appended
  combos   \* filtered

matrix == <<ask, stage, left, rest, value, place, result, combos>>

Keys == DOMAIN ask.dims

MatrixStart ==
  /\ stage = "check"
  /\ left = Keys
  /\ rest = <<[k \in {} |-> 0]>>
  /\ value = 1 /\ place = 1
  /\ result = <<>> /\ combos = <<>>

MatrixInit == ask \in MatrixCases /\ MatrixStart

\* Without a dimension, or with an empty one, there is nothing: include, too, is
\* left aside.
Nothing == Keys = {} \/ \E k \in Keys : ask.dims[k] = <<>>

Check ==
  /\ stage = "check"
  /\ stage' = IF Nothing THEN "over" ELSE "product"
  /\ UNCHANGED <<ask, left, rest, value, place, result, combos>>

----------------------------------------------------------------------------
(* cartesian *)

Key == CHOOSE k \in left : \A l \in left : l <= k

Chosen == ask.dims[Key]

With(combo) ==
  [k \in DOMAIN combo \cup {Key} |-> IF k = Key THEN Chosen[value] ELSE combo[k]]

AppendCombo ==
  /\ stage = "product" /\ left # {}
  /\ value <= Len(Chosen) /\ place <= Len(rest)
  /\ result' = Append(result, With(rest[place]))
  /\ place' = place + 1
  /\ UNCHANGED <<ask, stage, left, rest, value, combos>>

NextValue ==
  /\ stage = "product" /\ left # {}
  /\ value <= Len(Chosen) /\ place > Len(rest)
  /\ value' = value + 1 /\ place' = 1
  /\ UNCHANGED <<ask, stage, left, rest, result, combos>>

KeyDone ==
  /\ stage = "product" /\ left # {}
  /\ value > Len(Chosen)
  /\ left' = left \ {Key}
  /\ rest' = result /\ result' = <<>>
  /\ value' = 1
  /\ UNCHANGED <<ask, stage, place, combos>>

ProductDone ==
  /\ stage = "product" /\ left = {}
  /\ stage' = "filter"
  /\ UNCHANGED <<ask, left, rest, value, place, result, combos>>

----------------------------------------------------------------------------
(* exclude and include *)

\* Mutant: one key that agrees is enough.
MatchesSome(combo, pattern) ==
  \E k \in DOMAIN pattern : k \in DOMAIN combo /\ combo[k] = pattern[k]

MatchesAll(combo, pattern) ==
  \A k \in DOMAIN pattern : k \in DOMAIN combo /\ combo[k] = pattern[k]

MatchesAny(combo) == \E pattern \in ask.exclude : MatchesAll(combo, pattern)

Filter ==
  /\ stage = "filter" /\ place <= Len(rest)
  /\ combos' = IF MatchesAny(rest[place]) THEN combos ELSE Append(combos, rest[place])
  /\ place' = place + 1
  /\ UNCHANGED <<ask, stage, left, rest, value, result>>

Include ==
  /\ stage = "filter" /\ place > Len(rest)
  /\ combos' = combos \o ask.include
  /\ stage' = "over"
  /\ UNCHANGED <<ask, left, rest, value, place, result>>

MatrixNext ==
  \/ Check
  \/ AppendCombo \/ NextValue \/ KeyDone \/ ProductDone
  \/ Filter \/ Include

MatrixSpec == MatrixInit /\ [][MatrixNext]_matrix

----------------------------------------------------------------------------
\* Every variable keeps its shape: the combinations that cartesian works on have
\* a value for each key it has come back to.
MatrixTypeOK ==
  /\ IsMatrix(ask)
  /\ stage \in {"check", "product", "filter", "over"}
  /\ left \subseteq Keys
  /\ rest \in Seq([Keys \ left -> Values])
  /\ value \in Nat \ {0} /\ place \in Nat \ {0}
  /\ left # {} => result \in Seq([(Keys \ left) \cup {Key} -> Values])
  /\ left = {} => result = <<>>
  /\ stage # "over" => combos \in Seq([Keys -> Values])

\* The combinations of the keys in K.
Product(K) == {c \in [K -> Values] : \A k \in K : c[k] \in ToSet(ask.dims[k])}

Excluded(c) ==
  \E x \in ask.exclude : \A k \in DOMAIN x : <<k, x[k]>> \in {<<l, c[l]>> : l \in DOMAIN c}

Place(s, v) == CHOOSE i \in DOMAIN s : s[i] = v

\* c comes before d: at the first key of K on which they differ.
Before(K, c, d) ==
  \E k \in K :
    /\ Place(ask.dims[k], c[k]) < Place(ask.dims[k], d[k])
    /\ \A l \in K : l < k => c[l] = d[l]

InOrder(K, list) == \A i, j \in DOMAIN list : i < j => Before(K, list[i], list[j])

Distinct == \A k \in Keys : \A i, j \in DOMAIN ask.dims[k] : ask.dims[k][i] = ask.dims[k][j] => i = j

\* The combinations of a matrix are those of the product that no pattern of
\* exclude is part of, and then the included ones; when the values of a key
\* differ, each comes once, in the order of the sorted keys and of their values.
CombinationsExact ==
  stage = "over" =>
    IF Nothing THEN combos = <<>>
    ELSE \E n \in 0..Len(combos) :
           LET listed == SubSeq(combos, 1, n) IN
           /\ ToSet(listed) = {c \in Product(Keys) : ~Excluded(c)}
           /\ Distinct => InOrder(Keys, listed)
           /\ SubSeq(combos, n + 1, Len(combos)) = ask.include

\* Not met: no combination comes twice; an included one may.
CombinationsDiffer ==
  stage = "over" /\ Distinct => IsInjective(combos)
=============================================================================
