----------------------------- MODULE GlobMatch -----------------------------
(***************************************************************************)
(* src/sandbox/globmatch.c: patterns with the joker *.  Texts are          *)
(* sequences of one-character strings; capitals are "A" and "B".           *)
(***************************************************************************)
EXTENDS Integers, Sequences, SequencesExt, FiniteSetsExt

GLOB == "*"

TOLOWER(ch) == CASE ch = "A" -> "a" [] ch = "B" -> "b" [] OTHER -> ch

EQ(casefold, cha, chb) == IF casefold THEN TOLOWER(cha) = TOLOWER(chb) ELSE cha = chb

(* The places where a joker may end: where the character c after it is.    *)
Places(casefold, c, str, s) == {q \in s..Len(str) : EQ(casefold, c, str[q])}

(* The score of pat from i against str from j: 0, or 1 more than the       *)
(* characters matched literally.  M mentions "" as the terminator.         *)
match(pat, str, pathname, casefold) ==
  LET C(t, k) == IF k <= Len(t) THEN t[k] ELSE ""
      M[i \in 1..Len(pat) + 1, j \in 1..Len(str) + 1] ==
        LET globs == {k \in i..Len(pat) : pat[k] = GLOB}
            g == IF globs = {} THEN Len(pat) + 1 ELSE Min(globs)   \* end of the prefix
            r == 1 + g - i
            s == j + g - i                                         \* str after the prefix
            prefix == /\ s <= Len(str) + 1
                      /\ \A k \in 0..g - i - 1 : EQ(casefold, pat[i + k], str[j + k])
        IN CASE ~prefix -> 0
             [] prefix /\ globs = {} -> IF s = Len(str) + 1 THEN r ELSE 0
             [] prefix /\ g = Len(pat) ->
                  IF pathname /\ \E k \in s..Len(str) : str[k] = "/" THEN 0 ELSE r
             [] OTHER ->
                  LET c == pat[g + 1]
                      slash == {k \in s..Len(str) : str[k] = "/" /\ ~EQ(casefold, c, str[k])}
                      scores == {M[g + 2, k + 1] : k \in Places(casefold, c, str, s)}
                      best == Max({0} \cup scores)
                  IN IF (pathname /\ slash # {}) \/ best = 0 THEN 0 ELSE best + r
  IN M[1, 1]

globmatch(pat, str) == match(pat, str, FALSE, FALSE)
globmatchi(pat, str) == match(pat, str, FALSE, TRUE)
fnmatch(pattern, string, pathname, casefold) == ~(match(pattern, string, pathname, casefold) > 0)

-----------------------------------------------------------------------------
(* The jokers of a pattern: the character that follows one is literal,     *)
(* another * included.                                                     *)
Jokers(pat) ==
  LET IsJoker[i \in 0..Len(pat)] == i > 0 /\ pat[i] = GLOB /\ ~IsJoker[i - 1]
  IN {i \in DOMAIN pat : IsJoker[i]}

(* The reference: the literals of the pattern appear in the text in their  *)
(* order, next to each other unless a joker separates them.                *)
Matches(pat, str, casefold) ==
  LET lits == SetToSortSeq(DOMAIN pat \ Jokers(pat), <)
      n == Len(lits)
  IN \E pos \in [0..n + 1 -> 0..Len(str) + 1] :
       /\ pos[0] = 0 /\ pos[n + 1] = Len(str) + 1
       /\ \A k \in 1..n : pos[k] \in 1..Len(str) /\ EQ(casefold, pat[lits[k]], str[pos[k]])
       /\ \A k \in 0..n :
            LET from == IF k = 0 THEN 0 ELSE lits[k]
                to == IF k = n THEN Len(pat) + 1 ELSE lits[k + 1]
            IN IF to = from + 1 THEN pos[k + 1] = pos[k] + 1 ELSE pos[k + 1] > pos[k]

(* A pattern matches exactly the texts made of its literals with anything  *)
(* for the jokers, and its score is 1 more than its number of literals:    *)
(* of two patterns that match a text, the most precise scores best.        *)
ScoresLiterals(pat, str, casefold) ==
  match(pat, str, FALSE, casefold) =
    IF Matches(pat, str, casefold) THEN 1 + Len(pat) - Cardinality(Jokers(pat)) ELSE 0
=============================================================================
