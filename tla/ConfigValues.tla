---------------------------- MODULE ConfigValues ----------------------------
(***************************************************************************)
(* How src/src/config.rs reads one line of the configuration file: the     *)
(* comment is cut off, the rest is split at the first "=", and the value   *)
(* is read as a string, an integer or hexadecimal bytes.                   *)
(***************************************************************************)
EXTENDS Integers, Sequences, SequencesExt, FiniteSetsExt, Functions

CONSTANT Width \* bits of a u64

ASSUME WidthAssumption == Width \in Nat

\* The characters that have a meaning, by name.
Quote == "quote"
Backslash == "backslash"
Hash == "hash"
Equals == "equals"
Space == "space"
Underscore == "underscore"
Plus == "plus"
Colon == "colon"
Hyphen == "hyphen"

\* What char::to_digit knows of the others.
Digit == [c \in {"0", "1", "A", "f"} |->
            CASE c = "0" -> 0 [] c = "1" -> 1 [] c = "A" -> 10 [] c = "f" -> 15]

Special == {Quote, Backslash, Hash, Equals, Space, "x", Underscore, Plus, Colon, Hyphen}

(* Every function below that may fail returns the set of its result, or    *)
(* the empty set for an error.                                             *)

All(t, S) == \A i \in DOMAIN t : t[i] \in S

\* A filter of the characters of t, and what it has kept of the first i.
Kept(t, S) ==
  LET k[i \in 0..Len(t)] ==
        IF i = 0 THEN <<>>
        ELSE IF t[i] \in S THEN k[i - 1] ELSE Append(k[i - 1], t[i])
  IN k

Without(t, S) == Kept(t, S)[Len(t)]

Trim(t) ==
  LET kept == {i \in DOMAIN t : t[i] # Space}
  IN IF kept = {} THEN <<>> ELSE SubSeq(t, Min(kept), Max(kept))

MScanIgnoringQuotes(t) == [i \in 0..Len(t) |-> [quoted |-> FALSE, escaped |-> FALSE]]

\* strip_comment: in_quotes and escaped after the first i bytes.
Scanned(t) ==
  LET s[i \in 0..Len(t)] ==
        IF i = 0 THEN [quoted |-> FALSE, escaped |-> FALSE]
        ELSE LET b == s[i - 1] IN
             IF b.escaped THEN [b EXCEPT !.escaped = FALSE]
             ELSE IF t[i] = Backslash THEN [b EXCEPT !.escaped = b.quoted]
             ELSE IF t[i] = Quote THEN [b EXCEPT !.quoted = ~@]
             ELSE b
  IN s

StripComment(t) ==
  LET s == Scanned(t)
      hashes == {i \in DOMAIN t : t[i] = Hash /\ ~s[i - 1].escaped /\ ~s[i - 1].quoted}
  IN IF hashes = {} THEN t ELSE SubSeq(t, 1, Min(hashes) - 1)

\* One line in parse: blank, or its key and its value, or refused.
Blank(t) == Trim(StripComment(t)) = <<>>

Entry(t) ==
  LET l == Trim(StripComment(t))
      splits == {i \in DOMAIN l : l[i] = Equals}
  IN IF splits = {} THEN {}
     ELSE LET key == Trim(SubSeq(l, 1, Min(splits) - 1))
              value == Trim(SubSeq(l, Min(splits) + 1, Len(l)))
          IN IF key = <<>> \/ value = <<>> THEN {} ELSE {<<key, value>>}

ParseString(v) ==
  IF Len(v) >= 2 /\ v[1] = Quote /\ v[Len(v)] = Quote
       /\ \A i \in 2..(Len(v) - 1) : v[i] \notin {Quote, Backslash}
    THEN {SubSeq(v, 2, Len(v) - 1)}
    ELSE {}

\* from_str_radix and parse of the standard library, for an unsigned type of w
\* bits: a sign is allowed before the digits.
Number(digits, radix) ==
  LET n[i \in 0..Len(digits)] ==
        IF i = 0 THEN 0 ELSE radix * n[i - 1] + Digit[digits[i]]
  IN n[Len(digits)]

FromStrRadix(t, radix, w) ==
  LET digits == IF t # <<>> /\ t[1] = Plus THEN Tail(t) ELSE t
  IN IF digits # <<>>
          /\ All(digits, {c \in DOMAIN Digit : Digit[c] < radix})
          /\ Number(digits, radix) < 2^w
       THEN {Number(digits, radix)}
       ELSE {}

MCompactDecimal(v) ==
  IF IsPrefix(<<"0", "x">>, v) THEN v ELSE Without(v, {Underscore})

Compact(v) == Without(v, {Underscore})

Misplaced(v) ==
  \/ v # <<>> /\ (v[1] \in {Underscore, Plus} \/ v[Len(v)] = Underscore)
  \/ \E i \in 1..(Len(v) - 1) : v[i] = Underscore /\ v[i + 1] = Underscore
  \/ IsPrefix(<<"0", "x", Underscore>>, v)

ParseUsize(v) ==
  IF Misplaced(v) THEN {}
  ELSE LET c == Compact(v)
       IN IF IsPrefix(<<"0", "x">>, c)
            THEN FromStrRadix(SubSeq(c, 3, Len(c)), 16, Width)
            ELSE FromStrRadix(c, 10, Width)

Separators == {Space, Colon, Hyphen}

Nibbles(v) == Without(v, Separators)

MDecodeSwapped(v) ==
  LET c == Nibbles(v)
      byte == [i \in 1..(Len(c) \div 2) |->
                 FromStrRadix(<<c[2 * i], c[2 * i - 1]>>, 16, 8)]
  IN IF Len(c) % 2 = 0 /\ \A i \in DOMAIN byte : byte[i] # {}
       THEN {[i \in DOMAIN byte |-> CHOOSE b \in byte[i] : TRUE]}
       ELSE {}

DecodeHex(v) ==
  LET c == Nibbles(v)
      byte == [i \in 1..(Len(c) \div 2) |->
                 FromStrRadix(SubSeq(c, 2 * i - 1, 2 * i), 16, 8)]
  IN IF Len(c) % 2 = 0 /\ \A i \in DOMAIN byte : byte[i] # {}
       THEN {[i \in DOMAIN byte |-> CHOOSE b \in byte[i] : TRUE]}
       ELSE {}

-----------------------------------------------------------------------------
(* What a text says, apart from how it is read. *)

\* Where a line says <key> = "<string>", with a comment after it or not: the
\* places of the "=" and of the two quotes.
Written(t) ==
  {w \in (1..Len(t)) \X (1..Len(t)) \X (1..Len(t)) :
     LET e == w[1]  o == w[2]  c == w[3]
         rest == Trim(SubSeq(t, c + 1, Len(t)))
     IN /\ e < o /\ o < c
        /\ t[e] = Equals /\ t[o] = Quote /\ t[c] = Quote
        /\ \A i \in 1..(e - 1) : t[i] \notin Special \ {Space}
        /\ \A i \in (e + 1)..(o - 1) : t[i] = Space
        /\ \A i \in (o + 1)..(c - 1) : t[i] \notin {Quote, Backslash}
        /\ rest = <<>> \/ rest[1] = Hash}

\* Every "_" has a character on each side that is none, and is not the
\* first after a radix prefix.
Grouped(v) ==
  /\ \A i \in DOMAIN v : v[i] = Underscore =>
       i > 1 /\ i < Len(v) /\ v[i - 1] # Underscore /\ v[i + 1] # Underscore
  /\ Len(v) >= 3 => SubSeq(v, 1, 3) # <<"0", "x", Underscore>>

\* What the digits of t are worth, each by its weight: w[k] is of the last k
\* characters, with the weight of a digit before them.
Weighed(t, radix) ==
  LET w[k \in 0..Len(t)] ==
        IF k = 0 THEN [value |-> 0, weight |-> 1]
        ELSE LET c == t[Len(t) - k + 1] IN
             IF c = Underscore THEN w[k - 1]
             ELSE [value |-> w[k - 1].value + Digit[c] * w[k - 1].weight,
                   weight |-> radix * w[k - 1].weight]
  IN w[Len(t)].value

\* The integers that v writes: one or none.
Denoted(v) ==
  LET x == {i \in DOMAIN v : v[i] = "x"}
      before == 1..(Min(x) - 1)
      radix == IF x = {} THEN 10 ELSE 16
      digits == SubSeq(v, IF x = {} THEN 1 ELSE Min(x) + 1, Len(v))
      places == {i \in DOMAIN digits : digits[i] # Underscore}
  IN IF /\ Grouped(v)
        /\ x # {} => \E z \in before : v[z] = "0" /\ \A i \in before \ {z} : v[i] = Underscore
        /\ places # {}
        /\ \A i \in places : digits[i] \in DOMAIN Digit /\ Digit[digits[i]] < radix
        /\ Weighed(digits, radix) < 2^Width
       THEN {Weighed(digits, radix)}
       ELSE {}
=============================================================================
