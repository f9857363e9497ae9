------------------------- MODULE ConfigurationProofs -------------------------
(***************************************************************************)
(* What a configuration that is let through owes to the file it was read   *)
(* from, for every file, every size of it and every edit; and what is read *)
(* from a line, an integer or a signature, for texts of any length.        *)
(***************************************************************************)
EXTENDS InputsProofs, Recursion

-----------------------------------------------------------------------------
(* The loop of parse *)

\* The values that the lines of S or the defaults give to a field.
Given(S) == {Default[k] : k \in Keys} \cup UNION {l.value : l \in S}

\* What was read: configurations, each with the keys that were seen.
Progress(S) == SUBSET [config : [Keys -> Given(S)], seen : SUBSET Keys]

(* Before the first line there is Config::default.                         *)
LEMMA DefaultGiven ==
  ASSUME NEW S
  PROVE  {[config |-> Default, seen |-> {}]} \in Progress(S)
<1>1. Default = [k \in Keys |-> Default[k]]
  BY DEF Keys, Default
<1>2. Default \in [Keys -> Given(S)]
  BY <1>1 DEF Given
<1> QED
  BY <1>2 DEF Progress

(* One line leaves configurations and keys.                                *)
LEMMA ReadLineTyped ==
  ASSUME NEW S, NEW read \in Progress(S), NEW l \in S
  PROVE  ReadLine(read, l) \in Progress(S)
<1>1. CASE l = Comment
  BY <1>1 DEF ReadLine
<1>2. CASE l # Comment
  <2> SUFFICES ASSUME NEW r \in read, l.key \in Keys \ r.seen,
                      NEW v \in l.value
               PROVE  [config |-> [r.config EXCEPT ![l.key] = v], seen |-> r.seen \cup {l.key}]
                        \in [config : [Keys -> Given(S)], seen : SUBSET Keys]
    BY <1>2 DEF ReadLine, Progress
  <2>1. r.config \in [Keys -> Given(S)] /\ r.seen \subseteq Keys
    BY DEF Progress
  <2>2. v \in Given(S)
    BY DEF Given
  <2> QED
    BY <2>1, <2>2
<1> QED
  BY <1>1, <1>2

(* Read starts with the defaults and reads line by line.                   *)
LEMMA ReadIs ==
  ASSUME NEW S, NEW f \in Seq(S)
  PROVE  /\ Read(f)[0] = {[config |-> Default, seen |-> {}]}
         /\ \A i \in 1..Len(f) : Read(f)[i] = ReadLine(Read(f)[i - 1], f[i])
         /\ \A i \in 0..Len(f) : Read(f)[i] \in Progress(S)
<1> DEFINE base == {[config |-> Default, seen |-> {}]}
           step == [i \in 1..Len(f) |-> [x \in Progress(S) |-> ReadLine(x, f[i])]]
           Is(g) == g = [i \in 0..Len(f) |-> IF i = 0 THEN base ELSE ReadLine(g[i - 1], f[i])]
<1>1. base \in Progress(S)
  BY DefaultGiven
<1>2. \A i \in 1..Len(f) : \A x \in Progress(S) : ReadLine(x, f[i]) \in Progress(S)
  <2>1. \A i \in 1..Len(f) : f[i] \in S
    OBVIOUS
  <2> QED
    BY <2>1, ReadLineTyped
<1> HIDE DEF base
<1>3. step \in Steps(Len(f), Progress(S))
  BY <1>2 DEF Steps
<1>4. \A i \in 1..Len(f) : \A x \in Progress(S) : step[i][x] = ReadLine(x, f[i])
  OBVIOUS
<1> HIDE DEF step
<1>0. Len(f) \in Nat
  OBVIOUS
<1>5. PICK g \in [0..Len(f) -> Progress(S)] : Follows(g, Len(f), base, step)
  BY ONLY <1>0, <1>1, <1>3, Recurrence
<1>6. \A i \in 1..Len(f) : g[i] = ReadLine(g[i - 1], f[i])
  <2>1. \A i \in 1..Len(f) : g[i - 1] \in Progress(S)
    OBVIOUS
  <2> QED
    BY <1>4, <1>5, <2>1 DEF Follows
<1>7. Is(g)
  BY <1>5, <1>6 DEF Follows
<1>8. Is(Read(f))
  BY <1>7 DEF Read, base
<1> HIDE DEF Is
<1>9. Read(f)[0] = base /\ \A i \in 1..Len(f) : Read(f)[i] = ReadLine(Read(f)[i - 1], f[i])
  BY <1>8 DEF Is
<1>10. Read(f)[0] \in Progress(S)
  BY <1>1, <1>9
<1>11. \A i \in 1..Len(f) : Read(f)[i - 1] \in Progress(S) => Read(f)[i] \in Progress(S)
  BY <1>2, <1>9
<1>12. \A i \in 0..Len(f) : Read(f)[i] \in Progress(S)
  <2>1. Len(f) \in Nat
    OBVIOUS
  <2> DEFINE n == Len(f)  g2 == Read(f)
  <2>2. n \in Nat /\ g2[0] \in Progress(S) /\ \A i \in 1..n : g2[i - 1] \in Progress(S) => g2[i] \in Progress(S)
    BY <1>10, <1>11
  <2> HIDE DEF n, g2
  <2>3. \A i \in 0..n : g2[i] \in Progress(S)
    BY <2>2, Values
  <2> QED
    BY <2>3 DEF n, g2
<1> QED
  BY <1>9, <1>12 DEF base

\* What was read of the first i lines of f says what they say, and no more.
Says(r, f, i) ==
  /\ \A j \in 1..i : f[j] # Comment => f[j].key \in r.seen /\ f[j].value = {r.config[f[j].key]}
  /\ \A k \in Keys \ r.seen : r.config[k] = Default[k]
  /\ \A k \in r.seen : \E j \in 1..i : f[j] # Comment /\ f[j].key = k

(* A line adds what it says to what was read: a key that was seen before   *)
(* is refused, so that nothing read earlier is overwritten.                *)
LEMMA LineSays ==
  ASSUME NEW S, \A l \in S : IsLine(l), NEW f \in Seq(S), NEW i \in 1..Len(f),
         NEW read \in Progress(S), \A r \in read : Says(r, f, i - 1),
         NEW s \in ReadLine(read, f[i])
  PROVE  Says(s, f, i)
<1>1. CASE f[i] = Comment
  <2>1. s \in read /\ Says(s, f, i - 1)
    BY <1>1 DEF ReadLine
  <2> QED
    BY <1>1, <2>1 DEF Says
<1>2. CASE f[i] # Comment
  <2> DEFINE key == f[i].key
  <2>1. PICK r \in read, v \in f[i].value :
          /\ key \in Keys \ r.seen
          /\ s = [config |-> [r.config EXCEPT ![key] = v], seen |-> r.seen \cup {key}]
    BY <1>2 DEF ReadLine
  <2>2. r.config = [k \in Keys |-> r.config[k]] /\ r.seen \subseteq Keys
    BY DEF Progress
  <2>3. f[i].value = {v}
    BY DEF IsLine
  <2>4. Says(r, f, i - 1)
    OBVIOUS
  <2>5. s.seen = r.seen \cup {key} /\ s.config = [r.config EXCEPT ![key] = v]
    BY <2>1
  <2>6. s.config[key] = v /\ \A k \in Keys \ {key} : s.config[k] = r.config[k]
    BY <2>1, <2>2, <2>5
  <2>7. ASSUME NEW j \in 1..i, f[j] # Comment
        PROVE  f[j].key \in s.seen /\ f[j].value = {s.config[f[j].key]}
    <3>1. CASE j = i
      BY <2>3, <2>5, <2>6, <3>1
    <3>2. CASE j # i
      <4>1. j \in 1..(i - 1)
        BY <3>2
      <4>2. f[j].key \in r.seen /\ f[j].value = {r.config[f[j].key]}
        BY <2>4, <2>7, <4>1 DEF Says
      <4>3. f[j].key \in Keys \ {key}
        BY <2>1, <2>2, <4>2
      <4> QED
        BY <2>5, <2>6, <4>2, <4>3
    <3> QED
      BY <3>1, <3>2
  <2>8. \A k \in Keys \ s.seen : s.config[k] = Default[k]
    BY <2>4, <2>5, <2>6 DEF Says
  <2>9. ASSUME NEW k \in s.seen PROVE \E j \in 1..i : f[j] # Comment /\ f[j].key = k
    <3>1. CASE k = key
      BY <1>2, <3>1
    <3>2. CASE k \in r.seen
      <4>1. PICK j \in 1..(i - 1) : f[j] # Comment /\ f[j].key = k
        BY <2>4, <3>2 DEF Says
      <4>2. j \in 1..i
        OBVIOUS
      <4> QED
        BY <4>1, <4>2
    <3> QED
      BY <2>5, <3>1, <3>2
  <2> HIDE DEF key
  <2> QED
    BY <2>7, <2>8, <2>9 DEF Says
<1> QED
  BY <1>1, <1>2

(* What was read of a file says what its lines say.                        *)
LEMMA ReadSays ==
  ASSUME NEW S, \A l \in S : IsLine(l), NEW f \in Seq(S),
         NEW i \in 0..Len(f), NEW r \in Read(f)[i]
  PROVE  Says(r, f, i)
<1> DEFINE n == Len(f)
           T == {k \in 0..n : \A s \in Read(f)[k] : Says(s, f, k)}
<1>1. n \in Nat
  OBVIOUS
<1>2. 0 \in T
  BY ReadIs DEF Says
<1>3. ASSUME NEW k \in 1..n, k - 1 \in T PROVE k \in T
  <2>1. Read(f)[k] = ReadLine(Read(f)[k - 1], f[k])
    BY ReadIs
  <2>2. Read(f)[k - 1] \in Progress(S)
    <3>1. k - 1 \in 0..Len(f)
      OBVIOUS
    <3> QED
      BY <3>1, ReadIs
  <2>3. \A s \in Read(f)[k - 1] : Says(s, f, k - 1)
    BY <1>3
  <2>4. \A s \in Read(f)[k] : Says(s, f, k)
    BY <2>1, <2>2, <2>3, LineSays
  <2> QED
    BY <2>4
<1> HIDE DEF n, T
<1>4. \A k \in 0..n : k \in T
  BY <1>1, <1>2, <1>3, Induction
<1> QED
  BY <1>4 DEF n, T

(* What is loaded was read from the whole file.                            *)
LEMMA LoadIs ==
  ASSUME NEW S, NEW f \in Seq(S), NEW c \in Load(f)
  PROVE  \E r \in Read(f)[Len(f)] : c = r.config
<1> DEFINE n == Min({Len(f), MaxConfigBytes + 1})
<1>1. Len(f) \in Nat /\ MaxConfigBytes \in Nat
  BY ConfigurationAssumption
<1>2. n \in {Len(f), MaxConfigBytes + 1} /\ n =< Len(f) /\ n =< MaxConfigBytes + 1
  <2>1. CASE Len(f) =< MaxConfigBytes + 1
    BY <1>1, <2>1 DEF Min
  <2>2. CASE ~(Len(f) =< MaxConfigBytes + 1)
    BY <1>1, <2>2 DEF Min
  <2> QED
    BY <2>1, <2>2
<1> HIDE DEF n
<1>3. Held(f) = SubSeq(f, 1, n)
  BY DEF Held, n
<1>4. Len(Held(f)) = n
  BY <1>1, <1>2, <1>3, SubSeqProperties
<1>5. Len(Held(f)) =< MaxConfigBytes /\ \E r \in Read(Held(f))[Len(Held(f))] : c = r.config
  BY DEF Load, Parse
<1>6. n = Len(f)
  BY <1>1, <1>2, <1>4, <1>5
<1>7. Held(f) = f
  BY <1>3, <1>6, SubSeqFull
<1> QED
  BY <1>5, <1>7

-----------------------------------------------------------------------------
(* What is let through *)

(* What validate_config demands differs from the default of every field    *)
(* that takes consent, and a switch that is on from its default.           *)
LEMMA ConsentGiven ==
  ASSUME NEW c, NEW live, Validated(c, live), NEW k \in Consent \cup {i \in Optional : c[i]}
  PROVE  k \in Keys /\ c[k] # Default[k]
<1>1. k \in Keys
  BY DEF Consent, Optional, Keys, Default
<1>2. CASE k \in {"enabled", "evidence_reviewed", "offline_test_acknowledged"}
  <2>1. c["enabled"] /\ c["evidence_reviewed"] /\ c["offline_test_acknowledged"]
    BY DEF Validated
  <2>2. /\ Default["enabled"] = FALSE /\ Default["evidence_reviewed"] = FALSE
        /\ Default["offline_test_acknowledged"] = FALSE
    BY DEF Default
  <2> QED
    BY <1>1, <1>2, <2>1, <2>2
<1>3. CASE k \in {"mode", "reviewed_abi", "reviewed_buffer_len"}
  <2>1. /\ c["mode"] # "disabled" /\ c["reviewed_abi"] = "void_u8_ptr_v1"
        /\ c["reviewed_buffer_len"] = 105
    BY Zenon DEF Validated, CompactBufferLen, Abi
  <2>2. /\ Default["mode"] = "disabled" /\ Default["reviewed_abi"] = ""
        /\ Default["reviewed_buffer_len"] = 0
    BY DEF Default
  <2>3. /\ c["mode"] # Default["mode"] /\ c["reviewed_abi"] # Default["reviewed_abi"]
        /\ c["reviewed_buffer_len"] # Default["reviewed_buffer_len"]
    <3>1. "void_u8_ptr_v1" # "" /\ 105 # 0
      OBVIOUS
    <3> QED
      BY <2>1, <2>2, <3>1, Zenon
  <2> QED
    BY <1>1, <1>3, <2>3, Zenon
<1>4. CASE k = "capture_offsets"
  <2>1. Len(c["capture_offsets"]) \in 1..46
    BY Zenon DEF Validated
  <2>2. Default["capture_offsets"] = <<>>
    BY DEF Default
  <2>3. Len(<<>>) = 0 /\ 0 \notin 1..46
    BY EmptySeq
  <2> QED
    BY <1>1, <1>4, <2>1, <2>2, <2>3, Zenon
<1>5. CASE k \in {"serializer_text_offset", "expected_prologue", "caller_text_offset",
                 "expected_callsite"}
  <2>1. /\ Sound(c["serializer_text_offset"], c["expected_prologue"])
        /\ Sound(c["caller_text_offset"], c["expected_callsite"])
    BY Zenon DEF Validated
  <2>2. /\ c["serializer_text_offset"] # 0 /\ c["expected_prologue"] \in 16..64
        /\ c["caller_text_offset"] # 0 /\ c["expected_callsite"] \in 16..64
    BY <2>1, Zenon DEF Sound
  <2>3. /\ Default["serializer_text_offset"] = 0 /\ Default["expected_prologue"] = 0
        /\ Default["caller_text_offset"] = 0 /\ Default["expected_callsite"] = 0
    BY DEF Default
  <2>4. 0 \notin 16..64
    OBVIOUS
  <2> QED
    BY <1>1, <1>5, <2>2, <2>3, <2>4, Zenon
<1>6. CASE k \in {i \in Optional : c[i]}
  <2>1. k \in Optional /\ c[k]
    BY <1>6
  <2>2. /\ Default["poll_global_team_attack"] = FALSE /\ Default["observe_rule_codec"] = FALSE
        /\ Default["observe_rule_application"] = FALSE
    BY DEF Default
  <2>3. Default[k] = FALSE
    BY <2>1, <2>2 DEF Optional
  <2> QED
    BY <1>1, <2>1, <2>3
<1> QED
  BY <1>1, <1>2, <1>3, <1>4, <1>5, <1>6 DEF Consent

(* A configuration that is let through has what the lines say, and the     *)
(* lines say what nobody but the user can give.                            *)
LEMMA LetThroughAsWritten ==
  ASSUME NEW S, \A l \in S : IsLine(l), NEW f \in Seq(S), NEW c \in Admitted(f)
  PROVE  LET lines == Range(f) \ {Comment}
             written == {l.key : l \in lines}
         IN /\ written \subseteq Keys
            /\ \A l \in lines : l.value = {c[l.key]}
            /\ Consent \cup {k \in Optional : c[k]} \subseteq written
<1> DEFINE lines == Range(f) \ {Comment}
           written == {l.key : l \in lines}
<1>1. c \in Load(f) /\ Validated(c, Version)
  BY DEF Admitted
<1>2. PICK r \in Read(f)[Len(f)] : c = r.config
  BY <1>1, LoadIs
<1>3. Len(f) \in 0..Len(f) /\ DOMAIN f = 1..Len(f)
  OBVIOUS
<1>4. r.seen \subseteq Keys
  <2>1. Read(f)[Len(f)] \in Progress(S)
    BY <1>3, ReadIs
  <2> QED
    BY <1>2, <2>1 DEF Progress
<1>5. Says(r, f, Len(f))
  BY <1>2, <1>3, ReadSays
<1>6. ASSUME NEW l \in lines PROVE l.key \in Keys /\ l.value = {c[l.key]}
  <2>1. PICK j \in 1..Len(f) : l = f[j] /\ l # Comment
    BY <1>3 DEF Range
  <2> QED
    BY <1>2, <1>4, <1>5, <2>1 DEF Says
<1>7. ASSUME NEW k \in Consent \cup {i \in Optional : c[i]} PROVE k \in written
  <2>1. k \in Keys /\ c[k] # Default[k]
    BY <1>1, ConsentGiven
  <2>2. k \in r.seen
    BY <1>2, <1>5, <2>1 DEF Says
  <2>3. PICK j \in 1..Len(f) : f[j] # Comment /\ f[j].key = k
    BY <1>5, <2>2 DEF Says
  <2>4. f[j] \in lines
    BY <1>3, <2>3 DEF Range
  <2> QED
    BY <2>3, <2>4
<1> QED
  BY <1>6, <1>7

(* A configuration that is let through has offsets of a usize, and a       *)
(* sequence of offsets to capture.                                         *)
LEMMA LetThroughUsable ==
  ASSUME NEW S, \A l \in S : IsLine(l), NEW f \in Seq(S), NEW c \in Admitted(f)
  PROVE  Usable(c)
<1> DEFINE lines == Range(f) \ {Comment}
           written == {l.key : l \in lines}
<1>1. /\ \A l \in lines : l.value = {c[l.key]}
      /\ Consent \subseteq written
  BY LetThroughAsWritten
<1>2. ASSUME NEW k \in Consent PROVE c[k] \in Field(k)
  <2>1. PICK l \in lines : l.key = k
    BY <1>1
  <2>2. IsLine(l)
    BY DEF Range
  <2>3. k \in Keys
    BY DEF Consent, Keys, Default
  <2> QED
    BY <1>1, <2>1, <2>2, <2>3 DEF IsLine
<1>3. c["serializer_text_offset"] \in 0..(OffsetSpan - 1)
  <2>1. Field("serializer_text_offset") = 0..(OffsetSpan - 1)
    BY Zenon DEF Field
  <2> QED
    BY <1>2, <2>1 DEF Consent
<1>4. c["caller_text_offset"] \in 0..(OffsetSpan - 1)
  <2>1. Field("caller_text_offset") = 0..(OffsetSpan - 1)
    BY Zenon DEF Field
  <2> QED
    BY <1>2, <2>1 DEF Consent
<1>5. c["capture_offsets"] \in Seq(Nat)
  <2>1. Field("capture_offsets") = Seq(0..255)
    BY Zenon DEF Field
  <2>2. c["capture_offsets"] \in Seq(0..255)
    BY <1>2, <2>1 DEF Consent
  <2>3. Seq(0..255) \subseteq Seq(Nat)
    <3>1. 0..255 \subseteq Nat
      OBVIOUS
    <3> QED
      BY <3>1, SeqMonotonic
  <2> QED
    BY <2>2, <2>3, Zenon
<1>6. Validated(c, Version)
  BY DEF Admitted
<1> QED
  BY <1>3, <1>4, <1>5, <1>6, ValidatedUsable

-----------------------------------------------------------------------------
(* Every file *)

\* A file is made of lines, whatever was edited in it.
FileInputs ==
  kind = "file" => \E S : (\A l \in S : IsLine(l)) /\ input.file \in Seq(S)

(* Every edit of a file of lines leaves a file of lines.                   *)
LEMMA EditedLines ==
  ASSUME NEW S, \A l \in S : IsLine(l), NEW f \in Seq(S),
         Omit \/ Rewrite \/ Add \/ Misspell \/ Annotate, input.file = f
  PROVE  \E T : (\A l \in T : IsLine(l)) /\ input'.file \in Seq(T)
<1>1. ASSUME NEW l, IsLine(l), input'.file \in Seq(S \cup {l})
      PROVE  \E T : (\A m \in T : IsLine(m)) /\ input'.file \in Seq(T)
  BY <1>1
<1>2. IsLine(Comment)
  BY DEF IsLine, Comment, Keys, Default
<1>3. \A g : Edit(g) => input'.file = g
  BY DEF Edit
<1>4. \A l : f \in Seq(S \cup {l})
  <2>1. \A l : Seq(S) \subseteq Seq(S \cup {l})
    BY SeqMonotonic
  <2> QED
    BY <2>1
<1>5. CASE Omit
  <2>1. PICK i \in DOMAIN f : input'.file = RemoveAt(f, i)
    BY <1>3, <1>5 DEF Omit
  <2>2. i \in 1..Len(f)
    OBVIOUS
  <2>3. SubSeq(f, 1, i - 1) \in Seq(S) /\ SubSeq(f, i + 1, Len(f)) \in Seq(S)
    BY <2>2
  <2>4. RemoveAt(f, i) \in Seq(S)
    BY <2>3 DEF RemoveAt
  <2> QED
    BY <2>1, <2>4
<1>6. CASE Rewrite
  <2>0. PICK i \in Settings(f) : \E v \in Writings[f[i].key] \cup {{}} :
          input'.file = [f EXCEPT ![i].value = v]
    BY <1>3, <1>6 DEF Rewrite
  <2>1. PICK v \in Writings[f[i].key] \cup {{}} : input'.file = [f EXCEPT ![i].value = v]
    BY <2>0
  <2> DEFINE l == [key |-> f[i].key, value |-> v]
  <2>2. i \in DOMAIN f /\ f[i].key \in Keys
    BY DEF Settings
  <2>3. IsLine(l)
    <3>1. CASE v \in Writings[f[i].key]
      BY <2>2, <3>1, InputsAssumption
    <3>2. CASE v = {}
      BY <3>2 DEF IsLine
    <3> QED
      BY <3>1, <3>2
  <2>4. f[i] = [key |-> f[i].key, value |-> f[i].value]
    BY <2>2 DEF IsLine
  <2>5. [f EXCEPT ![i].value = v] = [f EXCEPT ![i] = l]
    <3>1. [f[i] EXCEPT !.value = v] = l
      BY <2>4
    <3>2. [f EXCEPT ![i].value = v] = [f EXCEPT ![i] = [f[i] EXCEPT !.value = v]]
      OBVIOUS
    <3> QED
      BY <3>1, <3>2
  <2>6. [f EXCEPT ![i] = l] \in Seq(S \cup {l})
    BY <1>4, <2>2
  <2> HIDE DEF l
  <2> QED
    BY <1>1, <2>1, <2>3, <2>5, <2>6
<1>7. CASE Add
  <2>0. PICK k \in Keys : \E v \in Writings[k] :
          input'.file = Append(f, [key |-> k, value |-> v])
    BY <1>3, <1>7 DEF Add
  <2>1. PICK v \in Writings[k] : input'.file = Append(f, [key |-> k, value |-> v])
    BY <2>0
  <2> DEFINE l == [key |-> k, value |-> v]
  <2>2. IsLine(l)
    BY InputsAssumption
  <2> HIDE DEF l
  <2>3. Append(f, l) \in Seq(S \cup {l})
    BY <1>4
  <2> QED
    BY <1>1, <2>1, <2>2, <2>3 DEF l
<1>8. CASE Misspell
  <2> DEFINE l == [key |-> "unknown", value |-> {}]
  <2>1. PICK i \in Settings(f) : input'.file = [f EXCEPT ![i] = l]
    BY <1>3, <1>8 DEF Misspell
  <2>2. IsLine(l)
    BY DEF IsLine
  <2> HIDE DEF l
  <2>3. [f EXCEPT ![i] = l] \in Seq(S \cup {l})
    BY <1>4 DEF Settings
  <2> QED
    BY <1>1, <2>1, <2>2, <2>3
<1>9. CASE Annotate
  <2>1. input'.file = <<Comment>> \o f
    BY <1>3, <1>9 DEF Annotate
  <2> DEFINE l == Comment
  <2>2. <<l>> \in Seq(S \cup {l})
    OBVIOUS
  <2>3. <<l>> \o f \in Seq(S \cup {l})
    BY <1>4, <2>2
  <2> QED
    BY <1>1, <1>2, <2>1, <2>3
<1> QED
  BY <1>5, <1>6, <1>7, <1>8, <1>9

(* A file is made of lines in every state.                                 *)
LEMMA FileInputsHold == Spec => []FileInputs
<1>1. Init => FileInputs
  <2> SUFFICES ASSUME Init, kind = "file"
               PROVE  \E S : (\A l \in S : IsLine(l)) /\ input.file \in Seq(S)
    BY DEF FileInputs
  <2>1. DOMAIN Alphabet = {"line", "integer", "hex"}
    BY InputsAssumption
  <2>2. input \in [file : Files, edits : {0}]
    BY <2>1 DEF Init
  <2>3. input.file \in Seq(Range(input.file)) /\ \A l \in Range(input.file) : IsLine(l)
    BY <2>2, InputsAssumption
  <2> QED
    BY <2>3
<1>2. FileInputs /\ [Next]_vars => FileInputs'
  <2> SUFFICES ASSUME FileInputs, [Next]_vars, kind' = "file"
               PROVE  \E S : (\A l \in S : IsLine(l)) /\ input'.file \in Seq(S)
    BY DEF FileInputs
  <2>1. kind = "file"
    BY StepKind DEF vars
  <2>2. PICK S : (\A l \in S : IsLine(l)) /\ input.file \in Seq(S)
    BY <2>1 DEF FileInputs
  <2>3. CASE UNCHANGED vars
    BY <2>2, <2>3 DEF vars
  <2>4. CASE Omit \/ Rewrite \/ Add \/ Misspell \/ Annotate
    BY <2>2, <2>4, EditedLines
  <2>5. CASE Type \/ Patch \/ Miswire
    <3>1. DOMAIN Alphabet = {"line", "integer", "hex"}
      BY InputsAssumption
    <3> QED
      BY <2>1, <2>5, <3>1 DEF Type, Patch, Miswire
  <2> QED
    BY <2>3, <2>4, <2>5 DEF Next
<1> QED
  BY <1>1, <1>2, PTL DEF Spec

(* Nothing is hooked but what the file asks for, for every file of any     *)
(* number of lines and every edit of it.                                   *)
THEOREM Consented == Spec => []AdmittedAsWritten
<1>1. FileInputs => AdmittedAsWritten
  BY LetThroughAsWritten DEF FileInputs, AdmittedAsWritten
<1> QED
  BY <1>1, FileInputsHold, PTL

(* A configuration that is let through can be carried out, whatever the    *)
(* file that it was read from.                                             *)
THEOREM CanBeUsed == Spec => []AdmittedIsUsable
<1>1. FileInputs => AdmittedIsUsable
  BY LetThroughUsable DEF FileInputs, AdmittedIsUsable
<1> QED
  BY <1>1, FileInputsHold, PTL

-----------------------------------------------------------------------------
(* Texts *)

Filters(k, t, S) ==
  /\ k[0] = <<>>
  /\ \A i \in 1..Len(t) : k[i] = IF t[i] \in S THEN k[i - 1] ELSE Append(k[i - 1], t[i])

(* The filter reads from left to right, and keeps what is not in S.        *)
LEMMA KeptIs ==
  ASSUME NEW X, NEW t \in Seq(X), NEW S
  PROVE  /\ Filters(Kept(t, S), t, S)
         /\ \A i \in 0..Len(t) : Kept(t, S)[i] \in Seq(X \ S)
<1> DEFINE V == Seq(X \ S)
           n == Len(t)
           Go(x, i) == IF t[i] \in S THEN x ELSE Append(x, t[i])
           step == [i \in 1..n |-> [x \in V |-> Go(x, i)]]
           Is(g) == g = [i \in 0..n |-> IF i = 0 THEN <<>> ELSE Go(g[i - 1], i)]
           k == CHOOSE g : Is(g)
<1>1. n \in Nat /\ <<>> \in V
  OBVIOUS
<1>2. \A i \in 1..n : \A x \in V : Go(x, i) \in V
  <2>1. \A i \in 1..n : t[i] \in X
    OBVIOUS
  <2> QED
    BY <2>1
<1>3. Kept(t, S) = k
  BY DEF Kept
<1> HIDE DEF V, n, Go
<1>4. step \in Steps(n, V) /\ \A i \in 1..n : \A x \in V : step[i][x] = Go(x, i)
  BY <1>2 DEF Steps
<1> HIDE DEF step
<1>5. PICK g \in [0..n -> V] : Follows(g, n, <<>>, step)
  BY ONLY <1>1, <1>4, Recurrence
<1>6. \A i \in 1..n : g[i] = Go(g[i - 1], i)
  <2>1. \A i \in 1..n : g[i - 1] \in V
    BY <1>1
  <2> QED
    BY <1>4, <1>5, <2>1 DEF Follows
<1>7. Is(g)
  BY <1>5, <1>6 DEF Follows
<1>8. Is(k)
  BY <1>7
<1> HIDE DEF k
<1>9. k[0] = <<>> /\ \A i \in 1..n : k[i] = Go(k[i - 1], i)
  BY <1>1, <1>8
<1> HIDE DEF Is
<1>10. \A i \in 1..n : k[i - 1] \in V => k[i] \in V
  BY <1>2, <1>9
<1>11. \A i \in 0..n : k[i] \in V
  BY <1>1, <1>9, <1>10, Values
<1> QED
  BY <1>3, <1>9, <1>11 DEF V, n, Go, Filters

(* A filtered text is a text of what was not filtered out.                 *)
LEMMA WithoutText ==
  ASSUME NEW X, NEW t \in Seq(X), NEW S
  PROVE  Without(t, S) \in Seq(X \ S)
<1>1. Len(t) \in 0..Len(t)
  OBVIOUS
<1> QED
  BY <1>1, KeptIs DEF Without

(* A text is one of any set of characters that has all of its own.         *)
LEMMA TextOf ==
  ASSUME NEW X, NEW t \in Seq(X), NEW Y, \A i \in 1..Len(t) : t[i] \in Y
  PROVE  t \in Seq(Y)
OBVIOUS

(* A digit is a natural number.                                            *)
LEMMA DigitNat == \A c \in DOMAIN Digit : Digit[c] \in Nat
BY DEF Digit

(* A number is read from left to right.                                    *)
LEMMA NumberIs ==
  ASSUME NEW d \in Seq(DOMAIN Digit), NEW radix \in Nat
  PROVE  \E h \in [0..Len(d) -> Nat] :
           /\ h[0] = 0
           /\ \A i \in 1..Len(d) : h[i] = radix * h[i - 1] + Digit[d[i]]
           /\ Number(d, radix) = h[Len(d)]
<1> DEFINE n == Len(d)
           Go(x, i) == radix * x + Digit[d[i]]
           step == [i \in 1..n |-> [x \in Nat |-> Go(x, i)]]
           Is(g) == g = [i \in 0..n |-> IF i = 0 THEN 0 ELSE Go(g[i - 1], i)]
           h == CHOOSE g : Is(g)
<1>1. n \in Nat /\ \A i \in 1..n : Digit[d[i]] \in Nat
  BY DigitNat
<1>2. \A i \in 1..n : \A x \in Nat : Go(x, i) \in Nat
  BY <1>1
<1>3. Number(d, radix) = h[n]
  BY DEF Number
<1> HIDE DEF n, Go
<1>4. step \in Steps(n, Nat) /\ \A i \in 1..n : \A x \in Nat : step[i][x] = Go(x, i)
  BY <1>2 DEF Steps
<1> HIDE DEF step
<1>5. PICK g \in [0..n -> Nat] : Follows(g, n, 0, step)
  BY ONLY <1>1, <1>4, Recurrence
<1>6. \A i \in 1..n : g[i] = Go(g[i - 1], i)
  <2>1. \A i \in 1..n : g[i - 1] \in Nat
    BY <1>1
  <2> QED
    BY <1>4, <1>5, <2>1 DEF Follows
<1>7. Is(g)
  BY <1>5, <1>6 DEF Follows
<1>8. Is(h)
  BY <1>7
<1> HIDE DEF h
<1>9. h[0] = 0 /\ \A i \in 1..n : h[i] = Go(h[i - 1], i)
  BY <1>1, <1>8
<1>10. h = [i \in 0..n |-> h[i]]
  BY <1>8
<1> HIDE DEF Is
<1>11. \A i \in 1..n : h[i - 1] \in Nat => h[i] \in Nat
  BY <1>2, <1>9
<1>12. \A i \in 0..n : h[i] \in Nat
  <2>1. h[0] \in Nat
    BY <1>9
  <2> QED
    BY <1>1, <1>11, <2>1, Values
<1>13. h \in [0..n -> Nat]
  BY <1>10, <1>12
<1> QED
  BY <1>3, <1>9, <1>13 DEF n, Go

-----------------------------------------------------------------------------
(* Signatures *)

(* A byte that from_str_radix reads from two characters, none of them a    *)
(* sign, has these two for its digits.                                     *)
LEMMA ByteIs ==
  ASSUME NEW X, Plus \notin X, NEW p \in Seq(X), Len(p) = 2, NEW b \in FromStrRadix(p, 16, 8)
  PROVE  /\ p[1] \in DOMAIN Digit /\ p[2] \in DOMAIN Digit
         /\ Digit[p[1]] = b \div 16 /\ Digit[p[2]] = b % 16
<1>1. p[1] \in X /\ p[2] \in X /\ p[1] # Plus
  <2>1. p[1] \in X /\ p[2] \in X
    <3>1. 1 \in 1..Len(p) /\ 2 \in 1..Len(p)
      OBVIOUS
    <3> QED
      BY <3>1, ElementOfSeq, Zenon
  <2> QED
    BY <2>1
<1>2. All(p, {c \in DOMAIN Digit : Digit[c] < 16}) /\ b = Number(p, 16)
  BY <1>1, Zenon DEF FromStrRadix
<1>3. p[1] \in DOMAIN Digit /\ Digit[p[1]] < 16 /\ p[2] \in DOMAIN Digit /\ Digit[p[2]] < 16
  BY <1>2 DEF All
<1>4. p \in Seq(DOMAIN Digit)
  <2>1. \A i \in 1..Len(p) : p[i] \in DOMAIN Digit
    BY <1>2 DEF All
  <2> QED
    BY <2>1, TextOf
<1>5. PICK h \in [0..2 -> Nat] :
        /\ h[0] = 0
        /\ \A i \in 1..2 : h[i] = 16 * h[i - 1] + Digit[p[i]]
        /\ Number(p, 16) = h[2]
  <2>1. Len(p) = 2 /\ 16 \in Nat
    OBVIOUS
  <2>2. \E h \in [0..Len(p) -> Nat] :
          /\ h[0] = 0
          /\ \A i \in 1..Len(p) : h[i] = 16 * h[i - 1] + Digit[p[i]]
          /\ Number(p, 16) = h[Len(p)]
    BY ONLY <1>4, <2>1, NumberIs
  <2> QED
    BY ONLY <2>1, <2>2
<1>6. h[1] = Digit[p[1]] /\ h[2] = 16 * h[1] + Digit[p[2]]
  <2>1. h[1] = 16 * h[1 - 1] + Digit[p[1]] /\ h[2] = 16 * h[2 - 1] + Digit[p[2]]
    BY <1>5
  <2>2. Digit[p[1]] \in Nat
    BY <1>3, DigitNat
  <2> QED
    BY <1>5, <2>1, <2>2
<1> DEFINE d == Digit[p[1]]
           e == Digit[p[2]]
<1>7. d \in 0..15 /\ e \in 0..15
  <2>1. Digit[p[1]] \in Nat /\ Digit[p[2]] \in Nat
    BY <1>3, DigitNat
  <2>2. \A x \in Nat : x < 16 => x \in 0..15
    OBVIOUS
  <2> QED
    BY <1>3, <2>1, <2>2, Zenon
<1>8. b = d * 16 + e
  BY <1>2, <1>5, <1>6, <1>7
<1> HIDE DEF d, e
<1>9. b \div 16 = d /\ b % 16 = e
  BY <1>7, <1>8
<1> QED
  BY <1>3, <1>9 DEF d, e

(* decode_hex reads two digits of a signature for each byte.               *)
LEMMA HexExact ==
  ASSUME NEW X, Plus \notin X, NEW v \in Seq(X), NEW bytes \in DecodeHex(v)
  PROVE  LET n == Nibbles(v)
         IN /\ Len(n) = 2 * Len(bytes)
            /\ \A i \in DOMAIN n : n[i] \in DOMAIN Digit
            /\ \A i \in DOMAIN bytes :
                 Digit[n[2 * i - 1]] = bytes[i] \div 16 /\ Digit[n[2 * i]] = bytes[i] % 16
<1> DEFINE c == Nibbles(v)
           m == Len(c) \div 2
           Pair(i) == SubSeq(c, 2 * i - 1, 2 * i)
<1>1. c \in Seq(X)
  <2>1. c \in Seq(X \ Separators)
    BY WithoutText DEF Nibbles
  <2>2. Seq(X \ Separators) \subseteq Seq(X)
    BY SeqMonotonic
  <2> QED
    BY <2>1, <2>2
<1>2. /\ Len(c) % 2 = 0 /\ \A i \in 1..m : FromStrRadix(Pair(i), 16, 8) # {}
      /\ bytes = [i \in 1..m |-> CHOOSE b \in FromStrRadix(Pair(i), 16, 8) : TRUE]
  BY DEF DecodeHex
<1> HIDE DEF c
<1>3. Len(c) \in Nat /\ Len(c) = 2 * m /\ m \in Nat
  BY <1>1, <1>2
<1>4. DOMAIN bytes = 1..m /\ Len(bytes) = m
  BY <1>2, <1>3
<1>5. ASSUME NEW i \in 1..m
      PROVE  /\ c[2 * i - 1] \in DOMAIN Digit /\ c[2 * i] \in DOMAIN Digit
             /\ Digit[c[2 * i - 1]] = bytes[i] \div 16 /\ Digit[c[2 * i]] = bytes[i] % 16
  <2>1. 2 * i - 1 \in 1..Len(c) /\ 2 * i \in 1..Len(c)
    BY <1>3
  <2>2. /\ Pair(i) \in Seq(X) /\ Len(Pair(i)) = 2
        /\ Pair(i)[1] = c[2 * i - 1] /\ Pair(i)[2] = c[2 * i]
    BY <1>1, <2>1
  <2>3. bytes[i] \in FromStrRadix(Pair(i), 16, 8)
    <3>1. bytes[i] = CHOOSE b \in FromStrRadix(Pair(i), 16, 8) : TRUE
      BY <1>2
    <3>2. FromStrRadix(Pair(i), 16, 8) # {}
      BY <1>2
    <3> QED
      BY <3>1, <3>2, Zenon
  <2> HIDE DEF Pair
  <2> QED
    BY <2>2, <2>3, ByteIs
<1>6. ASSUME NEW i \in DOMAIN c PROVE c[i] \in DOMAIN Digit
  <2>1. i \in 1..(2 * m)
    BY <1>1, <1>3
  <2> HIDE DEF m
  <2>2. PICK j \in 1..m : i = 2 * j - 1 \/ i = 2 * j
    <3>1. CASE i % 2 = 0
      <4>1. i \div 2 \in 1..m /\ i = 2 * (i \div 2)
        BY <1>3, <2>1, <3>1
      <4> QED
        BY <4>1
    <3>2. CASE i % 2 # 0
      <4> DEFINE h == i \div 2
      <4>1. i = 2 * h + 1 /\ h \in Nat
        BY <1>3, <2>1, <3>2
      <4> HIDE DEF h
      <4>2. h + 1 \in 1..m /\ i = 2 * (h + 1) - 1
        BY <1>3, <2>1, <4>1
      <4> QED
        BY <4>2
    <3> QED
      BY <3>1, <3>2
  <2> QED
    BY <1>5, <2>2
<1> QED
  BY <1>3, <1>4, <1>5, <1>6 DEF c

\* A text is made of the characters that are typed.
TextInputs == kind \in DOMAIN Alphabet => input \in Seq(Alphabet[kind])

(* Whatever is typed is a text of these characters.                        *)
LEMMA TextInputsHold == Spec => []TextInputs
<1>0. DOMAIN Alphabet = {"line", "integer", "hex"}
  BY InputsAssumption
<1>1. Init => TextInputs
  <2> SUFFICES ASSUME Init, kind \in DOMAIN Alphabet PROVE input \in Seq(Alphabet[kind])
    BY DEF TextInputs
  <2>1. input = <<>>
    BY <1>0 DEF Init
  <2> QED
    BY <2>1
<1>2. TextInputs /\ [Next]_vars => TextInputs'
  <2> SUFFICES ASSUME TextInputs, [Next]_vars, kind' \in DOMAIN Alphabet
               PROVE  input' \in Seq(Alphabet[kind'])
    BY DEF TextInputs
  <2>1. kind' = kind /\ kind \in DOMAIN Alphabet /\ input \in Seq(Alphabet[kind])
    BY StepKind DEF vars, TextInputs
  <2>2. CASE UNCHANGED vars
    BY <2>1, <2>2 DEF vars
  <2>3. CASE Type
    BY <2>1, <2>3 DEF Type
  <2>4. CASE Next /\ ~Type
    BY <1>0, <2>1, <2>4
       DEF Next, Omit, Rewrite, Add, Misspell, Annotate, Patch, Miswire
  <2> QED
    BY <2>2, <2>3, <2>4
<1> QED
  BY <1>1, <1>2, PTL DEF Spec

(* Whatever separators stand between them, the bytes of a signature spell  *)
(* its digits again, for texts of any length and any characters but the    *)
(* sign that from_str_radix accepts before a digit.                        *)
THEOREM SignatureRead ==
  ASSUME Plus \notin Alphabet["hex"]
  PROVE  Spec => []HexReadAsWritten
<1>1. TextInputs => HexReadAsWritten
  <2> SUFFICES ASSUME TextInputs, kind = "hex",
                      NEW bytes \in DecodeHex(input)
               PROVE  LET n == Nibbles(input)
                      IN /\ Len(n) = 2 * Len(bytes)
                         /\ \A i \in DOMAIN n : n[i] \in DOMAIN Digit
                         /\ \A i \in DOMAIN bytes :
                              /\ Digit[n[2 * i - 1]] = bytes[i] \div 16
                              /\ Digit[n[2 * i]] = bytes[i] % 16
    BY DEF HexReadAsWritten
  <2>1. input \in Seq(Alphabet["hex"])
    BY InputsAssumption DEF TextInputs
  <2> QED
    BY <2>1, HexExact
<1> QED
  BY <1>1, TextInputsHold, PTL

-----------------------------------------------------------------------------
(* Integers *)

\* c has the first i characters of t that are not in S, and no other.
Sieves(c, t, i, S) ==
  /\ \A m \in 1..Len(c) : \E j \in 1..i : t[j] \notin S /\ c[m] = t[j]
  /\ \A j \in 1..i : t[j] \notin S => \E m \in 1..Len(c) : c[m] = t[j]

(* The filter keeps the characters that are not in S, and nothing else.    *)
LEMMA KeptRange ==
  ASSUME NEW X, NEW t \in Seq(X), NEW S, NEW i \in 0..Len(t)
  PROVE  Sieves(Kept(t, S)[i], t, i, S)
<1> DEFINE n == Len(t)
           k == Kept(t, S)
           From(l) == \A m \in 1..Len(k[l]) : \E j \in 1..l : t[j] \notin S /\ k[l][m] = t[j]
           Into(l) == \A j \in 1..l : t[j] \notin S => \E m \in 1..Len(k[l]) : k[l][m] = t[j]
           T == {l \in 0..n : From(l) /\ Into(l)}
<1>1. /\ n \in Nat /\ k[0] = <<>>
      /\ \A l \in 1..n : k[l] = IF t[l] \in S THEN k[l - 1] ELSE Append(k[l - 1], t[l])
      /\ \A l \in 0..n : k[l] \in Seq(X \ S)
  BY KeptIs DEF Filters
<1> HIDE DEF k
<1>2. 0 \in T
  <2>1. Len(k[0]) = 0
    BY <1>1
  <2> QED
    BY <1>1, <2>1
<1>3. ASSUME NEW l \in 1..n, l - 1 \in T PROVE l \in T
  <2>1. l - 1 \in 0..n /\ From(l - 1) /\ Into(l - 1) /\ l \in 0..n
    BY <1>1, <1>3
  <2>2. CASE t[l] \in S
    <3>1. k[l] = k[l - 1]
      BY <1>1, <2>2
    <3>2. From(l)
      BY <2>1, <3>1
    <3>3. Into(l)
      BY <2>1, <2>2, <3>1
    <3> QED
      BY <2>1, <3>2, <3>3
  <2>3. CASE t[l] \notin S
    <3>1. k[l] = Append(k[l - 1], t[l]) /\ k[l - 1] \in Seq(X \ S)
      BY <1>1, <2>1, <2>3
    <3>2. /\ Len(k[l]) = Len(k[l - 1]) + 1 /\ k[l][Len(k[l])] = t[l]
          /\ \A m \in 1..Len(k[l - 1]) : k[l][m] = k[l - 1][m]
          /\ Len(k[l - 1]) \in Nat
      BY <3>1, <2>3
    <3>3. From(l)
      <4> SUFFICES ASSUME NEW m \in 1..Len(k[l])
                   PROVE  \E j \in 1..l : t[j] \notin S /\ k[l][m] = t[j]
        OBVIOUS
      <4>1. CASE m = Len(k[l])
        BY <2>3, <3>2, <4>1
      <4>2. CASE m # Len(k[l])
        <5>1. m \in 1..Len(k[l - 1])
          BY <3>2, <4>2
        <5>2. PICK j \in 1..(l - 1) : t[j] \notin S /\ k[l - 1][m] = t[j]
          BY <2>1, <5>1
        <5>3. j \in 1..l /\ k[l][m] = k[l - 1][m]
          BY <3>2, <5>1
        <5> QED
          BY <5>2, <5>3
      <4> QED
        BY <4>1, <4>2
    <3>4. Into(l)
      <4> SUFFICES ASSUME NEW j \in 1..l, t[j] \notin S
                   PROVE  \E m \in 1..Len(k[l]) : k[l][m] = t[j]
        OBVIOUS
      <4>1. CASE j = l
        BY <3>2, <4>1
      <4>2. CASE j # l
        <5>1. j \in 1..(l - 1)
          BY <4>2
        <5>2. PICK m \in 1..Len(k[l - 1]) : k[l - 1][m] = t[j]
          BY <2>1, <5>1
        <5> QED
          BY <3>2, <5>2
      <4> QED
        BY <4>1, <4>2
    <3> QED
      BY <2>1, <3>3, <3>4
  <2> QED
    BY <2>2, <2>3
<1> HIDE DEF T, n
<1>4. \A l \in 0..n : l \in T
  BY <1>1, <1>2, <1>3, Induction
<1>5. From(i) /\ Into(i)
  BY <1>4 DEF T, n
<1> QED
  BY <1>5 DEF k, Sieves

\* What is kept of t is what is kept of a and then what is kept of b.
Splits(t, a, b, S) == Without(t, S) = Without(a, S) \o Without(b, S)

(* What is kept of a text whose first characters are another text starts   *)
(* with what is kept of that one.                                          *)
LEMMA KeptOfConcat ==
  ASSUME NEW X, NEW a \in Seq(X), NEW b \in Seq(X), NEW S, NEW t, t = a \o b
  PROVE  Splits(t, a, b, S)
<1> DEFINE n == Len(a)
           p == Len(b)
           k == Kept(t, S)
           ka == Kept(a, S)
           kb == Kept(b, S)
<1>1. /\ t \in Seq(X) /\ n \in Nat /\ p \in Nat /\ Len(t) = n + p
      /\ \A i \in 1..n : t[i] = a[i]
      /\ \A i \in 1..p : t[n + i] = b[i]
  OBVIOUS
<1>2. /\ k[0] = <<>>
      /\ \A i \in 1..(n + p) : k[i] = IF t[i] \in S THEN k[i - 1] ELSE Append(k[i - 1], t[i])
  <2>1. t \in Seq(X) /\ Len(t) = n + p
    BY <1>1
  <2>2. Filters(k, t, S)
    BY <2>1, KeptIs
  <2> HIDE DEF k
  <2> QED
    BY <2>1, <2>2 DEF Filters
<1>3. /\ ka[0] = <<>>
      /\ \A i \in 1..n : ka[i] = IF a[i] \in S THEN ka[i - 1] ELSE Append(ka[i - 1], a[i])
      /\ \A i \in 0..n : ka[i] \in Seq(X \ S)
  <2>1. Filters(ka, a, S) /\ \A i \in 0..n : ka[i] \in Seq(X \ S)
    BY KeptIs
  <2> HIDE DEF ka
  <2> QED
    BY <2>1 DEF Filters
<1>4. /\ kb[0] = <<>>
      /\ \A i \in 1..p : kb[i] = IF b[i] \in S THEN kb[i - 1] ELSE Append(kb[i - 1], b[i])
      /\ \A i \in 0..p : kb[i] \in Seq(X \ S)
  <2>1. Filters(kb, b, S) /\ \A i \in 0..p : kb[i] \in Seq(X \ S)
    BY KeptIs
  <2> HIDE DEF kb
  <2> QED
    BY <2>1 DEF Filters
<1>5. Without(t, S) = k[n + p] /\ Without(a, S) = ka[n] /\ Without(b, S) = kb[p]
  BY <1>1 DEF Without
<1> HIDE DEF n, p, k, ka, kb
<1> DEFINE A == {i \in 0..n : k[i] = ka[i]}
           B == {i \in 0..p : k[n + i] = ka[n] \o kb[i]}
<1>6. \A i \in 0..n : i \in A
  <2>1. 0 \in A
    BY <1>1, <1>2, <1>3
  <2>2. ASSUME NEW i \in 1..n, i - 1 \in A PROVE i \in A
    <3>1. i \in 1..(n + p) /\ i \in 0..n
      BY <1>1
    <3>2. k[i - 1] = ka[i - 1] /\ t[i] = a[i]
      BY <1>1, <2>2
    <3> QED
      BY <1>2, <1>3, <3>1, <3>2
  <2> HIDE DEF A
  <2> QED
    BY <1>1, <2>1, <2>2, Induction
<1>7. \A i \in 0..p : i \in B
  <2>1. 0 \in B
    <3>1. n \in A /\ n + 0 = n /\ n \in 0..n
      BY <1>1, <1>6
    <3>2. ka[n] \o <<>> = ka[n]
      BY <1>3, <3>1
    <3>3. k[n + 0] = ka[n] \o kb[0]
      BY <1>4, <3>1, <3>2
    <3>4. 0 \in 0..p
      BY <1>1
    <3> QED
      BY <3>3, <3>4
  <2>2. ASSUME NEW i \in 1..p, i - 1 \in B PROVE i \in B
    <3>1. n + i \in 1..(n + p) /\ i \in 0..p /\ i - 1 \in 0..p /\ (n + i) - 1 = n + (i - 1)
      BY <1>1
    <3>2. k[(n + i) - 1] = ka[n] \o kb[i - 1] /\ t[n + i] = b[i]
      BY <1>1, <2>2, <3>1
    <3>3. CASE b[i] \in S
      BY <1>2, <1>4, <3>1, <3>2, <3>3
    <3>4. CASE b[i] \notin S
      <4>1. k[n + i] = Append(ka[n] \o kb[i - 1], b[i]) /\ kb[i] = Append(kb[i - 1], b[i])
        BY <1>2, <1>4, <3>1, <3>2, <3>4
      <4>2. ka[n] \in Seq(X \ S) /\ kb[i - 1] \in Seq(X \ S) /\ b[i] \in X \ S
        <5>1. b[i] \in X
          BY DEF p
        <5>2. n \in 0..n
          BY <1>1
        <5> QED
          BY <1>3, <1>4, <3>1, <3>4, <5>1, <5>2
      <4>3. Append(ka[n] \o kb[i - 1], b[i]) = ka[n] \o Append(kb[i - 1], b[i])
        <5> DEFINE Y == X \ S
                   x == ka[n]
                   y == kb[i - 1]
                   e == b[i]
        <5>1. x \in Seq(Y) /\ y \in Seq(Y) /\ e \in Y
          BY <4>2
        <5> HIDE DEF Y, x, y, e
        <5>2. x \o y \in Seq(Y) /\ <<e>> \in Seq(Y)
          BY <5>1
        <5>3. Append(x \o y, e) = (x \o y) \o <<e>> /\ Append(y, e) = y \o <<e>>
          BY ONLY <5>1, <5>2, AppendIsConcat
        <5>4. (x \o y) \o <<e>> = x \o (y \o <<e>>)
          BY ONLY <5>1, <5>2, ConcatAssociative
        <5>5. Append(x \o y, e) = x \o Append(y, e)
          BY ONLY <5>3, <5>4
        <5> QED
          BY <5>5 DEF x, y, e
      <4>4. k[n + i] = ka[n] \o kb[i]
        BY <4>1, <4>3
      <4> QED
        BY <3>1, <4>4
    <3> QED
      BY <3>3, <3>4
  <2> HIDE DEF B
  <2> QED
    BY <1>1, <2>1, <2>2, Induction
<1>8. k[n + p] = ka[n] \o kb[p]
  <2>1. p \in B
    <3>1. p \in 0..p
      BY <1>1
    <3> QED
      BY ONLY <1>7, <3>1
  <2> QED
    BY <2>1
<1> QED
  BY <1>5, <1>8 DEF Splits

\* The characters of t are those of a and then those of b.
Joined(t, a, b) ==
  /\ Len(t) = Len(a) + Len(b)
  /\ \A i \in 1..Len(a) : t[i] = a[i]
  /\ \A i \in 1..Len(b) : t[Len(a) + i] = b[i]

(* The characters of a concatenation.                                      *)
LEMMA Joining ==
  ASSUME NEW X, NEW a \in Seq(X), NEW b \in Seq(X), NEW t, t = a \o b
  PROVE  t \in Seq(X) /\ Joined(t, a, b)
<1>1. Len(a) \in Nat /\ Len(b) \in Nat
  OBVIOUS
<1> QED
  BY <1>1, ConcatProperties DEF Joined

\* Where the characters that count are.
DigitPlaces(t) == {i \in DOMAIN t : t[i] # Underscore}

Worth(w, t, radix) ==
  /\ w[0] = [value |-> 0, weight |-> 1]
  /\ \A k \in 1..Len(t) :
       LET c == t[Len(t) - k + 1] IN
       w[k] = IF c = Underscore THEN w[k - 1]
              ELSE [value |-> w[k - 1].value + Digit[c] * w[k - 1].weight,
                    weight |-> radix * w[k - 1].weight]

(* Digits are weighed from right to left.                                  *)
LEMMA WeighedIs ==
  ASSUME NEW X, NEW t \in Seq(X), NEW radix \in Nat,
         \A i \in DigitPlaces(t) : t[i] \in DOMAIN Digit
  PROVE  \E w \in [0..Len(t) -> [value : Nat, weight : Nat]] :
           Worth(w, t, radix) /\ Weighed(t, radix) = w[Len(t)].value
<1> DEFINE V == [value : Nat, weight : Nat]
           n == Len(t)
           base == [value |-> 0, weight |-> 1]
           Go(x, k) == LET c == t[n - k + 1] IN
                       IF c = Underscore THEN x
                       ELSE [value |-> x.value + Digit[c] * x.weight, weight |-> radix * x.weight]
           step == [k \in 1..n |-> [x \in V |-> Go(x, k)]]
           Is(g) == g = [k \in 0..n |-> IF k = 0 THEN base ELSE Go(g[k - 1], k)]
           w == CHOOSE g : Is(g)
<1>1. n \in Nat /\ base \in V /\ DOMAIN t = 1..n
  <2>1. n \in Nat /\ DOMAIN t = 1..n
    BY LenProperties
  <2>2. base \in V
    OBVIOUS
  <2> QED
    BY <2>1, <2>2
<1>2. \A k \in 1..n : \A x \in V : Go(x, k) \in V
  <2> SUFFICES ASSUME NEW k \in 1..n, NEW x \in V PROVE Go(x, k) \in V
    OBVIOUS
  <2>1. n - k + 1 \in DOMAIN t
    <3> HIDE DEF n
    <3> QED
      BY <1>1
  <2> DEFINE c == t[n - k + 1]
  <2>2. CASE c = Underscore
    BY <2>2
  <2>3. CASE c # Underscore
    <3>1. c \in DOMAIN Digit
      BY <2>1, <2>3 DEF DigitPlaces
    <3>2. Digit[c] \in Nat
      BY <3>1, DigitNat
    <3> HIDE DEF c
    <3>3. Digit[c] * x.weight \in Nat /\ radix * x.weight \in Nat /\ x.value \in Nat
      BY <3>2
    <3>4. [value |-> x.value + Digit[c] * x.weight, weight |-> radix * x.weight] \in V
      BY <3>3
    <3> QED
      BY <2>3, <3>4 DEF c
  <2> QED
    BY <2>2, <2>3
<1>3. Weighed(t, radix) = w[n].value
  BY DEF Weighed
<1> HIDE DEF V, n, Go, base
<1>4. step \in Steps(n, V) /\ \A k \in 1..n : \A x \in V : step[k][x] = Go(x, k)
  BY <1>2 DEF Steps
<1> HIDE DEF step
<1>5. PICK g \in [0..n -> V] : Follows(g, n, base, step)
  BY ONLY <1>1, <1>4, Recurrence
<1>6. \A k \in 1..n : g[k] = Go(g[k - 1], k)
  <2>1. \A k \in 1..n : g[k - 1] \in V
    BY <1>1
  <2> QED
    BY <1>4, <1>5, <2>1 DEF Follows
<1>7. Is(g)
  BY <1>5, <1>6 DEF Follows
<1>8. Is(w)
  BY <1>7
<1> HIDE DEF w
<1>9. w[0] = base /\ \A k \in 1..n : w[k] = Go(w[k - 1], k)
  BY <1>1, <1>8
<1>10. w = [k \in 0..n |-> w[k]]
  BY <1>8
<1> HIDE DEF Is
<1>11. \A k \in 1..n : w[k - 1] \in V => w[k] \in V
  BY <1>2, <1>9
<1>12. \A k \in 0..n : w[k] \in V
  BY <1>1, <1>9, <1>11, Values
<1>13. w \in [0..n -> V]
  BY <1>10, <1>12
<1>14. Worth(w, t, radix)
  BY <1>9 DEF Worth, base, Go, n
<1> QED
  BY <1>3, <1>13, <1>14 DEF n, V

Horner(h, d, radix) ==
  /\ h[0] = 0
  /\ \A i \in 1..Len(d) : h[i] = radix * h[i - 1] + Digit[d[i]]

(* One more digit.                                                         *)
LEMMA NumberAppend ==
  ASSUME NEW d \in Seq(DOMAIN Digit), NEW c \in DOMAIN Digit, NEW radix \in Nat
  PROVE  /\ Number(<<>>, radix) = 0
         /\ Number(d, radix) \in Nat
         /\ Number(Append(d, c), radix) = radix * Number(d, radix) + Digit[c]
<1> DEFINE e == Append(d, c)
           n == Len(d)
<1>1. /\ n \in Nat /\ e \in Seq(DOMAIN Digit) /\ Len(e) = n + 1 /\ e[n + 1] = c
      /\ \A i \in 1..n : e[i] = d[i]
  BY AppendProperties
<1>2. Number(<<>>, radix) = 0
  <2> DEFINE z == <<>>
  <2>1. z \in Seq(DOMAIN Digit) /\ Len(z) = 0
    OBVIOUS
  <2> HIDE DEF z
  <2>2. \E h \in [0..Len(z) -> Nat] : Horner(h, z, radix) /\ Number(z, radix) = h[Len(z)]
    BY <2>1, NumberIs, Zenon DEF Horner
  <2>3. Number(z, radix) = 0
    BY <2>1, <2>2 DEF Horner
  <2> QED
    BY <2>3 DEF z
<1>3. PICK h \in [0..n -> Nat] : Horner(h, d, radix) /\ Number(d, radix) = h[n]
  BY NumberIs DEF Horner
<1> HIDE DEF e, n
<1>4. PICK g \in [0..Len(e) -> Nat] : Horner(g, e, radix) /\ Number(e, radix) = g[Len(e)]
  BY <1>1, NumberIs DEF Horner
<1> DEFINE T == {i \in 0..n : g[i] = h[i]}
<1>5. 0 \in T
  BY <1>1, <1>3, <1>4 DEF Horner
<1>6. ASSUME NEW i \in 1..n, i - 1 \in T PROVE i \in T
  <2>1. i \in 1..(n + 1) /\ e[i] = d[i] /\ g[i - 1] = h[i - 1]
    BY <1>1, <1>6
  <2>2. g[i] = radix * g[i - 1] + Digit[e[i]]
    BY <1>1, <1>4, <2>1 DEF Horner
  <2>3. h[i] = radix * h[i - 1] + Digit[d[i]]
    BY <1>3 DEF Horner, n
  <2>4. g[i] = h[i]
    BY <2>1, <2>2, <2>3
  <2> QED
    BY <2>4
<1> HIDE DEF T
<1>7. n \in T
  <2>1. \A i \in 0..n : i \in T
    BY <1>1, <1>5, <1>6, Induction
  <2>2. n \in 0..n
    BY <1>1
  <2> QED
    BY <2>1, <2>2
<1>8. g[n + 1] = radix * g[n] + Digit[c]
  <2>1. n + 1 \in 1..Len(e) /\ (n + 1) - 1 = n
    BY <1>1
  <2>2. g[n + 1] = radix * g[(n + 1) - 1] + Digit[e[n + 1]]
    BY <1>4, <2>1 DEF Horner
  <2> QED
    BY <1>1, <2>1, <2>2
<1>9. g[n] = h[n]
  BY <1>7 DEF T
<1>10. h[n] \in Nat
  BY <1>1, <1>3
<1> QED
  BY <1>1, <1>2, <1>3, <1>4, <1>8, <1>9, <1>10 DEF e

(* The two ways to read digits, from left to right by the radix and from   *)
(* right to left by their weights, give the same number.                   *)
LEMMA WeighedNumber ==
  ASSUME NEW X, NEW t \in Seq(X), NEW radix \in Nat, \A i \in DigitPlaces(t) : t[i] \in DOMAIN Digit
  PROVE  Weighed(t, radix) = Number(Without(t, {Underscore}), radix)
<1> DEFINE n == Len(t)
           k == Kept(t, {Underscore})
           D == DOMAIN Digit
           N(j) == Number(k[j], radix)
<1>1. n \in Nat /\ DOMAIN t = 1..n
  BY LenProperties
<1>2. Filters(k, t, {Underscore}) /\ \A j \in 0..n : k[j] \in Seq(D)
  <2> DEFINE Y == D \cup {Underscore}
  <2>1. t \in Seq(Y)
    <3>1. \A i \in 1..Len(t) : t[i] \in Y
      BY <1>1 DEF DigitPlaces
    <3> HIDE DEF Y
    <3> QED
      BY <3>1, TextOf
  <2>2. Filters(k, t, {Underscore}) /\ \A j \in 0..n : k[j] \in Seq(Y \ {Underscore})
    <3> HIDE DEF Y
    <3> QED
      BY <2>1, KeptIs
  <2>3. Seq(Y \ {Underscore}) \subseteq Seq(D)
    <3>1. Y \ {Underscore} \subseteq D
      OBVIOUS
    <3> QED
      BY <3>1, SeqMonotonic
  <2> HIDE DEF Y, k, D
  <2> QED
    BY <2>2, <2>3
<1>3. PICK w \in [0..n -> [value : Nat, weight : Nat]] :
        Worth(w, t, radix) /\ Weighed(t, radix) = w[n].value
  BY WeighedIs
<1>4. Without(t, {Underscore}) = k[n]
  BY DEF Without
<1> DEFINE T == {j \in 0..n : N(j) * w[n - j].weight + w[n - j].value = w[n].value}
<1>5. \A j \in 0..n : N(j) \in Nat /\ w[j].value \in Nat /\ w[j].weight \in Nat
  <2>1. \A j \in 0..n : w[j] \in [value : Nat, weight : Nat]
    OBVIOUS
  <2>2. "0" \in D
    BY DEF Digit
  <2>3. \A j \in 0..n : Number(k[j], radix) \in Nat
    BY <1>2, <2>2, NumberAppend
  <2> QED
    BY <2>1, <2>3
<1> HIDE DEF k, D
<1>6. N(0) = 0
  <2>1. "0" \in D
    BY DEF Digit, D
  <2>2. Number(<<>>, radix) = 0
    <3>1. <<>> \in Seq(DOMAIN Digit)
      OBVIOUS
    <3> QED
      BY <2>1, <3>1, NumberAppend DEF D
  <2> QED
    BY <1>2, <2>2 DEF Filters
<1>7. ASSUME NEW j \in 1..n
      PROVE  N(j) = IF t[j] = Underscore THEN N(j - 1) ELSE radix * N(j - 1) + Digit[t[j]]
  <2>1. j - 1 \in 0..n
    BY <1>1
  <2>2. CASE t[j] = Underscore
    BY <1>2, <2>2 DEF Filters
  <2>3. CASE t[j] # Underscore
    <3>1. k[j] = Append(k[j - 1], t[j])
      BY <1>2, <2>3 DEF Filters
    <3>2. t[j] \in D /\ k[j - 1] \in Seq(D)
      BY <1>1, <1>2, <2>1, <2>3 DEF DigitPlaces, D
    <3>3. Number(Append(k[j - 1], t[j]), radix) = radix * Number(k[j - 1], radix) + Digit[t[j]]
      BY <3>2, NumberAppend DEF D
    <3> QED
      BY <2>3, <3>1, <3>3
  <2> QED
    BY <2>2, <2>3
<1>8. ASSUME NEW j \in 1..n
      PROVE  LET new == w[n - (j - 1)]  old == w[n - j] IN
             new = IF t[j] = Underscore THEN old
                   ELSE [value |-> old.value + Digit[t[j]] * old.weight,
                         weight |-> radix * old.weight]
  <2>1. n - (j - 1) \in 1..n /\ (n - (j - 1)) - 1 = n - j /\ n - (n - (j - 1)) + 1 = j
    BY <1>1
  <2> DEFINE i == n - (j - 1)
  <2>2. i \in 1..Len(t) /\ i - 1 = n - j /\ Len(t) - i + 1 = j
    BY <2>1
  <2> HIDE DEF i, n
  <2>3. w[i] = IF t[Len(t) - i + 1] = Underscore THEN w[i - 1]
               ELSE [value |-> w[i - 1].value + Digit[t[Len(t) - i + 1]] * w[i - 1].weight,
                     weight |-> radix * w[i - 1].weight]
    BY <1>3, <2>2 DEF Worth
  <2>4. w[i] = IF t[j] = Underscore THEN w[n - j]
               ELSE [value |-> w[n - j].value + Digit[t[j]] * w[n - j].weight,
                     weight |-> radix * w[n - j].weight]
    BY <2>2, <2>3
  <2> QED
    BY <2>4 DEF i
<1> HIDE DEF N
<1>9. 0 \in T
  BY <1>1, <1>5, <1>6
<1>10. ASSUME NEW j \in 1..n, j - 1 \in T PROVE j \in T
  <2>1. j \in 0..n /\ j - 1 \in 0..n /\ n - j \in 0..n /\ n - (j - 1) \in 0..n
    BY <1>1
  <2> DEFINE a == N(j - 1)
             new == w[n - (j - 1)]
             old == w[n - j]
             d == Digit[t[j]]
  <2>2. a \in Nat /\ old.value \in Nat /\ old.weight \in Nat
    BY <1>5, <2>1
  <2>3. a * new.weight + new.value = w[n].value
    BY <1>10
  <2>4. CASE t[j] = Underscore
    <3>1. N(j) = a /\ new = old
      BY <1>7, <1>8, <2>4
    <3> QED
      BY <2>1, <2>3, <3>1
  <2>5. CASE t[j] # Underscore
    <3>1. d \in Nat
      <4>1. t[j] \in DOMAIN Digit
        BY <1>1, <2>5 DEF DigitPlaces
      <4> QED
        BY <4>1, DigitNat
    <3>2. N(j) = radix * a + d
      BY <1>7, <2>5
    <3>3. new = [value |-> old.value + d * old.weight, weight |-> radix * old.weight]
      BY <1>8, <2>5
    <3> HIDE DEF a, new, old, d
    <3>4. new.value = old.value + d * old.weight /\ new.weight = radix * old.weight
      BY <3>3
    <3>5. (radix * a + d) * old.weight + old.value = a * (radix * old.weight) + (old.value + d * old.weight)
      <4>1. \A r, x, y, z, u \in Nat : (r * x + y) * z + u = x * (r * z) + (u + y * z)
        OBVIOUS
      <4> QED
        BY <2>2, <3>1, <4>1
    <3>6. N(j) * old.weight + old.value = w[n].value
      BY <2>3, <3>2, <3>4, <3>5
    <3> QED
      BY <2>1, <3>6 DEF old
  <2> QED
    BY <2>4, <2>5
<1> HIDE DEF T
<1>11. n \in T
  <2>1. \A j \in 0..n : j \in T
    <3> HIDE DEF n
    <3> QED
      BY <1>1, <1>9, <1>10, Induction
  <2>2. n \in 0..n
    BY <1>1
  <2> QED
    BY <2>1, <2>2
<1>12. N(n) * w[0].weight + w[0].value = w[n].value
  <2>1. n - n = 0
    BY <1>1
  <2> QED
    BY <1>11, <2>1 DEF T
<1>13. w[0].weight = 1 /\ w[0].value = 0
  <2>1. w[0] = [value |-> 0, weight |-> 1]
    BY <1>3 DEF Worth
  <2> QED
    BY <2>1
<1>14. N(n) = w[n].value
  <2>1. N(n) \in Nat
    BY <1>1, <1>5
  <2> QED
    BY <1>12, <1>13, <2>1
<1> QED
  BY <1>3, <1>4, <1>14 DEF N

(* A text begins with another one.                                         *)
LEMMA BeginsWith ==
  ASSUME NEW X, NEW p \in Seq(X), NEW Y, NEW v \in Seq(Y), Len(p) =< Len(v)
  PROVE  /\ SubSeq(v, 1, Len(p)) = p <=> \A i \in 1..Len(p) : v[i] = p[i]
         /\ SubSeq(p, 1, Len(p)) = p
<1> DEFINE q == SubSeq(v, 1, Len(p))
           Z == X \cup Y
<1>1. p \in Seq(Z) /\ v \in Seq(Z) /\ Len(p) \in Nat /\ Len(v) \in Nat
  BY SeqMonotonic
<1>2. q \in Seq(Z) /\ Len(q) = Len(p) /\ \A i \in 1..Len(p) : q[i] = v[i]
  BY <1>1
<1>3. SubSeq(p, 1, Len(p)) = p
  BY SubSeqFull
<1> HIDE DEF Z, q
<1>4. (\A i \in 1..Len(p) : q[i] = p[i]) => q = p
  BY <1>1, <1>2, SeqEqual
<1> QED
  BY <1>2, <1>3, <1>4 DEF q

(* A text begins with "0x".                                                *)
LEMMA PrefixIs ==
  ASSUME NEW X, NEW v \in Seq(X)
  PROVE  IsPrefix(<<"0", "x">>, v) <=> Len(v) >= 2 /\ v[1] = "0" /\ v[2] = "x"
<1> DEFINE p == <<"0", "x">>
           L == {"0", "x"}
<1>1. p \in Seq(L) /\ Len(p) = 2 /\ p[1] = "0" /\ p[2] = "x" /\ Len(v) \in Nat
  OBVIOUS
<1> HIDE DEF p, L
<1>2. IsPrefix(p, v) <=> 2 =< Len(v) /\ SubSeq(p, 1, 2) = SubSeq(v, 1, 2)
  BY <1>1, Zenon DEF IsPrefix
<1>3. 2 =< Len(v) => /\ SubSeq(v, 1, 2) = p <=> \A i \in 1..2 : v[i] = p[i]
                     /\ SubSeq(p, 1, 2) = p
  BY <1>1, BeginsWith
<1>4. (\A i \in 1..2 : v[i] = p[i]) <=> v[1] = p[1] /\ v[2] = p[2]
  OBVIOUS
<1>5. IsPrefix(p, v) <=> Len(v) >= 2 /\ v[1] = "0" /\ v[2] = "x"
  BY <1>1, <1>2, <1>3, <1>4
<1> QED
  BY <1>5 DEF p

(* A text begins with "0x" and a separator.                                *)
LEMMA PrefixAndUnderscore ==
  ASSUME NEW X, NEW v \in Seq(X)
  PROVE  LET p == <<"0", "x", Underscore>>
             P == Len(v) >= 3 /\ v[1] = "0" /\ v[2] = "x" /\ v[3] = Underscore
         IN (IsPrefix(p, v) <=> P) /\ ((Len(v) >= 3 /\ SubSeq(v, 1, 3) = p) <=> P)
<1> DEFINE p == <<"0", "x", Underscore>>
           L == {"0", "x", Underscore}
           P == Len(v) >= 3 /\ v[1] = "0" /\ v[2] = "x" /\ v[3] = Underscore
<1>1. p \in Seq(L) /\ Len(p) = 3 /\ p[1] = "0" /\ p[2] = "x" /\ p[3] = Underscore /\ Len(v) \in Nat
  OBVIOUS
<1> HIDE DEF p, L
<1>2. IsPrefix(p, v) <=> 3 =< Len(v) /\ SubSeq(p, 1, 3) = SubSeq(v, 1, 3)
  BY <1>1, Zenon DEF IsPrefix
<1>3. 3 =< Len(v) => /\ SubSeq(v, 1, 3) = p <=> \A i \in 1..3 : v[i] = p[i]
                     /\ SubSeq(p, 1, 3) = p
  BY <1>1, BeginsWith
<1>4. (\A i \in 1..3 : v[i] = p[i]) <=> v[1] = p[1] /\ v[2] = p[2] /\ v[3] = p[3]
  OBVIOUS
<1>5. (IsPrefix(p, v) <=> P) /\ ((Len(v) >= 3 /\ SubSeq(v, 1, 3) = p) <=> P)
  BY <1>1, <1>2, <1>3, <1>4
<1> QED
  BY <1>5 DEF p

(* The separators that parse_usize refuses are those that are not between  *)
(* two characters of the number.                                           *)
LEMMA MisplacedIs ==
  ASSUME NEW X, Plus \notin X, NEW v \in Seq(X)
  PROVE  Misplaced(v) <=> ~Grouped(v)
<1> DEFINE n == Len(v)
           P == Len(v) >= 3 /\ v[1] = "0" /\ v[2] = "x" /\ v[3] = Underscore
           U(i) == v[i] = Underscore
           Q == \A i \in 1..n : U(i) => i > 1 /\ i < n /\ ~U(i - 1) /\ ~U(i + 1)
           R == (n >= 1 /\ (U(1) \/ U(n))) \/ \E i \in 1..(n - 1) : U(i) /\ U(i + 1)
<1>1. n \in Nat /\ DOMAIN v = 1..n /\ (v # <<>> <=> n >= 1)
  OBVIOUS
<1>2. /\ IsPrefix(<<"0", "x", Underscore>>, v) <=> P
      /\ (n >= 3 /\ SubSeq(v, 1, 3) = <<"0", "x", Underscore>>) <=> P
  BY PrefixAndUnderscore
<1> HIDE DEF P
<1>3. Grouped(v) <=> Q /\ ~P
  BY <1>1, <1>2 DEF Grouped
<1>4. Misplaced(v) <=> R \/ P
  <2>1. n >= 1 => v[1] # Plus
    OBVIOUS
  <2> QED
    BY <1>1, <1>2, <2>1 DEF Misplaced
<1> HIDE DEF U
<1>5. Q => ~R
  <2> SUFFICES ASSUME Q, R PROVE FALSE
    OBVIOUS
  <2>1. CASE n >= 1 /\ (U(1) \/ U(n))
    BY <1>1, <2>1
  <2>2. CASE \E i \in 1..(n - 1) : U(i) /\ U(i + 1)
    <3>1. PICK i \in 1..(n - 1) : U(i) /\ U(i + 1)
      BY <2>2
    <3>2. i \in 1..n
      BY <1>1
    <3> QED
      BY <3>1, <3>2
  <2> QED
    BY <2>1, <2>2
<1>6. ~Q => R
  <2> SUFFICES ASSUME NEW i \in 1..n, U(i), ~(i > 1 /\ i < n /\ ~U(i - 1) /\ ~U(i + 1))
               PROVE  R
    OBVIOUS
  <2> HIDE DEF n
  <2>1. CASE i = 1 \/ i = n
    <3>1. n >= 1 /\ (U(1) \/ U(n))
      BY <1>1, <2>1
    <3> QED
      BY <3>1
  <2>2. CASE i > 1 /\ i < n /\ U(i + 1)
    <3>1. i \in 1..(n - 1)
      BY <1>1, <2>2
    <3> QED
      BY <2>2, <3>1
  <2>3. CASE i > 1 /\ i < n /\ U(i - 1)
    <3> DEFINE j == i - 1
    <3>1. j \in 1..(n - 1) /\ j + 1 = i
      BY <1>1, <2>3
    <3>2. U(j)
      BY <2>3
    <3>3. U(j + 1)
      BY <3>1
    <3> HIDE DEF j
    <3> QED
      BY <3>1, <3>2, <3>3
  <2>4. i = 1 \/ i = n \/ (i > 1 /\ i < n)
    BY <1>1
  <2> QED
    BY <2>1, <2>2, <2>3, <2>4
<1> HIDE DEF Q, R
<1> QED
  BY <1>3, <1>4, <1>5, <1>6

(* A filtered text has the characters that were not filtered out.          *)
LEMMA WithoutRange ==
  ASSUME NEW X, NEW t \in Seq(X), NEW S
  PROVE  Sieves(Without(t, S), t, Len(t), S)
<1>1. Len(t) \in 0..Len(t)
  OBVIOUS
<1> QED
  BY <1>1, KeptRange DEF Without

\* The integers that the digits of t are worth: one or none.
Valued(t, radix) ==
  IF /\ DigitPlaces(t) # {}
     /\ \A i \in DigitPlaces(t) : t[i] \in DOMAIN Digit /\ Digit[t[i]] < radix
     /\ Weighed(t, radix) < 2^Width
    THEN {Weighed(t, radix)}
    ELSE {}

(* What from_str_radix reads from a text without its separators is what    *)
(* the digits of the text are worth.                                       *)
LEMMA ReadDigits ==
  ASSUME NEW X, Plus \notin X, NEW t \in Seq(X), NEW radix \in Nat
  PROVE  FromStrRadix(Without(t, {Underscore}), radix, Width) = Valued(t, radix)
<1> DEFINE c == Without(t, {Underscore})
           n == Len(t)
<1>1. n \in Nat /\ DOMAIN t = 1..n
  BY LenProperties
<1>2. c \in Seq(X \ {Underscore})
  BY WithoutText
<1>3. /\ \A m \in 1..Len(c) : \E j \in DigitPlaces(t) : c[m] = t[j]
      /\ \A j \in DigitPlaces(t) : \E m \in 1..Len(c) : c[m] = t[j]
  <2>1. Sieves(c, t, n, {Underscore})
    BY WithoutRange
  <2> HIDE DEF c
  <2> QED
    BY <1>1, <2>1 DEF DigitPlaces, Sieves
<1> HIDE DEF c, n
<1>4. Len(c) \in Nat /\ DOMAIN c = 1..Len(c) /\ (c # <<>> <=> Len(c) # 0)
  BY <1>2
<1>5. c # <<>> <=> DigitPlaces(t) # {}
  <2>1. ASSUME c # <<>> PROVE DigitPlaces(t) # {}
    <3>1. 1 \in 1..Len(c)
      BY <1>4, <2>1
    <3> QED
      BY <1>3, <3>1
  <2>2. ASSUME NEW j \in DigitPlaces(t) PROVE c # <<>>
    <3>1. PICK m \in 1..Len(c) : c[m] = t[j]
      BY <1>3
    <3> QED
      BY <1>4, <3>1
  <2> QED
    BY <2>1, <2>2
<1>6. All(c, {e \in DOMAIN Digit : Digit[e] < radix})
        <=> \A i \in DigitPlaces(t) : t[i] \in DOMAIN Digit /\ Digit[t[i]] < radix
  BY <1>3, <1>4 DEF All
<1>7. c # <<>> => c[1] # Plus
  <2>1. c # <<>> => 1 \in 1..Len(c)
    BY <1>4
  <2> QED
    BY <1>2, <2>1
<1>8. FromStrRadix(c, radix, Width) =
        IF /\ c # <<>>
           /\ All(c, {e \in DOMAIN Digit : Digit[e] < radix})
           /\ Number(c, radix) < 2^Width
          THEN {Number(c, radix)}
          ELSE {}
  BY <1>7, Zenon DEF FromStrRadix
<1>9. (\A i \in DigitPlaces(t) : t[i] \in DOMAIN Digit) => Weighed(t, radix) = Number(c, radix)
  BY WeighedNumber DEF c
<1> QED
  BY <1>5, <1>6, <1>8, <1>9, Zenon DEF c, Valued

\* t is the character e and separators.
Single(t, e) ==
  \E z \in 1..Len(t) : t[z] = e /\ \A i \in (1..Len(t)) \ {z} : t[i] = Underscore

(* One character is kept if there is one, and only separators beside it.   *)
LEMMA OneKept ==
  ASSUME NEW X, NEW t \in Seq(X), NEW e, e # Underscore
  PROVE  Without(t, {Underscore}) = <<e>> <=> Single(t, e)
<1> DEFINE U == {Underscore}
           n == Len(t)
           W(s) == Without(s, U)
<1>1. n \in Nat
  OBVIOUS
<1>2. ASSUME NEW s \in Seq(X)
      PROVE  /\ W(s) \in Seq(X \ U) /\ Len(W(s)) \in Nat
             /\ \A m \in 1..Len(W(s)) : \E j \in 1..Len(s) : s[j] # Underscore /\ W(s)[m] = s[j]
             /\ \A j \in 1..Len(s) : s[j] # Underscore => \E m \in 1..Len(W(s)) : W(s)[m] = s[j]
  <2>1. W(s) \in Seq(X \ U)
    BY WithoutText
  <2>2. Sieves(W(s), s, Len(s), U)
    BY WithoutRange, Zenon
  <2> HIDE DEF W
  <2> QED
    BY <2>1, <2>2 DEF Sieves
<1>3. ASSUME NEW z \in 1..n
      PROVE  LET a == SubSeq(t, 1, z)  b == SubSeq(t, z + 1, n) IN
             /\ a \in Seq(X) /\ b \in Seq(X) /\ Len(a) = z /\ Len(b) = n - z /\ t = a \o b
             /\ \A i \in 1..z : a[i] = t[i]
             /\ \A i \in 1..(n - z) : b[i] = t[z + i]
  <2> DEFINE a == SubSeq(t, 1, z)
             b == SubSeq(t, z + 1, n)
  <2>1. a \in Seq(X) /\ Len(a) = z /\ \A i \in 1..z : a[i] = t[i]
    OBVIOUS
  <2>2. b \in Seq(X) /\ Len(b) = n - z /\ \A i \in 1..(n - z) : b[i] = t[z + i]
    OBVIOUS
  <2>3. a \o b = SubSeq(t, 1, n)
    BY <1>1, ConcatAdjacentSubSeq
  <2>4. SubSeq(t, 1, n) = t
    BY SubSeqFull
  <2> QED
    BY <2>1, <2>2, <2>3, <2>4, Zenon
<1>4. ASSUME NEW z \in 1..n, NEW y \in 1..n, W(t) = <<e>>, t[z] # Underscore, t[y] # Underscore
      PROVE  y =< z
  <2> SUFFICES ASSUME z < y PROVE FALSE
    BY <1>1
  <2> DEFINE a == SubSeq(t, 1, z)
             b == SubSeq(t, z + 1, n)
  <2>1. /\ a \in Seq(X) /\ b \in Seq(X) /\ Len(a) = z /\ Len(b) = n - z /\ t = a \o b
        /\ a[z] = t[z] /\ b[y - z] = t[y] /\ z \in 1..Len(a) /\ y - z \in 1..Len(b)
    BY <1>1, <1>3
  <2> HIDE DEF a, b, W, U, n
  <2>2. W(t) = W(a) \o W(b)
    <3>1. Splits(t, a, b, U)
      BY <2>1, KeptOfConcat
    <3> QED
      BY <3>1 DEF Splits, W
  <2>3. Len(W(a)) >= 1 /\ Len(W(b)) >= 1 /\ W(a) \in Seq(X \ U) /\ W(b) \in Seq(X \ U)
    <3>1. W(a) \in Seq(X \ U) /\ W(b) \in Seq(X \ U)
      BY <1>2, <2>1
    <3>2. (\E m \in 1..Len(W(a)) : TRUE) /\ (\E m \in 1..Len(W(b)) : TRUE)
      BY <1>2, <1>4, <2>1
    <3> QED
      BY <3>1, <3>2
  <2>4. Len(W(t)) >= 2
    BY <2>2, <2>3, ConcatProperties
  <2>5. Len(W(t)) = 1
    BY <1>4
  <2> QED
    BY <2>4, <2>5
<1>5. ASSUME W(t) = <<e>>
      PROVE  \E z \in 1..n : t[z] = e /\ \A i \in (1..n) \ {z} : t[i] = Underscore
  <2>1. Len(W(t)) = 1 /\ W(t)[1] = e
    BY <1>5
  <2>2. PICK z \in 1..n : t[z] # Underscore /\ t[z] = e
    <3>1. 1 \in 1..Len(W(t))
      BY <2>1
    <3>2. PICK z \in 1..n : t[z] # Underscore /\ W(t)[1] = t[z]
      BY <1>2, <3>1, Zenon
    <3> QED
      BY <2>1, <3>2
  <2>3. ASSUME NEW i \in (1..n) \ {z}, t[i] # Underscore PROVE FALSE
    <3>1. i =< z /\ z =< i
      BY <1>4, <1>5, <2>2, <2>3
    <3> QED
      BY <1>1, <3>1
  <2> QED
    BY <2>2, <2>3
<1>6. ASSUME NEW z \in 1..n, t[z] = e, \A i \in (1..n) \ {z} : t[i] = Underscore
      PROVE  W(t) = <<e>>
  <2> DEFINE k == Kept(t, U)
             S == {i \in 0..n : k[i] = IF i < z THEN <<>> ELSE <<e>>}
  <2>1. Filters(k, t, U)
    BY KeptIs
  <2>2. k[0] = <<>> /\ \A i \in 1..n : k[i] = IF t[i] \in U THEN k[i - 1] ELSE Append(k[i - 1], t[i])
    BY <2>1 DEF Filters
  <2>3. t[z] \notin U /\ \A i \in (1..n) \ {z} : t[i] \in U
    BY <1>6
  <2>4. Append(<<>>, e) = <<e>>
    OBVIOUS
  <2> HIDE DEF k, U
  <2>5. 0 \in S
    BY <1>1, <2>2
  <2>6. ASSUME NEW i \in 1..n, i - 1 \in S PROVE i \in S
    <3>1. k[i - 1] = IF i - 1 < z THEN <<>> ELSE <<e>>
      BY <2>6
    <3>2. CASE i = z
      <4>1. k[i - 1] = <<>>
        BY <1>1, <3>1, <3>2
      <4>2. t[i] \notin U /\ t[i] = e
        BY <1>6, <2>3, <3>2
      <4>3. k[i] = Append(k[i - 1], t[i])
        BY <2>2, <4>2
      <4>4. k[i] = <<e>>
        BY <2>4, <4>1, <4>2, <4>3
      <4> QED
        BY <1>1, <3>2, <4>4
    <3>3. CASE i # z
      <4>1. k[i] = k[i - 1]
        BY <2>2, <2>3, <3>3
      <4>2. i - 1 < z <=> i < z
        BY <1>1, <3>3
      <4> QED
        BY <1>1, <3>1, <4>1, <4>2
    <3> QED
      BY <3>2, <3>3
  <2> HIDE DEF S
  <2>7. n \in S
    <3>1. \A i \in 0..n : i \in S
      BY <1>1, <2>5, <2>6, Induction
    <3> QED
      BY <1>1, <3>1
  <2> QED
    BY <1>1, <2>7 DEF S, W, k, Without
<1> QED
  BY <1>5, <1>6 DEF Single

\* The places of the radix mark, and whether a "0" alone is before the first.
Marks(v) == {i \in DOMAIN v : v[i] = "x"}

ZeroBefore(v, m) ==
  \E z \in 1..(m - 1) : v[z] = "0" /\ \A i \in (1..(m - 1)) \ {z} : v[i] = Underscore

(* The integers that a text denotes, in the two cases of its radix.        *)
LEMMA DenotedIs ==
  ASSUME NEW X, NEW v \in Seq(X)
  PROVE  /\ Marks(v) = {} => Denoted(v) = IF Grouped(v) THEN Valued(v, 10) ELSE {}
         /\ Marks(v) # {} => /\ Min(Marks(v)) \in Marks(v)
                             /\ \A i \in Marks(v) : Min(Marks(v)) =< i
                             /\ Denoted(v) = IF Grouped(v) /\ ZeroBefore(v, Min(Marks(v)))
                                               THEN Valued(SubSeq(v, Min(Marks(v)) + 1, Len(v)), 16)
                                               ELSE {}
<1> DEFINE x == Marks(v)
<1>1. SubSeq(v, 1, Len(v)) = v
  BY SubSeqFull
<1>2. x = {} => Denoted(v) = IF Grouped(v) THEN Valued(v, 10) ELSE {}
  BY <1>1, Zenon DEF Denoted, Valued, DigitPlaces, Marks
<1>3. x # {} => Denoted(v) = IF Grouped(v) /\ ZeroBefore(v, Min(x))
                               THEN Valued(SubSeq(v, Min(x) + 1, Len(v)), 16) ELSE {}
  BY Zenon DEF Denoted, Valued, DigitPlaces, Marks, ZeroBefore
<1>4. x # {} => Min(x) \in x /\ \A i \in x : Min(x) =< i
  <2>1. x \subseteq Nat
    BY DEF Marks
  <2>2. x # {} => \E m \in x : \A i \in x : m =< i
    BY <2>1, LeastNatural
  <2> QED
    BY <2>2, Zenon DEF Min
<1> QED
  BY <1>2, <1>3, <1>4, Zenon

\* c, without its separators, is a text around a mark: a, the mark and b.
Around(c, a, b, X) ==
  /\ a \in Seq(X) /\ b \in Seq(X) /\ c \in Seq(X)
  /\ \A i \in 1..Len(a) : a[i] # "x"
  /\ Len(c) = Len(a) + 1 + Len(b)
  /\ \A i \in 1..Len(a) : c[i] = a[i]
  /\ c[Len(a) + 1] = "x"
  /\ \A i \in 1..Len(b) : c[Len(a) + 1 + i] = b[i]

(* A text around its first radix mark.                                     *)
LEMMA AroundMark ==
  ASSUME NEW X, "x" \in X, NEW v \in Seq(X), NEW m \in 1..Len(v), v[m] = "x",
         \A i \in 1..(m - 1) : v[i] # "x"
  PROVE  LET a == Without(SubSeq(v, 1, m - 1), {Underscore})
             b == Without(SubSeq(v, m + 1, Len(v)), {Underscore})
         IN Around(Compact(v), a, b, X) /\ (a = <<"0">> <=> ZeroBefore(v, m))
<1> DEFINE n == Len(v)
           U == {Underscore}
           a0 == SubSeq(v, 1, m - 1)
           b0 == SubSeq(v, m + 1, n)
           a == Without(a0, U)
           b == Without(b0, U)
           c == Without(v, U)
           y == <<"x">>
<1>1. /\ n \in Nat /\ a0 \in Seq(X) /\ Len(a0) = m - 1 /\ \A i \in 1..(m - 1) : a0[i] = v[i]
  OBVIOUS
<1>2. b0 \in Seq(X) /\ y \in Seq(X) /\ Len(y) = 1 /\ y[1] = "x"
  OBVIOUS
<1>3. PICK w \in Seq(X) : w = a0 \o y /\ v = w \o b0
  <2>1. a0 \o y = SubSeq(v, 1, m)
    BY SubSeqRecursiveSecond
  <2>2. SubSeq(v, 1, m) \o b0 = SubSeq(v, 1, n)
    BY <1>1, ConcatAdjacentSubSeq
  <2>3. SubSeq(v, 1, n) = v /\ SubSeq(v, 1, m) \in Seq(X)
    BY SubSeqFull
  <2> QED
    BY <2>1, <2>2, <2>3, Zenon
<1>4. Without(y, U) = y
  <2>1. Single(y, "x")
    BY <1>2 DEF Single
  <2>2. "x" # Underscore
    BY DEF Underscore
  <2> HIDE DEF y
  <2>3. Without(y, U) = <<"x">>
    BY <1>2, <2>1, <2>2, OneKept
  <2> QED
    BY <2>3 DEF y
<1> HIDE DEF a0, b0, y
<1>5. a \in Seq(X \ U) /\ b \in Seq(X \ U) /\ c \in Seq(X \ U)
  BY <1>1, <1>2, WithoutText
<1>6. a \in Seq(X) /\ b \in Seq(X) /\ c \in Seq(X)
  BY <1>5, SeqMonotonic
<1>7. \A i \in 1..Len(a) : a[i] # "x"
  <2>1. Sieves(a, a0, Len(a0), U)
    BY <1>1, WithoutRange
  <2> HIDE DEF a
  <2> QED
    BY <1>1, <2>1 DEF Sieves
<1>8. a = <<"0">> <=> ZeroBefore(v, m)
  <2>1. "0" # Underscore
    BY DEF Underscore
  <2>2. a = <<"0">> <=> Single(a0, "0")
    BY <1>1, <2>1, OneKept
  <2>3. Single(a0, "0") <=> ZeroBefore(v, m)
    BY <1>1 DEF ZeroBefore, Single
  <2> QED
    BY <2>2, <2>3
<1> HIDE DEF U
<1>9. c = Without(w, U) \o b /\ Without(w, U) = a \o y
  <2>1. Splits(v, w, b0, U)
    BY <1>2, <1>3, KeptOfConcat
  <2>2. Splits(w, a0, y, U)
    BY <1>1, <1>2, <1>3, KeptOfConcat
  <2> QED
    BY <1>4, <2>1, <2>2, Zenon DEF Splits
<1> HIDE DEF a, b, c
<1>10. /\ Len(c) = Len(a) + 1 + Len(b)
       /\ \A i \in 1..Len(a) : c[i] = a[i]
       /\ c[Len(a) + 1] = "x"
       /\ \A i \in 1..Len(b) : c[Len(a) + 1 + i] = b[i]
  <2> DEFINE d == Without(w, U)
  <2>1. d = a \o y /\ c = d \o b
    BY <1>9
  <2> HIDE DEF d
  <2>2. /\ d \in Seq(X) /\ Len(d) = Len(a) + 1
        /\ \A i \in 1..Len(a) : d[i] = a[i]
        /\ d[Len(a) + 1] = "x"
    <3>1. d \in Seq(X) /\ Joined(d, a, y)
      BY <1>2, <1>6, <2>1, Joining
    <3>2. Len(a) \in Nat /\ 1 \in 1..Len(y)
      BY <1>2, <1>6
    <3> QED
      BY <1>2, <3>1, <3>2 DEF Joined
  <2>3. Joined(c, d, b)
    BY <1>6, <2>1, <2>2, Joining
  <2>4. Len(a) \in Nat
    BY <1>6
  <2> QED
    BY <2>2, <2>3, <2>4 DEF Joined
<1> QED
  BY <1>6, <1>7, <1>8, <1>10, Zenon DEF a, b, c, a0, b0, U, Compact, Around

(* parse_usize reads the integer that a text denotes, and refuses a text   *)
(* that denotes none: a sign apart.                                        *)
LEMMA IntegerExact ==
  ASSUME NEW X, Plus \notin X, NEW v \in Seq(X)
  PROVE  ParseUsize(v) = Denoted(v)
<1> DEFINE c == Compact(v)
           x == Marks(v)
           n == Len(v)
<1>1. Misplaced(v) <=> ~Grouped(v)
  BY MisplacedIs
<1>2. n \in Nat /\ DOMAIN v = 1..n /\ \A i \in 1..n : v[i] \in X
  BY LenProperties
<1>3. c \in Seq(X) /\ Sieves(c, v, n, {Underscore})
  <2>1. c \in Seq(X \ {Underscore})
    BY WithoutText DEF Compact
  <2>2. c \in Seq(X)
    BY <2>1, SeqMonotonic
  <2> QED
    BY <2>2, WithoutRange DEF Compact
<1>4. IsPrefix(<<"0", "x">>, c) <=> Len(c) >= 2 /\ c[1] = "0" /\ c[2] = "x"
  BY <1>3, PrefixIs
<1>5. ASSUME x = {}
      PROVE  ParseUsize(v) = Denoted(v)
  <2>1. ~IsPrefix(<<"0", "x">>, c)
    <3>1. \A i \in 1..Len(c) : c[i] # "x"
      BY <1>2, <1>3, <1>5 DEF Marks, Sieves
    <3> HIDE DEF c
    <3> QED
      BY <1>3, <1>4, <3>1
  <2>2. FromStrRadix(c, 10, Width) = Valued(v, 10)
    BY ReadDigits DEF Compact
  <2>3. Denoted(v) = IF Grouped(v) THEN Valued(v, 10) ELSE {}
    BY <1>5, DenotedIs
  <2> QED
    BY <1>1, <2>1, <2>2, <2>3, Zenon DEF ParseUsize
<1>6. ASSUME x # {}
      PROVE  ParseUsize(v) = Denoted(v)
  <2> DEFINE m == Min(x)
             b0 == SubSeq(v, m + 1, n)
             a == Without(SubSeq(v, 1, m - 1), {Underscore})
             b == Without(b0, {Underscore})
  <2>1. /\ m \in x /\ \A i \in x : m =< i
        /\ Denoted(v) = IF Grouped(v) /\ ZeroBefore(v, m) THEN Valued(b0, 16) ELSE {}
    BY <1>6, DenotedIs
  <2> HIDE DEF m
  <2>2. m \in 1..n /\ v[m] = "x" /\ \A i \in 1..(m - 1) : v[i] # "x"
    BY <1>2, <2>1 DEF Marks
  <2>3. "x" \in X
    BY <1>2, <2>2
  <2>4. Around(c, a, b, X) /\ (a = <<"0">> <=> ZeroBefore(v, m))
    BY <2>2, <2>3, AroundMark
  <2>5. b0 \in Seq(X)
    BY <1>2, <2>2
  <2>6. FromStrRadix(b, 16, Width) = Valued(b0, 16)
    BY <2>5, ReadDigits
  <2> HIDE DEF a, b, b0, c, n, x
  <2>7. /\ a \in Seq(X) /\ b \in Seq(X) /\ Len(a) \in Nat /\ Len(b) \in Nat
        /\ \A i \in 1..Len(a) : a[i] # "x"
        /\ Len(c) = Len(a) + 1 + Len(b)
        /\ \A i \in 1..Len(a) : c[i] = a[i]
        /\ c[Len(a) + 1] = "x"
        /\ \A i \in 1..Len(b) : c[Len(a) + 1 + i] = b[i]
    BY <2>4 DEF Around
  <2>8. IsPrefix(<<"0", "x">>, c) <=> a = <<"0">>
    <3>1. ASSUME a = <<"0">> PROVE IsPrefix(<<"0", "x">>, c)
      <4>1. Len(a) = 1 /\ a[1] = "0"
        BY <3>1
      <4> QED
        BY <1>4, <2>7, <4>1
    <3>2. ASSUME Len(c) >= 2, c[1] = "0", c[2] = "x" PROVE a = <<"0">>
      <4>1. CASE Len(a) = 0
        BY <2>7, <3>2, <4>1
      <4>2. CASE Len(a) >= 2
        <5>1. 2 \in 1..Len(a)
          BY <2>7, <4>2
        <5> QED
          BY <2>7, <3>2, <5>1
      <4>3. CASE Len(a) = 1
        <5>1. a[1] = "0"
          BY <2>7, <3>2, <4>3
        <5> QED
          BY <2>7, <4>3, <5>1
      <4>4. Len(a) = 0 \/ Len(a) >= 2 \/ Len(a) = 1
        <5> DEFINE l == Len(a)
        <5>1. l \in Nat
          BY <2>7
        <5> HIDE DEF l
        <5>2. l = 0 \/ l >= 2 \/ l = 1
          BY <5>1
        <5> QED
          BY <5>2 DEF l
      <4> QED
        BY <4>1, <4>2, <4>3, <4>4, Zenon
    <3> QED
      BY <1>4, <3>1, <3>2
  <2>9. a = <<"0">> => SubSeq(c, 3, Len(c)) = b
    <3> SUFFICES ASSUME a = <<"0">> PROVE SubSeq(c, 3, Len(c)) = b
      OBVIOUS
    <3> DEFINE d == SubSeq(c, 3, Len(c))
    <3>1. Len(a) = 1
      OBVIOUS
    <3>2. Len(c) = 2 + Len(b) /\ \A i \in 1..Len(b) : c[2 + i] = b[i]
      BY <2>7, <3>1
    <3>3. d \in Seq(X) /\ Len(d) = Len(b) /\ \A i \in 1..Len(b) : d[i] = c[2 + i]
      BY <1>3, <2>7, <3>2
    <3> HIDE DEF d
    <3>4. d = b
      BY <2>7, <3>2, <3>3, SeqEqual
    <3> QED
      BY <3>4 DEF d
  <2>10. FromStrRadix(c, 10, Width) = {}
    <3>1. c # <<>> /\ c[1] # Plus /\ DOMAIN c = 1..Len(c)
      BY <1>3, <2>7
    <3>2. ~All(c, {e \in DOMAIN Digit : Digit[e] < 10})
      <4>1. Len(a) + 1 \in DOMAIN c
        BY <2>7, <3>1
      <4>2. "x" \notin DOMAIN Digit
        BY DEF Digit
      <4> QED
        BY <2>7, <4>1, <4>2 DEF All
    <3> QED
      BY <3>1, <3>2, Zenon DEF FromStrRadix
  <2> QED
    BY <1>1, <2>1, <2>4, <2>6, <2>8, <2>9, <2>10, Zenon DEF ParseUsize, c
<1> QED
  BY <1>5, <1>6

(* Whatever separators group its digits, in either radix, an integer is    *)
(* read as the value of its digits, and a text that writes none is         *)
(* refused, for texts of any length, words of any width and any characters *)
(* but the sign that from_str_radix accepts before a digit.                *)
THEOREM IntegerRead ==
  ASSUME Plus \notin Alphabet["integer"]
  PROVE  Spec => []IntegersReadAsWritten
<1>1. TextInputs => IntegersReadAsWritten
  <2> SUFFICES ASSUME TextInputs, kind = "integer" PROVE ParseUsize(input) = Denoted(input)
    BY DEF IntegersReadAsWritten
  <2>1. input \in Seq(Alphabet["integer"])
    BY InputsAssumption DEF TextInputs
  <2> QED
    BY <2>1, IntegerExact
<1> QED
  BY <1>1, TextInputsHold, PTL

-----------------------------------------------------------------------------
(* Lines *)

(* A least number is the minimum.                                          *)
LEMMA MinIs ==
  ASSUME NEW T, T \subseteq Nat, NEW m \in T, \A i \in T : m =< i
  PROVE  Min(T) = m
<1>1. Min(T) \in T /\ \A i \in T : Min(T) =< i
  BY Zenon DEF Min
<1>2. Min(T) =< m /\ m =< Min(T) /\ m \in Nat /\ Min(T) \in Nat
  BY <1>1
<1> QED
  BY <1>2

(* The same of the greatest.                                               *)
LEMMA MaxIs ==
  ASSUME NEW T, T \subseteq Nat, NEW m \in T, \A i \in T : i =< m
  PROVE  Max(T) = m
<1>1. Max(T) \in T /\ \A i \in T : i =< Max(T)
  BY Zenon DEF Max
<1>2. Max(T) =< m /\ m =< Max(T) /\ m \in Nat /\ Max(T) \in Nat
  BY <1>1
<1> QED
  BY <1>2

(* A set of numbers up to n has both.                                      *)
LEMMA EndsExist ==
  ASSUME NEW n \in Nat, NEW T, T \subseteq 1..n, T # {}
  PROVE  \E p \in T, q \in T : \A i \in T : p =< i /\ i =< q
<1>1. PICK p \in T : \A i \in T : p =< i
  <2>1. T \subseteq Nat
    OBVIOUS
  <2> QED
    BY <2>1, LeastNatural
<1> DEFINE R == {n - i : i \in T}
<1>2. R \subseteq Nat /\ R # {}
  OBVIOUS
<1>3. PICK r \in R : \A x \in R : r =< x
  BY <1>2, LeastNatural
<1>4. PICK q \in T : r = n - q
  BY <1>3
<1>5. \A i \in T : i =< q
  <2> SUFFICES ASSUME NEW i \in T PROVE i =< q
    OBVIOUS
  <2>1. n - i \in R
    OBVIOUS
  <2>2. n - q =< n - i
    BY <1>3, <1>4, <2>1
  <2> QED
    BY <2>2
<1> QED
  BY <1>1, <1>5

\* Of the characters from i to j, those from m to n are from g to h.
PartIs(s, i, j, m, n, g, h) == SubSeq(SubSeq(s, i, j), m, n) = SubSeq(s, g, h)

(* A part of a part of a text.                                             *)
LEMMA PartOfPart ==
  ASSUME NEW X, NEW s \in Seq(X), NEW i \in 1..(Len(s) + 1), NEW j \in (i - 1)..Len(s),
         NEW m \in 1..(j - i + 2), NEW n \in (m - 1)..(j - i + 1),
         NEW g \in Int, NEW h \in Int, g = i + m - 1, h = i + n - 1
  PROVE  PartIs(s, i, j, m, n, g, h)
<1> DEFINE a == SubSeq(s, i, j)
           b == SubSeq(a, m, n)
           c == SubSeq(s, i + m - 1, i + n - 1)
<1>1. Len(s) \in Nat
  OBVIOUS
<1>2. a \in Seq(X) /\ Len(a) = j - i + 1 /\ \A k \in 1..(j - i + 1) : a[k] = s[i + k - 1]
  BY <1>1
<1>3. c \in Seq(X) /\ Len(c) = n - m + 1 /\ \A k \in 1..(n - m + 1) : c[k] = s[(i + m - 1) + k - 1]
  BY <1>1
<1> HIDE DEF a, c
<1>4. b \in Seq(X) /\ Len(b) = n - m + 1 /\ \A k \in 1..(n - m + 1) : b[k] = a[m + k - 1]
  BY <1>1, <1>2
<1> HIDE DEF b
<1>5. ASSUME NEW k \in 1..Len(b) PROVE b[k] = c[k]
  <2>1. m + k - 1 \in 1..(j - i + 1) /\ i + (m + k - 1) - 1 = (i + m - 1) + k - 1
    BY <1>1, <1>4
  <2>2. a[m + k - 1] = s[i + (m + k - 1) - 1]
    BY <1>2, <2>1
  <2> QED
    BY <1>3, <1>4, <2>1, <2>2
<1>6. b = c
  BY <1>3, <1>4, <1>5, SeqEqual
<1> QED
  BY <1>6 DEF a, b, c, PartIs

\* Between i and j, what is not blank reaches from p to q.
Core(s, i, j, p, q) ==
  /\ p \in i..j /\ q \in p..j
  /\ s[p] # Space /\ s[q] # Space
  /\ \A k \in i..(p - 1) : s[k] = Space
  /\ \A k \in (q + 1)..j : s[k] = Space

Blanks(s, i, j) == \A k \in i..j : s[k] = Space

(* What is left of a part of a text when it is trimmed.                    *)
LEMMA TrimIs ==
  ASSUME NEW X, NEW s \in Seq(X), NEW i \in 1..(Len(s) + 1), NEW j \in (i - 1)..Len(s)
  PROVE  /\ Trim(SubSeq(s, i, j)) = <<>> <=> Blanks(s, i, j)
         /\ \A p, q \in Int : Core(s, i, j, p, q) => Trim(SubSeq(s, i, j)) = SubSeq(s, p, q)
         /\ ~Blanks(s, i, j) => \E p \in i..j : \E q \in p..j : Core(s, i, j, p, q)
<1> DEFINE a == SubSeq(s, i, j)
           T == {k \in DOMAIN a : a[k] # Space}
<1>1. Len(s) \in Nat /\ i \in Nat /\ j \in Int /\ j - i + 1 \in Nat
  OBVIOUS
<1>2. a \in Seq(X) /\ Len(a) = j - i + 1 /\ DOMAIN a = 1..(j - i + 1)
      /\ \A k \in 1..(j - i + 1) : a[k] = s[i + k - 1]
  BY <1>1
<1>3. Trim(a) = IF T = {} THEN <<>> ELSE SubSeq(a, Min(T), Max(T))
  BY Zenon DEF Trim
<1> HIDE DEF a
<1>4. ASSUME NEW k \in i..j
      PROVE  k - i + 1 \in 1..(j - i + 1) /\ a[k - i + 1] = s[k]
  <2>1. k - i + 1 \in 1..(j - i + 1) /\ i + (k - i + 1) - 1 = k
    BY <1>1
  <2> QED
    BY <1>2, <2>1
<1>5. ASSUME NEW k \in 1..(j - i + 1)
      PROVE  i + k - 1 \in i..j /\ a[k] = s[i + k - 1]
  BY <1>1, <1>2
<1>6. T = {} <=> Blanks(s, i, j)
  <2>1. ASSUME T = {}, NEW k \in i..j PROVE s[k] = Space
    BY <1>2, <1>4, <2>1
  <2>2. ASSUME Blanks(s, i, j), NEW k \in T PROVE FALSE
    BY <1>2, <1>5, <2>2 DEF Blanks
  <2> QED
    BY <2>1, <2>2 DEF Blanks
<1>7. T \subseteq 1..(j - i + 1) /\ T \subseteq Nat /\ \A k \in 1..(j - i + 1) : k \in T <=> a[k] # Space
  <2>1. T \subseteq 1..(j - i + 1) /\ \A k \in 1..(j - i + 1) : k \in T <=> a[k] # Space
    BY <1>2
  <2> HIDE DEF T
  <2> QED
    BY <1>1, <2>1
<1> HIDE DEF T
<1>8. ASSUME NEW p \in Int, NEW q \in Int, Core(s, i, j, p, q)
      PROVE  Trim(a) = SubSeq(s, p, q) /\ SubSeq(s, p, q) # <<>>
  <2> DEFINE m == p - i + 1
             n == q - i + 1
  <2>1. /\ p \in i..j /\ q \in p..j /\ q \in i..j /\ s[p] # Space /\ s[q] # Space
        /\ \A k \in i..(p - 1) : s[k] = Space
        /\ \A k \in (q + 1)..j : s[k] = Space
    BY <1>1, <1>8 DEF Core
  <2>2. m \in T /\ n \in T
    BY <1>4, <1>7, <2>1
  <2>3. ASSUME NEW k \in T PROVE m =< k /\ k =< n
    <3>1. k \in 1..(j - i + 1) /\ i + k - 1 \in i..j /\ s[i + k - 1] # Space
      BY <1>5, <1>7
    <3>2. ~(i + k - 1 \in i..(p - 1)) /\ ~(i + k - 1 \in (q + 1)..j)
      BY <2>1, <3>1
    <3> QED
      BY <1>1, <2>1, <3>1, <3>2
  <2> HIDE DEF m, n
  <2>4. m \in Int /\ n \in Int /\ m >= 1 /\ m =< n /\ n =< j - i + 1
        /\ i + m - 1 = p /\ i + n - 1 = q
    BY <1>1, <2>1 DEF m, n
  <2>5. Min(T) = m /\ Max(T) = n
    BY <1>7, <2>2, <2>3, MinIs, MaxIs
  <2>6. Trim(a) = SubSeq(a, m, n)
    BY <1>3, <2>2, <2>5
  <2>7. /\ m \in 1..(j - i + 2) /\ n \in (m - 1)..(j - i + 1)
    BY <1>1, <2>4
  <2>8. SubSeq(a, m, n) = SubSeq(s, p, q)
    <3>1. PartIs(s, i, j, m, n, p, q)
      BY <2>4, <2>7, PartOfPart
    <3> QED
      BY <3>1 DEF a, PartIs
  <2>9. Len(SubSeq(s, p, q)) = q - p + 1 /\ q - p + 1 > 0
    BY <1>1, <2>1
  <2>10. SubSeq(s, p, q) # <<>>
    <3>1. Len(SubSeq(s, p, q)) # 0
      BY <2>9, <1>1
    <3>2. Len(<<>>) = 0
      OBVIOUS
    <3> QED
      BY <3>1, <3>2, Zenon
  <2> QED
    BY <2>4, <2>6, <2>8, <2>10
<1>9. ASSUME T # {}
      PROVE  \E p \in i..j : \E q \in p..j : Core(s, i, j, p, q)
  <2>1. PICK m \in T, n \in T : \A k \in T : m =< k /\ k =< n
    BY <1>1, <1>7, <1>9, EndsExist
  <2> DEFINE p == i + m - 1
             q == i + n - 1
  <2>2. m =< n /\ m \in 1..(j - i + 1) /\ n \in 1..(j - i + 1)
    BY <1>7, <2>1
  <2>3. p \in i..j /\ q \in p..j /\ q \in i..j
    BY <1>1, <2>2
  <2>4. s[p] # Space /\ s[q] # Space
    BY <1>5, <1>7, <2>1, <2>2
  <2>5. ASSUME NEW k \in i..j, s[k] # Space PROVE p =< k /\ k =< q
    <3>1. k - i + 1 \in T
      BY <1>4, <1>7, <2>5
    <3>2. m =< k - i + 1 /\ k - i + 1 =< n
      BY <2>1, <3>1
    <3> QED
      BY <1>1, <2>2, <3>2
  <2> HIDE DEF p, q
  <2>6. \A k \in i..(p - 1) : k \in i..j /\ ~(p =< k)
    BY <1>1, <2>3
  <2>7. \A k \in (q + 1)..j : k \in i..j /\ ~(k =< q)
    BY <1>1, <2>3
  <2>8. Core(s, i, j, p, q)
    BY <2>3, <2>4, <2>5, <2>6, <2>7 DEF Core
  <2> QED
    BY <2>3, <2>8
<1>10. Trim(a) = <<>> <=> T = {}
  <2>1. T = {} => Trim(a) = <<>>
    BY <1>3
  <2>2. ASSUME T # {} PROVE Trim(a) # <<>>
    <3>1. PICK p \in i..j : \E q \in p..j : Core(s, i, j, p, q)
      BY <1>9, <2>2
    <3>2. PICK q \in p..j : Core(s, i, j, p, q)
      BY <3>1
    <3>3. p \in Int /\ q \in Int
      BY <1>1
    <3> QED
      BY <1>8, <3>2, <3>3
  <2> QED
    BY <2>1, <2>2
<1> QED
  BY <1>6, <1>8, <1>9, <1>10 DEF a

\* Entry, of a line whose comment is cut off.
Split(s) ==
  LET l == Trim(s)
      splits == {i \in DOMAIN l : l[i] = Equals}
  IN IF splits = {} THEN {}
     ELSE LET key == Trim(SubSeq(l, 1, Min(splits) - 1))
              value == Trim(SubSeq(l, Min(splits) + 1, Len(l)))
          IN IF key = <<>> \/ value = <<>> THEN {} ELSE {<<key, value>>}

\* s is cut at e: its first sign of equality, and between p and q.
Cut(s, p, e, q) ==
  /\ Core(s, 1, Len(s), p, q) /\ e \in p..q
  /\ s[e] = Equals /\ \A k \in p..(e - 1) : s[k] # Equals

(* Where a line is cut, and what is left and right of it.                  *)
LEMMA SplitAt ==
  ASSUME NEW X, NEW s \in Seq(X),
         NEW p \in 1..Len(s), NEW e \in 1..Len(s), NEW q \in 1..Len(s), Cut(s, p, e, q)
  PROVE  LET key == Trim(SubSeq(s, p, e - 1))
             value == Trim(SubSeq(s, e + 1, q))
         IN Split(s) = IF key = <<>> \/ value = <<>> THEN {} ELSE {<<key, value>>}
<1> DEFINE n == Len(s)
           l == Trim(s)
           T == {i \in DOMAIN l : l[i] = Equals}
           d == e - p + 1
<1>1. /\ n \in Nat /\ p \in Int /\ e \in Int /\ q \in Int /\ 1 =< p /\ p =< e /\ e =< q /\ q =< n
      /\ Core(s, 1, n, p, q)
      /\ s[e] = Equals /\ \A k \in p..(e - 1) : s[k] # Equals
  BY DEF Cut
<1>2. l = SubSeq(s, p, q)
  <2>1. SubSeq(s, 1, n) = s
    BY SubSeqFull
  <2>2. 1 \in 1..(n + 1) /\ n \in (1 - 1)..n
    BY <1>1
  <2>3. Trim(SubSeq(s, 1, n)) = SubSeq(s, p, q)
    BY <1>1, <2>2, TrimIs
  <2> QED
    BY <2>1, <2>3
<1> HIDE DEF l, n
<1>3. /\ l \in Seq(X) /\ Len(l) = q - p + 1 /\ DOMAIN l = 1..(q - p + 1)
      /\ \A k \in 1..(q - p + 1) : l[k] = s[p + k - 1]
  BY <1>1, <1>2
<1>4. d \in T /\ \A k \in T : d =< k
  <2>1. d \in 1..(q - p + 1) /\ p + d - 1 = e
    BY <1>1
  <2>2. d \in T
    BY <1>1, <1>3, <2>1
  <2>3. ASSUME NEW k \in T PROVE d =< k
    <3>1. k \in 1..(q - p + 1) /\ s[p + k - 1] = Equals
      BY <1>3
    <3>2. ~(p + k - 1 \in p..(e - 1))
      BY <1>1, <3>1
    <3> QED
      BY <1>1, <3>1, <3>2
  <2> QED
    BY <2>2, <2>3
<1>5. T \subseteq Nat
  BY <1>1, <1>3
<1> HIDE DEF T
<1>6. Min(T) = d
  BY <1>4, <1>5, MinIs
<1>7. /\ SubSeq(l, 1, d - 1) = SubSeq(s, p, e - 1)
      /\ SubSeq(l, d + 1, Len(l)) = SubSeq(s, e + 1, q)
  <2>1. /\ p \in 1..(Len(s) + 1) /\ q \in (p - 1)..Len(s)
        /\ 1 \in 1..(q - p + 2) /\ d - 1 \in (1 - 1)..(q - p + 1)
        /\ d + 1 \in 1..(q - p + 2) /\ Len(l) \in ((d + 1) - 1)..(q - p + 1)
        /\ p + 1 - 1 = p /\ p + (d - 1) - 1 = e - 1 /\ e - 1 \in Int
        /\ p + (d + 1) - 1 = e + 1 /\ p + Len(l) - 1 = q /\ e + 1 \in Int
    BY <1>1, <1>3 DEF n
  <2> HIDE DEF d
  <2>2. PartIs(s, p, q, 1, d - 1, p, e - 1)
    BY <1>1, <2>1, PartOfPart
  <2>3. PartIs(s, p, q, d + 1, Len(l), e + 1, q)
    BY <1>1, <2>1, PartOfPart
  <2> QED
    BY <1>2, <2>2, <2>3, Zenon DEF PartIs
<1>8. T # {}
  BY <1>4
<1> QED
  BY <1>6, <1>7, <1>8, Zenon DEF Split, T, l

(* A line that is not cut anywhere has no entry.                           *)
LEMMA SplitSomewhere ==
  ASSUME NEW X, NEW s \in Seq(X), Split(s) # {}
  PROVE  \E p \in 1..Len(s) : \E e \in 1..Len(s) : \E q \in 1..Len(s) : Cut(s, p, e, q)
<1> DEFINE n == Len(s)
           l == Trim(s)
           T == {i \in DOMAIN l : l[i] = Equals}
<1>1. n \in Nat /\ 1 \in 1..(n + 1) /\ n \in (1 - 1)..n
  OBVIOUS
<1>2. SubSeq(s, 1, n) = s
  BY SubSeqFull
<1>3. T # {}
  BY Zenon DEF Split
<1>4. l # <<>>
  <2>1. DOMAIN <<>> = {}
    OBVIOUS
  <2> QED
    BY <1>3, <2>1
<1>5. ~Blanks(s, 1, n)
  BY <1>1, <1>2, <1>4, TrimIs, ZenonT(30)
<1>6. PICK p \in 1..n : \E q \in p..n : Core(s, 1, n, p, q)
  BY <1>1, <1>5, TrimIs
<1>7. PICK q \in p..n : Core(s, 1, n, p, q)
  BY <1>6
<1>8. p \in Int /\ q \in Int /\ 1 =< p /\ p =< q /\ q =< n
  BY <1>1
<1>9. l = SubSeq(s, p, q)
  BY <1>1, <1>2, <1>7, <1>8, TrimIs
<1> HIDE DEF l, n
<1>10. /\ l \in Seq(X) /\ DOMAIN l = 1..(q - p + 1)
       /\ \A k \in 1..(q - p + 1) : l[k] = s[p + k - 1]
  <2>1. Len(l) = q - p + 1 /\ l \in Seq(X) /\ \A k \in 1..(q - p + 1) : l[k] = s[p + k - 1]
    BY <1>1, <1>8, <1>9 DEF n
  <2> QED
    BY <2>1
<1>11. T \subseteq Nat
  BY <1>8, <1>10
<1>12. PICK d \in T : \A k \in T : d =< k
  BY <1>3, <1>11, LeastNatural
<1> DEFINE e == p + d - 1
<1>13. d \in 1..(q - p + 1) /\ l[d] = Equals
  BY <1>10
<1>14. e \in p..q /\ s[e] = Equals
  BY <1>8, <1>10, <1>13
<1>15. ASSUME NEW k \in p..(e - 1) PROVE s[k] # Equals
  <2>1. k - p + 1 \in 1..(q - p + 1) /\ ~(d =< k - p + 1) /\ p + (k - p + 1) - 1 = k
    BY <1>8, <1>13
  <2>2. k - p + 1 \notin T
    BY <1>12, <2>1
  <2>3. l[k - p + 1] = s[k]
    BY <1>10, <2>1
  <2> QED
    BY <1>10, <2>1, <2>2, <2>3
<1> HIDE DEF e
<1>16. Cut(s, p, e, q) /\ e \in 1..n /\ q \in 1..n
  BY <1>1, <1>7, <1>8, <1>14, <1>15 DEF Cut, n
<1> QED
  BY <1>16 DEF n

\* Between the places o and c of s there is a string.
StringAt(s, o, c) ==
  /\ o < c /\ s[o] = Quote /\ s[c] = Quote
  /\ \A k \in (o + 1)..(c - 1) : s[k] \notin {Quote, Backslash}

(* A string is read between its quotes, or not at all.                     *)
LEMMA StringRead ==
  ASSUME NEW X, NEW s \in Seq(X), NEW o \in 1..Len(s), NEW c \in o..Len(s)
  PROVE  ParseString(SubSeq(s, o, c)) = IF StringAt(s, o, c) THEN {SubSeq(s, o + 1, c - 1)} ELSE {}
<1> DEFINE v == SubSeq(s, o, c)
           m == c - o + 1
<1>1. Len(s) \in Nat /\ o \in Int /\ c \in Int /\ 1 =< o /\ o =< c /\ c =< Len(s)
  OBVIOUS
<1>2. Len(v) = m /\ \A k \in 1..m : v[k] = s[o + k - 1]
  BY <1>1
<1> HIDE DEF v
<1>3. m >= 2 <=> o < c
  BY <1>1
<1>4. v[1] = s[o] /\ v[m] = s[c]
  <2>1. 1 \in 1..m /\ m \in 1..m /\ o + 1 - 1 = o /\ o + m - 1 = c
    BY <1>1
  <2> HIDE DEF m
  <2> QED
    BY <1>2, <2>1
<1>5. (\A k \in 2..(m - 1) : v[k] \notin {Quote, Backslash})
        <=> \A k \in (o + 1)..(c - 1) : s[k] \notin {Quote, Backslash}
  <2>1. ASSUME \A k \in 2..(m - 1) : v[k] \notin {Quote, Backslash}, NEW k \in (o + 1)..(c - 1)
        PROVE  s[k] \notin {Quote, Backslash}
    <3> DEFINE i == k - o + 1
    <3>1. i \in 2..(m - 1) /\ i \in 1..m /\ o + i - 1 = k
      BY <1>1
    <3> HIDE DEF i
    <3>2. v[i] = s[k]
      BY <1>2, <3>1
    <3> QED
      BY <2>1, <3>1, <3>2
  <2>2. ASSUME \A k \in (o + 1)..(c - 1) : s[k] \notin {Quote, Backslash}, NEW k \in 2..(m - 1)
        PROVE  v[k] \notin {Quote, Backslash}
    <3> DEFINE i == o + k - 1
    <3>1. i \in (o + 1)..(c - 1) /\ k \in 1..m
      BY <1>1
    <3>2. v[k] = s[i]
      BY <1>2, <3>1
    <3> HIDE DEF i
    <3> QED
      BY <2>2, <3>1, <3>2
  <2> QED
    BY <2>1, <2>2
<1>6. o < c => SubSeq(v, 2, m - 1) = SubSeq(s, o + 1, c - 1)
  <2> SUFFICES ASSUME o < c PROVE SubSeq(v, 2, m - 1) = SubSeq(s, o + 1, c - 1)
    OBVIOUS
  <2>1. /\ o \in 1..(Len(s) + 1) /\ c \in (o - 1)..Len(s)
        /\ 2 \in 1..(c - o + 2) /\ m - 1 \in (2 - 1)..(c - o + 1)
        /\ o + 1 \in Int /\ c - 1 \in Int /\ o + 1 = o + 2 - 1 /\ c - 1 = o + (m - 1) - 1
    BY <1>1
  <2> HIDE DEF m
  <2>2. PartIs(s, o, c, 2, m - 1, o + 1, c - 1)
    BY <1>1, <2>1, PartOfPart
  <2> QED
    BY <2>2 DEF PartIs, v
<1> HIDE DEF m
<1>7. ParseString(v) =
        IF m >= 2 /\ v[1] = Quote /\ v[m] = Quote /\ \A k \in 2..(m - 1) : v[k] \notin {Quote, Backslash}
          THEN {SubSeq(v, 2, m - 1)} ELSE {}
  BY <1>2, Zenon DEF ParseString
<1>8. StringAt(s, o, c) <=>
        /\ m >= 2 /\ v[1] = Quote /\ v[m] = Quote
        /\ \A k \in 2..(m - 1) : v[k] \notin {Quote, Backslash}
  BY <1>3, <1>4, <1>5 DEF StringAt
<1>9. StringAt(s, o, c) => SubSeq(v, 2, m - 1) = SubSeq(s, o + 1, c - 1)
  BY <1>6 DEF StringAt
<1> QED
  BY <1>7, <1>8, <1>9, Zenon DEF v

(* Of which characters a part of a text is made.                           *)
LEMMA PartOf ==
  ASSUME NEW X, NEW s \in Seq(X), NEW a \in 1..Len(s), NEW b \in a..Len(s), NEW Y
  PROVE  All(SubSeq(s, a, b), Y) <=> \A k \in a..b : s[k] \in Y
<1> DEFINE v == SubSeq(s, a, b)
           m == b - a + 1
<1>1. Len(s) \in Nat /\ a \in Int /\ b \in Int /\ 1 =< a /\ a =< b /\ b =< Len(s)
  OBVIOUS
<1>2. DOMAIN v = 1..m /\ \A k \in 1..m : v[k] = s[a + k - 1]
  BY <1>1
<1> HIDE DEF v
<1>3. ASSUME \A k \in a..b : s[k] \in Y, NEW k \in DOMAIN v PROVE v[k] \in Y
  <2> DEFINE i == a + k - 1
  <2>1. i \in a..b /\ k \in 1..m
    BY <1>1, <1>2
  <2>2. v[k] = s[i]
    BY <1>2, <2>1
  <2> HIDE DEF i
  <2> QED
    BY <1>3, <2>1, <2>2
<1>4. ASSUME \A k \in DOMAIN v : v[k] \in Y, NEW k \in a..b PROVE s[k] \in Y
  <2> DEFINE i == k - a + 1
  <2>1. i \in 1..m /\ a + i - 1 = k
    BY <1>1
  <2> HIDE DEF i
  <2>2. v[i] = s[k]
    BY <1>2, <2>1
  <2> QED
    BY <1>2, <1>4, <2>1, <2>2
<1> QED
  BY <1>3, <1>4 DEF All, v

\* The characters from i to j can stand in a name.
Plain(s, i, j) == \A k \in i..j : s[k] \notin Special \ {Space}

\* s says a name, "=" and a string.
Begins(s, e, o, c) ==
  /\ e < o /\ s[e] = Equals
  /\ Plain(s, 1, e - 1) /\ ~Blanks(s, 1, e - 1)
  /\ Blanks(s, e + 1, o - 1)
  /\ StringAt(s, o, c)

\* It says nothing after it.
SaysString(s, e, o, c) == Begins(s, e, o, c) /\ Blanks(s, c + 1, Len(s))

\* What is read from s, if its key is a name.
ValuesOf(s, Y) == UNION {ParseString(f[2]) : f \in {g \in Split(s) : All(g[1], Y)}}

(* The characters that are told apart are not the same.                    *)
LEMMA Distinct ==
  /\ Quote # Space /\ Quote # Equals /\ Quote # Hash /\ Quote # Backslash
  /\ Equals # Space /\ Equals # Hash /\ Equals # Backslash
  /\ Hash # Space /\ Hash # Backslash /\ Backslash # Space
  /\ {Quote, Backslash, Hash, Equals, Space} \subseteq Special
<1>1. {Quote, Backslash, Hash, Equals, Space} \subseteq Special
  BY Zenon DEF Special
<1> QED
  BY <1>1 DEF Quote, Space, Equals, Hash, Backslash

(* Of a line that is cut, what is read is the string it says.              *)
LEMMA CutSays ==
  ASSUME NEW X, NEW s \in Seq(X),
         NEW p \in 1..Len(s), NEW e \in 1..Len(s), NEW q \in 1..Len(s), Cut(s, p, e, q),
         NEW u \in ValuesOf(s, X \ (Special \ {Space}))
  PROVE  \E o \in 1..Len(s) : \E c \in 1..Len(s) : SaysString(s, e, o, c) /\ u = SubSeq(s, o + 1, c - 1)
<1> DEFINE n == Len(s)
           Y == X \ (Special \ {Space})
           key == Trim(SubSeq(s, p, e - 1))
           value == Trim(SubSeq(s, e + 1, q))
<1>1. /\ n \in Nat /\ p \in Int /\ e \in Int /\ q \in Int /\ 1 =< p /\ p =< e /\ e =< q /\ q =< n
      /\ s[p] # Space /\ s[q] # Space
      /\ Blanks(s, 1, p - 1) /\ Blanks(s, q + 1, n)
      /\ s[e] = Equals /\ \A k \in p..(e - 1) : s[k] # Equals
  BY DEF Cut, Core, Blanks
<1>2. PICK f \in Split(s) : All(f[1], Y) /\ u \in ParseString(f[2])
  BY DEF ValuesOf
<1>3. Split(s) = IF key = <<>> \/ value = <<>> THEN {} ELSE {<<key, value>>}
  BY SplitAt
<1> HIDE DEF key, value
<1>4. key # <<>> /\ value # <<>> /\ f[1] = key /\ f[2] = value
  BY <1>2, <1>3
<1> HIDE DEF Y
<1>5. /\ p \in 1..(n + 1) /\ e - 1 \in (p - 1)..n
      /\ e + 1 \in 1..(n + 1) /\ q \in ((e + 1) - 1)..n
  BY <1>1
<1> HIDE DEF n
<1>6. ~Blanks(s, p, e - 1) /\ ~Blanks(s, e + 1, q)
  <2>1. key = <<>> <=> Blanks(s, p, e - 1)
    BY <1>5, TrimIs, Zenon DEF key, n
  <2>2. value = <<>> <=> Blanks(s, e + 1, q)
    BY <1>5, TrimIs, Zenon DEF value, n
  <2> QED
    BY <1>4, <2>1, <2>2
<1>7. PICK a \in p..(e - 1) : \E b \in a..(e - 1) : Core(s, p, e - 1, a, b)
  BY <1>5, <1>6, TrimIs, Zenon DEF n
<1>8. PICK b \in a..(e - 1) : Core(s, p, e - 1, a, b)
  BY <1>7
<1>9. PICK o \in (e + 1)..q : \E c \in o..q : Core(s, e + 1, q, o, c)
  BY <1>5, <1>6, TrimIs, Zenon DEF n
<1>10. PICK c \in o..q : Core(s, e + 1, q, o, c)
  BY <1>9
<1>11. /\ a \in Int /\ b \in Int /\ o \in Int /\ c \in Int
       /\ p =< a /\ a =< b /\ b =< e - 1 /\ e + 1 =< o /\ o =< c /\ c =< q
  BY <1>1
<1>12. c = q
  <2>1. \A k \in (c + 1)..q : s[k] = Space
    BY <1>10 DEF Core
  <2> QED
    BY <1>1, <1>11, <2>1
<1>13. key = SubSeq(s, a, b) /\ value = SubSeq(s, o, c)
  <2>1. Trim(SubSeq(s, p, e - 1)) = SubSeq(s, a, b)
    BY <1>5, <1>8, <1>11, TrimIs, Zenon DEF n
  <2>2. Trim(SubSeq(s, e + 1, q)) = SubSeq(s, o, c)
    BY <1>5, <1>10, <1>11, TrimIs, Zenon DEF n
  <2> QED
    BY <2>1, <2>2 DEF key, value
<1>14. Plain(s, 1, e - 1)
  <2>1. a \in 1..Len(s) /\ b \in a..Len(s)
    BY <1>1, <1>11 DEF n
  <2>2. All(SubSeq(s, a, b), Y)
    BY <1>2, <1>4, <1>13
  <2>3. \A k \in a..b : s[k] \in Y
    BY <2>1, <2>2, PartOf
  <2>4. (\A k \in p..(a - 1) : s[k] = Space) /\ (\A k \in (b + 1)..(e - 1) : s[k] = Space)
    BY <1>8 DEF Core
  <2>5. \A k \in 1..(p - 1) : s[k] = Space
    BY <1>1 DEF Blanks
  <2> SUFFICES ASSUME NEW k \in 1..(e - 1) PROVE s[k] \notin Special \ {Space}
    BY DEF Plain
  <2>6. k \in 1..(p - 1) \/ k \in p..(a - 1) \/ k \in a..b \/ k \in (b + 1)..(e - 1)
    BY <1>1, <1>11, SMTT(30)
  <2>7. s[k] = Space \/ s[k] \in Y
    BY <2>3, <2>4, <2>5, <2>6
  <2> QED
    BY <2>7 DEF Y
<1>15. ~Blanks(s, 1, e - 1)
  <2>1. a \in 1..(e - 1) /\ s[a] # Space
    BY <1>1, <1>8, <1>11 DEF Core
  <2> QED
    BY <2>1 DEF Blanks
<1>16. Blanks(s, e + 1, o - 1)
  BY <1>10 DEF Core, Blanks
<1>17. o \in 1..Len(s) /\ c \in o..Len(s) /\ c \in 1..Len(s)
  BY <1>1, <1>11 DEF n
<1>18. StringAt(s, o, c) /\ u = SubSeq(s, o + 1, c - 1)
  <2>1. ParseString(value) = IF StringAt(s, o, c) THEN {SubSeq(s, o + 1, c - 1)} ELSE {}
    BY <1>13, <1>17, StringRead
  <2> QED
    BY <1>2, <1>4, <2>1
<1>19. SaysString(s, e, o, c)
  BY <1>1, <1>11, <1>12, <1>14, <1>15, <1>16, <1>18 DEF SaysString, Begins, n
<1> QED
  BY <1>17, <1>18, <1>19

(* Where a line says a string, that is what is read.                       *)
LEMMA SaysCut ==
  ASSUME NEW X, NEW s \in Seq(X),
         NEW e \in 1..Len(s), NEW o \in 1..Len(s), NEW c \in 1..Len(s), SaysString(s, e, o, c)
  PROVE  SubSeq(s, o + 1, c - 1) \in ValuesOf(s, X \ (Special \ {Space}))
<1> DEFINE n == Len(s)
           Y == X \ (Special \ {Space})
<1>1. /\ n \in Nat /\ e \in Int /\ o \in Int /\ c \in Int
      /\ 1 =< e /\ e < o /\ o < c /\ c =< n
      /\ s[e] = Equals /\ s[o] = Quote /\ s[c] = Quote
      /\ Plain(s, 1, e - 1) /\ ~Blanks(s, 1, e - 1)
      /\ Blanks(s, e + 1, o - 1) /\ Blanks(s, c + 1, n) /\ StringAt(s, o, c)
  BY DEF SaysString, Begins, StringAt
<1>2. /\ 1 \in 1..(n + 1) /\ e - 1 \in (1 - 1)..n
      /\ e + 1 \in 1..(n + 1) /\ c \in ((e + 1) - 1)..n
  BY <1>1
<1> HIDE DEF n
<1>3. PICK p \in 1..(e - 1) : \E b \in p..(e - 1) : Core(s, 1, e - 1, p, b)
  BY <1>1, <1>2, TrimIs, Zenon DEF n
<1>4. PICK b \in p..(e - 1) : Core(s, 1, e - 1, p, b)
  BY <1>3
<1>5. p \in Int /\ b \in Int /\ 1 =< p /\ p =< b /\ b =< e - 1 /\ s[p] # Space /\ Blanks(s, 1, p - 1)
  BY <1>1, <1>4 DEF Core, Blanks
<1>6. Cut(s, p, e, c)
  <2>1. Core(s, 1, n, p, c)
    <3>1. p \in 1..n /\ c \in p..n
      BY <1>1, <1>5
    <3> QED
      BY <1>1, <1>5, <3>1, Distinct DEF Core, Blanks
  <2>2. e \in p..c
    BY <1>1, <1>5
  <2>3. ASSUME NEW k \in p..(e - 1) PROVE s[k] # Equals
    <3>1. k \in 1..(e - 1)
      BY <1>1, <1>5
    <3>2. s[k] \notin Special \ {Space}
      BY <1>1, <3>1 DEF Plain
    <3>3. Equals \in Special \ {Space}
      BY Distinct
    <3> QED
      BY <3>2, <3>3
  <2> QED
    BY <1>1, <2>1, <2>2, <2>3 DEF Cut, n
<1>7. Core(s, e + 1, c, o, c)
  <2>1. o \in (e + 1)..c /\ c \in o..c /\ \A k \in (c + 1)..c : FALSE
    BY <1>1
  <2> QED
    BY <1>1, <2>1, Distinct DEF Core, Blanks
<1>8. Trim(SubSeq(s, e + 1, c)) = SubSeq(s, o, c) /\ Trim(SubSeq(s, e + 1, c)) # <<>>
  <2>1. ~Blanks(s, e + 1, c)
    <3>1. o \in (e + 1)..c
      BY <1>1
    <3> QED
      BY <1>1, <3>1, Distinct DEF Blanks
  <2>2. Trim(SubSeq(s, e + 1, c)) = <<>> <=> Blanks(s, e + 1, c)
    BY <1>2, TrimIs, Zenon DEF n
  <2>3. o \in Int /\ c \in Int
    BY <1>1
  <2>4. Trim(SubSeq(s, e + 1, c)) = SubSeq(s, o, c)
    BY <1>2, <1>7, <2>3, TrimIs, Zenon DEF n
  <2> QED
    BY <2>1, <2>2, <2>4
<1>9. Core(s, p, e - 1, p, b)
  <2>1. p \in p..(e - 1) /\ \A k \in p..(p - 1) : FALSE
    BY <1>1, <1>5
  <2> QED
    BY <1>4, <2>1 DEF Core
<1>10. Trim(SubSeq(s, p, e - 1)) = SubSeq(s, p, b) /\ Trim(SubSeq(s, p, e - 1)) # <<>>
  <2>1. ~Blanks(s, p, e - 1)
    <3>1. p \in p..(e - 1)
      BY <1>5
    <3> QED
      BY <1>5, <3>1 DEF Blanks
  <2>2. p \in 1..(n + 1) /\ e - 1 \in (p - 1)..n
    BY <1>1, <1>5
  <2> QED
    BY <1>5, <1>9, <2>1, <2>2, TrimIs, Zenon DEF n
<1>11. p \in 1..Len(s) /\ b \in p..Len(s) /\ c \in o..Len(s)
  BY <1>1, <1>5 DEF n
<1>12. Split(s) = {<<SubSeq(s, p, b), SubSeq(s, o, c)>>}
  <2> DEFINE key == Trim(SubSeq(s, p, e - 1))
             value == Trim(SubSeq(s, e + 1, c))
  <2>1. Split(s) = IF key = <<>> \/ value = <<>> THEN {} ELSE {<<key, value>>}
    BY <1>6, <1>11, SplitAt
  <2> HIDE DEF key, value
  <2>2. key = SubSeq(s, p, b) /\ key # <<>> /\ value = SubSeq(s, o, c) /\ value # <<>>
    BY <1>8, <1>10 DEF key, value
  <2> QED
    BY <2>1, <2>2
<1>13. All(SubSeq(s, p, b), Y)
  <2>1. ASSUME NEW k \in p..b PROVE s[k] \in Y
    <3>1. k \in 1..(e - 1) /\ k \in 1..Len(s)
      BY <1>1, <1>5 DEF n
    <3> QED
      BY <1>1, <3>1, ElementOfSeq DEF Plain
  <2> QED
    BY <1>11, <2>1, PartOf
<1>14. ParseString(SubSeq(s, o, c)) = {SubSeq(s, o + 1, c - 1)}
  BY <1>1, <1>11, StringRead
<1> HIDE DEF Y
<1>15. SubSeq(s, o + 1, c - 1) \in ValuesOf(s, Y)
  <2> DEFINE g == <<SubSeq(s, p, b), SubSeq(s, o, c)>>
  <2>1. g[1] = SubSeq(s, p, b) /\ g[2] = SubSeq(s, o, c)
    OBVIOUS
  <2>2. g \in Split(s)
    BY <1>12
  <2> HIDE DEF g
  <2>3. SubSeq(s, o + 1, c - 1) \in ParseString(g[2]) /\ All(g[1], Y)
    BY <1>13, <1>14, <2>1
  <2> QED
    BY <2>2, <2>3 DEF ValuesOf
<1> QED
  BY <1>15 DEF Y

\* One character of strip_comment, and its state outside and inside of quotes.
Scan(b, c) ==
  IF b.escaped THEN [b EXCEPT !.escaped = FALSE]
  ELSE IF c = Backslash THEN [b EXCEPT !.escaped = b.quoted]
  ELSE IF c = Quote THEN [b EXCEPT !.quoted = ~@]
  ELSE b

Outside == [quoted |-> FALSE, escaped |-> FALSE]
Inside == [quoted |-> TRUE, escaped |-> FALSE]

(* Two states with the same fields are the same.                           *)
LEMMA SameState ==
  ASSUME NEW x, NEW y, NEW a, NEW b, NEW c,
         x = [quoted |-> a, escaped |-> b], y = [quoted |-> c, escaped |-> b]
  PROVE  [x EXCEPT !.quoted = c] = y
OBVIOUS

(* Only quotes lead from outside to inside and back.                       *)
LEMMA ScanQuotes ==
  /\ Scan(Outside, Quote) = Inside /\ Scan(Inside, Quote) = Outside
  /\ \A c : c # Quote /\ c # Backslash => Scan(Outside, c) = Outside /\ Scan(Inside, c) = Inside
<1>1. /\ Outside.quoted = FALSE /\ Outside.escaped = FALSE
      /\ Inside.quoted = TRUE /\ Inside.escaped = FALSE
      /\ [Outside EXCEPT !.quoted = TRUE] = Inside
      /\ [Inside EXCEPT !.quoted = FALSE] = Outside
  <2>1. /\ Outside.quoted = FALSE /\ Outside.escaped = FALSE
        /\ Inside.quoted = TRUE /\ Inside.escaped = FALSE
    BY DEF Outside, Inside
  <2> DEFINE F == FALSE
             T == TRUE
  <2>2. /\ Outside = [quoted |-> F, escaped |-> F]
        /\ Inside = [quoted |-> T, escaped |-> F]
    BY Zenon DEF Outside, Inside
  <2> HIDE DEF F, T
  <2>3. [Outside EXCEPT !.quoted = T] = Inside /\ [Inside EXCEPT !.quoted = F] = Outside
    BY <2>2, SameState
  <2> QED
    BY <2>1, <2>3, Zenon DEF F, T
<1>2. Quote # Backslash
  BY Distinct
<1> QED
  BY <1>1, <1>2 DEF Scan

\* The states of strip_comment before the first and after each character of t.
Scans(s, t) ==
  /\ s[0] = Outside
  /\ \A i \in 1..Len(t) : s[i] = Scan(s[i - 1], t[i])

(* strip_comment reads from left to right.                                 *)
LEMMA ScannedIs ==
  ASSUME NEW X, NEW t \in Seq(X)
  PROVE  Scans(Scanned(t), t)
<1> DEFINE V == [quoted : BOOLEAN, escaped : BOOLEAN]
           n == Len(t)
           Go(x, i) == Scan(x, t[i])
           step == [i \in 1..n |-> [x \in V |-> Go(x, i)]]
           Is(g) == g = [i \in 0..n |-> IF i = 0 THEN Outside ELSE Go(g[i - 1], i)]
           s == CHOOSE g : Is(g)
<1>1. n \in Nat /\ Outside \in V
  BY DEF Outside
<1>2. \A x \in V : \A c : Scan(x, c) \in V
  <2> SUFFICES ASSUME NEW x \in V, NEW c PROVE Scan(x, c) \in V
    OBVIOUS
  <2>1. /\ [x EXCEPT !.escaped = FALSE] \in V
        /\ [x EXCEPT !.escaped = x.quoted] \in V
        /\ [x EXCEPT !.quoted = ~@] \in V
    OBVIOUS
  <2> HIDE DEF V
  <2> QED
    BY <2>1 DEF Scan
<1>3. Scanned(t) = s
  BY Zenon DEF Scanned, Scan, Outside
<1> HIDE DEF V, n, Go
<1>4. step \in Steps(n, V) /\ \A i \in 1..n : \A x \in V : step[i][x] = Go(x, i)
  <2>1. \A i \in 1..n : \A x \in V : Go(x, i) \in V
    BY <1>2 DEF Go
  <2> QED
    BY <2>1 DEF Steps
<1> HIDE DEF step
<1>5. PICK g \in [0..n -> V] : Follows(g, n, Outside, step)
  BY ONLY <1>1, <1>4, Recurrence
<1>6. \A i \in 1..n : g[i] = Go(g[i - 1], i)
  <2>1. \A i \in 1..n : g[i - 1] \in V
    BY <1>1
  <2> QED
    BY <1>4, <1>5, <2>1 DEF Follows
<1>7. Is(g)
  BY <1>5, <1>6 DEF Follows
<1>8. Is(s)
  BY <1>7
<1> HIDE DEF s
<1>9. s[0] = Outside /\ \A i \in 1..n : s[i] = Go(s[i - 1], i)
  BY <1>1, <1>8
<1> QED
  BY <1>3, <1>9 DEF Scans, Go, n

(* Between quotes and backslashes the state stays.                         *)
LEMMA ScanStays ==
  ASSUME NEW X, NEW t \in Seq(X), NEW s, Scans(s, t), NEW b \in {Outside, Inside},
         NEW i \in 1..(Len(t) + 1), NEW j \in (i - 1)..Len(t), s[i - 1] = b,
         \A k \in i..j : t[k] # Quote /\ t[k] # Backslash
  PROVE  \A k \in (i - 1)..j : s[k] = b
<1> DEFINE m == j - i + 1
           S == {l \in 0..m : s[(i - 1) + l] = b}
<1>1. Len(t) \in Nat /\ i \in Int /\ j \in Int /\ i >= 1 /\ j =< Len(t) /\ m \in Nat
  OBVIOUS
<1>2. 0 \in S
  <2>1. (i - 1) + 0 = i - 1 /\ 0 \in 0..m
    BY <1>1
  <2> QED
    BY <2>1
<1>3. ASSUME NEW l \in 1..m, l - 1 \in S PROVE l \in S
  <2> DEFINE k == (i - 1) + l
  <2>1. k \in i..j /\ k \in 1..Len(t) /\ k - 1 = (i - 1) + (l - 1) /\ l \in 0..m
    BY <1>1
  <2>2. s[(i - 1) + (l - 1)] = b
    BY <1>3
  <2> HIDE DEF k
  <2>3. s[k] = Scan(s[k - 1], t[k]) /\ s[k - 1] = b
    BY <2>1, <2>2 DEF Scans
  <2>4. Scan(b, t[k]) = b
    BY <2>1, ScanQuotes
  <2> QED
    BY <2>1, <2>3, <2>4 DEF k
<1> HIDE DEF S
<1>4. \A l \in 0..m : l \in S
  BY <1>1, <1>2, <1>3, Induction
<1> SUFFICES ASSUME NEW k \in (i - 1)..j PROVE s[k] = b
  OBVIOUS
<1> DEFINE l == k - (i - 1)
<1>5. l \in 0..m /\ (i - 1) + l = k
  BY <1>1
<1> HIDE DEF l
<1>6. l \in S
  BY <1>4, <1>5
<1> QED
  BY <1>5, <1>6 DEF S

(* The states of strip_comment in a line that says a string: no "#" up to  *)
(* the end of the string begins a comment, and the state is outside after  *)
(* it.                                                                     *)
LEMMA StatesOf ==
  ASSUME NEW X, NEW t \in Seq(X),
         NEW e \in 1..Len(t), NEW o \in 1..Len(t), NEW c \in 1..Len(t), Begins(t, e, o, c)
  PROVE  /\ \A k \in 1..c : t[k] = Hash => Scanned(t)[k - 1] = Inside
         /\ \A r \in (c + 1)..Len(t) : Blanks(t, c + 1, r - 1) => Scanned(t)[r - 1] = Outside
<1> DEFINE n == Len(t)
           s == Scanned(t)
<1>1. /\ n \in Nat /\ e \in Int /\ o \in Int /\ c \in Int
      /\ 1 =< e /\ e < o /\ o < c /\ c =< n
      /\ t[e] = Equals /\ t[o] = Quote /\ t[c] = Quote
      /\ Plain(t, 1, e - 1) /\ Blanks(t, e + 1, o - 1)
      /\ \A k \in (o + 1)..(c - 1) : t[k] \notin {Quote, Backslash}
  BY DEF Begins, StringAt
<1>2. Scans(s, t)
  BY ScannedIs
<1> HIDE DEF s
<1>3. s[0] = Outside /\ \A k \in 1..n : s[k] = Scan(s[k - 1], t[k])
  BY <1>2 DEF Scans
<1>4. ASSUME NEW k \in 1..(o - 1)
      PROVE  t[k] # Quote /\ t[k] # Backslash /\ t[k] # Hash
  <2>1. CASE k \in 1..(e - 1)
    <3>1. t[k] \notin Special \ {Space}
      BY <1>1, <2>1 DEF Plain
    <3> QED
      BY <3>1, Distinct
  <2>2. CASE k = e
    BY <1>1, <2>2, Distinct
  <2>3. CASE k \in (e + 1)..(o - 1)
    BY <1>1, <2>3, Distinct DEF Blanks
  <2>4. k \in 1..(e - 1) \/ k = e \/ k \in (e + 1)..(o - 1)
    BY <1>1
  <2> QED
    BY <2>1, <2>2, <2>3, <2>4
<1> HIDE DEF n
<1>5. s[o] = Inside
  <2> DEFINE i == 1
             j == o - 1
  <2>1. /\ i \in 1..(Len(t) + 1) /\ j \in (i - 1)..Len(t) /\ s[i - 1] = Outside
        /\ \A k \in i..j : t[k] # Quote /\ t[k] # Backslash
        /\ j \in (i - 1)..j
    BY <1>1, <1>3, <1>4 DEF n
  <2> HIDE DEF i, j
  <2>2. \A k \in (i - 1)..j : s[k] = Outside
    BY <1>2, <2>1, ScanStays
  <2>3. s[j] = Outside
    BY <2>1, <2>2
  <2>4. s[o] = Scan(s[o - 1], t[o])
    BY <1>1, <1>3 DEF n
  <2> QED
    BY <1>1, <2>3, <2>4, ScanQuotes DEF j
<1>6. \A k \in o..(c - 1) : s[k] = Inside
  <2> DEFINE i == o + 1
             j == c - 1
  <2>1. /\ i \in 1..(Len(t) + 1) /\ j \in (i - 1)..Len(t) /\ s[i - 1] = Inside
        /\ \A k \in i..j : t[k] # Quote /\ t[k] # Backslash
    BY <1>1, <1>5 DEF n
  <2>2. i - 1 = o
    BY <1>1
  <2> HIDE DEF i, j
  <2>3. \A k \in (i - 1)..j : s[k] = Inside
    BY <1>2, <2>1, ScanStays
  <2> QED
    BY <2>2, <2>3 DEF j
<1>7. s[c] = Outside
  <2>1. c \in 1..n /\ c - 1 \in o..(c - 1)
    BY <1>1
  <2>2. s[c] = Scan(s[c - 1], t[c]) /\ s[c - 1] = Inside
    BY <1>3, <1>6, <2>1
  <2> QED
    BY <1>1, <2>2, ScanQuotes
<1>8. ASSUME NEW k \in 1..c, t[k] = Hash PROVE s[k - 1] = Inside
  <2>1. k # o /\ k # c
    BY <1>1, <1>8, Distinct
  <2>2. ~(k \in 1..(o - 1))
    BY <1>4, <1>8
  <2>3. k - 1 \in o..(c - 1)
    BY <1>1, <2>1, <2>2
  <2> QED
    BY <1>6, <2>3
<1>9. ASSUME NEW r \in (c + 1)..n, Blanks(t, c + 1, r - 1) PROVE s[r - 1] = Outside
  <2> DEFINE i == c + 1
             j == r - 1
  <2>1. /\ i \in 1..(Len(t) + 1) /\ j \in (i - 1)..Len(t) /\ s[i - 1] = Outside
        /\ j \in (i - 1)..j
    BY <1>1, <1>7 DEF n
  <2>2. \A k \in i..j : t[k] # Quote /\ t[k] # Backslash
    BY <1>9, Distinct DEF Blanks
  <2> HIDE DEF i, j
  <2>3. \A k \in (i - 1)..j : s[k] = Outside
    BY <1>2, <2>1, <2>2, ScanStays
  <2> QED
    BY <2>1, <2>3 DEF j
<1> QED
  BY <1>8, <1>9 DEF s, n

\* Where strip_comment sees a comment, and where the line ends for it.
Hashes(t) ==
  {i \in DOMAIN t : t[i] = Hash /\ ~Scanned(t)[i - 1].escaped /\ ~Scanned(t)[i - 1].quoted}

EndsAt(t, h) ==
  IF Hashes(t) = {} THEN h = Len(t)
  ELSE h + 1 \in Hashes(t) /\ \A i \in Hashes(t) : h + 1 =< i

(* The line ends before the first comment.                                 *)
LEMMA StripIs ==
  ASSUME NEW X, NEW t \in Seq(X)
  PROVE  \E h \in 0..Len(t) : EndsAt(t, h) /\ StripComment(t) = SubSeq(t, 1, h)
<1> DEFINE T == Hashes(t)
           n == Len(t)
<1>1. StripComment(t) = IF T = {} THEN t ELSE SubSeq(t, 1, Min(T) - 1)
  BY Zenon DEF StripComment, Hashes
<1>2. T \subseteq 1..n /\ n \in Nat
  BY DEF Hashes
<1> HIDE DEF T, n
<1>3. CASE T = {}
  <2>1. SubSeq(t, 1, n) = t
    BY SubSeqFull DEF n
  <2>2. n \in 0..n
    BY <1>2
  <2> QED
    BY <1>1, <1>3, <2>1, <2>2, Zenon DEF EndsAt, T, n
<1>4. CASE T # {}
  <2>0. T \subseteq Nat
    BY <1>2
  <2>1. PICK m \in T : \A i \in T : m =< i
    BY <1>4, <2>0, LeastNatural
  <2>2. Min(T) = m
    BY <2>0, <2>1, MinIs
  <2>3. m - 1 \in 0..n /\ (m - 1) + 1 = m
    BY <1>2, <2>1
  <2>4. EndsAt(t, m - 1)
    BY <1>4, <2>1, <2>3 DEF EndsAt, T
  <2> QED
    BY <1>1, <1>4, <2>2, <2>3, <2>4 DEF n
<1> QED
  BY <1>3, <1>4

\* After the string, nothing or a comment.
CommentAfter(t, c) ==
  \/ Blanks(t, c + 1, Len(t))
  \/ \E r \in (c + 1)..Len(t) : t[r] = Hash /\ Blanks(t, c + 1, r - 1)

(* The same of the text that follows, trimmed.                             *)
LEMMA RestIs ==
  ASSUME NEW X, NEW t \in Seq(X), NEW c \in 1..Len(t)
  PROVE  LET rest == Trim(SubSeq(t, c + 1, Len(t))) IN
         (rest = <<>> \/ rest[1] = Hash) <=> CommentAfter(t, c)
<1> DEFINE n == Len(t)
           i == c + 1
           rest == Trim(SubSeq(t, i, n))
<1>1. /\ n \in Nat /\ c \in Int /\ i \in Int /\ 1 =< c /\ c =< n
      /\ i \in 1..(n + 1) /\ n \in (i - 1)..n
  OBVIOUS
<1>2. rest = <<>> <=> Blanks(t, i, n)
  BY <1>1, TrimIs, Zenon
<1> HIDE DEF i, n
<1>3. ASSUME ~Blanks(t, i, n)
      PROVE  \E r \in i..n : rest[1] = t[r] /\ t[r] # Space /\ Blanks(t, i, r - 1)
  <2>1. PICK r \in i..n : \E q \in r..n : Core(t, i, n, r, q)
    BY <1>1, <1>3, TrimIs, Zenon DEF n
  <2>2. PICK q \in r..n : Core(t, i, n, r, q)
    BY <2>1
  <2>3. r \in Int /\ q \in Int /\ r =< q /\ i =< r /\ q =< n
    BY <1>1
  <2>4. rest = SubSeq(t, r, q)
    BY <1>1, <2>2, <2>3, TrimIs, Zenon DEF n
  <2>5. rest[1] = t[r]
    <3>1. r \in 1..Len(t) /\ q \in 1..Len(t) /\ 1 \in 1..(q - r + 1)
      BY <1>1, <2>3 DEF i, n
    <3>2. SubSeq(t, r, q)[1] = t[r]
      BY <2>3, <3>1
    <3> QED
      BY <2>4, <3>2
  <2> QED
    BY <2>2, <2>5 DEF Core, Blanks
<1>4. ASSUME rest[1] = Hash PROVE CommentAfter(t, c)
  BY <1>3, <1>4 DEF CommentAfter, i, n
<1>5. ASSUME NEW r \in i..n, t[r] = Hash, Blanks(t, i, r - 1) PROVE rest[1] = Hash
  <2>1. ~Blanks(t, i, n)
    BY <1>5, Distinct DEF Blanks
  <2>2. PICK x \in i..n : rest[1] = t[x] /\ t[x] # Space /\ Blanks(t, i, x - 1)
    BY <1>3, <2>1
  <2>3. ~(r < x) /\ ~(x < r)
    BY <1>1, <1>5, <2>2, Distinct DEF Blanks
  <2> QED
    BY <1>1, <1>5, <2>2, <2>3
<1> QED
  BY <1>2, <1>4, <1>5 DEF CommentAfter, i, n

(* Of a line that says a string, strip_comment leaves the string and no    *)
(* more, exactly if nothing or a comment follows it.                       *)
LEMMA CommentOff ==
  ASSUME NEW X, NEW t \in Seq(X), NEW h \in 0..Len(t), EndsAt(t, h),
         NEW e \in 1..Len(t), NEW o \in 1..Len(t), NEW c \in 1..Len(t), Begins(t, e, o, c)
  PROVE  (c =< h /\ Blanks(t, c + 1, h)) <=> CommentAfter(t, c)
<1> DEFINE n == Len(t)
           T == Hashes(t)
<1>1. n \in Nat /\ c \in Int /\ h \in Int /\ 1 =< c /\ c =< n /\ 0 =< h /\ h =< n /\ T \subseteq 1..n
  BY DEF Hashes
<1>2. Inside.quoted = TRUE /\ Outside.quoted = FALSE /\ Outside.escaped = FALSE
  BY DEF Inside, Outside
<1>3. ASSUME NEW k \in T PROVE k > c
  <2> SUFFICES ASSUME k =< c PROVE FALSE
    BY <1>1
  <2>1. k \in 1..c /\ t[k] = Hash /\ ~Scanned(t)[k - 1].quoted
    BY <1>1 DEF Hashes
  <2>2. Scanned(t)[k - 1] = Inside
    BY <2>1, StatesOf
  <2> QED
    BY <1>2, <2>1, <2>2, Zenon
<1>4. ASSUME NEW r \in (c + 1)..n, t[r] = Hash, Blanks(t, c + 1, r - 1) PROVE r \in T
  <2>1. Scanned(t)[r - 1] = Outside
    BY <1>4, StatesOf
  <2>2. r \in DOMAIN t
    BY <1>1
  <2> QED
    BY <1>2, <1>4, <2>1, <2>2, Zenon DEF Hashes
<1>5. \A k \in T : t[k] = Hash
  BY DEF Hashes
<1>6. IF T = {} THEN h = n ELSE h + 1 \in T /\ \A k \in T : h + 1 =< k
  BY DEF EndsAt
<1> HIDE DEF T, n
<1>7. ASSUME c =< h, Blanks(t, c + 1, h) PROVE CommentAfter(t, c)
  <2>1. CASE T = {}
    BY <1>6, <1>7, <2>1 DEF CommentAfter, n
  <2>2. CASE T # {}
    <3> DEFINE r == h + 1
    <3>0. r \in T
      BY <1>6, <2>2
    <3>1. r \in T /\ r \in (c + 1)..n /\ r - 1 = h
      <4>1. r \in 1..n
        BY <1>1, <3>0
      <4>2. c + 1 =< r /\ r - 1 = h
        BY <1>1, <1>7
      <4> QED
        BY <1>1, <3>0, <4>1, <4>2
    <3> HIDE DEF r
    <3>2. t[r] = Hash /\ Blanks(t, c + 1, r - 1)
      BY <1>5, <1>7, <3>1
    <3> QED
      BY <3>1, <3>2 DEF CommentAfter, n
  <2> QED
    BY <2>1, <2>2
<1>8. ASSUME Blanks(t, c + 1, n) PROVE c =< h /\ Blanks(t, c + 1, h)
  <2>1. T = {}
    <3> SUFFICES ASSUME NEW k \in T PROVE FALSE
      OBVIOUS
    <3>1. k \in (c + 1)..n /\ t[k] = Hash
      BY <1>1, <1>3, <1>5
    <3> QED
      BY <1>8, <3>1, Distinct DEF Blanks
  <2> QED
    BY <1>1, <1>6, <1>8, <2>1
<1>9. ASSUME NEW r \in (c + 1)..n, t[r] = Hash, Blanks(t, c + 1, r - 1)
      PROVE  c =< h /\ Blanks(t, c + 1, h)
  <2>1. r \in T
    BY <1>4, <1>9
  <2>2. h + 1 \in T /\ h + 1 =< r
    BY <1>6, <2>1
  <2>3. h + 1 > c /\ t[h + 1] = Hash
    BY <1>3, <1>5, <2>2
  <2>4. c =< h /\ r \in Int /\ h =< r - 1
    BY <1>1, <2>2, <2>3
  <2> QED
    BY <1>1, <1>9, <2>4 DEF Blanks
<1> QED
  BY <1>7, <1>8, <1>9 DEF CommentAfter, n

(* What the first h characters of a line say is what the line says, as far *)
(* as it says it there.                                                    *)
LEMMA SaysPart ==
  ASSUME NEW X, NEW t \in Seq(X), NEW h \in 0..Len(t),
         NEW e \in 1..h, NEW o \in 1..h, NEW c \in 1..h
  PROVE  LET s == SubSeq(t, 1, h) IN
         /\ Len(s) = h /\ s \in Seq(X)
         /\ SaysString(s, e, o, c) <=> Begins(t, e, o, c) /\ Blanks(t, c + 1, h)
         /\ o < c => SubSeq(s, o + 1, c - 1) = SubSeq(t, o + 1, c - 1)
<1> DEFINE s == SubSeq(t, 1, h)
<1>1. h \in Nat /\ e \in Int /\ o \in Int /\ c \in Int /\ Len(t) \in Nat /\ h =< Len(t)
  OBVIOUS
<1>2. s \in Seq(X) /\ Len(s) = h /\ \A k \in 1..h : s[k] = t[k]
  BY <1>1
<1>3. o < c => SubSeq(s, o + 1, c - 1) = SubSeq(t, o + 1, c - 1)
  <2> SUFFICES ASSUME o < c PROVE SubSeq(s, o + 1, c - 1) = SubSeq(t, o + 1, c - 1)
    OBVIOUS
  <2> DEFINE m == o + 1
             n == c - 1
  <2>1. /\ 1 \in 1..(Len(t) + 1) /\ h \in (1 - 1)..Len(t)
        /\ m \in 1..(h - 1 + 2) /\ n \in (m - 1)..(h - 1 + 1)
        /\ m \in Int /\ n \in Int /\ m = 1 + m - 1 /\ n = 1 + n - 1
    BY <1>1
  <2> HIDE DEF m, n
  <2>2. PartIs(t, 1, h, m, n, m, n)
    BY <2>1, PartOfPart
  <2> QED
    BY <2>2 DEF PartIs, m, n
<1> HIDE DEF s
<1>4. \A i \in 1..h : \A j \in 0..h :
        /\ Plain(s, i, j) <=> Plain(t, i, j)
        /\ Blanks(s, i, j) <=> Blanks(t, i, j)
  BY <1>1, <1>2 DEF Plain, Blanks
<1>5. StringAt(s, o, c) <=> StringAt(t, o, c)
  BY <1>1, <1>2 DEF StringAt
<1>6. Blanks(s, c + 1, h) <=> Blanks(t, c + 1, h)
  BY <1>1, <1>2 DEF Blanks
<1>7. Blanks(s, e + 1, o - 1) <=> Blanks(t, e + 1, o - 1)
  BY <1>1, <1>2 DEF Blanks
<1>8. /\ Plain(s, 1, e - 1) <=> Plain(t, 1, e - 1)
      /\ Blanks(s, 1, e - 1) <=> Blanks(t, 1, e - 1)
  <2>1. 1 \in 1..h /\ e - 1 \in 0..h
    BY <1>1
  <2> QED
    BY <1>4, <2>1
<1>9. s[e] = t[e]
  BY <1>2
<1>10. SaysString(s, e, o, c) <=> Begins(t, e, o, c) /\ Blanks(t, c + 1, h)
  BY <1>2, <1>5, <1>6, <1>7, <1>8, <1>9 DEF SaysString, Begins
<1> QED
  BY <1>2, <1>3, <1>10 DEF s

(* Written finds the lines that say a string and then nothing or a comment;*)
(* their key is not empty if it is not blank.                              *)
LEMMA WrittenIs ==
  ASSUME NEW X, NEW t \in Seq(X),
         NEW e \in 1..Len(t), NEW o \in 1..Len(t), NEW c \in 1..Len(t)
  PROVE  <<e, o, c>> \in Written(t) /\ Trim(SubSeq(t, 1, e - 1)) # <<>>
           <=> Begins(t, e, o, c) /\ CommentAfter(t, c)
<1> DEFINE w == <<e, o, c>>
           rest == Trim(SubSeq(t, c + 1, Len(t)))
<1>1. w[1] = e /\ w[2] = o /\ w[3] = c /\ w \in (1..Len(t)) \X (1..Len(t)) \X (1..Len(t))
  OBVIOUS
<1> HIDE DEF w
<1>2. w \in Written(t) <=>
        /\ e < o /\ o < c
        /\ t[e] = Equals /\ t[o] = Quote /\ t[c] = Quote
        /\ \A i \in 1..(e - 1) : t[i] \notin Special \ {Space}
        /\ \A i \in (e + 1)..(o - 1) : t[i] = Space
        /\ \A i \in (o + 1)..(c - 1) : t[i] \notin {Quote, Backslash}
        /\ rest = <<>> \/ rest[1] = Hash
  BY <1>1, Zenon DEF Written
<1>3. (rest = <<>> \/ rest[1] = Hash) <=> CommentAfter(t, c)
  BY RestIs
<1>4. Trim(SubSeq(t, 1, e - 1)) = <<>> <=> Blanks(t, 1, e - 1)
  <2>1. 1 \in 1..(Len(t) + 1) /\ e - 1 \in (1 - 1)..Len(t)
    OBVIOUS
  <2> QED
    BY <2>1, TrimIs, Zenon
<1> HIDE DEF rest
<1> QED
  BY <1>2, <1>3, <1>4, Zenon DEF Begins, StringAt, Plain, Blanks, w

(* A line is read as the string it says.                                   *)
LEMMA LineExact ==
  ASSUME NEW X, NEW t \in Seq(X)
  PROVE  UNION {ParseString(f[2]) : f \in {g \in Entry(t) : All(g[1], X \ (Special \ {Space}))}}
           = {SubSeq(t, w[2] + 1, w[3] - 1) :
                w \in {x \in Written(t) : Trim(SubSeq(t, 1, x[1] - 1)) # <<>>}}
<1> DEFINE Y == X \ (Special \ {Space})
           W == {x \in Written(t) : Trim(SubSeq(t, 1, x[1] - 1)) # <<>>}
<1>1. PICK h \in 0..Len(t) : EndsAt(t, h) /\ StripComment(t) = SubSeq(t, 1, h)
  BY StripIs
<1> DEFINE s == SubSeq(t, 1, h)
<1>2. Entry(t) = Split(s)
  BY <1>1, Zenon DEF Entry, Split
<1>3. s \in Seq(X) /\ Len(s) = h /\ h =< Len(t) /\ h \in Nat /\ Len(t) \in Nat
  OBVIOUS
<1>4. \A e, o, c \in 1..h :
        /\ SaysString(s, e, o, c) <=> Begins(t, e, o, c) /\ Blanks(t, c + 1, h)
        /\ o < c => SubSeq(s, o + 1, c - 1) = SubSeq(t, o + 1, c - 1)
  BY SaysPart
<1> HIDE DEF s, Y
<1>5. \A e, o, c \in 1..Len(t) :
        <<e, o, c>> \in W <=> Begins(t, e, o, c) /\ CommentAfter(t, c)
  <2> SUFFICES ASSUME NEW e \in 1..Len(t), NEW o \in 1..Len(t), NEW c \in 1..Len(t)
               PROVE  <<e, o, c>> \in W <=> Begins(t, e, o, c) /\ CommentAfter(t, c)
    OBVIOUS
  <2> DEFINE w == <<e, o, c>>
  <2>1. w[1] = e
    OBVIOUS
  <2>2. w \in Written(t) /\ Trim(SubSeq(t, 1, e - 1)) # <<>>
          <=> Begins(t, e, o, c) /\ CommentAfter(t, c)
    BY WrittenIs
  <2> HIDE DEF w
  <2>3. w \in W <=> w \in Written(t) /\ Trim(SubSeq(t, 1, e - 1)) # <<>>
    BY <2>1
  <2> QED
    BY <2>2, <2>3 DEF w
<1>6. \A e, o, c \in 1..Len(t) :
        Begins(t, e, o, c) => ((c =< h /\ Blanks(t, c + 1, h)) <=> CommentAfter(t, c))
  BY <1>1, CommentOff
<1>7. W \subseteq (1..Len(t)) \X (1..Len(t)) \X (1..Len(t))
  BY Zenon DEF Written
<1> HIDE DEF W
<1>8. ASSUME NEW u \in ValuesOf(s, Y)
      PROVE  \E w \in W : u = SubSeq(t, w[2] + 1, w[3] - 1)
  <2>1. Split(s) # {}
    BY <1>8 DEF ValuesOf
  <2>2. \E p \in 1..h : \E e \in 1..h : \E q \in 1..h : Cut(s, p, e, q)
    BY <1>3, <2>1, SplitSomewhere
  <2>3. PICK e \in 1..h : \E p \in 1..h : \E q \in 1..h : Cut(s, p, e, q)
    BY <2>2
  <2>4. \E o \in 1..h : \E c \in 1..h : SaysString(s, e, o, c) /\ u = SubSeq(s, o + 1, c - 1)
    <3>1. PICK p \in 1..h : \E q \in 1..h : Cut(s, p, e, q)
      BY <2>3
    <3>2. PICK q \in 1..h : Cut(s, p, e, q)
      BY <3>1
    <3>3. p \in 1..Len(s) /\ e \in 1..Len(s) /\ q \in 1..Len(s)
      BY <1>3
    <3>4. u \in ValuesOf(s, X \ (Special \ {Space}))
      BY <1>8 DEF Y
    <3>5. \E o \in 1..Len(s) : \E c \in 1..Len(s) : SaysString(s, e, o, c) /\ u = SubSeq(s, o + 1, c - 1)
      BY ONLY <1>3, <3>2, <3>3, <3>4, CutSays, SMTT(30)
    <3> QED
      BY <1>3, <3>5
  <2>5. PICK o \in 1..h : \E c \in 1..h : SaysString(s, e, o, c) /\ u = SubSeq(s, o + 1, c - 1)
    BY <2>4
  <2>6. PICK c \in 1..h : SaysString(s, e, o, c) /\ u = SubSeq(s, o + 1, c - 1)
    BY <2>5
  <2>7. Begins(t, e, o, c) /\ Blanks(t, c + 1, h)
    BY <1>4, <2>6
  <2>8. o < c
    BY <2>7 DEF Begins, StringAt
  <2>9. u = SubSeq(t, o + 1, c - 1)
    BY <1>4, <2>6, <2>8
  <2>10. e \in 1..Len(t) /\ o \in 1..Len(t) /\ c \in 1..Len(t) /\ c =< h
    BY <1>3
  <2>11. <<e, o, c>> \in W
    BY <1>5, <1>6, <2>7, <2>10
  <2> DEFINE w == <<e, o, c>>
  <2>12. w \in W /\ w[2] = o /\ w[3] = c
    BY <2>11
  <2> HIDE DEF w
  <2> QED
    BY <2>9, <2>12
<1>9. ASSUME NEW w \in W
      PROVE  SubSeq(t, w[2] + 1, w[3] - 1) \in ValuesOf(s, Y)
  <2> DEFINE e == w[1]
             o == w[2]
             c == w[3]
  <2>1. e \in 1..Len(t) /\ o \in 1..Len(t) /\ c \in 1..Len(t) /\ w = <<e, o, c>>
    BY <1>7
  <2> HIDE DEF e, o, c
  <2>2. Begins(t, e, o, c) /\ CommentAfter(t, c)
    BY <1>5, <2>1
  <2>3. c =< h /\ Blanks(t, c + 1, h)
    BY <1>6, <2>1, <2>2
  <2>4. e < o /\ o < c
    BY <2>2 DEF Begins, StringAt
  <2>5. e \in 1..h /\ o \in 1..h /\ c \in 1..h
    BY <1>3, <2>1, <2>3, <2>4
  <2>6. SaysString(s, e, o, c) /\ SubSeq(s, o + 1, c - 1) = SubSeq(t, o + 1, c - 1)
    BY <1>4, <2>2, <2>3, <2>4, <2>5
  <2>7. SubSeq(s, o + 1, c - 1) \in ValuesOf(s, Y)
    BY <1>3, <2>5, <2>6, SaysCut DEF Y
  <2> QED
    BY <2>6, <2>7 DEF o, c
<1>10. ValuesOf(s, Y) = {SubSeq(t, w[2] + 1, w[3] - 1) : w \in W}
  BY <1>8, <1>9
<1> QED
  BY <1>2, <1>10, Zenon DEF ValuesOf, W, Y

(* A line is read as the string it says, and a line that says none is not  *)
(* read as one: strip_comment, the split at the first "=" and parse_string *)
(* agree on lines of any length and any characters.                        *)
THEOREM LinesRead == Spec => []LinesReadAsWritten
<1>1. TextInputs => LinesReadAsWritten
  <2> SUFFICES ASSUME TextInputs, kind = "line"
               PROVE  UNION {ParseString(e[2]) :
                             e \in {f \in Entry(input) :
                                      All(f[1], Alphabet["line"] \ (Special \ {Space}))}}
                        = {SubSeq(input, w[2] + 1, w[3] - 1) :
                             w \in {x \in Written(input) :
                                      Trim(SubSeq(input, 1, x[1] - 1)) # <<>>}}
    BY Zenon DEF LinesReadAsWritten
  <2>1. input \in Seq(Alphabet["line"])
    BY InputsAssumption DEF TextInputs
  <2> QED
    BY <2>1, LineExact
<1> QED
  BY <1>1, TextInputsHold, PTL
=============================================================================
