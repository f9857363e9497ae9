--------------------------- MODULE CaptureLogProofs ---------------------------
(***************************************************************************)
(* The session files for any number of file names, header keys, captures   *)
(* and lines, through any crashes and restarts.                            *)
(***************************************************************************)
EXTENDS CaptureLog, TLAPS

-----------------------------------------------------------------------------
(* The inductive invariant *)

(* The header keys come first, in their order, and no line after them is   *)
(* one.                                                                    *)
HeaderFirst(text) ==
  \A i \in 1..Len(text) :
    IF i =< Len(HeaderKeys) THEN text[i] = HeaderLine(i) ELSE text[i].kind # "header"

DumpOf(text, i, d) == text[i].kind = "dump" /\ text[i].id = d

(* No sequence number is dumped twice.                                     *)
DumpsOnce(text) ==
  \A i, j \in 1..Len(text) :
    i # j /\ text[i].kind = "dump" => ~DumpOf(text, j, text[i].id)

(* Every file, also one that an earlier process has left behind, is a      *)
(* prefix of a session, and holds on the card what was acknowledged.       *)
FileOf(n) ==
  /\ file[n] = Absent => acked[n] = 0
  /\ file[n] # Absent =>
       /\ acked[n] =< file[n].synced
       /\ HeaderFirst(file[n].text) /\ DumpsOnce(file[n].text)

(* The process writes to a file of its own that has its header; what is    *)
(* dumped was taken from the store, and the dump that a claim announces is *)
(* not yet there.                                                          *)
SessionOf ==
  LET f == file[session]
      last == f.text[Len(f.text)]
  IN /\ pc \in {"open", "flush", "sync", "run", "append"} => f # Absent
     /\ pc = "open" => f = Empty
     /\ pc \in {"flush", "sync", "run", "append"} =>
          /\ Len(HeaderKeys) =< Len(f.text)
          /\ \A i \in 1..Len(f.text) : f.text[i].kind = "dump" => f.text[i].id \in logged
     /\ pc \in {"flush", "sync"} => next # "off"
     /\ pc = "append" =>
          /\ Len(f.text) > 0 /\ last.id \in logged
          /\ \A i \in 1..Len(f.text) : ~DumpOf(f.text, i, last.id)

IInv == TypeOK /\ (\A n \in Numbers : FileOf(n)) /\ SessionOf

-----------------------------------------------------------------------------
(* Lines and files *)

(* The header is one line for each of its keys, none of them a dump.       *)
LEMMA Header ==
  /\ Len(HeaderKeys) \in Nat /\ DOMAIN HeaderKeys = 1..Len(HeaderKeys)
  /\ \A i \in 1..Len(HeaderKeys) :
       HeaderLine(i) \in Line /\ HeaderLine(i).kind = "header"
         /\ HeaderLine(i).id = HeaderKeys[i]
  /\ \A i, j \in 1..Len(HeaderKeys) : HeaderKeys[i] = HeaderKeys[j] => i = j
<1>1. HeaderKeys \in Seq(STRING) /\ IsInjective(HeaderKeys)
  BY LogAssumption
<1>2. \A i \in 1..Len(HeaderKeys) : HeaderKeys[i] \in Range(HeaderKeys)
  BY <1>1 DEF Range
<1>3. ASSUME NEW i \in 1..Len(HeaderKeys)
      PROVE  HeaderLine(i) \in Line
  BY <1>2 DEF HeaderLine, Line
<1> QED
  BY <1>1, <1>3 DEF HeaderLine, IsInjective

(* Status and event lines are lines of their kind.                         *)
LEMMA PlainLine ==
  ASSUME NEW kind \in {"status", "event"}
  PROVE  Plain(kind) \in Line /\ Plain(kind).kind = kind
BY DEF Plain, Line

(* A prefix of a session's lines is one.                                   *)
LEMMA PrefixKeeps ==
  ASSUME NEW text \in Seq(Line), NEW k \in 0..Len(text)
  PROVE  /\ SubSeq(text, 1, k) \in Seq(Line) /\ Len(SubSeq(text, 1, k)) = k
         /\ \A i \in 1..k : SubSeq(text, 1, k)[i] = text[i]
         /\ HeaderFirst(text) => HeaderFirst(SubSeq(text, 1, k))
         /\ DumpsOnce(text) => DumpsOnce(SubSeq(text, 1, k))
<1> DEFINE s == SubSeq(text, 1, k)
<1>1. s \in Seq(Line) /\ Len(s) = k /\ \A i \in 1..k : s[i] = text[i]
  OBVIOUS
<1> HIDE DEF s
<1>2. HeaderFirst(text) => HeaderFirst(s)
  BY <1>1 DEF HeaderFirst
<1>3. DumpsOnce(text) => DumpsOnce(s)
  BY <1>1 DEF DumpsOnce, DumpOf
<1> QED
  BY <1>1, <1>2, <1>3 DEF s

(* So is a session's text with one more line.                              *)
LEMMA LineAdded ==
  ASSUME NEW text \in Seq(Line), NEW line \in Line
  PROVE  /\ text \o <<line>> \in Seq(Line) /\ Len(text \o <<line>>) = Len(text) + 1
         /\ \A i \in 1..Len(text) : (text \o <<line>>)[i] = text[i]
         /\ (text \o <<line>>)[Len(text) + 1] = line
         /\ HeaderFirst(text) /\ Len(HeaderKeys) =< Len(text) /\ line.kind # "header"
              => HeaderFirst(text \o <<line>>)
         /\ DumpsOnce(text)
              /\ (line.kind = "dump" => \A i \in 1..Len(text) : ~DumpOf(text, i, line.id))
              => DumpsOnce(text \o <<line>>)
<1> DEFINE s == text \o <<line>>
<1>1. /\ s \in Seq(Line) /\ Len(s) = Len(text) + 1
      /\ \A i \in 1..Len(text) : s[i] = text[i]
      /\ s[Len(text) + 1] = line
  OBVIOUS
<1>2. Len(text) \in Nat
  OBVIOUS
<1> HIDE DEF s
<1>3. \A i \in 1..Len(s) : i \in 1..Len(text) \/ i = Len(text) + 1
  BY <1>1, <1>2
<1>4. HeaderFirst(text) /\ Len(HeaderKeys) =< Len(text) /\ line.kind # "header"
        => HeaderFirst(s)
  BY <1>1, <1>2, <1>3, Header DEF HeaderFirst
<1>5. ASSUME DumpsOnce(text),
             line.kind = "dump" => \A i \in 1..Len(text) : ~DumpOf(text, i, line.id)
      PROVE  DumpsOnce(s)
  <2> SUFFICES ASSUME NEW i \in 1..Len(s), NEW j \in 1..Len(s), i # j, s[i].kind = "dump",
                      DumpOf(s, j, s[i].id)
               PROVE  FALSE
    BY DEF DumpsOnce
  <2>1. s[j].kind = "dump" /\ s[j].id = s[i].id
    BY DEF DumpOf
  <2>2. CASE i \in 1..Len(text) /\ j \in 1..Len(text)
    BY <1>1, <1>5, <2>1, <2>2 DEF DumpsOnce, DumpOf
  <2>3. CASE i = Len(text) + 1 /\ j \in 1..Len(text)
    BY <1>1, <1>5, <2>1, <2>3 DEF DumpOf
  <2>4. CASE i \in 1..Len(text) /\ j = Len(text) + 1
    BY <1>1, <1>5, <2>1, <2>4 DEF DumpOf
  <2> QED
    BY <1>3, <2>2, <2>3, <2>4
<1> QED
  BY <1>1, <1>4, <1>5 DEF s

Sound(f) == f.synced =< f.os /\ f.os =< 2 * Len(f.text)

(* The fields of a file, and of a file just created.                       *)
LEMMA FileFields ==
  /\ \A f \in File :
       f.text \in Seq(Line) /\ Len(f.text) \in Nat /\ f.os \in Nat /\ f.synced \in Nat
         /\ f # Absent
  /\ Empty \in File /\ Empty.text = <<>> /\ Empty.os = 0 /\ Empty.synced = 0
BY LogAssumption DEF File, Empty

(* A write changes the text and what the system holds of it.               *)
LEMMA Spilled ==
  \A f \in File, text \in Seq(Line), n \in Nat :
    LET g == [f EXCEPT !.text = text]
        h == [g EXCEPT !.os = n]
    IN  h \in File /\ h.text = text /\ h.os = n /\ h.synced = f.synced
BY DEF File

(* A flush or a sync changes one position and no text.                     *)
LEMMA Flushed ==
  \A f \in File, n \in Nat :
    /\ LET g == [f EXCEPT !.os = n]
       IN  g \in File /\ g.text = f.text /\ g.os = n /\ g.synced = f.synced
    /\ LET g == [f EXCEPT !.synced = n]
       IN  g \in File /\ g.text = f.text /\ g.os = f.os /\ g.synced = n
BY DEF File

(* What remains of a file is a shorter one of the same session.            *)
LEMMA RemainsKeeps ==
  ASSUME NEW f \in File, NEW n \in f.synced..(2 * Len(f.text))
  PROVE  /\ Remains(f, n) \in File /\ Sound(Remains(f, n)) /\ Remains(f, n).os = n
         /\ Remains(f, n).synced = f.synced
         /\ HeaderFirst(f.text) => HeaderFirst(Remains(f, n).text)
         /\ DumpsOnce(f.text) => DumpsOnce(Remains(f, n).text)
<1> DEFINE k == (n + 1) \div 2
           s == SubSeq(f.text, 1, k)
<1>1. /\ f.text \in Seq(Line) /\ Len(f.text) \in Nat /\ f.synced \in Nat /\ n \in Nat
      /\ f.synced =< n
  BY FileFields
<1>2. k \in 0..Len(f.text) /\ n =< 2 * k
  BY <1>1
<1> HIDE DEF k
<1>3. /\ s \in Seq(Line) /\ Len(s) = k /\ (HeaderFirst(f.text) => HeaderFirst(s))
      /\ (DumpsOnce(f.text) => DumpsOnce(s))
  BY <1>1, <1>2, PrefixKeeps
<1>4. Remains(f, n) = [f EXCEPT !.text = s, !.os = n]
  BY DEF Remains, k
<1> HIDE DEF s
<1>5. /\ Remains(f, n) \in File /\ Remains(f, n).text = s /\ Remains(f, n).os = n
      /\ Remains(f, n).synced = f.synced
  <2> DEFINE g == [f EXCEPT !.text = s, !.os = n]
  <2>1. g \in File /\ g.text = s /\ g.os = n /\ g.synced = f.synced
    BY <1>1, <1>3 DEF File
  <2>2. Remains(f, n) = g
    BY <1>4
  <2> HIDE DEF g
  <2> QED
    BY <2>1, <2>2
<1> QED
  BY <1>1, <1>2, <1>3, <1>5 DEF Sound

-----------------------------------------------------------------------------
(* What steps leave to show *)

Live == {"open", "flush", "sync", "run", "append"}

(* The writer's own file, once it is created, is a file of its session.    *)
LEMMA OwnFile ==
  ASSUME IInv
  PROVE  /\ session \in Numbers /\ file \in [Numbers -> File \cup {Absent}]
         /\ acked \in [Numbers -> Nat] /\ TypeOK
         /\ file[session] # Absent =>
              /\ file[session] \in File /\ Sound(file[session])
              /\ acked[session] =< file[session].synced
              /\ HeaderFirst(file[session].text) /\ DumpsOnce(file[session].text)
         /\ pc \in Live => file[session] # Absent
BY DEF IInv, TypeOK, FileOf, SessionOf, Sound, Live

(* A step that changes no file.                                            *)
LEMMA StillKeeps ==
  ASSUME IInv, UNCHANGED <<file, acked>>,
         pc' \in {"off", "create", "open", "flush", "sync", "run", "append", "stopped"},
         next' \in {"off", "run", "stopped"}, session' \in Numbers, logged' \subseteq Dumps,
         SessionOf'
  PROVE  IInv'
<1>1. TypeOK'
  BY DEF IInv, TypeOK
<1>2. \A n \in Numbers : FileOf(n)'
  BY DEF IInv, FileOf
<1> QED
  BY <1>1, <1>2 DEF IInv

(* A step that changes the process's own file only.                        *)
LEMMA OwnKeeps ==
  ASSUME IInv, NEW g \in File, Sound(g), HeaderFirst(g.text), DumpsOnce(g.text),
         file' = [file EXCEPT ![session] = g],
         acked' \in [Numbers -> Nat], acked'[session] =< g.synced,
         \A n \in Numbers \ {session} : acked'[n] = acked[n],
         pc' \in {"off", "create", "open", "flush", "sync", "run", "append", "stopped"},
         next' \in {"off", "run", "stopped"}, session' = session, logged' \subseteq Dumps,
         SessionOf'
  PROVE  IInv'
<1>1. /\ session \in Numbers /\ g # Absent /\ file' \in [Numbers -> File \cup {Absent}]
      /\ file'[session] = g /\ \A n \in Numbers \ {session} : file'[n] = file[n]
  BY OwnFile, FileFields
<1>2. TypeOK'
  <2> SUFFICES ASSUME NEW n \in Numbers, file'[n] # Absent
               PROVE  /\ file'[n].synced =< file'[n].os
                      /\ file'[n].os =< 2 * Len(file'[n].text)
    BY <1>1 DEF TypeOK
  <2>1. CASE n = session
    BY <1>1, <2>1 DEF Sound
  <2>2. CASE n # session
    BY <1>1, <2>2 DEF IInv, TypeOK
  <2> QED
    BY <2>1, <2>2
<1>3. \A n \in Numbers : FileOf(n)'
  <2> SUFFICES ASSUME NEW n \in Numbers
               PROVE  FileOf(n)'
    OBVIOUS
  <2>1. CASE n = session
    BY <1>1, <2>1 DEF FileOf
  <2>2. CASE n # session
    <3>1. file'[n] = file[n] /\ acked'[n] = acked[n] /\ FileOf(n)
      BY <1>1, <2>2 DEF IInv
    <3> QED
      BY <3>1 DEF FileOf
  <2> QED
    BY <2>1, <2>2
<1> QED
  BY <1>2, <1>3 DEF IInv

(* A line spilled after the header.                                        *)
LEMMA LineSpilled ==
  ASSUME IInv, pc \in {"run", "append"}, NEW line \in Line, line.kind # "header",
         line.kind = "dump" => \A i \in 1..Len(file[session].text) :
                                 ~DumpOf(file[session].text, i, line.id),
         Spill(<<line>>)
  PROVE  \E g \in File :
           /\ file' = [file EXCEPT ![session] = g]
           /\ Sound(g) /\ HeaderFirst(g.text) /\ DumpsOnce(g.text)
           /\ g.text = file[session].text \o <<line>> /\ g.synced = file[session].synced
<1> DEFINE f == file[session]
           text == f.text \o <<line>>
<1>1. /\ f \in File /\ Sound(f) /\ HeaderFirst(f.text) /\ DumpsOnce(f.text)
      /\ Len(HeaderKeys) =< Len(f.text)
  BY OwnFile DEF Live, IInv, SessionOf
<1>2. f.text \in Seq(Line) /\ Len(f.text) \in Nat /\ f.os \in Nat /\ f.synced \in Nat
  BY <1>1, FileFields
<1>3. /\ text \in Seq(Line) /\ Len(text) = Len(f.text) + 1
      /\ HeaderFirst(text) /\ DumpsOnce(text)
  BY <1>1, <1>2, LineAdded
<1>4. PICK n \in f.os..(2 * Len([f EXCEPT !.text = @ \o <<line>>].text)) :
        file' = [file EXCEPT ![session] = [[f EXCEPT !.text = @ \o <<line>>] EXCEPT !.os = n]]
  BY DEF Spill
<1> HIDE DEF f
<1>5. [f EXCEPT !.text = @ \o <<line>>].text = text
  BY <1>1 DEF File
<1>6. n \in f.os..(2 * Len(text)) /\ n \in Nat
  BY <1>2, <1>3, <1>4, <1>5
<1> DEFINE g == [[f EXCEPT !.text = @ \o <<line>>] EXCEPT !.os = n]
<1>7. g \in File /\ g.text = text /\ g.os = n /\ g.synced = f.synced
  <2> HIDE DEF text
  <2>1. [f EXCEPT !.text = text] \in File
    BY <1>1, <1>3 DEF File
  <2>2. [f EXCEPT !.text = text].text = text /\ [f EXCEPT !.text = text].synced = f.synced
    BY <1>1 DEF File
  <2>3. [f EXCEPT !.text = @ \o <<line>>] = [f EXCEPT !.text = text]
    BY DEF text
  <2>4. \A h \in File : /\ [h EXCEPT !.os = n] \in File /\ [h EXCEPT !.os = n].os = n
                        /\ [h EXCEPT !.os = n].text = h.text
                        /\ [h EXCEPT !.os = n].synced = h.synced
    BY <1>6 DEF File
  <2> QED
    BY <2>1, <2>2, <2>3, <2>4
<1> HIDE DEF g, text
<1>8. Sound(g)
  BY <1>1, <1>2, <1>6, <1>7 DEF Sound
<1>9. file' = [file EXCEPT ![session] = g]
  BY <1>4 DEF g
<1> QED
  BY <1>3, <1>7, <1>8, <1>9 DEF f, text

-----------------------------------------------------------------------------
(* create *)

(* A new process begins with the first session number.                     *)
LEMMA BootStep ==
  ASSUME IInv, Boot
  PROVE  IInv'
<1>1. pc' = "create" /\ UNCHANGED <<file, next, session, logged, acked>>
  BY DEF Boot
<1>2. SessionOf'
  BY <1>1 DEF SessionOf
<1> QED
  BY <1>1, <1>2, StillKeeps DEF IInv, TypeOK

(* A name that is taken is left alone.                                     *)
LEMMA TryNextStep ==
  ASSUME IInv, TryNext
  PROVE  IInv'
<1>1. /\ pc = "create" /\ pc' \in {"create", "stopped"} /\ session' \in Numbers
      /\ UNCHANGED <<file, next, logged, acked>>
  BY OwnFile DEF TryNext
<1>2. SessionOf'
  BY <1>1 DEF SessionOf
<1> QED
  BY <1>1, <1>2, StillKeeps DEF IInv, TypeOK

(* create_new makes an empty file where there was none.                    *)
LEMMA ReserveStep ==
  ASSUME IInv, Reserve
  PROVE  IInv'
<1>1. /\ file[session] = Absent /\ file' = [file EXCEPT ![session] = Empty]
      /\ pc' = "open" /\ UNCHANGED <<next, session, logged, acked>>
  BY DEF Reserve
<1>2. /\ Empty \in File /\ Sound(Empty) /\ HeaderFirst(Empty.text) /\ DumpsOnce(Empty.text)
      /\ Empty # Absent /\ Empty.synced = 0
  BY FileFields DEF Sound, HeaderFirst, DumpsOnce
<1>3. acked[session] = 0
  BY <1>1, OwnFile DEF IInv, FileOf
<1>4. file'[session'] = Empty
  BY <1>1, OwnFile
<1>5. SessionOf'
  BY <1>1, <1>2, <1>4 DEF SessionOf
<1>6. acked' \in [Numbers -> Nat] /\ acked'[session] =< Empty.synced
  BY <1>1, <1>2, <1>3, OwnFile
<1>7. next' \in {"off", "run", "stopped"} /\ logged' \subseteq Dumps
  BY <1>1, OwnFile DEF TypeOK
<1> QED
  BY <1>1, <1>2, <1>5, <1>6, <1>7, OwnKeeps

(* A session without a file has none to keep.                              *)
LEMMA CreateFailsStep ==
  ASSUME IInv, CreateFails
  PROVE  IInv'
<1>1. pc' = "stopped" /\ UNCHANGED <<file, next, session, logged, acked>>
  BY DEF CreateFails
<1>2. SessionOf'
  BY <1>1 DEF SessionOf
<1> QED
  BY <1>1, <1>2, StillKeeps DEF IInv, TypeOK

(* The header is written to a file that is empty.                          *)
LEMMA WriteHeaderStep ==
  ASSUME IInv, WriteHeader
  PROVE  IInv'
<1> DEFINE lines == [i \in DOMAIN HeaderKeys |-> HeaderLine(i)]
           H == Len(HeaderKeys)
<1>1. /\ pc = "open" /\ Spill(lines) /\ pc' = "flush" /\ next' = "run"
      /\ UNCHANGED <<session, logged, acked>>
  BY DEF WriteHeader
<1>2. file[session] = Empty
  BY <1>1 DEF IInv, SessionOf
<1>3. /\ lines \in Seq(Line) /\ Len(lines) = H
      /\ \A i \in 1..H : lines[i] = HeaderLine(i) /\ lines[i].kind = "header"
  BY Header
<1> HIDE DEF lines
<1>4. HeaderFirst(lines) /\ DumpsOnce(lines)
  BY <1>3, Header DEF HeaderFirst, DumpsOnce
<1>5. [Empty EXCEPT !.text = @ \o lines] = [Empty EXCEPT !.text = lines]
  <2>1. <<>> \o lines = lines
    BY <1>3
  <2> QED
    BY <2>1 DEF Empty
<1>6. [Empty EXCEPT !.text = lines].text = lines
  BY DEF Empty
<1>7. PICK n \in 0..(2 * Len(lines)) :
        file' = [file EXCEPT ![session] = [[Empty EXCEPT !.text = lines] EXCEPT !.os = n]]
  BY <1>1, <1>2, <1>5, <1>6, FileFields DEF Spill
<1> DEFINE g == [[Empty EXCEPT !.text = lines] EXCEPT !.os = n]
<1>8. g \in File /\ g.text = lines /\ g.os = n /\ g.synced = 0
  <2>1. [Empty EXCEPT !.text = lines] \in File
    BY <1>3, FileFields DEF File
  <2>2. [Empty EXCEPT !.text = lines].synced = 0
    BY DEF Empty
  <2>3. n \in Nat
    BY <1>3, <1>7, Header
  <2>4. \A h \in File : /\ [h EXCEPT !.os = n] \in File /\ [h EXCEPT !.os = n].os = n
                        /\ [h EXCEPT !.os = n].text = h.text
                        /\ [h EXCEPT !.os = n].synced = h.synced
    BY <2>3 DEF File
  <2> QED
    BY <1>6, <2>1, <2>2, <2>4
<1>9. file' = [file EXCEPT ![session] = g]
  BY <1>7
<1> HIDE DEF g
<1>10. Sound(g) /\ g # Absent /\ HeaderFirst(g.text) /\ DumpsOnce(g.text)
  BY <1>3, <1>4, <1>7, <1>8, Header, FileFields DEF Sound
<1>11. file'[session'] = g
  BY <1>1, <1>9, OwnFile
<1>12. SessionOf'
  BY <1>1, <1>3, <1>8, <1>10, <1>11, Header DEF SessionOf
<1>13. acked[session] =< 0
  BY <1>2, OwnFile, FileFields
<1> QED
  BY <1>1, <1>8, <1>9, <1>10, <1>12, <1>13, OwnFile, OwnKeeps DEF TypeOK

-----------------------------------------------------------------------------
(* The lines of a session *)

(* A comment line after the header, with or without a flush.               *)
LEMMA CommentKeeps ==
  ASSUME IInv, pc = "run", NEW line \in Line, line.kind \in {"status", "event"},
         Spill(<<line>>), UNCHANGED <<session, logged, acked>>,
         \/ UNCHANGED <<pc, next>>
         \/ pc' = "flush" /\ next' \in {"run", "stopped"}
  PROVE  IInv'
<1> DEFINE f == file[session]
<1>1. PICK g \in File :
        /\ file' = [file EXCEPT ![session] = g]
        /\ Sound(g) /\ HeaderFirst(g.text) /\ DumpsOnce(g.text)
        /\ g.text = f.text \o <<line>> /\ g.synced = f.synced
  BY LineSpilled
<1>2. /\ f \in File /\ acked[session] =< f.synced /\ Len(HeaderKeys) =< Len(f.text)
      /\ \A i \in 1..Len(f.text) : f.text[i].kind = "dump" => f.text[i].id \in logged
  BY OwnFile DEF Live, IInv, SessionOf
<1>3. /\ f.text \in Seq(Line) /\ Len(f.text) \in Nat
  BY <1>2, FileFields
<1>4. /\ Len(g.text) = Len(f.text) + 1 /\ \A i \in 1..Len(f.text) : g.text[i] = f.text[i]
      /\ g.text[Len(f.text) + 1] = line
  BY <1>1, <1>3, LineAdded
<1>5. file'[session'] = g /\ g # Absent
  BY <1>1, OwnFile, FileFields
<1>6. \A i \in 1..Len(g.text) : g.text[i].kind = "dump" => g.text[i].id \in logged
  <2>1. \A i \in 1..Len(g.text) : i \in 1..Len(f.text) \/ i = Len(f.text) + 1
    BY <1>3, <1>4
  <2> QED
    BY <1>2, <1>4, <2>1
<1> HIDE DEF f
<1>7. SessionOf'
  BY <1>2, <1>3, <1>4, <1>5, <1>6, Header DEF SessionOf
<1>8. acked'[session] =< g.synced
  BY <1>1, <1>2
<1>9. /\ pc' \in {"off", "create", "open", "flush", "sync", "run", "append", "stopped"}
      /\ next' \in {"off", "run", "stopped"}
  BY OwnFile DEF TypeOK
<1> QED
  BY <1>1, <1>7, <1>8, <1>9, OwnFile, OwnKeeps DEF TypeOK

(* An event line is no header and no dump.                                 *)
LEMMA EventStep ==
  ASSUME IInv, Event
  PROVE  IInv'
BY PlainLine, CommentKeeps DEF Event, Running

(* Nor is a status line.                                                   *)
LEMMA StatusStep ==
  ASSUME IInv, Status
  PROVE  IInv'
BY PlainLine, CommentKeeps DEF Status, Running

(* Nor is the last status line.                                            *)
LEMMA LastStatusStep ==
  ASSUME IInv, LastStatus
  PROVE  IInv'
BY PlainLine, CommentKeeps DEF LastStatus, Running

(* A claimed dump has not been written yet.                                *)
LEMMA ClaimStep ==
  ASSUME IInv, Claim
  PROVE  IInv'
<1> DEFINE f == file[session]
<1>1. PICK d \in Dumps \ logged :
        Spill(<<[kind |-> "claim", id |-> d]>>) /\ logged' = logged \cup {d}
  BY DEF Claim
<1>2. pc = "run" /\ pc' = "append" /\ UNCHANGED <<next, session, acked>>
  BY DEF Claim, Running
<1> DEFINE line == [kind |-> "claim", id |-> d]
<1>3. line \in Line /\ line.kind = "claim" /\ line.id = d
  BY DEF Line
<1>4. Spill(<<line>>)
  BY <1>1
<1> HIDE DEF line
<1>5. PICK g \in File :
        /\ file' = [file EXCEPT ![session] = g]
        /\ Sound(g) /\ HeaderFirst(g.text) /\ DumpsOnce(g.text)
        /\ g.text = f.text \o <<line>> /\ g.synced = f.synced
  BY <1>2, <1>3, <1>4, LineSpilled
<1>6. /\ f \in File /\ acked[session] =< f.synced /\ Len(HeaderKeys) =< Len(f.text)
      /\ \A i \in 1..Len(f.text) : f.text[i].kind = "dump" => f.text[i].id \in logged
  BY <1>2, OwnFile DEF Live, IInv, SessionOf
<1>7. f.text \in Seq(Line) /\ Len(f.text) \in Nat
  BY <1>6, FileFields
<1>8. /\ Len(g.text) = Len(f.text) + 1 /\ \A i \in 1..Len(f.text) : g.text[i] = f.text[i]
      /\ g.text[Len(f.text) + 1] = line
  BY <1>3, <1>5, <1>7, LineAdded
<1>9. file'[session'] = g /\ g # Absent
  BY <1>2, <1>5, OwnFile, FileFields
<1>10. \A i \in 1..Len(g.text) :
         g.text[i].kind = "dump" => g.text[i].id \in logged /\ g.text[i].id # d
  <2>1. \A i \in 1..Len(g.text) : i \in 1..Len(f.text) \/ i = Len(f.text) + 1
    BY <1>7, <1>8
  <2> QED
    BY <1>1, <1>3, <1>6, <1>8, <2>1
<1> HIDE DEF f
<1>11. Len(g.text) > 0 /\ g.text[Len(g.text)].id = d /\ Len(HeaderKeys) =< Len(g.text)
  BY <1>3, <1>6, <1>7, <1>8, Header
<1>12. SessionOf'
  BY <1>1, <1>2, <1>9, <1>10, <1>11 DEF SessionOf, DumpOf
<1>13. acked'[session] =< g.synced /\ logged' \subseteq Dumps
  BY <1>1, <1>2, <1>5, <1>6, OwnFile DEF TypeOK
<1> QED
  BY <1>2, <1>5, <1>12, <1>13, OwnFile, OwnKeeps DEF TypeOK

(* The one line of a claimed dump is the first with its number.            *)
LEMMA AppendDumpStep ==
  ASSUME IInv, AppendDump
  PROVE  IInv'
<1> DEFINE f == file[session]
           d == Last(f.text).id
           line == [kind |-> "dump", id |-> d]
<1>1. /\ pc = "append" /\ Spill(<<line>>) /\ pc' = "run"
      /\ UNCHANGED <<next, session, logged, acked>>
  BY DEF AppendDump
<1>2. /\ f \in File /\ acked[session] =< f.synced /\ Len(HeaderKeys) =< Len(f.text)
      /\ \A i \in 1..Len(f.text) : f.text[i].kind = "dump" => f.text[i].id \in logged
  BY <1>1, OwnFile DEF Live, IInv, SessionOf
<1>3. f.text \in Seq(Line) /\ Len(f.text) \in Nat
  BY <1>2, FileFields
<1>4. d \in logged /\ \A i \in 1..Len(f.text) : ~DumpOf(f.text, i, d)
  BY <1>1 DEF IInv, SessionOf, Last
<1>5. line \in Line /\ line.kind = "dump" /\ line.id = d
  <2>1. d \in Dumps
    BY <1>4, OwnFile DEF TypeOK
  <2> HIDE DEF d
  <2> QED
    BY <2>1 DEF Line
<1> HIDE DEF line, d
<1>6. PICK g \in File :
        /\ file' = [file EXCEPT ![session] = g]
        /\ Sound(g) /\ HeaderFirst(g.text) /\ DumpsOnce(g.text)
        /\ g.text = f.text \o <<line>> /\ g.synced = f.synced
  BY <1>1, <1>4, <1>5, LineSpilled
<1>7. /\ Len(g.text) = Len(f.text) + 1 /\ \A i \in 1..Len(f.text) : g.text[i] = f.text[i]
      /\ g.text[Len(f.text) + 1] = line
  BY <1>3, <1>5, <1>6, LineAdded
<1>8. file'[session'] = g /\ g # Absent
  BY <1>1, <1>6, OwnFile, FileFields
<1>9. \A i \in 1..Len(g.text) : g.text[i].kind = "dump" => g.text[i].id \in logged
  <2>1. \A i \in 1..Len(g.text) : i \in 1..Len(f.text) \/ i = Len(f.text) + 1
    BY <1>3, <1>7
  <2> QED
    BY <1>2, <1>4, <1>5, <1>7, <2>1
<1> HIDE DEF f
<1>10. SessionOf'
  BY <1>1, <1>2, <1>3, <1>7, <1>8, <1>9, Header DEF SessionOf
<1>11. acked'[session] =< g.synced
  BY <1>1, <1>2, <1>6
<1> QED
  BY <1>1, <1>6, <1>10, <1>11, OwnFile, OwnKeeps DEF TypeOK

(* A flush hands the whole text to the system.                             *)
LEMMA FlushStep ==
  ASSUME IInv, Flush
  PROVE  IInv'
<1>1. /\ pc = "run" /\ pc' = "flush" /\ next' = "run"
      /\ UNCHANGED <<file, session, logged, acked>>
  BY DEF Flush
<1>2. SessionOf'
  BY <1>1 DEF IInv, SessionOf
<1> QED
  BY <1>1, <1>2, StillKeeps DEF IInv, TypeOK

(* So does the flush before a sync.                                        *)
LEMMA FlushBufferStep ==
  ASSUME IInv, FlushBuffer
  PROVE  IInv'
<1> DEFINE f == file[session]
           n == 2 * Len(f.text)
           g == [f EXCEPT !.os = n]
<1>1. /\ pc = "flush" /\ file' = [file EXCEPT ![session].os = n] /\ pc' = "sync"
      /\ UNCHANGED <<next, session, logged, acked>>
  BY DEF FlushBuffer
<1>2. /\ f \in File /\ Sound(f) /\ HeaderFirst(f.text) /\ DumpsOnce(f.text)
      /\ acked[session] =< f.synced /\ session \in Numbers
  BY <1>1, OwnFile DEF Live
<1>3. n \in Nat /\ f.os \in Nat /\ f.synced \in Nat
  BY <1>2, FileFields
<1>4. file' = [file EXCEPT ![session] = g]
  BY <1>1
<1> HIDE DEF n
<1>5. g \in File /\ g.text = f.text /\ g.os = n /\ g.synced = f.synced
  <2> HIDE DEF f
  <2> QED
    BY <1>2, <1>3, Flushed
<1>6. Sound(g) /\ g # Absent
  BY <1>2, <1>3, <1>5, FileFields DEF Sound, n
<1> HIDE DEF g
<1>7. file'[session'] = g
  BY <1>1, <1>4, OwnFile
<1>8. SessionOf'
  BY <1>1, <1>5, <1>6, <1>7 DEF IInv, SessionOf
<1>9. next' \in {"off", "run", "stopped"} /\ logged' \subseteq Dumps
  BY <1>1, OwnFile DEF TypeOK
<1>10. /\ acked' \in [Numbers -> Nat] /\ acked'[session] =< g.synced
       /\ HeaderFirst(g.text) /\ DumpsOnce(g.text)
  BY <1>1, <1>2, <1>5, OwnFile
<1> QED
  BY <1>1, <1>4, <1>5, <1>6, <1>8, <1>9, <1>10, OwnKeeps

(* After a sync the whole text is durable, and only then is it             *)
(* acknowledged.                                                           *)
LEMMA SyncStep ==
  ASSUME IInv, Sync
  PROVE  IInv'
<1> DEFINE f == file[session]
           n == f.os
           g == [f EXCEPT !.synced = n]
<1>1. /\ pc = "sync" /\ file' = [file EXCEPT ![session].synced = n] /\ pc' = next
      /\ acked' = [acked EXCEPT ![session] = n] /\ UNCHANGED <<next, session, logged>>
  BY DEF Sync
<1>2. /\ f \in File /\ Sound(f) /\ HeaderFirst(f.text) /\ DumpsOnce(f.text)
      /\ session \in Numbers /\ next \in {"run", "stopped"}
  BY <1>1, OwnFile DEF Live, IInv, SessionOf, TypeOK
<1>3. n \in Nat /\ f.synced \in Nat
  BY <1>2, FileFields
<1>4. file' = [file EXCEPT ![session] = g]
  BY <1>1
<1> HIDE DEF n
<1>5. g \in File /\ g.text = f.text /\ g.os = n /\ g.synced = n
  <2>1. f.os = n
    BY DEF n
  <2> HIDE DEF f
  <2> QED
    BY <1>2, <1>3, <2>1, Flushed
<1>6. Sound(g) /\ g # Absent
  BY <1>2, <1>3, <1>5, FileFields DEF Sound, n
<1> HIDE DEF g
<1>7. file'[session'] = g
  BY <1>1, <1>4, OwnFile
<1>8. SessionOf'
  BY <1>1, <1>2, <1>5, <1>6, <1>7 DEF IInv, SessionOf
<1>9. next' \in {"off", "run", "stopped"} /\ logged' \subseteq Dumps
  BY <1>1, OwnFile DEF TypeOK
<1>10. /\ acked' \in [Numbers -> Nat] /\ acked'[session] =< g.synced
       /\ \A m \in Numbers \ {session} : acked'[m] = acked[m]
       /\ HeaderFirst(g.text) /\ DumpsOnce(g.text)
  BY <1>1, <1>2, <1>3, <1>5, OwnFile
<1>11. pc' \in {"off", "create", "open", "flush", "sync", "run", "append", "stopped"}
  BY <1>1, <1>2
<1> QED
  BY <1>1, <1>4, <1>5, <1>6, <1>8, <1>9, <1>10, <1>11, OwnKeeps

-----------------------------------------------------------------------------
(* Failures, deaths and losses *)

(* A failed write, flush or sync ends the writer and acknowledges nothing. *)
LEMMA FailsStep ==
  ASSUME IInv, Fails
  PROVE  IInv'
<1> DEFINE f == file[session]
<1>1. PICK n \in f.os..(2 * Len(f.text)) :
        file' = [file EXCEPT ![session] = Remains(f, n)]
  BY DEF Fails
<1>2. pc \in {"flush", "sync", "append"} /\ pc' = "stopped"
      /\ UNCHANGED <<next, session, logged, acked>>
  BY DEF Fails
<1>3. /\ f \in File /\ Sound(f) /\ HeaderFirst(f.text) /\ DumpsOnce(f.text)
      /\ acked[session] =< f.synced
  BY <1>2, OwnFile DEF Live
<1>4. n \in f.synced..(2 * Len(f.text))
  BY <1>1, <1>3, FileFields DEF Sound
<1> DEFINE g == Remains(f, n)
<1>5. /\ g \in File /\ Sound(g) /\ HeaderFirst(g.text) /\ DumpsOnce(g.text)
      /\ g.synced = f.synced
  BY <1>3, <1>4, RemainsKeeps
<1>6. file' = [file EXCEPT ![session] = g]
  BY <1>1
<1> HIDE DEF g
<1>7. SessionOf'
  BY <1>2 DEF SessionOf
<1>8. /\ acked' \in [Numbers -> Nat] /\ acked'[session] =< g.synced
      /\ next' \in {"off", "run", "stopped"} /\ logged' \subseteq Dumps
  BY <1>2, <1>3, <1>5, OwnFile DEF TypeOK
<1> QED
  BY <1>2, <1>5, <1>6, <1>7, <1>8, OwnKeeps

(* A failed line may leave part of what was buffered, never another order. *)
LEMMA LineFailsStep ==
  ASSUME IInv, LineFails
  PROVE  IInv'
<1> DEFINE f == file[session]
<1>1. PICK line \in {Plain("event"), Plain("status")} :
        \E n \in [f EXCEPT !.text = Append(@, line)].os
                   ..(2 * Len([f EXCEPT !.text = Append(@, line)].text) - 1) :
          file' = [file EXCEPT ![session] = Remains([f EXCEPT !.text = Append(@, line)], n)]
  BY DEF LineFails
<1>2. pc = "run" /\ pc' = "stopped" /\ UNCHANGED <<next, session, logged, acked>>
  BY DEF LineFails, Running
<1>3. /\ f \in File /\ Sound(f) /\ HeaderFirst(f.text) /\ DumpsOnce(f.text)
      /\ acked[session] =< f.synced /\ Len(HeaderKeys) =< Len(f.text)
  BY <1>2, OwnFile DEF Live, IInv, SessionOf
<1>4. line \in Line /\ line.kind # "header" /\ line.kind # "dump"
  BY PlainLine
<1> DEFINE text == f.text \o <<line>>
           whole == [f EXCEPT !.text = Append(@, line)]
<1>5. f.text \in Seq(Line) /\ Len(f.text) \in Nat /\ f.os \in Nat /\ f.synced \in Nat
  BY <1>3, FileFields
<1>6. /\ text \in Seq(Line) /\ Len(text) = Len(f.text) + 1
      /\ HeaderFirst(text) /\ DumpsOnce(text)
  BY <1>3, <1>4, <1>5, LineAdded
<1>7. whole \in File /\ whole.text = text /\ whole.os = f.os /\ whole.synced = f.synced
  <2>1. Append(f.text, line) = text
    BY <1>4, <1>5
  <2>2. whole = [f EXCEPT !.text = text]
    BY <2>1
  <2> HIDE DEF f, text, whole
  <2>3. /\ [f EXCEPT !.text = text] \in File /\ [f EXCEPT !.text = text].text = text
        /\ [f EXCEPT !.text = text].os = f.os /\ [f EXCEPT !.text = text].synced = f.synced
    BY <1>3, <1>6 DEF File
  <2> QED
    BY <2>2, <2>3
<1>8. PICK n \in whole.os..(2 * Len(whole.text) - 1) :
        file' = [file EXCEPT ![session] = Remains(whole, n)]
  BY <1>1
<1> HIDE DEF whole, text
<1>9. n \in whole.synced..(2 * Len(whole.text))
  BY <1>3, <1>5, <1>6, <1>7, <1>8 DEF Sound
<1> DEFINE g == Remains(whole, n)
<1>10. /\ g \in File /\ Sound(g) /\ HeaderFirst(g.text) /\ DumpsOnce(g.text)
       /\ g.synced = f.synced
  BY <1>6, <1>7, <1>9, RemainsKeeps
<1>11. file' = [file EXCEPT ![session] = g]
  BY <1>8
<1> HIDE DEF g
<1>12. SessionOf'
  BY <1>2 DEF SessionOf
<1>13. /\ acked' \in [Numbers -> Nat] /\ acked'[session] =< g.synced
       /\ next' \in {"off", "run", "stopped"} /\ logged' \subseteq Dumps
  BY <1>2, <1>3, <1>10, OwnFile DEF TypeOK
<1> QED
  BY <1>2, <1>10, <1>11, <1>12, <1>13, OwnKeeps

(* The process is gone, and of each file a prefix with what was synced is  *)
(* left.                                                                   *)
LEMMA LossKeeps ==
  ASSUME IInv, NoProcess, UNCHANGED acked, NEW left,
         \A n \in Numbers :
           file[n] # Absent => left[n] \in file[n].synced..(2 * Len(file[n].text)),
         file' = [n \in Numbers |->
           IF file[n] = Absent THEN Absent ELSE Remains(file[n], left[n])]
  PROVE  IInv'
<1>1. ASSUME NEW n \in Numbers, file[n] # Absent
      PROVE  /\ file'[n] \in File /\ file'[n] # Absent /\ Sound(file'[n])
             /\ file'[n].synced = file[n].synced
             /\ HeaderFirst(file'[n].text) /\ DumpsOnce(file'[n].text)
  <2>1. /\ file[n] \in File /\ HeaderFirst(file[n].text) /\ DumpsOnce(file[n].text)
        /\ left[n] \in file[n].synced..(2 * Len(file[n].text))
    BY <1>1 DEF IInv, TypeOK, FileOf
  <2>2. file'[n] = Remains(file[n], left[n])
    BY <1>1
  <2> QED
    BY <2>1, <2>2, RemainsKeeps, FileFields
<1>2. ASSUME NEW n \in Numbers, file[n] = Absent
      PROVE  file'[n] = Absent
  BY <1>2
<1>3. \A n \in Numbers : FileOf(n)'
  <2> SUFFICES ASSUME NEW n \in Numbers
               PROVE  FileOf(n)'
    OBVIOUS
  <2>1. FileOf(n) /\ acked'[n] = acked[n]
    BY DEF IInv
  <2>2. CASE file[n] = Absent
    BY <1>2, <2>1, <2>2 DEF FileOf
  <2>3. CASE file[n] # Absent
    BY <1>1, <2>1, <2>3 DEF FileOf
  <2> QED
    BY <2>2, <2>3
<1>4. file' \in [Numbers -> File \cup {Absent}]
  <2>1. \A n \in Numbers : file'[n] \in File \cup {Absent}
    BY <1>1, <1>2
  <2>2. DOMAIN file' = Numbers /\ file' = [n \in Numbers |-> file'[n]]
    OBVIOUS
  <2> QED
    BY <2>1, <2>2
<1>5. \A n \in Numbers : file'[n] # Absent => Sound(file'[n])
  BY <1>1, <1>2
<1>6. pc' = "off" /\ next' = "off" /\ session' = 0 /\ logged' = {} /\ session' \in Numbers
  BY LogAssumption DEF NoProcess, Numbers
<1>7. TypeOK'
  BY <1>4, <1>5, <1>6 DEF IInv, TypeOK, Sound
<1>8. SessionOf'
  BY <1>6 DEF SessionOf
<1> QED
  BY <1>3, <1>7, <1>8 DEF IInv

(* A process that dies leaves what the system holds.                       *)
LEMMA ProcessDiesStep ==
  ASSUME IInv, ProcessDies
  PROVE  IInv'
<1> DEFINE left == [n \in Numbers |-> file[n].os]
<1>1. /\ NoProcess /\ UNCHANGED acked
      /\ file' = [n \in Numbers |->
           IF file[n] = Absent THEN Absent ELSE Remains(file[n], left[n])]
  BY DEF ProcessDies
<1>2. ASSUME NEW n \in Numbers, file[n] # Absent
      PROVE  left[n] \in file[n].synced..(2 * Len(file[n].text))
  <2>1. file[n] \in File /\ Sound(file[n])
    BY <1>2 DEF IInv, TypeOK, Sound
  <2> QED
    BY <2>1, FileFields DEF Sound
<1> HIDE DEF left
<1> QED
  BY <1>1, <1>2, LossKeeps

(* A power loss leaves at least what was synced.                           *)
LEMMA PowerLossStep ==
  ASSUME IInv, PowerLoss
  PROVE  IInv'
<1>1. PICK left \in [Numbers -> 0..(2 * (MaxLines + 1))] :
        /\ \A n \in Numbers :
             IF file[n] = Absent THEN left[n] = 0
             ELSE file[n].synced =< left[n] /\ left[n] =< file[n].os
        /\ file' = [n \in Numbers |->
             IF file[n] = Absent THEN Absent ELSE Remains(file[n], left[n])]
  BY DEF PowerLoss
<1>2. NoProcess /\ UNCHANGED acked
  BY DEF PowerLoss
<1>3. ASSUME NEW n \in Numbers, file[n] # Absent
      PROVE  left[n] \in file[n].synced..(2 * Len(file[n].text))
  <2>1. file[n] \in File /\ Sound(file[n])
    BY <1>3 DEF IInv, TypeOK, Sound
  <2>2. left[n] \in Nat /\ file[n].synced =< left[n] /\ left[n] =< file[n].os
    BY <1>1, <1>3, LogAssumption
  <2> QED
    BY <2>1, <2>2, FileFields DEF Sound
<1> QED
  BY <1>1, <1>2, <1>3, LossKeeps

(* A file that is taken away was not the one being written.                *)
LEMMA ArchiveStep ==
  ASSUME IInv, NEW n \in Numbers, Archive(n)
  PROVE  IInv'
<1>1. /\ pc = "off" /\ file' = [file EXCEPT ![n] = Absent] /\ acked' = [acked EXCEPT ![n] = 0]
      /\ UNCHANGED <<pc, next, session, logged>>
  BY DEF Archive
<1>2. /\ file' \in [Numbers -> File \cup {Absent}] /\ acked' \in [Numbers -> Nat]
      /\ file'[n] = Absent /\ acked'[n] = 0
      /\ \A m \in Numbers \ {n} : file'[m] = file[m] /\ acked'[m] = acked[m]
  BY <1>1, OwnFile
<1>3. TypeOK'
  BY <1>1, <1>2 DEF IInv, TypeOK
<1>4. \A m \in Numbers : FileOf(m)'
  BY <1>2 DEF IInv, FileOf
<1>5. SessionOf'
  BY <1>1 DEF SessionOf
<1> QED
  BY <1>3, <1>4, <1>5 DEF IInv

-----------------------------------------------------------------------------
(* The invariant *)

(* There is no file before the first boot.                                 *)
LEMMA Initially ==
  Init => IInv
<1> SUFFICES ASSUME Init
             PROVE  IInv
  OBVIOUS
<1>1. /\ file = [n \in Numbers |-> Absent] /\ pc = "off" /\ next = "off" /\ session = 0
      /\ logged = {} /\ acked = [n \in Numbers |-> 0]
  BY DEF Init
<1>2. session \in Numbers
  BY <1>1, LogAssumption DEF Numbers
<1>3. TypeOK
  BY <1>1, <1>2 DEF TypeOK
<1>4. (\A n \in Numbers : FileOf(n)) /\ SessionOf
  BY <1>1 DEF FileOf, SessionOf
<1> QED
  BY <1>3, <1>4 DEF IInv

(* Nothing changes when nothing happens.                                   *)
LEMMA StutterStep ==
  ASSUME IInv, UNCHANGED vars
  PROVE  IInv'
<1>1. UNCHANGED <<file, pc, next, session, logged, acked>>
  BY DEF vars
<1>2. TypeOK' /\ SessionOf' /\ \A n \in Numbers : FileOf(n)'
  BY <1>1 DEF IInv, TypeOK, SessionOf, FileOf
<1> QED
  BY <1>2 DEF IInv

(* The invariant holds after every step.                                   *)
LEMMA Inductive ==
  IInv /\ [Next]_vars => IInv'
<1> SUFFICES ASSUME IInv, [Next]_vars
             PROVE  IInv'
  OBVIOUS
<1>1. CASE Create
  BY <1>1, BootStep, TryNextStep, ReserveStep, CreateFailsStep, WriteHeaderStep DEF Create
<1>2. CASE Log
  BY <1>2, EventStep, StatusStep, LastStatusStep, ClaimStep, AppendDumpStep, FlushStep,
     FlushBufferStep, SyncStep DEF Log
<1>3. CASE Fails \/ LineFails \/ ProcessDies \/ PowerLoss
  BY <1>3, FailsStep, LineFailsStep, ProcessDiesStep, PowerLossStep
<1>4. ASSUME NEW n \in Numbers, Archive(n)
      PROVE  IInv'
  BY <1>4, ArchiveStep
<1>5. CASE UNCHANGED vars
  BY <1>5, StutterStep
<1> QED
  BY <1>1, <1>2, <1>3, <1>4, <1>5 DEF Next

-----------------------------------------------------------------------------
(* The strict reader *)

(* The reader sees the whole lines of what the system holds of a file.     *)
LEMMA WholeLines ==
  ASSUME NEW f \in File, Sound(f)
  PROVE  /\ f.text \in Seq(Line) /\ f.os \in Nat
         /\ f.os \div 2 \in 0..Len(f.text) /\ (f.os + 1) \div 2 \in 0..Len(f.text)
         /\ Len(Whole(f)) = f.os \div 2 /\ Len(Shown(f)) = (f.os + 1) \div 2
         /\ DOMAIN Whole(f) = 1..Len(Whole(f)) /\ DOMAIN Shown(f) = 1..Len(Shown(f))
         /\ \A i \in 1..Len(Whole(f)) : i \in 1..Len(f.text) /\ Whole(f)[i] = f.text[i]
         /\ \A i \in 1..Len(Shown(f)) : i \in 1..Len(f.text) /\ Shown(f)[i] = f.text[i]
<1> DEFINE w == f.os \div 2
           k == (f.os + 1) \div 2
<1>1. f.text \in Seq(Line) /\ f.os \in Nat /\ f.os =< 2 * Len(f.text) /\ Len(f.text) \in Nat
  BY FileFields DEF Sound
<1>2. w \in 0..Len(f.text) /\ k \in 0..Len(f.text)
  BY <1>1
<1> HIDE DEF w, k
<1>3. /\ Len(SubSeq(f.text, 1, w)) = w /\ DOMAIN SubSeq(f.text, 1, w) = 1..w
      /\ \A i \in 1..w : SubSeq(f.text, 1, w)[i] = f.text[i]
  BY <1>1, <1>2
<1>4. /\ Len(SubSeq(f.text, 1, k)) = k /\ DOMAIN SubSeq(f.text, 1, k) = 1..k
      /\ \A i \in 1..k : SubSeq(f.text, 1, k)[i] = f.text[i]
  BY <1>1, <1>2
<1>5. Whole(f) = SubSeq(f.text, 1, w) /\ Shown(f) = SubSeq(f.text, 1, k)
  BY DEF Whole, Shown, w, k
<1>6. (\A i \in 1..w : i \in 1..Len(f.text)) /\ (\A i \in 1..k : i \in 1..Len(f.text))
  BY <1>1, <1>2
<1> QED
  BY <1>1, <1>2, <1>3, <1>4, <1>5, <1>6 DEF w, k

(* A prefix of a session's text repeats neither a header key nor a         *)
(* sequence number.                                                        *)
LEMMA NoDuplicates ==
  ASSUME NEW f \in File, Sound(f), HeaderFirst(f.text), DumpsOnce(f.text)
  PROVE  ~Duplicates(Shown(f), "header") /\ ~Duplicates(Whole(f), "dump")
<1>1. ASSUME Duplicates(Shown(f), "header")
      PROVE  FALSE
  <2>1. PICK i \in DOMAIN Shown(f), j \in DOMAIN Shown(f) :
          /\ i # j /\ Shown(f)[i].kind = "header" /\ Shown(f)[j].kind = "header"
          /\ Shown(f)[i].id = Shown(f)[j].id
    BY <1>1 DEF Duplicates
  <2>2. /\ i \in 1..Len(f.text) /\ Shown(f)[i] = f.text[i]
        /\ j \in 1..Len(f.text) /\ Shown(f)[j] = f.text[j]
    BY WholeLines
  <2>3. /\ i =< Len(HeaderKeys) /\ f.text[i] = HeaderLine(i)
        /\ j =< Len(HeaderKeys) /\ f.text[j] = HeaderLine(j)
    BY <2>1, <2>2 DEF HeaderFirst
  <2>4. i \in 1..Len(HeaderKeys) /\ j \in 1..Len(HeaderKeys)
    BY <2>2, <2>3, Header
  <2>5. HeaderKeys[i] = HeaderKeys[j]
    BY <2>1, <2>2, <2>3, <2>4, Header
  <2> QED
    BY <2>1, <2>4, <2>5, Header
<1>2. ASSUME Duplicates(Whole(f), "dump")
      PROVE  FALSE
  <2>1. PICK i \in DOMAIN Whole(f), j \in DOMAIN Whole(f) :
          /\ i # j /\ Whole(f)[i].kind = "dump" /\ Whole(f)[j].kind = "dump"
          /\ Whole(f)[i].id = Whole(f)[j].id
    BY <1>2 DEF Duplicates
  <2>2. /\ i \in 1..Len(f.text) /\ Whole(f)[i] = f.text[i]
        /\ j \in 1..Len(f.text) /\ Whole(f)[j] = f.text[j]
    BY WholeLines
  <2> QED
    BY <2>1, <2>2 DEF DumpsOnce, DumpOf
<1> QED
  BY <1>1, <1>2

(* A file that the strict reader accepts has the whole header.             *)
LEMMA AcceptedHeader ==
  ASSUME NEW f \in File, Sound(f), HeaderFirst(f.text), Has(Whole(f), "dump")
  PROVE  /\ Len(HeaderKeys) < Len(Whole(f))
         /\ \A i \in DOMAIN Whole(f) :
              IF i =< Len(HeaderKeys) THEN Whole(f)[i] = HeaderLine(i)
              ELSE Whole(f)[i].kind # "header"
<1>1. PICK d \in DOMAIN Whole(f) : Whole(f)[d].kind = "dump"
  BY DEF Has
<1>2. /\ d \in 1..Len(Whole(f)) /\ d \in 1..Len(f.text) /\ Whole(f)[d] = f.text[d]
      /\ Len(Whole(f)) \in Nat
  BY WholeLines
<1>3. ~(d =< Len(HeaderKeys))
  <2>1. d =< Len(HeaderKeys) => d \in 1..Len(HeaderKeys) /\ f.text[d] = HeaderLine(d)
    BY <1>2, Header DEF HeaderFirst
  <2> QED
    BY <1>1, <1>2, <2>1, Header
<1>4. \A i \in DOMAIN Whole(f) : i \in 1..Len(f.text) /\ Whole(f)[i] = f.text[i]
  BY WholeLines
<1> QED
  BY <1>2, <1>3, <1>4, Header DEF HeaderFirst

-----------------------------------------------------------------------------
(* What holds in every behaviour *)

(* The inductive invariant holds in every reachable state.                 *)
THEOREM Invariance ==
  Spec => []IInv
<1> QED
  BY Initially, Inductive, PTL DEF Spec

(* Every variable has its type; the card has no more of a file than the    *)
(* file system, and that no more than was formatted.                       *)
THEOREM TypeCorrect ==
  Spec => []TypeOK
<1>1. IInv => TypeOK
  BY DEF IInv
<1> QED
  BY <1>1, Invariance, PTL

(* What a flush that returned Ok has covered stays in its file for as long *)
(* as the user leaves the file there, through failed writes, the death of  *)
(* the process and loss of power.                                          *)
THEOREM AcknowledgedSurvives ==
  Spec => []FlushedSurvives
<1>1. ASSUME IInv
      PROVE  FlushedSurvives
  <2> SUFFICES ASSUME NEW n \in Numbers, file[n] # Absent
               PROVE  acked[n] =< file[n].os
    BY DEF FlushedSurvives
  <2>1. /\ acked[n] =< file[n].synced /\ file[n].synced =< file[n].os
        /\ file[n] \in File /\ acked[n] \in Nat
    BY <1>1 DEF IInv, TypeOK, FileOf
  <2> QED
    BY <2>1, FileFields
<1> QED
  BY <1>1, Invariance, PTL

(* Whatever a session logs and wherever its file is cut, the strict reader *)
(* never sees a duplicate, and what it accepts has the whole header first. *)
THEOREM ReadBack ==
  Spec => []LogsReadBack
<1>1. ASSUME IInv
      PROVE  LogsReadBack
  <2> SUFFICES ASSUME NEW n \in Numbers, file[n] # Absent
               PROVE  LET f == file[n] IN
                      IF Refused(f)
                        THEN ~Has(Whole(f), "dump") \/ CutsADump(f)
                        ELSE /\ Len(HeaderKeys) < Len(Whole(f))
                             /\ \A i \in DOMAIN Whole(f) :
                                  IF i =< Len(HeaderKeys) THEN Whole(f)[i] = HeaderLine(i)
                                  ELSE Whole(f)[i].kind # "header"
    BY DEF LogsReadBack
  <2> DEFINE f == file[n]
  <2>1. f \in File /\ Sound(f) /\ HeaderFirst(f.text) /\ DumpsOnce(f.text)
    BY <1>1 DEF IInv, TypeOK, FileOf, Sound
  <2> HIDE DEF f
  <2>2. Refused(f) => ~Has(Whole(f), "dump") \/ CutsADump(f)
    BY <2>1, NoDuplicates DEF Refused
  <2>3. ~Refused(f) => Has(Whole(f), "dump")
    BY DEF Refused
  <2>4. ~Refused(f) =>
          /\ Len(HeaderKeys) < Len(Whole(f))
          /\ \A i \in DOMAIN Whole(f) :
               IF i =< Len(HeaderKeys) THEN Whole(f)[i] = HeaderLine(i)
               ELSE Whole(f)[i].kind # "header"
    BY <2>1, <2>3, AcceptedHeader
  <2> QED
    BY <2>2, <2>4 DEF f
<1> QED
  BY <1>1, Invariance, PTL

-----------------------------------------------------------------------------
(* Earlier sessions *)

(* What may have become of the file of an earlier session.                 *)
Kept(n) ==
  \/ file'[n] = file[n]
  \/ pc = "off" /\ file'[n] = Absent
  \/ pc' = "off" /\ file'[n] = Remains(file[n], file'[n].os)

Earlier(n) == file[n] # Absent /\ (n # session \/ pc \in {"off", "create", "stopped"})

(* A step that writes to the process's own file, or reserves a free name.  *)
LEMMA OwnOnly ==
  ASSUME IInv, NEW n \in Numbers, Earlier(n), NEW g,
         file' = [file EXCEPT ![session] = g],
         pc \in {"open", "flush", "sync", "run", "append"}
           \/ (pc = "create" /\ file[session] = Absent)
  PROVE  Kept(n)
<1>1. n # session
  BY DEF Earlier
<1> QED
  BY <1>1, OwnFile DEF Kept

(* A write to the writer's own file leaves every earlier session alone.    *)
LEMMA SpillsOwn ==
  ASSUME IInv, NEW n \in Numbers, Earlier(n), NEW lines, Spill(lines),
         pc \in {"open", "run", "append"}
  PROVE  Kept(n)
BY OwnOnly DEF Spill

(* A crash leaves of an earlier session at least what was synced of it.    *)
LEMMA LossLeaves ==
  ASSUME IInv, NEW n \in Numbers, Earlier(n), NoProcess, NEW left,
         left[n] \in file[n].synced..(2 * Len(file[n].text)),
         file' = [m \in Numbers |->
           IF file[m] = Absent THEN Absent ELSE Remains(file[m], left[m])]
  PROVE  Kept(n)
<1>1. file[n] \in File
  BY OwnFile DEF Earlier
<1>2. file'[n] = Remains(file[n], left[n])
  BY DEF Earlier
<1>3. Remains(file[n], left[n]).os = left[n]
  BY <1>1, RemainsKeeps
<1> QED
  BY <1>2, <1>3 DEF Kept, NoProcess

(* No step but those of the user and of a loss of the unsynced end touches *)
(* the file of an earlier session.                                         *)
LEMMA StepKeeps ==
  ASSUME IInv, Next, NEW n \in Numbers, Earlier(n)
  PROVE  Kept(n)
<1>1. CASE UNCHANGED file
  BY <1>1 DEF Kept
<1>2. CASE Reserve
  <2>1. /\ pc = "create" /\ file[session] = Absent
        /\ file' = [file EXCEPT ![session] = Empty]
    BY <1>2 DEF Reserve
  <2> QED
    BY <2>1, OwnOnly
<1>3. CASE WriteHeader
  BY <1>3, SpillsOwn DEF WriteHeader
<1>4. CASE Event \/ Status \/ LastStatus
  BY <1>4, SpillsOwn DEF Event, Status, LastStatus, Running
<1>5. CASE Claim
  <2>1. PICK d : Spill(<<[kind |-> "claim", id |-> d]>>)
    BY <1>5 DEF Claim
  <2> QED
    BY <1>5, <2>1, SpillsOwn DEF Claim, Running
<1>6. CASE AppendDump
  BY <1>6, SpillsOwn DEF AppendDump
<1>7. CASE FlushBuffer
  <2> DEFINE g == [file[session] EXCEPT !.os = 2 * Len(file[session].text)]
  <2>1. pc = "flush" /\ file' = [file EXCEPT ![session] = g]
    BY <1>7 DEF FlushBuffer
  <2> QED
    BY <2>1, OwnOnly
<1>8. CASE Sync
  <2> DEFINE g == [file[session] EXCEPT !.synced = file[session].os]
  <2>1. pc = "sync" /\ file' = [file EXCEPT ![session] = g]
    BY <1>8 DEF Sync
  <2> QED
    BY <2>1, OwnOnly
<1>9. CASE Fails
  <2>1. PICK k \in file[session].os..(2 * Len(file[session].text)) :
          file' = [file EXCEPT ![session] = Remains(file[session], k)]
    BY <1>9 DEF Fails
  <2>2. pc \in {"flush", "sync", "append"}
    BY <1>9 DEF Fails
  <2> QED
    BY <2>1, <2>2, OwnOnly
<1>10. CASE LineFails
  <2>1. PICK line :
          LET f == [file[session] EXCEPT !.text = Append(@, line)]
          IN \E k \in f.os..(2 * Len(f.text) - 1) :
               file' = [file EXCEPT ![session] = Remains(f, k)]
    BY <1>10 DEF LineFails
  <2>2. \E g : file' = [file EXCEPT ![session] = g]
    BY <2>1
  <2>3. pc = "run"
    BY <1>10 DEF LineFails, Running
  <2> QED
    BY <2>2, <2>3, OwnOnly
<1>11. CASE ProcessDies
  <2> DEFINE left == [m \in Numbers |-> file[m].os]
  <2>1. /\ NoProcess
        /\ file' = [m \in Numbers |->
             IF file[m] = Absent THEN Absent ELSE Remains(file[m], left[m])]
    BY <1>11 DEF ProcessDies
  <2>2. left[n] = file[n].os
    OBVIOUS
  <2>3. file[n] \in File /\ Sound(file[n])
    BY DEF IInv, TypeOK, Sound, Earlier
  <2>4. left[n] \in file[n].synced..(2 * Len(file[n].text))
    BY <2>2, <2>3, FileFields DEF Sound
  <2> HIDE DEF left
  <2> QED
    BY <2>1, <2>4, LossLeaves
<1>12. CASE PowerLoss
  <2>1. PICK left \in [Numbers -> 0..(2 * (MaxLines + 1))] :
          /\ \A m \in Numbers :
               IF file[m] = Absent THEN left[m] = 0
               ELSE file[m].synced =< left[m] /\ left[m] =< file[m].os
          /\ file' = [m \in Numbers |->
               IF file[m] = Absent THEN Absent ELSE Remains(file[m], left[m])]
    BY <1>12 DEF PowerLoss
  <2>2. file[n] \in File /\ Sound(file[n])
    BY DEF IInv, TypeOK, Sound, Earlier
  <2>3. left[n] \in Nat /\ file[n].synced =< left[n] /\ left[n] =< file[n].os
    BY <2>1, LogAssumption DEF Earlier
  <2>4. left[n] \in file[n].synced..(2 * Len(file[n].text))
    BY <2>2, <2>3, FileFields DEF Sound
  <2> QED
    BY <1>12, <2>1, <2>4, LossLeaves DEF PowerLoss
<1>13. ASSUME NEW m \in Numbers, Archive(m)
       PROVE  Kept(n)
  <2>1. pc = "off" /\ file' = [file EXCEPT ![m] = Absent]
    BY <1>13 DEF Archive
  <2> QED
    BY <2>1, OwnFile DEF Kept
<1>14. CASE Boot \/ TryNext \/ CreateFails \/ Flush
  BY <1>1, <1>14 DEF Boot, TryNext, CreateFails, Flush
<1> QED
  BY <1>2, <1>3, <1>4, <1>5, <1>6, <1>7, <1>8, <1>9, <1>10, <1>11, <1>12, <1>13, <1>14
  DEF Next, Create, Log

(* "Exclusive creation never truncates an earlier session": a process, in  *)
(* whatever order it is created, fails, dies and is started again, changes *)
(* no file that it did not create.                                         *)
THEOREM NeverTruncates ==
  Spec => EarlierSessionsPreserved
<1>1. ASSUME IInv, [Next]_vars
      PROVE  [\A n \in Numbers :
                /\ file[n] # Absent
                /\ n # session \/ pc \in {"off", "create", "stopped"}
                => \/ file'[n] = file[n]
                   \/ pc = "off" /\ file'[n] = Absent
                   \/ pc' = "off" /\ file'[n] = Remains(file[n], file'[n].os)]_vars
  <2> SUFFICES ASSUME Next, NEW n \in Numbers, Earlier(n)
               PROVE  Kept(n)
    BY <1>1 DEF Earlier, Kept
  <2> QED
    BY <1>1, StepKeeps
<1> QED
  BY <1>1, Invariance, PTL DEF Spec, EarlierSessionsPreserved
=============================================================================
