----------------------------- MODULE CaptureLog -----------------------------
(***************************************************************************)
(* The session files of src/src/capture_log.rs across crashes and          *)
(* restarts, and what the strict reader of src/tools/compare_dumps.py      *)
(* makes of a file that a session has left behind.                         *)
(*                                                                         *)
(* A process creates a file of its own, under the first number that is     *)
(* free, and appends lines to it through a BufWriter.  Lines reach the     *)
(* file system when the buffer spills or is flushed, and the card when the *)
(* file is synced.  A line is two halves, so that it can be cut: text is   *)
(* what was formatted, and of its halves the first os are in the file and  *)
(* the first synced on the card.  Text whose buffer is gone is gone.       *)
(***************************************************************************)
EXTENDS Naturals, Sequences, SequencesExt

CONSTANTS
  Sessions,    \* how many file names there are, 10000
  HeaderKeys,  \* the keys of write_header, in its order
  Dumps,       \* sequence numbers of captures
  Absent,      \* no file of that name
  MaxLines     \* bound: lines of a session

Numbers == 0..(Sessions - 1)

Line == [kind : {"header", "status", "event", "claim", "dump"},
         id : Range(HeaderKeys) \cup Dumps \cup {"none"}]

Plain(kind) == [kind |-> kind, id |-> "none"]
HeaderLine(i) == [kind |-> "header", id |-> HeaderKeys[i]]

File == [text : Seq(Line), os : Nat, synced : Nat]

ASSUME LogAssumption ==
  /\ Sessions \in Nat \ {0} /\ MaxLines \in Nat /\ Absent \notin File
  /\ HeaderKeys \in Seq(STRING) /\ IsInjective(HeaderKeys)
  /\ Len(HeaderKeys) =< MaxLines

VARIABLES
  file,    \* the file of each number, or Absent
  pc,      \* where the process is in create or in a log call; off: no process
  next,    \* where it goes on after a flush
  session, \* the number create has reached, then the number of its file
  logged,  \* sequence numbers this process has taken from the store
  acked    \* history: the halves covered by a flush that returned Ok

vars == <<file, pc, next, session, logged, acked>>

Empty == [text |-> <<>>, os |-> 0, synced |-> 0]

Init ==
  /\ file = [n \in Numbers |-> Absent]
  /\ pc = "off" /\ next = "off"
  /\ session = 0
  /\ logged = {}
  /\ acked = [n \in Numbers |-> 0]

-----------------------------------------------------------------------------
(* create *)

Boot ==
  /\ pc = "off"
  /\ pc' = "create"
  /\ UNCHANGED <<file, next, session, logged, acked>>

MTryNextPastTheEnd ==
  /\ pc = "create"
  /\ file[session] # Absent
  /\ session' = session + 1
  /\ UNCHANGED <<file, pc, next, logged, acked>>

\* AlreadyExists: the next number, or none is left.
TryNext ==
  /\ pc = "create"
  /\ file[session] # Absent
  /\ IF session + 1 \in Numbers
       THEN session' = session + 1 /\ pc' = pc
       ELSE session' = session /\ pc' = "stopped"
  /\ UNCHANGED <<file, next, logged, acked>>

MReserveTruncating ==
  /\ pc = "create"
  /\ file' = [file EXCEPT ![session] = Empty]
  /\ pc' = "open"
  /\ UNCHANGED <<next, session, logged, acked>>

\* nn::fs::CreateFile returns 0.
Reserve ==
  /\ pc = "create"
  /\ file[session] = Absent
  /\ file' = [file EXCEPT ![session] = Empty]
  /\ pc' = "open"
  /\ UNCHANGED <<next, session, logged, acked>>

\* create_dir_all, CreateFile or OpenFile fails: the empty file is left behind.
CreateFails ==
  /\ pc \in {"create", "open"}
  /\ pc' = "stopped"
  /\ UNCHANGED <<file, next, session, logged, acked>>

\* The lines that are formatted, and what the buffer has spilled of them.
Spill(lines) ==
  LET f == file[session]
      g == [f EXCEPT !.text = @ \o lines]
  IN \E n \in f.os..(2 * Len(g.text)) :
       file' = [file EXCEPT ![session] = [g EXCEPT !.os = n]]

WriteHeader ==
  /\ pc = "open"
  /\ Spill([i \in DOMAIN HeaderKeys |-> HeaderLine(i)])
  /\ pc' = "flush" /\ next' = "run"
  /\ UNCHANGED <<session, logged, acked>>

-----------------------------------------------------------------------------
(* The calls of the installing thread and, after it, of the writer thread  *)

Running == pc = "run" /\ Len(file[session].text) < MaxLines

Event ==
  /\ Running
  /\ Spill(<<Plain("event")>>)
  /\ UNCHANGED <<pc, next, session, logged, acked>>

MStatusAsHeader ==
  /\ Running
  /\ Spill(<<[kind |-> "header", id |-> "observer_status"]>>)
  /\ pc' = "flush" /\ next' = "run"
  /\ UNCHANGED <<session, logged, acked>>

Status ==
  /\ Running
  /\ Spill(<<Plain("status")>>)
  /\ pc' = "flush" /\ next' = "run"
  /\ UNCHANGED <<session, logged, acked>>

\* The status at the twenty-minute limit, whose result is ignored.
LastStatus ==
  /\ Running
  /\ Spill(<<Plain("status")>>)
  /\ pc' = "flush" /\ next' = "stopped"
  /\ UNCHANGED <<session, logged, acked>>

\* dump_written, then append, for a capture that was taken from its store.
Claim ==
  /\ Running
  /\ \E d \in Dumps \ logged :
       /\ Spill(<<[kind |-> "claim", id |-> d]>>)
       /\ logged' = logged \cup {d}
  /\ pc' = "append"
  /\ UNCHANGED <<next, session, acked>>

AppendDump ==
  /\ pc = "append"
  /\ Spill(<<[kind |-> "dump", id |-> Last(file[session].text).id]>>)
  /\ pc' = "run"
  /\ UNCHANGED <<next, session, logged, acked>>

Flush ==
  /\ pc = "run"
  /\ pc' = "flush" /\ next' = "run"
  /\ UNCHANGED <<file, session, logged, acked>>

\* BufWriter::flush, then File::sync_all.
FlushBuffer ==
  /\ pc = "flush"
  /\ file' = [file EXCEPT ![session].os = 2 * Len(file[session].text)]
  /\ pc' = "sync"
  /\ UNCHANGED <<next, session, logged, acked>>

MSyncNothing ==
  /\ pc = "sync"
  /\ acked' = [acked EXCEPT ![session] = file[session].os]
  /\ pc' = next
  /\ UNCHANGED <<file, next, session, logged>>

Sync ==
  /\ pc = "sync"
  /\ file' = [file EXCEPT ![session].synced = file[session].os]
  /\ acked' = [acked EXCEPT ![session] = file[session].os]
  /\ pc' = next
  /\ UNCHANGED <<next, session, logged>>

\* What there is of f when its first n halves are in the file and the buffer
\* is gone.
Remains(f, n) == [f EXCEPT !.text = SubSeq(@, 1, (n + 1) \div 2), !.os = n]

\* A write or a sync fails: the error goes up, the log is dropped, and its
\* buffer is flushed for the last time, as far as that goes.
Fails ==
  /\ pc \in {"flush", "sync", "append"}
  /\ \E n \in file[session].os..(2 * Len(file[session].text)) :
       file' = [file EXCEPT ![session] = Remains(@, n)]
  /\ pc' = "stopped"
  /\ UNCHANGED <<next, session, logged, acked>>

\* The same for a line of which the buffer got a part at most.
LineFails ==
  /\ Running
  /\ \E line \in {Plain("event"), Plain("status")} :
       LET f == [file[session] EXCEPT !.text = Append(@, line)]
       IN \E n \in f.os..(2 * Len(f.text) - 1) :
            file' = [file EXCEPT ![session] = Remains(f, n)]
  /\ pc' = "stopped"
  /\ UNCHANGED <<next, session, logged, acked>>

-----------------------------------------------------------------------------
(* The process, the console and the user *)

NoProcess == pc' = "off" /\ next' = "off" /\ session' = 0 /\ logged' = {}

\* The game ends: the buffer is lost.
ProcessDies ==
  /\ pc # "off"
  /\ NoProcess
  /\ file' = [n \in Numbers |->
       IF file[n] = Absent THEN Absent ELSE Remains(file[n], file[n].os)]
  /\ UNCHANGED acked

\* The power goes: what was not synced may be lost, from the end of the file.
PowerLoss ==
  /\ \E left \in [Numbers -> 0..(2 * (MaxLines + 1))] :
       /\ \A n \in Numbers :
            IF file[n] = Absent THEN left[n] = 0
            ELSE file[n].synced =< left[n] /\ left[n] =< file[n].os
       /\ file' = [n \in Numbers |->
            IF file[n] = Absent THEN Absent ELSE Remains(file[n], left[n])]
  /\ NoProcess
  /\ UNCHANGED acked

\* The user moves a log to another place.
Archive(n) ==
  /\ pc = "off"
  /\ file[n] # Absent
  /\ file' = [file EXCEPT ![n] = Absent]
  /\ acked' = [acked EXCEPT ![n] = 0]
  /\ UNCHANGED <<pc, next, session, logged>>

-----------------------------------------------------------------------------

Create == Boot \/ TryNext \/ Reserve \/ CreateFails \/ WriteHeader

Log == Event \/ Status \/ LastStatus \/ Claim \/ AppendDump \/ Flush \/ FlushBuffer \/ Sync

Next ==
  \/ Create \/ Log \/ Fails \/ LineFails
  \/ ProcessDies \/ PowerLoss
  \/ \E n \in Numbers : Archive(n)

Spec == Init /\ [][Next]_vars

-----------------------------------------------------------------------------
(* read_log.  A line cut short is no dump line; a comment cut short is     *)
(* still a comment, and a header cut short a header with another value.    *)

Whole(f) == SubSeq(f.text, 1, f.os \div 2)

\* With the line that is cut short, if one is.
Shown(f) == SubSeq(f.text, 1, (f.os + 1) \div 2)

Has(lines, kind) == \E i \in DOMAIN lines : lines[i].kind = kind

Duplicates(lines, kind) ==
  \E i, j \in DOMAIN lines :
    i # j /\ lines[i].kind = kind /\ lines[j].kind = kind /\ lines[i].id = lines[j].id

CutsADump(f) == f.os % 2 = 1 /\ Last(Shown(f)).kind = "dump"

Refused(f) ==
  \/ Duplicates(Shown(f), "header") \/ Duplicates(Whole(f), "dump")
  \/ CutsADump(f)
  \/ ~Has(Whole(f), "dump")

-----------------------------------------------------------------------------
(* Correctness *)

(* Every variable has its type: no more of a file is on the card than in   *)
(* the file, and no more in the file than was formatted.                   *)
TypeOK ==
  /\ file \in [Numbers -> File \cup {Absent}]
  /\ \A n \in Numbers :
       file[n] # Absent =>
         file[n].synced =< file[n].os /\ file[n].os =< 2 * Len(file[n].text)
  /\ pc \in {"off", "create", "open", "flush", "sync", "run", "append", "stopped"}
  /\ next \in {"off", "run", "stopped"}
  /\ session \in Numbers
  /\ logged \subseteq Dumps
  /\ acked \in [Numbers -> Nat]

(* "Exclusive creation never truncates an earlier session": no step of a   *)
(* process changes a file it did not create, whatever file names earlier   *)
(* processes, crashes and the user have left free.                         *)
EarlierSessionsPreserved ==
  [][\A n \in Numbers :
       /\ file[n] # Absent
       /\ n # session \/ pc \in {"off", "create", "stopped"}
       => \/ file'[n] = file[n]
          \/ pc = "off" /\ file'[n] = Absent
          \/ pc' = "off" /\ file'[n] = Remains(file[n], file'[n].os)]_vars

(* "header is durable on create", and what a flush that returned Ok has    *)
(* covered survives any later failure, death or power loss.                *)
FlushedSurvives ==
  \A n \in Numbers : file[n] # Absent => acked[n] =< file[n].os

(* The strict reader gets back what was logged.  It refuses a session's    *)
(* file only if the file has no whole dump or ends in a part of one: no    *)
(* sequence of statuses, events and dumps of a session looks like a        *)
(* duplicate to it.  A file it accepts begins with every header key, in    *)
(* order, and has no other, so that it can be compared with others.        *)
LogsReadBack ==
  \A n \in Numbers : file[n] # Absent =>
    LET f == file[n] IN
    IF Refused(f)
      THEN ~Has(Whole(f), "dump") \/ CutsADump(f)
      ELSE /\ Len(HeaderKeys) < Len(Whole(f))
           /\ \A i \in DOMAIN Whole(f) :
                IF i =< Len(HeaderKeys) THEN Whole(f)[i] = HeaderLine(i)
                ELSE Whole(f)[i].kind # "header"
=============================================================================
