------------------------------ MODULE Streams ------------------------------
(***************************************************************************)
(* A script with a string and files: iostream.c on top of the C library.   *)
(* A stream object has a FILE to read from and one to write to, often the  *)
(* same.  A FILE keeps what it has read ahead (in) and what it has not     *)
(* written yet (out).  There is one file on the disk, opened as often as   *)
(* one likes; file_read is taken step by step.                             *)
(*                                                                         *)
(* The C library is external, and modelled as glibc's.  Left out: errors   *)
(* of the system (file_read goes on for ever on a directory, as feof never *)
(* comes), File.unlink, and characters that are NUL.                       *)
(***************************************************************************)
EXTENDS Strings

CONSTANTS FileId, Stream,  \* FILEs and stream objects to be made
          Mode,            \* the modes that files are opened with
          Literal,         \* the texts a script has in it
          None,
          Chunk,           \* what file_read reads at a time: 1023
          MaxText, MaxDisk \* bounds: lengths of the string and of the file

\* What a file_read has while it runs.
Reads == LET Buf == Seq(Char \cup {NUL})
         IN  [f : FileId, buf : Buf, ret : [ptr : Buf, len : Nat], want : Seq(Char)]

ASSUME LiteralsAssumption == Literal \subseteq Seq(Char)
ASSUME FilesAssumption == IsFiniteSet(FileId)
ASSUME ModesAssumption == Mode \subseteq {"r", "r+", "w", "w+", "a"}
ASSUME BoundsAssumption == {Chunk, MaxText, MaxDisk} \subseteq Nat /\ Chunk > 0
ASSUME NoneAssumption == None \notin FileId \cup Stream /\ None \notin Reads

VARIABLES str,    \* the buffer of the script's string
          disk,   \* what is in the file
          file,   \* the FILEs
          io,     \* the stream objects
          rd,     \* the file_read that is running, or None
          phase   \* "run", or how it ended

vars == <<str, disk, file, io, rd, phase>>

Cur == Cstr(str.ptr)

\* A FILE is "unused", "open" or "closed"; pos is where the file descriptor is,
\* behind what has been read ahead and before what is still to be written.
Shut == [st |-> "closed", mode |-> None, pos |-> 0, in |-> <<>>, out |-> <<>>, eof |-> FALSE]

Running == phase = "run" /\ rd = None
Live(o) == io[o].st = "live"

----------------------------------------------------------------------------
(* The C library *)

\* A FILE and the disk, after it has written what it has.
Flushed(w, f) ==
  [file |-> [w.file EXCEPT ![f].pos = @ + Len(w.file[f].out), ![f].out = <<>>],
   disk |-> Over(w.disk, w.file[f].pos, w.file[f].out)]

\* It reads ahead, to the end, when it has less than what is asked for.
Ahead(w, f, n) ==
  LET v == Flushed(w, f)
  IN  IF Len(v.file[f].in) >= n THEN v
      ELSE [v EXCEPT !.file[f].in = @ \o SubSeq(v.disk, v.file[f].pos + 1, Len(v.disk)),
                     !.file[f].pos = IF Len(v.disk) > @ THEN Len(v.disk) ELSE @]

\* Before it writes, what is read ahead is given up.
Turned(w, f) == [w EXCEPT !.file[f].pos = @ - Len(w.file[f].in), !.file[f].in = <<>>]

fclose(w, f) == [Flushed(w, f) EXCEPT !.file[f] = Shut]

\* All that are open, in one order or the other.
Open == {f \in FileId : file[f].st = "open"}
FlushedAll(w, order) ==
  LET after[k \in 0 .. Len(order)] == IF k = 0 THEN w ELSE Flushed(after[k - 1], order[k])
  IN  after[Len(order)]
ClosedAll(w, order) ==
  LET after[k \in 0 .. Len(order)] == IF k = 0 THEN w ELSE fclose(after[k - 1], order[k])
  IN  after[Len(order)]

Now == [file |-> file, disk |-> disk]
Becomes(w) == file' = w.file /\ disk' = w.disk

\* A FILE that is written to may find its buffer full, and writes it.
BufferFull(f) == /\ Running /\ file[f].out # <<>>
                 /\ Becomes(Flushed(Now, f))
                 /\ UNCHANGED <<str, io, rd, phase>>

----------------------------------------------------------------------------
(* iostream.c *)

Noted(f, mode) ==
  [st     |-> "live",
   fread  |-> IF mode \in {"r+", "w+", "r"} THEN f ELSE None,
   fwrite |-> IF mode \in {"r+", "w+", "w"} THEN f ELSE None]

\* A bound: the script is done with them before it opens a file, and what it
\* then has is a literal.
Before == \A o \in Stream : io[o].st = "unborn"

\* A bound: no file is cut short while another FILE is in the middle of it.
Alone == \A f \in FileId : file[f].st = "open" => file[f].mode = "a"

\* The file is there, so that file_new makes none.  Which of the unused FILEs
\* and objects they are makes no difference.
file_open(mode) ==
  /\ Running /\ (mode \in {"w", "w+"} => Alone) /\ (Before => Cur \in Literal)
  /\ \E o \in Stream : io[o].st = "unborn"
  /\ \E f \in FileId : file[f].st = "unused"
  /\ LET o == CHOOSE o \in Stream : io[o].st = "unborn"
         f == CHOOSE f \in FileId : file[f].st = "unused"
     IN  /\ file' = [file EXCEPT ![f] = [Shut EXCEPT !.st = "open", !.mode = mode]]
         /\ io' = [io EXCEPT ![o] = Noted(f, mode)]
  /\ disk' = IF mode \in {"w", "w+"} THEN <<>> ELSE disk
  /\ UNCHANGED <<str, rd, phase>>

\* mutant: the FILEs stay noted in the object
StillNoted(o) == io[o]

NotNoted(o) == [io[o] EXCEPT !.fread = None, !.fwrite = None]

\* fclose of what is closed already crashes.
Closing(o) ==
  LET fr == io[o].fread
      fw == io[o].fwrite
      Done(w, f) == IF f = None THEN w ELSE fclose(w, f)
  IN  IF \E f \in {fr, fw} \ {None} : file[f].st = "closed"
      THEN phase' = "crash" /\ UNCHANGED <<file, disk>>
      ELSE /\ Becomes(IF fw = fr THEN Done(Now, fr) ELSE Done(Done(Now, fr), fw))
           /\ UNCHANGED phase

file_close(o) == /\ Running /\ Live(o) /\ Closing(o)
                 /\ io' = [io EXCEPT ![o] = NotNoted(o)]
                 /\ UNCHANGED <<str, rd>>

\* The script drops the object, and the collector finds it.
io_reap(o) == /\ Running /\ Live(o) /\ Closing(o)
              /\ io' = [io EXCEPT ![o] = [NotNoted(o) EXCEPT !.st = "gone"]]
              /\ UNCHANGED <<str, rd>>

Fails == phase' = "fail" /\ UNCHANGED <<str, disk, file, io, rd>>

\* buf is there for the whole call, and all NUL at first.  want is history:
\* what there is to be read.
ReadBegins(o) ==
  /\ Running /\ Live(o)
  /\ \/ io[o].fread = None /\ Fails
     \/ /\ io[o].fread # None
        /\ LET f == io[o].fread
               w == Flushed(Now, f)
           IN  /\ Becomes(w)
               /\ rd' = [f |-> f, buf |-> [k \in 1 .. Chunk + 1 |-> NUL],
                         ret |-> dstr_new(<<>>),
                         want |-> IF file[f].eof THEN <<>>
                                  ELSE w.file[f].in
                                       \o SubSeq(w.disk, w.file[f].pos + 1, Len(w.disk))]
        /\ UNCHANGED <<str, io, phase>>

fread(f, n) ==
  LET w    == Ahead(Now, f, n)
      some == Take(w.file[f].in, n)
  IN  [w   |-> [w EXCEPT !.file[f].in = SubSeq(@, n + 1, Len(@)),
                         !.file[f].eof = Len(some) < n],
       got |-> some]

\* mutant: the terminator is put on the last character of a whole chunk
BufferShort(buf, got) == [Over(buf, 0, got) EXCEPT ![Len(buf) - 1] = NUL]

\* What a round reads goes over what the round before it read.
Buffer(buf, got) == [Over(buf, 0, got) EXCEPT ![Len(buf)] = NUL]

ReadOn ==
  /\ phase = "run" /\ rd # None
  /\ \/ /\ file[rd.f].eof
        /\ str' = rd.ret /\ rd' = None
        /\ UNCHANGED <<disk, file>>
     \/ /\ ~file[rd.f].eof
        /\ LET r   == fread(rd.f, Chunk)
               buf == Buffer(rd.buf, r.got)
           IN  /\ Becomes(r.w)
               /\ rd' = [rd EXCEPT !.buf = buf, !.ret = dstrcat(rd.ret, Cstr(buf))]
        /\ UNCHANGED str
  /\ UNCHANGED <<io, phase>>

\* A line, or as much as there is room for; what it returns at the end of the
\* file is what the memory held.
file_gets(o) ==
  /\ Running /\ Live(o)
  /\ \/ io[o].fread = None /\ phase' = "segv" /\ UNCHANGED <<str, disk, file>>
     \/ /\ io[o].fread # None
        /\ LET f    == io[o].fread
               line(t) == IF Contains(t, Newline)
                          THEN SelectInSeq(t, LAMBDA c : c = Newline) ELSE BufSize - 1
               all  == Ahead(Now, f, line(file[f].in))
               n    == IF line(all.file[f].in) < BufSize THEN line(all.file[f].in)
                       ELSE BufSize - 1
               r    == fread(f, n)
           IN  \/ /\ ~file[f].eof /\ r.got # <<>>
                  /\ Becomes(r.w) /\ str' = dstr_new(r.got)
               \/ /\ file[f].eof \/ r.got = <<>>
                  /\ IF file[f].eof THEN UNCHANGED <<file, disk>> ELSE Becomes(r.w)
                  /\ \E t \in {<<>>, <<Junk>>} : str' = dstr_new(t)
        /\ UNCHANGED phase
  /\ UNCHANGED <<io, rd>>

Written(f, t) == [Turned(Now, f) EXCEPT !.file[f].out = @ \o t]

\* A bound: what is written is a literal.
Puts(o, t) ==
  /\ Running /\ Live(o) /\ Cur \in Literal
  /\ \/ io[o].fwrite = None /\ Fails
     \/ /\ io[o].fwrite # None
        /\ LET w == Written(io[o].fwrite, t)
           IN  /\ w.file[io[o].fwrite].pos + Len(w.file[io[o].fwrite].out) <= MaxDisk
               /\ Becomes(w)
        /\ UNCHANGED <<str, io, rd, phase>>

Line(t) == IF t # <<>> /\ Last(t) = Newline THEN t ELSE Append(t, Newline)
file_write(o) == Puts(o, Cur)
file_puts(o) == Puts(o, Line(Cur))

\* Without a FILE to write to, fflush(NULL): all that are open.
file_flush(o) ==
  /\ Running /\ Live(o)
  /\ \/ io[o].fwrite # None /\ Becomes(Flushed(Now, io[o].fwrite))
     \/ io[o].fwrite = None /\ \E order \in SetToSeqs(Open) : Becomes(FlushedAll(Now, order))
  /\ UNCHANGED <<str, io, rd, phase>>

\* exit() writes what is left to write; fail() does not.
kernel_exit ==
  /\ Running /\ phase' = "exit"
  /\ \E order \in SetToSeqs(Open) : Becomes(ClosedAll(Now, order))
  /\ UNCHANGED <<str, io, rd>>

----------------------------------------------------------------------------
(* The methods of strings *)

string_new(t) == /\ Running /\ Len(t) <= MaxText /\ (t \in Literal \/ Before)
                 /\ str' = dstr_new(t)
                 /\ UNCHANGED <<disk, file, io, rd, phase>>

\* A subtraction of nothing never ends; a negative factor asks for more memory
\* than there is, if not for the shortest texts.
Stuck == /\ Running /\ UNCHANGED <<str, disk, file, io, rd>>
         /\ \/ <<>> \in Literal /\ phase' = "hang"
            \/ Len(Cur) > 1 /\ phase' = "segv"

StringMethod ==
  \E u \in Literal :
    \/ string_new(u)
    \/ string_new(string_plus(Cur, u))
    \/ u # <<>> /\ string_new(string_minus(Cur, u))
    \/ \E p \in Range(string_split(Cur, u)) : string_new(p)
    \/ \E n \in 0 .. 2 : string_new(string_multiply(Cur, n))
    \/ string_new(string_chomp(Cur))
    \/ \E t \in string_upcase(Cur) \cup string_downcase(Cur) \cup string_capitalize(Cur) :
         string_new(t)

Init == /\ str = dstr_new(<<>>)
        /\ disk \in {t \o u : t, u \in Literal}
        /\ file = [f \in FileId |-> [Shut EXCEPT !.st = "unused"]]
        /\ io = [o \in Stream |-> [st |-> "unborn", fread |-> None, fwrite |-> None]]
        /\ rd = None /\ phase = "run"

Next == \/ StringMethod \/ Stuck \/ kernel_exit \/ ReadOn
        \/ \E f \in FileId : BufferFull(f)
        \/ \E mode \in Mode : file_open(mode)
        \/ \E o \in Stream :
             \/ file_close(o) \/ io_reap(o) \/ ReadBegins(o) \/ file_gets(o)
             \/ file_write(o) \/ file_puts(o) \/ file_flush(o)

Spec == Init /\ [][Next]_vars

----------------------------------------------------------------------------
\* Every buffer is terminated where its length says, whatever it was made
\* from and added to.
BuffersTerminated == Terminated(str) /\ (rd # None => Terminated(rd.ret))

\* What a file_read returns begins with what there was to read; it is exactly
\* that if it was shorter than a chunk.  After a longer one, what an earlier
\* round left in the buffer follows: file_read appends all of it.
ReadGivesFile ==
  [][ rd # None /\ rd' = None =>
        /\ IsPrefix(rd.want, Cstr(str'.ptr))
        /\ Len(rd.want) < Chunk => Cstr(str'.ptr) = rd.want ]_vars

\* A FILE that is open belongs to one stream object, and no object has one
\* that is closed: each is closed once, and no later than its object goes.
\* Only a file opened with "a" belongs to none and stays open.
FilesOwned ==
  LET has(o) == {io[o].fread, io[o].fwrite} \ {None}
  IN  /\ \A f \in FileId : file[f].st = "open" =>
           \/ file[f].mode = "a"
           \/ \E o \in Stream : Live(o) /\ \A q \in Stream : f \in has(q) <=> q = o
      /\ phase = "run" => \A o \in Stream : \A f \in has(o) : file[f].st = "open"
      /\ phase # "crash"

\* Subtraction and split lose nothing of the string (Strings).
NothingLost == Before => \A u \in Literal : WordsKept(Cur, u)
=============================================================================
