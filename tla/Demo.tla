-------------------------------- MODULE Demo --------------------------------
(***************************************************************************)
(* One run of the demo program: its target is opened, then its source,     *)
(* then Encode or Decode goes from one to the other block by block, and    *)
(* the run ends with a message and a status.  A file is a sequence of      *)
(* blocks; Encode and Decode are what ZlingFile shows of them: true blocks *)
(* in order, and when they fail perhaps one that is incomplete or, after a *)
(* read error in Decode, not what it should be.  A run that such an error  *)
(* leads astray (AstrayOnlyIfCut in ZlingFile) is not among these.         *)
(***************************************************************************)
EXTENDS Integers, Sequences

CONSTANTS
  Files,     (* names of files                                *)
  Contents   (* what is in the files before: blocks, positive *)

Names == Files \cup {"stdin", "stdout"}
Encoders == {"e", "e0", "e1", "e2", "e3", "e4"}
Commands == Encoders \cup {"d", "x"}   (* "x": any other *)

ASSUME DemoAssumption ==
  /\ Contents \subseteq Seq(Nat \ {0})
  /\ "stdin" \notin Files /\ "stdout" \notin Files

VARIABLES
  args, cmd, source, target,   (* how many arguments, and which           *)
  before,                      (* the contents of the files at the start  *)
  exists, fs,                  (* the files there are, and their contents *)
  input, output,               (* what stdin and stdout are               *)
  rpos,                        (* blocks read                             *)
  buffer,                      (* what the FILE of the output holds back  *)
  ierr, oerr,                  (* IsErr() of inputter and outputter       *)
  said,                        (* messages, those of progress apart       *)
  status,                      (* what main returns                       *)
  lost,                        (* has the flush at the exit failed?       *)
  pc

arguments == <<args, cmd, source, target, before>>
files == <<exists, fs, buffer>>
vars == <<arguments, files, input, output, rpos, ierr, oerr, said, status, lost, pc>>

Coded(b) == -b
Torn == 0
Result(content) == [k \in 1 .. Len(content) |-> Coded(content[k])]
NoStatus == 1

Init ==
  /\ args \in 0 .. 4 /\ cmd \in Commands /\ source \in Files /\ target \in Files
  /\ exists \in {S \cup {"stdin", "stdout"} : S \in SUBSET Files}
  /\ before \in [Names -> Contents]
  /\ \A n \in Names : n \notin exists \/ n = "stdout" => before[n] = <<>>
  /\ fs = before /\ input = "stdin" /\ output = "stdout"
  /\ rpos = 0 /\ buffer = <<>> /\ ierr = FALSE /\ oerr = FALSE
  /\ said = <<>> /\ status = NoStatus /\ lost = FALSE
  /\ pc = "target"

(* A message to stderr and return -1. *)
Refuse(message) ==
  said' = Append(said, message) /\ status' = -1 /\ pc' = "exit"

(* Fault, for mutation: the target is opened to be added to. *)
OpenedToAppend(content) == content

OpenedToWrite(content) == <<>>

(* freopen(argv[3], "wb", stdout) *)
OpenTarget ==
  /\ pc = "target"
  /\ \/ args # 3 /\ pc' = "source" /\ UNCHANGED <<files, output, said, status>>
     \/ args = 3 /\ Refuse("cannot write") /\ UNCHANGED <<files, output>>
     \/ /\ args = 3 /\ pc' = "source"
        /\ output' = target /\ exists' = exists \cup {target}
        /\ fs' = [fs EXCEPT ![target] = OpenedToWrite(@)]
        /\ UNCHANGED <<buffer, said, status>>
  /\ UNCHANGED <<arguments, input, rpos, ierr, oerr, lost>>

(* Fault, for mutation: the source is opened with "w+b". *)
OpenedToUpdate(content) == <<>>

OpenedToRead(content) == content

(* freopen(argv[2], "rb", stdin) *)
OpenSource ==
  /\ pc = "source"
  /\ \/ args \notin {2, 3} /\ pc' = "command" /\ UNCHANGED <<fs, input, said, status>>
     \/ args \in {2, 3} /\ Refuse("cannot read") /\ UNCHANGED <<fs, input>>
     \/ /\ args \in {2, 3} /\ source \in exists /\ pc' = "command"
        /\ input' = source
        /\ fs' = [fs EXCEPT ![source] = OpenedToRead(@)]
        /\ UNCHANGED <<said, status>>
  /\ UNCHANGED <<arguments, exists, buffer, output, rpos, ierr, oerr, lost>>

(* Encode at a level or Decode, or the help message.  With no argument or    *)
(* too many there is no command.                                             *)
Dispatch ==
  /\ pc = "command"
  /\ IF args \in 1 .. 3 /\ cmd # "x" THEN pc' = "work" /\ UNCHANGED <<said, status>>
     ELSE Refuse("usage")
  /\ UNCHANGED <<arguments, files, input, output, rpos, ierr, oerr, lost>>

(* fwrite: any part of what is buffered goes to the file. *)
Write(blocks) ==
  \E k \in 0 .. Len(buffer \o blocks) :
    /\ fs' = [fs EXCEPT ![output] = @ \o SubSeq(buffer \o blocks, 1, k)]
    /\ buffer' = SubSeq(buffer \o blocks, k + 1, Len(buffer \o blocks))

(* What may get written of a block that does not get done, nothing more if   *)
(* that is the one a read error has cut short.                               *)
WriteTorn == Write(<<>>) \/ (~ierr /\ Write(<<Torn>>))

(* A block is read, coded and written. *)
Block ==
  /\ pc = "work" /\ ~ierr /\ rpos < Len(fs[input])
  /\ rpos' = rpos + 1
  /\ Write(<<Coded(fs[input][rpos + 1])>>)
  /\ UNCHANGED <<arguments, exists, input, output, ierr, oerr, said, status, lost, pc>>

(* Reading fails, perhaps at the very end.  It may look like the end only:   *)
(* what has been read of a block is coded and written, and that may be all   *)
(* of it.  It is the last one, even if Decode reads on.                      *)
ReadError ==
  /\ pc = "work" /\ ~ierr
  /\ ierr' = TRUE
  /\ \/ UNCHANGED <<fs, buffer>>
     \/ /\ rpos < Len(fs[input])
        /\ \E b \in {Coded(fs[input][rpos + 1]), Torn} : Write(<<b>>)
  /\ UNCHANGED <<arguments, exists, input, output, rpos, oerr, said, status, lost, pc>>

(* Writing a block fails, and may take along what was buffered. *)
WriteError ==
  /\ pc = "work" /\ rpos < Len(fs[input])
  /\ oerr' = TRUE /\ pc' = "done"
  /\ \/ WriteTorn
     \/ buffer' = <<>> /\ UNCHANGED fs
     \/ /\ buffer # <<>> \/ ~ierr
        /\ buffer' = <<>> /\ fs' = [fs EXCEPT ![output] = Append(@, Torn)]
  /\ UNCHANGED <<arguments, exists, input, output, rpos, ierr, said, status, lost>>

EndOfInput ==
  /\ pc = "work" /\ (ierr \/ rpos = Len(fs[input]))
  /\ pc' = "done"
  /\ UNCHANGED <<arguments, files, input, output, rpos, ierr, oerr, said, status, lost>>

(* bad_alloc for the buffers or for a Huffman tree, when Encode may have     *)
(* written a part of its block; a stream that Decode refuses, or no longer   *)
(* makes sense of after a read error.                                        *)
Throw ==
  /\ pc = "work"
  /\ \/ cmd # "d" /\ Refuse("allocation failed") /\ WriteTorn
     \/ cmd = "d" /\ rpos = 0 /\ ~ierr /\ Refuse("allocation failed") /\ UNCHANGED <<fs, buffer>>
     \/ cmd = "d" /\ rpos < Len(fs[input]) /\ Refuse("runtime error") /\ UNCHANGED <<fs, buffer>>
  /\ UNCHANGED <<arguments, exists, input, output, rpos, ierr, oerr, lost>>

Verdict(err) == IF err THEN <<"I/O error">> ELSE <<"summary">>

OnDone ==
  /\ pc = "done"
  /\ said' = said \o Verdict(ierr \/ oerr)
  /\ pc' = "return"
  /\ UNCHANGED <<arguments, files, input, output, rpos, ierr, oerr, status, lost>>

(* Fault, for mutation: only the errors of the input count. *)
StatusOfInput(in, out) == IF in THEN -1 ELSE 0

Status(in, out) == IF in \/ out THEN -1 ELSE 0

Return ==
  /\ pc = "return"
  /\ status' = Status(ierr, oerr)
  /\ pc' = "exit"
  /\ UNCHANGED <<arguments, files, input, output, rpos, ierr, oerr, said, lost>>

(* The process ends; the flush of its output may fail. *)
Exit ==
  /\ pc = "exit"
  /\ \E k \in 0 .. Len(buffer), torn \in {<<>>, <<Torn>>} :
       /\ k = Len(buffer) => torn = <<>>
       /\ lost' = (k < Len(buffer))
       /\ fs' = [fs EXCEPT ![output] = @ \o SubSeq(buffer, 1, k) \o torn]
  /\ buffer' = <<>>
  /\ pc' = "exited"
  /\ UNCHANGED <<arguments, exists, input, output, rpos, ierr, oerr, said, status>>

Terminating == pc = "exited" /\ UNCHANGED vars

Next ==
  \/ OpenTarget \/ OpenSource \/ Dispatch \/ Block \/ ReadError \/ WriteError \/ EndOfInput
  \/ Throw \/ OnDone \/ Return \/ Exit \/ Terminating

Spec == Init /\ [][Next]_vars
-----------------------------------------------------------------------------
(* A status of 0 says that the target holds what the source stands for,      *)
(* unless the last of it got lost after that; but if both have one name,     *)
(* what was there is gone and 0 is returned as well.  And the one message    *)
(* besides those of progress is the summary exactly if the status is 0.      *)
StatusIsTrue ==
  pc = "exited" =>
    /\ status = 0 => fs[output] = (IF input = output THEN <<>> ELSE Result(fs[input])) \/ lost
    /\ Len(said) = 1 /\ (said[1] = "summary" <=> status = 0)

(* Nothing but the target changes, and nothing before it has been opened.    *)
OnlyTargetChanges ==
  [][\A n \in Names : fs'[n] # fs[n] => n = output' /\ (args = 3 <=> n = target)]_vars

(* A target that could not be opened is what it was; any other holds the     *)
(* first blocks of the result, none if the source or the command was         *)
(* refused, and only if the run fails or loses its end one that is torn      *)
(* behind them.                                                              *)
TargetFate ==
  pc = "exited" /\ args = 3 =>
    IF said = <<"cannot write">> THEN fs[target] = before[target]
    ELSE \E k \in 0 .. Len(before[source]) :
           LET done == SubSeq(Result(before[source]), 1, k)
           IN  \/ fs[target] = done /\ (said \in {<<"cannot read">>, <<"usage">>} => k = 0)
               \/ fs[target] = Append(done, Torn) /\ (status = -1 \/ lost)

=============================================================================
