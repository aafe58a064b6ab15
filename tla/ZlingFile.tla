----------------------------- MODULE ZlingFile -----------------------------
(***************************************************************************)
(* A file from end to end: Encode() writes a stream, some of its tail may  *)
(* get lost on the way (a full disk or a crash after Encode has returned,  *)
(* a broken transfer), and Decode() reads what is left.                    *)
(***************************************************************************)
EXTENDS ZlingDecode

VARIABLE
  lost        (* has some of the stream been lost?                         *)

vars == <<encodeVars, decodeVars, lost>>

Init == EncodeInit /\ DecodeInit /\ lost = FALSE

Encode == epc # "end" /\ EncodeNext /\ UNCHANGED <<decodeVars, lost>>

(* The stream is cut short before Decode starts on it. *)
LoseTail ==
  /\ epc = "end" /\ dpc = "start" /\ ~lost
  /\ \E k \in 0 .. Len(file) - 1 : file' = SubSeq(file, 1, k)
  /\ lost' = TRUE
  /\ UNCHANGED <<inSize, userLevel, inpos, eierr, eoerr, ilen, encpos, level, chunk, eoff,
                 ecalls, eret, epc, decodeVars>>

Decode == epc = "end" /\ DecodeNext /\ UNCHANGED <<encodeVars, lost>>

(* Decode has returned, or has gone where this says no more of it. *)
Terminating == dpc \in {"end", "astray"} /\ UNCHANGED vars

Next == Encode \/ LoseTail \/ Decode \/ Terminating

(* Encode and Decode run until they return; nothing has to get lost. *)
Spec == Init /\ [][Next]_vars /\ WF_vars(Encode) /\ WF_vars(Decode)
-----------------------------------------------------------------------------
Input == [i \in 1 .. inSize |-> i]

(* If Encode returned 0 and nothing got lost, Decode gives back the input    *)
(* and nothing else, unless it is stopped by an I/O error or for want of     *)
(* memory; and this at any level, even one there is not.  A read error may   *)
(* spoil a block before it is noticed: one that IsEnd meets ends the loop    *)
(* that reads a chunk's data without a test for errors.                      *)
FileRoundTrip ==
  dpc = "end" /\ eret = "ok" /\ ~lost =>
    /\ ~dierr => Len(out) <= inSize /\ out = SubSeq(Input, 1, Len(out))
    /\ dret = "ok" => out = Input
    /\ dret = "thrown" /\ ~dierr => dpos = 0   (* bad_alloc, before anything is read *)

(* In f the j-th unit is the next of its kind after the i-th. *)
NextOfKind(f, kind, i, j) ==
  f[i].kind = kind /\ f[j].kind = kind /\ \A k \in i + 1 .. j - 1 : f[k].kind # kind

(* The data of the stream come in chunks that follow each other through the  *)
(* input; so what Encode leaves behind at any moment, or on any error, can   *)
(* be decoded as far as it goes.                                             *)
StreamInOrder ==
  \A j \in 1 .. Len(file) : file[j].kind = "data" =>
    /\ file[j].to <= inpos
    /\ \/ file[j].from = 0 /\ \A i \in 1 .. j - 1 : file[i].kind # "data"
       \/ \E i \in 1 .. j - 1 :
            /\ NextOfKind(file, "data", i, j)
            /\ file[j] = file[i] \/ file[j].from = file[i].to

(* Bytes the handler has been told of by each of its calls. *)
Told(calls) ==
  LET told[k \in 0 .. Len(calls)] == IF k = 0 THEN 0 ELSE told[k - 1] + calls[k].size
  IN  told

(* Whatever gets lost and whatever read error passes, only the block in      *)
(* which the stream ends, or the error was met, can be spoiled: no block     *)
(* after the one a wrong byte is in has any bytes.  After a read error       *)
(* Decode may take bytes of data for flags; the blocks they seem to end are  *)
(* empty, though OnProcess is called for them.                               *)
OnlyLastBlockSpoiled ==
  \A i \in 1 .. Len(out) : out[i] # i =>
    /\ lost \/ eret # "ok" \/ dierr
    /\ dpos = Len(file) \/ dierr
    /\ \A k \in 1 .. Len(dcalls) :
         dcalls[k].call = "process" /\ dcalls[k].size > 0 => Told(dcalls)[k - 1] < i

(* The header in cur is the one behind which the data just read begin. *)
HeaderOfData ==
  LET p == dpos - cur.got
  IN  /\ p >= 4 /\ file[p - 3] = Continue
      /\ cur.encpos = Signed(file[p - 2].v) /\ cur.rlen = Signed(file[p - 1].v)
      /\ cur.olen = Signed(file[p].v) /\ file[p].kind = "olen"

(* Until it meets a read error Decode reads each unit of the stream as what  *)
(* it was written for.  After one it may go on in the middle of a chunk, and *)
(* take data for flags; but never for a header that it uses: what it decodes *)
(* is always a chunk of the stream, short of the stream's end.               *)
DecoderAligned ==
  /\ dpc = "header" /\ ~dierr => \A k \in 1 .. 3 : k <= Rest =>
       file[dpos + k].kind = <<"encpos", "rlen", "olen">>[k]
  /\ dpc = "more" => ~dierr /\ Rest > 0 /\ file[dpos + 1].kind = "data"
  /\ dpc \in {"block", "first", "flag"} /\ Rest > 0 /\ ~dierr => file[dpos + 1].kind = "flag"
  /\ dpc \in {"data", "more", "decode"} /\ Rest > 0 => HeaderOfData

(* Decode goes astray only if the stream was cut or could not be read, in    *)
(* what it reads last of it, and only there: in the first chunk, before the  *)
(* byte that says whether distance 0 has a code; behind a flag, where all    *)
(* numbers are missing; or in a chunk with many tokens.  In any later chunk  *)
(* the tables of an earlier one are still in the buffer.                     *)
AstrayOnlyIfCut ==
  dpc = "astray" =>
    /\ lost \/ eret # "ok" \/ dierr
    /\ dpos = Len(file) \/ dierr
    /\ \/ dpos < 4 + DistanceByte
       \/ dpos = Len(file) /\ file[dpos] = Continue
       \/ MayReadBehind

(* The handler hears OnInit first and OnDone once and last, unless Encode or *)
(* Decode throws; the sizes it is told in between add up to what has been    *)
(* coded, all of it if no error came between.                                *)
HandlerProtocol(calls, ret, total) ==
  /\ \A k \in 1 .. Len(calls) :
       /\ k = 1 <=> calls[k] = OnInit
       /\ calls[k] = OnDone => k = Len(calls)
  /\ ret \in {"ok", "error"} <=> Len(calls) > 0 /\ calls[Len(calls)] = OnDone
  /\ Told(calls)[Len(calls)] <= total
  /\ ret = "ok" => Told(calls)[Len(calls)] = total

HandlersHearAll ==
  /\ HandlerProtocol(ecalls, eret, inpos)
  /\ HandlerProtocol(dcalls, dret, Len(out))

(* At a level it does not know the encoder makes no headway, but not twice   *)
(* in a row: no two chunks in a row of a stream are empty.                   *)
NoTwoEmptyChunks ==
  \A i \in 1 .. Len(file) :
    file[i].kind = "rlen" /\ Signed(file[i].v) = -1 =>
      \A j \in i + 1 .. Len(file) :
        NextOfKind(file, "rlen", i, j) => Signed(file[j].v) # -1

(* Both ends return, whatever fails and however often it does, unless Decode *)
(* goes astray; for that see AstrayOnlyIfCut.                                *)
BothReturn == <>(dpc \in {"end", "astray"})
=============================================================================
