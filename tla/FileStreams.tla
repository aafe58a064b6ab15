---------------------------- MODULE FileStreams ----------------------------
(***************************************************************************)
(* FileOutputter and FileInputter of libzling_utils.cpp, with PutChar,     *)
(* PutUInt32, GetChar and GetUInt32, used as Encode and Decode use them:   *)
(* items go to a file through the buffer of a FILE, what is on the disk    *)
(* when it has been closed is read back.  The disk may fail or be full at  *)
(* any call and recover at the next.  ZlingFile takes an item for a unit   *)
(* of its stream; here it is bytes.                                        *)
(***************************************************************************)
EXTENDS Integers, SequencesExt

CONSTANTS
  ByteBits,  (* 8                                *)
  Digits,    (* 4: bytes of an unsigned int      *)
  Scripts    (* sequences of items to be written *)

(* 1, 256, 65536, 16777216: what a byte counts with k bytes below it. *)
Weight(k) == 2 ^ (ByteBits * k)

Byte == 0 .. Weight(1) - 1

Int32 == -(Weight(Digits) \div 2) .. Weight(Digits) \div 2 - 1

(* A flag, a number of a header, or a piece of data, none of which is empty. *)
Items ==
  [kind : {"flag"}, v : {<<b>> : b \in Byte}]
    \cup [kind : {"int"}, v : {<<i>> : i \in Int32}]
    \cup [kind : {"data"}, v : Seq(Byte) \ {<<>>}]

ASSUME StreamsAssumption ==
  /\ ByteBits \in Nat \ {0} /\ Digits \in Nat \ {0}
  /\ Scripts \subseteq Seq(Items)

VARIABLES
  items,        (* what is written: flags, ints, pieces of data           *)
  wi, put,      (* the item being put, and the bytes of it put so far     *)
  disk, buffer, (* the file, and what its FILE has yet to write to it     *)
  werr,         (* outputter->IsErr(): ferror, which nobody clears        *)
  total_write,  (* m_total_write                                          *)
  spilt,        (* has the flush at the close lost anything?              *)
  rpos, pushed, (* bytes read from the file; has ungetc put one back?     *)
  rerr,         (* inputter->IsErr()                                      *)
  total_read,   (* m_total_read                                           *)
  part,         (* the bytes got of the item being got                    *)
  got,          (* the items got                                          *)
  phase

writeVars == <<items, wi, put, disk, buffer, werr, total_write, spilt>>
readVars == <<rpos, pushed, rerr, total_read, part, got>>
fileVars == <<writeVars, readVars, phase>>

(* PutUInt32: the highest byte first, of an int taken as unsigned. *)
UInt32(v) == [k \in 1 .. Digits |-> (v % Weight(Digits)) \div Weight(Digits - k) % Weight(1)]

(* GetUInt32, and its result kept in an int.  (The product for the highest   *)
(* byte overflows an int when that byte is above 127; builds wrap.)          *)
FromUInt32(bytes) ==
  LET sum[k \in 0 .. Digits] ==
        IF k = 0 THEN 0 ELSE sum[k - 1] + bytes[k] * Weight(Digits - k)
      v == sum[Digits]
  IN  IF v >= Weight(Digits) \div 2 THEN v - Weight(Digits) ELSE v

Encoded(item) == IF item.kind = "int" THEN UInt32(item.v[1]) ELSE item.v

Decoded(item, bytes) == IF item.kind = "int" THEN <<FromUInt32(bytes)>> ELSE bytes

(* All the bytes of the first items of a script. *)
Stream(script) ==
  LET first[k \in 0 .. Len(script)] ==
        IF k = 0 THEN <<>> ELSE first[k - 1] \o Encoded(script[k])
  IN  first

FileInit ==
  /\ items \in Scripts
  /\ wi = 1 /\ put = 0 /\ disk = <<>> /\ buffer = <<>> /\ werr = FALSE
  /\ total_write = 0 /\ spilt = FALSE
  /\ rpos = 0 /\ pushed = FALSE /\ rerr = FALSE /\ total_read = 0
  /\ part = <<>> /\ got = <<>>
  /\ phase = "put"

(* fwrite accepts n of some bytes, fewer only with an error; any part of the *)
(* buffer reaches the disk, and with an error the rest of it may be gone.    *)
FWrite(bytes, n) ==
  LET all == buffer \o SubSeq(bytes, 1, n)
  IN  \E k \in 0 .. Len(all) :
        /\ disk' = disk \o SubSeq(all, 1, k)
        /\ \/ n = Len(bytes) /\ buffer' = SubSeq(all, k + 1, Len(all)) /\ UNCHANGED werr
           \/ buffer' \in {SubSeq(all, k + 1, Len(all)), <<>>} /\ werr' = TRUE

(* Fault, for mutation: fwrite is asked for one object of len bytes. *)
ObjectsReturned(len, n) == IF n = len THEN 1 ELSE 0

(* What PutData returns when n of len bytes were accepted. *)
Returned(len, n) == n

(* PutData, once for each byte of a flag or an int, whatever it returns, and *)
(* for a piece of data again with what it has left.                          *)
Put ==
  /\ phase = "put" /\ wi <= Len(items) /\ put < Len(Encoded(items[wi]))
  /\ LET rest == SubSeq(Encoded(items[wi]), put + 1, Len(Encoded(items[wi])))
         bytes == IF items[wi].kind = "data" THEN rest ELSE <<rest[1]>>
     IN  \E n \in 0 .. Len(bytes) :
           /\ FWrite(bytes, n)
           /\ total_write' = total_write + Returned(Len(bytes), n)
           /\ put' = IF items[wi].kind = "data" THEN put + Returned(Len(bytes), n) ELSE put + 1
  /\ phase' = IF items[wi].kind = "data" \/ put' = Len(Encoded(items[wi])) THEN "check" ELSE "put"
  /\ UNCHANGED <<items, wi, spilt, readVars>>

(* Fault, for mutation: nobody looks for errors before the end. *)
GoesOnAnyway(err) == TRUE

GoesOn(err) == ~err

(* CHECK_IO_ERROR(outputter) *)
CheckWrite ==
  /\ phase = "check"
  /\ IF ~GoesOn(werr) THEN phase' = "close" /\ UNCHANGED <<wi, put>>
     ELSE /\ phase' = "put"
          /\ IF put = Len(Encoded(items[wi])) THEN wi' = wi + 1 /\ put' = 0
             ELSE UNCHANGED <<wi, put>>
  /\ UNCHANGED <<items, disk, buffer, werr, total_write, spilt, readVars>>

EndPut ==
  /\ phase = "put" /\ wi > Len(items)
  /\ phase' = "close"
  /\ UNCHANGED <<writeVars, readVars>>

(* The end of the process flushes the buffer, and nobody hears if it fails. *)
Close ==
  /\ phase = "close"
  /\ \E k \in 0 .. Len(buffer) :
       /\ disk' = disk \o SubSeq(buffer, 1, k)
       /\ spilt' = (k < Len(buffer))
  /\ buffer' = <<>> /\ phase' = "test"
  /\ UNCHANGED <<items, wi, put, werr, total_write, readVars>>

(* Fault, for mutation: the byte that fgetc read is not put back. *)
PeekAway(pos) == pos + 1

(* ungetc(fgetc()): the position is what it was. *)
Peek(pos) == pos

Item == items[Len(got) + 1]
Whole(bytes) == Len(bytes) = Len(Encoded(Item))

DataRead(ends) == ends \/ Whole(part)

(* IsEnd, which Decode asks before a flag and each time round the loop that  *)
(* gets data; an error looks like the end, and may pass.                     *)
IsEnd(ends) ==
  \/ rpos < Len(disk) /\ ends = FALSE /\ pushed' = TRUE /\ rpos' = Peek(rpos) /\ UNCHANGED rerr
  \/ rpos = Len(disk) /\ ends = TRUE /\ UNCHANGED <<rpos, pushed, rerr>>
  \/ ends = TRUE /\ ~pushed /\ rerr' = TRUE /\ UNCHANGED <<rpos, pushed>>

Test ==
  /\ phase = "test"
  /\ IF Len(got) = Len(items) THEN phase' = "end" /\ UNCHANGED <<rpos, pushed, rerr, got, part>>
     ELSE IF Item.kind = "int" THEN phase' = "get" /\ UNCHANGED <<rpos, pushed, rerr, got, part>>
     ELSE \E ends \in BOOLEAN :
            /\ IsEnd(ends)
            /\ IF Item.kind = "data" /\ DataRead(ends)
               THEN phase' = "test" /\ got' = Append(got, part) /\ part' = <<>>
               ELSE /\ phase' = IF Item.kind = "flag" /\ ends THEN "end" ELSE "get"
                    /\ UNCHANGED <<got, part>>
  /\ UNCHANGED <<writeVars, total_read>>

(* fread gets n of len bytes: what there is, or less with an error.  A byte  *)
(* put back is always there.                                                 *)
FRead(len, n) ==
  LET there == IF len < Len(disk) - rpos THEN len ELSE Len(disk) - rpos
  IN  /\ rpos' = rpos + n /\ pushed' = (pushed /\ n = 0)
      /\ \/ n = there /\ UNCHANGED rerr
         \/ n \in (IF pushed THEN 1 ELSE 0) .. there /\ n < len /\ rerr' = TRUE

(* GetData for what is missing of a piece of data, or GetChar, whose byte is *)
(* any when nothing was read.                                                *)
Get ==
  /\ phase = "get"
  /\ LET len == IF Item.kind = "data" THEN Len(Item.v) - Len(part) ELSE 1
     IN  \E n \in 0 .. len :
           /\ FRead(len, n)
           /\ total_read' = total_read + n
           /\ IF Item.kind # "data" /\ n = 0 THEN \E b \in Byte : part' = Append(part, b)
              ELSE part' = part \o SubSeq(disk, rpos + 1, rpos + n)
  /\ phase' = IF Item.kind # "int" \/ Whole(part') THEN "checkread" ELSE "get"
  /\ UNCHANGED <<writeVars, got>>

(* CHECK_IO_ERROR(inputter); there is none after a flag. *)
CheckRead ==
  /\ phase = "checkread"
  /\ IF rerr /\ Item.kind # "flag" THEN phase' = "end" /\ UNCHANGED <<got, part>>
     ELSE /\ phase' = "test"
          /\ IF Item.kind = "data" THEN UNCHANGED <<got, part>>
             ELSE got' = Append(got, Decoded(Item, part)) /\ part' = <<>>
  /\ UNCHANGED <<writeVars, rpos, pushed, rerr, total_read>>

FileTerminating == phase = "end" /\ UNCHANGED fileVars

FileNext == Put \/ CheckWrite \/ EndPut \/ Close \/ Test \/ Get \/ CheckRead \/ FileTerminating

FileSpec == FileInit /\ [][FileNext]_fileVars
-----------------------------------------------------------------------------
Asked == IF wi > Len(items) THEN Stream(items)[wi - 1] ELSE Stream(items)[wi - 1] \o SubSeq(Encoded(items[wi]), 1, put)

(* As long as IsErr says no, every byte asked for is on its way and counted, *)
(* although PutUInt32 ignores what PutData returns; so if Encode returns 0   *)
(* the file is complete, unless the flush at the close fails unseen.         *)
LossIsTold ==
  ~werr => /\ IF spilt THEN IsPrefix(disk, Asked) ELSE disk \o buffer = Asked
           /\ total_write = Len(Asked)

(* An error in the middle of an int is noticed when all of it has been put:  *)
(* behind a byte that was lost stand fewer bytes than an int has.  So what a *)
(* failed Encode leaves behind is a stream cut short, up to those.           *)
HoleIsShort ==
  \E k \in 0 .. Digits - 1 :
    k <= Len(disk) /\ IsPrefix(SubSeq(disk, 1, Len(disk) - k), Asked)

(* What is whole in the file is read as what it was: each flag, each int and *)
(* -1 among them, and each piece of data unless an error cuts that short.    *)
WhatIsWholeComesBack ==
  \A k \in 1 .. Len(got) :
    IsPrefix(Stream(items)[k], disk) =>
      \/ got[k] = items[k].v
      \/ rerr /\ \E j \in 1 .. k : items[j].kind = "data"

=============================================================================
