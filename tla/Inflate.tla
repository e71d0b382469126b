------------------------------- MODULE Inflate -------------------------------
(***************************************************************************)
(* comex_zlib_compress and comex_zlib_decompress (comex_zlib.cpp): what is *)
(* packed, travels as bytes, may be cut, damaged or followed by other      *)
(* bytes, and is unpacked a buffer at a time.                              *)
(*                                                                         *)
(* zlib is external.  What is packed is known by its text, by what comes   *)
(* out of it, and by what zlib finds at the end of that.  Of damaged bytes *)
(* wrong units may come out behind the right ones: a symbol or a stored    *)
(* byte that is another one is found only by the checksum at the end.      *)
(***************************************************************************)
EXTENDS Integers, Sequences

CONSTANTS Units, Texts, \* what texts are made of; texts that are packed
          Wrong,        \* what comes out in place of a unit, whatever it is
          MaxWrong,     \* bound on what comes out of bytes behind their damage
          Buffer        \* units of the buffer; 64 bytes in the code

ASSUME InflateAssumption ==
  Texts \subseteq Seq(Units) /\ MaxWrong \in Nat /\ Buffer \in Nat \ {0}

VARIABLES
  packed, \* the packed bytes; NoBytes when there are none
  ctx,    \* z_stream: what it has given; "run", "dry" (no input left) or "end"
  pc,     \* "packed", "inflate" (in the loop of comex_zlib_decompress), "done"
  result, \* what the loop has appended
  failed  \* history: zlib was out of memory

inflateVars == <<packed, ctx, pc, result, failed>>

(* Mutated form: compress() is given one unit more than there is. *)
WholeAndMore(t) == [text |-> t, good |-> Len(t) + 1, comes |-> t, ends |-> "whole", behind |-> FALSE]

(* Of what is packed "comes" comes out, of which the first "good" units are
   those of the text. *)
NoBytes == [text |-> << >>, good |-> 0, comes |-> << >>, ends |-> "none", behind |-> FALSE]
Whole(t) == [text |-> t, good |-> Len(t), comes |-> t, ends |-> "whole", behind |-> FALSE]
Start == [made |-> 0, state |-> "run"]

InflateInit ==
  /\ packed = NoBytes /\ ctx = Start
  /\ pc = "packed" /\ result = << >> /\ failed = FALSE

(* comex_zlib_compress: nothing is packed as nothing, and so is a text that
   compress() fails to pack. *)
Compress(t) ==
  /\ pc # "inflate"
  /\ packed' \in {NoBytes} \cup {Whole(u) : u \in {t} \ {<< >>}}
  /\ pc' = "packed" /\ result' = << >> /\ failed' = FALSE /\ ctx' = Start

(* On the way the bytes are cut where n units of text have come out, damaged
   there, so that m wrong ones follow, or others are put behind them. *)
BytesCut(n) ==
  packed' = [packed EXCEPT !.good = n, !.comes = SubSeq(@, 1, n), !.ends = "cut"]

BytesDamaged(n, m) ==
  packed' = [packed EXCEPT !.good = n, !.ends = "damaged",
                           !.comes = SubSeq(@, 1, n) \o [i \in 1..m |-> Wrong]]

BytesFollow == packed' = [packed EXCEPT !.behind = TRUE]

Arrives ==
  /\ pc = "packed" /\ packed.ends = "whole" /\ ~packed.behind
  /\ \/ BytesFollow
     \/ \E n \in 0..packed.good : BytesCut(n) \/ \E m \in 0..MaxWrong : BytesDamaged(n, m)
  /\ UNCHANGED <<ctx, pc, result, failed>>

(* comex_zlib_decompress up to its loop. *)
Decompress ==
  /\ pc = "packed"
  /\ \/ packed = NoBytes /\ pc' = "done" /\ failed' = FALSE
     \/ packed # NoBytes /\ pc' = "inflate" /\ failed' = FALSE
     \/ packed # NoBytes /\ pc' = "done" /\ failed' = TRUE \* inflateInit fails
  /\ UNCHANGED <<packed, ctx, result>>

-----------------------------------------------------------------------------
(* One call of inflate(). *)

Left      == Len(packed.comes) - ctx.made
Given     == IF Left < Buffer THEN Left ELSE Buffer
LastPiece == Given = Left
(* Damaged bytes may end for zlib before they should, or ask for more. *)
MayStarve == packed.ends \in {"cut", "damaged"}

(* Where the text goes on behind the buffer zlib returns Z_OK; at its end it may
   do so once more if the buffer is full, and it does when its input is used up.
   What is damaged never passes its checksum. *)
Possible(ret) ==
  \/ /\ ret = "Z_OK"
     /\ ctx.state = "run" \/ (ctx.state = "dry" /\ Given > 0)
     /\ LastPiece => Given = Buffer \/ MayStarve
  \/ ret = "Z_STREAM_END" /\ LastPiece /\ packed.ends = "whole"
  \/ ret = "Z_BUF_ERROR" /\ Given = 0 /\ ctx.state = "dry"
  \/ ret = "Z_DATA_ERROR" /\ LastPiece /\ packed.ends = "damaged"
  \/ ret = "Z_MEM_ERROR" /\ ctx.state # "end"

After(ret, state) ==
  \/ ret = "Z_STREAM_END" /\ state = "end"
  \/ ret = "Z_OK" /\ state = "dry" /\ LastPiece /\ MayStarve
  \/ ret = "Z_OK" /\ state = "run" /\ (LastPiece /\ MayStarve => Given = Buffer)
  \/ ret \notin {"Z_OK", "Z_STREAM_END"} /\ state = ctx.state

Got == SubSeq(packed.comes, ctx.made + 1, ctx.made + Given)

(* Mutated form: the end of the stream falls through to the second append. *)
AppendsTwice(ret) ==
  IF ret = "Z_STREAM_END" THEN Got \o Got ELSE IF ret = "Z_OK" THEN Got ELSE << >>

(* Mutated form: the loop goes on after Z_BUF_ERROR, which zlib does not call fatal. *)
LeavesOnFatal(ret) == ret \notin {"Z_OK", "Z_BUF_ERROR"} /\ (ret = "Z_STREAM_END" => ~packed.behind)

(* What the loop does with a return code: at the end of the stream it appends,
   and leaves if all input is used; with bytes behind, it appends again. *)
Appends(ret) ==
  IF ret = "Z_STREAM_END" /\ packed.behind THEN Got \o Got
  ELSE IF ret \in {"Z_OK", "Z_STREAM_END"} THEN Got ELSE << >>

Leaves(ret) == ret # "Z_OK" /\ (ret = "Z_STREAM_END" => ~packed.behind)

InflateStep(ret) ==
  /\ pc = "inflate"
  /\ Possible(ret)
  /\ \E s \in {"run", "dry", "end"} : After(ret, s) /\ ctx' = [made |-> ctx.made + Given, state |-> s]
  /\ result' = result \o Appends(ret)
  /\ pc' = IF Leaves(ret) THEN "done" ELSE "inflate"
  /\ failed' = (ret = "Z_MEM_ERROR")
  /\ UNCHANGED packed

Codes == {"Z_OK", "Z_STREAM_END", "Z_BUF_ERROR", "Z_DATA_ERROR", "Z_MEM_ERROR"}

InflateNext ==
  \/ \E t \in Texts : Compress(t)
  \/ Arrives
  \/ Decompress
  \/ \E ret \in Codes : InflateStep(ret)

InflateSpec == InflateInit /\ [][InflateNext]_inflateVars

(* The loop runs, and need not run out of memory to end. *)
Fairness == WF_inflateVars(\E ret \in Codes \ {"Z_MEM_ERROR"} : InflateStep(ret))

-----------------------------------------------------------------------------
(* The variables have their types, and the stream gives no more than is there. *)
InflateTypeOK ==
  /\ packed \in [text : Seq(Units), good : Nat, comes : Seq(Units \cup {Wrong}),
                 ends : {"none", "whole", "cut", "damaged"}, behind : BOOLEAN]
  /\ packed.good <= Len(packed.text) /\ packed.good <= Len(packed.comes)
  /\ ctx \in [made : Nat, state : {"run", "dry", "end"}] /\ ctx.made <= Len(packed.comes)
  /\ pc \in {"packed", "inflate", "done"}
  /\ result \in Seq(Units \cup {Wrong}) /\ failed \in BOOLEAN

(* What comex_zlib_decompress returns is the text that comex_zlib_compress was
   given, also when it ends at the edge of the buffer.  Of bytes that were cut
   it is as much of the text as still comes out of them, and when memory is
   short a beginning.  Of damaged bytes the result is right up to the damage
   only: what zlib makes of them behind it is returned too, for no result is
   taken back when the error is found, and at most the last buffer is lost
   (comex_zlib.cpp:50-71). *)
UnpacksWhatWasPacked ==
  pc = "done" =>
    /\ \A i \in 1..Len(result) : i <= packed.good => result[i] = packed.text[i]
    /\ packed.ends # "damaged" => Len(result) <= packed.good
    /\ packed.ends = "whole" /\ ~failed => result = packed.text
    /\ packed.ends = "cut" /\ ~failed => Len(result) = packed.good
    /\ packed.ends = "damaged" /\ ~failed => Len(result) + Buffer >= Len(packed.comes)

(* The loop ends, whatever is wrong with the bytes, except when others follow
   them: then zlib returns the end of the stream for ever (comex_zlib.cpp:51-69). *)
DecompressReturns == pc = "inflate" /\ ~packed.behind ~> pc = "done"
=============================================================================
