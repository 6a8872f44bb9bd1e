-------------------------------- MODULE Chunker --------------------------------
(***************************************************************************)
(* The content-defined chunker (internal/chunker/chunker.go) and the loop  *)
(* of the object writer that cuts one file with it.  A Read of the file    *)
(* returns any number of bytes that the buffer has room for.               *)
(***************************************************************************)
EXTENDS Integers, SequencesExt

CONSTANTS
  Gear,                     \* the Gear table: a number for each byte value
  Word,                     \* 2^64 of the code
  MaskS, MaskL,             \* the bits of the two masks
  MinLen, AvgLen, MaxLen,   \* the profile, in bytes
  Files                     \* the contents of a file

ASSUME ProfileAssumption ==
  /\ MinLen \in Nat /\ AvgLen \in Nat /\ MaxLen \in Nat
  /\ MinLen < AvgLen /\ AvgLen < MaxLen

Byte == DOMAIN Gear

ASSUME GearAssumption ==
  Gear \in [Byte -> Nat] /\ Word \in Nat \ {0} /\ Files \subseteq Seq(Byte)

VARIABLES
  file,    \* the content of the file
  rest,    \* what the reader has left
  buf,     \* the working buffer, up to `filled'
  eof,     \* the reader returned io.EOF
  chunks,  \* the chunks that Next returned
  end      \* "open" while the loop runs, then "EOF" or "error"

vars == <<file, rest, buf, eof, chunks, end>>

Power[k \in Nat] == IF k = 0 THEN 1 ELSE 2 * Power[k - 1]

\* fp & mask == 0
Clear(fp, mask) == \A b \in mask : (fp \div Power[b]) % 2 = 0

Mask(i) == IF i < AvgLen THEN MaskS ELSE MaskL

\* fp of cutPoint after the byte at the offset i; a byte has its index one
\* higher.
Fingerprint(data) ==
  LET fp[i \in MinLen - 1 .. Len(data) - 1] ==
        IF i < MinLen THEN 0 ELSE (2 * fp[i - 1] + Gear[data[i + 1]]) % Word
  IN fp

\* The loop of cutPoint from the offset i.
Scan(data) ==
  LET from[i \in MinLen .. Len(data)] ==
        IF i = Len(data) THEN i
        ELSE IF Clear(Fingerprint(data)[i], Mask(i)) THEN i + 1
        ELSE IF i + 1 >= MaxLen THEN MaxLen
        ELSE from[i + 1]
  IN from

CutPoint(data) == IF Len(data) <= MinLen THEN Len(data) ELSE Scan(data)[MinLen]

Init ==
  /\ file \in Files /\ rest = file
  /\ buf = << >> /\ eof = FALSE /\ chunks = << >> /\ end = "open"

\* One Read of fill.  io.EOF comes with the last bytes or after them.
Fill(k) ==
  /\ end = "open" /\ ~eof /\ Len(buf) + k <= MaxLen /\ Len(buf) < MaxLen
  /\ buf' = buf \o SubSeq(rest, 1, k)
  /\ rest' = SubSeq(rest, k + 1, Len(rest))
  /\ eof' \in {FALSE, k = Len(rest)}
  /\ UNCHANGED <<file, chunks, end>>

\* The slip that cuts what one Read returned.
FilledAny == buf # << >>

Filled == Len(buf) = MaxLen \/ eof

\* Next after fill: one chunk, or io.EOF.
NextChunk ==
  /\ end = "open" /\ Filled
  /\ IF buf = << >> THEN end' = "EOF" /\ UNCHANGED <<buf, chunks>>
     ELSE LET cut == CutPoint(buf)
          IN /\ chunks' = Append(chunks, SubSeq(buf, 1, cut))
             /\ buf' = SubSeq(buf, cut + 1, Len(buf))
             /\ UNCHANGED end
  /\ UNCHANGED <<file, rest, eof>>

\* A Read fails: readAndChunk gives the chunks of the read back.
ReadError ==
  /\ end = "open" /\ ~eof /\ Len(buf) < MaxLen
  /\ end' = "error"
  /\ UNCHANGED <<file, rest, buf, eof, chunks>>

Next == NextChunk \/ ReadError \/ \E k \in 0 .. Len(rest) : Fill(k)

Spec == Init /\ [][Next]_vars

--------------------------------------------------------------------------------
(* Properties. *)

\* The Gear hash of the bytes MinLen .. i of data in closed form.
Terms(data, i) == [j \in MinLen .. i |-> Gear[data[j + 1]] * Power[i - j]]
Hash(data, i) == FoldFunction(LAMBDA term, sum : term + sum, 0, Terms(data, i)) % Word

\* The length of the first chunk of data when all of it is at hand: the first
\* offset whose hash has no bit of the mask ends it.
FirstCut(data) ==
  LET n == IF Len(data) < MaxLen THEN Len(data) ELSE MaxLen
      hits == {i \in MinLen .. n - 1 : Clear(Hash(data, i), Mask(i))}
  IN IF hits = {} THEN n ELSE Min(hits) + 1

Cuts[data \in Seq(Byte)] ==
  IF data = << >> THEN << >>
  ELSE <<SubSeq(data, 1, FirstCut(data))>> \o Cuts[SubSeq(data, FirstCut(data) + 1, Len(data))]

\* The chunks of a file depend on its bytes only, never on how the reader
\* hands them out: the same content always gives the same chunk ids, and a
\* commit that reads it again stages nothing new.
CutsAreOfContent ==
  /\ IsPrefix(chunks, Cuts[file])
  /\ end = "EOF" => chunks = Cuts[file]

================================================================================
