----------------------------- MODULE Fractional -----------------------------
(***************************************************************************)
(* Order keys between order keys: src/server/src/mcp/fractional.ts, which  *)
(* is the algorithm of the fractional_index crate the editor uses.  A key  *)
(* is a sequence of bytes that ends in Terminator; both sides store it in  *)
(* hexadecimal, whose text order is that of the bytes.  The real values    *)
(* are Terminator = 128 and TopByte = 255.                                 *)
(***************************************************************************)
EXTENDS Naturals, Sequences, FiniteSetsExt

CONSTANTS Terminator, TopByte

ASSUME ByteAssumption ==
    Terminator \in Nat /\ TopByte \in Nat /\ 0 < Terminator /\ Terminator < TopByte

Bytes == 0 .. TopByte

DefaultKey == <<Terminator>>

\* The absent bound, and the answer when there is no key between two bounds.
NoKey == <<>>

IsKey(k) == k # <<>> /\ k[Len(k)] = Terminator

\* The order of the keys: at the first difference, or by length.
Below(a, b) ==
    \/ \E i \in DOMAIN a \cap DOMAIN b :
          a[i] < b[i] /\ \A j \in 1 .. i - 1 : a[j] = b[j]
    \/ Len(a) < Len(b) /\ \A i \in DOMAIN a : a[i] = b[i]

Upto(bytes, i) == SubSeq(bytes, 1, i)
From(bytes, i) == SubSeq(bytes, i, Len(bytes))
Terminated(bytes) == Append(bytes, Terminator)

\* Raise the first byte that can be raised, or cut there if that is enough.
AfterBytes(bytes) ==
    LET i == Min({j \in DOMAIN bytes : bytes[j] < TopByte})
    IN  IF bytes[i] < Terminator
          THEN Upto(bytes, i - 1)
          ELSE [Upto(bytes, i) EXCEPT ![i] = @ + 1]

BeforeBytes(bytes) ==
    LET i == Min({j \in DOMAIN bytes : bytes[j] > 0})
    IN  IF bytes[i] > Terminator
          THEN Upto(bytes, i - 1)
          ELSE [Upto(bytes, i) EXCEPT ![i] = @ - 1]

\* Mutated NewAfter: the terminator is left off.
NewAfterBare(k) == AfterBytes(k)
NewAfter(k) == Terminated(AfterBytes(k))
NewBefore(k) == Terminated(BeforeBytes(k))

\* Two keys that differ at byte i: halve a gap, or go after the rest of left.
BetweenAt(left, right, i) ==
    CASE left[i] + 1 < right[i] ->
            Terminated([Upto(left, i) EXCEPT ![i] = @ + (right[i] - left[i]) \div 2])
      [] left[i] + 1 = right[i] ->
            Terminated(Upto(left, i) \o AfterBytes(From(left, i + 1)))
      [] OTHER -> NoKey

\* The shorter key ends, without its terminator, at byte n - 1.
BetweenPrefix(left, right, n) ==
    CASE Len(left) < Len(right) /\ right[n] >= Terminator ->
            Terminated(Upto(right, n) \o BeforeBytes(From(right, n + 1)))
      [] Len(left) > Len(right) /\ left[n] < Terminator ->
            Terminated(Upto(left, n) \o AfterBytes(From(left, n + 1)))
      [] OTHER -> NoKey

\* Mutated BetweenKeys: the prefix is taken one byte short.
BetweenKeysShort(left, right) ==
    LET shorter == Min({Len(left), Len(right)}) - 1
        differing == {i \in 1 .. shorter : left[i] # right[i]}
    IN  IF differing # {} THEN BetweenAt(left, right, Min(differing))
        ELSE IF Len(left) < Len(right)
          THEN Terminated(Upto(right, shorter) \o BeforeBytes(From(right, shorter + 1)))
          ELSE Terminated(Upto(left, shorter) \o AfterBytes(From(left, shorter + 1)))

BetweenKeys(left, right) ==
    LET shorter == Min({Len(left), Len(right)}) - 1
        differing == {i \in 1 .. shorter : left[i] # right[i]}
    IN  IF differing # {}
          THEN BetweenAt(left, right, Min(differing))
          ELSE BetweenPrefix(left, right, shorter + 1)

\* A key between two bounds, either of which may be absent.
Between(lower, upper) ==
    CASE lower # NoKey /\ upper # NoKey -> BetweenKeys(lower, upper)
      [] lower # NoKey /\ upper = NoKey -> NewAfter(lower)
      [] lower = NoKey /\ upper # NoKey -> NewBefore(upper)
      [] OTHER -> DefaultKey
=============================================================================
