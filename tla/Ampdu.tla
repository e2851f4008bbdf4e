------------------------------- MODULE Ampdu -------------------------------
(***************************************************************************)
(* Aggregation (ampdu.rs): MPDU delimiters, the S-MPDU, the A-MPDU with    *)
(* its EOF padding, and the scan that takes them apart again.              *)
(***************************************************************************)
EXTENDS MacFrames

DELIM_LEN == 4
SIGNATURE == 78

(* The register, c7 first, of the CRC over x^8 + x^2 + x + 1. *)
DelimCrc8(header) ==
  LET c[n \in 0 .. 16] ==
        IF n = 0 THEN [i \in 1 .. 8 |-> 1]
        ELSE LET r == c[n - 1]
                 fb == Xor(header[n], r[1])
             IN SubSeq(r, 2, 6) \o <<Xor(r[7], fb), Xor(r[8], fb), fb>>
  IN [i \in 1 .. 8 |-> 1 - c[16][i]]

(* Header bits: EOF, reserved, the high 2 and the low 12 bits of the length. *)
BuildDelimiter(len, eof) ==
  LET header == <<IF eof THEN 1 ELSE 0, 0>> \o Uint(len \div 4096, 2) \o Uint(len % 4096, 12)
  IN <<Value(SubSeq(header, 1, 8)), Value(SubSeq(header, 9, 16)), Value(DelimCrc8(header)), SIGNATURE>>

NoDelimiter == [valid |-> FALSE]

(* Mutant: the CRC is left to the FCS of the MPDU. *)
ParseDelimiterUnchecked(d) ==
  LET header == Uint(d[1], 8) \o Uint(d[2], 8)
  IN IF d[4] # SIGNATURE THEN NoDelimiter
     ELSE [valid |-> TRUE, len |-> Value(SubSeq(header, 5, 16)) + 4096 * Value(SubSeq(header, 3, 4)),
           eof |-> header[1] = 1]

ParseDelimiter(d) ==
  LET header == Uint(d[1], 8) \o Uint(d[2], 8)
  IN IF d[4] # SIGNATURE \/ d[3] # Value(DelimCrc8(header)) THEN NoDelimiter
     ELSE [valid |-> TRUE, len |-> Value(SubSeq(header, 5, 16)) + 4096 * Value(SubSeq(header, 3, 4)),
           eof |-> header[1] = 1]

Pad4(n) == CeilDiv(n, 4) * 4

Padded(f, len) == f \o Zeros(len - Len(f))

(* EOF delimiters and loose octets up to the capacity. *)
EofFilled(out, capacity) ==
  LET aligned == Padded(out, LeastOf({Pad4(Len(out)), capacity}))
      free == capacity - Len(aligned)
      eof == BuildDelimiter(0, TRUE)
  IN aligned \o [i \in 1 .. free |-> IF i <= (free \div 4) * 4 THEN eof[((i - 1) % 4) + 1] ELSE 0]

PreEofLenMany(lens) ==
  LET len[n \in 0 .. Len(lens)] ==
        IF n = 0 THEN 0 ELSE Pad4(len[n - 1]) + DELIM_LEN + lens[n]
  IN len[Len(lens)]

(* An S-MPDU for one MPDU, whose delimiter has EOF set; EOF is clear in    *)
(* the delimiters of several.                                              *)
Aggregate(mpdus, capacity) ==
  LET out[n \in 0 .. Len(mpdus)] ==
        IF n = 0 THEN <<>>
        ELSE Padded(out[n - 1], Pad4(Len(out[n - 1])))
             \o BuildDelimiter(Len(mpdus[n]), Len(mpdus) = 1) \o mpdus[n]
  IN EofFilled(out[Len(mpdus)], capacity)

(* The scan looks at every fourth octet, takes an MPDU where a delimiter   *)
(* announces one that fits, and goes on after it.                          *)
Deaggregate(psdu) ==
  LET found[pos \in 0 .. Len(psdu) + 3] ==
        LET d == ParseDelimiter(SubSeq(psdu, pos + 1, pos + DELIM_LEN))
            end == pos + DELIM_LEN + d.len
        IN IF pos + DELIM_LEN > Len(psdu) THEN <<>>
           ELSE IF d.valid /\ d.len > 0 /\ end <= Len(psdu)
           THEN <<[mpdu |-> SubSeq(psdu, pos + DELIM_LEN + 1, end), eof |-> d.eof]>> \o found[Pad4(end)]
           ELSE found[pos + DELIM_LEN]
  IN found[0]

SplitPsdu(psdu, aggregation) ==
  IF aggregation THEN Deaggregate(psdu) ELSE <<[mpdu |-> LocateMpdu(psdu), eof |-> FALSE]>>

IsSMpdu(mpdus, aggregation) == aggregation /\ Len(mpdus) = 1 /\ mpdus[1].eof
=============================================================================
