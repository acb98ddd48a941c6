--------------------------- MODULE ConsoleFilters ---------------------------
(***************************************************************************)
(* The two byte filters of the console.  A guest asks a terminal for its   *)
(* cursor with DSR, a terminal answers with a CPR; the console answers the *)
(* guest itself and keeps both from crossing over (src/terminal.rs,        *)
(* src/devices/virtio/console/worker.rs).  A byte is a one-letter string:  *)
(* "E" is ESC, "6" stands for every digit.                                 *)
(*                                                                         *)
(* An operator named X_<fault> is a deliberately faulty variant of X that  *)
(* no specification uses: some property must tell it apart from X.         *)
(***************************************************************************)
EXTENDS Integers, Sequences

DSR == <<"E", "[", "6", "n">>
CPR == <<"E", "[", "6", ";", "6", "R">>
Digits == {"6", ";"}

\* The end of a CPR that starts at i, or 0: ESC [ digits R with at least one
\* digit, all of it in the slice.
CprEnd(s, i) ==
  LET ends == {j \in i + 3 .. Len(s) : s[j] = "R" /\ \A k \in i + 2 .. j - 1 : s[k] \in Digits}
  IN  IF i + 2 <= Len(s) /\ s[i] = "E" /\ s[i + 1] = "[" /\ ends # {}
      THEN CHOOSE j \in ends : TRUE ELSE 0

\* The scan from i on.
strip_cpr_responses(bytes) ==
  LET scan[i \in 1 .. Len(bytes) + 1] ==
        IF i > Len(bytes) THEN <<>>
        ELSE IF CprEnd(bytes, i) # 0 THEN scan[CprEnd(bytes, i) + 1]
        ELSE <<bytes[i]>> \o scan[i + 1]
  IN  scan[1]

IsDsr_PastEnd(s, i) == \A k \in 1 .. 4 : i + k - 1 > Len(s) \/ s[i + k - 1] = DSR[k]

IsDsr(s, i) == i + 3 <= Len(s) /\ SubSeq(s, i, i + 3) = DSR

filter_dsr(buf) ==
  LET scan[i \in 1 .. Len(buf) + 4] ==
        IF i > Len(buf) THEN <<>>
        ELSE IF IsDsr(buf, i) THEN scan[i + 4]
        ELSE <<buf[i]>> \o scan[i + 1]
  IN  scan[1]

HasDsr(buf) == \E i \in DOMAIN buf : IsDsr(buf, i)

-----------------------------------------------------------------------------
(* What the filters are for. *)

\* bytes without the positions that satisfy Drop.
Without(bytes, Drop(_)) ==
  LET kept == SelectSeq([i \in DOMAIN bytes |-> i], LAMBDA i : ~Drop(i))
  IN  [k \in DOMAIN kept |-> bytes[kept[k]]]

IsCpr(s) ==
  /\ Len(s) > 3
  /\ s[1] = "E" /\ s[2] = "[" /\ s[Len(s)] = "R"
  /\ \A i \in 3 .. Len(s) - 1 : s[i] \in Digits

InSome(IsIt(_), s, i) == \E a \in 1 .. i, b \in i .. Len(s) : IsIt(SubSeq(s, a, b))

\* terminal.rs, lines 172-176: exactly the bytes of reports are taken out of a
\* read, whatever partial or nested sequences surround them.
StripsExactlyReports(bytes) ==
  strip_cpr_responses(bytes) = Without(bytes, LAMBDA i : InSome(IsCpr, bytes, i))

\* console/worker.rs, lines 173-176: exactly the bytes of queries are taken out
\* of a chain.
StripsExactlyQueries(buf) ==
  filter_dsr(buf) = Without(buf, LAMBDA i : InSome(LAMBDA s : s = DSR, buf, i))
=============================================================================
