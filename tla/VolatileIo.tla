----------------------------- MODULE VolatileIo -----------------------------
(***************************************************************************)
(* The I/O of VolatileSlice: ReadVolatile and WriteVolatile of the vendored *)
(* crate vm-memory (io.rs), and the Bytes<usize> operations of a slice      *)
(* (volatile_memory.rs), which are written with them.                       *)
(*                                                                          *)
(* A file or socket is the bytes that are to come (or that it got) and the  *)
(* turns its next calls take: each may be interrupted, fail, or serve only  *)
(* n bytes.  After its turns it serves all that is asked.                   *)
(***************************************************************************)
EXTENDS VolatileMemory

Interrupt == [kind |-> "interrupted", n |-> 0]
Failure == [kind |-> "failed", n |-> 0]
Short(n) == [kind |-> "short", n |-> n]

\* How many of the bytes asked for the next call serves.
Served(turns, asked) == IF turns = <<>> THEN asked ELSE Min({asked, Head(turns).n})
Later(turns) == IF turns = <<>> THEN turns ELSE Tail(turns)

Done(st, io, ret) == [st |-> st, io |-> io, ret |-> ret]

\* "Cap the request at u32::MAX to prevent truncation".
Asked(s) == Min({s.size, U32_MAX})

\* The call fails, or moves n bytes; what is read is marked.
Fails(io) == io.turns # <<>> /\ Head(io.turns).kind # "short"
last_os_error(st, io) == Done(st, [io EXCEPT !.turns = Tail(@)], Err(Head(io.turns).kind))
Received(st, s, src, n) ==
  Done(StoreAndMark(st, s, src.data, n), [src EXCEPT !.data = SubSeq(@, n + 1, Len(@)), !.turns = Later(@)], Ok(n))
Sent(st, s, dst, n) == Done(st, [dst EXCEPT !.data = @ \o Held(st, s, n), !.turns = Later(@)], Ok(n))

\* ReadFile, WriteFile, WSARecv and WSASend, each with one buffer.
read_volatile_raw_handle(st, s, src) ==
  IF Fails(src) THEN last_os_error(st, src)
  ELSE Received(st, s, src, Min({Served(src.turns, Asked(s)), Len(src.data)}))
write_volatile_raw_handle(st, s, dst) ==
  IF Fails(dst) THEN last_os_error(st, dst) ELSE Sent(st, s, dst, Served(dst.turns, Asked(s)))
read_volatile_raw_socket(st, s, src) ==
  IF Fails(src) THEN last_os_error(st, src)
  ELSE Received(st, s, src, Min({Served(src.turns, Asked(s)), Len(src.data)}))
write_volatile_raw_socket(st, s, dst) ==
  IF Fails(dst) THEN last_os_error(st, dst) ELSE Sent(st, s, dst, Served(dst.turns, Asked(s)))

read_volatile(st, s, src) ==
  IF src.socket THEN read_volatile_raw_socket(st, s, src) ELSE read_volatile_raw_handle(st, s, src)
write_volatile(st, s, dst) ==
  IF dst.socket THEN write_volatile_raw_socket(st, s, dst) ELSE write_volatile_raw_handle(st, s, dst)

\* The calls that are interrupted are made again.
retry_eintr(io) ==
  LET again == Max({k \in 0 .. Len(io.turns) : \A i \in 1 .. k : io.turns[i] = Interrupt})
  IN  [io EXCEPT !.turns = SubSeq(@, again + 1, Len(@))]

\* One pass of the loop of read_exact_volatile, at partial_buf; zero is the error.
ReadMore(l) ==
  LET r == read_volatile(l.st, l.partial_buf, retry_eintr(l.io))
  IN  IF ~IsOk(r.ret) THEN [l EXCEPT !.st = r.st, !.io = r.io, !.ret = r.ret]
      ELSE IF r.ret.ok = 0 THEN [l EXCEPT !.st = r.st, !.io = r.io, !.ret = Err("UnexpectedEof")]
      ELSE [l EXCEPT !.st = r.st, !.io = r.io, !.partial_buf = offset(@, r.ret.ok).ok]

WriteMore(l) ==
  LET r == write_volatile(l.st, l.partial_buf, retry_eintr(l.io))
  IN  IF ~IsOk(r.ret) THEN [l EXCEPT !.io = r.io, !.ret = r.ret]
      ELSE IF r.ret.ok = 0 THEN [l EXCEPT !.io = r.io, !.ret = Err("WriteZero")]
      ELSE [l EXCEPT !.io = r.io, !.partial_buf = offset(@, r.ret.ok).ok]

\* The loop, until the slice is empty or there is an error: each pass takes a byte or ends it.
Loop(More(_), st, s, io) ==
  LET Pass[k \in 0 .. s.size] ==
        IF k = 0 THEN [st |-> st, io |-> io, partial_buf |-> s, ret |-> Ok(0)]
        ELSE LET l == Pass[k - 1] IN IF l.partial_buf.size = 0 \/ ~IsOk(l.ret) THEN l ELSE More(l)
      end == Pass[s.size]
  IN  Done(end.st, end.io, end.ret)

read_exact_volatile(st, s, src) == Loop(ReadMore, st, s, src)
write_all_volatile(st, s, dst) == Loop(WriteMore, st, s, dst)

-----------------------------------------------------------------------------
(* Buffers of the host as the other side: &[u8], &mut [u8], Vec<u8>, Cursor. *)

\* For &[u8]; what is left of it is the io of the result.
read_volatile_bytes(st, s, data) ==
  LET total == Min({s.size, Len(data)})
  IN  Done(StoreAndMark(st, s, data, total), SubSeq(data, total + 1, Len(data)), Ok(total))

read_exact_volatile_bytes(st, s, data) ==
  IF s.size > Len(data) THEN Done(st, data, Err("UnexpectedEof"))
  ELSE [read_volatile_bytes(st, s, data) EXCEPT !.ret = Ok(0)]

\* For &mut [u8] of len bytes: what it gets is the io of the result.
write_volatile_bytes(st, s, len) ==
  LET total == Min({s.size, len}) IN Done(st, Held(st, s, total), Ok(total))

write_all_volatile_bytes(st, s, len) ==
  LET r == write_volatile_bytes(st, s, len)
  IN  IF r.ret.ok = s.size THEN [r EXCEPT !.ret = Ok(0)] ELSE [r EXCEPT !.ret = Err("WriteZero")]

write_volatile_vec(st, s, vec) == Done(st, vec \o Held(st, s, s.size), Ok(s.size))

\* A cursor is its bytes, inner, and a position, which may be past them.
Remaining(cursor) ==
  SubSeq(cursor.inner, Min({cursor.position, Len(cursor.inner)}) + 1, Len(cursor.inner))

read_volatile_cursor(st, s, cursor) ==
  LET r == read_volatile_bytes(st, s, Remaining(cursor))
  IN  [r EXCEPT !.io = [cursor EXCEPT !.position = @ + r.ret.ok]]

read_exact_volatile_cursor(st, s, cursor) ==
  LET r == read_exact_volatile_bytes(st, s, Remaining(cursor))
  IN  [r EXCEPT !.io = IF IsOk(r.ret) THEN [cursor EXCEPT !.position = @ + s.size] ELSE cursor]

write_volatile_cursor(st, s, cursor) ==
  LET at == Min({cursor.position, Len(cursor.inner)})
      n == Min({s.size, Len(cursor.inner) - at})
  IN  Done(st, [inner |-> [i \in DOMAIN cursor.inner |->
                               IF i \in at + 1 .. at + n THEN st.bytes[s.addr + i - at - 1] ELSE cursor.inner[i]],
                  position |-> cursor.position + n], Ok(n))

-----------------------------------------------------------------------------
(* Bytes<usize> for VolatileSlice. *)

NoIo == [data |-> <<>>, turns |-> <<>>, socket |-> FALSE]

vs_write(st, s, buf, addr) ==
  IF buf = <<>> THEN Done(st, NoIo, Ok(0))
  ELSE IF addr >= s.size THEN Done(st, NoIo, Err("OutOfBounds"))
  ELSE [read_volatile_bytes(st, offset(s, addr).ok, buf) EXCEPT !.io = NoIo]

\* The bytes that len bytes of buffer get.
vs_read(st, s, len, addr) ==
  IF len = 0 THEN Ok(<<>>)
  ELSE IF addr >= s.size THEN Err("OutOfBounds")
  ELSE Ok(write_volatile_bytes(st, offset(s, addr).ok, len).io)

vs_write_slice(st, s, buf, addr) ==
  LET r == vs_write(st, s, buf, addr)
  IN  IF IsOk(r.ret) /\ r.ret.ok # Len(buf) THEN [r EXCEPT !.ret = Err("PartialBuffer")] ELSE r

vs_read_slice(st, s, len, addr) ==
  LET r == vs_read(st, s, len, addr)
  IN  IF IsOk(r) /\ Len(r.ok) # len THEN Err("PartialBuffer") ELSE r

\* offset, and the part of it that count allows.
UpTo(s, addr, count) ==
  LET slice == offset(s, addr) IN IF IsOk(slice) THEN subslice(slice.ok, 0, Min({slice.ok.size, count})) ELSE slice

vs_read_volatile_from(st, s, addr, src, count) ==
  LET slice == UpTo(s, addr, count)
  IN  IF IsOk(slice) THEN read_volatile(st, slice.ok, retry_eintr(src)) ELSE Done(st, src, slice)

vs_read_exact_volatile_from(st, s, addr, src, count) ==
  LET slice == subslice(s, addr, count)
  IN  IF IsOk(slice) THEN read_exact_volatile(st, slice.ok, src) ELSE Done(st, src, slice)

vs_write_volatile_to(st, s, addr, dst, count) ==
  LET slice == UpTo(s, addr, count)
  IN  IF IsOk(slice) THEN write_volatile(st, slice.ok, retry_eintr(dst)) ELSE Done(st, dst, slice)

vs_write_all_volatile_to(st, s, addr, dst, count) ==
  LET slice == subslice(s, addr, count)
  IN  IF IsOk(slice) THEN write_all_volatile(st, slice.ok, dst) ELSE Done(st, dst, slice)

\* An atomic store marks the bitmap of the whole slice, at the address.
vs_store(st, s, val, addr) ==
  LET r == get_atomic_ref(s, addr, Len(val))
  IN  IF ~IsOk(r) THEN Done(st, NoIo, r)
      ELSE Done([bytes |-> StoreAndMark(st, r.ok, val, Len(val)).bytes,
                   maps |-> [st.maps EXCEPT ![s.rg] = mark_dirty(@, s.bm, addr, Len(val))]], NoIo, Ok(0))

vs_load(st, s, addr, size_of) ==
  LET r == get_atomic_ref(s, addr, size_of) IN IF IsOk(r) THEN Ok(Held(st, r.ok, size_of)) ELSE r

-----------------------------------------------------------------------------
(* What the loops and the transfers promise. *)

\* read_exact_volatile: what the source lost is at the front of the slice, in order and
\* nowhere else; it is the whole slice exactly when the call succeeds, and the
\* call fails only for a failing source or one that ends or has nothing.
ReadsExactly(st, s, src) ==
  LET r == read_exact_volatile(st, s, src)
      lost == Len(src.data) - Len(r.io.data)
  IN  /\ lost <= s.size
      /\ r.st.bytes = StoreAndMark(st, s, src.data, lost).bytes
      /\ r.io.data = SubSeq(src.data, lost + 1, Len(src.data))
      /\ IsOk(r.ret) <=> lost = s.size
      /\ (Len(src.data) >= s.size /\ \A i \in DOMAIN src.turns : src.turns[i] = Interrupt \/ src.turns[i].n > 0) => IsOk(r.ret)

\* write_all_volatile: likewise for what the destination gets.
WritesExactly(st, s, dst) ==
  LET r == write_all_volatile(st, s, dst)
      got == Len(r.io.data) - Len(dst.data)
  IN  /\ r.st = st
      /\ got <= s.size /\ r.io.data = dst.data \o Held(st, s, got)
      /\ IsOk(r.ret) <=> got = s.size
      /\ (\A i \in DOMAIN dst.turns : dst.turns[i] = Interrupt \/ dst.turns[i].n > 0) => IsOk(r.ret)

\* The operations of a slice on buffers: data, distinct from what is there, is put
\* where it was asked for, as much of it as fits; the pages are marked; it reads back.
TransfersAndMarks(st, root, s, data, addr) ==
  LET w == vs_write(st, s, data, addr)
      n == IF addr < s.size THEN Min({Len(data), s.size - addr}) ELSE 0
      src == [NoIo EXCEPT !.data = data]
      f == vs_read_exact_volatile_from(st, s, addr, src, Len(data))
      a == vs_store(st, s, data, addr)
      At(count) == s.addr + addr .. s.addr + addr + count - 1
  IN  /\ ChangedAndMarked(st, w.st, s.rg, root.addr, At(n))
      /\ IsOk(w.ret) => w.ret.ok = n /\ (n > 0 => vs_read(w.st, s, n, addr) = Ok(SubSeq(data, 1, n)))
      /\ IsOk(vs_write_slice(st, s, data, addr).ret) <=> n = Len(data)
      /\ ChangedAndMarked(st, f.st, s.rg, root.addr, IF IsOk(f.ret) THEN At(Len(data)) ELSE {})
      /\ IsOk(f.ret) <=> addr + Len(data) <= s.size
      /\ Len(data) \in {1, 2, 4} =>
           /\ ChangedAndMarked(st, a.st, s.rg, root.addr, IF IsOk(a.ret) THEN At(Len(data)) ELSE {})
           /\ IsOk(a.ret) => vs_load(a.st, s, addr, Len(data)) = Ok(data)
           /\ IsOk(a.ret) <=> addr + Len(data) <= s.size /\ (s.addr + addr) % Len(data) = 0

\* A cursor and a vector on the other side: what is taken is what comes next of it.
CursorsAdvance(st, s, cursor) ==
  LET r == read_volatile_cursor(st, s, cursor)
      e == read_exact_volatile_cursor(st, s, cursor)
      w == write_volatile_cursor(st, s, cursor)
      n == Min({s.size, Len(Remaining(cursor))})
  IN  /\ r.ret = Ok(n) /\ Held(r.st, s, n) = SubSeq(Remaining(cursor), 1, n)
      /\ Remaining(r.io) = SubSeq(Remaining(cursor), n + 1, Len(Remaining(cursor)))
      /\ IsOk(e.ret) <=> n = s.size
      /\ IF IsOk(e.ret) THEN e.st = r.st /\ e.io = r.io ELSE e.st = st /\ e.io = cursor
      /\ w.ret = Ok(n) /\ Remaining(w.io) = Remaining(r.io)
      /\ SubSeq(Remaining([w.io EXCEPT !.position = cursor.position]), 1, n) = Held(st, s, n)
      /\ IsOk(write_all_volatile_bytes(st, s, n).ret) <=> n = s.size
      /\ write_volatile_vec(st, s, cursor.inner).io = cursor.inner \o Held(st, s, s.size)

=============================================================================
