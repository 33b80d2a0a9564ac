-------------------------------- MODULE Files --------------------------------
(***************************************************************************)
(* The output of the io library (src/runtime/io.cpp): a table of batches,    *)
(* one for a FILE*, in front of the buffers of libc.  The bytes of a file     *)
(* are numbered in the order in which the program writes them.              *)
(***************************************************************************)
EXTENDS Integers, Sequences, FiniteSets, FiniteSetsExt

CONSTANTS
    Stream,     \* the addresses libc gives a FILE*
    StdStream,  \* stdout, a FILE of libc's own, whose address is not given away
    Nowhere,    \* what print and io.write go on writing to when stdout is closed
    BatchSlots, \* kOutBufSlots
    BatchCap,   \* kOutBufCap
    MaxBytes    \* bound: bytes written to a stream between open and close

NoStream == "none"

ASSUME FilesAssumption ==
    /\ {StdStream, Nowhere} \subseteq Stream /\ StdStream # Nowhere
    /\ NoStream \notin Stream
    /\ BatchSlots \in Nat /\ BatchCap \in Nat /\ MaxBytes \in Nat

VARIABLE files  \* open, written, sent: the bytes in the order they reach libc,
                \* slots: the table of batches, ended: the process has exited

FullMode == 0
LineMode == 1
NoMode == 2

FreeSlot == [fp |-> NoStream, bytes |-> <<>>, mode |-> FullMode]

(* outbuf_find, outbuf_get; 0 when every slot is taken. *)
SlotOf(f, s) == Max({0} \cup {i \in 1..BatchSlots : f.slots[i].fp = s})

SlotFor(f, s) ==
    LET free == {i \in 1..BatchSlots : f.slots[i].fp = NoStream}
    IN  IF SlotOf(f, s) # 0 THEN SlotOf(f, s)
        ELSE IF free # {} THEN Min(free) ELSE 0

Pending(f, s) == IF SlotOf(f, s) = 0 THEN <<>> ELSE f.slots[SlotOf(f, s)].bytes

(* fwrite *)
Sent(f, s, bytes) == [f EXCEPT !.sent[s] = @ \o bytes]

(* outbuf_flush_fp *)
Flushed(f, s) ==
    IF SlotOf(f, s) = 0 THEN f
    ELSE [f EXCEPT !.sent[s] = @ \o Pending(f, s), !.slots[SlotOf(f, s)].bytes = <<>>]

(* outbuf_default_mode: stdout may be a terminal. *)
DefaultModes(s) == IF s = StdStream THEN {FullMode, LineMode} ELSE {FullMode}

Bound(f, s, mode) ==
    IF SlotOf(f, s) # 0 \/ SlotFor(f, s) = 0 THEN f
    ELSE [f EXCEPT !.slots[SlotFor(f, s)] = [fp |-> s, bytes |-> <<>>, mode |-> mode]]

(* Mutant: a write too large for a batch overtakes it. *)
BatchedOvertaking(f, s, bytes, line) ==
    LET i == SlotOf(f, s)
        room == IF Len(Pending(f, s)) + Len(bytes) > BatchCap THEN Flushed(f, s) ELSE f
        kept == [room EXCEPT !.slots[i].bytes = @ \o bytes]
    IN  IF i = 0 \/ f.slots[i].mode = NoMode \/ Len(bytes) >= BatchCap THEN Sent(f, s, bytes)
        ELSE IF f.slots[i].mode = LineMode /\ line THEN Flushed(kept, s)
        ELSE kept

(* outbuf_write *)
Batched(f, s, bytes, line) ==
    LET i == SlotOf(f, s)
        room == IF Len(Pending(f, s)) + Len(bytes) > BatchCap THEN Flushed(f, s) ELSE f
        kept == [room EXCEPT !.slots[i].bytes = @ \o bytes]
    IN  IF i = 0 \/ f.slots[i].mode = NoMode THEN Sent(f, s, bytes)
        ELSE IF Len(bytes) >= BatchCap THEN Sent(Flushed(f, s), s, bytes)
        ELSE IF f.slots[i].mode = LineMode /\ line THEN Flushed(kept, s)
        ELSE kept

(* Mutant: the slot is given up with what is in it. *)
DroppedUnflushed(f, s) ==
    IF SlotOf(f, s) = 0 THEN f ELSE [f EXCEPT !.slots[SlotOf(f, s)] = FreeSlot]

(* outbuf_drop_fp *)
Dropped(f, s) ==
    IF SlotOf(f, s) = 0 THEN f ELSE [Flushed(f, s) EXCEPT !.slots[SlotOf(f, s)] = FreeSlot]

FilesInit ==
    files = [open |-> [s \in Stream |-> s = StdStream], written |-> [s \in Stream |-> 0],
             sent |-> [s \in Stream |-> <<>>], slots |-> [i \in 1..BatchSlots |-> FreeSlot],
             ended |-> FALSE]

Usable(s) == ~files.ended /\ files.open[s]

(* io.open: libc reuses the address of a file that was closed. *)
OpenFile(s) ==
    /\ ~files.ended /\ ~files.open[s] /\ s \notin {StdStream, Nowhere}
    /\ files' = [files EXCEPT !.open[s] = TRUE, !.written[s] = 0, !.sent[s] = <<>>]

(* file:write, io.write, print: n bytes, with a line's end among them or not. *)
Write(s, n, line) ==
    LET bytes == [i \in 1..n |-> files.written[s] + i]
    IN  /\ Usable(s) /\ files.written[s] + n <= MaxBytes
        /\ \E mode \in DefaultModes(s) :
              files' = [Batched(Bound(files, s, mode), s, bytes, line)
                            EXCEPT !.written[s] = @ + n]

(* flush, read, lines and seek push the batch out first. *)
FlushFile(s) == Usable(s) /\ files' = Flushed(files, s)

(* setvbuf, of files the program opened; without a free slot the mode is     *)
(* not remembered.                                                          *)
SetBuffering(s, mode) ==
    LET f == Bound(Flushed(files, s), s, mode)
    IN  /\ Usable(s) /\ s \notin {StdStream, Nowhere}
        /\ files' = IF SlotOf(f, s) = 0 THEN f ELSE [f EXCEPT !.slots[SlotOf(f, s)].mode = mode]

(* file:close, io.close, and __gc of a file the program has dropped.  After   *)
(* io.close(io.stdout), print and io.write still write to stdout: those       *)
(* bytes are lost, and take up a batch like any others.                     *)
CloseFile(s) ==
    /\ Usable(s) /\ s # Nowhere
    /\ files' = [Dropped(files, s) EXCEPT
                     !.open = [u \in Stream |-> IF u = s THEN FALSE
                                               ELSE (u = Nowhere /\ s = StdStream) \/ @[u]]]

(* outbuf_flush_all, from the destructor of the state or from atexit. *)
Exit ==
    /\ ~files.ended
    /\ files' = [files EXCEPT
                     !.sent = [s \in Stream |-> @[s] \o Pending(files, s)],
                     !.slots = [i \in 1..BatchSlots |-> [@[i] EXCEPT !.bytes = <<>>]],
                     !.ended = TRUE]

FilesNext ==
    \/ \E s \in Stream :
        \/ OpenFile(s) \/ FlushFile(s) \/ CloseFile(s)
        \/ \E n \in 1 .. BatchCap + 1, line \in BOOLEAN : Write(s, n, line)
        \/ \E mode \in {FullMode, LineMode, NoMode} : SetBuffering(s, mode)
    \/ Exit

-----------------------------------------------------------------------------
InOrder(s, bytes) == bytes = [i \in 1 .. files.written[s] |-> i]

(* "ordering and stock semantics are preserved" (doc/internals/               *)
(* optimizations.md): what has reached a file and what waits in its batch     *)
(* is what was written, in order, however batches, direct writes, changes of  *)
(* mode and the shortage of slots alternate.                                *)
BytesInOrder == \A s \in Stream : InOrder(s, files.sent[s] \o Pending(files, s))

(* A file that is closed has all its bytes, stdout those written before, and   *)
(* so has every file when the process ends; no batch waits for a file that   *)
(* is closed.                                                               *)
NothingLost ==
    \A s \in Stream :
        ~files.open[s] \/ files.ended => InOrder(s, files.sent[s]) /\ Pending(files, s) = <<>>

FilesSpec == FilesInit /\ [][FilesNext]_files
=============================================================================
