-------------------------------- MODULE Tty --------------------------------
(***************************************************************************)
(* The line discipline of terminals (TTY in kernel/drivers/device.cpp) and *)
(* its two users: a pty, whose master writes what the slave's programs     *)
(* read, and a UART, whose interrupt handler calls emit while a program is *)
(* inside read.  Programs switch modes with ioctl, as kilo and wm do.      *)
(***************************************************************************)
EXTENDS RingBuffer, Integers, Sequences, FiniteSets

CONSTANTS
    LineSize,   \* length of m_linebuffer
    EchoSize,   \* capacity of PtyMaster::m_buf
    Settings,   \* terminal settings that programs install
    Sizes,      \* sizes of the buffers that programs read into
    MaxLines    \* bound: m_available_lines

Flags == {"ICANON", "ICRNL", "INLCR", "ECHO", "ECHONL", "ONLCR"}

ASSUME TtyAssumption ==
    /\ {"nl", "cr", "del"} \subseteq T
    /\ LineSize \in 1 .. N /\ EchoSize \in Nat
    /\ Settings \subseteq SUBSET Flags
    /\ Sizes \subseteq Nat \ {0} /\ Sizes # {}
    /\ MaxLines \in Nat

VARIABLES
    m_termios,
    m_linebuffer,
    m_available_lines,
    m_buf,      \* number of bytes in the master's buffer
    uart,       \* whether the terminal is a UART, or else a pty
    drift,      \* history: newlines that escaped m_available_lines
    pc,         \* where the reading program is
    call,       \* its read: [size, blocking, phantom]
    got         \* what it has read so far: [n, newline]

terminal == <<ring, m_termios, m_linebuffer, m_available_lines, m_buf, uart,
              drift>>
reader == <<pc, call, got>>
vars == <<terminal, reader>>

\* phantom: more lines were counted than there were when it began.
Call == [size : Sizes, blocking : BOOLEAN, phantom : BOOLEAN]

NoCall == [size |-> CHOOSE n \in Sizes : TRUE, blocking |-> TRUE, phantom |-> FALSE]

\* The number of bytes, and whether the last of them is a newline.
Nothing == [n |-> 0, newline |-> FALSE]

TypeOK ==
    /\ RingTypeOK
    /\ m_termios \subseteq Flags
    /\ m_linebuffer \in Seq(T) /\ Len(m_linebuffer) <= LineSize
    /\ m_available_lines \in 0 .. MaxLines
    /\ m_buf \in 0 .. EchoSize
    /\ drift \in Int /\ uart \in BOOLEAN
    /\ pc \in {"out", "read", "newline", "returned", "kassert", "torn"}
    /\ call \in Call
    /\ got \in [n : Nat, newline : BOOLEAN]

\* reset_termios; the content of the array does not matter yet.
Init ==
    /\ data = [p \in Positions |-> "nl"]
    /\ read_pos = 0 /\ write_pos = 0 /\ count = 0
    /\ m_termios = {"ICRNL", "ONLCR", "ICANON", "ECHO"}
    /\ m_linebuffer = <<>> /\ m_available_lines = 0
    /\ m_buf = 0 /\ drift = 0 /\ uart \in BOOLEAN
    /\ pc = "out" /\ got = Nothing
    /\ call = NoCall

Canonical == "ICANON" \in m_termios

Smaller(m, n) == IF m < n THEN m ELSE n

-----------------------------------------------------------------------------
(* emit                                                                    *)

translate(ch) ==
    IF ch = "cr" /\ "ICRNL" \in m_termios THEN "nl"
    ELSE IF ch = "nl" /\ "INLCR" \in m_termios THEN "cr"
    ELSE ch

LineFull == Len(m_linebuffer) = LineSize

\* The line that this byte ends, flushed into the input buffer.
flushes(ch) == Canonical /\ ch = "nl" /\ ~LineFull

pushed(ch) ==
    IF flushes(ch) THEN Append(m_linebuffer, ch)
    ELSE IF Canonical THEN <<>> ELSE <<ch>>

linebuffer_after(ch) ==
    IF ~Canonical THEN m_linebuffer
    ELSE IF flushes(ch) THEN <<>>
    ELSE IF ch = "del"
      THEN SubSeq(m_linebuffer, 1, Len(m_linebuffer) - 1)
    ELSE IF LineFull THEN m_linebuffer ELSE Append(m_linebuffer, ch)

\* Bytes that echo sends for a byte: a newline may need a carriage return.
echo(ch) == IF ch = "nl" /\ "ONLCR" \in m_termios THEN 2 ELSE 1

\* Bytes that emit sends: erasing takes three, a full line rings the bell.
echoes(ch) ==
    IF Canonical /\ ch = "del" THEN IF m_linebuffer = <<>> THEN 0 ELSE 3
    ELSE IF Canonical /\ LineFull THEN 1
    ELSE IF "ECHO" \in m_termios \/ (flushes(ch) /\ "ECHONL" \in m_termios)
      THEN echo(ch)
    ELSE 0

\* Overflow of the input buffer by k more items.
Overflow(k) == IF count + k > N THEN count + k - N ELSE 0

\* Where the oldest item is after the pushes of s.
oldest_after(s) == (read_pos + Overflow(Len(s))) % N

\* The pushes of a sequence, which leave the read position at r.
push_all(s, r) ==
    LET k == Len(s)
    IN /\ data' = [p \in Positions |->
                     IF \E j \in 1 .. k : (write_pos + j - 1) % N = p
                       THEN s[CHOOSE j \in 1 .. k : (write_pos + j - 1) % N = p]
                       ELSE data[p]]
       /\ write_pos' = (write_pos + k) % N
       /\ read_pos' = r

\* Newlines among the n oldest items of the input buffer and the sequence s.
newlines(n, s) ==
    Cardinality({k \in 1 .. n :
      IF k <= count THEN data[position(k)] = "nl" ELSE s[k - count] = "nl"})

dropped(s) == newlines(Overflow(Len(s)), s)

lines_after_uncounted(ch) == m_available_lines

lines_after(ch) ==
    IF flushes(ch) THEN m_available_lines + 1 ELSE m_available_lines

\* What emit does, with count and m_available_lines left to the caller.
Emit(ch, r) ==
    /\ m_available_lines < MaxLines
    /\ push_all(pushed(ch), r)
    /\ m_linebuffer' = linebuffer_after(ch)
    /\ UNCHANGED <<m_termios, uart, call>>

drift_after(ch) ==
    drift + dropped(pushed(ch)) - (IF ~Canonical /\ ch = "nl" THEN 1 ELSE 0)

\* The master of a pty writes.
emit(key) ==
    LET ch == translate(key)
    IN /\ pc = "out" /\ ~uart
       /\ Emit(ch, oldest_after(pushed(ch)))
       /\ count' = Smaller(N, count + Len(pushed(ch)))
       /\ m_available_lines' = lines_after(ch)
       /\ m_buf' = Smaller(EchoSize, m_buf + echoes(ch))
       /\ drift' = drift_after(ch)
       /\ UNCHANGED <<pc, got>>

-----------------------------------------------------------------------------
(* The interrupt of a UART may find a program inside read.  Between two    *)
(* iterations of its loop, or between the loop and m_available_lines--, it *)
(* is one more emit.  In the middle of pop, which loads and stores read_pos*)
(* and then count, or of m_available_lines--, the store undoes what the    *)
(* handler did to that variable after the load, or pop takes an item that  *)
(* the handler has dropped.  From then on the positions or a count are     *)
(* wrong, and the model stops (pc "torn").  What is echoed goes to the     *)
(* hardware.                                                               *)

irq_emit(key) ==
    LET ch == translate(key)
    IN /\ pc \notin {"kassert", "torn"} /\ uart
       /\ Emit(ch, oldest_after(pushed(ch)))
       /\ count' = Smaller(N, count + Len(pushed(ch)))
       /\ m_available_lines' = lines_after(ch)
       /\ drift' = drift_after(ch)
       /\ UNCHANGED <<m_buf, pc, got>>

\* Of the handler's pushes pop undoes those to read_pos, those to count, both
\* or neither, and it has read its item before or after them.
irq_during_pop(key) ==
    LET ch == translate(key)
        s == pushed(ch)
    IN /\ pc = "read" /\ got.n < call.size /\ ~is_empty /\ uart
       /\ s # <<>>
       /\ \E r \in {read_pos, oldest_after(s)},
             c \in {count, Smaller(N, count + Len(s))} :
            /\ c # count + Len(s)   \* or else the handler came first
            /\ Emit(ch, (r + 1) % N)
            /\ count' = c - 1
       /\ \E d \in {data, data'} :
            got' = [n |-> got.n + 1, newline |-> d[read_pos] = "nl"]
       /\ m_available_lines' = lines_after(ch)
       /\ pc' = "torn"
       /\ UNCHANGED <<m_buf, drift>>

irq_during_decrement(key) ==
    LET ch == translate(key)
    IN /\ pc = "newline" /\ m_available_lines > 0 /\ uart
       /\ flushes(ch)
       /\ Emit(ch, oldest_after(pushed(ch)))
       /\ count' = Smaller(N, count + Len(pushed(ch)))
       /\ m_available_lines' = m_available_lines - 1
       /\ pc' = "torn"
       /\ UNCHANGED <<m_buf, drift, got>>

-----------------------------------------------------------------------------
(* The calls of programs                                                   *)

can_read_any == ~is_empty

\* poll(F_POLLIN)
can_read == IF Canonical THEN m_available_lines > 0 ELSE ~is_empty

\* vfs_read polls until it can read, unless the file is non-blocking; then
\* TTY::read runs without yielding.
read_begin(size, blocking) ==
    /\ pc = "out" /\ (blocking => can_read)
    /\ pc' = "read" /\ got' = Nothing
    /\ call' = [size |-> size, blocking |-> blocking,
                phantom |-> drift > 0]
    /\ UNCHANGED terminal

\* One iteration: pop a byte; in canonical mode a newline is the last one.
read_pop ==
    /\ pc = "read" /\ got.n < call.size
    /\ pop
    /\ got' = [n |-> got.n + 1, newline |-> data[read_pos] = "nl"]
    /\ IF data[read_pos] # "nl" THEN UNCHANGED <<pc, drift>>
       ELSE IF Canonical THEN pc' = "newline" /\ UNCHANGED drift
       ELSE drift' = drift + 1 /\ UNCHANGED pc
    /\ UNCHANGED <<m_termios, m_linebuffer, m_available_lines, m_buf, uart, call>>

\* kassert(m_available_lines > 0), then the line is counted as read.
read_newline ==
    /\ pc = "newline"
    /\ IF m_available_lines > 0
         THEN /\ m_available_lines' = m_available_lines - 1
              /\ pc' = "returned"
         ELSE pc' = "kassert" /\ UNCHANGED m_available_lines
    /\ UNCHANGED <<ring, m_termios, m_linebuffer, m_buf, uart, drift, call, got>>

read_end ==
    /\ pc = "read" /\ (is_empty \/ got.n = call.size)
    /\ pc' = "returned"
    /\ UNCHANGED <<terminal, call, got>>

\* vfs_read hands the bytes to the program.
read_returns ==
    /\ pc = "returned"
    /\ pc' = "out" /\ got' = Nothing /\ call' = NoCall
    /\ UNCHANGED terminal

\* ioctl(TTYIO_TCSETATTR) only stores the settings.
tcsetattr(settings) ==
    /\ pc = "out"
    /\ m_termios' = settings
    /\ UNCHANGED <<ring, m_linebuffer, m_available_lines, m_buf, uart, drift,
                   reader>>

\* TTY::write, one byte of it: it never waits for the master.
tty_write(ch) ==
    /\ pc = "out" /\ ~uart
    /\ m_buf' = Smaller(EchoSize, m_buf + echo(ch))
    /\ UNCHANGED <<ring, m_termios, m_linebuffer, m_available_lines, uart,
                   drift, reader>>

\* PtyMaster::read, one byte of it.
master_read ==
    /\ pc = "out" /\ m_buf > 0
    /\ m_buf' = m_buf - 1
    /\ UNCHANGED <<ring, m_termios, m_linebuffer, m_available_lines, uart,
                   drift, reader>>

BlockingRead == \E size \in Sizes : read_begin(size, TRUE)

ReadNext == read_pop \/ read_newline \/ read_end \/ read_returns

Next ==
    \/ \E ch \in T : emit(ch) \/ tty_write(ch)
    \/ \E ch \in T :
         irq_emit(ch) \/ irq_during_pop(ch) \/ irq_during_decrement(ch)
    \/ BlockingRead
    \/ \E size \in Sizes : read_begin(size, FALSE)
    \/ ReadNext
    \/ \E settings \in Settings : tcsetattr(settings)
    \/ master_read

Spec == Init /\ [][Next]_vars

\* A read in progress goes on; a program that keeps reading gets its turn.
FairSpec == Spec /\ WF_vars(ReadNext) /\ SF_vars(BlockingRead)

-----------------------------------------------------------------------------
(* Properties                                                              *)

Newlines == newlines(count, <<>>)

\* An interrupt has come in the middle of an update; a pty has none.
Torn == pc = "torn" /\ uart

\* m_available_lines counts the newlines in the input buffer, except for
\* those that came in or went out in raw mode and those that overflow threw
\* away: an exact account for every mix of modes, erasures and overflows, of
\* a pty for ever and of a UART up to an interrupt that pushes in the middle
\* of pop or flushes a line in the middle of m_available_lines--.
LineAccounting ==
    Torn \/ m_available_lines =
      Newlines + drift + (IF pc \in {"newline", "kassert"} THEN 1 ELSE 0)

\* The positions and the count of the input buffer agree, up to such an
\* interrupt.
RingConsistent == Torn \/ write_pos = (read_pos + count) % N

IInv == TypeOK /\ LineAccounting /\ RingConsistent

\* A blocking read returns at least one byte, and in canonical mode a whole
\* line or a full buffer, unless more lines were counted than there are, or
\* an interrupt came in the middle of an update (pc "torn")
BlockingReadDelivers ==
    pc = "returned" /\ call.blocking /\ ~call.phantom =>
      /\ got.n > 0
      /\ Canonical => got.newline \/ got.n = call.size

\* A line that is complete is read by a program that keeps reading, unless
\* fewer lines are counted than there are (as after a spell of raw mode).
LineWakesReader ==
    (pc = "out" /\ Newlines > 0 /\ drift >= 0) ~> (pc = "read")
=============================================================================
