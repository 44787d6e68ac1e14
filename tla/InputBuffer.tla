----------------------------- MODULE InputBuffer -----------------------------
(***************************************************************************)
(* The buffer for the user's commands (input_buffer.c).  Every time select *)
(* finds the input ready, process_user_input reads what there is behind    *)
(* the bytes it already has, and hands out the complete lines one by one,  *)
(* moving the rest to the front after each.  Nothing ends the bytes but    *)
(* the NULs that happen to follow them.                                    *)
(***************************************************************************)
EXTENDS Integers, Sequences, FiniteSets

CONSTANTS
  USERBUF_SIZE,     \* (8191)
  UINT_RANGE,       \* the values of an unsigned int (2^32)
  Letter,           \* the bytes of lines
  NL, NUL,
  Burst,            \* what a read may return
  ManyLinesLimit    \* bound: how full the buffer gets when a read returns
                    \* bytes behind the end of a line

Byte == Letter \cup {NL, NUL}

ASSUME InputBufferAssumption ==
  /\ USERBUF_SIZE \in Nat \ {0}
  /\ UINT_RANGE \in Nat
  /\ 2 * USERBUF_SIZE < UINT_RANGE
  /\ ManyLinesLimit \in 0 .. USERBUF_SIZE
  /\ NL \notin Letter
  /\ NUL \notin Letter
  /\ NL # NUL
  /\ Burst \subseteq Seq(Letter \cup {NL})

VARIABLES
  pc,               \* "select", "lines" within the handler, or "exited"
  buf,              \* the bytes of the buffer, one more than USERBUF_SIZE
  cur,              \* how many of them were read and not yet handled
  line              \* the last line that was handled

vars == <<pc, buf, cur, line>>

Position == 0 .. USERBUF_SIZE

\* create_userbuf.
Init ==
  /\ pc = "select"
  /\ buf = [i \in Position |-> NUL]
  /\ cur = 0
  /\ line = <<>>

-----------------------------------------------------------------------------
BufferFull == cur >= USERBUF_SIZE - 1

\* "buffer full;  line too long!"
Exit ==
  /\ pc = "select"
  /\ BufferFull
  /\ pc' = "exited"
  /\ UNCHANGED <<buf, cur, line>>

OneLine(bytes) == \A k \in 1 .. Len(bytes) - 1 : bytes[k] # NL

\* read: a terminal returns one line at most, a pipe whatever there is.
Read(bytes) ==
  /\ pc = "select"
  /\ ~BufferFull
  /\ cur + Len(bytes) <= USERBUF_SIZE
  /\ OneLine(bytes) \/ cur + Len(bytes) <= ManyLinesLimit
  /\ pc' = "lines"
  /\ buf' = [i \in Position |-> IF i \in cur .. cur + Len(bytes) - 1
                                  THEN bytes[i - cur + 1]
                                  ELSE buf[i]]
  /\ cur' = cur + Len(bytes)
  /\ UNCHANGED line

\* strchr: the first end of line before the first NUL.
FindsLine(ret) ==
  /\ buf[ret] = NL
  /\ \A i \in 0 .. ret - 1 : buf[i] \notin {NL, NUL}

\* Faulty: the last bytes are not moved.
ShiftedShort(ret) ==
  [i \in Position |-> IF i + ret + 1 < cur - 1 THEN buf[i + ret + 1]
                      ELSE IF i = ret THEN NUL
                      ELSE buf[i]]

\* The end of the line is overwritten, and memmove moves what is behind it,
\* all of the buffer, to the front.
Shifted(ret) ==
  [i \in Position |-> IF i + ret + 1 <= USERBUF_SIZE THEN buf[i + ret + 1]
                      ELSE IF i = ret THEN NUL
                      ELSE buf[i]]

\* Faulty: the end of the line is not counted.
RemainingOneMore(ret) == (cur - ret) % UINT_RANGE

Remaining(ret) == (cur - (ret + 1)) % UINT_RANGE

HandleLine(ret) ==
  /\ pc = "lines"
  /\ FindsLine(ret)
  /\ line' = [k \in 1 .. ret |-> buf[k - 1]]
  /\ buf' = Shifted(ret)
  /\ cur' = Remaining(ret)
  /\ UNCHANGED pc

\* Faulty: the handler returns when the buffer is not empty.
NoLineKnown == \/ cur > 0
               \/ ~\E ret \in Position : FindsLine(ret)

NoLine == ~\E ret \in Position : FindsLine(ret)

Return ==
  /\ pc = "lines"
  /\ NoLine
  /\ pc' = "select"
  /\ UNCHANGED <<buf, cur, line>>

Next ==
  \/ Exit
  \/ \E bytes \in Burst : Read(bytes)
  \/ \E ret \in Position : HandleLine(ret)
  \/ Return

Spec == Init /\ [][Next]_vars

-----------------------------------------------------------------------------
Unread == [k \in 1 .. IF cur <= USERBUF_SIZE THEN cur ELSE 0 |-> buf[k - 1]]

TypeOK ==
  /\ pc \in {"select", "lines", "exited"}
  /\ buf \in [Position -> Byte]
  /\ buf[USERBUF_SIZE] = NUL
  /\ cur \in Position
  /\ line \in Seq(Letter)

\* The handler returns only when every complete line was handled, and the
\* program stops only over a line that fills the buffer and has no end.
NothingLeftBehind ==
  /\ pc # "lines" => \A k \in DOMAIN Unread : Unread[k] # NL
  /\ pc = "exited" => cur \in USERBUF_SIZE - 1 .. USERBUF_SIZE

(* The buffer implements the reader of lines.                              *)

LR == INSTANCE LineReader WITH unread <- Unread

\* Every line typed is handled once, complete and in order, and no line is
\* handled that was not typed, whatever bytes earlier lines left behind the
\* ones that count ("It should just work", PROJ2_HOWTO:44-45).
LinesDelivered == LR!Spec

=============================================================================
