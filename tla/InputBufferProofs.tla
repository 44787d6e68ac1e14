-------------------------- MODULE InputBufferProofs --------------------------
(***************************************************************************)
(* What holds of the input buffer for every size of it and for every       *)
(* input: its bytes stay well formed, no complete line waits when the      *)
(* handler returns, and lines are delivered whole and in order.            *)
(*                                                                         *)
(* The buffer is searched for an end of line over all its bytes up to the  *)
(* first NUL, not over those that count, and a shift leaves old bytes      *)
(* behind the ones that count.  What must be shown is that no old end of   *)
(* line stays among them.  That is true of a terminal, whose reads end     *)
(* with their only end of line, and of other input only while it fills the *)
(* buffer to half: HalfFull is the exact bound, and beyond it              *)
(* MCInputBufferPipe.cfg has the counterexample.                           *)
(***************************************************************************)
EXTENDS InputBuffer, SequenceTheorems, NaturalsOrder, TLAPS

\* What a read returns behind the end of a line stays in the first half.
HalfFull == 2 * ManyLinesLimit <= USERBUF_SIZE + 2

-----------------------------------------------------------------------------
(* The inductive invariant.                                                *)

\* No end of line is left behind the bytes that count.
NoStaleLine == \A i \in Position : i >= cur => buf[i] # NL

\* strchr does not stop before the end of the bytes that count.
NoEarlyEnd == \A i \in Position : i < cur => buf[i] # NUL

\* Outside of the handler no complete line waits.
NoLineWaits ==
  pc # "lines" => \A i \in Position : i < cur => buf[i] # NL

\* Within it there is one line, which ends where the bytes end, or the
\* bytes that count are in the first half.
OneLineOrHalf ==
  pc = "lines" => \/ cur <= ManyLinesLimit
                  \/ \A i \in Position : i < cur - 1 => buf[i] # NL

StopsWhenFull == pc = "exited" => BufferFull

IInv ==
  /\ TypeOK
  /\ NoStaleLine
  /\ NoEarlyEnd
  /\ NoLineWaits
  /\ OneLineOrHalf
  /\ StopsWhenFull

-----------------------------------------------------------------------------
(* Where strchr stops.                                                     *)

\* strchr stops at a byte that counts.
LEMMA FoundLineCounts ==
  ASSUME TypeOK, NoStaleLine, NEW ret \in Position, FindsLine(ret)
  PROVE  ret < cur
BY DEF TypeOK, NoStaleLine, FindsLine, Position

\* If a complete line waits, strchr finds the end of the first one.
LEMMA LineIsFound ==
  ASSUME TypeOK, NoEarlyEnd,
         NEW i \in Position, i < cur, buf[i] = NL
  PROVE  \E ret \in Position : FindsLine(ret)
<1> DEFINE Ends == {k \in Position : k < cur /\ buf[k] = NL}
<1>1. Ends \subseteq Nat /\ Ends # {}
  BY InputBufferAssumption DEF Position
<1>2. PICK ret \in Ends : \A k \in Ends : ret <= k
  BY <1>1, Smallest
<1>3. ret \in Position /\ buf[ret] = NL /\ ret < cur
  BY <1>2
<1>4. ASSUME NEW k \in 0 .. ret - 1
      PROVE  buf[k] \notin {NL, NUL}
  <2>1. k \in Position /\ k < cur /\ ~(ret <= k)
    BY <1>3, InputBufferAssumption DEF Position, TypeOK
  <2>2. buf[k] # NL
    BY <2>1, <1>2
  <2> QED
    BY <2>1, <2>2 DEF NoEarlyEnd
<1> QED
  BY <1>3, <1>4 DEF FindsLine

\* The bytes that count after a line was handled.
LEMMA RemainingCounts ==
  ASSUME TypeOK, NoStaleLine, NEW ret \in Position, FindsLine(ret)
  PROVE  Remaining(ret) = cur - (ret + 1)
<1>1. ret < cur
  BY FoundLineCounts
<1>2. /\ ret \in Nat /\ cur \in Nat /\ cur <= USERBUF_SIZE
      /\ UINT_RANGE \in Nat /\ 2 * USERBUF_SIZE < UINT_RANGE
      /\ USERBUF_SIZE \in Nat
  BY InputBufferAssumption DEF TypeOK, Position
<1> DEFINE left == cur - (ret + 1)
<1>3. left \in Nat /\ left < UINT_RANGE /\ UINT_RANGE > 0
  BY <1>1, <1>2
<1> HIDE DEF left
<1>4. left % UINT_RANGE = left
  BY <1>3, <1>2
<1> QED
  BY <1>4 DEF left, Remaining

-----------------------------------------------------------------------------
(* The initial state and the steps.                                        *)

\* create_userbuf leaves an empty buffer.
LEMMA InitInv ==
  ASSUME Init
  PROVE  IInv
<1>1. TypeOK
  BY InputBufferAssumption, EmptySeq DEF Init, TypeOK, Position, Byte
<1>2. NoStaleLine /\ NoEarlyEnd /\ NoLineWaits /\ OneLineOrHalf /\ StopsWhenFull
  BY InputBufferAssumption
  DEF Init, NoStaleLine, NoEarlyEnd, NoLineWaits, OneLineOrHalf, StopsWhenFull,
      Position
<1> QED
  BY <1>1, <1>2 DEF IInv

\* The program stops.
LEMMA ExitInv ==
  ASSUME IInv, Exit
  PROVE  IInv'
BY DEF IInv, Exit, TypeOK, NoStaleLine, NoEarlyEnd, NoLineWaits, OneLineOrHalf,
       StopsWhenFull, BufferFull

\* What a read leaves in the buffer: the new bytes behind the old ones.
LEMMA ReadBytes ==
  ASSUME TypeOK, NEW bytes \in Burst, Read(bytes)
  PROVE  /\ Len(bytes) \in Nat
         /\ cur' = cur + Len(bytes) /\ cur' <= USERBUF_SIZE
         /\ \A k \in 1 .. Len(bytes) : bytes[k] \in Letter \cup {NL}
         /\ \A i \in Position :
              buf'[i] = IF cur <= i /\ i < cur' THEN bytes[i - cur + 1] ELSE buf[i]
<1>1. bytes \in Seq(Letter \cup {NL})
  BY InputBufferAssumption
<1>2. /\ Len(bytes) \in Nat
      /\ \A k \in 1 .. Len(bytes) : bytes[k] \in Letter \cup {NL}
  BY <1>1, LenProperties, ElementOfSeq
<1>3. cur \in Nat /\ USERBUF_SIZE \in Nat
  BY InputBufferAssumption DEF TypeOK, Position
<1>4. cur' = cur + Len(bytes) /\ cur' <= USERBUF_SIZE
  BY DEF Read
<1>5. ASSUME NEW i \in Position
      PROVE  buf'[i] = IF cur <= i /\ i < cur' THEN bytes[i - cur + 1] ELSE buf[i]
  <2>1. i \in cur .. cur + Len(bytes) - 1 <=> cur <= i /\ i < cur'
    BY <1>2, <1>3, <1>4 DEF Position
  <2>2. buf'[i] = IF i \in cur .. cur + Len(bytes) - 1
                    THEN bytes[i - cur + 1] ELSE buf[i]
    BY DEF Read
  <2> QED
    BY <2>1, <2>2
<1> QED
  BY <1>2, <1>4, <1>5

\* select finds the input ready.
LEMMA ReadInv ==
  ASSUME IInv, NEW bytes \in Burst, Read(bytes)
  PROVE  IInv'
<1> USE DEF IInv
<1>1. TypeOK /\ cur \in Nat /\ USERBUF_SIZE \in Nat
  BY InputBufferAssumption DEF TypeOK, Position
<1> DEFINE n == Len(bytes)
<1>2. /\ n \in Nat
      /\ cur' = cur + n /\ cur' <= USERBUF_SIZE
      /\ \A k \in 1 .. n : bytes[k] \in Letter \cup {NL}
      /\ \A i \in Position :
           buf'[i] = IF cur <= i /\ i < cur' THEN bytes[i - cur + 1] ELSE buf[i]
  BY <1>1, ReadBytes
<1>3. pc = "select" /\ pc' = "lines" /\ line' = line
      /\ (OneLine(bytes) \/ cur' <= ManyLinesLimit)
  BY DEF Read
<1>4. buf' = [i \in Position |-> IF i \in cur .. cur + n - 1
                                   THEN bytes[i - cur + 1] ELSE buf[i]]
  BY DEF Read
<1> HIDE DEF n
<1>5. ASSUME NEW i \in Position, cur <= i, i < cur'
      PROVE  /\ i - cur + 1 \in 1 .. n
             /\ buf'[i] = bytes[i - cur + 1]
             /\ buf'[i] \in Letter \cup {NL}
  <2>1. i - cur + 1 \in 1 .. n
    BY <1>1, <1>2, <1>5 DEF Position
  <2> QED
    BY <2>1, <1>2, <1>5
<1>6. ASSUME NEW i \in Position, ~(cur <= i /\ i < cur')
      PROVE  buf'[i] = buf[i]
  BY <1>2, <1>6
<1>7. TypeOK'
  <2>1. \A i \in Position : buf'[i] \in Byte
    BY <1>5, <1>6 DEF TypeOK, Byte
  <2>2. buf' \in [Position -> Byte]
    BY <1>4, <2>1
  <2>3. buf'[USERBUF_SIZE] = NUL
    BY <1>1, <1>2, <1>6 DEF TypeOK, Position
  <2>4. cur' \in Position
    BY <1>1, <1>2 DEF Position
  <2> QED
    BY <1>3, <2>2, <2>3, <2>4 DEF TypeOK
<1>8. NoStaleLine'
  <2> SUFFICES ASSUME NEW i \in Position, i >= cur'
               PROVE  buf'[i] # NL
    BY DEF NoStaleLine
  <2>1. i >= cur /\ ~(i < cur')
    BY <1>1, <1>2 DEF Position
  <2> QED
    BY <1>6, <2>1 DEF NoStaleLine
<1>9. NoEarlyEnd'
  <2> SUFFICES ASSUME NEW i \in Position, i < cur'
               PROVE  buf'[i] # NUL
    BY DEF NoEarlyEnd
  <2>1. CASE cur <= i
    BY <1>5, <2>1, InputBufferAssumption
  <2>2. CASE i < cur
    <3>1. buf'[i] = buf[i]
      BY <1>1, <1>6, <2>2 DEF Position
    <3> QED
      BY <2>2, <3>1 DEF NoEarlyEnd
  <2> QED
    BY <1>1, <2>1, <2>2 DEF Position
<1>10. OneLineOrHalf'
  <2> SUFFICES ASSUME OneLine(bytes), NEW i \in Position, i < cur' - 1
               PROVE  buf'[i] # NL
    BY <1>3 DEF OneLineOrHalf
  <2>1. CASE cur <= i
    <3>1. i - cur + 1 \in 1 .. n - 1
      BY <1>1, <1>2, <2>1 DEF Position
    <3>2. buf'[i] = bytes[i - cur + 1]
      BY <1>1, <1>2, <1>5, <2>1 DEF Position
    <3> QED
      BY <3>1, <3>2 DEF OneLine, n
  <2>2. CASE i < cur
    <3>1. buf'[i] = buf[i]
      BY <1>1, <1>6, <2>2 DEF Position
    <3> QED
      BY <1>3, <2>2, <3>1 DEF NoLineWaits
  <2> QED
    BY <1>1, <2>1, <2>2 DEF Position
<1>11. NoLineWaits' /\ StopsWhenFull'
  BY <1>3 DEF NoLineWaits, StopsWhenFull
<1> QED
  BY <1>7, <1>8, <1>9, <1>10, <1>11

\* What the shift leaves in the buffer.
LEMMA ShiftedBytes ==
  ASSUME NEW ret \in Position, HandleLine(ret), NEW i \in Position
  PROVE  /\ i + ret + 1 <= USERBUF_SIZE => buf'[i] = buf[i + ret + 1]
         /\ i + ret + 1 > USERBUF_SIZE /\ i = ret => buf'[i] = NUL
         /\ i + ret + 1 > USERBUF_SIZE /\ i # ret => buf'[i] = buf[i]
<1>1. buf'[i] = IF i + ret + 1 <= USERBUF_SIZE THEN buf[i + ret + 1]
                ELSE IF i = ret THEN NUL ELSE buf[i]
  BY DEF HandleLine, Shifted
<1>2. i + ret + 1 > USERBUF_SIZE => ~(i + ret + 1 <= USERBUF_SIZE)
  BY InputBufferAssumption DEF Position
<1> QED
  BY <1>1, <1>2

\* A line is handled and the rest moved to the front.
LEMMA HandleLineInv ==
  ASSUME IInv, HalfFull, NEW ret \in Position, HandleLine(ret)
  PROVE  IInv'
<1> USE DEF IInv
<1>1. TypeOK /\ cur \in Nat /\ USERBUF_SIZE \in Nat /\ ManyLinesLimit \in Nat
      /\ cur <= USERBUF_SIZE /\ ret \in Nat
  BY InputBufferAssumption DEF TypeOK, Position
<1>2. /\ pc = "lines" /\ pc' = "lines"
      /\ buf[ret] = NL
      /\ \A i \in Position : i < ret => buf[i] \notin {NL, NUL}
  <2>1. \A i \in Position : i < ret => i \in 0 .. ret - 1
    BY <1>1 DEF Position
  <2> QED
    BY <2>1 DEF HandleLine, FindsLine
<1>3. ret < cur
  BY FoundLineCounts DEF HandleLine
<1>4. cur' = cur - (ret + 1)
  BY RemainingCounts DEF HandleLine
<1>5. ASSUME NEW i \in Position, i + ret + 1 <= USERBUF_SIZE
      PROVE  i + ret + 1 \in Position /\ buf'[i] = buf[i + ret + 1]
  BY <1>1, <1>5, ShiftedBytes DEF Position
<1>6. ASSUME NEW i \in Position, i + ret + 1 > USERBUF_SIZE
      PROVE  buf'[i] = IF i = ret THEN NUL ELSE buf[i]
  BY <1>6, ShiftedBytes
<1>7. TypeOK'
  <2>1. ASSUME NEW i \in Position
        PROVE  buf'[i] \in Byte
    <3>1. CASE i + ret + 1 <= USERBUF_SIZE
      BY <1>5, <3>1 DEF TypeOK
    <3>2. CASE i + ret + 1 > USERBUF_SIZE
      BY <1>6, <3>2 DEF TypeOK, Byte
    <3> QED
      BY <1>1, <3>1, <3>2 DEF Position
  <2>2. buf' \in [Position -> Byte]
    BY <2>1 DEF HandleLine, Shifted
  <2>3. buf'[USERBUF_SIZE] = NUL
    <3>1. USERBUF_SIZE \in Position /\ USERBUF_SIZE + ret + 1 > USERBUF_SIZE
      BY <1>1 DEF Position
    <3> QED
      BY <1>6, <3>1 DEF TypeOK
  <2>4. cur' \in Position
    BY <1>1, <1>3, <1>4 DEF Position
  <2>5. line' \in Seq(Letter)
    <3>1. line' = [k \in 1 .. ret |-> buf[k - 1]]
      BY DEF HandleLine
    <3>2. ASSUME NEW k \in 1 .. ret
          PROVE  buf[k - 1] \in Letter
      <4>1. k - 1 \in Position /\ k - 1 < ret
        BY <1>1, <1>3 DEF Position
      <4> QED
        BY <1>1, <1>2, <4>1 DEF TypeOK, Byte
    <3>3. line' \in [1 .. ret -> Letter]
      BY <3>1, <3>2
    <3> QED
      BY <1>1, <3>3, SeqDef
  <2> QED
    BY <1>2, <2>2, <2>3, <2>4, <2>5 DEF TypeOK
<1>8. ASSUME NEW i \in Position, i + ret + 1 > USERBUF_SIZE, i # ret
      PROVE  buf[i] # NL
  (* It would be an end of line behind the one found, so the bytes that    *)
  (* count were in the first half, and it is not as far behind as that.    *)
  <2> SUFFICES ASSUME buf[i] = NL
               PROVE  FALSE
    OBVIOUS
  <2>1. i < cur
    BY <1>1 DEF NoStaleLine, Position
  <2>2. ~(i < ret)
    BY <1>2
  <2>3. ret \in Position /\ ret < cur - 1
    BY <1>1, <1>8, <2>1, <2>2 DEF Position
  <2>4. cur <= ManyLinesLimit
    BY <1>2, <2>3 DEF OneLineOrHalf
  <2>5. 2 * ManyLinesLimit <= USERBUF_SIZE + 2
    BY DEF HalfFull
  <2> QED
    BY <1>1, <1>8, <2>1, <2>3, <2>4, <2>5 DEF Position
<1>9. NoStaleLine'
  <2> SUFFICES ASSUME NEW i \in Position, i >= cur'
               PROVE  buf'[i] # NL
    BY DEF NoStaleLine
  <2>1. CASE i + ret + 1 <= USERBUF_SIZE
    <3>1. i + ret + 1 >= cur
      BY <1>1, <1>4 DEF Position
    <3> QED
      BY <1>5, <2>1, <3>1 DEF NoStaleLine
  <2>2. CASE i + ret + 1 > USERBUF_SIZE
    BY <1>6, <1>8, <2>2, InputBufferAssumption
  <2> QED
    BY <1>1, <2>1, <2>2 DEF Position
<1>10. NoEarlyEnd'
  <2> SUFFICES ASSUME NEW i \in Position, i < cur'
               PROVE  buf'[i] # NUL
    BY DEF NoEarlyEnd
  <2>1. i + ret + 1 < cur /\ i + ret + 1 <= USERBUF_SIZE
    BY <1>1, <1>4 DEF Position
  <2> QED
    BY <1>5, <2>1 DEF NoEarlyEnd
<1>11. OneLineOrHalf'
  <2>1. CASE cur <= ManyLinesLimit
    BY <1>1, <1>4, <2>1 DEF OneLineOrHalf
  <2>2. CASE \A i \in Position : i < cur - 1 => buf[i] # NL
    <3>1. ~(ret < cur - 1)
      BY <1>2, <2>2
    <3>2. cur' = 0
      BY <1>1, <1>3, <1>4, <3>1
    <3> QED
      BY <1>1, <3>2 DEF OneLineOrHalf
  <2> QED
    BY <1>2, <2>1, <2>2 DEF OneLineOrHalf
<1>12. NoLineWaits' /\ StopsWhenFull'
  BY <1>2 DEF NoLineWaits, StopsWhenFull
<1> QED
  BY <1>7, <1>9, <1>10, <1>11, <1>12

\* The handler returns.
LEMMA ReturnInv ==
  ASSUME IInv, Return
  PROVE  IInv'
<1>1. TypeOK' /\ NoStaleLine' /\ NoEarlyEnd' /\ OneLineOrHalf' /\ StopsWhenFull'
  BY DEF IInv, Return, TypeOK, NoStaleLine, NoEarlyEnd, OneLineOrHalf,
         StopsWhenFull
<1>2. \A i \in Position : i < cur => buf[i] # NL
  BY LineIsFound DEF IInv, Return, NoLine
<1>3. NoLineWaits'
  BY <1>2 DEF Return, NoLineWaits
<1> QED
  BY <1>1, <1>3 DEF IInv

\* The bytes of the buffer and the count of them that wait stay well formed,
\* whatever is read, as long as HalfFull bounds what does not come line by
\* line.
THEOREM Invariance == HalfFull => (Spec => []IInv)
<1> SUFFICES ASSUME HalfFull
             PROVE  Spec => []IInv
  OBVIOUS
<1>1. Init => IInv
  BY InitInv
<1>2. IInv /\ [Next]_vars => IInv'
  <2> SUFFICES ASSUME IInv, [Next]_vars
               PROVE  IInv'
    OBVIOUS
  <2>1. CASE Exit
    BY <2>1, ExitInv
  <2>2. ASSUME NEW bytes \in Burst, Read(bytes)
        PROVE  IInv'
    BY <2>2, ReadInv
  <2>3. ASSUME NEW ret \in Position, HandleLine(ret)
        PROVE  IInv'
    BY <2>3, HandleLineInv
  <2>4. CASE Return
    BY <2>4, ReturnInv
  <2>5. CASE UNCHANGED vars
    BY <2>5 DEF vars, IInv, TypeOK, NoStaleLine, NoEarlyEnd, NoLineWaits,
                OneLineOrHalf, StopsWhenFull, BufferFull
  <2> QED
    BY <2>1, <2>2, <2>3, <2>4, <2>5 DEF Next
<1> QED
  BY <1>1, <1>2, PTL DEF Spec

\* process_user_input keeps cur within the buffer and the NUL at its end.
THEOREM TypeCorrect == HalfFull => (Spec => []TypeOK)
<1>1. IInv => TypeOK
  BY DEF IInv
<1> QED
  BY <1>1, Invariance, PTL

-----------------------------------------------------------------------------
(* The bytes that wait, as the reader of lines sees them.                  *)

UnreadIsBuf ==
  /\ Unread \in Seq(Byte)
  /\ Len(Unread) = cur
  /\ DOMAIN Unread = 1 .. cur
  /\ \A k \in 1 .. cur : k - 1 \in Position /\ Unread[k] = buf[k - 1]

\* They are the first cur bytes of the buffer.
LEMMA UnreadBytes == TypeOK => UnreadIsBuf
<1> SUFFICES ASSUME TypeOK
             PROVE  UnreadIsBuf
  OBVIOUS
<1>1. cur \in Nat /\ USERBUF_SIZE \in Nat /\ cur <= USERBUF_SIZE
  BY InputBufferAssumption DEF TypeOK, Position
<1>2. Unread = [k \in 1 .. cur |-> buf[k - 1]]
  BY <1>1 DEF Unread
<1>3. \A k \in 1 .. cur : k - 1 \in Position
  BY <1>1 DEF Position
<1>4. Unread \in [1 .. cur -> Byte]
  BY <1>2, <1>3 DEF TypeOK
<1>5. Unread \in Seq(Byte)
  BY <1>1, <1>4, SeqDef
<1>6. Len(Unread) = cur
  BY <1>1, <1>4, <1>5, LenProperties
<1> QED
  BY <1>2, <1>3, <1>5, <1>6 DEF UnreadIsBuf

\* When process_user_input has returned no complete line waits in the buffer,
\* and the program stops only over a line that fills it.
THEOREM NothingIsLeft == HalfFull => (Spec => []NothingLeftBehind)
<1>1. IInv => NothingLeftBehind
  <2> SUFFICES ASSUME IInv
               PROVE  NothingLeftBehind
    OBVIOUS
  <2>1. TypeOK /\ cur \in Nat /\ USERBUF_SIZE \in Nat /\ cur <= USERBUF_SIZE
    BY InputBufferAssumption DEF IInv, TypeOK, Position
  <2>2. ASSUME pc # "lines", NEW k \in DOMAIN Unread
        PROVE  Unread[k] # NL
    <3>1. k \in 1 .. cur /\ k - 1 \in Position /\ Unread[k] = buf[k - 1]
      BY <2>1, <2>2, UnreadBytes DEF UnreadIsBuf
    <3>2. k - 1 < cur
      BY <2>1, <3>1
    <3> QED
      BY <2>2, <3>1, <3>2 DEF IInv, NoLineWaits
  <2>3. pc = "exited" => cur \in USERBUF_SIZE - 1 .. USERBUF_SIZE
    BY <2>1 DEF IInv, StopsWhenFull, BufferFull
  <2> QED
    BY <2>2, <2>3 DEF NothingLeftBehind
<1> QED
  BY <1>1, Invariance, PTL

\* A read appends to the bytes that wait.
LEMMA ReadRefined ==
  ASSUME IInv, IInv', NEW bytes \in Burst, Read(bytes)
  PROVE  LR!Receive
<1>1. TypeOK /\ cur \in Nat
  BY DEF IInv, TypeOK, Position
<1>2. UnreadIsBuf
  BY <1>1, UnreadBytes
<1>3. UnreadIsBuf'
  <2>1. TypeOK' => UnreadIsBuf'
    BY UnreadBytes, PTL
  <2> QED
    BY <2>1 DEF IInv
<1>4. /\ cur' \in Nat /\ cur <= cur'
      /\ \A i \in Position : i < cur => buf'[i] = buf[i]
  <2>1. /\ Len(bytes) \in Nat /\ cur' = cur + Len(bytes)
        /\ \A i \in Position :
             buf'[i] = IF cur <= i /\ i < cur' THEN bytes[i - cur + 1]
                       ELSE buf[i]
    BY <1>1, ReadBytes
  <2> QED
    BY <1>1, <2>1 DEF Position
<1> DEFINE old == Unread
           new == Unread'
           part == SubSeq(new, 1, cur)
<1>5. /\ part \in Seq(Byte)
      /\ Len(part) = cur
      /\ \A k \in 1 .. cur : part[k] = new[k]
  <2>1. \A k \in 1 .. cur : new[k] \in Byte
    BY <1>1, <1>3, <1>4, ElementOfSeq DEF UnreadIsBuf
  <2>2. 1 \in Int /\ cur \in Int
    BY <1>1
  <2> HIDE DEF new
  <2>3. /\ part \in Seq(Byte)
        /\ Len(part) = IF 1 <= cur THEN cur - 1 + 1 ELSE 0
        /\ \A k \in 1 .. cur - 1 + 1 : part[k] = new[1 + k - 1]
    BY <2>1, <2>2, SubSeqProperties
  <2> HIDE DEF part
  <2> QED
    BY <1>1, <2>3
<1>6. \A k \in 1 .. cur : new[k] = old[k]
  <2> SUFFICES ASSUME NEW k \in 1 .. cur
               PROVE  new[k] = old[k]
    OBVIOUS
  <2>1. k \in 1 .. cur' /\ k - 1 < cur
    BY <1>1, <1>4
  <2> QED
    BY <1>2, <1>3, <1>4, <2>1 DEF UnreadIsBuf
<1>7. old = part
  <2> HIDE DEF old, new, part
  <2> QED
    BY <1>2, <1>5, <1>6, SeqEqual DEF UnreadIsBuf, old
<1>8. LR!IsPrefix(Unread, Unread')
  BY <1>2, <1>3, <1>4, <1>7 DEF LR!IsPrefix, UnreadIsBuf
<1> QED
  BY <1>8 DEF LR!Receive, Read

\* A line that is handled is the first one that waits, and the others stay.
LEMMA HandleLineRefined ==
  ASSUME IInv, IInv', NEW ret \in Position, HandleLine(ret)
  PROVE  LR!Deliver
<1>1. /\ TypeOK /\ NoStaleLine
      /\ cur \in Nat /\ USERBUF_SIZE \in Nat /\ cur <= USERBUF_SIZE
      /\ ret \in Nat
  BY InputBufferAssumption DEF IInv, TypeOK, Position
<1>2. UnreadIsBuf
  BY <1>1, UnreadBytes
<1>3. UnreadIsBuf'
  <2>1. TypeOK' => UnreadIsBuf'
    BY UnreadBytes, PTL
  <2> QED
    BY <2>1 DEF IInv
<1>4. ret < cur /\ cur' = cur - (ret + 1)
  BY <1>1, FoundLineCounts, RemainingCounts DEF HandleLine
<1> DEFINE old == Unread
           new == Unread'
           first == SubSeq(old, 1, ret)
           rest == SubSeq(old, ret + 2, cur)
<1>5. /\ \A k \in 1 .. cur : old[k] \in Byte
      /\ \A k \in 1 .. cur : old[k] = buf[k - 1]
  BY <1>2, ElementOfSeq DEF UnreadIsBuf
<1>6. /\ ret + 1 \in DOMAIN old
      /\ old[ret + 1] = NL
      /\ \A m \in 1 .. ret : old[m] # NL
  <2>1. ret + 1 \in 1 .. cur /\ ret + 1 - 1 = ret
    BY <1>1, <1>4
  <2>2. old[ret + 1] = buf[ret]
    <3> HIDE DEF old
    <3>1. old[ret + 1] = buf[ret + 1 - 1]
      BY <1>1, <1>5, <2>1
    <3> QED
      BY <2>1, <3>1
  <2>3. ASSUME NEW m \in 1 .. ret
        PROVE  old[m] # NL
    <3>1. m \in 1 .. cur /\ m - 1 \in 0 .. ret - 1
      BY <1>1, <1>4
    <3>2. old[m] = buf[m - 1]
      BY <1>2, <3>1 DEF UnreadIsBuf
    <3> QED
      BY <3>1, <3>2 DEF HandleLine, FindsLine
  <2> QED
    BY <1>2, <2>1, <2>2, <2>3 DEF HandleLine, FindsLine, UnreadIsBuf
<1>7. line' = first
  <2>1. /\ first \in Seq(Byte)
        /\ Len(first) = ret
        /\ \A k \in 1 .. ret : first[k] = old[k]
    <3>1. \A k \in 1 .. ret : old[k] \in Byte
      BY <1>1, <1>4, <1>5
    <3>2. 1 \in Int /\ ret \in Int
      BY <1>1
    <3> HIDE DEF old
    <3>3. /\ first \in Seq(Byte)
          /\ Len(first) = IF 1 <= ret THEN ret - 1 + 1 ELSE 0
          /\ \A k \in 1 .. ret - 1 + 1 : first[k] = old[1 + k - 1]
      BY <3>1, <3>2, SubSeqProperties
    <3> HIDE DEF first
    <3> QED
      BY <1>1, <3>3
  <2>2. line' = [k \in 1 .. ret |-> buf[k - 1]]
    BY DEF HandleLine
  <2>3. \A k \in 1 .. ret : line'[k] = old[k] /\ line'[k] \in Byte
    BY <1>1, <1>2, <1>4, <1>5, <2>2 DEF UnreadIsBuf
  <2>4. line' \in [1 .. ret -> Byte]
    BY <2>2, <2>3
  <2>5. line' \in Seq(Byte)
    BY <1>1, <2>4, SeqDef
  <2>6. Len(line') = ret
    BY <1>1, <2>4, <2>5, LenProperties
  <2> HIDE DEF first, old
  <2> QED
    BY <2>1, <2>3, <2>5, <2>6, SeqEqual
<1>8. new = rest
  <2>1. /\ rest \in Seq(Byte)
        /\ Len(rest) = cur'
        /\ \A k \in 1 .. cur' : rest[k] = old[k + ret + 1]
    <3>1. \A k \in ret + 2 .. cur : old[k] \in Byte
      BY <1>1, <1>5
    <3>2. ret + 2 \in Int /\ cur \in Int
      BY <1>1
    <3> HIDE DEF old
    <3>3. /\ rest \in Seq(Byte)
          /\ Len(rest) = IF ret + 2 <= cur THEN cur - (ret + 2) + 1 ELSE 0
          /\ \A k \in 1 .. cur - (ret + 2) + 1 :
               rest[k] = old[ret + 2 + k - 1]
      BY <3>1, <3>2, SubSeqProperties
    <3> HIDE DEF rest
    <3> QED
      BY <1>1, <1>4, <3>3
  <2>2. ASSUME NEW k \in 1 .. cur'
        PROVE  new[k] = old[k + ret + 1]
    <3>1. /\ k \in Int
          /\ k - 1 \in Position /\ new[k] = buf'[k - 1]
      BY <1>3 DEF UnreadIsBuf
    <3>2. k + ret + 1 \in 1 .. cur /\ k - 1 + ret + 1 <= USERBUF_SIZE
      BY <1>1, <1>4
    <3>3. buf'[k - 1] = buf[k - 1 + ret + 1]
      BY <3>1, <3>2, ShiftedBytes
    <3>4. k - 1 + ret + 1 = k + ret + 1 - 1
      BY <1>1, <3>1
    <3> HIDE DEF old
    <3>5. old[k + ret + 1] = buf[k + ret + 1 - 1]
      BY <1>1, <1>5, <3>1, <3>2
    <3> QED
      BY <3>1, <3>3, <3>4, <3>5
  <2>3. new \in Seq(Byte) /\ Len(new) = cur'
    BY <1>3 DEF UnreadIsBuf
  <2> HIDE DEF new, rest, old
  <2> QED
    BY <2>1, <2>2, <2>3, SeqEqual
<1>9. PICK n \in DOMAIN Unread : n = ret + 1
  BY <1>6
<1>10. n - 1 = ret /\ n + 1 = ret + 2 /\ Len(Unread) = cur
  BY <1>1, <1>2, <1>9 DEF UnreadIsBuf
<1>11. /\ Unread[n] = NL
       /\ \A m \in 1 .. n - 1 : Unread[m] # NL
       /\ line' = SubSeq(Unread, 1, n - 1)
       /\ Unread' = SubSeq(Unread, n + 1, Len(Unread))
  BY <1>6, <1>7, <1>8, <1>9, <1>10
<1> QED
  BY <1>11 DEF LR!Deliver

\* The handler that scans, shifts and counts delivers every line that was
\* typed once, whole and in order, and no other: it implements the reader of
\* lines.
THEOREM LinesAreDelivered == HalfFull => (Spec => LinesDelivered)
<1> SUFFICES ASSUME HalfFull
             PROVE  Spec => LinesDelivered
  OBVIOUS
<1>1. Init => LR!Init
  <2> SUFFICES ASSUME Init
               PROVE  Unread = <<>>
    BY DEF Init, LR!Init
  <2>1. UnreadIsBuf /\ cur = 0
    BY InitInv, UnreadBytes DEF IInv, Init
  <2> QED
    BY <2>1, EmptySeq, SeqEqual DEF UnreadIsBuf
<1>2. IInv /\ IInv' /\ [Next]_vars => [LR!Next]_(LR!vars)
  <2> SUFFICES ASSUME IInv, IInv', [Next]_vars
               PROVE  LR!Next \/ UNCHANGED LR!vars
    OBVIOUS
  <2>1. CASE Exit
    BY <2>1 DEF Exit, Unread, LR!vars
  <2>2. ASSUME NEW bytes \in Burst, Read(bytes)
        PROVE  LR!Next
    BY <2>2, ReadRefined DEF LR!Next
  <2>3. ASSUME NEW ret \in Position, HandleLine(ret)
        PROVE  LR!Next
    BY <2>3, HandleLineRefined DEF LR!Next
  <2>4. CASE Return
    BY <2>4 DEF Return, Unread, LR!vars
  <2>5. CASE UNCHANGED vars
    BY <2>5 DEF vars, Unread, LR!vars
  <2> QED
    BY <2>1, <2>2, <2>3, <2>4, <2>5 DEF Next
<1> QED
  BY <1>1, <1>2, Invariance, PTL DEF Spec, LinesDelivered, LR!Spec

=============================================================================
