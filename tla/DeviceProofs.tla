--------------------------- MODULE DeviceProofs -----------------------------
(***************************************************************************)
(* Traps, keyboard and screen.                                             *)
(*                                                                         *)
(* TrapFrame: trap gets the right frame for every vector with a stub of    *)
(* its own, and a page fault is over where it began, at any stack depth,   *)
(* for any contents of the stack and the registers, whichever vectors the  *)
(* CPU pushes an error code for.                                           *)
(*                                                                         *)
(* Keyboard and Console: every key press is read as the character that was *)
(* meant, the machine reboots only when it is told to, and the ring buffer *)
(* of the console is a queue; for every set of keys, every size of the     *)
(* buffer and any amount of input.                                         *)
(*                                                                         *)
(* Readline: the line that is edited on the screen is the one in the       *)
(* buffer, and nothing is written past either, for every size of them.     *)
(***************************************************************************)
EXTENDS TrapFrame, Console, Readline, NumberProofs, FiniteSetTheorems, SequenceTheorems

----------------------------------------------------------------------------
\* Pushing words.

\* The word k places below the top.
Top(s, k) == s[Len(s) - k]

\* r is s with n words pushed on it.
Above(r, s, n) == Len(r) = Len(s) + n /\ \A i \in 1 .. Len(s) : r[i] = s[i]

PushW(s, a) == s \o <<a>>

PushWords(s, a, b, c) == s \o <<a, b, c>>

LEMMA PushOne ==
  ASSUME NEW T, NEW s \in Seq(T), NEW a \in T, NEW r, r = PushW(s, a)
  PROVE  r \in Seq(T) /\ Above(r, s, 1) /\ Top(r, 0) = a
<1>1. r \in Seq(T) /\ Len(r) = Len(s) + 1
  BY DEF PushW
<1>2. \A i \in 1 .. Len(s) : r[i] = s[i]
  BY DEF PushW
<1>3. r[Len(s) + 1] = a
  BY DEF PushW
<1>4. Len(r) - 0 = Len(s) + 1
  BY <1>1
<1> QED
  BY <1>1, <1>2, <1>3, <1>4 DEF Above, Top

LEMMA PushThree ==
  ASSUME NEW T, NEW s \in Seq(T), NEW a \in T, NEW b \in T, NEW c \in T,
         NEW r, r = PushWords(s, a, b, c)
  PROVE  r \in Seq(T) /\ Above(r, s, 3) /\ Top(r, 0) = c /\ Top(r, 1) = b /\ Top(r, 2) = a
<1>0. Len(s) \in Nat
  OBVIOUS
<1>1. r \in Seq(T) /\ Len(r) = Len(s) + 3
  BY DEF PushWords
<1>2. \A i \in 1 .. Len(s) : r[i] = s[i]
  BY DEF PushWords
<1>3. r[Len(s) + 1] = a /\ r[Len(s) + 2] = b /\ r[Len(s) + 3] = c
  BY DEF PushWords
<1>4. Len(r) - 0 = Len(s) + 3 /\ Len(r) - 1 = Len(s) + 2 /\ Len(r) - 2 = Len(s) + 1
  BY <1>0, <1>1
<1> QED
  BY <1>1, <1>2, <1>3, <1>4 DEF Above, Top

\* The words that were there are n places further down.
LEMMA TopMoves ==
  ASSUME NEW s, NEW r, NEW n \in Nat, NEW k \in Nat,
         Len(s) \in Nat, k < Len(s), Above(r, s, n)
  PROVE  Top(r, k + n) = Top(s, k)
<1>1. Len(s) - k \in 1 .. Len(s) /\ Len(r) - (k + n) = Len(s) - k
  BY DEF Above
<1> QED
  BY <1>1 DEF Above, Top

LEMMA AboveAbove ==
  ASSUME NEW T, NEW s \in Seq(T), NEW q \in Seq(T), NEW r \in Seq(T), NEW m \in Nat, NEW n \in Nat,
         Above(q, s, m), Above(r, q, n)
  PROVE  Above(r, s, m + n)
<1>1. Len(s) \in Nat /\ Len(q) = Len(s) + m /\ Len(r) = Len(q) + n
  BY DEF Above
<1>2. \A i \in 1 .. Len(s) : i \in 1 .. Len(q)
  BY <1>1
<1> QED
  BY <1>1, <1>2 DEF Above

\* Dropping words leaves those below them.
LEMMA DropFacts ==
  ASSUME NEW T, NEW s \in Seq(T), NEW n \in 0 .. Len(s), NEW r, r = SubSeq(s, 1, n)
  PROVE  r \in Seq(T) /\ Len(r) = n /\ \A i \in 1 .. n : r[i] = s[i]
  OBVIOUS

LEMMA PrefixFacts ==
  ASSUME NEW T, NEW s \in Seq(T), NEW r \in Seq(T), NEW n \in Nat, Above(r, s, n)
  PROVE  IsPrefix(s, r)
<1>1. Len(s) \in Nat /\ Len(r) = Len(s) + n /\ Len(s) <= Len(r)
  BY DEF Above
<1> DEFINE a == SubSeq(s, 1, Len(s))
           b == SubSeq(r, 1, Len(s))
<1>2. a \in Seq(T) /\ Len(a) = Len(s) /\ \A i \in 1 .. Len(s) : a[i] = s[i]
  BY <1>1
<1>3. b \in Seq(T) /\ Len(b) = Len(s) /\ \A i \in 1 .. Len(s) : b[i] = r[i]
  BY <1>1
<1> HIDE DEF a, b
<1>4. a = b
  <2>1. \A i \in 1 .. Len(s) : a[i] = b[i]
    BY <1>2, <1>3 DEF Above
  <2> QED
    BY <1>2, <1>3, <2>1
<1> QED
  BY <1>1, <1>4 DEF IsPrefix, a, b

----------------------------------------------------------------------------
\* Registers and vectors.

LEMMA VectorFacts ==
  /\ T_PGFLT \in Installed /\ T_PGFLT \in HasErr
  /\ HasErr \subseteq Vector /\ Installed \subseteq Vector
  /\ \A v \in Vector : Trapno(v) = T_PGFLT => v = T_PGFLT
  /\ \A v \in Vector : Trapno(v) \in StackWord
  /\ 0 \in StackWord /\ CPU_GDT_KCODE \in StackWord /\ CPU_GDT_KDATA \in StackWord
  /\ Value \subseteq StackWord
  BY TrapFrameAssumption DEF Trapno, StackWord

LEMMA RegisterFields ==
  ASSUME NEW c \in Registers
  PROVE  /\ c.eip \in Value /\ c.eflags \in Value /\ c.gp \in Value
         /\ c.ds = CPU_GDT_KDATA /\ c.es = CPU_GDT_KDATA
         /\ c = [eip |-> c.eip, eflags |-> c.eflags, ds |-> c.ds, es |-> c.es, gp |-> c.gp]
  BY DEF Registers

\* The words of the frame in terms of Top and Above.
LEMMA StackTerms ==
  /\ \A k : Word(k) = Top(stack, k)
  /\ \A n : AboveInterrupted(n) <=> Above(stack, before.stack, n)
  BY DEF Word, Top, AboveInterrupted, Above

LEMMA StackTermsNext ==
  /\ \A k : Word(k)' = Top(stack', k)
  /\ \A n : AboveInterrupted(n)' <=> Above(stack', before'.stack, n)
  BY DEF Word, Top, AboveInterrupted, Above

LEMMA CPUFrameTerms ==
  /\ CPUFrame(0) <=> /\ Top(stack, 0) = before.cpu.eip /\ Top(stack, 1) = CPU_GDT_KCODE
                     /\ Top(stack, 2) = before.cpu.eflags
  /\ CPUFrame(1) <=> /\ Top(stack, 1) = before.cpu.eip /\ Top(stack, 2) = CPU_GDT_KCODE
                     /\ Top(stack, 3) = before.cpu.eflags
  /\ CPUFrame(5) <=> /\ Top(stack, 5) = before.cpu.eip /\ Top(stack, 6) = CPU_GDT_KCODE
                     /\ Top(stack, 7) = before.cpu.eflags
<1>1. 0 + 1 = 1 /\ 0 + 2 = 2 /\ 1 + 1 = 2 /\ 1 + 2 = 3 /\ 5 + 1 = 6 /\ 5 + 2 = 7
  OBVIOUS
<1> QED
  BY <1>1, StackTerms DEF CPUFrame

LEMMA CPUFrameTermsNext ==
  /\ CPUFrame(0)' <=> /\ Top(stack', 0) = before'.cpu.eip /\ Top(stack', 1) = CPU_GDT_KCODE
                      /\ Top(stack', 2) = before'.cpu.eflags
  /\ CPUFrame(1)' <=> /\ Top(stack', 1) = before'.cpu.eip /\ Top(stack', 2) = CPU_GDT_KCODE
                      /\ Top(stack', 3) = before'.cpu.eflags
  /\ CPUFrame(5)' <=> /\ Top(stack', 5) = before'.cpu.eip /\ Top(stack', 6) = CPU_GDT_KCODE
                      /\ Top(stack', 7) = before'.cpu.eflags
<1>1. 0 + 1 = 1 /\ 0 + 2 = 2 /\ 1 + 1 = 2 /\ 1 + 2 = 3 /\ 5 + 1 = 6 /\ 5 + 2 = 7
  OBVIOUS
<1> QED
  BY <1>1, StackTermsNext DEF CPUFrame

----------------------------------------------------------------------------
\* One lemma per action.

LEMMA ExecuteInv == ASSUME TFInv, Execute PROVE TFInv'
<1>1. phase = "run" /\ phase' = "run" /\ vector' = vector /\ before' = before
  BY DEF Execute
<1>2. cpu' \in Registers
  BY DEF Execute, TFInv, TFTypeOK, Registers
<1>3. stack' \in Seq(StackWord) /\ Len(stack') > 0
  <2>0. stack \in Seq(StackWord) /\ Len(stack) > 0
    BY DEF TFInv, TFTypeOK
  <2>1. ASSUME NEW w \in Value, stack' = Append(stack, w) PROVE stack' \in Seq(StackWord) /\ Len(stack') > 0
    <3>1. w \in StackWord
      BY <2>1, VectorFacts
    <3> QED
      BY <2>0, <2>1, <3>1
  <2>2. CASE Len(stack) > 1 /\ stack' = Front(stack)
    BY <2>0, <2>2 DEF Front
  <2> QED
    BY <2>1, <2>2 DEF Execute
<1> QED
  BY <1>1, <1>2, <1>3 DEF TFInv, TFTypeOK, CPUPushed, FrameBuilt, FaultReturns

LEMMA TrapInv == ASSUME TFInv, NEW v \in Vector, Trap(v) PROVE TFInv'
<1>1. phase = "run" /\ phase' = "stub" /\ vector' = v /\ cpu' = cpu
  BY DEF Trap
<1>2. stack \in Seq(StackWord) /\ cpu \in Registers
  BY DEF TFInv, TFTypeOK
<1>3. PICK err \in IF v \in HasErr THEN Value ELSE {0} :
        /\ before' = [stack |-> stack, cpu |-> cpu, err |-> err]
        /\ stack' = stack \o <<cpu.eflags, CPU_GDT_KCODE, cpu.eip>>
                          \o IF v \in HasErr THEN <<err>> ELSE <<>>
  BY DEF Trap
<1> DEFINE q == PushWords(stack, cpu.eflags, CPU_GDT_KCODE, cpu.eip)
<1>4. cpu.eflags \in StackWord /\ cpu.eip \in StackWord /\ CPU_GDT_KCODE \in StackWord
  BY <1>2, RegisterFields, VectorFacts
<1>5. q \in Seq(StackWord) /\ Above(q, stack, 3)
      /\ Top(q, 0) = cpu.eip /\ Top(q, 1) = CPU_GDT_KCODE /\ Top(q, 2) = cpu.eflags
  <2> DEFINE a == cpu.eflags
             b == CPU_GDT_KCODE
             c == cpu.eip
             T == StackWord
  <2>1. stack \in Seq(T) /\ a \in T /\ b \in T /\ c \in T /\ q = PushWords(stack, a, b, c)
    BY <1>2, <1>4
  <2> HIDE DEF a, b, c, q, T
  <2>2. q \in Seq(T) /\ Above(q, stack, 3) /\ Top(q, 0) = c /\ Top(q, 1) = b /\ Top(q, 2) = a
    BY <2>1, PushThree
  <2> QED
    BY <2>2 DEF a, b, c, T
<1>6. stack' = q \o IF v \in HasErr THEN <<err>> ELSE <<>>
  BY <1>3 DEF PushWords
<1> HIDE DEF q
<1>7. Len(stack) \in Nat /\ Len(q) = Len(stack) + 3
  BY <1>2, <1>5 DEF Above
<1>8. /\ before' \in [stack : Seq(StackWord), cpu : Registers, err : Value \cup {0}]
      /\ before'.stack = stack /\ before'.cpu = cpu /\ before'.err = err
  BY <1>2, <1>3
<1>9. CASE v \in HasErr
  <2>1. stack' = PushW(q, err) /\ err \in StackWord
    BY <1>3, <1>6, <1>9, VectorFacts DEF PushW
  <2>2. stack' \in Seq(StackWord) /\ Above(stack', q, 1) /\ Top(stack', 0) = err
    BY <1>5, <2>1, PushOne
  <2>3. Top(stack', 0 + 1) = Top(q, 0) /\ Top(stack', 1 + 1) = Top(q, 1) /\ Top(stack', 2 + 1) = Top(q, 2)
    BY <1>7, <2>2, TopMoves
  <2>4. Above(stack', stack, 3 + 1)
    BY <1>2, <1>5, <2>2, AboveAbove
  <2>5. Len(stack') > 0
    BY <1>7, <2>4 DEF Above
  <2>6. TFTypeOK'
    BY <1>1, <1>2, <1>8, <2>2, <2>5 DEF TFTypeOK
  <2>7. AboveInterrupted(4)' /\ Word(0)' = before'.err /\ CPUFrame(1)'
    BY <1>5, <1>8, <2>2, <2>3, <2>4, StackTermsNext, CPUFrameTermsNext
  <2>8. CPUPushed'
    BY <1>1, <1>8, <1>9, <2>7 DEF CPUPushed
  <2> QED
    BY <1>1, <2>6, <2>8 DEF TFInv, FrameBuilt, FaultReturns
<1>10. CASE v \notin HasErr
  <2>1. stack' = q
    BY <1>5, <1>6, <1>10
  <2>2. Len(stack') > 0
    BY <1>7, <2>1
  <2>3. TFTypeOK'
    BY <1>1, <1>2, <1>5, <1>8, <2>1, <2>2 DEF TFTypeOK
  <2>4. AboveInterrupted(3)' /\ before'.err = 0 /\ CPUFrame(0)'
    BY <1>3, <1>5, <1>8, <1>10, <2>1, StackTermsNext, CPUFrameTermsNext
  <2>5. CPUPushed'
    BY <1>1, <1>8, <1>10, <2>4 DEF CPUPushed
  <2> QED
    BY <1>1, <2>3, <2>5 DEF TFInv, FrameBuilt, FaultReturns
<1> QED
  BY <1>9, <1>10

LEMMA EntryInv == ASSUME TFInv, Entry PROVE TFInv'
<1>1. /\ phase = "stub" /\ phase' = "trap" /\ vector' = vector /\ before' = before
      /\ stack' = stack \o StubError(vector) \o <<Trapno(vector)>> \o <<cpu.ds, cpu.es, cpu.gp>>
      /\ cpu' = [cpu EXCEPT !.ds = CPU_GDT_KDATA, !.es = CPU_GDT_KDATA]
  BY DEF Entry
<1>2. /\ stack \in Seq(StackWord) /\ cpu \in Registers /\ vector \in Vector /\ Len(stack) > 0
      /\ before \in [stack : Seq(StackWord), cpu : Registers, err : Value \cup {0}]
      /\ cpu = before.cpu /\ before.stack \in Seq(StackWord)
  BY <1>1 DEF TFInv, TFTypeOK, CPUPushed
<1>3. cpu' \in Registers
  BY <1>1, <1>2 DEF Registers
<1>4. cpu.ds \in StackWord /\ cpu.es \in StackWord /\ cpu.gp \in StackWord /\ Trapno(vector) \in StackWord
  BY <1>2, RegisterFields, VectorFacts
<1> DEFINE p == stack \o StubError(vector)
           q == PushW(p, Trapno(vector))
           n == IF vector \in Installed \ HasErr THEN 1 ELSE 0
<1>5. /\ p \in Seq(StackWord) /\ Above(p, stack, n)
      /\ vector \in Installed \ HasErr => Top(p, 0) = 0
  <2>1. CASE vector \in Installed \ HasErr
    <3>1. p = PushW(stack, 0) /\ n = 1
      BY <2>1 DEF StubError, PushW
    <3> HIDE DEF p, n
    <3> QED
      BY <1>2, <3>1, PushOne, VectorFacts
  <2>2. CASE vector \notin Installed \ HasErr
    <3>1. p = stack /\ n = 0
      BY <1>2, <2>2 DEF StubError
    <3> HIDE DEF p, n
    <3> QED
      BY <1>2, <2>2, <3>1 DEF Above
  <2> QED
    BY <2>1, <2>2
<1>6. stack' = PushWords(q, cpu.ds, cpu.es, cpu.gp)
  BY <1>1 DEF PushW, PushWords
<1> HIDE DEF p
<1>7. q \in Seq(StackWord) /\ Above(q, p, 1) /\ Top(q, 0) = Trapno(vector)
  BY <1>4, <1>5, PushOne
<1> HIDE DEF q
<1>8. /\ stack' \in Seq(StackWord) /\ Above(stack', q, 3)
      /\ Top(stack', 0) = cpu.gp /\ Top(stack', 1) = cpu.es /\ Top(stack', 2) = cpu.ds
  <2> DEFINE a == cpu.ds
             b == cpu.es
             c == cpu.gp
             T == StackWord
             r == stack'
  <2>1. q \in Seq(T) /\ a \in T /\ b \in T /\ c \in T /\ r = PushWords(q, a, b, c)
    BY <1>4, <1>6, <1>7
  <2> HIDE DEF a, b, c, T, r
  <2>2. r \in Seq(T) /\ Above(r, q, 3) /\ Top(r, 0) = c /\ Top(r, 1) = b /\ Top(r, 2) = a
    BY <2>1, PushThree
  <2> QED
    BY <2>2 DEF a, b, c, T, r
<1>9. Len(stack) \in Nat /\ Len(p) = Len(stack) + n /\ Len(q) = Len(p) + 1 /\ Len(stack') = Len(q) + 3 /\ n \in Nat
  BY <1>2, <1>5, <1>7, <1>8 DEF Above
<1>10. Top(stack', 3) = Trapno(vector)
  <2>1. Top(stack', 0 + 3) = Top(q, 0)
    BY <1>8, <1>9, TopMoves
  <2> QED
    BY <1>7, <2>1
<1>11. \A k \in Nat : k < Len(p) => Top(stack', k + 4) = Top(p, k)
  <2> TAKE k \in Nat
  <2> HAVE k < Len(p)
  <2>1. Top(q, k + 1) = Top(p, k)
    BY <1>7, <1>9, TopMoves
  <2>2. k + 1 \in Nat /\ k + 1 < Len(q) /\ (k + 1) + 3 = k + 4
    BY <1>9
  <2>3. Top(stack', (k + 1) + 3) = Top(q, k + 1)
    BY <1>8, <1>9, <2>2, TopMoves
  <2> QED
    BY <2>1, <2>2, <2>3
<1>12. Above(stack', p, 4)
  <2>1. Above(stack', p, 1 + 3)
    BY <1>5, <1>7, <1>8, AboveAbove
  <2> QED
    BY <2>1
<1>13. vector \in Installed => AboveInterrupted(8)' /\ Word(4)' = before'.err /\ CPUFrame(5)'
  <2> SUFFICES ASSUME vector \in Installed
               PROVE  /\ Above(stack', before.stack, 8) /\ Top(stack', 4) = before.err
                      /\ Top(stack', 5) = before.cpu.eip /\ Top(stack', 6) = CPU_GDT_KCODE
                      /\ Top(stack', 7) = before.cpu.eflags
    BY <1>1, StackTermsNext, CPUFrameTermsNext
  <2>1. /\ Above(p, before.stack, 4) /\ Top(p, 0) = before.err /\ Top(p, 1) = before.cpu.eip
        /\ Top(p, 2) = CPU_GDT_KCODE /\ Top(p, 3) = before.cpu.eflags
    <3>1. CASE vector \in HasErr
      <4>1. AboveInterrupted(4) /\ Word(0) = before.err /\ CPUFrame(1)
        BY <1>1, <3>1 DEF TFInv, CPUPushed
      <4>2. p = stack
        BY <1>2, <3>1 DEF p, StubError
      <4> QED
        BY <4>1, <4>2, StackTerms, CPUFrameTerms
    <3>2. CASE vector \notin HasErr
      <4>1. AboveInterrupted(3) /\ before.err = 0 /\ CPUFrame(0)
        BY <1>1, <3>2 DEF TFInv, CPUPushed
      <4>2. n = 1 /\ Top(p, 0) = 0 /\ Above(p, stack, 1) /\ Above(stack, before.stack, 3)
        BY <1>5, <3>2, <4>1, StackTerms
      <4>3. Above(p, before.stack, 3 + 1) /\ Len(stack) >= 3
        <5>1. Above(p, before.stack, 3 + 1)
          BY <1>2, <1>5, <4>2, AboveAbove
        <5> QED
          BY <1>2, <4>2, <5>1 DEF Above
      <4>4. Top(p, 0 + 1) = Top(stack, 0) /\ Top(p, 1 + 1) = Top(stack, 1) /\ Top(p, 2 + 1) = Top(stack, 2)
        BY <1>9, <4>2, <4>3, TopMoves
      <4> QED
        BY <4>1, <4>2, <4>3, <4>4, StackTerms, CPUFrameTerms
    <3> QED
      BY <3>1, <3>2
  <2>2. Above(stack', before.stack, 4 + 4) /\ Len(p) >= 4
    <3>1. Above(stack', before.stack, 4 + 4)
      BY <1>2, <1>5, <1>8, <1>12, <2>1, AboveAbove
    <3> QED
      BY <1>2, <2>1, <3>1 DEF Above
  <2>3. Top(stack', 0 + 4) = Top(p, 0) /\ Top(stack', 1 + 4) = Top(p, 1)
        /\ Top(stack', 2 + 4) = Top(p, 2) /\ Top(stack', 3 + 4) = Top(p, 3)
    BY <1>9, <1>11, <2>2
  <2> QED
    BY <2>1, <2>2, <2>3
<1>14. FrameBuilt'
  <2>1. Word(0)' = before'.cpu.gp /\ Word(1)' = before'.cpu.es /\ Word(2)' = before'.cpu.ds
        /\ Word(3)' = Trapno(vector)'
    BY <1>1, <1>2, <1>8, <1>10, StackTermsNext DEF Trapno
  <2> QED
    BY <1>1, <1>13, <2>1 DEF FrameBuilt
<1>15. TFTypeOK'
  <2>1. Len(stack') > 0
    BY <1>9
  <2> QED
    BY <1>1, <1>2, <1>3, <1>8, <2>1 DEF TFTypeOK
<1> QED
  BY <1>1, <1>14, <1>15 DEF TFInv, CPUPushed, FaultReturns

LEMMA HandleTrapInv == ASSUME TFInv, HandleTrap PROVE TFInv'
<1>1. /\ phase = "trap" /\ phase' = IF tf.trapno = T_PGFLT THEN "return" ELSE "panic"
      /\ stack' = stack /\ vector' = vector /\ before' = before
  BY DEF HandleTrap
<1>2. cpu' \in Registers
  BY DEF HandleTrap, TFInv, TFTypeOK, Registers
<1>3. TFTypeOK'
  BY <1>1, <1>2 DEF TFInv, TFTypeOK
<1>4. tf.trapno = Trapno(vector) /\ vector \in Vector
  BY <1>1 DEF tf, TFInv, TFTypeOK, FrameBuilt
<1>5. phase' = "return" => vector' = T_PGFLT
  BY <1>1, <1>4, VectorFacts
<1>6. FrameBuilt'
  BY <1>1 DEF TFInv, FrameBuilt, Word, CPUFrame, AboveInterrupted, Trapno
<1> QED
  BY <1>1, <1>3, <1>5, <1>6 DEF TFInv, CPUPushed, FaultReturns

(***************************************************************************)
(* trap_return drops the segments and registers, trapno, err and eip, and  *)
(* leaves the code segment and the flags of the CPU's frame.               *)
(***************************************************************************)
LEMMA TrapReturnInv == ASSUME TFInv, trap_return PROVE TFInv'
<1>1. /\ phase = "return" /\ phase' = "resumed" /\ vector' = vector /\ before' = before
      /\ cpu' = [cpu EXCEPT !.gp = Word(0), !.es = Word(1), !.ds = Word(2), !.eip = Word(5)]
      /\ stack' = SubSeq(stack, 1, Len(stack) - 6)
  <2>1. 3 + ReturnSkip = 5 /\ 4 + ReturnSkip = 6
    BY DEF ReturnSkip
  <2> QED
    BY <2>1 DEF trap_return
<1>2. /\ stack \in Seq(StackWord) /\ cpu \in Registers /\ before.cpu \in Registers
      /\ before.stack \in Seq(StackWord) /\ vector = T_PGFLT
  BY <1>1 DEF TFInv, TFTypeOK
<1>3. /\ Word(0) = before.cpu.gp /\ Word(1) = before.cpu.es /\ Word(2) = before.cpu.ds
      /\ AboveInterrupted(8) /\ CPUFrame(5)
  BY <1>1, <1>2, VectorFacts DEF TFInv, FrameBuilt
<1>4. Word(5) = before.cpu.eip
  BY <1>3 DEF CPUFrame
<1>5. /\ cpu'.gp = before.cpu.gp /\ cpu'.es = before.cpu.es /\ cpu'.ds = before.cpu.ds
      /\ cpu'.eip = before.cpu.eip /\ cpu'.eflags = cpu.eflags
      /\ cpu' \in Registers
  BY <1>1, <1>2, <1>3, <1>4 DEF Registers
<1>6. Above(stack, before.stack, 8) /\ Len(before.stack) \in Nat /\ Len(stack) = Len(before.stack) + 8
  BY <1>2, <1>3, StackTerms DEF Above
<1> DEFINE n == Len(stack) - 6
<1>7. n \in 0 .. Len(stack) /\ n = Len(before.stack) + 2
  BY <1>6
<1>8. stack' = SubSeq(stack, 1, n)
  BY <1>1
<1> HIDE DEF n
<1>9. stack' \in Seq(StackWord) /\ Len(stack') = n /\ \A i \in 1 .. n : stack'[i] = stack[i]
  BY <1>2, <1>7, <1>8, DropFacts
<1>10. Above(stack', before.stack, 2)
  BY <1>6, <1>7, <1>9 DEF Above
<1>11. IsPrefix(before.stack, stack')
  BY <1>2, <1>9, <1>10, PrefixFacts
<1>12. FaultReturns'
  BY <1>1, <1>2, <1>5, <1>7, <1>9, <1>11 DEF FaultReturns
<1>13. TFTypeOK'
  <2>1. Len(stack') > 0
    BY <1>6, <1>7, <1>9
  <2> QED
    BY <1>1, <1>5, <1>9, <2>1 DEF TFInv, TFTypeOK
<1> QED
  BY <1>1, <1>12, <1>13 DEF TFInv, CPUPushed, FrameBuilt

----------------------------------------------------------------------------
(***************************************************************************)
(* The frame has its shape at every point between a trap and the return.   *)
(***************************************************************************)
THEOREM FrameInvariant == TFSpec => []TFInv
<1>1. TFInit => TFInv
  <2> SUFFICES ASSUME TFInit PROVE TFInv
    OBVIOUS
  <2>1. PICK w \in Value : stack = <<w>>
    BY DEF TFInit
  <2>2. w \in StackWord
    BY VectorFacts
  <2>3. stack \in Seq(StackWord) /\ Len(stack) > 0
    BY <2>1, <2>2
  <2>4. cpu \in Registers /\ vector \in Vector /\ phase = "run"
    BY DEF TFInit, Registers
  <2>5. before \in [stack : Seq(StackWord), cpu : Registers, err : Value \cup {0}]
    <3>1. <<>> \in Seq(StackWord)
      OBVIOUS
    <3> DEFINE Q == Seq(StackWord)
               e == <<>>
    <3>2. e \in Q /\ before = [stack |-> e, cpu |-> cpu, err |-> 0]
      BY <3>1 DEF TFInit
    <3> HIDE DEF Q, e
    <3>3. before \in [stack : Q, cpu : Registers, err : Value \cup {0}]
      BY <2>4, <3>2
    <3> QED
      BY <3>3 DEF Q
  <2> QED
    BY <2>3, <2>4, <2>5 DEF TFInv, TFTypeOK, CPUPushed, FrameBuilt, FaultReturns
<1>2. TFInv /\ [TFNext]_tfVars => TFInv'
  <2> SUFFICES ASSUME TFInv, [TFNext]_tfVars PROVE TFInv'
    OBVIOUS
  <2>1. CASE Resume
    BY <2>1 DEF Resume, TFInv, TFTypeOK, CPUPushed, FrameBuilt, FaultReturns
  <2>2. CASE UNCHANGED tfVars
    BY <2>2 DEF tfVars, TFInv, TFTypeOK, CPUPushed, FrameBuilt, FaultReturns, Word, CPUFrame,
                AboveInterrupted, Trapno
  <2> QED
    BY <2>1, <2>2, ExecuteInv, TrapInv, EntryInv, HandleTrapInv, TrapReturnInv DEF TFNext
<1> QED
  BY <1>1, <1>2, PTL DEF TFSpec

(***************************************************************************)
(* Whichever vectors the CPU pushes an error code for and whichever have a *)
(* stub, trap gets a frame that says where and why the trap happened, for  *)
(* every vector with a stub of its own.                                    *)
(***************************************************************************)
THEOREM FramesRight == TFSpec => []InstalledFramesRight
<1>1. TFInv => InstalledFramesRight
  <2> SUFFICES ASSUME TFInv, NEW v \in Installed, phase = "trap", vector = v
               PROVE  /\ tf.trapno = v /\ tf.err = before.err
                      /\ [cpu EXCEPT !.eip = tf.eip, !.eflags = tf.eflags,
                                     !.ds = tf.ds, !.es = tf.es, !.gp = tf.gp] = before.cpu
    BY DEF InstalledFramesRight, FrameIsRight
  <2>1. cpu \in Registers /\ before.cpu \in Registers
    BY DEF TFInv, TFTypeOK
  <2>2. /\ Word(0) = before.cpu.gp /\ Word(1) = before.cpu.es /\ Word(2) = before.cpu.ds
        /\ Word(3) = v /\ Word(4) = before.err /\ CPUFrame(5)
    BY DEF TFInv, FrameBuilt, Trapno
  <2>3. Word(5) = before.cpu.eip /\ Word(7) = before.cpu.eflags
    BY <2>2, StackTerms, CPUFrameTerms
  <2>4. /\ tf.trapno = v /\ tf.err = before.err /\ tf.gp = before.cpu.gp /\ tf.es = before.cpu.es
        /\ tf.ds = before.cpu.ds /\ tf.eip = before.cpu.eip /\ tf.eflags = before.cpu.eflags
    BY <2>2, <2>3 DEF tf
  <2> DEFINE b == before.cpu
  <2>5. b = [eip |-> b.eip, eflags |-> b.eflags, ds |-> b.ds, es |-> b.es, gp |-> b.gp]
    BY <2>1, RegisterFields
  <2>6. [cpu EXCEPT !.eip = b.eip, !.eflags = b.eflags, !.ds = b.ds, !.es = b.es, !.gp = b.gp] = b
    <3> HIDE DEF b
    <3> QED
      BY <2>1, <2>5 DEF Registers
  <2> QED
    BY <2>4, <2>6
<1> QED
  BY <1>1, FrameInvariant, PTL

(***************************************************************************)
(* Only page faults are ever returned from, and the code that faulted goes *)
(* on at the instruction that faulted, with its general and segment        *)
(* registers and with every word that it had pushed where it was, after    *)
(* any number of faults at any depth.  Its flags and its stack pointer are *)
(* not part of this, since trap_return does not restore them.              *)
(***************************************************************************)
THEOREM FaultsReturn == TFSpec => []FaultReturns
<1>1. TFInv => FaultReturns
  BY DEF TFInv
<1> QED
  BY <1>1, FrameInvariant, PTL

----------------------------------------------------------------------------
\* The tables of the keyboard driver.

MapNames == {"normalmap", "shiftmap", "ctlmap"}

DeleteKey == [esc |-> TRUE, code |-> DELETE]

LEMMA KeyFields == \A k \in Key : /\ k.esc \in BOOLEAN /\ k.code \in 0 .. 127
                                  /\ k = [esc |-> k.esc, code |-> k.code]
  BY KeyboardAssumption

LEMMA ModifierFacts == \A k : ModifierOf(k) \subseteq {"SHIFT", "CTL", "ALT"}
  BY DEF ModifierOf

LEMMA ToggleFacts == \A k : togglecode(k) \subseteq {"CAPSLOCK", "NUMLOCK", "SCROLLLOCK"}
  BY DEF togglecode

\* Only the Delete key of the middle block has the code that reboots.
LEMMA RowFacts ==
  \A k : \A m \in MapNames : Row(k)[m] \in 0 .. 255 /\ (Row(k)[m] = KEY_DEL => k = DeleteKey)
<1> TAKE k
<1> TAKE m \in MapNames
<1> DEFINE R == Row(k)
<1>1. \/ R \in {Maps(97, 65, 1), Maps(49, 33, NO), Maps(10, 10, 13), Maps(10, 10, NO),
                Maps(46, 46, NO), Maps(NO, NO, NO)}
      \/ R = Maps(KEY_DEL, KEY_DEL, KEY_DEL) /\ k = DeleteKey
  BY DEF Row, DeleteKey
<1> HIDE DEF R
<1>2. R[m] \in {97, 65, 1, 49, 33, 0, 10, 13, 46} \/ (R[m] = 233 /\ k = DeleteKey)
  <2>1. /\ Maps(97, 65, 1)[m] \in {97, 65, 1} /\ Maps(49, 33, NO)[m] \in {49, 33, 0}
        /\ Maps(10, 10, 13)[m] \in {10, 13} /\ Maps(10, 10, NO)[m] \in {10, 0}
        /\ Maps(46, 46, NO)[m] \in {46, 0} /\ Maps(NO, NO, NO)[m] = 0
        /\ Maps(KEY_DEL, KEY_DEL, KEY_DEL)[m] = 233
    BY DEF Maps, MapNames, NO, KEY_DEL
  <2> QED
    BY <1>1, <2>1
<1> QED
  BY <1>2 DEF R, KEY_DEL

LEMMA CharFacts ==
  ASSUME NEW flags, NEW k
  PROVE  /\ CharOf(flags, k) \in 0 .. 255
         /\ CharOf(flags, k) = KEY_DEL => k = DeleteKey
         /\ CharOf(flags, k) = CharOf(flags \cap {"CTL", "SHIFT", "CAPSLOCK"}, k)
<1>1. charcode(flags) \in MapNames
  BY DEF charcode, MapNames
<1>2. charcode(flags) = charcode(flags \cap {"CTL", "SHIFT", "CAPSLOCK"})
  BY DEF charcode
<1> DEFINE c == Row(k)[charcode(flags)]
<1>3. c \in 0 .. 255 /\ (c = KEY_DEL => k = DeleteKey)
  BY <1>1, RowFacts
<1>4. SwapCase(c) \in 0 .. 255 /\ (SwapCase(c) = KEY_DEL => c = KEY_DEL)
  BY <1>3 DEF SwapCase, KEY_DEL
<1>5. CharOf(flags, k) = IF "CAPSLOCK" \in flags THEN SwapCase(c) ELSE c
  BY DEF CharOf
<1>6. CharOf(flags \cap {"CTL", "SHIFT", "CAPSLOCK"}, k) = IF "CAPSLOCK" \in flags THEN SwapCase(c) ELSE c
  BY <1>2 DEF CharOf
<1> QED
  BY <1>3, <1>4, <1>5, <1>6

----------------------------------------------------------------------------
\* The scan codes that wait.

LEMMA QueueFacts ==
  ASSUME KbdTypeOK
  PROVE  /\ Len(queue) \in Nat /\ DOMAIN queue = 1 .. Len(queue)
         /\ \A i \in 1 .. Len(queue) : queue[i] \in ScanCode
         /\ queue # <<>> <=> Len(queue) > 0
<1> DEFINE T == ScanCode
<1>1. queue \in Seq(T)
  BY DEF KbdTypeOK
<1> HIDE DEF T
<1>2. /\ Len(queue) \in Nat /\ DOMAIN queue = 1 .. Len(queue)
      /\ \A i \in 1 .. Len(queue) : queue[i] \in T
      /\ queue # <<>> <=> Len(queue) > 0
  BY <1>1
<1> QED
  BY <1>2 DEF T

LEMMA ScanCodeFields ==
  ASSUME NEW c \in ScanCode
  PROVE  /\ c.byte \in {"code", "E0"} /\ c.code \in 0 .. 127 /\ c.release \in BOOLEAN
         /\ c.event \in Key /\ c.meant \in 0 .. 255
  BY DEF ScanCode

\* Reading a code moves the others up.
LEMMA ReadsFacts ==
  ASSUME KbdTypeOK, NEW byte, NEW release, Reads(byte, release)
  PROVE  /\ queue # <<>> /\ queue[1].byte = byte /\ queue[1].release \in release
         /\ Head(queue) = queue[1] /\ queue[1] \in ScanCode
         /\ queue' \in Seq(ScanCode) /\ Len(queue') = Len(queue) - 1
         /\ Len(queue) \in Nat /\ Len(queue) > 0
         /\ DOMAIN queue' = 1 .. Len(queue) - 1
         /\ \A i \in 1 .. Len(queue) - 1 : queue'[i] = queue[i + 1] /\ i + 1 \in 1 .. Len(queue)
         /\ queue' # <<>> <=> Len(queue) > 1
         /\ held' = held /\ latest' = latest
<1> DEFINE T == ScanCode
<1>1. queue \in Seq(T) /\ queue # <<>> /\ Head(queue).byte = byte /\ Head(queue).release \in release
      /\ queue' = Tail(queue) /\ held' = held /\ latest' = latest
  BY DEF Reads, KbdTypeOK
<1> HIDE DEF T
<1>2. Len(queue) \in Nat /\ Len(queue) > 0 /\ Head(queue) = queue[1] /\ queue[1] \in T
  BY <1>1
<1>3. queue' \in Seq(T) /\ Len(queue') = Len(queue) - 1
  BY <1>1
<1>4. \A i \in 1 .. Len(queue) - 1 : queue'[i] = queue[i + 1]
  BY <1>1
<1>5. \A i \in 1 .. Len(queue) - 1 : i + 1 \in 1 .. Len(queue)
  BY <1>2
<1>6. DOMAIN queue' = 1 .. Len(queue) - 1 /\ (queue' # <<>> <=> Len(queue) > 1)
  BY <1>2, <1>3
<1> QED
  BY <1>1, <1>2, <1>3, <1>4, <1>5, <1>6 DEF T

(***************************************************************************)
(* The key that the driver reads is the key of the event, and the one      *)
(* after it is escaped only by an escape of its own.                       *)
(***************************************************************************)
LEMMA KeyReadFacts ==
  ASSUME KbdInv, queue # <<>>, queue[1].byte = "code"
  PROVE  KeyRead = queue[1].event
<1>1. queue[1] \in ScanCode /\ 1 \in DOMAIN queue /\ Head(queue) = queue[1]
  <2> DEFINE T == ScanCode
  <2>1. queue \in Seq(T)
    BY DEF KbdInv, KbdTypeOK
  <2> HIDE DEF T
  <2>2. queue[1] \in T /\ 1 \in DOMAIN queue /\ Head(queue) = queue[1]
    BY <2>1
  <2> QED
    BY <2>2 DEF T
<1> DEFINE k == queue[1].event
<1>2. k \in Key /\ k = [esc |-> k.esc, code |-> k.code] /\ k.esc \in BOOLEAN
  BY <1>1, ScanCodeFields, KeyFields
<1>3. "E0ESC" \in shift <=> k.esc
  BY DEF KbdInv, EscapesPaired, Completes
<1>4. Head(queue).code = k.code
  BY <1>1 DEF KbdInv, EscapesPaired
<1> HIDE DEF k
<1>5. ("E0ESC" \in shift) = k.esc
  BY <1>2, <1>3
<1>6. KeyRead = [esc |-> k.esc, code |-> k.code]
  BY <1>4, <1>5 DEF KeyRead
<1> QED
  BY <1>2, <1>6 DEF k

LEMMA EscapesMove ==
  ASSUME KbdInv, NEW byte, NEW release, Reads(byte, release), "E0ESC" \in shift' <=> byte = "E0"
  PROVE  EscapesPaired'
<1> DEFINE n == Len(queue)
<1>1. /\ queue # <<>> /\ queue[1].byte = byte /\ n \in Nat /\ n > 0 /\ Len(queue') = n - 1
      /\ DOMAIN queue' = 1 .. n - 1 /\ (queue' # <<>> <=> n > 1)
      /\ \A i \in 1 .. n - 1 : queue'[i] = queue[i + 1] /\ i + 1 \in 1 .. n
  BY ReadsFacts DEF KbdInv
<1>2. DOMAIN queue = 1 .. n
  BY QueueFacts DEF KbdInv
<1>3. \A i \in 1 .. n :
          /\ queue[i].code = queue[i].event.code
          /\ queue[i].byte = "E0" =>
               i < n /\ Completes(queue[i + 1]) /\ queue[i + 1].event = queue[i].event
          /\ i > 1 /\ Completes(queue[i]) => queue[i - 1].byte = "E0"
  BY <1>2 DEF KbdInv, EscapesPaired
<1> HIDE DEF n
<1>4. \A i \in 1 .. n - 1 :
          /\ queue'[i].code = queue'[i].event.code
          /\ queue'[i].byte = "E0" =>
               i < n - 1 /\ Completes(queue'[i + 1]) /\ queue'[i + 1].event = queue'[i].event
          /\ i > 1 /\ Completes(queue'[i]) => queue'[i - 1].byte = "E0"
  <2> TAKE i \in 1 .. n - 1
  <2> DEFINE j == i + 1
  <2>1. queue'[i] = queue[j] /\ j \in 1 .. n /\ j > 1 /\ i \in 1 .. n /\ j - 1 = i
    BY <1>1
  <2>2. queue[j].byte = "E0" => j < n /\ queue'[i + 1] = queue[j + 1]
    <3> HAVE queue[j].byte = "E0"
    <3>1. j < n
      BY <1>3, <2>1
    <3>2. j \in 1 .. n - 1
      BY <1>1, <2>1, <3>1
    <3> QED
      BY <1>1, <3>1, <3>2
  <2>3. i > 1 => queue'[i - 1] = queue[j - 1]
    <3> HAVE i > 1
    <3>1. i - 1 \in 1 .. n - 1 /\ (i - 1) + 1 = j - 1
      BY <1>1
    <3> QED
      BY <1>1, <3>1
  <2>4. i > 1 /\ Completes(queue'[i]) => queue'[i - 1].byte = "E0"
    BY <1>3, <2>1, <2>3
  <2>5. queue'[i].byte = "E0" =>
          i < n - 1 /\ Completes(queue'[i + 1]) /\ queue'[i + 1].event = queue'[i].event
    <3> HAVE queue'[i].byte = "E0"
    <3>1. j < n /\ Completes(queue[j + 1]) /\ queue[j + 1].event = queue[j].event
      BY <1>3, <2>1
    <3>2. i < n - 1
      BY <1>1, <3>1
    <3> QED
      BY <2>1, <2>2, <3>1, <3>2
  <2>6. queue'[i].code = queue'[i].event.code
    BY <1>3, <2>1
  <2> QED
    BY <2>4, <2>5, <2>6
<1>5. "E0ESC" \in shift' <=> queue' # <<>> /\ Completes(queue'[1])
  <2>1. n > 1 => queue'[1] = queue[2] /\ 2 \in 1 .. n
    BY <1>1
  <2>2. 1 \in 1 .. n /\ 1 + 1 = 2 /\ 2 - 1 = 1 /\ 2 > 1
    BY <1>1
  <2>3. queue[1].byte = "E0" => n > 1 /\ Completes(queue[2])
    BY <1>1, <1>3, <2>2
  <2>4. n > 1 /\ Completes(queue[2]) => queue[1].byte = "E0"
    BY <1>1, <1>3, <2>1, <2>2
  <2> QED
    BY <1>1, <2>1, <2>3, <2>4
<1> QED
  BY <1>1, <1>4, <1>5 DEF EscapesPaired, Completes

LEMMA LeadsMove ==
  ASSUME KbdInv, NEW byte, NEW release, Reads(byte, release),
         NEW F \in [0 .. Len(queue) -> SUBSET Flags], LeadsToLatest(F), F[1] = shift' \ {"E0ESC"}
  PROVE  (\E G \in [0 .. Len(queue) -> SUBSET Flags] : LeadsToLatest(G))'
<1> DEFINE n == Len(queue)
           G == [i \in 0 .. n - 1 |-> F[i + 1]]
<1>1. /\ n \in Nat /\ n > 0 /\ Len(queue') = n - 1 /\ DOMAIN queue' = 1 .. n - 1 /\ latest' = latest
      /\ \A i \in 1 .. n - 1 : queue'[i] = queue[i + 1] /\ i + 1 \in 1 .. n
  BY ReadsFacts DEF KbdInv
<1>2. DOMAIN queue = 1 .. n
  BY QueueFacts DEF KbdInv
<1>3. \A i \in 1 .. n :
          /\ F[i] = FlagsAfter(F[i - 1], queue[i])
          /\ queue[i].byte = "code" /\ ~queue[i].release => queue[i].meant = CharOf(F[i], queue[i].event)
  BY <1>2 DEF LeadsToLatest
<1>4. F[n] = latest
  BY DEF LeadsToLatest
<1> HIDE DEF n
<1>5. F \in [0 .. n -> SUBSET Flags]
  BY DEF n
<1>6. G \in [0 .. n - 1 -> SUBSET Flags]
  BY <1>1, <1>5
<1>7. G[0] = shift' \ {"E0ESC"} /\ G[n - 1] = latest'
  BY <1>1, <1>4
<1>8. \A i \in 1 .. n - 1 :
          /\ G[i] = FlagsAfter(G[i - 1], queue'[i])
          /\ queue'[i].byte = "code" /\ ~queue'[i].release => queue'[i].meant = CharOf(G[i], queue'[i].event)
  <2> TAKE i \in 1 .. n - 1
  <2>1. G[i] = F[i + 1] /\ G[i - 1] = F[i] /\ queue'[i] = queue[i + 1] /\ i + 1 \in 1 .. n /\ (i + 1) - 1 = i
    BY <1>1
  <2> HIDE DEF G
  <2> QED
    BY <1>3, <2>1
<1> HIDE DEF G
<1>9. \E H \in [0 .. Len(queue') -> SUBSET Flags] :
         /\ H[0] = shift' \ {"E0ESC"} /\ H[Len(queue')] = latest'
         /\ \A i \in DOMAIN queue' :
               /\ H[i] = FlagsAfter(H[i - 1], queue'[i])
               /\ queue'[i].byte = "code" /\ ~queue'[i].release => queue'[i].meant = CharOf(H[i], queue'[i].event)
  BY <1>1, <1>6, <1>7, <1>8
<1> QED
  BY <1>9 DEF LeadsToLatest

----------------------------------------------------------------------------
\* A key is pressed or released.

LEMMA EventKeeps ==
  ASSUME KbdInv, NEW k \in Key, NEW release \in BOOLEAN, NEW m \in 0 .. 255,
         queue' = queue \o Codes(k, release, m),
         latest' = IF release THEN latest \ ModifierOf(k)
                   ELSE Toggled(latest \cup ModifierOf(k), togglecode(k)),
         ~release => m = CharOf(latest', k),
         shift' = shift, seen' = seen, decoded' = decoded
  PROVE  KbdInv'
<1> DEFINE n == Len(queue)
           d == IF k.esc THEN n + 2 ELSE n + 1
           c == [byte |-> "code", code |-> k.code, release |-> release, event |-> k, meant |-> m]
           e == [byte |-> "E0", code |-> k.code, release |-> release, event |-> k, meant |-> m]
           T == ScanCode
<1>1. n \in Nat /\ DOMAIN queue = 1 .. n /\ queue \in Seq(T) /\ (queue # <<>> <=> n > 0)
  BY QueueFacts DEF KbdInv, KbdTypeOK
<1>2. k.esc \in BOOLEAN /\ k.code \in 0 .. 127
  BY KeyFields
<1>3. c \in T /\ e \in T
  BY <1>2 DEF ScanCode
<1>4. Codes(k, release, m) = IF k.esc THEN <<e, c>> ELSE <<c>>
  BY DEF Codes
<1> HIDE DEF T
<1>5. /\ queue' \in Seq(T) /\ Len(queue') = d /\ DOMAIN queue' = 1 .. d
      /\ \A i \in 1 .. n : queue'[i] = queue[i]
      /\ queue'[d] = c /\ (k.esc => queue'[n + 1] = e)
  <2>1. CASE k.esc
    <3>1. queue' = queue \o <<e, c>> /\ d = n + 2
      BY <1>4, <2>1
    <3> HIDE DEF c, e, d
    <3>2. queue' \in Seq(T) /\ Len(queue') = n + 2
      BY <1>1, <1>3, <3>1
    <3>3. \A i \in 1 .. n : queue'[i] = queue[i]
      BY <1>1, <1>3, <3>1
    <3>4. queue'[n + 1] = e /\ queue'[n + 2] = c
      BY <1>1, <1>3, <3>1
    <3> QED
      BY <3>1, <3>2, <3>3, <3>4
  <2>2. CASE ~k.esc
    <3>1. queue' = queue \o <<c>> /\ d = n + 1
      BY <1>4, <2>2
    <3> HIDE DEF c, e, d
    <3>2. queue' \in Seq(T) /\ Len(queue') = n + 1
      BY <1>1, <1>3, <3>1
    <3>3. \A i \in 1 .. n : queue'[i] = queue[i]
      BY <1>1, <1>3, <3>1
    <3>4. queue'[n + 1] = c
      BY <1>1, <1>3, <3>1
    <3> QED
      BY <2>2, <3>1, <3>2, <3>3, <3>4
  <2> QED
    BY <2>1, <2>2
<1>6. /\ c.byte = "code" /\ e.byte = "E0" /\ c.release = release /\ e.release = release
      /\ c.event = k /\ e.event = k /\ c.meant = m /\ c.code = k.code /\ e.code = k.code
      /\ (Completes(c) <=> k.esc) /\ ~Completes(e)
  BY DEF Completes
<1> HIDE DEF c, e
<1>7. d \in Nat /\ d > n /\ (k.esc => d = n + 2) /\ (~k.esc => d = n + 1)
      /\ \A i \in 1 .. d : i \in 1 .. n \/ (k.esc /\ i = n + 1) \/ i = d
  BY <1>1, <1>2
<1> HIDE DEF d, n
<1>8. latest' \subseteq Flags
  <2>1. latest \subseteq Flags
    BY DEF KbdInv, KbdTypeOK
  <2> QED
    BY <2>1, ModifierFacts, ToggleFacts DEF Toggled, Flags
<1>9. KbdTypeOK'
  BY <1>5, <1>8 DEF KbdInv, KbdTypeOK, T
<1>10. EscapesPaired'
  <2>0. \A i \in 1 .. n :
          /\ queue[i].code = queue[i].event.code
          /\ queue[i].byte = "E0" =>
               i < n /\ Completes(queue[i + 1]) /\ queue[i + 1].event = queue[i].event
          /\ i > 1 /\ Completes(queue[i]) => queue[i - 1].byte = "E0"
    BY <1>1 DEF KbdInv, EscapesPaired, n
  <2>1. \A i \in 1 .. d :
          /\ queue'[i].code = queue'[i].event.code
          /\ queue'[i].byte = "E0" =>
               i < d /\ Completes(queue'[i + 1]) /\ queue'[i + 1].event = queue'[i].event
          /\ i > 1 /\ Completes(queue'[i]) => queue'[i - 1].byte = "E0"
    <3> TAKE i \in 1 .. d
    <3>1. CASE i \in 1 .. n
      <4>1. queue'[i] = queue[i]
        BY <1>5, <3>1
      <4>2. i > 1 => queue'[i - 1] = queue[i - 1]
        BY <1>1, <1>5, <3>1
      <4>3. i < n => queue'[i + 1] = queue[i + 1] /\ i < d
        BY <1>1, <1>5, <1>7, <3>1
      <4> QED
        BY <2>0, <3>1, <4>1, <4>2, <4>3
    <3>2. CASE k.esc /\ i = n + 1
      <4>1. i + 1 = d /\ i < d /\ queue'[i] = e
        BY <1>1, <1>5, <1>7, <3>2
      <4> QED
        BY <1>5, <1>6, <3>2, <4>1
    <3>3. CASE i = d
      <4>1. queue'[i] = c
        BY <1>5, <3>3
      <4>2. k.esc => queue'[i - 1] = e
        <5> HAVE k.esc
        <5>1. i - 1 = n + 1
          BY <1>1, <1>7, <3>3
        <5> QED
          BY <5>1, <1>5
      <4> QED
        BY <1>6, <4>1, <4>2
    <3> QED
      BY <1>7, <3>1, <3>2, <3>3
  <2>2. "E0ESC" \in shift' <=> queue' # <<>> /\ Completes(queue'[1])
    <3>0. queue' # <<>>
      BY <1>1, <1>5, <1>7
    <3>1. "E0ESC" \in shift <=> queue # <<>> /\ Completes(queue[1])
      BY DEF KbdInv, EscapesPaired
    <3>2. CASE n > 0
      <4>1. queue'[1] = queue[1]
        BY <1>1, <1>5, <3>2
      <4> QED
        BY <1>1, <3>0, <3>1, <3>2, <4>1
    <3>3. CASE n = 0
      <4>1. "E0ESC" \notin shift'
        BY <1>1, <3>1, <3>3
      <4>2. CASE k.esc
        BY <1>5, <1>6, <3>3, <4>1, <4>2
      <4>3. CASE ~k.esc
        BY <1>5, <1>6, <1>7, <3>3, <4>1, <4>3
      <4> QED
        BY <4>2, <4>3
    <3> QED
      BY <1>1, <3>2, <3>3
  <2> QED
    BY <1>5, <2>1, <2>2 DEF EscapesPaired, Completes
<1>11. (\E F \in [0 .. Len(queue) -> SUBSET Flags] : LeadsToLatest(F))'
  <2>1. PICK F \in [0 .. n -> SUBSET Flags] : LeadsToLatest(F)
    BY DEF KbdInv, n
  <2>2. F[0] = shift \ {"E0ESC"} /\ F[n] = latest
        /\ \A i \in 1 .. n :
              /\ F[i] = FlagsAfter(F[i - 1], queue[i])
              /\ queue[i].byte = "code" /\ ~queue[i].release => queue[i].meant = CharOf(F[i], queue[i].event)
    BY <1>1, <2>1 DEF LeadsToLatest, n
  <2> DEFINE G == [i \in 0 .. d |-> IF i <= n THEN F[i] ELSE IF i < d THEN latest ELSE latest']
  <2>3. G \in [0 .. d -> SUBSET Flags]
    <3>1. latest \in SUBSET Flags /\ latest' \in SUBSET Flags
      BY <1>8 DEF KbdInv, KbdTypeOK
    <3>2. \A i \in 0 .. d : i <= n => F[i] \in SUBSET Flags
      BY <1>1, <1>7
    <3> QED
      BY <3>1, <3>2
  <2>4. G[0] = F[0] /\ G[d] = latest' /\ \A i \in 0 .. n : G[i] = F[i] /\ (k.esc => G[n + 1] = latest)
    BY <1>1, <1>7
  <2> HIDE DEF G
  <2>5. \A i \in 1 .. d :
          /\ G[i] = FlagsAfter(G[i - 1], queue'[i])
          /\ queue'[i].byte = "code" /\ ~queue'[i].release => queue'[i].meant = CharOf(G[i], queue'[i].event)
    <3> TAKE i \in 1 .. d
    <3>1. CASE i \in 1 .. n
      <4>1. queue'[i] = queue[i] /\ G[i] = F[i] /\ G[i - 1] = F[i - 1]
        BY <1>1, <1>5, <2>4, <3>1
      <4> QED
        BY <2>2, <3>1, <4>1
    <3>2. CASE k.esc /\ i = n + 1
      <4>1. queue'[i] = e /\ G[i] = latest /\ G[i - 1] = latest
        BY <1>1, <1>5, <2>2, <2>4, <3>2
      <4> QED
        BY <1>6, <4>1 DEF FlagsAfter
    <3>3. CASE i = d
      <4>1. queue'[i] = c /\ G[i] = latest' /\ G[i - 1] = latest
        <5>1. CASE k.esc
          BY <1>1, <1>5, <1>7, <2>4, <3>3, <5>1
        <5>2. CASE ~k.esc
          BY <1>1, <1>5, <1>7, <2>2, <2>4, <3>3, <5>2
        <5> QED
          BY <5>1, <5>2
      <4>2. FlagsAfter(latest, c) = latest'
        BY <1>6 DEF FlagsAfter
      <4> QED
        BY <1>6, <4>1, <4>2
    <3> QED
      BY <1>7, <3>1, <3>2, <3>3
  <2>6. \E H \in [0 .. Len(queue') -> SUBSET Flags] :
           /\ H[0] = shift' \ {"E0ESC"} /\ H[Len(queue')] = latest'
           /\ \A i \in DOMAIN queue' :
                 /\ H[i] = FlagsAfter(H[i - 1], queue'[i])
                 /\ queue'[i].byte = "code" /\ ~queue'[i].release => queue'[i].meant = CharOf(H[i], queue'[i].event)
    BY <1>5, <2>2, <2>3, <2>4, <2>5
  <2> QED
    BY <2>6 DEF LeadsToLatest
<1>12. ModifiersDown' /\ TypedAsMeant' /\ RebootIsMeant'
  BY DEF KbdInv, ModifiersDown, TypedAsMeant, RebootIsMeant, Down
<1> QED
  BY <1>9, <1>10, <1>11, <1>12 DEF KbdInv

LEMMA PressKeeps == ASSUME KbdInv, NEW k \in Key, Press(k) PROVE KbdInv'
<1>1. /\ latest' = Toggled(latest \cup ModifierOf(k), togglecode(k))
      /\ queue' = queue \o Codes(k, FALSE, CharOf(latest', k))
      /\ shift' = shift /\ seen' = seen /\ decoded' = decoded
  BY DEF Press
<1> DEFINE m == CharOf(latest', k)
<1>2. m \in 0 .. 255 /\ queue' = queue \o Codes(k, FALSE, m) /\ m = CharOf(latest', k)
  BY <1>1, CharFacts
<1> HIDE DEF m
<1> QED
  BY <1>1, <1>2, EventKeeps

LEMMA ReleaseKeeps == ASSUME KbdInv, NEW k \in Key, Release(k) PROVE KbdInv'
<1>1. /\ latest' = latest \ ModifierOf(k)
      /\ queue' = queue \o Codes(k, TRUE, NO)
      /\ shift' = shift /\ seen' = seen /\ decoded' = decoded /\ NO \in 0 .. 255
  BY DEF Release, NO
<1> QED
  BY <1>1, EventKeeps

----------------------------------------------------------------------------
\* kbd_proc_data.

\* The flags after the code that is read, as the codes that wait have them.
LEMMA NextFlags ==
  ASSUME KbdInv, queue # <<>>
  PROVE  \E F \in [0 .. Len(queue) -> SUBSET Flags] :
            LeadsToLatest(F) /\ F[1] = FlagsAfter(shift \ {"E0ESC"}, queue[1])
            /\ (queue[1].byte = "code" /\ ~queue[1].release => queue[1].meant = CharOf(F[1], queue[1].event))
            /\ F[1] \in SUBSET Flags
<1>1. PICK F \in [0 .. Len(queue) -> SUBSET Flags] : LeadsToLatest(F)
  BY DEF KbdInv
<1>2. 1 \in DOMAIN queue /\ 1 \in 0 .. Len(queue)
  BY QueueFacts DEF KbdInv
<1>3. 1 - 1 = 0
  OBVIOUS
<1>4. /\ F[0] = shift \ {"E0ESC"} /\ F[1] = FlagsAfter(F[1 - 1], queue[1])
      /\ (queue[1].byte = "code" /\ ~queue[1].release => queue[1].meant = CharOf(F[1], queue[1].event))
  BY <1>1, <1>2 DEF LeadsToLatest
<1> QED
  BY <1>1, <1>2, <1>3, <1>4

LEMMA EscapeKeeps == ASSUME KbdInv, Escape PROVE KbdInv'
<1>1. Reads("E0", BOOLEAN) /\ shift' = shift \cup {"E0ESC"} /\ decoded' = Nothing /\ seen' = seen
  BY DEF Escape
<1>2. /\ queue # <<>> /\ queue[1].byte = "E0" /\ queue' \in Seq(ScanCode) /\ latest' = latest
  BY <1>1, ReadsFacts DEF KbdInv
<1>3. PICK F \in [0 .. Len(queue) -> SUBSET Flags] :
         LeadsToLatest(F) /\ F[1] = FlagsAfter(shift \ {"E0ESC"}, queue[1])
  BY <1>2, NextFlags
<1>4. F[1] = shift' \ {"E0ESC"}
  BY <1>1, <1>2, <1>3 DEF FlagsAfter
<1>5. (\E G \in [0 .. Len(queue) -> SUBSET Flags] : LeadsToLatest(G))'
  BY <1>1, <1>3, <1>4, LeadsMove
<1>6. EscapesPaired'
  BY <1>1, EscapesMove
<1>7. KbdTypeOK'
  BY <1>1, <1>2 DEF KbdInv, KbdTypeOK, Nothing, NO
<1>8. ModifiersDown'
  BY <1>1 DEF KbdInv, ModifiersDown, Down
<1>9. TypedAsMeant' /\ RebootIsMeant'
  BY <1>1 DEF TypedAsMeant, RebootIsMeant, Nothing
<1> QED
  BY <1>5, <1>6, <1>7, <1>8, <1>9 DEF KbdInv

LEMMA KeyReleasedKeeps == ASSUME KbdInv, KeyReleased PROVE KbdInv'
<1>1. /\ Reads("code", {TRUE}) /\ decoded' = Nothing
      /\ shift' = ReleaseShift(KeyRead) /\ seen' = seen \ {Head(queue).event}
  BY DEF KeyReleased
<1>2. /\ queue # <<>> /\ queue[1].byte = "code" /\ queue[1].release = TRUE /\ Head(queue) = queue[1]
      /\ queue' \in Seq(ScanCode) /\ latest' = latest
  <2>1. /\ queue # <<>> /\ queue[1].byte = "code" /\ queue[1].release \in {TRUE} /\ Head(queue) = queue[1]
        /\ queue[1] \in ScanCode /\ queue' \in Seq(ScanCode) /\ latest' = latest
    BY <1>1, ReadsFacts DEF KbdInv
  <2>2. queue[1].release = TRUE
    BY <2>1, Zenon
  <2> QED
    BY <2>1, <2>2
<1> DEFINE k == queue[1].event
<1>3. KeyRead = k
  BY <1>2, KeyReadFacts
<1>4. shift' = shift \ (ModifierOf(k) \cup {"E0ESC"}) /\ seen' = seen \ {k}
  BY <1>1, <1>2, <1>3 DEF ReleaseShift, shiftcode
<1>5. PICK F \in [0 .. Len(queue) -> SUBSET Flags] :
         LeadsToLatest(F) /\ F[1] = FlagsAfter(shift \ {"E0ESC"}, queue[1])
  BY <1>2, NextFlags
<1>6. F[1] = (shift \ {"E0ESC"}) \ ModifierOf(k)
  BY <1>2, <1>5 DEF FlagsAfter
<1> HIDE DEF k
<1>7. F[1] = shift' \ {"E0ESC"} /\ "E0ESC" \notin shift'
  BY <1>4, <1>6
<1>8. (\E G \in [0 .. Len(queue) -> SUBSET Flags] : LeadsToLatest(G))'
  BY <1>1, <1>5, <1>7, LeadsMove
<1>9. EscapesPaired'
  BY <1>1, <1>7, EscapesMove
<1>10. KbdTypeOK'
  BY <1>1, <1>2, <1>4 DEF KbdInv, KbdTypeOK, Nothing, NO
<1>11. ModifiersDown'
  <2> SUFFICES ASSUME NEW m \in shift' \cap {"SHIFT", "CTL", "ALT"}
               PROVE  \E x \in seen' : m \in ModifierOf(x)
    BY DEF ModifiersDown, Down
  <2>1. m \in shift \cap {"SHIFT", "CTL", "ALT"} /\ m \notin ModifierOf(k)
    BY <1>4
  <2>2. PICK x \in seen : m \in ModifierOf(x)
    BY <2>1 DEF KbdInv, ModifiersDown, Down
  <2> QED
    BY <1>4, <2>1, <2>2
<1>12. TypedAsMeant' /\ RebootIsMeant'
  BY <1>1 DEF TypedAsMeant, RebootIsMeant, Nothing
<1> QED
  BY <1>8, <1>9, <1>10, <1>11, <1>12 DEF KbdInv

LEMMA KeyPressedKeeps ==
  ASSUME KbdInv, KeyPressed
  PROVE  KbdInv' /\ \E k \in Key, flags \in SUBSET {"CTL", "SHIFT", "CAPSLOCK"} : decoded'.char = CharOf(flags, k)
<1> DEFINE k == queue[1].event
           c == CharOf(shift', KeyRead)
<1>1. /\ Reads("code", {FALSE})
      /\ shift' = Toggled(AfterPress(KeyRead), togglecode(KeyRead))
      /\ decoded' = [char |-> c, meant |-> Head(queue).meant, reboot |-> Reboots(shift', c)]
      /\ seen' = seen \cup {Head(queue).event}
  BY DEF KeyPressed
<1>2. /\ queue # <<>> /\ queue[1].byte = "code" /\ queue[1].release = FALSE /\ Head(queue) = queue[1]
      /\ queue[1] \in ScanCode /\ queue' \in Seq(ScanCode) /\ latest' = latest
  <2>1. /\ queue # <<>> /\ queue[1].byte = "code" /\ queue[1].release \in {FALSE} /\ Head(queue) = queue[1]
        /\ queue[1] \in ScanCode /\ queue' \in Seq(ScanCode) /\ latest' = latest
    BY <1>1, ReadsFacts DEF KbdInv
  <2>2. queue[1].release = FALSE
    BY <2>1, Zenon
  <2> QED
    BY <2>1, <2>2
<1>3. KeyRead = k /\ k \in Key
  BY <1>2, KeyReadFacts, ScanCodeFields
<1>4. shift' = Toggled((shift \ {"E0ESC"}) \cup ModifierOf(k), togglecode(k)) /\ seen' = seen \cup {k}
  BY <1>1, <1>2, <1>3 DEF AfterPress, shiftcode
<1>5. PICK F \in [0 .. Len(queue) -> SUBSET Flags] :
         /\ LeadsToLatest(F) /\ F[1] = FlagsAfter(shift \ {"E0ESC"}, queue[1]) /\ F[1] \in SUBSET Flags
         /\ (queue[1].byte = "code" /\ ~queue[1].release => queue[1].meant = CharOf(F[1], queue[1].event))
  BY <1>2, NextFlags
<1>6. F[1] = shift' /\ queue[1].meant = CharOf(F[1], k)
  BY <1>2, <1>4, <1>5 DEF FlagsAfter
<1>7. c = queue[1].meant /\ c = CharOf(shift', k)
  BY <1>3, <1>6
<1> HIDE DEF k, c
<1>8. shift' \in SUBSET Flags /\ "E0ESC" \notin shift' /\ F[1] = shift' \ {"E0ESC"}
  BY <1>5, <1>6 DEF Flags
<1>9. (\E G \in [0 .. Len(queue) -> SUBSET Flags] : LeadsToLatest(G))'
  BY <1>1, <1>5, <1>8, LeadsMove
<1>10. EscapesPaired'
  BY <1>1, <1>8, EscapesMove
<1>11. decoded'.char = c /\ decoded'.meant = queue[1].meant /\ decoded'.reboot = Reboots(shift', c)
  BY <1>1, <1>2
<1>12. KbdTypeOK'
  <2>1. queue[1].meant \in 0 .. 255 /\ c \in 0 .. 255
    <3>1. queue[1].meant \in 0 .. 255
      BY <1>2, ScanCodeFields
    <3> QED
      BY <3>1, <1>7
  <2>2. Reboots(shift', c) \in BOOLEAN
    BY DEF Reboots
  <2>3. decoded' \in [char : 0 .. 255, meant : 0 .. 255, reboot : BOOLEAN]
    BY <1>1, <1>2, <2>1, <2>2
  <2> QED
    BY <1>2, <1>8, <2>3 DEF KbdInv, KbdTypeOK
<1>13. ModifiersDown'
  <2> SUFFICES ASSUME NEW m \in shift' \cap {"SHIFT", "CTL", "ALT"}
               PROVE  \E x \in seen' : m \in ModifierOf(x)
    BY DEF ModifiersDown, Down
  <2>1. m \in shift \/ m \in ModifierOf(k)
    BY <1>4, ToggleFacts DEF Toggled
  <2>2. CASE m \in shift
    <3>1. PICK x \in seen : m \in ModifierOf(x)
      BY <2>2 DEF KbdInv, ModifiersDown, Down
    <3> QED
      BY <1>4, <3>1
  <2>3. CASE m \in ModifierOf(k)
    BY <1>4, <2>3
  <2> QED
    BY <2>1, <2>2, <2>3
<1>14. TypedAsMeant'
  BY <1>7, <1>11 DEF TypedAsMeant
<1>15. RebootIsMeant'
  <2> SUFFICES ASSUME Reboots(shift', c)
               PROVE  Down("CTL")' # {} /\ Down("ALT")' # {} /\ DeleteKey \in seen'
    BY <1>11 DEF RebootIsMeant, DeleteKey
  <2>1. "CTL" \in shift' /\ "ALT" \in shift' /\ c = KEY_DEL
    BY DEF Reboots
  <2>2. k = DeleteKey
    BY <1>7, <2>1, CharFacts
  <2> QED
    BY <1>4, <1>13, <2>1, <2>2 DEF ModifiersDown
<1>16. \E x \in Key, flags \in SUBSET {"CTL", "SHIFT", "CAPSLOCK"} : decoded'.char = CharOf(flags, x)
  <2> DEFINE f == shift' \cap {"CTL", "SHIFT", "CAPSLOCK"}
  <2>1. CharOf(shift', k) = CharOf(f, k) /\ f \in SUBSET {"CTL", "SHIFT", "CAPSLOCK"}
    BY CharFacts
  <2> HIDE DEF f
  <2> QED
    BY <1>3, <1>7, <1>11, <2>1
<1> QED
  BY <1>9, <1>10, <1>12, <1>13, <1>14, <1>15, <1>16 DEF KbdInv

----------------------------------------------------------------------------
(***************************************************************************)
(* The ring buffer as a sequence q of n characters.                        *)
(***************************************************************************)
RingDescribed(q, n, b, r, V) ==
  /\ n \in 0 .. CONSOLE_BUFFER_SIZE - 1 /\ q \in Seq(V) /\ Len(q) = n
  /\ \A k \in 1 .. n : RingPlace(r, k) \in Slot /\ q[k] = b[RingPlace(r, k)]

LEMMA RingFacts ==
  ASSUME NEW V, NEW b \in [Slot -> V], NEW r \in Slot, NEW w \in Slot
  PROVE  RingDescribed(RingSeq(b, r, w), RingLen(r, w), b, r, V)
<1>1. CONSOLE_BUFFER_SIZE \in Nat /\ CONSOLE_BUFFER_SIZE > 1
  BY ConsoleAssumption
<1> DEFINE n == RingLen(r, w)
           q == RingSeq(b, r, w)
<1>2. n \in 0 .. CONSOLE_BUFFER_SIZE - 1
  BY <1>1 DEF RingLen, Slot
<1>3. q = [k \in 1 .. n |-> b[RingPlace(r, k)]]
  BY DEF RingSeq
<1> HIDE DEF n, q
<1>4. \A k \in 1 .. n : RingPlace(r, k) \in Slot
  BY <1>1, <1>2 DEF RingPlace, Slot
<1>5. q \in [1 .. n -> V]
  BY <1>3, <1>4
<1>6. q \in Seq(V) /\ Len(q) = n
  BY <1>2, <1>5
<1>7. \A k \in 1 .. n : q[k] = b[RingPlace(r, k)]
  BY <1>3
<1> QED
  BY <1>2, <1>4, <1>6, <1>7 DEF n, q, RingDescribed

Stored(b2, b, w, c) == b2 = [b EXCEPT ![w] = c]

Appended(q2, q, c) == q2 = IF Len(q) < CONSOLE_BUFFER_SIZE - 1 THEN Append(q, c) ELSE <<>>

\* Storing a character appends it, or leaves the buffer empty if it was full.
LEMMA RingPut ==
  ASSUME NEW V, NEW b \in [Slot -> V], NEW r \in Slot, NEW w \in Slot, NEW c \in V,
         NEW b2, Stored(b2, b, w, c)
  PROVE  Appended(RingSeq(b2, r, Advance(w)), RingSeq(b, r, w), c)
<1>0. b2 = [b EXCEPT ![w] = c]
  BY DEF Stored
<1>1. CONSOLE_BUFFER_SIZE \in Nat /\ CONSOLE_BUFFER_SIZE > 1
  BY ConsoleAssumption
<1> DEFINE w2 == Advance(w)
           n  == RingLen(r, w)
           n2 == RingLen(r, w2)
           q  == RingSeq(b, r, w)
           q2 == RingSeq(b2, r, w2)
<1>2. w2 \in Slot /\ b2 \in [Slot -> V]
  BY <1>0, <1>1 DEF Advance, Slot
<1>3. /\ n \in 0 .. CONSOLE_BUFFER_SIZE - 1 /\ q \in Seq(V) /\ Len(q) = n
      /\ \A k \in 1 .. n : RingPlace(r, k) \in Slot /\ q[k] = b[RingPlace(r, k)]
  <2>1. RingDescribed(q, n, b, r, V)
    BY RingFacts
  <2> HIDE DEF q, n
  <2> QED
    BY <2>1 DEF RingDescribed
<1>4. /\ n2 \in 0 .. CONSOLE_BUFFER_SIZE - 1 /\ q2 \in Seq(V) /\ Len(q2) = n2
      /\ \A k \in 1 .. n2 : RingPlace(r, k) \in Slot /\ q2[k] = b2[RingPlace(r, k)]
  <2> HIDE DEF w2
  <2>1. RingDescribed(q2, n2, b2, r, V)
    BY <1>2, RingFacts
  <2> HIDE DEF q2, n2
  <2> QED
    BY <2>1 DEF RingDescribed
<1>5. n2 = IF n < CONSOLE_BUFFER_SIZE - 1 THEN n + 1 ELSE 0
  BY <1>1 DEF RingLen, Advance, Slot
<1>6. (\A k \in 1 .. n : RingPlace(r, k) # w) /\ RingPlace(r, n + 1) = w
  BY <1>1 DEF RingLen, RingPlace, Slot
<1> HIDE DEF w2, n, n2, q, q2
<1>7. CASE n < CONSOLE_BUFFER_SIZE - 1
  <2> DEFINE a == Append(q, c)
  <2>1. a \in Seq(V) /\ Len(a) = n + 1 /\ a[n + 1] = c /\ \A k \in 1 .. n : a[k] = q[k]
    BY <1>3
  <2> HIDE DEF a
  <2>2. Len(q2) = n + 1 /\ n2 = n + 1
    BY <1>4, <1>5, <1>7
  <2>3. \A k \in 1 .. n + 1 : q2[k] = a[k]
    <3> TAKE k \in 1 .. n + 1
    <3>1. q2[k] = b2[RingPlace(r, k)] /\ RingPlace(r, k) \in Slot
      BY <1>4, <2>2
    <3>2. CASE k \in 1 .. n
      <4>1. b2[RingPlace(r, k)] = b[RingPlace(r, k)]
        BY <1>0, <1>6, <3>1, <3>2
      <4> QED
        BY <1>3, <2>1, <3>1, <3>2, <4>1
    <3>3. CASE k = n + 1
      BY <1>0, <1>6, <2>1, <3>1, <3>3
    <3> QED
      BY <1>3, <3>2, <3>3
  <2>4. q2 = a
    BY <1>4, <2>1, <2>2, <2>3
  <2> QED
    BY <1>3, <1>7, <2>4 DEF Appended, a, q, q2, w2
<1>8. CASE ~(n < CONSOLE_BUFFER_SIZE - 1)
  <2>1. q2 = <<>>
    BY <1>4, <1>5, <1>8
  <2> QED
    BY <1>3, <1>8, <2>1 DEF Appended, q, q2, w2
<1> QED
  BY <1>7, <1>8

\* Taking a character removes the first one.
LEMMA RingTake ==
  ASSUME NEW V, NEW b \in [Slot -> V], NEW r \in Slot, NEW w \in Slot, r # w
  PROVE  /\ RingSeq(b, r, w) # <<>> /\ b[r] = Head(RingSeq(b, r, w))
         /\ RingSeq(b, Advance(r), w) = Tail(RingSeq(b, r, w))
<1>1. CONSOLE_BUFFER_SIZE \in Nat /\ CONSOLE_BUFFER_SIZE > 1
  BY ConsoleAssumption
<1> DEFINE r2 == Advance(r)
           n  == RingLen(r, w)
           n2 == RingLen(r2, w)
           q  == RingSeq(b, r, w)
           q2 == RingSeq(b, r2, w)
<1>2. r2 \in Slot
  BY <1>1 DEF Advance, Slot
<1>3. /\ n \in 0 .. CONSOLE_BUFFER_SIZE - 1 /\ q \in Seq(V) /\ Len(q) = n
      /\ \A k \in 1 .. n : RingPlace(r, k) \in Slot /\ q[k] = b[RingPlace(r, k)]
  <2>1. RingDescribed(q, n, b, r, V)
    BY RingFacts
  <2> HIDE DEF q, n
  <2> QED
    BY <2>1 DEF RingDescribed
<1>4. /\ n2 \in 0 .. CONSOLE_BUFFER_SIZE - 1 /\ q2 \in Seq(V) /\ Len(q2) = n2
      /\ \A k \in 1 .. n2 : q2[k] = b[RingPlace(r2, k)]
  <2> HIDE DEF r2
  <2>1. RingDescribed(q2, n2, b, r2, V)
    BY <1>2, RingFacts
  <2> HIDE DEF q2, n2
  <2> QED
    BY <2>1 DEF RingDescribed
<1>5. n > 0 /\ n2 = n - 1
  BY <1>1 DEF RingLen, Advance, Slot
<1>6. RingPlace(r, 1) = r /\ \A k \in 1 .. n - 1 : RingPlace(r2, k) = RingPlace(r, k + 1)
  BY <1>1, <1>3 DEF RingPlace, Advance, Slot
<1> HIDE DEF r2, n, n2, q, q2
<1>7. q # <<>> /\ Head(q) = q[1] /\ q[1] = b[r]
  BY <1>3, <1>5, <1>6
<1> DEFINE a == Tail(q)
<1>8. a \in Seq(V) /\ Len(a) = n - 1 /\ \A k \in 1 .. n - 1 : a[k] = q[k + 1]
  BY <1>3, <1>7
<1> HIDE DEF a
<1>9. \A k \in 1 .. n - 1 : q2[k] = a[k]
  <2> TAKE k \in 1 .. n - 1
  <2>1. k + 1 \in 1 .. n
    BY <1>3
  <2> QED
    BY <1>3, <1>4, <1>5, <1>6, <1>8, <2>1
<1>10. q2 = a
  BY <1>4, <1>5, <1>8, <1>9
<1> QED
  BY <1>7, <1>10 DEF a, q, q2, r2

\* The buffer is empty if the positions are equal.
LEMMA RingEmpty ==
  ASSUME NEW V, NEW b \in [Slot -> V], NEW r \in Slot
  PROVE  RingSeq(b, r, r) = <<>>
<1>1. RingLen(r, r) = 0
  BY ConsoleAssumption DEF RingLen, Slot
<1>2. RingSeq(b, r, r) \in Seq(V) /\ Len(RingSeq(b, r, r)) = 0
  BY <1>1, RingFacts DEF RingDescribed
<1> QED
  BY <1>2

----------------------------------------------------------------------------
(***************************************************************************)
(* The console: one lemma for each kind of step, which gives the invariant *)
(* and the step of InputQueue, if any, that the step implements.           *)
(***************************************************************************)
LEMMA KbdStays == ASSUME KbdInv, UNCHANGED kbdVars PROVE KbdInv'
<1>1. /\ shift' = shift /\ queue' = queue /\ latest' = latest /\ seen' = seen /\ decoded' = decoded
  BY DEF kbdVars
<1>2. PICK F \in [0 .. Len(queue) -> SUBSET Flags] : LeadsToLatest(F)
  BY DEF KbdInv
<1>3. (\E G \in [0 .. Len(queue) -> SUBSET Flags] : LeadsToLatest(G))'
  BY <1>1, <1>2 DEF LeadsToLatest
<1>4. KbdTypeOK'
  BY <1>1 DEF KbdInv, KbdTypeOK
<1>5. EscapesPaired'
  BY <1>1 DEF KbdInv, EscapesPaired
<1>6. ModifiersDown' /\ TypedAsMeant' /\ RebootIsMeant'
  BY <1>1 DEF KbdInv, ModifiersDown, Down, TypedAsMeant, RebootIsMeant
<1> QED
  BY <1>3, <1>4, <1>5, <1>6 DEF KbdInv

\* The driver keeps its invariant, and returns 0 or the character of a key.
LEMMA KbdReads ==
  ASSUME KbdInv, kbd_proc_data
  PROVE  /\ KbdInv'
         /\ \/ decoded'.char = 0
            \/ \E k \in Key, flags \in SUBSET {"CTL", "SHIFT", "CAPSLOCK"} : decoded'.char = CharOf(flags, k)
<1>1. CASE Escape
  BY <1>1, EscapeKeeps DEF Escape, Nothing, NO
<1>2. CASE KeyReleased
  BY <1>2, KeyReleasedKeeps DEF KeyReleased, Nothing, NO
<1>3. CASE KeyPressed
  BY <1>3, KeyPressedKeeps
<1> QED
  BY <1>1, <1>2, <1>3 DEF kbd_proc_data

\* What a driver returns, kept as a char: the sign makes no character 0.
DriverChar == SerialByte \cup {CharOf(flags, k) : flags \in SUBSET {"CTL", "SHIFT", "CAPSLOCK"}, k \in Key}

LEMMA CharNotZero ==
  ASSUME NEW c \in DriverChar, c # 0
  PROVE  AsChar(c) \in AnyChar \ {0}
<1>1. c \in 0 .. 255
  <2>1. CASE c \in SerialByte
    BY <2>1, ConsoleAssumption
  <2>2. CASE \E flags \in SUBSET {"CTL", "SHIFT", "CAPSLOCK"}, k \in Key : c = CharOf(flags, k)
    <3>1. PICK flags \in SUBSET {"CTL", "SHIFT", "CAPSLOCK"}, k \in Key : c = CharOf(flags, k)
      BY <2>2
    <3>2. CharOf(flags, k) \in 0 .. 255
      BY CharFacts
    <3> QED
      BY <3>1, <3>2
  <2> QED
    BY <2>1, <2>2 DEF DriverChar
<1>2. AsChar(c) # 0
  BY <1>1 DEF AsChar
<1>3. AsChar(c) \in AnyChar
  BY DEF AnyChar, DriverChar
<1> QED
  BY <1>2, <1>3

\* Where a step leaves the buffer alone, so does the abstract one.
LEMMA RingStays ==
  ASSUME ConsTypeOK, buf' = buf, rpos' = rpos, wpos' = wpos, line' \in Seq(SerialByte)
  PROVE  ConsTypeOK' /\ Waiting' = Waiting
  BY DEF ConsTypeOK, Waiting

LEMMA RingStores ==
  ASSUME ConsTypeOK, NEW c \in DriverChar \cup {0}, cons_intr(c), line' \in Seq(SerialByte)
  PROVE  ConsTypeOK' /\ [Input!QNext]_Input!qVars
<1>1. rpos' = rpos /\ result' = result
  BY DEF cons_intr
<1>2. CASE c = 0
  <2>1. buf' = buf /\ wpos' = wpos /\ read' = read
    BY <1>2 DEF cons_intr
  <2> QED
    BY <1>1, <2>1, RingStays DEF Input!qVars
<1>3. CASE c # 0
  <2> DEFINE v == AsChar(c)
             V == AnyChar \cup {0}
  <2>1. buf' = [buf EXCEPT ![wpos] = v] /\ wpos' = Advance(wpos) /\ read' = ~read
    BY <1>3 DEF cons_intr, Store
  <2>2. v \in AnyChar \ {0}
    BY <1>3, CharNotZero
  <2>3. buf \in [Slot -> V] /\ rpos \in Slot /\ wpos \in Slot /\ v \in V
    BY <2>2 DEF ConsTypeOK
  <2> HIDE DEF v, V
  <2>4. Stored(buf', buf, wpos, v)
    BY <2>1 DEF Stored
  <2>5. Waiting' = IF Len(Waiting) < CONSOLE_BUFFER_SIZE - 1 THEN Append(Waiting, v) ELSE <<>>
    <3>1. Appended(RingSeq(buf', rpos, Advance(wpos)), RingSeq(buf, rpos, wpos), v)
      BY <2>3, <2>4, RingPut
    <3> QED
      BY <1>1, <2>1, <3>1 DEF Waiting, Appended
  <2>6. Input!Put(v)
    BY <1>1, <2>1, <2>5 DEF Input!Put
  <2>7. Input!QNext
    BY <2>2, <2>6 DEF Input!QNext
  <2>8. Advance(wpos) \in Slot
    BY <2>3, ConsoleAssumption DEF Advance, Slot
  <2>9. buf' \in [Slot -> V]
    BY <2>1, <2>3
  <2>10. ConsTypeOK'
    BY <1>1, <2>1, <2>3, <2>8, <2>9 DEF ConsTypeOK, V
  <2> QED
    BY <2>7, <2>10
<1> QED
  BY <1>2, <1>3

LEMMA RingTakes ==
  ASSUME ConsTypeOK, TakeChar
  PROVE  ConsTypeOK' /\ Input!QNext
<1> DEFINE V == AnyChar \cup {0}
<1>1. /\ buf' = buf /\ wpos' = wpos /\ read' = read /\ line' = line
  BY DEF TakeChar
<1>2. buf \in [Slot -> V] /\ rpos \in Slot /\ wpos \in Slot
  BY DEF ConsTypeOK
<1> HIDE DEF V
<1>3. CASE rpos # wpos
  <2>1. result' = buf[rpos] /\ rpos' = Advance(rpos)
    BY <1>3 DEF TakeChar
  <2>2. /\ RingSeq(buf, rpos, wpos) # <<>> /\ buf[rpos] = Head(RingSeq(buf, rpos, wpos))
        /\ RingSeq(buf, Advance(rpos), wpos) = Tail(RingSeq(buf, rpos, wpos))
    BY <1>2, <1>3, RingTake
  <2>3. Input!Take
    BY <1>1, <2>1, <2>2 DEF Input!Take, Waiting
  <2>4. Advance(rpos) \in Slot
    BY <1>2, ConsoleAssumption DEF Advance, Slot
  <2> QED
    BY <1>1, <2>1, <2>3, <2>4 DEF ConsTypeOK, Input!QNext
<1>4. CASE rpos = wpos
  <2>1. result' = 0 /\ rpos' = rpos
    BY <1>4 DEF TakeChar
  <2>2. RingSeq(buf, rpos, wpos) = <<>>
    BY <1>2, <1>4, RingEmpty
  <2>3. Input!TakeNothing
    BY <1>1, <2>1, <2>2 DEF Input!TakeNothing, Waiting
  <2> QED
    BY <1>1, <2>1, <2>3 DEF ConsTypeOK, Input!QNext
<1> QED
  BY <1>3, <1>4

LEMMA ConsStep ==
  ASSUME ConsInv, [ConsNext]_consVars
  PROVE  ConsInv' /\ [Input!QNext]_Input!qVars
<1>1. KbdInv /\ ConsTypeOK /\ line \in Seq(SerialByte)
  BY DEF ConsInv, ConsTypeOK
<1>2. CASE Arrive
  <2>1. /\ buf' = buf /\ rpos' = rpos /\ wpos' = wpos /\ read' = read /\ result' = result
    BY <1>2 DEF Arrive, cons
  <2>2. CASE \E c \in SerialByte : SerialArrives(c)
    <3>1. PICK c \in SerialByte : SerialArrives(c)
      BY <2>2
    <3>2. line' \in Seq(SerialByte) /\ KbdInv'
      BY <1>1, <3>1, KbdStays DEF SerialArrives
    <3> QED
      BY <1>1, <2>1, <3>2, RingStays DEF ConsInv, Input!qVars
  <2>3. CASE \E k \in Key : (Press(k) \/ Release(k)) /\ line' = line
    <3>1. PICK k \in Key : (Press(k) \/ Release(k)) /\ line' = line
      BY <2>3
    <3>2. KbdInv'
      BY <1>1, <3>1, PressKeeps, ReleaseKeeps
    <3> QED
      BY <1>1, <2>1, <3>1, <3>2, RingStays DEF ConsInv, Input!qVars
  <2> QED
    BY <1>2, <2>2, <2>3 DEF Arrive
<1>3. CASE serial_proc_data
  <2> DEFINE c == Head(line)
  <2>1. line # <<>> /\ line' = Tail(line) /\ cons_intr(c) /\ UNCHANGED kbdVars
    BY <1>3 DEF serial_proc_data
  <2>2. c \in SerialByte /\ line' \in Seq(SerialByte)
    BY <1>1, <2>1
  <2> HIDE DEF c
  <2>3. c \in DriverChar \cup {0}
    BY <2>2 DEF DriverChar
  <2> QED
    BY <1>1, <2>1, <2>2, <2>3, KbdStays, RingStores DEF ConsInv
<1>4. CASE keyboard_intr
  <2> DEFINE c == decoded'.char
  <2>1. kbd_proc_data /\ cons_intr(c) /\ line' = line
    BY <1>4 DEF keyboard_intr
  <2>2. KbdInv' /\ c \in DriverChar \cup {0}
    <3>1. KbdInv' /\ (c = 0 \/ \E k \in Key, flags \in SUBSET {"CTL", "SHIFT", "CAPSLOCK"} : c = CharOf(flags, k))
      BY ONLY <1>1, <2>1, KbdReads
    <3> HIDE DEF c
    <3> QED
      BY ONLY <3>1 DEF DriverChar
  <2> HIDE DEF c
  <2> QED
    BY <1>1, <2>1, <2>2, RingStores DEF ConsInv
<1>5. CASE TakeChar
  BY <1>1, <1>5, RingTakes, KbdStays DEF ConsInv, TakeChar
<1>6. CASE \/ cons_getc \/ cons_intr_end("serial") \/ cons_intr_end("keyboard")
           \/ UNCHANGED consVars
  <2>1. /\ buf' = buf /\ rpos' = rpos /\ wpos' = wpos /\ read' = read /\ result' = result
        /\ line' = line /\ UNCHANGED kbdVars
    BY <1>6 DEF cons_getc, cons_intr_end, consVars, cons
  <2> QED
    BY <1>1, <2>1, KbdStays, RingStays DEF ConsInv, Input!qVars
<1> QED
  BY <1>2, <1>3, <1>4, <1>5, <1>6 DEF ConsNext, GetcStep

----------------------------------------------------------------------------
(***************************************************************************)
(* The invariant of the keyboard and the console holds throughout.         *)
(***************************************************************************)
THEOREM ConsoleInvariant == ConsSpec => []ConsInv
<1>1. ConsInit => ConsInv
  <2> SUFFICES ASSUME ConsInit PROVE ConsInv
    OBVIOUS
  <2>1. /\ shift = {} /\ queue = <<>> /\ latest = {} /\ seen = {} /\ decoded = Nothing
        /\ buf = [s \in Slot |-> 0] /\ rpos = 0 /\ wpos = 0 /\ line = <<>>
    BY DEF ConsInit, KbdInit
  <2>2. ConsTypeOK
    BY <2>1, ConsoleAssumption DEF ConsTypeOK, Slot
  <2>3. KbdTypeOK
    <3> DEFINE T == ScanCode
    <3>1. queue \in Seq(T)
      BY <2>1
    <3>2. decoded \in [char : 0 .. 255, meant : 0 .. 255, reboot : BOOLEAN]
      BY <2>1 DEF Nothing, NO
    <3> QED
      BY <2>1, <3>1, <3>2 DEF KbdTypeOK
  <2>4. EscapesPaired
    BY <2>1 DEF EscapesPaired
  <2>5. \E F \in [0 .. Len(queue) -> SUBSET Flags] : LeadsToLatest(F)
    <3> DEFINE G == [i \in 0 .. 0 |-> {}]
    <3>1. Len(queue) = 0 /\ DOMAIN queue = {}
      BY <2>1
    <3>2. G \in [0 .. Len(queue) -> SUBSET Flags] /\ G[0] = {}
      BY <3>1
    <3> HIDE DEF G
    <3>3. LeadsToLatest(G)
      BY <2>1, <3>1, <3>2 DEF LeadsToLatest
    <3> QED
      BY <3>2, <3>3
  <2>6. ModifiersDown /\ TypedAsMeant /\ RebootIsMeant
    BY <2>1 DEF ModifiersDown, TypedAsMeant, RebootIsMeant, Nothing
  <2> QED
    BY <2>2, <2>3, <2>4, <2>5, <2>6 DEF ConsInv, KbdInv
<1>2. ConsInv /\ [ConsNext]_consVars => ConsInv'
  BY ConsStep
<1> QED
  BY <1>1, <1>2, PTL DEF ConsSpec

(***************************************************************************)
(* Each press is read as the character of its key under the modifiers and  *)
(* locks as the events before it left them, for every set of keys and      *)
(* every order of presses, repeats and releases.                           *)
(***************************************************************************)
THEOREM KeysTypedAsMeant == ConsSpec => []TypedAsMeant
<1>1. ConsInv => TypedAsMeant
  BY DEF ConsInv, KbdInv
<1> QED
  BY <1>1, ConsoleInvariant, PTL

(***************************************************************************)
(* kbd_proc_data reboots the machine only while a control key, an alt key  *)
(* and Delete are down.                                                    *)
(***************************************************************************)
THEOREM NoStrayReboot == ConsSpec => []RebootIsMeant
<1>1. ConsInv => RebootIsMeant
  BY DEF ConsInv, KbdInv
<1> QED
  BY <1>1, ConsoleInvariant, PTL

(***************************************************************************)
(* The ring buffer of cons_intr and cons_getc implements InputQueue, for   *)
(* every CONSOLE_BUFFER_SIZE above 1 and any input.                        *)
(***************************************************************************)
THEOREM RingRefinesQueue == ConsSpec => RingIsQueue
<1>1. ConsInit => Input!QInit
  <2> SUFFICES ASSUME ConsInit PROVE Input!QInit
    OBVIOUS
  <2>1. buf \in [Slot -> {0}] /\ rpos = 0 /\ wpos = 0 /\ 0 \in Slot /\ result = 0 /\ read = FALSE
    BY ConsoleAssumption DEF ConsInit, Slot
  <2>2. RingSeq(buf, rpos, wpos) = <<>>
    BY <2>1, RingEmpty
  <2> QED
    BY <2>1, <2>2 DEF Input!QInit, Waiting
<1>2. ConsInv /\ [ConsNext]_consVars => [Input!QNext]_Input!qVars
  BY ConsStep
<1> QED
  BY <1>1, <1>2, ConsoleInvariant, PTL DEF ConsSpec, RingIsQueue, Input!QSpec

----------------------------------------------------------------------------
\* The screen.

LEMMA ScreenFacts ==
  /\ CRT_COLS \in Nat \ {0} /\ CRT_SIZE \in Nat /\ CRT_SIZE >= 2 * CRT_COLS
  /\ BUFLEN \in Nat \ {0} /\ BUFLEN - 1 <= CRT_SIZE - CRT_COLS
<1>1. CRT_ROWS \in Nat /\ CRT_ROWS >= 2 /\ CRT_COLS \in Nat \ {0}
  BY ReadlineAssumption
<1>2. CRT_ROWS * CRT_COLS \in Nat /\ CRT_ROWS * CRT_COLS >= 2 * CRT_COLS
  BY <1>1
<1> QED
  BY <1>1, <1>2, ReadlineAssumption DEF CRT_SIZE

LEMMA Characters ==
  /\ Blank \in Printable /\ Printable \subseteq Glyph
  /\ Glyph \cap {"bs", "nl", "cr", "tab"} = {}
  BY ReadlineAssumption DEF Blank, Printable, Glyph

\* What Shows says of a record.
LEMMA ShowsIs ==
  ASSUME NEW p \in Int, NEW f, NEW s, NEW n \in Nat, Len(s) = n
  PROVE  Shows([pos |-> p, cell |-> f], s) <=>
           \A k \in 1 .. n : \A x \in 0 .. CRT_SIZE - 1 : x - k = p - n - 1 => f[x] = s[k]
  BY DEF Shows

LEMMA WithoutLast ==
  ASSUME NEW S, NEW s \in Seq(S), s # <<>>
  PROVE  LET r == SubSeq(s, 1, Len(s) - 1)
         IN  /\ Len(s) \in Nat \ {0} /\ r \in Seq(S) /\ Len(r) = Len(s) - 1
             /\ \A k \in 1 .. Len(s) - 1 : r[k] = s[k]
<1>1. Len(s) \in Nat /\ Len(s) # 0
  <2>1. Len(s) # 0
    BY EmptySeq, Zenon
  <2> QED
    BY <2>1
<1> DEFINE n == Len(s)
<1> HIDE DEF n
<1>2. 1 \in 1 .. n + 1 /\ n - 1 \in 1 - 1 .. n
  BY <1>1 DEF n
<1>3. /\ SubSeq(s, 1, n - 1) \in Seq(S)
      /\ Len(SubSeq(s, 1, n - 1)) = (IF 1 <= n - 1 THEN n - 1 - 1 + 1 ELSE 0)
      /\ \A i \in 1 .. n - 1 - 1 + 1 : SubSeq(s, 1, n - 1)[i] = s[1 + i - 1]
  BY <1>2, SubSeqProperties DEF n
<1>4. n \in Nat \ {0}
  BY <1>1 DEF n
<1>5. /\ Len(SubSeq(s, 1, n - 1)) = n - 1
      /\ \A i \in 1 .. n - 1 : SubSeq(s, 1, n - 1)[i] = s[i]
  BY <1>3, <1>4
<1> QED
  BY <1>3, <1>4, <1>5 DEF n

\* Scrolling keeps what is shown, as far as it stays on the screen.
LEMMA ScrollKeeps ==
  ASSUME NEW p \in 0 .. CRT_SIZE + CRT_COLS - 1, NEW f \in [0 .. CRT_SIZE - 1 -> Glyph],
         \A x \in p .. CRT_SIZE - 1 : f[x] = Blank
  PROVE  LET t == [pos |-> p, cell |-> f]
             u == ScrollIfFull(t)
         IN  /\ Settled(u)
             /\ u.pos = IF p >= CRT_SIZE THEN p - CRT_COLS ELSE p
             /\ \A s \in Seq(Glyph) : Shows(t, s) => Shows(u, s)
<1> USE ScreenFacts
<1> DEFINE t == [pos |-> p, cell |-> f]
<1>1. CASE p < CRT_SIZE
  <2>1. ScrollIfFull(t) = t
    BY <1>1 DEF ScrollIfFull
  <2>2. Settled(t)
    BY <1>1 DEF Settled, Terminal
  <2> QED
    BY <1>1, <2>1, <2>2
<1>2. CASE p >= CRT_SIZE
  <2> DEFINE q == p - CRT_COLS
             g == [x \in 0 .. CRT_SIZE - 1 |->
                     IF x < CRT_SIZE - CRT_COLS THEN f[x + CRT_COLS] ELSE Blank]
             u == [pos |-> q, cell |-> g]
  <2>1. ScrollIfFull(t) = u
    BY <1>2 DEF ScrollIfFull, Scroll
  <2>2. g \in [0 .. CRT_SIZE - 1 -> Glyph]
    BY Characters
  <2>3. q \in 0 .. CRT_SIZE - 1 /\ q >= CRT_SIZE - CRT_COLS
    BY <1>2
  <2>4. \A x \in q .. CRT_SIZE - 1 : g[x] = Blank
    BY <2>3
  <2>5. \A x \in 0 .. CRT_SIZE - 1 : x < CRT_SIZE - CRT_COLS => g[x] = f[x + CRT_COLS]
    OBVIOUS
  <2> HIDE DEF g
  <2>6. Settled(u)
    BY <2>2, <2>3, <2>4 DEF Settled, Terminal
  <2>7. ASSUME NEW s \in Seq(Glyph), Shows(t, s) PROVE Shows(u, s)
    <3> DEFINE n == Len(s)
    <3>1. n \in Nat
      OBVIOUS
    <3>2. \A k \in 1 .. n : \A x \in 0 .. CRT_SIZE - 1 : x - k = p - n - 1 => f[x] = s[k]
      BY <2>7 DEF Shows
    <3>3. SUFFICES ASSUME NEW k \in 1 .. n, NEW x \in 0 .. CRT_SIZE - 1, x - k = q - n - 1
                   PROVE  g[x] = s[k]
      BY DEF Shows
    <3> HIDE DEF n
    <3> DEFINE y == x + CRT_COLS
    <3>4. y - k = p - n - 1 /\ y \in 0 .. CRT_SIZE - 1 /\ x < CRT_SIZE - CRT_COLS
      BY <1>2, <3>1, <3>3
    <3>5. f[y] = s[k]
      BY <3>2, <3>4
    <3> QED
      BY <2>5, <3>4, <3>5
  <2>8. u.pos = q
    OBVIOUS
  <2> HIDE DEF u
  <2> QED
    BY <1>2, <2>1, <2>6, <2>7, <2>8
<1> QED
  BY <1>1, <1>2

\* A character written as it is goes after what is shown.
LEMMA PutGlyph ==
  ASSUME NEW t, Settled(t), NEW c \in Glyph
  PROVE  LET u == ScrollIfFull(WriteCell(t, c))
         IN  /\ Settled(u)
             /\ u.pos = t.pos + 1 \/ u.pos = CRT_SIZE - CRT_COLS
             /\ \A s \in Seq(Glyph) : Shows(t, s) => Shows(u, Append(s, c))
<1> USE ScreenFacts
<1> DEFINE p == t.pos
           f == t.cell
           g == [f EXCEPT ![p] = c]
           w == [pos |-> p + 1, cell |-> g]
<1>1. p \in 0 .. CRT_SIZE - 1 /\ f \in [0 .. CRT_SIZE - 1 -> Glyph]
  BY DEF Settled, Terminal
<1>2. \A x \in p .. CRT_SIZE - 1 : f[x] = Blank
  BY DEF Settled
<1>3. WriteCell(t, c) = w
  BY DEF WriteCell
<1>4. ASSUME NEW s \in Seq(Glyph)
      PROVE  Shows(t, s) <=>
               \A k \in 1 .. Len(s) : \A x \in 0 .. CRT_SIZE - 1 : x - k = p - Len(s) - 1 => f[x] = s[k]
  BY DEF Shows
<1> HIDE DEF p, f
<1>5. /\ g \in [0 .. CRT_SIZE - 1 -> Glyph] /\ g[p] = c
      /\ \A x \in 0 .. CRT_SIZE - 1 : x # p => g[x] = f[x]
  BY <1>1
<1> HIDE DEF g
<1>6. \A x \in p + 1 .. CRT_SIZE - 1 : g[x] = Blank
  BY <1>1, <1>2, <1>5
<1>7. ASSUME NEW s \in Seq(Glyph), Shows(t, s) PROVE Shows(w, Append(s, c))
  <2> DEFINE n == Len(s)
             r == Append(s, c)
  <2>1. n \in Nat /\ Len(r) = n + 1 /\ r[n + 1] = c /\ \A k \in 1 .. n : r[k] = s[k]
    OBVIOUS
  <2>2. \A k \in 1 .. n : \A x \in 0 .. CRT_SIZE - 1 : x - k = p - n - 1 => f[x] = s[k]
    BY <1>4, <1>7
  <2>3. SUFFICES ASSUME NEW k \in 1 .. n + 1, NEW x \in 0 .. CRT_SIZE - 1, x - k = p - n - 1
                 PROVE  g[x] = r[k]
    <3> HIDE DEF r, n
    <3> DEFINE p1 == p + 1
               n1 == n + 1
    <3>1. p1 \in Int /\ n1 \in Nat /\ w = [pos |-> p1, cell |-> g] /\ Len(r) = n1 /\ p1 - n1 - 1 = p - n - 1
      BY <1>1, <2>1
    <3>2. \A k \in 1 .. n1 : \A x \in 0 .. CRT_SIZE - 1 : x - k = p1 - n1 - 1 => g[x] = r[k]
      BY <2>3, <3>1
    <3> HIDE DEF p1, n1, w
    <3>3. Shows(w, r)
      BY <3>1, <3>2, ShowsIs
    <3> QED
      BY <3>3 DEF r
  <2> HIDE DEF n, r
  <2>4. CASE k = n + 1
    <3>1. x = p
      BY <1>1, <2>1, <2>3, <2>4
    <3> QED
      BY <1>5, <2>1, <2>4, <3>1
  <2>5. CASE k \in 1 .. n
    <3>1. x # p /\ f[x] = s[k]
      BY <1>1, <2>1, <2>2, <2>3, <2>5
    <3> QED
      BY <1>5, <2>1, <2>5, <3>1
  <2> QED
    BY <2>1, <2>4, <2>5
<1>8. \A s \in Seq(Glyph) : Append(s, c) \in Seq(Glyph)
  OBVIOUS
<1>9. /\ Settled(ScrollIfFull(w))
      /\ ScrollIfFull(w).pos = IF p + 1 >= CRT_SIZE THEN p + 1 - CRT_COLS ELSE p + 1
      /\ \A s \in Seq(Glyph) : Shows(w, s) => Shows(ScrollIfFull(w), s)
  <2>1. p + 1 \in 0 .. CRT_SIZE + CRT_COLS - 1
    BY <1>1
  <2> QED
    BY <1>5, <1>6, <2>1, ScrollKeeps
<1>10. ScrollIfFull(w).pos = p + 1 \/ ScrollIfFull(w).pos = CRT_SIZE - CRT_COLS
  BY <1>1, <1>9
<1> HIDE DEF w
<1> QED
  BY <1>3, <1>7, <1>8, <1>9, <1>10 DEF p

\* A backspace takes the last character away, over the start of a row too.
LEMMA PutBackspace ==
  ASSUME NEW t, Settled(t)
  PROVE  LET u == ScrollIfFull(Backspace(t))
         IN  /\ Settled(u)
             /\ t.pos > 0 => u.pos = t.pos - 1
             /\ \A s \in Seq(Glyph) : s # <<>> /\ t.pos > 0 /\ Shows(t, s)
                   => Shows(u, SubSeq(s, 1, Len(s) - 1))
<1> USE ScreenFacts
<1> DEFINE p == t.pos
           f == t.cell
           g == [f EXCEPT ![p - 1] = Blank]
           u == [pos |-> p - 1, cell |-> g]
<1>1. p \in 0 .. CRT_SIZE - 1 /\ f \in [0 .. CRT_SIZE - 1 -> Glyph]
  BY DEF Settled, Terminal
<1>2. \A x \in p .. CRT_SIZE - 1 : f[x] = Blank
  BY DEF Settled
<1>3. CASE p = 0
  BY <1>1, <1>3 DEF Backspace, ScrollIfFull
<1>4. CASE p > 0
  <2>1. Backspace(t) = u
    BY <1>4 DEF Backspace
  <2>2. ASSUME NEW s \in Seq(Glyph)
        PROVE  Shows(t, s) <=>
                 \A k \in 1 .. Len(s) : \A x \in 0 .. CRT_SIZE - 1 : x - k = p - Len(s) - 1 => f[x] = s[k]
    BY DEF Shows
  <2> HIDE DEF p, f
  <2>3. /\ g \in [0 .. CRT_SIZE - 1 -> Glyph] /\ g[p - 1] = Blank
        /\ \A x \in 0 .. CRT_SIZE - 1 : x # p - 1 => g[x] = f[x]
    BY <1>1, <1>4, Characters
  <2> HIDE DEF g
  <2>4. \A x \in p - 1 .. CRT_SIZE - 1 : g[x] = Blank
    BY <1>1, <1>2, <1>4, <2>3
  <2>5. p - 1 \in 0 .. CRT_SIZE - 1
    BY <1>1, <1>4
  <2>6. Settled(u) /\ ScrollIfFull(u) = u /\ u.pos = p - 1
    <3>1. u \in Terminal
      BY <2>3, <2>5 DEF Terminal
    <3>2. ~(p - 1 >= CRT_SIZE)
      BY <1>1
    <3> QED
      BY <2>4, <3>1, <3>2 DEF Settled, ScrollIfFull
  <2>7. ASSUME NEW s \in Seq(Glyph), s # <<>>, Shows(t, s) PROVE Shows(u, SubSeq(s, 1, Len(s) - 1))
    <3> DEFINE n == Len(s)
               r == SubSeq(s, 1, n - 1)
    <3>1. n \in Nat /\ n > 0 /\ Len(r) = n - 1 /\ \A k \in 1 .. n - 1 : r[k] = s[k]
      BY <2>7, WithoutLast
    <3>3. \A k \in 1 .. n : \A x \in 0 .. CRT_SIZE - 1 : x - k = p - n - 1 => f[x] = s[k]
      BY <2>2, <2>7
    <3>4. SUFFICES ASSUME NEW k \in 1 .. n - 1, NEW x \in 0 .. CRT_SIZE - 1, x - k = p - n - 1
                   PROVE  g[x] = r[k]
      <4> HIDE DEF r, n
      <4> DEFINE p1 == p - 1
                 n1 == n - 1
      <4>1. p1 \in Int /\ n1 \in Nat /\ u = [pos |-> p1, cell |-> g] /\ Len(r) = n1 /\ p1 - n1 - 1 = p - n - 1
        BY <1>1, <3>1
      <4>2. \A k \in 1 .. n1 : \A x \in 0 .. CRT_SIZE - 1 : x - k = p1 - n1 - 1 => g[x] = r[k]
        BY <3>4, <4>1
      <4> HIDE DEF p1, n1, u
      <4>3. Shows(u, r)
        BY <4>1, <4>2, ShowsIs
      <4> QED
        BY <4>3 DEF r, n
    <3> HIDE DEF n, r
    <3>5. k \in 1 .. n /\ x # p - 1
      BY <1>1, <3>1, <3>4
    <3>6. f[x] = s[k]
      BY <3>3, <3>4, <3>5
    <3> QED
      BY <2>3, <3>1, <3>4, <3>5, <3>6
  <2> HIDE DEF u
  <2> QED
    BY <1>4, <2>1, <2>6, <2>7 DEF p
<1> QED
  BY <1>1, <1>3, <1>4

LEMMA ReturnIs ==
  ASSUME NEW a, NEW f
  PROVE  CarriageReturn([pos |-> a, cell |-> f]) = [pos |-> a - (a % CRT_COLS), cell |-> f]
  BY DEF CarriageReturn

\* A new line leads to the start of a row.
LEMMA PutNewLine ==
  ASSUME NEW t, Settled(t)
  PROVE  LET u == ScrollIfFull(NewLine(t))
         IN  Settled(u) /\ u.pos % CRT_COLS = 0
<1> USE ScreenFacts
<1> DEFINE p == t.pos
           f == t.cell
           d == (p + CRT_COLS) \div CRT_COLS
           q == p + CRT_COLS - ((p + CRT_COLS) % CRT_COLS)
           w == [pos |-> q, cell |-> f]
           u == ScrollIfFull(w)
<1>1. p \in 0 .. CRT_SIZE - 1 /\ f \in [0 .. CRT_SIZE - 1 -> Glyph]
  BY DEF Settled, Terminal
<1>2. \A x \in p .. CRT_SIZE - 1 : f[x] = Blank
  BY DEF Settled
<1>3. NewLine(t) = w
  <2>1. t = [pos |-> p, cell |-> f]
    BY DEF Settled, Terminal
  <2> HIDE DEF p, f
  <2>2. [t EXCEPT !.pos = @ + CRT_COLS] = [pos |-> p + CRT_COLS, cell |-> f]
    BY <2>1
  <2>3. CarriageReturn([pos |-> p + CRT_COLS, cell |-> f]) = w
    <3> DEFINE a == p + CRT_COLS
    <3>1. w = [pos |-> a - (a % CRT_COLS), cell |-> f]
      BY <1>1
    <3> HIDE DEF a, w
    <3>2. CarriageReturn([pos |-> a, cell |-> f]) = w
      BY <3>1, ReturnIs
    <3> QED
      BY <3>2 DEF a
  <2> QED
    BY <2>2, <2>3 DEF NewLine
<1> HIDE DEF p, f
<1>4. d \in Nat /\ q = CRT_COLS * d /\ q > p /\ q <= p + CRT_COLS
  <2>1. p + CRT_COLS \in Nat
    BY <1>1
  <2> DEFINE r == (p + CRT_COLS) % CRT_COLS
  <2>2. d \in Nat /\ r \in 0 .. CRT_COLS - 1 /\ p + CRT_COLS = CRT_COLS * d + r
    BY <2>1, DivFacts
  <2>3. CRT_COLS * d \in Nat
    BY <2>2
  <2> HIDE DEF d, r
  <2> QED
    BY <1>1, <2>2, <2>3 DEF r
<1> HIDE DEF d, q
<1>5. q \in 0 .. CRT_SIZE + CRT_COLS - 1 /\ \A x \in q .. CRT_SIZE - 1 : f[x] = Blank
  <2>1. q \in Int
    BY <1>4
  <2> QED
    BY <1>1, <1>2, <1>4, <2>1
<1>6. Settled(u) /\ u.pos = IF q >= CRT_SIZE THEN q - CRT_COLS ELSE q
  BY <1>1, <1>5, ScrollKeeps
<1>7. u.pos % CRT_COLS = 0
  <2>1. CASE q < CRT_SIZE
    BY <1>4, <1>5, <1>6, <2>1, MultipleRest
  <2>2. CASE q >= CRT_SIZE
    <3>1. d # 0
      BY <1>1, <1>4
    <3>2. d - 1 \in Nat /\ q - CRT_COLS = CRT_COLS * (d - 1)
      BY <1>4, <3>1
    <3> QED
      BY <1>6, <2>2, <3>2, MultipleRest
  <2> QED
    BY <1>5, <2>1, <2>2
<1> HIDE DEF u
<1> QED
  BY <1>3, <1>6, <1>7 DEF u

\* Any character leaves nothing after the cursor, a carriage return if it is
\* printed at the start of a row.
LEMMA PutSettles ==
  ASSUME NEW t, Settled(t), NEW c \in Printed, c = "cr" => t.pos % CRT_COLS = 0
  PROVE  /\ Settled(video_putc(t, c))
         /\ c = "nl" => video_putc(t, c).pos % CRT_COLS = 0
<1>0. t.pos \in 0 .. CRT_SIZE - 1 /\ CRT_SIZE \in Nat
  BY ScreenFacts DEF Settled, Terminal
<1>s. ScrollIfFull(t) = t
  BY <1>0 DEF ScrollIfFull
<1>1. CASE c = "bs"
  BY <1>1, PutBackspace DEF video_putc
<1>2. CASE c = "nl"
  BY <1>2, PutNewLine DEF video_putc
<1>3. CASE c = "cr"
  <2>1. CarriageReturn(t) = t
    BY <1>0, <1>3 DEF CarriageReturn, Settled, Terminal
  <2> QED
    BY <1>3, <1>s, <2>1 DEF video_putc
<1>4. CASE c = "tab"
  <2>1. \A v : Settled(v) => Settled(PutSpace(v))
    BY PutGlyph, Characters DEF PutSpace
  <2> DEFINE v == PutSpace(PutSpace(PutSpace(PutSpace(PutSpace(t)))))
  <2>2. Settled(v)
    BY <2>1
  <2> HIDE DEF v
  <2>3. ScrollIfFull(v) = v
    BY <2>2, ScreenFacts DEF ScrollIfFull, Settled, Terminal
  <2> QED
    BY <1>4, <2>2, <2>3 DEF video_putc, v
<1>5. CASE c \in Glyph
  <2>1. c \notin {"bs", "nl", "cr", "tab"}
    BY <1>5, Characters
  <2>2. video_putc(t, c) = ScrollIfFull(WriteCell(t, c))
    BY <2>1 DEF video_putc
  <2> QED
    BY <1>5, <2>1, <2>2, PutGlyph
<1> QED
  BY <1>1, <1>2, <1>3, <1>4, <1>5 DEF Printed

----------------------------------------------------------------------------
\* What is printed character by character.

Prints(after, t, s) ==
    after = [k \in 0 .. Len(s) |-> IF k = 0 THEN t ELSE video_putc(after[k - 1], s[k])]

LEMMA PrintSteps ==
  ASSUME NEW t, NEW s, Len(s) \in Nat
  PROVE  \E after : Prints(after, t, s) /\ PrintOn(t, s) = after[Len(s)]
<1> DEFINE Next1(a, n) == a = [k \in 0 .. n |-> IF k = 0 THEN t ELSE video_putc(a[k - 1], s[k])]
           S == {n \in Nat : \E a : Next1(a, n)}
<1>1. 0 \in S
  <2> DEFINE a == [k \in 0 .. 0 |-> t]
  <2>1. Next1(a, 0)
    OBVIOUS
  <2> QED
    BY <2>1
<1>2. ASSUME NEW n \in S PROVE n + 1 \in S
  <2>1. PICK a : Next1(a, n)
    OBVIOUS
  <2>2. n \in Nat /\ n + 1 \in Nat
    OBVIOUS
  <2> HIDE DEF S
  <2> DEFINE h == [k \in 0 .. n + 1 |-> IF k = n + 1 THEN video_putc(a[n], s[n + 1]) ELSE a[k]]
             r == [k \in 0 .. n + 1 |-> IF k = 0 THEN t ELSE video_putc(h[k - 1], s[k])]
  <2>3. ASSUME NEW k \in 0 .. n + 1 PROVE h[k] = r[k]
    BY <2>1, <2>2
  <2>4. Next1(h, n + 1)
    BY <2>3
  <2> HIDE DEF h, Next1
  <2> QED
    BY <2>2, <2>4 DEF S
<1>3. S = Nat
  <2> HIDE DEF S
  <2> QED
    BY <1>1, <1>2, SetInduction DEF S
<1>4. \E a : Next1(a, Len(s))
  BY <1>3
<1> DEFINE after == CHOOSE a : Next1(a, Len(s))
<1>5. Next1(after, Len(s))
  BY <1>4
<1>6. PrintOn(t, s) = after[Len(s)]
  BY DEF PrintOn
<1> HIDE DEF after
<1> QED
  BY <1>5, <1>6 DEF Prints

\* A message leaves nothing after the cursor.
LEMMA MessageSettles ==
  ASSUME NEW t, Settled(t), NEW m \in Message
  PROVE  Settled(PrintOn(t, m))
<1>1. m \in Seq(Printed) /\ \A k \in DOMAIN m : m[k] = "cr" => k > 1 /\ m[k - 1] = "nl"
  BY ReadlineAssumption
<1>2. Len(m) \in Nat /\ DOMAIN m = 1 .. Len(m) /\ \A k \in 1 .. Len(m) : m[k] \in Printed
  BY <1>1
<1>3. PICK after : Prints(after, t, m) /\ PrintOn(t, m) = after[Len(m)]
  BY <1>2, PrintSteps
<1>4. /\ after[0] = t
      /\ \A k \in 0 .. Len(m) - 1 : after[k + 1] = video_putc(after[k], m[k + 1])
  <2>1. after = [k \in 0 .. Len(m) |-> IF k = 0 THEN t ELSE video_putc(after[k - 1], m[k])]
    BY <1>3 DEF Prints
  <2> QED
    BY <1>2, <2>1
<1> DEFINE n == Len(m)
           S == {k \in Nat : k <= n => /\ Settled(after[k])
                                       /\ k > 0 /\ m[k] = "nl" => after[k].pos % CRT_COLS = 0}
<1> HIDE DEF n
<1>5. 0 \in S
  BY <1>4
<1>6. ASSUME NEW k \in S PROVE k + 1 \in S
  <2>1. SUFFICES ASSUME k + 1 <= n
                 PROVE  Settled(after[k + 1]) /\ (m[k + 1] = "nl" => after[k + 1].pos % CRT_COLS = 0)
    OBVIOUS
  <2>2. k \in 0 .. n - 1 /\ k + 1 \in 1 .. n /\ n \in Nat
    BY <1>2, <2>1 DEF n
  <2>3. Settled(after[k]) /\ (k > 0 /\ m[k] = "nl" => after[k].pos % CRT_COLS = 0)
    BY <2>2
  <2>4. after[k + 1] = video_putc(after[k], m[k + 1]) /\ m[k + 1] \in Printed
    BY <1>2, <1>4, <2>2 DEF n
  <2>5. m[k + 1] = "cr" => after[k].pos % CRT_COLS = 0
    <3>1. m[k + 1] = "cr" => k > 0 /\ m[k] = "nl"
      <4> DEFINE j == k + 1
      <4>1. j \in DOMAIN m /\ j - 1 = k /\ (j > 1 => k > 0)
        BY <1>2, <2>2 DEF n
      <4> HIDE DEF j
      <4>2. m[j] = "cr" => j > 1 /\ m[j - 1] = "nl"
        BY <1>1, <4>1
      <4> QED
        BY <4>1, <4>2 DEF j
    <3> QED
      BY <2>3, <3>1
  <2> QED
    BY <2>3, <2>4, <2>5, PutSettles
<1>7. S = Nat
  <2> HIDE DEF S
  <2>1. S \in SUBSET Nat
    BY DEF S
  <2> QED
    BY <1>5, <1>6, <2>1, SetInduction
<1>8. Settled(after[n])
  <2>1. n \in S
    BY <1>2, <1>7 DEF n
  <2> QED
    BY <1>2, <2>1 DEF n
<1> QED
  BY <1>3, <1>8 DEF n

\* The prompt is shown before the cursor.
LEMMA PromptShown ==
  ASSUME NEW t, Settled(t)
  PROVE  Settled(PrintOn(t, Prompt)) /\ Shows(PrintOn(t, Prompt), Prompt)
<1>1. Prompt \in Seq(Glyph)
  <2>1. Prompt \in Seq(Printable)
    BY ReadlineAssumption
  <2>2. Len(Prompt) \in Nat /\ Prompt \in [1 .. Len(Prompt) -> Printable]
    BY <2>1
  <2>3. \A k \in 1 .. Len(Prompt) : Prompt[k] \in Glyph
    BY <2>2, Characters
  <2> QED
    BY <2>2, <2>3, SeqDef
<1>2. Len(Prompt) \in Nat /\ \A k \in 1 .. Len(Prompt) : Prompt[k] \in Glyph
  BY <1>1
<1>3. PICK after : Prints(after, t, Prompt) /\ PrintOn(t, Prompt) = after[Len(Prompt)]
  BY <1>2, PrintSteps
<1>4. /\ after[0] = t
      /\ \A k \in 0 .. Len(Prompt) - 1 : after[k + 1] = video_putc(after[k], Prompt[k + 1])
  <2>1. after = [k \in 0 .. Len(Prompt) |-> IF k = 0 THEN t ELSE video_putc(after[k - 1], Prompt[k])]
    BY <1>3 DEF Prints
  <2> QED
    BY <1>2, <2>1
<1> DEFINE n == Len(Prompt)
           S == {k \in Nat : k <= n => Settled(after[k]) /\ Shows(after[k], SubSeq(Prompt, 1, k))}
<1> HIDE DEF n
<1>5. 0 \in S
  <2>1. Len(SubSeq(Prompt, 1, 0)) = 0
    BY <1>1
  <2>2. Shows(t, SubSeq(Prompt, 1, 0))
    BY <2>1 DEF Shows
  <2> QED
    BY <1>4, <2>2
<1>6. ASSUME NEW k \in S PROVE k + 1 \in S
  <2>1. SUFFICES ASSUME k + 1 <= n
                 PROVE  Settled(after[k + 1]) /\ Shows(after[k + 1], SubSeq(Prompt, 1, k + 1))
    OBVIOUS
  <2>2. k \in 0 .. n - 1 /\ k + 1 \in 1 .. n /\ n \in Nat
    BY <1>2, <2>1 DEF n
  <2>3. Settled(after[k]) /\ Shows(after[k], SubSeq(Prompt, 1, k))
    BY <2>2
  <2> DEFINE c == Prompt[k + 1]
             s == SubSeq(Prompt, 1, k)
  <2>4. after[k + 1] = video_putc(after[k], c) /\ c \in Glyph
    BY <1>2, <1>4, <2>2 DEF n
  <2>5. video_putc(after[k], c) = ScrollIfFull(WriteCell(after[k], c))
    BY <2>4, Characters DEF video_putc
  <2>6. s \in Seq(Glyph) /\ SubSeq(Prompt, 1, k + 1) = Append(s, c)
    <3>1. s \in Seq(Glyph) /\ Len(s) = k /\ \A i \in 1 .. k : s[i] = Prompt[i]
      BY <1>1, <2>2 DEF n
    <3>2. SubSeq(Prompt, 1, k + 1) \in Seq(Glyph) /\ Len(SubSeq(Prompt, 1, k + 1)) = k + 1
          /\ \A i \in 1 .. k + 1 : SubSeq(Prompt, 1, k + 1)[i] = Prompt[i]
      BY <1>1, <2>2 DEF n
    <3> HIDE DEF s, c
    <3>3. Append(s, c) \in Seq(Glyph) /\ Len(Append(s, c)) = k + 1 /\ Append(s, c)[k + 1] = c
          /\ \A i \in 1 .. k : Append(s, c)[i] = s[i]
      BY <2>2, <2>4, <3>1
    <3>4. \A i \in 1 .. k + 1 : SubSeq(Prompt, 1, k + 1)[i] = Append(s, c)[i]
      BY <2>2, <3>1, <3>2, <3>3 DEF c
    <3> QED
      BY <2>2, <3>1, <3>2, <3>3, <3>4, SeqEqual
  <2> HIDE DEF s, c
  <2> QED
    BY <2>3, <2>4, <2>5, <2>6, PutGlyph DEF s
<1>7. S = Nat
  <2> HIDE DEF S
  <2>1. S \in SUBSET Nat
    BY DEF S
  <2> QED
    BY <1>5, <1>6, <2>1, SetInduction
<1>8. Settled(after[n]) /\ Shows(after[n], SubSeq(Prompt, 1, n))
  <2>1. n \in S
    BY <1>2, <1>7 DEF n
  <2> QED
    BY <1>2, <2>1 DEF n
<1>9. SubSeq(Prompt, 1, n) = Prompt
  BY <1>1, SubSeqFull DEF n
<1> QED
  BY <1>3, <1>8, <1>9 DEF n

----------------------------------------------------------------------------
\* The steps.

LEMMA LineFacts ==
  ASSUME RLInv
  PROVE  /\ Prompt \o linebuf \in Seq(Glyph) /\ Len(linebuf) \in Nat
         /\ Len(Prompt \o linebuf) = Len(Prompt) + Len(linebuf) /\ Len(Prompt) \in Nat
         /\ argc \in Nat
<1>1. Prompt \in Seq(Printable) /\ linebuf \in Seq(Printable)
  BY ReadlineAssumption DEF RLInv
<1>2. Prompt \o linebuf \in Seq(Printable) /\ Len(Prompt \o linebuf) = Len(Prompt) + Len(linebuf)
      /\ Len(linebuf) \in Nat /\ Len(Prompt) \in Nat
  BY <1>1
<1>3. Prompt \o linebuf \in Seq(Glyph)
  BY <1>2, Characters, SeqMonotonic, Zenon
<1>4. argc \in Nat
  <2>1. WordStarts \subseteq 1 .. Len(linebuf)
    BY <1>1 DEF WordStarts
  <2>2. IsFiniteSet(1 .. Len(linebuf))
    BY <1>2, FS_Interval
  <2> QED
    BY <2>1, <2>2, FS_Subset, FS_CardinalityType DEF argc
<1> QED
  BY <1>2, <1>3, <1>4

LEMMA RLInitInv == RLInit => RLInv
<1> SUFFICES ASSUME RLInit PROVE RLInv
  OBVIOUS
<1>1. PICK pos \in 0 .. CRT_SIZE - 1 :
         terminal = [pos |-> pos, cell |-> [x \in 0 .. CRT_SIZE - 1 |-> Blank]]
  BY DEF RLInit
<1>2. Settled(terminal)
  BY <1>1, Characters DEF Settled, Terminal
<1>3. linebuf = <<>> /\ stage = "prompt" /\ outcome = "none"
  BY DEF RLInit
<1>4. linebuf \in Seq(Printable) /\ Len(linebuf) < BUFLEN
  BY <1>3, ScreenFacts
<1> QED
  BY <1>2, <1>3, <1>4 DEF RLInv

LEMMA BeginLineKeeps == ASSUME RLInv, BeginLine PROVE RLInv'
<1>1. Settled(terminal') /\ Shows(terminal', Prompt)
  BY PromptShown DEF RLInv, BeginLine
<1>2. linebuf' = <<>> /\ stage' = "read" /\ outcome' = outcome
  BY DEF BeginLine
<1>3. linebuf' \in Seq(Printable) /\ Len(linebuf') = 0
  BY <1>2
<1>4. Prompt \o linebuf' = Prompt
  BY <1>2, ReadlineAssumption, ConcatEmptySeq
<1>5. terminal'.pos >= 0
  BY <1>1, ScreenFacts DEF Settled, Terminal
<1>6. Len(linebuf') < BUFLEN /\ terminal'.pos >= Len(linebuf') /\ Shows(terminal', Prompt \o linebuf')
  BY <1>1, <1>3, <1>4, <1>5, ScreenFacts
<1> QED
  BY <1>1, <1>2, <1>3, <1>6 DEF RLInv

LEMMA ReadNegativeKeeps == ASSUME RLInv, ReadNegative PROVE RLInv'
<1>1. Settled(terminal')
  BY MessageSettles DEF RLInv, ReadNegative
<1>2. stage' = "prompt" /\ outcome' = "none" /\ linebuf' = linebuf
  BY DEF ReadNegative
<1> QED
  BY <1>1, <1>2 DEF RLInv

LEMMA RuncmdKeeps == ASSUME RLInv, runcmd PROVE RLInv'
<1>1. Settled(terminal')
  BY MessageSettles DEF RLInv, runcmd
<1>2. stage' = "prompt" /\ linebuf' = linebuf
      /\ outcome' = (IF argc = 0 THEN "empty" ELSE IF argc > MAXARGS - 1 THEN "too many" ELSE "called")
  BY DEF runcmd
<1>3. argc' = argc
  BY <1>2 DEF argc, WordStarts
<1>4. argc \in Nat /\ MAXARGS \in Nat
  BY LineFacts, ReadlineAssumption
<1>5. outcome' \in {"none", "empty", "too many", "called"} /\ (outcome' = "called" => argc' < MAXARGS)
  <2>1. CASE argc = 0
    BY <1>2, <2>1
  <2>2. CASE argc > MAXARGS - 1
    BY <1>2, <1>4, <2>2
  <2>3. CASE argc # 0 /\ ~(argc > MAXARGS - 1)
    <3>1. argc < MAXARGS
      BY <1>4, <2>3
    <3> QED
      BY <1>2, <1>3, <2>3, <3>1
  <2> QED
    BY <2>1, <2>2, <2>3
<1> QED
  BY <1>1, <1>2, <1>5 DEF RLInv

LEMMA EndLineKeeps == ASSUME RLInv, NEW c, EndLine(c) PROVE RLInv'
<1>1. Settled(terminal')
  <2>1. "nl" \in Printed
    BY DEF Printed
  <2> QED
    BY <2>1, PutSettles DEF RLInv, EndLine
<1>2. stage' = "run" /\ linebuf' = linebuf /\ outcome' = outcome
  BY DEF EndLine
<1> QED
  BY <1>1, <1>2 DEF RLInv

LEMMA InsertKeeps == ASSUME RLInv, NEW c, Insert(c) PROVE RLInv'
<1>1. stage = "read" /\ stage' = "read" /\ outcome' = outcome /\ c \in Printable
      /\ Len(linebuf) < BUFLEN - 1 /\ linebuf' = Append(linebuf, c) /\ terminal' = video_putc(terminal, c)
  BY DEF Insert, LineHasRoom
<1> DEFINE s == Prompt \o linebuf
<1>2. /\ s \in Seq(Glyph) /\ Len(linebuf) \in Nat /\ Settled(terminal) /\ Shows(terminal, s)
      /\ linebuf \in Seq(Printable) /\ Prompt \in Seq(Printable) /\ terminal.pos >= Len(linebuf)
  BY <1>1, LineFacts, ReadlineAssumption DEF RLInv
<1>3. c \in Glyph /\ terminal' = ScrollIfFull(WriteCell(terminal, c))
  BY <1>1, Characters DEF video_putc
<1>4. /\ Settled(terminal') /\ Shows(terminal', Append(s, c))
      /\ terminal'.pos = terminal.pos + 1 \/ terminal'.pos = CRT_SIZE - CRT_COLS
  BY <1>2, <1>3, PutGlyph
<1>5. Append(s, c) = Prompt \o linebuf'
  BY <1>1, <1>2
<1>6. linebuf' \in Seq(Printable) /\ Len(linebuf') = Len(linebuf) + 1
  BY <1>1, <1>2
<1>7. terminal.pos \in Nat
  BY <1>2, ScreenFacts DEF Settled, Terminal
<1>8. Len(linebuf') < BUFLEN /\ terminal'.pos >= Len(linebuf')
  BY <1>1, <1>2, <1>4, <1>6, <1>7, ScreenFacts
<1> HIDE DEF s
<1> QED
  BY <1>1, <1>4, <1>5, <1>6, <1>8 DEF RLInv

LEMMA EraseKeeps == ASSUME RLInv, NEW c, Erase(c) PROVE RLInv'
<1> DEFINE s == Prompt \o linebuf
           n == Len(linebuf)
<1>1. stage = "read" /\ stage' = "read" /\ outcome' = outcome /\ linebuf # <<>>
      /\ linebuf' = SubSeq(linebuf, 1, n - 1) /\ terminal' = video_putc(terminal, "bs")
  BY DEF Erase, Erases
<1>2. /\ s \in Seq(Glyph) /\ Settled(terminal) /\ Shows(terminal, s) /\ Len(s) = Len(Prompt) + n
      /\ linebuf \in Seq(Printable) /\ Prompt \in Seq(Printable) /\ terminal.pos >= n /\ n < BUFLEN
      /\ Len(Prompt) \in Nat
  BY <1>1, LineFacts, ReadlineAssumption DEF RLInv
<1>3. n \in Nat \ {0} /\ linebuf' \in Seq(Printable) /\ Len(linebuf') = n - 1
      /\ \A k \in 1 .. n - 1 : linebuf'[k] = linebuf[k]
  BY <1>1, <1>2, WithoutLast
<1>4. terminal.pos \in Nat /\ terminal.pos > 0
  BY <1>2, <1>3, ScreenFacts DEF Settled, Terminal
<1>5. terminal' = ScrollIfFull(Backspace(terminal))
  BY <1>1 DEF video_putc
<1>6. s # <<>>
  <2>1. Len(s) # 0
    BY <1>2, <1>3
  <2> QED
    BY <2>1
<1>7. /\ Settled(terminal') /\ terminal'.pos = terminal.pos - 1
      /\ Shows(terminal', SubSeq(s, 1, Len(s) - 1))
  BY <1>2, <1>4, <1>5, <1>6, PutBackspace
<1>8. SubSeq(s, 1, Len(s) - 1) = Prompt \o linebuf'
  <2> DEFINE r == SubSeq(s, 1, Len(s) - 1)
             p == Prompt \o linebuf'
             m == Len(Prompt)
  <2>1. r \in Seq(Glyph) /\ Len(r) = Len(s) - 1 /\ \A k \in 1 .. Len(s) - 1 : r[k] = s[k]
    BY <1>2, <1>6, WithoutLast
  <2>2. p \in Seq(Printable) /\ Len(p) = m + (n - 1)
    BY <1>2, <1>3, ConcatProperties
  <2>3. p \in Seq(Glyph)
    BY <2>2, Characters, SeqMonotonic, Zenon
  <2>4. ASSUME NEW k \in 1 .. m + n - 1 PROVE r[k] = p[k]
    <3>1. CASE k <= m
      BY <1>2, <1>3, <2>1, <3>1
    <3>2. CASE k > m
      <4>1. s[k] = linebuf[k - m] /\ p[k] = linebuf'[k - m]
        BY <1>2, <1>3, <3>2
      <4>2. k - m \in 1 .. n - 1 /\ k \in 1 .. Len(s) - 1
        BY <1>2, <1>3, <3>2
      <4> QED
        BY <1>3, <2>1, <4>1, <4>2
    <3> QED
      BY <1>2, <1>3, <3>1, <3>2
  <2>5. Len(r) = Len(p) /\ Len(r) = m + n - 1
    BY <1>2, <1>3, <2>1, <2>2
  <2> HIDE DEF r, p, m
  <2>6. r = p
    BY <2>1, <2>3, <2>4, <2>5, SeqEqual
  <2> QED
    BY <2>6 DEF r, p
<1>9. Len(linebuf') < BUFLEN /\ terminal'.pos >= Len(linebuf')
  BY <1>2, <1>3, <1>4, <1>7, ScreenFacts
<1> HIDE DEF s
<1> QED
  BY <1>1, <1>3, <1>7, <1>8, <1>9 DEF RLInv

(***************************************************************************)
(* The command line's invariant: whatever is typed and printed, nothing is *)
(* after the cursor, and while readline reads, the screen shows the line.  *)
(***************************************************************************)
THEOREM CommandLineInvariant == RLSpec => []RLInv
<1>1. RLInit => RLInv
  BY RLInitInv
<1>2. RLInv /\ [RLNext]_rlVars => RLInv'
  <2>1. SUFFICES ASSUME RLInv, [RLNext]_rlVars PROVE RLInv'
    OBVIOUS
  <2>2. CASE BeginLine
    BY <2>1, <2>2, BeginLineKeeps
  <2>3. CASE runcmd
    BY <2>1, <2>3, RuncmdKeeps
  <2>4. CASE \E c \in Typed : ReadChar(c)
    BY <2>1, <2>4, ReadNegativeKeeps, EraseKeeps, InsertKeeps, EndLineKeeps DEF ReadChar
  <2>5. CASE UNCHANGED rlVars
    BY <2>1, <2>5 DEF rlVars, RLInv, argc, WordStarts
  <2> QED
    BY <2>1, <2>2, <2>3, <2>4, <2>5 DEF RLNext
<1> QED
  BY <1>1, <1>2, PTL DEF RLSpec

(***************************************************************************)
(* readline never writes past the end of linebuf, runcmd never past the    *)
(* end of argv, and video_putc never leaves the cursor off the screen, for *)
(* every size of these and any input.                                      *)
(***************************************************************************)
THEOREM BuffersNotOverrun == RLSpec => []RLTypeOK
<1>1. RLInv => RLTypeOK
  <2> SUFFICES ASSUME RLInv PROVE RLTypeOK
    OBVIOUS
  <2>1. Len(linebuf) \in Nat /\ argc \in Nat /\ BUFLEN \in Nat /\ MAXARGS \in Nat
    BY LineFacts, ReadlineAssumption
  <2>2. terminal.pos \in 0 .. CRT_SIZE - 1 /\ terminal.cell \in [0 .. CRT_SIZE - 1 -> Glyph]
    BY DEF RLInv, Settled, Terminal
  <2>3. Len(linebuf) + 1 <= BUFLEN
    <3>1. Len(linebuf) < BUFLEN
      BY DEF RLInv
    <3> QED
      BY <2>1, <3>1
  <2>4. stage = "prompt" /\ outcome = "called" => argc + 1 <= MAXARGS
    <3>1. stage = "prompt" /\ outcome = "called" => argc < MAXARGS
      BY DEF RLInv
    <3> QED
      BY <2>1, <3>1
  <2> QED
    BY <2>2, <2>3, <2>4 DEF RLInv, RLTypeOK
<1> QED
  BY <1>1, CommandLineInvariant, PTL

(***************************************************************************)
(* What you see is what you get: the screen shows the line that readline   *)
(* has in its buffer, for every screen, prompt and line that fits.         *)
(***************************************************************************)
THEOREM ScreenShowsLine == RLSpec => []EchoMatches
<1>1. RLInv => EchoMatches
  <2> SUFFICES ASSUME RLInv, stage = "read" PROVE EchoMatches
    BY DEF EchoMatches
  <2> DEFINE shown == Prompt \o linebuf
             n == Len(shown)
             start == terminal.pos - n
  <2>1. n \in Nat /\ terminal.pos \in 0 .. CRT_SIZE - 1 /\ CRT_SIZE \in Nat
    <3>1. n \in Nat
      BY LineFacts
    <3> QED
      BY <3>1, ScreenFacts DEF RLInv, Settled, Terminal
  <2>2. Shows(terminal, shown) /\ Settled(terminal) /\ terminal.pos >= Len(linebuf)
    BY DEF RLInv
  <2>3. ASSUME NEW k \in 1 .. n, start + k - 1 >= 0
        PROVE  terminal.cell[start + k - 1] = shown[k]
    <3> DEFINE x == start + k - 1
    <3>1. x \in 0 .. CRT_SIZE - 1 /\ x - k = terminal.pos - n - 1
      <4> HIDE DEF n
      <4> QED
        BY <2>1, <2>3
    <3> HIDE DEF x
    <3>2. terminal.cell[x] = shown[k]
      BY <2>2, <3>1 DEF Shows
    <3> QED
      BY <3>2 DEF x
  <2> QED
    BY <2>2, <2>3 DEF EchoMatches, Settled
<1> QED
  BY <1>1, CommandLineInvariant, PTL
=============================================================================
