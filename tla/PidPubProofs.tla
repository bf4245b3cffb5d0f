---------------------------- MODULE PidPubProofs ----------------------------
(***************************************************************************)
(* Theorems about PidPub, for every record, every number of tries and      *)
(* every number of cycles: the seqlock and the coalescing semaphore.       *)
(***************************************************************************)
EXTENDS PidPub, FiniteSetTheorems, TLAPS

(***************************************************************************)
(* The inductive invariant                                                 *)
(***************************************************************************)

\* The counter is odd exactly while a record is being written, and an even one
\* means that the record is whole.
SeqInv ==
    /\ wr.at = "write" <=> seq % 2 = 1
    /\ wr.at = "write" => \A f \in Fields \ wr.todo : pub[f] = Cycle
    /\ wr.at # "write" => pub = Whole(Cycle)

\* A try is under way only while tries are left, and the fields it has copied
\* are those of the record, as long as the counter has not moved.
CopyInv ==
    /\ rd.at \in {"before", "copy"} => rd.tries >= 1
    /\ rd.at = "copy" =>
          /\ rd.before % 2 = 0 /\ rd.before <= seq
          /\ rd.before = seq => \A f \in Fields \ rd.todo : rd.tmp[f] = pub[f]

\* With no signal pending and no write under way, what the consumer does now
\* will show the last cycle, or has shown it.
WakeInv ==
    sem = 0 /\ wr.at = "idle" =>
        /\ rd.at = "wait" => shown = Whole(Cycle)
        /\ rd.at = "copy" => rd.before = seq
        /\ rd.at = "show" => rd.tmp = Whole(Cycle)

PubInv == TypeOK /\ SeqInv /\ CopyInv /\ WakeInv

(***************************************************************************)
(* The counter                                                             *)
(***************************************************************************)

LEMMA Halves ==
    ASSUME NEW n \in Nat
    PROVE  /\ n % 2 = 0 => (n + 1) % 2 = 1 /\ (n + 1) \div 2 = n \div 2
           /\ n % 2 = 1 => (n + 1) % 2 = 0 /\ (n + 1) \div 2 = n \div 2 + 1
           /\ n % 2 \in {0, 1}
           /\ n % 2 = 0 => n = 2 * (n \div 2)
           /\ n % 2 = 1 => n = 2 * (n \div 2) + 1
           /\ n \div 2 \in Nat
  BY SMT

\* A publication's number lies within the bound.
LEMMA CycleType == TypeOK => Cycle \in Numbers
  <1> SUFFICES ASSUME TypeOK PROVE Cycle \in Numbers
    OBVIOUS
  <1>1. seq \in Nat /\ seq <= 2 * MaxCycles /\ MaxCycles \in Nat
    BY PubAssumption DEF TypeOK
  <1>2. (seq + 1) \div 2 \in Nat /\ 2 * ((seq + 1) \div 2) <= seq + 1
    BY <1>1, Halves
  <1> QED
    BY <1>1, <1>2 DEF Cycle, Numbers

LEMMA Bounds ==
    /\ 0 \in 0 .. Tries /\ Tries \in 0 .. Tries /\ Tries >= 1
    /\ 0 \in 0 .. 2 * MaxCycles
    /\ 0 \in 0 .. HeaderEvery
  BY PubAssumption

LEMMA WholeType ==
    ASSUME NEW n \in Numbers
    PROVE  Whole(n) \in Copies
  BY DEF Whole, Copies

(***************************************************************************)
(* The inductive step                                                      *)
(***************************************************************************)

LEMMA PubInit == Init => PubInv
  <1> SUFFICES ASSUME Init PROVE PubInv
    OBVIOUS
  <1>1. 0 \in Numbers /\ Whole(0) \in Copies
    BY PubAssumption, WholeType DEF Numbers
  <1>2. TypeOK
    BY <1>1, Bounds, PubAssumption DEF Init, TypeOK
  <1>3. Cycle = 0 /\ 0 % 2 = 0
    BY SMT DEF Init, Cycle
  <1> QED
    BY <1>2, <1>3 DEF Init, PubInv, SeqInv, CopyInv, WakeInv

LEMMA WriteBeginStep ==
    ASSUME PubInv, WriteBegin
    PROVE  PubInv'
  <1>1. seq \in Nat /\ seq % 2 = 0
    BY Halves DEF PubInv, TypeOK, SeqInv, WriteBegin
  <1>2. seq' % 2 = 1 /\ seq' > seq
    BY <1>1, Halves DEF WriteBegin
  <1>3. seq' \in 0 .. 2 * MaxCycles
    BY <1>1, Halves, PubAssumption DEF WriteBegin, Cycle
  <1>4. TypeOK'
    BY <1>3 DEF WriteBegin, PubInv, TypeOK
  <1>5. wr'.at = "write" /\ wr'.todo = Fields
    BY DEF WriteBegin
  <1>6. CopyInv'
    BY <1>1, <1>2 DEF WriteBegin, PubInv, TypeOK, CopyInv
  <1> QED
    BY <1>2, <1>4, <1>5, <1>6 DEF PubInv, SeqInv, WakeInv

LEMMA WriteFieldStep ==
    ASSUME PubInv, NEW f \in Fields, WriteField(f)
    PROVE  PubInv'
  <1>1. Cycle \in Numbers /\ Cycle' = Cycle
    BY CycleType DEF PubInv, WriteField, Cycle
  <1>2. /\ pub' = [pub EXCEPT ![f] = Cycle]
        /\ wr' = [wr EXCEPT !.todo = @ \ {f}]
        /\ wr.at = "write" /\ f \in wr.todo
        /\ UNCHANGED <<seq, sem, rd, shown, log>>
    BY DEF WriteField
  <1>3. TypeOK'
    BY <1>1, <1>2 DEF PubInv, TypeOK, Copies
  <1>4. wr'.at = "write" /\ wr'.todo = wr.todo \ {f}
    BY <1>2 DEF PubInv, TypeOK
  <1>5. \A e \in Fields \ wr'.todo : pub'[e] = Cycle'
    BY <1>1, <1>2, <1>4 DEF PubInv, TypeOK, Copies, SeqInv
  <1>6. rd.at = "copy" => rd.before # seq
    BY <1>2 DEF PubInv, SeqInv, CopyInv
  <1> QED
    BY <1>2, <1>3, <1>4, <1>5, <1>6 DEF PubInv, SeqInv, CopyInv, WakeInv

LEMMA WriteEndStep ==
    ASSUME PubInv, WriteEnd
    PROVE  PubInv'
  <1>1. seq \in Nat /\ seq % 2 = 1
    BY DEF PubInv, TypeOK, SeqInv, WriteEnd
  <1>2. seq' % 2 = 0 /\ seq' > seq /\ Cycle' = Cycle
    BY <1>1, Halves DEF WriteEnd, Cycle
  <1>3. seq' \in 0 .. 2 * MaxCycles
    BY <1>1, Halves, PubAssumption DEF WriteEnd, PubInv, TypeOK
  <1>4. TypeOK' /\ wr'.at = "give"
    BY <1>3 DEF WriteEnd, PubInv, TypeOK
  <1>5. pub' = Whole(Cycle')
    BY <1>2 DEF WriteEnd, PubInv, TypeOK, Copies, SeqInv, Whole
  <1>6. CopyInv'
    BY <1>1, <1>2 DEF WriteEnd, PubInv, TypeOK, CopyInv
  <1> QED
    BY <1>2, <1>4, <1>5, <1>6 DEF PubInv, SeqInv, WakeInv

LEMMA GiveStep ==
    ASSUME PubInv, Give
    PROVE  PubInv'
  <1>1. TypeOK' /\ wr'.at = "idle" /\ Cycle' = Cycle
    BY DEF Give, PubInv, TypeOK, Cycle
  <1> QED
    BY <1>1 DEF Give, PubInv, SeqInv, CopyInv, WakeInv

LEMMA WaitStep ==
    ASSUME PubInv, Wait
    PROVE  PubInv'
  <1>1. TypeOK' /\ rd'.at = "before" /\ rd'.tries >= 1 /\ Cycle' = Cycle
    BY Bounds DEF Wait, PubInv, TypeOK, Cycle
  <1> QED
    BY <1>1 DEF Wait, PubInv, SeqInv, CopyInv, WakeInv

LEMMA TimeoutStep ==
    ASSUME PubInv, Timeout
    PROVE  PubInv'
  <1>1. TypeOK' /\ Cycle' = Cycle
    BY DEF Timeout, PubInv, TypeOK, Cycle
  <1> QED
    BY <1>1 DEF Timeout, PubInv, SeqInv, CopyInv, WakeInv

\* A try that is over leaves the reader before another one, or waiting.
LEMMA RetryType ==
    ASSUME PubInv, rd.at \in {"before", "copy"}
    PROVE  /\ Retry \in [at : {"wait", "before", "copy", "show"}, tries : 0 .. Tries,
                         before : 0 .. 2 * MaxCycles, todo : SUBSET Fields, tmp : Copies]
           /\ Retry.at \in {"wait", "before"}
           /\ Retry.at = "before" => Retry.tries >= 1
  <1>1. Whole(0) \in Copies
    BY PubAssumption, WholeType DEF Numbers
  <1>2. rd.tries \in 1 .. Tries
    BY PubAssumption DEF PubInv, TypeOK, CopyInv
  <1>3. rd.tries - 1 \in 0 .. Tries /\ (rd.tries # 1 => rd.tries - 1 >= 1)
    BY <1>2, PubAssumption
  <1>4. CASE rd.tries = 1
    <2>1. Retry = [rd EXCEPT !.at = "wait", !.tries = @ - 1, !.before = 0, !.todo = {},
                             !.tmp = Whole(0)]
      BY <1>4 DEF Retry
    <2> QED
      BY <1>1, <1>3, <2>1, Bounds DEF PubInv, TypeOK
  <1>5. CASE rd.tries # 1
    <2>1. Retry = [rd EXCEPT !.at = "before", !.tries = @ - 1, !.before = 0, !.todo = {},
                             !.tmp = Whole(0)]
      BY <1>5 DEF Retry
    <2> QED
      BY <1>1, <1>3, <1>5, <2>1, Bounds DEF PubInv, TypeOK
  <1> QED
    BY <1>4, <1>5

\* A try that fails has met a write: it is under way, or its signal is pending.
LEMMA RetryStep ==
    ASSUME PubInv, rd.at \in {"before", "copy"}, rd' = Retry,
           ~(sem = 0 /\ wr.at = "idle"),
           UNCHANGED <<seq, pub, sem, wr, shown, log>>
    PROVE  PubInv'
  <1>1. Cycle' = Cycle
    BY DEF Cycle
  <1>2. TypeOK'
    BY RetryType DEF PubInv, TypeOK
  <1>3. CopyInv'
    BY RetryType DEF CopyInv
  <1> QED
    BY <1>1, <1>2, <1>3 DEF PubInv, SeqInv, WakeInv

LEMMA SnapBeforeStep ==
    ASSUME PubInv, SnapBefore
    PROVE  PubInv'
  <1>1. CASE seq % 2 = 1
    BY <1>1, RetryStep DEF SnapBefore, PubInv, SeqInv
  <1>2. CASE seq % 2 # 1
    <2>1. seq % 2 = 0 /\ seq \in Nat
      BY <1>2, Halves DEF PubInv, TypeOK
    <2>2. rd' = [rd EXCEPT !.at = "copy", !.before = seq, !.todo = Fields]
      BY <1>2 DEF SnapBefore
    <2>3. TypeOK' /\ Cycle' = Cycle
      BY <2>2 DEF SnapBefore, PubInv, TypeOK, Cycle
    <2>4. /\ rd'.at = "copy" /\ rd'.before = seq /\ rd'.todo = Fields
          /\ rd'.tries = rd.tries
      BY <2>2 DEF PubInv, TypeOK
    <2>5. CopyInv'
      BY <2>1, <2>4 DEF SnapBefore, PubInv, CopyInv
    <2> QED
      BY <2>3, <2>4, <2>5 DEF SnapBefore, PubInv, SeqInv, WakeInv
  <1> QED
    BY <1>1, <1>2

LEMMA SnapCopyStep ==
    ASSUME PubInv, NEW f \in Fields, SnapCopy(f)
    PROVE  PubInv'
  <1>1. rd' = [rd EXCEPT !.tmp[f] = pub[f], !.todo = @ \ {f}]
    BY DEF SnapCopy
  <1>2. /\ rd'.at = "copy" /\ rd'.before = rd.before /\ rd'.tries = rd.tries
        /\ rd'.todo = rd.todo \ {f}
        /\ rd'.tmp = [rd.tmp EXCEPT ![f] = pub[f]]
    BY <1>1 DEF SnapCopy, PubInv, TypeOK
  <1>3. rd'.tmp \in Copies /\ \A e \in Fields : rd'.tmp[e] = IF e = f THEN pub[f] ELSE rd.tmp[e]
    BY <1>2 DEF PubInv, TypeOK, Copies
  <1>4. TypeOK' /\ Cycle' = Cycle
    BY <1>1, <1>2, <1>3 DEF SnapCopy, PubInv, TypeOK, Cycle
  <1>5. CopyInv'
    BY <1>2, <1>3 DEF SnapCopy, PubInv, CopyInv
  <1> QED
    BY <1>2, <1>4, <1>5 DEF SnapCopy, PubInv, SeqInv, WakeInv

\* A copy that the second read accepts is the whole of the last publication.
LEMMA SnapTakes ==
    ASSUME PubInv, SnapAfter, seq = rd.before
    PROVE  /\ rd.tmp = Whole(Cycle) /\ Cycle = seq \div 2
           /\ rd' = [rd EXCEPT !.at = "show"]
  <1>1. seq \in Nat /\ seq % 2 = 0
    BY DEF SnapAfter, PubInv, TypeOK, CopyInv
  <1>2. Cycle = seq \div 2
    BY <1>1, Halves DEF Cycle
  <1>3. pub = Whole(Cycle)
    BY <1>1 DEF PubInv, SeqInv
  <1>4. \A f \in Fields : rd.tmp[f] = pub[f]
    BY DEF SnapAfter, PubInv, CopyInv
  <1> QED
    BY <1>2, <1>3, <1>4 DEF SnapAfter, PubInv, TypeOK, Copies, Whole

LEMMA SnapAfterStep ==
    ASSUME PubInv, SnapAfter
    PROVE  PubInv'
  <1>1. CASE seq = rd.before
    <2>1. TypeOK' /\ Cycle' = Cycle /\ rd'.at = "show" /\ rd'.tmp = Whole(Cycle)
      BY <1>1, SnapTakes DEF SnapAfter, PubInv, TypeOK, Cycle
    <2> QED
      BY <2>1 DEF SnapAfter, PubInv, SeqInv, CopyInv, WakeInv
  <1>2. CASE seq # rd.before
    BY <1>2, RetryStep DEF SnapAfter, PubInv, WakeInv
  <1> QED
    BY <1>1, <1>2

LEMMA ShowStep ==
    ASSUME PubInv, Show
    PROVE  PubInv'
  <1>1. Whole(0) \in Copies
    BY PubAssumption, WholeType DEF Numbers
  <1>2. log' \in [stalled : BOOLEAN, rows : 0 .. HeaderEvery]
    <2>1. Row \in 0 .. HeaderEvery
      BY PubAssumption DEF Row, PubInv, TypeOK
    <2> QED
      BY <2>1 DEF Show, PubInv, TypeOK
  <1>3. TypeOK' /\ Cycle' = Cycle /\ rd'.at = "wait" /\ shown' = rd.tmp
    BY <1>1, <1>2, Bounds DEF Show, PubInv, TypeOK, Cycle
  <1> QED
    BY <1>3 DEF Show, PubInv, SeqInv, CopyInv, WakeInv

LEMMA PubNext == PubInv /\ [Next]_pubVars => PubInv'
  <1> SUFFICES ASSUME PubInv, [Next]_pubVars PROVE PubInv'
    OBVIOUS
  <1>1. CASE Writer
    BY <1>1, WriteBeginStep, WriteFieldStep, WriteEndStep, GiveStep DEF Writer
  <1>2. CASE Reader
    BY <1>2, WaitStep, TimeoutStep, SnapBeforeStep, SnapCopyStep, SnapAfterStep, ShowStep DEF Reader
  <1>3. CASE UNCHANGED pubVars
    BY <1>3 DEF pubVars, PubInv, TypeOK, SeqInv, CopyInv, WakeInv, Cycle
  <1> QED
    BY <1>1, <1>2, <1>3 DEF Next

\* The seqlock invariant that the theorems below project from.
THEOREM PubInvariant == Spec => []PubInv
  BY PubInit, PubNext, PTL DEF Spec

(***************************************************************************)
(* Theorems                                                                *)
(***************************************************************************)

\* The types, for every record, number of tries and of cycles: a snapshot never
\* uses more than its tries (PROVES TypeOK).
THEOREM PubTypes == Spec => []TypeOK
  <1>1. PubInv => TypeOK
    BY DEF PubInv
  <1> QED
    BY <1>1, PubInvariant, PTL

\* The consumer never sleeps on news, however many cycles were coalesced or
\* given up in between (PROVES NoLostWakeup).
THEOREM NoWakeupIsLost == Spec => []NoLostWakeup
  <1>1. PubInv => NoLostWakeup
    BY DEF PubInv, WakeInv, NoLostWakeup
  <1> QED
    BY <1>1, PubInvariant, PTL

LEMMA MailInit == Init => Mail!Init
  <1> SUFFICES ASSUME Init PROVE Mail!Init
    OBVIOUS
  <1>1. 0 \div 2 = 0
    BY SMT
  <1> QED
    BY <1>1 DEF Init, Mail!Init, Mail!Whole, Whole

LEMMA MailNext == PubInv /\ [Next]_pubVars => [Mail!Next]_(Mail!mailVars)
  <1> SUFFICES ASSUME PubInv, [Next]_pubVars PROVE Mail!Next \/ UNCHANGED Mail!mailVars
    OBVIOUS
  <1> DEFINE taken == IF rd.at = "show" THEN rd.tmp ELSE shown
  <1> USE DEF Mail!Next, Mail!mailVars
  <1>1. CASE WriteBegin
    <2>1. seq' \div 2 = seq \div 2
      BY <1>1, Halves DEF WriteBegin, PubInv, TypeOK, SeqInv
    <2> QED
      BY <1>1, <2>1 DEF WriteBegin
  <1>2. CASE WriteEnd
    <2>1. seq' \div 2 = seq \div 2 + 1
      BY <1>2, Halves DEF WriteEnd, PubInv, TypeOK, SeqInv
    <2> QED
      BY <1>2, <2>1 DEF WriteEnd, Mail!Publish
  <1>3. CASE SnapAfter /\ seq = rd.before
    <2>1. taken' = Whole(seq \div 2)
      BY <1>3, SnapTakes DEF PubInv, TypeOK
    <2> QED
      BY <1>3, <2>1 DEF SnapAfter, Mail!Take, Mail!Whole, Whole
  <1>4. CASE (SnapAfter /\ seq # rd.before) \/ SnapBefore
    <2>1. rd.at \in {"before", "copy"} /\ rd'.at # "show" /\ UNCHANGED <<seq, shown, log>>
      BY <1>4, RetryType DEF SnapAfter, SnapBefore, PubInv, TypeOK
    <2> QED
      BY <2>1
  <1>5. CASE Wait \/ Timeout \/ Show \/ \E f \in Fields : SnapCopy(f)
    BY <1>5 DEF Wait, Timeout, Show, SnapCopy, PubInv, TypeOK
  <1>6. CASE Give \/ (\E f \in Fields : WriteField(f)) \/ UNCHANGED pubVars
    BY <1>6 DEF Give, WriteField, pubVars
  <1> QED
    BY <1>1, <1>2, <1>3, <1>4, <1>5, <1>6 DEF Next, Writer, Reader

\* For any record size and any number of tries, a snapshot that succeeds is one
\* whole publication, the last at that moment (PROVES ImplementsMailbox).
THEOREM SnapshotsAreWhole == Spec => ImplementsMailbox
  BY PubInvariant, MailInit, MailNext, PTL DEF Spec, ImplementsMailbox

(***************************************************************************)
(* Why the last cycle is shown                                             *)
(***************************************************************************)

\* The steps of the consumer from here to its next wait, if no write comes: a
\* copy that a write has overtaken is thrown away, and the next try succeeds.
StepsToWait ==
    CASE rd.at = "wait" -> 0
      [] rd.at = "show" -> 1
      [] rd.at = "before" -> Cardinality(Fields) + 3
      [] OTHER -> Cardinality(rd.todo)
                    + (IF rd.before = seq THEN 2 ELSE Cardinality(Fields) + 4)

\* All of its steps until it has nothing left to do: a pending signal is worth
\* a whole snapshot, and a stall is reported once.
StepsToRest ==
    StepsToWait + (IF sem = 1 THEN Cardinality(Fields) + 6 ELSE 0)
                + (IF log.stalled THEN 0 ELSE 1)

\* While nothing is published, each step of the consumer is one less to do.
ConsumerSettles == wr.at = "idle" /\ Reader => StepsToRest' < StepsToRest

\* The consumer's work is bounded by three snapshots, and when it is done the
\* last cycle is on show.
RestInv ==
    wr.at = "idle" =>
        /\ StepsToRest \in 0 .. 3 * Cardinality(Fields) + 11
        /\ StepsToRest = 0 => shown = Whole(Cycle)

LEMMA FieldCounts ==
    ASSUME TypeOK
    PROVE  /\ Cardinality(Fields) \in Nat
           /\ Cardinality(rd.todo) \in 0 .. Cardinality(Fields)
           /\ \A f \in rd.todo : Cardinality(rd.todo \ {f}) = Cardinality(rd.todo) - 1
  <1>1. IsFiniteSet(Fields) /\ rd.todo \subseteq Fields
    BY PubAssumption DEF TypeOK
  <1>2. IsFiniteSet(rd.todo)
    BY <1>1, FS_Subset
  <1>3. Cardinality(rd.todo) \in Nat /\ Cardinality(Fields) \in Nat
    BY <1>1, <1>2, FS_CardinalityType
  <1>4. Cardinality(rd.todo) <= Cardinality(Fields)
    BY <1>1, FS_Subset
  <1>5. \A f \in rd.todo : Cardinality(rd.todo \ {f}) = Cardinality(rd.todo) - 1
    BY <1>2, FS_RemoveElement
  <1> QED
    BY <1>3, <1>4, <1>5

LEMMA StepsRange == PubInv => RestInv
  <1> SUFFICES ASSUME PubInv, wr.at = "idle"
               PROVE  /\ StepsToRest \in 0 .. 3 * Cardinality(Fields) + 11
                      /\ StepsToRest = 0 => shown = Whole(Cycle)
    BY DEF RestInv
  <1> DEFINE n == Cardinality(Fields)
  <1>1. n \in Nat /\ Cardinality(rd.todo) \in 0 .. n
    BY FieldCounts DEF PubInv
  <1>2. StepsToWait \in 0 .. 2 * n + 4 /\ (StepsToWait = 0 => rd.at = "wait")
    <2> HIDE DEF n
    <2>1. StepsToWait = IF rd.at = "wait" THEN 0 ELSE IF rd.at = "show" THEN 1
                        ELSE IF rd.at = "before" THEN n + 3
                        ELSE Cardinality(rd.todo) + (IF rd.before = seq THEN 2 ELSE n + 4)
      BY DEF StepsToWait, n
    <2> QED
      BY <1>1, <2>1
  <1>3. StepsToRest = StepsToWait + (IF sem = 1 THEN n + 6 ELSE 0)
                                  + (IF log.stalled THEN 0 ELSE 1)
    BY DEF StepsToRest
  <1> HIDE DEF n
  <1>4. n = Cardinality(Fields)
    BY DEF n
  <1>5. StepsToRest \in 0 .. 3 * n + 11
    BY <1>1, <1>2, <1>3
  <1>6. StepsToRest = 0 => sem # 1 /\ rd.at = "wait"
    BY <1>1, <1>2, <1>3
  <1>7. StepsToRest = 0 => shown = Whole(Cycle)
    BY <1>6 DEF PubInv, TypeOK, WakeInv
  <1> QED
    BY <1>4, <1>5, <1>7

LEMMA SettlesNext == PubInv => ConsumerSettles
  <1> SUFFICES ASSUME PubInv, wr.at = "idle", Reader
               PROVE  StepsToRest' < StepsToRest
    BY DEF ConsumerSettles
  <1> DEFINE n == Cardinality(Fields)
             signal == IF sem = 1 THEN n + 6 ELSE 0
             report == IF log.stalled THEN 0 ELSE 1
  <1>1. /\ n \in Nat /\ Cardinality(rd.todo) \in 0 .. n
        /\ \A f \in rd.todo : Cardinality(rd.todo \ {f}) = Cardinality(rd.todo) - 1
    BY FieldCounts DEF PubInv
  <1>2. /\ StepsToRest = StepsToWait + signal + report
        /\ StepsToRest' = StepsToWait' + signal' + report'
    BY DEF StepsToRest
  <1>3. signal \in Nat /\ report \in {0, 1}
    BY <1>1
  <1>4. CASE Wait
    <2>1. /\ StepsToWait = 0 /\ signal = n + 6 /\ signal' = 0 /\ report' = 1
          /\ StepsToWait' = n + 3
      BY <1>4 DEF Wait, StepsToWait, PubInv, TypeOK
    <2> HIDE DEF n, signal, report
    <2> QED
      BY <1>1, <1>2, <1>3, <2>1
  <1>5. CASE Timeout
    <2>1. /\ signal' = signal /\ report = 1 /\ report' = 0
          /\ StepsToWait = 0 /\ StepsToWait' = 0
      BY <1>5 DEF Timeout, StepsToWait, PubInv, TypeOK
    <2> HIDE DEF n, signal, report
    <2> QED
      BY <1>2, <1>3, <2>1
  <1>6. ASSUME UNCHANGED <<sem, log>>, StepsToWait \in Nat, StepsToWait' \in Nat,
               StepsToWait' < StepsToWait
        PROVE  StepsToRest' < StepsToRest
    <2>1. signal' = signal /\ report' = report
      BY <1>6
    <2>2. StepsToWait \in Nat /\ StepsToWait' \in Nat /\ StepsToWait' < StepsToWait
      BY <1>6
    <2>3. StepsToRest' = StepsToWait' + signal + report
      BY <1>2, <2>1
    <2>4. ASSUME NEW w \in Nat, NEW v \in Nat, v < w, NEW s \in Nat, NEW r \in Nat
          PROVE  v + s + r < w + s + r
      BY <2>4
    <2>5. signal \in Nat /\ report \in Nat
      BY <1>3
    <2>6. StepsToRest = StepsToWait + signal + report
      BY <1>2
    <2> HIDE DEF n, signal, report
    <2> QED
      BY <2>2, <2>3, <2>4, <2>5, <2>6, Zenon
  <1>7. CASE SnapBefore
    <2>1. seq % 2 = 0
      BY Halves DEF PubInv, TypeOK, SeqInv
    <2>2. rd' = [rd EXCEPT !.at = "copy", !.before = seq, !.todo = Fields]
      BY <1>7, <2>1 DEF SnapBefore
    <2>3. StepsToWait = n + 3 /\ StepsToWait' = n + 2
      BY <1>7, <2>2 DEF SnapBefore, StepsToWait, PubInv, TypeOK
    <2> QED
      BY <1>1, <1>6, <1>7, <2>3 DEF SnapBefore
  <1>8. ASSUME NEW f \in Fields, SnapCopy(f) PROVE StepsToRest' < StepsToRest
    <2> DEFINE rest == IF rd.before = seq THEN 2 ELSE n + 4
    <2>1. /\ rd'.at = "copy" /\ rd'.before = rd.before /\ rd'.todo = rd.todo \ {f}
          /\ rd.at = "copy" /\ f \in rd.todo /\ UNCHANGED <<seq, sem, log>>
      BY <1>8 DEF SnapCopy, PubInv, TypeOK
    <2>2. /\ StepsToWait = Cardinality(rd.todo) + rest
          /\ StepsToWait' = Cardinality(rd.todo) - 1 + rest
      BY <1>1, <2>1 DEF StepsToWait
    <2>3. rest \in Nat /\ Cardinality(rd.todo) # 0
      <3>1. rest \in Nat
        BY <1>1
      <3>2. Cardinality(rd.todo \ {f}) \in Nat
        BY <2>1, PubAssumption, FS_Subset, FS_CardinalityType DEF PubInv, TypeOK
      <3> QED
        BY <1>1, <2>1, <3>1, <3>2
    <2> HIDE DEF n, rest
    <2> QED
      BY <1>1, <1>6, <2>1, <2>2, <2>3
  <1>9. CASE SnapAfter
    <2>1. Cardinality(rd.todo) = 0 /\ rd.at = "copy"
      BY <1>9, FS_EmptySet DEF SnapAfter
    <2>2. CASE rd.before = seq
      <3>1. rd'.at = "show"
        BY <1>9, <2>2 DEF SnapAfter, PubInv, TypeOK
      <3>2. StepsToWait = 2 /\ StepsToWait' = 1
        BY <2>1, <2>2, <3>1 DEF StepsToWait
      <3> QED
        BY <1>6, <1>9, <3>2 DEF SnapAfter
    <2>3. CASE rd.before # seq
      <3>1. rd'.at \in {"wait", "before"}
        BY <1>9, <2>1, <2>3, RetryType DEF SnapAfter
      <3>2. StepsToWait = n + 4 /\ StepsToWait' \in {0, n + 3}
        BY <1>1, <2>1, <2>3, <3>1 DEF StepsToWait
      <3> HIDE DEF n
      <3> QED
        BY <1>1, <1>6, <1>9, <3>2 DEF SnapAfter
    <2> QED
      BY <2>2, <2>3
  <1>10. CASE Show
    <2>1. StepsToWait = 1 /\ StepsToWait' = 0 /\ UNCHANGED sem /\ log'.stalled = log.stalled
      BY <1>10 DEF Show, StepsToWait, PubInv, TypeOK
    <2>2. signal' = signal /\ report' = report
      BY <2>1
    <2> HIDE DEF n, signal, report
    <2> QED
      BY <1>2, <1>3, <2>1, <2>2
  <1> QED
    BY <1>4, <1>5, <1>7, <1>8, <1>9, <1>10 DEF Reader

\* For every record and every number of tries: once the cycles stop, the consumer
\* has at most three snapshots' worth of steps to make, and the last cycle is on
\* show when none is left; giving up after Tries never costs it, because the
\* signal of the write that spoilt the last try is still pending.  With the
\* consumer's fairness that is LastCycleShown.
THEOREM ConsumerComesToRest == Spec => []RestInv /\ [][ConsumerSettles]_pubVars
  BY StepsRange, SettlesNext, PubInvariant, PTL DEF Spec
=============================================================================
