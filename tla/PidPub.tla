------------------------------- MODULE PidPub -------------------------------
(***************************************************************************)
(* The one-way boundary between the control loop and the bench trace       *)
(* (pid_pub.c, oven_debug.c): a seqlock around a multi-word record, and a  *)
(* semaphore of maximum count 1 that coalesces cycles.                     *)
(*                                                                         *)
(* The writer is the PID thread, which the consumer cannot preempt.  The   *)
(* model is stricter with the seqlock than the scheduler: every access of  *)
(* either side is a step and any step of the other may fall in between, so *)
(* what holds here needs no priorities, and the reader's odd test and its  *)
(* retries all happen.  A publication is known by its number: a field of   *)
(* the record holds the number of the cycle that wrote it.                 *)
(***************************************************************************)
EXTENDS Naturals, FiniteSets

CONSTANTS
    Fields,      \* fields of struct pid_pub, which is copied word by word
    Tries,       \* PID_PUB_READ_TRIES
    HeaderEvery, \* TRACE_HEADER_EVERY_CYCLES
    MaxCycles    \* bound on the publications explored (a counter in the code)

ASSUME PubAssumption ==
    /\ IsFiniteSet(Fields)
    /\ Tries \in Nat \ {0} /\ HeaderEvery \in Nat \ {0} /\ MaxCycles \in Nat

VARIABLES
    seq,       \* s_seq (2^32 wide: it does not wrap within a snapshot)
    pub,       \* s_pub
    sem,       \* s_cycle
    wr,        \* the writer: its step, and the fields it has yet to write
    rd,        \* the consumer: its step, tries left, and its local copy
    shown,     \* the publication last traced and drawn
    log        \* the trace: a stall is reported; rows since its last header

pubVars == <<seq, pub, sem, wr, rd, shown, log>>

Whole(n) == [f \in Fields |-> n]

Init == /\ seq = 0 /\ pub = Whole(0) /\ sem = 0
        /\ wr = [at |-> "idle", todo |-> {}]
        /\ rd = [at |-> "wait", tries |-> 0, before |-> 0, todo |-> {}, tmp |-> Whole(0)]
        /\ shown = Whole(0) /\ log = [stalled |-> FALSE, rows |-> 0]

-----------------------------------------------------------------------------
(* pid_pub_publish, once a cycle                                            *)

\* Publications begun: the number of the one being written, or the last.
Cycle == (seq + 1) \div 2

WriteBegin ==
    /\ wr.at = "idle" /\ Cycle < MaxCycles
    /\ seq' = seq + 1
    /\ wr' = [at |-> "write", todo |-> Fields]
    /\ UNCHANGED <<pub, sem, rd, shown, log>>

WriteField(f) ==
    /\ wr.at = "write" /\ f \in wr.todo
    /\ pub' = [pub EXCEPT ![f] = Cycle]
    /\ wr' = [wr EXCEPT !.todo = @ \ {f}]
    /\ UNCHANGED <<seq, sem, rd, shown, log>>

WriteEnd ==
    /\ wr.at = "write" /\ wr.todo = {}
    /\ seq' = seq + 1
    /\ wr' = [wr EXCEPT !.at = "give"]
    /\ UNCHANGED <<pub, sem, rd, shown, log>>

\* Mutants of Give: a semaphore that counts; a signal lost when nobody waits for it.
GiveCounting ==
    /\ wr.at = "give"
    /\ sem' = sem + 1
    /\ wr' = [wr EXCEPT !.at = "idle"]
    /\ UNCHANGED <<seq, pub, rd, shown, log>>
GiveWaiting ==
    /\ wr.at = "give"
    /\ sem' = IF rd.at = "wait" THEN 1 ELSE sem
    /\ wr' = [wr EXCEPT !.at = "idle"]
    /\ UNCHANGED <<seq, pub, rd, shown, log>>
\* The semaphore saturates at 1.
Give ==
    /\ wr.at = "give"
    /\ sem' = 1
    /\ wr' = [wr EXCEPT !.at = "idle"]
    /\ UNCHANGED <<seq, pub, rd, shown, log>>

-----------------------------------------------------------------------------
(* debug_thread_entry: wait, pid_pub_snapshot, trace and draw               *)

\* The wait ends with a cycle, ...
Wait ==
    /\ rd.at = "wait" /\ sem = 1
    /\ sem' = 0
    /\ rd' = [rd EXCEPT !.at = "before", !.tries = Tries]
    /\ log' = [log EXCEPT !.stalled = FALSE]
    /\ UNCHANGED <<seq, pub, wr, shown>>

\* ... or after four periods without one: reported once, and it waits again.
Timeout ==
    /\ rd.at = "wait" /\ sem = 0 /\ ~log.stalled
    /\ log' = [log EXCEPT !.stalled = TRUE]
    /\ UNCHANGED <<seq, pub, sem, wr, rd, shown>>

\* One try is over without a copy: the next one, or give up this cycle.
Retry == [rd EXCEPT !.at = IF rd.tries = 1 THEN "wait" ELSE "before",
                    !.tries = @ - 1, !.before = 0, !.todo = {}, !.tmp = Whole(0)]

\* Read the counter: an odd one means a write is under way.
SnapBefore ==
    /\ rd.at = "before"
    /\ rd' = IF seq % 2 = 1 THEN Retry
             ELSE [rd EXCEPT !.at = "copy", !.before = seq, !.todo = Fields]
    /\ UNCHANGED <<seq, pub, sem, wr, shown, log>>

SnapCopy(f) ==
    /\ rd.at = "copy" /\ f \in rd.todo
    /\ rd' = [rd EXCEPT !.tmp[f] = pub[f], !.todo = @ \ {f}]
    /\ UNCHANGED <<seq, pub, sem, wr, shown, log>>

\* Mutant of SnapAfter: any even counter will do.
SnapAfterEven ==
    /\ rd.at = "copy" /\ rd.todo = {}
    /\ rd' = IF seq % 2 = 0 THEN [rd EXCEPT !.at = "show"] ELSE Retry
    /\ UNCHANGED <<seq, pub, sem, wr, shown, log>>
\* Read it again: an equal one means no write overlapped the copy.
SnapAfter ==
    /\ rd.at = "copy" /\ rd.todo = {}
    /\ rd' = IF seq = rd.before THEN [rd EXCEPT !.at = "show"] ELSE Retry
    /\ UNCHANGED <<seq, pub, sem, wr, shown, log>>

\* trace_cycle: a header before the row if the last one is far enough back.
Row == (IF log.rows >= HeaderEvery THEN 0 ELSE log.rows) + 1

\* trace_cycle and led_draw_cycle, which sleeps: several cycles may go by.
Show ==
    /\ rd.at = "show"
    /\ shown' = rd.tmp
    /\ log' = [log EXCEPT !.rows = Row]
    /\ rd' = [rd EXCEPT !.at = "wait", !.tries = 0, !.before = 0, !.tmp = Whole(0)]
    /\ UNCHANGED <<seq, pub, sem, wr>>

-----------------------------------------------------------------------------
Writer == WriteBegin \/ (\E f \in Fields : WriteField(f)) \/ WriteEnd \/ Give
Reader == Wait \/ Timeout \/ SnapBefore \/ (\E f \in Fields : SnapCopy(f)) \/ SnapAfter \/ Show
Next == Writer \/ Reader

\* Both threads get the CPU again and again, and a write once begun is finished;
\* the loop need not begin another.
Fairness == WF_pubVars(Reader) /\ WF_pubVars(Writer /\ wr.at # "idle")

Spec == Init /\ [][Next]_pubVars /\ Fairness

-----------------------------------------------------------------------------
(* Properties                                                               *)

Numbers == 0 .. MaxCycles
Copies == [Fields -> Numbers]

\* Every variable has the values the code can give it.
TypeOK ==
    /\ seq \in 0 .. 2 * MaxCycles /\ pub \in Copies /\ sem \in {0, 1}
    /\ wr \in [at : {"idle", "write", "give"}, todo : SUBSET Fields]
    /\ rd \in [at : {"wait", "before", "copy", "show"}, tries : 0 .. Tries,
               before : 0 .. 2 * MaxCycles, todo : SUBSET Fields, tmp : Copies]
    /\ shown \in Copies
    /\ log \in [stalled : BOOLEAN, rows : 0 .. HeaderEvery]

\* The seqlock makes a many-word record look like one: every snapshot that
\* succeeds holds one whole publication, and the latest at the moment its
\* second read of the counter succeeds (pid_pub_snapshot).
Mail == INSTANCE Mailbox WITH
    latest <- seq \div 2,
    taken <- IF rd.at = "show" THEN rd.tmp ELSE shown
ImplementsMailbox == Mail!Init /\ [][Mail!Next]_(Mail!mailVars)

\* The consumer never sleeps on news: whenever it would block and no write is
\* under way, what it showed last is the last cycle, whatever cycles were
\* coalesced or given up in between (the semaphore of maximum count 1).
NoLostWakeup == rd.at = "wait" /\ sem = 0 /\ wr.at = "idle" => shown = Whole(Cycle)

\* When the cycles stop (the publications of an instance are bounded), the last
\* of them is shown in the end: giving up a snapshot after Tries never costs it.
LastCycleShown == <>[](shown = Whole(Cycle))
=============================================================================
