-------------------------- MODULE GpuQueueTimeout --------------------------
(***************************************************************************)
(* The GPU queue timeout of game/render/gpu_queue_timeout.cpp: the guest   *)
(* arms a deadline before it waits for its drawing queue and polls it in   *)
(* the wait.  The clock is the guest's VBlank field word; fields and polls *)
(* are 32-bit words compared as signed numbers.                            *)
(***************************************************************************)
EXTENDS Integers

CONSTANTS
  WordModulus,     (* 2^32 in the code                                     *)
  FieldTimeout,    (* kFieldTimeout                                        *)
  PollTimeout,     (* kPollTimeout                                         *)
  QueueSize        (* 64 in the code: entries of the drawing queue         *)

ASSUME WordAssumption ==
  /\ WordModulus \in Nat /\ WordModulus > 0 /\ WordModulus % 2 = 0
  /\ FieldTimeout \in Nat /\ FieldTimeout < WordModulus \div 2
  /\ PollTimeout \in Nat /\ PollTimeout + 1 < WordModulus \div 2
ASSUME QueueAssumption == QueueSize \in Nat \ {0, 1}

VARIABLES
  field,           (* guest word 0x8009AC68                                *)
  deadline,        (* guest word 0x80098CC4                                *)
  pollCount,       (* guest word 0x80098CC8                                *)
  head, tail,      (* guest words 0x80098CB0 and 0x80098CB4                *)
  waiting,         (* the guest is in the wait the deadline was armed for  *)
  reported,        (* depth of the latest timeout report, or -1            *)
  queued,          (* history: entries put in and not taken out            *)
  elapsed,         (* history: fields since arming, FieldTimeout+1 at most *)
  polled,          (* history: polls since arming, PollTimeout+1 at most    *)
  signChanged      (* history: the deadline has another sign than the field
                      had at arming, or the field has changed sign since   *)

vars == <<field, deadline, pollCount, head, tail, waiting, reported, queued,
          elapsed, polled, signChanged>>

Words == 0 .. WordModulus - 1

Signed(word) == IF word < WordModulus \div 2 THEN word ELSE word - WordModulus

SignsDiffer(first, second) == (Signed(first) < 0) # (Signed(second) < 0)

\* signedLess.
SignedLess(lhs, rhs) == Signed(lhs) < Signed(rhs)

\* The depth the report names.  Mutated: the difference is not masked.
RawDepth == head - tail
QueueDepth == (head - tail) % QueueSize

Init ==
  /\ field = 0 /\ deadline = 0 /\ pollCount = 0
  /\ head = 0 /\ tail = 0 /\ queued = 0
  /\ waiting = FALSE /\ reported = -1 /\ elapsed = 0 /\ polled = 0
  /\ signChanged = FALSE

-----------------------------------------------------------------------------
\* The VBlank callback FUN_800863B0, in or out of a wait.
VBlank ==
  /\ field' = (field + 1) % WordModulus
  /\ elapsed' = IF elapsed <= FieldTimeout THEN elapsed + 1 ELSE elapsed
  /\ signChanged' = (signChanged \/ SignsDiffer(field, field'))
  /\ UNCHANGED <<deadline, pollCount, head, tail, waiting, reported, queued, polled>>

\* libgpu fills its ring from the front and the GPU drains it from the back.
Enqueue ==
  /\ queued < QueueSize - 1
  /\ ~waiting
  /\ head' = (head + 1) % QueueSize
  /\ queued' = queued + 1
  /\ UNCHANGED <<field, deadline, pollCount, tail, waiting, reported, elapsed, polled, signChanged>>

Drain ==
  /\ queued > 0
  /\ tail' = (tail + 1) % QueueSize
  /\ queued' = queued - 1
  /\ UNCHANGED <<field, deadline, pollCount, head, waiting, reported, elapsed, polled, signChanged>>

\* The poll count after arming; mutated: arming leaves it.
StaleCount == pollCount
CountAfterArm == 0

\* armDeadline, before the guest waits for its queue.
ArmDeadline ==
  /\ ~waiting
  /\ waiting' = TRUE
  /\ deadline' = (field + FieldTimeout) % WordModulus
  /\ pollCount' = CountAfterArm
  /\ elapsed' = 0 /\ polled' = 0
  /\ signChanged' = SignsDiffer(field, deadline')
  /\ UNCHANGED <<field, head, tail, reported, queued>>

\* The wait ends by itself: the queue has drained.
WaitOver ==
  /\ waiting
  /\ queued = 0
  /\ waiting' = FALSE
  /\ UNCHANGED <<field, deadline, pollCount, head, tail, reported, queued, elapsed, polled, signChanged>>

DeadlinePassed == SignedLess(deadline, field)

\* The failsafe; mutated: it is left out.
NoFailsafe == FALSE
PollsExhausted == SignedLess(PollTimeout, pollCount)

\* pollQueue with neither limit reached: the poll is counted.
PollAgain ==
  /\ waiting
  /\ ~DeadlinePassed /\ ~PollsExhausted
  /\ pollCount' = (pollCount + 1) % WordModulus
  /\ polled' = IF polled <= PollTimeout THEN polled + 1 ELSE polled
  /\ UNCHANGED <<field, deadline, head, tail, waiting, reported, queued, elapsed, signChanged>>

\* pollQueue past a limit: the depth is reported, the queue reset in the
\* critical section, and the guest gives the wait up.
PollTimesOut ==
  /\ waiting
  /\ DeadlinePassed \/ PollsExhausted
  /\ pollCount' = IF DeadlinePassed THEN pollCount ELSE (pollCount + 1) % WordModulus
  /\ reported' = QueueDepth
  /\ head' = 0 /\ tail' = 0 /\ queued' = 0
  /\ waiting' = FALSE
  /\ UNCHANGED <<field, deadline, elapsed, polled, signChanged>>

Next ==
  \/ VBlank \/ Enqueue \/ Drain
  \/ ArmDeadline \/ WaitOver
  \/ PollAgain \/ PollTimesOut

Spec == Init /\ [][Next]_vars

\* A waiting guest polls and looks at its queue; neither the VBlank nor the
\* GPU is assumed to make progress.
Fairness == WF_vars(PollAgain \/ PollTimesOut) /\ WF_vars(WaitOver)

FairSpec == Spec /\ Fairness

-----------------------------------------------------------------------------
TypeOK ==
  /\ {field, deadline, pollCount} \subseteq Words
  /\ {head, tail} \subseteq 0 .. QueueSize - 1
  /\ waiting \in BOOLEAN
  /\ reported \in -1 .. QueueSize - 1
  /\ queued \in 0 .. QueueSize - 1
  /\ elapsed \in 0 .. FieldTimeout + 1 /\ signChanged \in BOOLEAN
  /\ polled \in 0 .. PollTimeout + 1

\* A timeout names the entries that were really queued: the masked difference
\* of the ring's indices is their number although the indices wrap.
ReportNamesTheBacklog == [][PollTimesOut => reported' = queued]_vars

\* While the field word keeps its sign across a wait (it loses it once in 2^31
\* fields), a poll times out exactly when the fields or the polls have run out
\* since the deadline was armed: not for an earlier wait's polls, not a field
\* early, not a field late (gpu_queue_timeout.cpp:109-123).
TimesOutOnTime ==
  [][~signChanged =>
       /\ PollTimesOut => elapsed > FieldTimeout \/ polled > PollTimeout
       /\ PollAgain => elapsed <= FieldTimeout /\ polled <= PollTimeout]_vars

\* No wait lasts for ever, though the VBlank clock may be frozen and the GPU
\* stalled: the poll count ends it (test pollCountStillDetectsAStalledQueue).
EveryWaitEnds == waiting ~> ~waiting
=============================================================================
