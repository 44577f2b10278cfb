-------------------------- MODULE MemoryInfoProofs --------------------------
(***************************************************************************)
(* The safety of LinuxMemoryInfo for every amount of memory.               *)
(***************************************************************************)
EXTENDS MemoryInfo, TLAPS

\* The inductive invariant.  The sampler exists exactly while the client is
\* between start() and the end of the join, the current value of rss is one of
\* those seen, and as long as nobody has asked to finish, a waiting sampler has
\* the action that the top of its loop has set.
IInv ==
  /\ TypeOK
  /\ PeakIsReal
  /\ ReadsAfterJoin
  /\ SamplesUntilStopped
  /\ client = "idle" <=> sampler = "none"
  /\ client # "idle" => rss \in seen
  /\ (client = "solving" /\ sampler = "waiting")
       => requested_action = ACTION_MEASURE

\* The invariant holds when the object has been constructed.
LEMMA InitIInv == Init => IInv
  BY MaxRssAssumption
  DEF Init, IInv, TypeOK, PeakIsReal, ReadsAfterJoin, SamplesUntilStopped,
      ArbitraryAction, Pages

\* Every step of either thread preserves the invariant.
LEMMA NextIInv == IInv /\ [Next]_vars => IInv'
<1> SUFFICES ASSUME IInv, [Next]_vars PROVE IInv'
  OBVIOUS
<1> USE MaxRssAssumption
    DEF IInv, TypeOK, PeakIsReal, ReadsAfterJoin, SamplesUntilStopped, Pages,
        ArbitraryAction, ACTION_FINISH, ACTION_MEASURE
<1>1. CASE Start
  BY <1>1 DEF Start
<1>2. CASE Allocate
  BY <1>2 DEF Allocate
<1>3. CASE Measure
  BY <1>3 DEF Measure
<1>4. CASE RequestStop
  BY <1>4 DEF RequestStop
<1>5. CASE Join
  BY <1>5 DEF Join
<1>6. CASE NextRun
  BY <1>6 DEF NextRun
<1>7. CASE Arm
  BY <1>7 DEF Arm
<1>8. CASE Sample
  BY <1>8 DEF Sample
<1>9. CASE Finish
  BY <1>9 DEF Finish
<1>10. CASE UNCHANGED vars
  BY <1>10 DEF vars
<1>11. QED
  BY <1>1, <1>2, <1>3, <1>4, <1>5, <1>6, <1>7, <1>8, <1>9, <1>10
  DEF Next, Client, Sampler

\* The inductive invariant holds throughout.
THEOREM Invariant == Spec => []IInv
  BY InitIInv, NextIInv, PTL DEF Spec

\* What get_rss_bytes_max() reports after stop() is a value the process had,
\* never below the baseline.
THEOREM ReportedPeak == Spec => []PeakIsReal
<1>1. IInv => PeakIsReal
  BY DEF IInv
<1>2. QED
  BY <1>1, Invariant, PTL

\* The maximum is read when no sampler is left to write it, and the sampler
\* lives as long as the solver is measured.
THEOREM SamplerIsAlive == Spec => []SamplerSpansRun
<1>1. IInv => SamplerSpansRun
  BY DEF IInv, SamplerSpansRun
<1>2. QED
  BY <1>1, Invariant, PTL

\* A sampler that is waiting with a request to finish keeps that request until
\* it acts on it, whoever calls measure() in between.
THEOREM RequestKept == Spec => FinishIsSticky
<1>1. [Next]_vars => [sampler = "waiting" /\ requested_action = ACTION_FINISH
                        => requested_action' = ACTION_FINISH]_vars
  BY DEF Next, Client, Sampler, vars, Start, Allocate, Measure, RequestStop,
         Join, NextRun, Arm, Sample, Finish, ACTION_FINISH, ACTION_MEASURE
<1>2. QED
  BY <1>1, PTL DEF Spec, FinishIsSticky
=============================================================================
