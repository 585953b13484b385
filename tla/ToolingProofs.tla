--------------------------- MODULE ToolingProofs ---------------------------
(***************************************************************************)
(* Theorems about the programs around the solvers: acquisition, for        *)
(* archives, connections and attempts of any number; the harness and the   *)
(* campaign, for all corpora, solvers, configurations and faults; and the  *)
(* offline verification, for every set of formulas and lemma documents.    *)
(***************************************************************************)
EXTENDS Acquire, Measurement, LemmaCheck, BasicLemmas

---------------------------------------------------------------------------
(* Acquisition.  The segments follow each other without a gap and end with *)
(* the archive.                                                            *)

LEMMA SpanCovers ==
    /\ Span \in Nat \ {0}
    /\ Connections * Span >= Total
  <1>1. Total \in Nat \ {0} /\ Connections \in Nat \ {0}
    BY AcquireAssumption
  <1> DEFINE a == Total + Connections - 1
             q == a \div Connections
  <1>2. a \in Nat /\ a >= Connections
    BY <1>1
  <1>3. q \in Int /\ Connections * q <= a /\ a < Connections * q + Connections
    BY <1>1, <1>2
  <1>4. Connections * q >= Total
    BY <1>1, <1>3
  <1>5. q >= 1
    BY <1>1, <1>3, <1>4
  <1>6. QED
    BY <1>3, <1>4, <1>5 DEF Span

LEMMA SegmentBounds ==
    /\ Segments = {k \in 1 .. Connections : (k - 1) * Span < Total}
    /\ 1 \in Segments
    /\ \A k \in Segments : /\ First(k) = (k - 1) * Span
                           /\ First(k) \in Nat /\ Final(k) \in Nat /\ Want(k) \in Nat
                           /\ Final(k) = IF k * Span < Total THEN k * Span - 1 ELSE Total - 1
  <1>1. Total \in Nat \ {0} /\ Connections \in Nat \ {0} /\ Span \in Nat \ {0}
    BY AcquireAssumption, SpanCovers
  <1>2. ASSUME NEW k \in 1 .. Connections
        PROVE  /\ k * Span \in Nat /\ (k - 1) * Span \in Nat
               /\ (k - 1) * Span = k * Span - Span
    BY <1>1
  <1>3. ASSUME NEW k \in 1 .. Connections
        PROVE  /\ Final(k) = IF k * Span < Total THEN k * Span - 1 ELSE Total - 1
               /\ First(k) <= Final(k) <=> (k - 1) * Span < Total
    BY <1>1, <1>2 DEF First, Final
  <1>4. 1 \in 1 .. Connections /\ (1 - 1) * Span = 0
    BY <1>1
  <1>5. Segments = {k \in 1 .. Connections : (k - 1) * Span < Total}
    BY <1>3 DEF Segments
  <1>6. ASSUME NEW k \in Segments
        PROVE  /\ First(k) = (k - 1) * Span
               /\ First(k) \in Nat /\ Final(k) \in Nat /\ Want(k) \in Nat
               /\ Final(k) = IF k * Span < Total THEN k * Span - 1 ELSE Total - 1
    BY <1>1, <1>2, <1>3 DEF Segments, First, Want
  <1>7. QED
    BY <1>1, <1>4, <1>5, <1>6

\* Bytes of the first p segments.
Copied(p) == IF p = 0 THEN 0 ELSE Final(p) + 1

LEMMA SegmentsAbut ==
    ASSUME NEW p \in {0} \cup Segments
    PROVE  /\ p + 1 \in Segments => Copied(p) + Want(p + 1) = Copied(p + 1)
           /\ p + 1 \notin Segments => p # 0 /\ Copied(p) = Total
  <1>1. /\ Total \in Nat \ {0} /\ Connections \in Nat \ {0} /\ Span \in Nat \ {0}
        /\ Connections * Span >= Total
    BY AcquireAssumption, SpanCovers
  <1>2. p \in Nat /\ p <= Connections /\ (p + 1) - 1 = p
    BY <1>1, SegmentBounds
  <1>3. p * Span \in Nat
    BY <1>1, <1>2
  <1>4. ASSUME p + 1 \in Segments
        PROVE  Copied(p) + Want(p + 1) = Copied(p + 1)
    <2>1. p * Span < Total /\ First(p + 1) = p * Span /\ Final(p + 1) \in Nat
      BY <1>2, <1>4, SegmentBounds
    <2>2. Copied(p) = p * Span
      <3>1. CASE p = 0
        BY <1>1, <3>1 DEF Copied
      <3>2. CASE p # 0
        BY <1>3, <2>1, <3>2, SegmentBounds DEF Copied
      <3>3. QED
        BY <3>1, <3>2
    <2>3. Copied(p + 1) = Final(p + 1) + 1
      BY <1>2 DEF Copied
    <2>4. QED
      BY <1>3, <2>1, <2>2, <2>3 DEF Want
  <1>5. ASSUME p + 1 \notin Segments
        PROVE  p # 0 /\ Copied(p) = Total
    <2>1. p # 0 /\ p \in Segments
      BY <1>5, SegmentBounds
    <2>2. p * Span >= Total
      <3>1. CASE p = Connections
        BY <1>1, <3>1
      <3>2. CASE p # Connections
        <4>1. p + 1 \in 1 .. Connections
          BY <1>1, <1>2, <3>2
        <4>2. ~(p * Span < Total)
          BY <1>2, <1>5, <4>1, SegmentBounds
        <4>3. QED
          BY <1>1, <1>3, <4>2
      <3>3. QED
        BY <3>1, <3>2
    <2>3. Final(p) = Total - 1
      BY <1>1, <1>3, <2>1, <2>2, SegmentBounds
    <2>4. QED
      BY <1>1, <2>1, <2>3 DEF Copied
  <1>6. QED
    BY <1>4, <1>5

---------------------------------------------------------------------------
(* The invariant. *)

Stages == {"idle", "head", "connect", "stream", "verify", "launch", "join", "open",
           "assemble", "remove", "raised", "returned"}

AcquireTyped ==
    /\ target \in Int
    /\ part \in [Segments -> Int]
    /\ main \in Stages
    /\ fetcher \in [Segments -> {"none", "started", "copying", "ended"}]
    /\ attempt \in Nat
    /\ errors \subseteq Segments
    /\ piece \in {0} \cup Segments

\* Threads run only while the calling thread waits for them, and one that has
\* ended without an error has left a whole part.
FetchInv ==
    /\ main # "join" => \A k \in Segments : fetcher[k] \in {"none", "ended"}
    /\ main = "join" => \A k \in Segments : fetcher[k] = "ended" => Complete(k) \/ k \in errors

\* The parts are whole until the target is, which grows by segments.
TargetInv ==
    /\ main \in {"open", "assemble"} => \A k \in Segments : Complete(k) /\ fetcher[k] = "ended"
    /\ main = "open" => piece = 0
    /\ main = "assemble" => target = Copied(piece)
    /\ main = "remove" => target = Total
    /\ main \in {"head", "connect", "stream", "launch", "join"} => piece = 0

AcquireInv == AcquireTyped /\ FetchInv /\ TargetInv

LEMMA InvInit == AcquireInit => AcquireInv
  BY DEF AcquireInit, AcquireInv, AcquireTyped, FetchInv, TargetInv, Stages, NoFile

(* Steps that leave threads, parts and the target alone.                   *)
LEMMA CallingNext ==
    ASSUME AcquireInv,
           Invoke \/ AskLength \/ StreamEnd \/ StreamFails \/ AttemptSucceeds \/ AttemptFails \/ VerifyDigest
    PROVE  AcquireInv'
  <1> USE DEF AcquireInv, AcquireTyped, Stages, FetchInv, TargetInv, disk, RaiseFor, Complete
  <1>1. CASE Invoke
    BY <1>1 DEF Invoke
  <1>2. CASE AskLength
    BY <1>2 DEF AskLength
  <1>3. CASE StreamEnd
    BY <1>3 DEF StreamEnd
  <1>4. CASE StreamFails
    BY <1>4 DEF StreamFails
  <1>5. CASE AttemptSucceeds
    BY <1>5 DEF AttemptSucceeds, Joined
  <1>6. CASE AttemptFails
    BY <1>6 DEF AttemptFails, Joined
  <1>7. CASE VerifyDigest
    BY <1>7 DEF VerifyDigest
  <1>8. QED
    BY <1>1, <1>2, <1>3, <1>4, <1>5, <1>6, <1>7

(* The thread of a segment. *)
LEMMA FetchingNext ==
    ASSUME AcquireInv, NEW k \in Segments, Fetching(k)
    PROVE  AcquireInv'
  <1> USE DEF AcquireInv, AcquireTyped, FetchInv, TargetInv, disk, Complete
  <1>1. main = "join" /\ main' = main
    BY DEF Fetching, SegmentSkip, SegmentOpen, SegmentCopy, SegmentEnd, SegmentFails
  <1>2. CASE SegmentSkip(k)
    BY <1>1, <1>2 DEF SegmentSkip
  <1>3. CASE SegmentOpen(k)
    BY <1>1, <1>3 DEF SegmentOpen
  <1>4. CASE SegmentCopy(k)
    BY <1>1, <1>4 DEF SegmentCopy
  <1>5. CASE SegmentEnd(k)
    BY <1>1, <1>5 DEF SegmentEnd
  <1>6. CASE SegmentFails(k)
    BY <1>1, <1>6 DEF SegmentFails
  <1>7. QED
    BY <1>2, <1>3, <1>4, <1>5, <1>6 DEF Fetching

(* The target grows by whole segments and ends as the whole archive.       *)
LEMMA AssemblingNext ==
    ASSUME AcquireInv, OpenTarget \/ AppendPart \/ CloseTarget \/ RemovePart \/ RemoveDirectory
    PROVE  AcquireInv'
  <1> USE DEF AcquireInv, AcquireTyped, Stages, FetchInv, TargetInv, disk, Complete
  <1>1. CASE OpenTarget
    BY <1>1 DEF OpenTarget, Copied
  <1>2. CASE AppendPart
    <2>1. target' = Copied(piece) + Want(piece + 1) /\ piece' = piece + 1 /\ piece + 1 \in Segments
      BY <1>2 DEF AppendPart
    <2>2. target' = Copied(piece') /\ target' \in Int
      BY <2>1, SegmentsAbut, SegmentBounds DEF Copied
    <2>3. QED
      BY <1>2, <2>1, <2>2 DEF AppendPart
  <1>3. CASE CloseTarget
    <2>1. target = Copied(piece) /\ piece + 1 \notin Segments
      BY <1>3 DEF CloseTarget
    <2>2. target = Total
      BY <2>1, SegmentsAbut
    <2>3. QED
      BY <1>3, <2>2 DEF CloseTarget
  <1>4. CASE RemovePart
    BY <1>4 DEF RemovePart, NoFile
  <1>5. CASE RemoveDirectory
    BY <1>5 DEF RemoveDirectory
  <1>6. QED
    BY <1>1, <1>2, <1>3, <1>4, <1>5

LEMMA InvNext == AcquireInv /\ [AcquireNext]_acquireVars => AcquireInv'
  <1> SUFFICES ASSUME AcquireInv, [AcquireNext]_acquireVars
               PROVE  AcquireInv'
    OBVIOUS
  <1> USE DEF AcquireInv, AcquireTyped, Stages, FetchInv, TargetInv, disk, Complete
  <1>1. CASE UNCHANGED acquireVars
    BY <1>1 DEF acquireVars
  <1>2. CASE StreamOpen \/ StreamCopy
    BY <1>2 DEF StreamOpen, StreamCopy
  <1>3. CASE Launch
    BY <1>3 DEF Launch
  <1>4. CASE Crash \/ Again
    BY <1>4 DEF Crash, Again
  <1>5. QED
    BY <1>1, <1>2, <1>3, <1>4, CallingNext, FetchingNext, AssemblingNext DEF AcquireNext, Calling

LEMMA AlwaysInv == AcquireSpec => []AcquireInv
  BY InvInit, InvNext, PTL DEF AcquireSpec

---------------------------------------------------------------------------
(* The archive is assembled from whole parts only, which are kept until it *)
(* is all there, whatever attempts and processes left on disk before.      *)
THEOREM AssemblyWhole == AcquireSpec => []AssemblyIsWhole
  <1>1. AcquireInv => AssemblyIsWhole
    BY DEF AcquireInv, TargetInv, AssemblyIsWhole
  <1>2. QED
    BY <1>1, AlwaysInv, PTL

(* No step takes a completed segment from the disk before the archive      *)
(* holds it, the steps of a crash and of another invocation included.      *)
THEOREM SegmentsSurvive == AcquireSpec => CompletedSegmentsSurvive
  <1> DEFINE Kept == \A k \in Segments : Complete(k) /\ fetcher[k] # "copying" =>
                       part'[k] = part[k] \/ target = Total
  <1>1. ASSUME AcquireInv, [AcquireNext]_acquireVars
        PROVE  Kept
    <2> USE DEF disk
    <2>1. CASE part' = part
      BY <2>1
    <2>2. CASE RemovePart
      BY <1>1, <2>2 DEF RemovePart, AcquireInv, TargetInv
    <2>3. ASSUME NEW k \in Segments, SegmentOpen(k) \/ SegmentCopy(k)
          PROVE  Kept
      BY <1>1, <2>3 DEF SegmentOpen, SegmentCopy, AcquireInv, AcquireTyped
    <2>4. QED
      BY <1>1, <2>1, <2>2, <2>3
         DEF AcquireNext, acquireVars, Invoke, Calling, AskLength, StreamOpen, StreamCopy, StreamEnd,
             StreamFails, Launch, AttemptSucceeds, AttemptFails, OpenTarget, AppendPart,
             CloseTarget, RemoveDirectory, VerifyDigest, Fetching, SegmentSkip, SegmentEnd,
             SegmentFails, Crash, Again
  <1>2. QED
    BY <1>1, AlwaysInv, PTL DEF AcquireSpec, CompletedSegmentsSurvive

---------------------------------------------------------------------------
(* Lists. *)

Listed(s) == s \in Seq(Range(s))

LEMMA ListOf == ASSUME NEW S, NEW s \in Seq(S) PROVE Listed(s)
  BY DEF Listed, Range

LEMMA ListIs ==
    ASSUME NEW s, Listed(s)
    PROVE  Len(s) \in Nat /\ DOMAIN s = 1 .. Len(s)
  BY DEF Listed

LEMMA EmptyList == Listed(<<>>) /\ Len(<<>>) = 0 /\ DOMAIN <<>> = {}
  BY DEF Listed, Range

LEMMA ListAppend ==
    ASSUME NEW s, Listed(s), NEW e
    PROVE  /\ Listed(Append(s, e))
           /\ Len(Append(s, e)) = Len(s) + 1
           /\ DOMAIN Append(s, e) = 1 .. Len(s) + 1
           /\ \A i \in DOMAIN s : Append(s, e)[i] = s[i]
           /\ Append(s, e)[Len(s) + 1] = e
  <1> DEFINE S == Range(s) \cup {e}
  <1>1. s \in Seq(S) /\ e \in S
    BY DEF Listed
  <1> HIDE DEF S
  <1>2. Append(s, e) \in Seq(S) /\ Len(Append(s, e)) = Len(s) + 1
    BY <1>1
  <1>3. Len(s) \in Nat /\ DOMAIN s = 1 .. Len(s)
    BY <1>1
  <1>4. \A i \in 1 .. Len(s) : Append(s, e)[i] = s[i]
    BY <1>1
  <1>5. Append(s, e)[Len(s) + 1] = e
    BY <1>1
  <1>6. DOMAIN Append(s, e) = 1 .. Len(Append(s, e))
    BY <1>2
  <1>7. Listed(Append(s, e))
    BY <1>2, ListOf
  <1>8. QED
    BY <1>2, <1>3, <1>4, <1>5, <1>6, <1>7

LEMMA ListMade ==
    ASSUME NEW n \in Nat, NEW f, DOMAIN f = 1 .. n, f = [k \in 1 .. n |-> f[k]]
    PROVE  Listed(f) /\ Len(f) = n
  <1> DEFINE S == Range(f)
  <1>1. \A k \in 1 .. n : f[k] \in S
    BY DEF Range
  <1>2. f \in [1 .. n -> S]
    BY <1>1
  <1> HIDE DEF S
  <1>3. f \in Seq(S)
    BY <1>2
  <1>4. QED
    BY <1>2, <1>3 DEF Listed, S

---------------------------------------------------------------------------
(* The harness. *)

\* Only an interrupt leaves a solver behind, and a run in progress belongs to a phase.
AloneInv ==
    /\ phase \in {"main", "validation", "measurement", "over"}
    /\ phase \in {"main", "over"} => looking = "spawn"
    /\ returned = "interrupted" => phase = "over"
    /\ returned # "interrupted" => strays = {}

LEMMA AloneInit == HarnessInit => AloneInv
  BY DEF HarnessInit, AloneInv

LEMMA AloneNext == AloneInv /\ HarnessNext => AloneInv'
  <1> SUFFICES ASSUME AloneInv, HarnessNext
               PROVE  AloneInv'
    OBVIOUS
  <1> USE DEF AloneInv
  <1>1. CASE Discover
    BY <1>1 DEF Discover, Return
  <1>2. CASE Spawn \/ Tick \/ SolverEnds \/ SolverFails
    BY <1>2 DEF Spawn, Tick, SolverEnds, SolverFails
  <1>3. ASSUME NEW timedOut, RunReturns(timedOut), looking # "spawn"
        PROVE  /\ phase' \in {"validation", "measurement", "over"} /\ looking' = "spawn"
               /\ returned' = "interrupted" => FALSE
    BY <1>3 DEF RunReturns, Return
  <1>4. CASE Poll
    <2>1. CASE child.alive = {}
      BY <1>3, <1>4, <2>1 DEF Poll
    <2>2. CASE child.alive # {}
      BY <1>4, <2>2 DEF Poll
    <2>3. QED
      BY <2>1, <2>2
  <1>5. CASE ReadClock
    <2>1. CASE child.elapsed >= Deadline
      BY <1>3, <1>5, <2>1 DEF ReadClock, KillGroup
    <2>2. CASE ~(child.elapsed >= Deadline)
      BY <1>5, <2>2 DEF ReadClock
    <2>3. QED
      BY <2>1, <2>2
  <1>6. CASE EndValidation \/ Summarize
    BY <1>6 DEF EndValidation, Summarize, Return
  <1>7. CASE Interrupt
    BY <1>7 DEF Interrupt
  <1>8. QED
    BY <1>1, <1>2, <1>4, <1>5, <1>6, <1>7 DEF HarnessNext

\* What the reports rest on: measuring starts when the solvers agree on every file, and
\* goes on as long as no row contradicts them.
AgreementInv ==
    /\ Listed(validated) /\ Listed(measurements)
    /\ phase \in {"main", "validation"} => measurements = <<>>
    /\ returned = "0" => phase = "over"
    /\ phase = "measurement" \/ returned = "0" =>
         /\ \A file \in DOMAIN cnfs : Unanimous(file)
         /\ \A k \in DOMAIN measurements : ~Mistaken(measurements[k])

LEMMA AgreementInit == HarnessInit => AgreementInv
  BY EmptyList DEF HarnessInit, AgreementInv

LEMMA AgreementNext == AloneInv /\ AgreementInv /\ HarnessNext => AgreementInv'
  <1> SUFFICES ASSUME AloneInv, AgreementInv, HarnessNext
               PROVE  AgreementInv'
    OBVIOUS
  <1>1. ASSUME UNCHANGED <<cnfs, validated>>
        PROVE  /\ \A file : Unanimous(file)' <=> Unanimous(file)
               /\ \A row : Mistaken(row)' <=> Mistaken(row)
    BY <1>1 DEF Unanimous, Mistaken, Verdict
  <1>2. CASE UNCHANGED <<cnfs, validated, measurements, phase, returned>>
    BY <1>1, <1>2 DEF AgreementInv
  <1>3. CASE Discover
    BY <1>1, <1>3, EmptyList DEF Discover, Return, AgreementInv
  <1>4. ASSUME NEW timedOut, RunReturns(timedOut), looking # "spawn", UNCHANGED cnfs
        PROVE  AgreementInv'
    <2> DEFINE row == [file |-> Job.file, solver |-> Job.solver,
                       status |-> ParseStatus(child.lines, child.exit, timedOut)]
    <2>1. CASE phase = "validation"
      <3>1. /\ validated' = Append(validated, row)
            /\ UNCHANGED <<phase, measurements, artifacts, returned>>
        BY <1>4, <2>1 DEF RunReturns
      <3>2. Listed(validated') /\ Listed(measurements')
        BY <3>1, ListAppend DEF AgreementInv
      <3>3. returned' # "0" /\ phase' = "validation"
        BY <2>1, <3>1 DEF AgreementInv
      <3>4. QED
        BY <2>1, <3>1, <3>2, <3>3 DEF AgreementInv
    <2>2. CASE phase # "validation"
      <3>1. phase = "measurement" /\ returned # "0"
        BY <1>4, <2>2 DEF AloneInv, AgreementInv
      <3>2. /\ measurements' = Append(measurements, row)
            /\ UNCHANGED validated
            /\ IF Mistaken(row) THEN phase' = "over" /\ returned' = "2"
                                ELSE UNCHANGED <<phase, returned>>
        BY <1>4, <2>2 DEF RunReturns, Return
      <3> HIDE DEF row
      <3>3. /\ Listed(measurements')
            /\ DOMAIN measurements' = 1 .. Len(measurements) + 1
            /\ DOMAIN measurements = 1 .. Len(measurements) /\ Len(measurements) \in Nat
            /\ \A k \in DOMAIN measurements : measurements'[k] = measurements[k]
            /\ measurements'[Len(measurements) + 1] = row
        BY <3>2, ListAppend, ListIs DEF AgreementInv
      <3>4. CASE Mistaken(row)
        BY <3>2, <3>3, <3>4 DEF AgreementInv
      <3>5. CASE ~Mistaken(row)
        <4>1. \A k \in DOMAIN measurements' : ~Mistaken(measurements'[k])
          BY <3>1, <3>3, <3>5 DEF AgreementInv
        <4>2. QED
          BY <1>1, <1>4, <3>1, <3>2, <3>3, <3>5, <4>1 DEF AgreementInv
      <3>6. QED
        BY <3>4, <3>5
    <2>3. QED
      BY <2>1, <2>2
  <1>5. CASE Poll
    <2>1. CASE child.alive = {}
      BY <1>4, <1>5, <2>1 DEF Poll
    <2>2. CASE child.alive # {}
      BY <1>2, <1>5, <2>2 DEF Poll
    <2>3. QED
      BY <2>1, <2>2
  <1>6. CASE ReadClock
    <2>1. CASE child.elapsed >= Deadline
      BY <1>4, <1>6, <2>1 DEF ReadClock
    <2>2. CASE ~(child.elapsed >= Deadline)
      BY <1>2, <1>6, <2>2 DEF ReadClock
    <2>3. QED
      BY <2>1, <2>2
  <1>7. CASE EndValidation
    <2>1. /\ UNCHANGED <<cnfs, validated, measurements>> /\ measurements = <<>>
          /\ returned # "0" /\ phase' # "validation"
      BY <1>7 DEF EndValidation, AgreementInv, Return
    <2>2. CASE \A file \in DOMAIN cnfs : Unanimous(file)
      BY <1>1, <1>7, <2>1, <2>2, EmptyList DEF EndValidation, AgreementInv
    <2>3. CASE ~\A file \in DOMAIN cnfs : Unanimous(file)
      BY <1>7, <2>1, <2>3 DEF EndValidation, AgreementInv, Return
    <2>4. QED
      BY <2>2, <2>3
  <1>8. CASE Summarize
    BY <1>1, <1>8 DEF Summarize, Return, AgreementInv
  <1>9. CASE Interrupt
    BY <1>9 DEF Interrupt, AgreementInv
  <1>10. CASE Spawn \/ Tick \/ SolverEnds \/ SolverFails
    BY <1>2, <1>10 DEF Spawn, Tick, SolverEnds, SolverFails
  <1>11. QED
    BY <1>3, <1>5, <1>6, <1>7, <1>8, <1>9, <1>10 DEF HarnessNext

---------------------------------------------------------------------------
(* What the campaign does with lists: the order of the indices, and the    *)
(* sample that is drawn from the strata.                                   *)

\* The list takes some of what f has, nothing twice.
Takes(list, f) ==
    /\ Listed(list)
    /\ \E h \in [DOMAIN list -> DOMAIN f] :
         /\ \A k \in DOMAIN list : list[k] = f[h[k]]
         /\ \A j, k \in DOMAIN list : h[j] = h[k] => j = k

LEMMA TakesSelf == ASSUME NEW s, Listed(s) PROVE Takes(s, s)
  <1> DEFINE h == [k \in DOMAIN s |-> k]
  <1>1. /\ h \in [DOMAIN s -> DOMAIN s]
        /\ \A k \in DOMAIN s : s[k] = s[h[k]]
        /\ \A j, k \in DOMAIN s : h[j] = h[k] => j = k
    OBVIOUS
  <1>2. QED
    BY <1>1 DEF Takes

LEMMA TakesAgain ==
    ASSUME NEW s, NEW t, NEW f, Takes(s, t), Takes(t, f)
    PROVE  Takes(s, f)
  <1>1. PICK h \in [DOMAIN s -> DOMAIN t] :
               /\ \A k \in DOMAIN s : s[k] = t[h[k]]
               /\ \A j, k \in DOMAIN s : h[j] = h[k] => j = k
    BY DEF Takes
  <1>2. PICK g \in [DOMAIN t -> DOMAIN f] :
               /\ \A k \in DOMAIN t : t[k] = f[g[k]]
               /\ \A j, k \in DOMAIN t : g[j] = g[k] => j = k
    BY DEF Takes
  <1> DEFINE c == [k \in DOMAIN s |-> g[h[k]]]
  <1>3. /\ c \in [DOMAIN s -> DOMAIN f]
        /\ \A k \in DOMAIN s : s[k] = f[c[k]]
        /\ \A j, k \in DOMAIN s : c[j] = c[k] => j = k
    BY <1>1, <1>2
  <1> HIDE DEF c
  <1>4. QED
    BY <1>3 DEF Takes

LEMMA UpTo ==
    ASSUME NEW n \in Nat
    PROVE  IsFiniteSet(1 .. n) /\ Cardinality(1 .. n) = n /\ 1 .. n \subseteq Int
  BY FS_Interval

(* InOrder takes everything. *)
LEMMA InOrderTakes ==
    ASSUME NEW f, IsFiniteSet(DOMAIN f), DOMAIN f \subseteq Int
    PROVE  Takes(InOrder(f), f) /\ Len(InOrder(f)) = Cardinality(DOMAIN f)
  <1> DEFINE S == DOMAIN f
             n == Cardinality(S)
             below == [x \in S |-> {y \in S : y < x}]
             upto(x) == {y \in S : y <= x}
             h == [k \in 1 .. n |-> CHOOSE x \in S : Cardinality(upto(x)) = k]
  <1>1. n \in Nat
    BY FS_CardinalityType
  <1>2. Ranks(S, below)
    <2>1. below \in [S -> SUBSET S]
      OBVIOUS
    <2>2. \A x, y \in S : x \in Int /\ (x \in below[y] <=> x < y)
      OBVIOUS
    <2> HIDE DEF below, S
    <2>3. /\ \A x \in S : x \notin below[x]
          /\ \A x, y \in S : x = y \/ x \in below[y] \/ y \in below[x]
      BY <2>2
    <2>4. ASSUME NEW x \in S, NEW y \in S, x \in below[y], NEW z \in below[x]
          PROVE  z \in below[y]
      <3>1. z \in S
        BY <2>1
      <3>2. z < x /\ x < y
        BY <2>2, <2>4, <3>1
      <3>3. QED
        BY <2>2, <3>1, <3>2
    <2>5. QED
      BY <2>1, <2>3, <2>4 DEF Ranks
  <1>3. ASSUME NEW x \in S
        PROVE  Cardinality(upto(x)) = Cardinality(below[x]) + 1
    <2>1. upto(x) = below[x] \cup {x} /\ x \notin below[x] /\ below[x] \in SUBSET S
      OBVIOUS
    <2> HIDE DEF upto, below
    <2>2. IsFiniteSet(below[x])
      BY <2>1, FS_Subset
    <2>3. QED
      BY <2>1, <2>2, FS_AddElement
  <1> HIDE DEF below
  <1>4. ASSUME NEW k \in 1 .. n
        PROVE  h[k] \in S /\ Cardinality(upto(h[k])) = k
    <2>1. PICK x \in S : Cardinality(below[x]) = k - 1
      BY <1>2, RankIsTaken
    <2>2. k \in Int /\ Cardinality(upto(x)) = (k - 1) + 1
      BY <1>1, <1>3, <2>1
    <2>3. Cardinality(upto(x)) = k
      BY <2>2
    <2> HIDE DEF upto, S, n
    <2>4. QED
      BY <2>3
  <1>5. InOrder(f) = [k \in 1 .. n |-> f[h[k]]]
    BY DEF InOrder
  <1> HIDE DEF h, n, S, upto
  <1>6. h \in [1 .. n -> S] /\ \A j, k \in 1 .. n : h[j] = h[k] => j = k
    <2>1. \A j, k \in 1 .. n : h[j] = h[k] => j = k
      BY <1>4
    <2>2. h \in [1 .. n -> S]
      BY <1>4 DEF h
    <2>3. QED
      BY <2>1, <2>2
  <1>7. Listed(InOrder(f)) /\ Len(InOrder(f)) = n /\ DOMAIN InOrder(f) = 1 .. n
    BY <1>1, <1>5, ListMade
  <1>8. \A k \in 1 .. n : InOrder(f)[k] = f[h[k]]
    BY <1>5
  <1>9. S = DOMAIN f /\ n = Cardinality(DOMAIN f)
    BY DEF S, n
  <1>10. Takes(InOrder(f), f)
    <2>1. /\ h \in [DOMAIN InOrder(f) -> DOMAIN f]
          /\ \A k \in DOMAIN InOrder(f) : InOrder(f)[k] = f[h[k]]
          /\ \A j, k \in DOMAIN InOrder(f) : h[j] = h[k] => j = k
      BY <1>6, <1>7, <1>8, <1>9
    <2>2. QED
      BY <1>7, <2>1 DEF Takes
  <1>11. QED
    BY <1>7, <1>9, <1>10

LEMMA InOrderOfList ==
    ASSUME NEW n \in Nat, NEW f, DOMAIN f = 1 .. n
    PROVE  /\ Listed(InOrder(f)) /\ Len(InOrder(f)) = n
           /\ \A k \in 1 .. n : InOrder(f)[k] = f[k]
  <1>1. Cardinality(1 .. n) = n /\ IsFiniteSet(1 .. n) /\ 1 .. n \subseteq Int
    BY UpTo
  <1>2. ASSUME NEW i \in 1 .. n
        PROVE  Cardinality({j \in 1 .. n : j <= i}) = i
    <2>1. {j \in 1 .. n : j <= i} = 1 .. i /\ i \in Nat
      OBVIOUS
    <2>2. Cardinality(1 .. i) = i
      BY <2>1, FS_Interval
    <2>3. QED
      BY <2>1, <2>2
  <1>3. ASSUME NEW k \in 1 .. n
        PROVE  (CHOOSE i \in 1 .. n : Cardinality({j \in 1 .. n : j <= i}) = k) = k
    BY <1>2
  <1>4. InOrder(f) = [k \in 1 .. n |->
                        f[CHOOSE i \in 1 .. n : Cardinality({j \in 1 .. n : j <= i}) = k]]
    BY <1>1 DEF InOrder
  <1>5. \A k \in 1 .. n : InOrder(f)[k] = f[k]
    BY <1>3, <1>4
  <1>6. QED
    BY <1>1, <1>5, InOrderTakes DEF Takes

LEMMA PartTakes ==
    ASSUME NEW s, Listed(s), NEW T \in SUBSET DOMAIN s
    PROVE  /\ Takes(InOrder(Restrict(s, T)), s)
           /\ \A k \in DOMAIN InOrder(Restrict(s, T)) :
                \E i \in T : InOrder(Restrict(s, T))[k] = s[i]
  <1> DEFINE r == Restrict(s, T)
             o == InOrder(r)
  <1>1. r = [x \in T |-> s[x]] /\ DOMAIN r = T
    BY DEF Restrict
  <1>2. IsFiniteSet(T) /\ T \subseteq Int
    BY ListIs, IntervalFinite, FS_Subset
  <1>3. Takes(o, r)
    BY <1>1, <1>2, InOrderTakes
  <1> HIDE DEF r, o
  <1>4. PICK h \in [DOMAIN o -> T] :
               /\ \A k \in DOMAIN o : o[k] = r[h[k]]
               /\ \A j, k \in DOMAIN o : h[j] = h[k] => j = k
    BY <1>1, <1>3 DEF Takes
  <1>5. h \in [DOMAIN o -> DOMAIN s] /\ \A k \in DOMAIN o : o[k] = s[h[k]]
    BY <1>1, <1>4
  <1>6. Takes(o, s)
    BY <1>3, <1>4, <1>5 DEF Takes
  <1>7. QED
    BY <1>4, <1>5, <1>6 DEF o, r

LEMMA StratumIsKnown == ASSUME NEW f PROVE Classify(f) \in Range(Strata)
  <1> DEFINE rules == <<
               <<f.structural = "UNSAT", "lkk_direct_structural_unsat">>,
               <<f.gate # "RUN_LKK", "no_useful_detected_structure">>,
               <<f.benefit = "SKIP_TO_CDCL", "no_useful_detected_structure">>,
               <<f.registry = "COMPLETE" /\ f.structural = "FEASIBLE",
                 "structural_not_closed_by_flow">>,
               <<f.boxes > 0 /\ f.groups > 0, "resource_allocation_like">>,
               <<f.boxes > 0 /\ f.mirror > 0 /\ f.derived > 0, "hidden_cardinality_recovered">>,
               <<f.boxes > 0 /\ f.overBudget, "matching_hall_like">>,
               <<f.boxes > 0, "cardinality_exact_r_heavy">>,
               <<f.mirror > 0 /\ f.derived > 0, "hidden_cardinality_recovered">>,
               <<TRUE, "unknown_fallback_dominated">> >>
             S == {k \in DOMAIN rules : rules[k][1]}
  <1>1. DOMAIN rules = 1 .. 10 /\ rules[10][1]
    OBVIOUS
  <1>2. \A k \in 1 .. 10 : \E j \in 1 .. 8 : rules[k][2] = Strata[j]
    BY DEF Strata
  <1>3. Classify(f) = rules[Min(S)][2]
    BY DEF Classify
  <1>4. DOMAIN Strata = 1 .. 8
    BY DEF Strata
  <1> HIDE DEF rules
  <1>5. 10 \in S /\ S \in SUBSET (1 .. 10)
    BY <1>1
  <1> HIDE DEF S
  <1>6. Min(S) \in S
    <2>1. 10 \in Nat /\ 1 .. 10 \subseteq Int
      OBVIOUS
    <2>2. IsFiniteSet(S) /\ S # {} /\ S \subseteq Int
      <3>1. IsFiniteSet(S)
        BY <1>5, <2>1, UpTo, FS_Subset
      <3>2. QED
        BY <1>5, <2>1, <3>1
    <2>3. QED
      BY <2>2, MinIsThere
  <1>7. QED
    BY <1>2, <1>3, <1>4, <1>5, <1>6 DEF Range

(* A sample takes some of the rows, none of them twice: the round robin    *)
(* gives every row a place of its own.                                     *)
LEMMA SampleTakes ==
    ASSUME NEW rows, Listed(rows), NEW limit \in Int,
           \A k \in DOMAIN rows : /\ rows[k].item.sha256 \in Int
                                  /\ rows[k].stratum \in Range(Strata)
    PROVE  Takes(StratifiedSample(rows, limit), rows)
  <1> DEFINE D == DOMAIN rows
             sha == [i \in D |-> rows[i].item.sha256]
             stratum == [i \in D |-> rows[i].stratum]
             earlier(i, j) == \/ rows[i].item.sha256 < rows[j].item.sha256
                              \/ rows[i].item.sha256 = rows[j].item.sha256 /\ i < j
             ahead(i) == {j \in D : rows[j].stratum = rows[i].stratum /\ earlier(j, i)}
             round(i) == Cardinality(ahead(i))
             bucket(i) == CHOOSE k \in DOMAIN Strata : Strata[k] = rows[i].stratum
             sooner(i, j) == \/ round(i) < round(j)
                             \/ round(i) = round(j) /\ bucket(i) < bucket(j)
             below == [i \in D |-> {j \in D : sooner(j, i)}]
             place(i) == 1 + Cardinality({j \in D : sooner(j, i)})
             sample == [k \in 1..limit |-> rows[CHOOSE i \in D : place(i) = k]]
  <1>1. SUFFICES ASSUME limit > 0, Len(rows) > limit
                 PROVE  Takes(StratifiedSample(rows, limit), rows)
    <2>1. Len(rows) \in Nat
      BY ListIs
    <2>2. CASE limit > 0 /\ Len(rows) > limit
      BY <1>1, <2>2
    <2>3. CASE limit <= 0 \/ Len(rows) <= limit
      <3>1. StratifiedSample(rows, limit) = rows
        BY <2>3 DEF StratifiedSample
      <3>2. QED
        BY <3>1, TakesSelf
    <2>4. QED
      BY <2>1, <2>2, <2>3
  <1>2. StratifiedSample(rows, limit) = sample
    <2>1. ~(limit <= 0 \/ Len(rows) <= limit)
      BY <1>1, ListIs
    <2>2. QED
      BY <2>1 DEF StratifiedSample
  <1>3. /\ D = 1 .. Len(rows) /\ Len(rows) \in Nat
        /\ IsFiniteSet(D) /\ D \subseteq Int /\ Cardinality(D) = Len(rows)
    <2>1. D = 1 .. Len(rows) /\ Len(rows) \in Nat
      BY ListIs
    <2> HIDE DEF D
    <2>2. IsFiniteSet(D) /\ D \subseteq Int /\ Cardinality(D) = Len(rows)
      BY <2>1, UpTo
    <2>3. QED
      BY <2>1, <2>2
  <1>4. ASSUME NEW i \in D
        PROVE  /\ IsFiniteSet(ahead(i)) /\ round(i) \in Nat
               /\ ahead(i) \in SUBSET D
               /\ bucket(i) \in 1 .. 8 /\ Strata[bucket(i)] = stratum[i]
    <2>1. ahead(i) \in SUBSET D
      OBVIOUS
    <2>2. DOMAIN Strata = 1 .. 8
      BY DEF Strata
    <2>3. \E k \in DOMAIN Strata : Strata[k] = stratum[i]
      BY DEF Range
    <2>4. bucket(i) \in DOMAIN Strata /\ Strata[bucket(i)] = stratum[i]
      BY <2>3
    <2> HIDE DEF ahead, bucket, stratum
    <2>5. IsFiniteSet(ahead(i))
      BY <1>3, <2>1, FS_Subset
    <2>6. round(i) \in Nat
      BY <2>5, FS_CardinalityType
    <2>7. QED
      BY <2>1, <2>2, <2>4, <2>5, <2>6
  <1>5. \A i \in D, j \in D : j \in ahead(i) <=> /\ stratum[j] = stratum[i]
                                              /\ \/ sha[j] < sha[i]
                                                 \/ sha[j] = sha[i] /\ j < i
    OBVIOUS
  <1>6. \A i \in D : sha[i] \in Int /\ i \in Int
    BY <1>3
  <1>7. \A i, j \in D : j \in below[i] <=> sooner(j, i)
    OBVIOUS
  <1>8. below \in [D -> SUBSET D]
    OBVIOUS
  <1>9. \A i \in D : place(i) = 1 + Cardinality(below[i])
    OBVIOUS
  <1> HIDE DEF D, sha, stratum, ahead, bucket, below, earlier
  <1>10. ASSUME NEW i \in D, NEW j \in D, i # j, stratum[i] = stratum[j]
         PROVE  round(i) # round(j)
    <2>1. ASSUME NEW a \in D, NEW b \in D, a \in ahead(b), stratum[a] = stratum[b]
          PROVE  Cardinality(ahead(a)) # Cardinality(ahead(b))
      <3>1. a \notin ahead(a)
        BY <1>5, <1>6
      <3>2. ASSUME NEW c \in ahead(a)
            PROVE  c \in ahead(b)
        <4>1. c \in D
          BY <1>4
        <4>2. stratum[c] = stratum[b]
          BY <1>5, <2>1, <4>1
        <4>3. sha[c] < sha[b] \/ (sha[c] = sha[b] /\ c < b)
          <5>1. sha[c] < sha[a] \/ (sha[c] = sha[a] /\ c < a)
            BY <1>5, <3>2, <4>1, Zenon
          <5>2. sha[a] < sha[b] \/ (sha[a] = sha[b] /\ a < b)
            BY <1>5, <2>1, Zenon
          <5>3. QED
            BY <1>6, <4>1, <5>1, <5>2
        <4>4. QED
          BY <1>5, <4>1, <4>2, <4>3
      <3>3. ahead(a) \in SUBSET ahead(b) /\ ahead(a) # ahead(b)
        BY <2>1, <3>1, <3>2
      <3>4. IsFiniteSet(ahead(b)) /\ IsFiniteSet(ahead(a))
        BY <1>4
      <3>5. QED
        BY <3>3, <3>4, FS_Subset
    <2>2. i \in ahead(j) \/ j \in ahead(i)
      BY <1>5, <1>6, <1>10
    <2>3. QED
      BY <1>10, <2>1, <2>2
  <1>11. ASSUME NEW i \in D, NEW j \in D
         PROVE  i = j \/ sooner(i, j) \/ sooner(j, i)
    <2>1. /\ round(i) \in Nat /\ round(j) \in Nat /\ bucket(i) \in 1 .. 8 /\ bucket(j) \in 1 .. 8
          /\ Strata[bucket(i)] = stratum[i] /\ Strata[bucket(j)] = stratum[j]
      BY <1>4
    <2>2. bucket(i) = bucket(j) /\ round(i) = round(j) => i = j
      BY <1>10, <2>1
    <2> HIDE DEF round
    <2>3. QED
      BY <2>1, <2>2
  <1>12. Ranks(D, below)
    <2>1. \A i \in D : i \notin below[i]
      <3> SUFFICES ASSUME NEW i \in D, sooner(i, i)
                   PROVE  FALSE
        BY <1>7
      <3>1. round(i) \in Nat /\ bucket(i) \in 1 .. 8
        BY <1>4
      <3> HIDE DEF round
      <3>2. QED
        BY <3>1
    <2>2. ASSUME NEW i \in D, NEW j \in D, i \in below[j], NEW c \in below[i]
          PROVE  c \in below[j]
      <3>1. c \in D
        BY <1>8
      <3>2. sooner(i, j) /\ sooner(c, i)
        BY <1>7, <2>2, <3>1
      <3>3. /\ round(i) \in Nat /\ round(j) \in Nat /\ round(c) \in Nat
            /\ bucket(i) \in 1 .. 8 /\ bucket(j) \in 1 .. 8 /\ bucket(c) \in 1 .. 8
        BY <1>4, <3>1
      <3>4. sooner(c, j)
        <4> HIDE DEF round
        <4>1. QED
          BY <3>2, <3>3
      <3>5. QED
        BY <1>7, <3>1, <3>4
    <2>3. \A i, j \in D : i = j \/ i \in below[j] \/ j \in below[i]
      BY <1>7, <1>11
    <2>4. QED
      BY <1>8, <2>1, <2>2, <2>3, Zenon DEF Ranks
  <1> HIDE DEF sooner
  <1>13. ASSUME NEW k \in 1 .. limit
         PROVE  \E i \in D : place(i) = k
    <2>1. k \in 1 .. Cardinality(D) /\ k \in Int
      BY <1>1, <1>3
    <2>2. PICK i \in D : Cardinality(below[i]) = k - 1
      BY <1>3, <1>12, <2>1, RankIsTaken
    <2>3. place(i) = 1 + (k - 1) /\ 1 + (k - 1) = k
      BY <1>9, <2>1, <2>2
    <2> HIDE DEF place
    <2>4. QED
      BY <2>3
  <1> DEFINE h == [k \in 1 .. limit |-> CHOOSE i \in D : place(i) = k]
  <1> HIDE DEF place
  <1>14. \A k \in 1 .. limit : h[k] \in D /\ place(h[k]) = k
    BY <1>13
  <1>15. sample = [k \in 1 .. limit |-> rows[h[k]]]
    OBVIOUS
  <1> HIDE DEF h, sample
  <1>16. Listed(sample) /\ DOMAIN sample = 1 .. limit
    <2>1. limit \in Nat
      BY <1>1
    <2>2. QED
      BY <1>15, <2>1, ListMade
  <1>17. \A j, k \in 1 .. limit : h[j] = h[k] => j = k
    BY <1>14
  <1>18. h \in [DOMAIN sample -> DOMAIN rows]
    BY <1>14, <1>16 DEF h, D
  <1>19. \A k \in DOMAIN sample : sample[k] = rows[h[k]]
    BY <1>15, <1>16
  <1>20. Takes(sample, rows)
    BY <1>16, <1>17, <1>18, <1>19 DEF Takes
  <1>21. QED
    BY <1>2, <1>20

---------------------------------------------------------------------------
(* The campaign. *)

Later == {"calibration", "selector_fit", "evaluation", "ablation"}
MainStages == {"telemetry"} \cup Later

ShellInv ==
    /\ stage \in MainStages \cup {"shell", "pool", "draining"}
    /\ manifest \in Manifests /\ profile \in Profiles
    /\ out \in Dirs /\ files = [d \in Dirs |-> files[d]]
    /\ turn \in Nat /\ faults \in Nat
    /\ corpus = <<>> \/ corpus = LoadCorpus
    /\ stage # "shell" => code = "none"

\* A campaign has files before anyone else; where one runs all are of the current invocation.
FilesInv ==
    /\ invocation \in Nat /\ passes \subseteq 0 .. invocation
    /\ \A d \in Dirs : \A x \in DOMAIN files[d] : files[d][x] \in 0 .. invocation
    /\ NothingOlder
    /\ stage \in MainStages =>
         invocation \notin passes /\ \A x \in DOMAIN files[out] : files[out][x] = invocation
    /\ stage \in {"pool", "draining"} => invocation \in passes

\* The row of an item, whatever its run has shown.
IsRowOf(row, item) ==
    row.item = item /\ row.split = SplitOf(item) /\ row.stratum \in Range(Strata)

TelemetryInv ==
    /\ Listed(telemetry)
    /\ Len(telemetry) <= Len(corpus)
    /\ \A k \in DOMAIN telemetry : IsRowOf(telemetry[k], corpus[k])
    /\ stage = "telemetry" => Len(telemetry) = turn
    /\ stage \in Later \/ code = "0" => Len(telemetry) = Len(corpus)
    /\ stage \in {"pool", "draining"} => telemetry = <<>>

\* What was submitted is at work or collected, at its place.
CollectInv ==
    stage = "pool" =>
        /\ turn <= Len(corpus)
        /\ working \cap DOMAIN collected = {} /\ working \cup DOMAIN collected = 1 .. turn
        /\ \A k \in DOMAIN collected : IsRowOf(collected[k], corpus[k])

\* The hashes were compared before anything ran, and a sample stays in its split.
SampleInv ==
    /\ stage \in MainStages => \A k \in DOMAIN corpus : corpus[k].actual = corpus[k].sha256
    /\ stage \in Later =>
         /\ Takes(pool, telemetry)
         /\ \A k \in DOMAIN pool :
              pool[k].split = IF stage \in {"calibration", "selector_fit"}
                              THEN "calibration" ELSE "evaluation"

\* What was measured, of which files, and at which timeout.
IsMeasured(row, rows, contents, failed) ==
    /\ \E j \in DOMAIN rows : rows[j].split = "calibration" /\ row.item = rows[j].item
    /\ row.solver \in {"cadical", "kissat"}
    /\ failed = 0 => row.run = DirectRun(contents[row.item.actual], row.solver, Ceiling)

MeasuredInv ==
    /\ Listed(measured)
    /\ stage = "telemetry" => measured = <<>>
    /\ stage \in Later =>
         \A k \in DOMAIN measured : IsMeasured(measured[k], telemetry, profile, faults)
    /\ stage = "selector_fit" => timeout = ChooseTimeout

\* With one seed no mode of an instance has two answers.
ResultsInv ==
    /\ Listed(results)
    /\ stage \in {"telemetry", "calibration", "selector_fit", "pool", "draining"} => results = <<>>
    /\ \A k \in DOMAIN results : \E i \in DOMAIN corpus : results[k].item = corpus[i]
    /\ \A j, k \in DOMAIN results :
         results[j].item = results[k].item /\ results[j].mode = results[k].mode => j = k
    /\ stage = "evaluation" =>
         /\ Len(results) = turn
         /\ \A k \in DOMAIN results :
              /\ results[k].item = Scheduled(k - 1, Modes).row.item
              /\ results[k].mode = Scheduled(k - 1, Modes).mode.name
    /\ stage = "ablation" \/ code = "0" =>
         \A k \in DOMAIN results : Passed(results[k].item.instance)

LEMMA LoadCorpusTakes ==
    ASSUME manifest \in Manifests
    PROVE  /\ Takes(LoadCorpus, manifest)
           /\ \A k \in DOMAIN LoadCorpus :
                \E i \in DOMAIN manifest : LoadCorpus[k] = manifest[i] /\ manifest[i].present
  <1> DEFINE T == {k \in DOMAIN manifest : manifest[k].status = "OK" /\ manifest[k].present}
  <1>1. Listed(manifest)
    BY CampaignAssumption DEF Listed
  <1>2. LoadCorpus = InOrder(Restrict(manifest, T))
    BY DEF LoadCorpus
  <1>3. T \in SUBSET DOMAIN manifest /\ \A i \in T : manifest[i].present
    OBVIOUS
  <1> HIDE DEF T
  <1>4. QED
    BY <1>1, <1>2, <1>3, PartTakes

LEMMA CorpusIs ==
    ASSUME ShellInv
    PROVE  /\ Listed(corpus) /\ Takes(corpus, manifest)
           /\ \A k \in DOMAIN corpus : corpus[k].sha256 \in Int /\ IsFile(FileOf(corpus[k]))
  <1>1. CASE corpus = <<>>
    <2>1. DOMAIN corpus = {} /\ Listed(corpus)
      BY <1>1, EmptyList
    <2> DEFINE h == [k \in {} |-> 0]
    <2>2. h \in [DOMAIN corpus -> DOMAIN manifest]
      BY <2>1
    <2>3. Takes(corpus, manifest)
      BY <2>1, <2>2 DEF Takes
    <2>4. QED
      BY <2>1, <2>3
  <1>2. CASE corpus = LoadCorpus
    <2>1. /\ Takes(corpus, manifest)
          /\ \A k \in DOMAIN corpus :
               \E i \in DOMAIN manifest : corpus[k] = manifest[i] /\ manifest[i].present
      BY <1>2, LoadCorpusTakes DEF ShellInv
    <2>2. \A i \in DOMAIN manifest :
            /\ manifest[i].sha256 \in Int
            /\ manifest[i].present => IsFile(profile[manifest[i].actual])
      BY CampaignAssumption DEF ShellInv
    <2>3. QED
      BY <2>1, <2>2 DEF Takes, FileOf
  <1>3. QED
    BY <1>1, <1>2 DEF ShellInv

LEMMA ShellInit == CampaignInit => ShellInv
  BY DEF CampaignInit, ShellInv, MainStages

\* Steps of the runs, which change neither the stage nor what it works on.
Running == Telemeter \/ Calibrate \/ MeasureFallback \/ Evaluate \/ Ablate

LEMMA RunningIs ==
    ASSUME Running
    PROVE  /\ UNCHANGED <<manifest, profile, stage, out, invocation, passes, code, corpus, pool,
                          before, tree, working, collected>>
           /\ turn' = turn + 1 /\ (faults' = faults \/ faults' = faults + 1)
           /\ \E name : Writing(name)
  <1> USE DEF inputs, session, poolVars
  <1>1. CASE Telemeter
    BY <1>1 DEF Telemeter, RunOf
  <1>2. CASE Calibrate
    BY <1>2 DEF Calibrate, RunOf
  <1>3. CASE MeasureFallback
    BY <1>3 DEF MeasureFallback, RunOf
  <1>4. CASE Evaluate
    BY <1>4 DEF Evaluate, RunOf
  <1>5. CASE Ablate
    BY <1>5 DEF Ablate, RunOf
  <1>6. QED
    BY <1>1, <1>2, <1>3, <1>4, <1>5 DEF Running

LEMMA WritingStays ==
    ASSUME files = [d \in Dirs |-> files[d]], NEW names, WritingAll(names)
    PROVE  files' = [d \in Dirs |-> files'[d]]
  <1> DEFINE new == [x \in DOMAIN files[out] \cup names |->
                       IF x \in names THEN invocation ELSE files[out][x]]
  <1>1. files' = [files EXCEPT ![out] = new]
    BY DEF WritingAll
  <1> HIDE DEF new
  <1>2. QED
    BY <1>1

LEMMA ShellNext == ShellInv /\ CampaignNext => ShellInv'
  <1> SUFFICES ASSUME ShellInv, CampaignNext
               PROVE  ShellInv'
    OBVIOUS
  <1> USE DEF ShellInv, inputs, session, shell, memory, poolVars, MainStages, Later, End, Writing
  <1>0. \A names : WritingAll(names) => files' = [d \in Dirs |-> files'[d]]
    BY WritingStays
  <1>1. UNCHANGED manifest => LoadCorpus' = LoadCorpus
    BY DEF LoadCorpus
  <1>2. ASSUME NEW dir \in Dirs, StartCampaign(dir)
        PROVE  ShellInv'
    BY <1>1, <1>2 DEF StartCampaign, Forget
  <1>3. CASE \E dir \in Dirs : StartPool(dir)
    BY <1>1, <1>3 DEF StartPool, Forget
  <1>4. CASE Running
    <2>1. /\ UNCHANGED <<manifest, profile, stage, out, code, corpus>>
          /\ turn' = turn + 1 /\ (faults' = faults \/ faults' = faults + 1)
      BY <1>4, RunningIs
    <2>2. files' = [d \in Dirs |-> files'[d]]
      BY <1>0, <1>4, RunningIs
    <2>3. QED
      BY <1>1, <2>1, <2>2
  <1>5. CASE EndTelemetry
    BY <1>0, <1>1, <1>5 DEF EndTelemetry
  <1>6. CASE EndCalibration
    BY <1>0, <1>1, <1>6 DEF EndCalibration
  <1>7. CASE EndSelectorFit
    BY <1>0, <1>1, <1>7 DEF EndSelectorFit
  <1>8. CASE CheckCorrectness
    BY <1>0, <1>1, <1>8 DEF CheckCorrectness
  <1>9. CASE Conclude
    BY <1>0, <1>1, <1>9 DEF Conclude
  <1>10. CASE Take
    BY <1>1, <1>10 DEF Take
  <1>11. CASE EndPool
    BY <1>0, <1>1, <1>11 DEF EndPool
  <1>12. ASSUME NEW index \in working, Collect(index) \/ TaskRaises(index) \/ Drain(index)
         PROVE  ShellInv'
    BY <1>1, <1>12 DEF Collect, TaskRaises, Drain, RunOf
  <1>13. CASE Kill \/ Disturb
    BY <1>1, <1>13 DEF Kill, Disturb, Forget
  <1>14. CASE CampaignDone
    BY <1>1, <1>14 DEF CampaignDone, campaignVars
  <1>15. QED
    BY <1>2, <1>3, <1>4, <1>5, <1>6, <1>7, <1>8, <1>9, <1>10, <1>11, <1>12, <1>13, <1>14
       DEF CampaignNext, Main, ThreadPool, Running

(* Writing adds to the files of the current invocation, which is none of the older. *)
LEMMA WritingIs ==
    ASSUME ShellInv, NEW names, WritingAll(names)
    PROVE  /\ \A d \in Dirs \ {out} : files'[d] = files[d]
           /\ DOMAIN files'[out] = DOMAIN files[out] \cup names
           /\ \A x \in DOMAIN files'[out] :
                files'[out][x] = IF x \in names THEN invocation ELSE files[out][x]
  <1>1. out \in Dirs /\ files = [d \in Dirs |-> files[d]]
    BY DEF ShellInv
  <1> DEFINE new == [x \in DOMAIN files[out] \cup names |->
                       IF x \in names THEN invocation ELSE files[out][x]]
  <1>2. files' = [files EXCEPT ![out] = new]
    BY DEF WritingAll
  <1>3. \A d \in Dirs \ {out} : files'[d] = files[d]
    BY <1>1, <1>2
  <1>4. files'[out] = new
    BY <1>1, <1>2
  <1>5. QED
    BY <1>3, <1>4

LEMMA WritingKeeps ==
    ASSUME ShellInv, FilesInv, stage \in MainStages, NEW name, Writing(name),
           UNCHANGED <<out, invocation, passes>>, stage' \in MainStages \cup {"shell"}
    PROVE  FilesInv'
  <1>1. /\ \A d \in Dirs \ {out} : files'[d] = files[d]
        /\ \A x \in DOMAIN files'[out] : files'[out][x] = invocation
    BY WritingIs DEF Writing, FilesInv
  <1>2. \A d \in Dirs : \A x \in DOMAIN files'[d] : files'[d][x] \in 0 .. invocation
    BY <1>1 DEF FilesInv
  <1>3. NothingOlder'
    BY <1>1, <1>2 DEF NothingOlder, FilesInv
  <1>4. QED
    BY <1>1, <1>2, <1>3 DEF FilesInv, MainStages, Later

LEMMA FilesInit == CampaignInit => FilesInv
  BY EmptyList DEF CampaignInit, FilesInv, NothingOlder, MainStages, Later

(* The telemetry pass goes into any directory, with the largest of all numbers. *)
LEMMA PassKeeps ==
    ASSUME FilesInv, NEW dir \in Dirs, invocation' \in Nat, invocation' >= invocation,
           \A d \in Dirs \ {dir} : files'[d] = files[d],
           \A x \in DOMAIN files'[dir] :
              files'[dir][x] = invocation' \/ (x \in DOMAIN files[dir] /\ files'[dir][x] = files[dir][x]),
           invocation' \in passes', passes \subseteq passes', passes' \subseteq passes \cup {invocation'},
           stage' \in {"pool", "draining", "shell"}
    PROVE  FilesInv'
  <1>1. passes' \subseteq 0 .. invocation'
    BY DEF FilesInv
  <1>2. \A d \in Dirs : \A x \in DOMAIN files'[d] : files'[d][x] \in 0 .. invocation'
    BY <1>1 DEF FilesInv
  <1>3. ASSUME NEW d \in Dirs, NEW x \in DOMAIN files'[d], NEW y \in DOMAIN files'[d],
               files'[d][x] \notin passes'
        PROVE  files'[d][x] <= files'[d][y]
    <2>1. x \in DOMAIN files[d] /\ files'[d][x] = files[d][x] /\ files[d][x] \notin passes
      BY <1>3
    <2>2. CASE files'[d][y] = invocation'
      BY <1>2, <2>2
    <2>3. CASE y \in DOMAIN files[d] /\ files'[d][y] = files[d][y]
      BY <2>1, <2>3 DEF FilesInv, NothingOlder
    <2>4. QED
      BY <2>2, <2>3
  <1>4. NothingOlder'
    BY <1>3 DEF NothingOlder
  <1>5. QED
    BY <1>1, <1>2, <1>4 DEF FilesInv, MainStages, Later

LEMMA FilesNext == ShellInv /\ FilesInv /\ CampaignNext => FilesInv'
  <1> SUFFICES ASSUME ShellInv, FilesInv, CampaignNext
               PROVE  FilesInv'
    OBVIOUS
  <1> USE DEF inputs, session, shell, memory, poolVars, End
  <1>1. CASE /\ UNCHANGED <<files, out, invocation, passes>>
             /\ \/ stage' = stage \/ stage' = "shell"
                \/ stage' = "draining" /\ stage \in {"pool", "draining"}
    BY <1>1 DEF FilesInv, NothingOlder, MainStages, Later
  <1>2. ASSUME stage \in MainStages, NEW name, Writing(name), UNCHANGED <<out, invocation, passes>>,
               stage' \in MainStages \cup {"shell"}
        PROVE  FilesInv'
    BY <1>2, WritingKeeps
  <1>3. ASSUME NEW dir \in Dirs, StartCampaign(dir)
        PROVE  FilesInv'
    <2>1. invocation' = invocation + 1 /\ UNCHANGED passes /\ invocation \in Nat
      BY <1>3 DEF StartCampaign, FilesInv
    <2>2. CASE UNCHANGED files /\ stage' = "shell"
      BY <2>1, <2>2 DEF FilesInv, NothingOlder, MainStages, Later
    <2>3. CASE /\ ~Occupied(dir) /\ out' = dir
               /\ files' = [files EXCEPT ![dir] = Put(@, "metadata.json", invocation')]
               /\ stage' = "telemetry"
      <3>1. files[dir] = <<>> /\ files = [d \in Dirs |-> files[d]]
        BY <2>3 DEF Occupied, ShellInv
      <3>2. /\ files'[dir] = Put(<<>>, "metadata.json", invocation')
            /\ \A d \in Dirs \ {dir} : files'[d] = files[d]
        BY <2>3, <3>1
      <3>3. \A x \in DOMAIN files'[dir] : files'[dir][x] = invocation'
        BY <3>2, EmptyList DEF Put
      <3>4. \A d \in Dirs : \A x \in DOMAIN files'[d] : files'[d][x] \in 0 .. invocation'
        BY <2>1, <3>2, <3>3 DEF FilesInv
      <3>5. NothingOlder'
        BY <2>1, <3>2, <3>3, <3>4 DEF FilesInv, NothingOlder
      <3>6. passes' \subseteq 0 .. invocation' /\ invocation' \notin passes'
        BY <2>1 DEF FilesInv
      <3>7. QED
        BY <2>1, <2>3, <3>3, <3>4, <3>5, <3>6 DEF FilesInv
    <2>4. QED
      BY <1>3, <2>2, <2>3 DEF StartCampaign
  <1>4. ASSUME NEW dir \in Dirs, StartPool(dir)
        PROVE  FilesInv'
    <2>1. /\ invocation' = invocation + 1 /\ passes' = passes \cup {invocation'}
          /\ stage' = "pool" /\ invocation \in Nat
          /\ files' = [files EXCEPT ![dir] = Put(@, "logs", invocation')]
      BY <1>4 DEF StartPool, FilesInv
    <2>2. /\ files'[dir] = Put(files[dir], "logs", invocation')
          /\ \A d \in Dirs \ {dir} : files'[d] = files[d]
      BY <2>1 DEF ShellInv
    <2>3. \A x \in DOMAIN files'[dir] :
            files'[dir][x] = invocation' \/ (x \in DOMAIN files[dir] /\ files'[dir][x] = files[dir][x])
      BY <2>2 DEF Put
    <2>4. QED
      BY <2>1, <2>2, <2>3, PassKeeps
  <1>5. CASE Running
    <2>1. stage \in MainStages /\ stage' = stage
      BY <1>5 DEF Running, Telemeter, Calibrate, MeasureFallback, Evaluate, Ablate, MainStages, Later
    <2>2. QED
      BY <1>2, <1>5, <2>1, RunningIs
  <1>6. CASE EndTelemetry
    BY <1>1, <1>2, <1>6 DEF EndTelemetry, MainStages, Later
  <1>7. CASE EndCalibration
    BY <1>1, <1>2, <1>7 DEF EndCalibration, MainStages, Later
  <1>8. CASE EndSelectorFit
    BY <1>2, <1>8 DEF EndSelectorFit, MainStages, Later
  <1>9. CASE CheckCorrectness
    BY <1>1, <1>2, <1>9 DEF CheckCorrectness, MainStages, Later
  <1>10. CASE Conclude
    BY <1>2, <1>10 DEF Conclude, MainStages, Later
  <1>11. CASE Take
    BY <1>1, <1>11 DEF Take
  <1>12. CASE EndPool
    <2>1. CASE UNCHANGED files
      BY <1>1, <1>12, <2>1 DEF EndPool
    <2>2. CASE WritingAll(PassFiles)
      <3>1. /\ invocation' = invocation /\ passes' = passes /\ stage' = "shell"
            /\ stage \in {"pool", "draining"} /\ out \in Dirs
        BY <1>12 DEF EndPool, ShellInv
      <3>2. invocation \in passes /\ invocation \in Nat
        BY <3>1 DEF FilesInv
      <3>3. /\ \A d \in Dirs \ {out} : files'[d] = files[d]
            /\ \A x \in DOMAIN files'[out] :
                 \/ files'[out][x] = invocation
                 \/ x \in DOMAIN files[out] /\ files'[out][x] = files[out][x]
        BY <2>2, WritingIs
      <3>4. QED
        BY <3>1, <3>2, <3>3, PassKeeps
    <2>3. QED
      BY <1>12, <2>1, <2>2 DEF EndPool
  <1>13. ASSUME NEW index \in working, Collect(index) \/ TaskRaises(index) \/ Drain(index)
         PROVE  FilesInv'
    BY <1>1, <1>13 DEF Collect, TaskRaises, Drain, RunOf
  <1>14. CASE Kill \/ Disturb
    BY <1>1, <1>14 DEF Kill, Disturb, Forget
  <1>15. CASE CampaignDone
    BY <1>1, <1>15 DEF CampaignDone, campaignVars
  <1>16. QED
    BY <1>3, <1>4, <1>5, <1>6, <1>7, <1>8, <1>9, <1>10, <1>11, <1>12, <1>13, <1>14, <1>15
       DEF CampaignNext, Main, ThreadPool, Running

LEMMA TelemetryRowIs ==
    ASSUME NEW item, NEW run
    PROVE  IsRowOf(TelemetryRow(item, run), item)
  BY StratumIsKnown DEF IsRowOf, TelemetryRow

LEMMA TelemetryInit == CampaignInit => TelemetryInv /\ CollectInv
  BY EmptyList DEF CampaignInit, TelemetryInv, CollectInv, Later

LEMMA TelemetryNext ==
    ShellInv /\ TelemetryInv /\ CollectInv /\ CampaignNext => TelemetryInv'
  <1> SUFFICES ASSUME ShellInv, TelemetryInv, CollectInv, CampaignNext
               PROVE  TelemetryInv'
    OBVIOUS
  <1> USE DEF inputs, session, shell, memory, poolVars, Later, End
  <1>1. Listed(corpus) /\ Len(corpus) \in Nat /\ DOMAIN corpus = 1 .. Len(corpus)
    BY CorpusIs, ListIs
  <1>2. Len(telemetry) \in Nat /\ DOMAIN telemetry = 1 .. Len(telemetry)
    BY ListIs DEF TelemetryInv
  <1>4. CASE /\ UNCHANGED <<telemetry, corpus>>
             /\ stage' \in {"pool", "draining"} => stage \in {"pool", "draining"}
             /\ stage' = "telemetry" => stage = "telemetry" /\ UNCHANGED turn
             /\ stage' \in Later \/ code' = "0" => stage \in Later \/ code = "0"
    BY <1>4 DEF TelemetryInv, IsRowOf
  <1>5. CASE telemetry' = <<>> /\ Listed(corpus') /\ stage' \in {"shell", "pool", "telemetry"}
             /\ code' # "0" /\ turn' = 0
    <2>1. Len(corpus') \in Nat
      BY <1>5, ListIs
    <2>2. QED
      BY <1>5, <2>1, EmptyList DEF TelemetryInv
  <1>6. ASSUME manifest' = manifest, corpus' = LoadCorpus
        PROVE  Listed(corpus')
    BY <1>6, LoadCorpusTakes DEF ShellInv, Takes
  <1>7. ASSUME NEW dir \in Dirs, StartCampaign(dir)
        PROVE  TelemetryInv'
    BY <1>5, <1>6, <1>7 DEF StartCampaign, Forget
  <1>8. CASE \E dir \in Dirs : StartPool(dir)
    BY <1>5, <1>6, <1>8 DEF StartPool, Forget
  <1>9. CASE Telemeter
    <2>1. PICK run : telemetry' = Append(telemetry, TelemetryRow(corpus[turn + 1], run))
      BY <1>9 DEF Telemeter, RunOf
    <2>2. /\ stage = "telemetry" /\ stage' = "telemetry" /\ turn < Len(corpus) /\ turn' = turn + 1
          /\ UNCHANGED <<corpus, code>>
      BY <1>9 DEF Telemeter
    <2>3. /\ Listed(telemetry') /\ Len(telemetry') = Len(telemetry) + 1
          /\ DOMAIN telemetry' = 1 .. Len(telemetry) + 1
          /\ \A k \in DOMAIN telemetry : telemetry'[k] = telemetry[k]
          /\ telemetry'[Len(telemetry) + 1] = TelemetryRow(corpus[turn + 1], run)
      BY <2>1, ListAppend DEF TelemetryInv
    <2>4. Len(telemetry) = turn /\ code = "none" /\ turn \in Nat
      BY <2>2 DEF TelemetryInv, ShellInv
    <2>5. IsRowOf(telemetry'[turn + 1], corpus[turn + 1])
      BY <2>3, <2>4, TelemetryRowIs
    <2>6. ASSUME NEW k \in DOMAIN telemetry'
          PROVE  IsRowOf(telemetry'[k], corpus[k])
      BY <1>2, <2>3, <2>4, <2>5 DEF TelemetryInv
    <2>7. \A k \in DOMAIN telemetry' : IsRowOf(telemetry'[k], corpus'[k])
      BY <2>2, <2>6
    <2>8. QED
      BY <1>1, <2>2, <2>3, <2>4, <2>7 DEF TelemetryInv
  <1>10. CASE EndTelemetry
    <2>1. Len(telemetry) = Len(corpus) /\ UNCHANGED <<telemetry, corpus>> /\ code' # "0"
          /\ stage' \in {"shell", "calibration"}
      BY <1>10 DEF EndTelemetry, TelemetryInv, ShellInv
    <2>2. QED
      BY <2>1 DEF TelemetryInv, IsRowOf
  <1>11. CASE Calibrate \/ MeasureFallback \/ Evaluate \/ Ablate
    <2>1. stage \in Later /\ UNCHANGED <<telemetry, corpus, stage>>
      BY <1>11 DEF Calibrate, MeasureFallback, Evaluate, Ablate
    <2>2. QED
      BY <1>4, <2>1
  <1>12. CASE EndCalibration \/ EndSelectorFit \/ CheckCorrectness \/ Conclude
    <2>1. /\ stage \in Later /\ UNCHANGED <<telemetry, corpus>>
          /\ stage' \notin {"pool", "draining", "telemetry"}
      BY <1>12 DEF EndCalibration, EndSelectorFit, CheckCorrectness, Conclude
    <2>2. QED
      BY <1>4, <2>1
  <1>13. CASE Take
    BY <1>4, <1>13 DEF Take
  <1>14. ASSUME NEW index \in working, Collect(index) \/ TaskRaises(index) \/ Drain(index)
         PROVE  TelemetryInv'
    BY <1>4, <1>14 DEF Collect, TaskRaises, Drain, RunOf
  <1>15. CASE EndPool
    <2>1. CASE stage = "draining" \/ corpus = <<>>
      BY <1>4, <1>15, <2>1 DEF EndPool
    <2>2. CASE ~(stage = "draining" \/ corpus = <<>>)
      <3>1. /\ stage = "pool" /\ telemetry' = InOrder(collected) /\ stage' = "shell"
            /\ turn = Len(corpus) /\ working = {} /\ UNCHANGED corpus
        BY <1>15, <2>2 DEF EndPool
      <3>2. /\ DOMAIN collected = 1 .. Len(corpus)
            /\ \A k \in DOMAIN collected : IsRowOf(collected[k], corpus[k])
        BY <3>1 DEF CollectInv
      <3>3. /\ Listed(telemetry') /\ Len(telemetry') = Len(corpus)
            /\ \A k \in 1 .. Len(corpus) : telemetry'[k] = collected[k]
        BY <1>1, <3>1, <3>2, InOrderOfList
      <3>4. DOMAIN telemetry' = 1 .. Len(corpus)
        BY <3>3, ListIs
      <3>5. \A k \in DOMAIN telemetry' : IsRowOf(telemetry'[k], corpus'[k])
        BY <3>1, <3>2, <3>3, <3>4
      <3>6. QED
        BY <1>1, <3>1, <3>3, <3>5 DEF TelemetryInv
    <2>3. QED
      BY <2>1, <2>2
  <1>16. CASE Kill
    BY <1>1, <1>5, <1>16 DEF Kill, Forget
  <1>17. CASE Disturb
    BY <1>4, <1>17 DEF Disturb
  <1>18. CASE CampaignDone
    BY <1>4, <1>18 DEF CampaignDone, campaignVars
  <1>19. QED
    BY <1>7, <1>8, <1>9, <1>10, <1>11, <1>12, <1>13, <1>14, <1>15, <1>16, <1>17, <1>18
       DEF CampaignNext, Main, ThreadPool

LEMMA CollectNext ==
    ShellInv /\ CollectInv /\ CampaignNext => CollectInv'
  <1> SUFFICES ASSUME ShellInv, CollectInv, CampaignNext, stage' = "pool"
               PROVE  CollectInv'
    BY DEF CollectInv
  <1> USE DEF inputs, session, shell, memory, poolVars, End
  <1>1. Listed(corpus) /\ Len(corpus) \in Nat /\ turn \in Nat
    BY CorpusIs, ListIs DEF ShellInv
  <1>2. CASE UNCHANGED <<stage, turn, corpus, working, collected>>
    BY <1>2 DEF CollectInv
  <1>3. CASE \E dir \in Dirs : StartPool(dir)
    <2>1. turn' = 0 /\ working' = {} /\ collected' = <<>> /\ corpus' = LoadCorpus
      BY <1>3 DEF StartPool, Forget
    <2>2. Len(corpus') \in Nat
      BY <2>1, LoadCorpusTakes, ListIs DEF ShellInv, Takes
    <2>3. QED
      BY <2>1, <2>2, EmptyList DEF CollectInv
  <1>4. CASE Take
    <2>1. /\ stage = "pool" /\ turn < Len(corpus) /\ turn' = turn + 1
          /\ working' = working \cup {turn + 1} /\ UNCHANGED <<corpus, collected>>
      BY <1>4 DEF Take
    <2>2. /\ working \cap DOMAIN collected = {} /\ working \cup DOMAIN collected = 1 .. turn
          /\ \A k \in DOMAIN collected : IsRowOf(collected[k], corpus[k])
      BY <2>1 DEF CollectInv
    <2>3. turn + 1 \notin DOMAIN collected /\ 1 .. turn + 1 = (1 .. turn) \cup {turn + 1}
      BY <1>1, <2>2
    <2>4. /\ working' \cap DOMAIN collected = {}
          /\ working' \cup DOMAIN collected = 1 .. turn + 1
      BY <2>1, <2>2, <2>3
    <2>5. QED
      BY <1>1, <2>1, <2>2, <2>4 DEF CollectInv
  <1>5. ASSUME NEW index \in working, Collect(index)
        PROVE  CollectInv'
    <2>1. PICK run : collected' = Put(collected, index, TelemetryRow(corpus[index], run))
      BY <1>5 DEF Collect, RunOf, Slot
    <2>2. stage = "pool" /\ working' = working \ {index} /\ UNCHANGED <<turn, corpus>>
      BY <1>5 DEF Collect
    <2>3. /\ DOMAIN collected' = DOMAIN collected \cup {index}
          /\ \A k \in DOMAIN collected' :
               collected'[k] = IF k = index THEN TelemetryRow(corpus[index], run)
                               ELSE collected[k]
      BY <2>1 DEF Put
    <2>4. \A k \in DOMAIN collected' : IsRowOf(collected'[k], corpus[k])
      BY <2>2, <2>3, TelemetryRowIs DEF CollectInv
    <2>5. QED
      BY <2>2, <2>3, <2>4 DEF CollectInv
  <1>6. ASSUME NEW index \in working, TaskRaises(index) \/ Drain(index)
        PROVE  FALSE
    BY <1>6 DEF TaskRaises, Drain
  <1>7. ASSUME NEW dir \in Dirs, StartCampaign(dir)
        PROVE  FALSE
    BY <1>7 DEF StartCampaign
  <1>8. CASE Running
    BY <1>8, RunningIs DEF Running, Telemeter, Calibrate, MeasureFallback, Evaluate, Ablate
  <1>9. ASSUME \/ EndTelemetry \/ EndCalibration \/ EndSelectorFit \/ CheckCorrectness \/ Conclude
               \/ EndPool \/ Kill
        PROVE  FALSE
    BY <1>9 DEF EndTelemetry, EndCalibration, EndSelectorFit, CheckCorrectness, Conclude, EndPool,
                Kill
  <1>10. CASE Disturb \/ CampaignDone
    BY <1>2, <1>10 DEF Disturb, CampaignDone, campaignVars
  <1>11. QED
    BY <1>3, <1>4, <1>5, <1>6, <1>7, <1>8, <1>9, <1>10
       DEF CampaignNext, Main, ThreadPool, Running

(* The sample of a split. *)
LEMMA SplitIs ==
    ASSUME ShellInv, TelemetryInv, NEW split, NEW limit \in Int
    PROVE  /\ Takes(SplitRows(split), telemetry)
           /\ \A k \in DOMAIN SplitRows(split) : SplitRows(split)[k].split = split
           /\ Takes(StratifiedSample(SplitRows(split), limit), telemetry)
           /\ \A k \in DOMAIN StratifiedSample(SplitRows(split), limit) :
                StratifiedSample(SplitRows(split), limit)[k].split = split
  <1> DEFINE T == {k \in DOMAIN telemetry : telemetry[k].split = split}
             rows == SplitRows(split)
             sample == StratifiedSample(rows, limit)
  <1>1. Listed(telemetry) /\ rows = InOrder(Restrict(telemetry, T))
    BY DEF TelemetryInv, SplitRows
  <1>2. T \in SUBSET DOMAIN telemetry /\ \A i \in T : telemetry[i].split = split
    OBVIOUS
  <1> HIDE DEF T, rows
  <1>3. /\ Takes(rows, telemetry)
        /\ \A k \in DOMAIN rows : \E i \in T : rows[k] = telemetry[i]
    BY <1>1, <1>2, PartTakes
  <1>4. \A k \in DOMAIN rows : rows[k].split = split
    BY <1>2, <1>3
  <1>5. \A i \in DOMAIN telemetry : /\ telemetry[i].item.sha256 \in Int
                                    /\ telemetry[i].stratum \in Range(Strata)
    <2>1. DOMAIN telemetry \subseteq DOMAIN corpus
      <3>1. Listed(corpus)
        BY CorpusIs
      <3>2. /\ DOMAIN telemetry = 1 .. Len(telemetry) /\ Len(telemetry) \in Nat
            /\ DOMAIN corpus = 1 .. Len(corpus) /\ Len(corpus) \in Nat
            /\ Len(telemetry) <= Len(corpus)
        BY <3>1, ListIs DEF TelemetryInv
      <3>3. QED
        BY <3>2
    <2>2. QED
      BY <2>1, CorpusIs DEF TelemetryInv, IsRowOf
  <1>6. \A k \in DOMAIN rows : rows[k].item.sha256 \in Int /\ rows[k].stratum \in Range(Strata)
    BY <1>2, <1>3, <1>5
  <1>7. Listed(rows)
    BY <1>3 DEF Takes
  <1>8. Takes(sample, rows)
    BY <1>6, <1>7, SampleTakes
  <1> HIDE DEF sample
  <1>9. Takes(sample, telemetry)
    BY <1>3, <1>8, TakesAgain
  <1>10. \A k \in DOMAIN sample : sample[k].split = split
    BY <1>4, <1>8 DEF Takes
  <1>11. QED
    BY <1>3, <1>4, <1>9, <1>10 DEF rows, sample

LEMMA SampleInit == CampaignInit => SampleInv /\ MeasuredInv
  BY EmptyList DEF CampaignInit, SampleInv, MeasuredInv, Later, MainStages

LEMMA SampleNext ==
    ShellInv /\ TelemetryInv /\ SampleInv /\ CampaignNext => SampleInv'
  <1> SUFFICES ASSUME ShellInv, TelemetryInv, SampleInv, CampaignNext
               PROVE  SampleInv'
    OBVIOUS
  <1> USE DEF inputs, session, shell, memory, poolVars, MainStages, Later, End
  <1>1. CASE UNCHANGED <<stage, corpus, telemetry, pool>>
    BY <1>1 DEF SampleInv
  <1>2. CASE stage' \notin MainStages
    BY <1>2 DEF SampleInv
  <1>3. ASSUME NEW dir \in Dirs, StartCampaign(dir)
        PROVE  SampleInv'
    BY <1>2, <1>3 DEF StartCampaign, SampleInv
  <1>4. CASE \E dir \in Dirs : StartPool(dir)
    BY <1>2, <1>4 DEF StartPool
  <1>5. CASE Telemeter
    BY <1>5 DEF Telemeter, SampleInv
  <1>6. CASE Calibrate \/ MeasureFallback \/ Evaluate \/ Ablate
    BY <1>1, <1>6 DEF Calibrate, MeasureFallback, Evaluate, Ablate
  <1>7. CASE EndTelemetry
    <2>1. CASE stage' = "shell"
      BY <1>2, <2>1
    <2>2. CASE stage' # "shell"
      <3>1. /\ stage = "telemetry" /\ stage' = "calibration" /\ UNCHANGED <<corpus, telemetry>>
            /\ pool' = StratifiedSample(SplitRows("calibration"), CalibrationLimit)
        BY <1>7, <2>2 DEF EndTelemetry
      <3>2. CalibrationLimit \in Int
        BY CampaignAssumption
      <3>3. Takes(pool', telemetry) /\ \A k \in DOMAIN pool' : pool'[k].split = "calibration"
        BY <3>1, <3>2, SplitIs
      <3>4. QED
        BY <3>1, <3>3 DEF SampleInv
    <2>3. QED
      BY <2>1, <2>2
  <1>8. CASE EndCalibration
    <2>1. CASE stage' = "shell"
      BY <1>2, <2>1
    <2>2. CASE stage' # "shell"
      BY <1>8, <2>2 DEF EndCalibration, SampleInv
    <2>3. QED
      BY <2>1, <2>2
  <1>9. CASE EndSelectorFit
    <2>1. /\ stage = "selector_fit" /\ stage' = "evaluation" /\ UNCHANGED <<corpus, telemetry>>
          /\ pool' = EvaluationPool
      BY <1>9 DEF EndSelectorFit
    <2>2. EvaluationLimit \in Int
      BY CampaignAssumption
    <2>3. Takes(pool', telemetry) /\ \A k \in DOMAIN pool' : pool'[k].split = "evaluation"
      BY <2>1, <2>2, SplitIs DEF EvaluationPool
    <2>4. QED
      BY <2>1, <2>3 DEF SampleInv
  <1>10. CASE CheckCorrectness
    <2>1. CASE stage' = "shell"
      BY <1>2, <2>1
    <2>2. CASE stage' # "shell"
      <3>1. /\ stage = "evaluation" /\ stage' = "ablation" /\ UNCHANGED <<corpus, telemetry>>
            /\ pool' = StratifiedSample(SplitRows("evaluation"), AblationLimit)
        BY <1>10, <2>2 DEF CheckCorrectness
      <3>2. AblationLimit \in Int
        BY CampaignAssumption
      <3>3. Takes(pool', telemetry) /\ \A k \in DOMAIN pool' : pool'[k].split = "evaluation"
        BY <3>1, <3>2, SplitIs
      <3>4. QED
        BY <3>1, <3>3 DEF SampleInv
    <2>3. QED
      BY <2>1, <2>2
  <1>11. CASE Conclude \/ Kill \/ EndPool
    BY <1>2, <1>11 DEF Conclude, Kill, EndPool
  <1>12. CASE Take
    BY <1>1, <1>12 DEF Take
  <1>13. ASSUME NEW index \in working, Collect(index) \/ TaskRaises(index) \/ Drain(index)
         PROVE  SampleInv'
    BY <1>2, <1>13 DEF Collect, TaskRaises, Drain, RunOf
  <1>14. CASE Disturb \/ CampaignDone
    BY <1>1, <1>14 DEF Disturb, CampaignDone, campaignVars
  <1>15. QED
    BY <1>3, <1>4, <1>5, <1>6, <1>7, <1>8, <1>9, <1>10, <1>11, <1>12, <1>13, <1>14
       DEF CampaignNext, Main, ThreadPool

LEMMA MeasuredStays ==
    ASSUME ShellInv, UNCHANGED <<telemetry, profile>>, faults' = faults \/ faults' = faults + 1
    PROVE  \A row : IsMeasured(row, telemetry, profile, faults)
                     => IsMeasured(row, telemetry', profile', faults')
  <1>1. faults' = 0 => faults = 0
    BY DEF ShellInv
  <1>2. QED
    BY <1>1 DEF IsMeasured

LEMMA MeasuredNext ==
    ShellInv /\ TelemetryInv /\ SampleInv /\ MeasuredInv /\ CampaignNext => MeasuredInv'
  <1> SUFFICES ASSUME ShellInv, TelemetryInv, SampleInv, MeasuredInv, CampaignNext
               PROVE  MeasuredInv'
    OBVIOUS
  <1> USE DEF inputs, session, shell, memory, poolVars, Later, End
  <1>1. UNCHANGED measured => ChooseTimeout' = ChooseTimeout
    BY DEF ChooseTimeout, Solved, Ceiling
  <1>2. CASE measured' = <<>> /\ stage' \in {"shell", "telemetry", "pool"}
    BY <1>2, EmptyList DEF MeasuredInv
  <1>3. CASE UNCHANGED measured /\ stage' \in {"shell", "telemetry", "pool", "draining"}
             /\ (stage' = "telemetry" => stage = "telemetry")
    BY <1>3 DEF MeasuredInv
  <1>4. CASE /\ UNCHANGED <<measured, telemetry, profile>>
             /\ faults' = faults \/ faults' = faults + 1
             /\ stage \in Later /\ stage' \in Later
             /\ stage' = "selector_fit" => UNCHANGED <<stage, timeout>>
    <2>1. \A k \in DOMAIN measured : IsMeasured(measured[k], telemetry', profile', faults')
      BY <1>4, MeasuredStays DEF MeasuredInv
    <2>2. \A k \in DOMAIN measured' : IsMeasured(measured'[k], telemetry', profile', faults')
      BY <1>4, <2>1
    <2>3. stage' = "selector_fit" => timeout' = ChooseTimeout'
      BY <1>1, <1>4 DEF MeasuredInv
    <2>4. QED
      BY <1>4, <2>2, <2>3 DEF MeasuredInv
  <1>5. ASSUME NEW dir \in Dirs, StartCampaign(dir)
        PROVE  MeasuredInv'
    BY <1>2, <1>5 DEF StartCampaign, Forget
  <1>6. CASE (\E dir \in Dirs : StartPool(dir)) \/ Kill
    BY <1>2, <1>6 DEF StartPool, Kill, Forget
  <1>7. CASE Telemeter
    BY <1>3, <1>7 DEF Telemeter
  <1>8. CASE EndTelemetry
    BY <1>8, EmptyList DEF EndTelemetry, MeasuredInv
  <1>9. CASE Calibrate
    <2> DEFINE item == ItemAt(turn, <<"cadical", "kissat">>)
               solver == NameAt(turn, <<"cadical", "kissat">>)
               row(run) == [item |-> item, solver |-> solver, run |-> run]
               spec == [kind |-> "direct", fallback |-> solver]
    <2>1. /\ stage = "calibration" /\ turn < 2 * Len(pool) /\ UNCHANGED <<stage, telemetry, profile>>
          /\ turn \in Nat
      BY <1>9 DEF Calibrate, ShellInv
    <2>2. PICK run : /\ measured' = Append(measured, row(run))
                     /\ \/ run = Run(FileOf(item), spec, parameters, Ceiling) /\ UNCHANGED faults
                        \/ faults' = faults + 1
      BY <1>9 DEF Calibrate, RunOf
    <2>3. solver \in {"cadical", "kissat"}
      BY <2>1 DEF NameAt
    <2>4. \E j \in DOMAIN telemetry : telemetry[j].split = "calibration" /\ item = telemetry[j].item
      <3>1. /\ DOMAIN pool = 1 .. Len(pool) /\ Len(pool) \in Nat
            /\ \A k \in DOMAIN pool : pool[k].split = "calibration"
            /\ \A k \in DOMAIN pool : \E j \in DOMAIN telemetry : pool[k] = telemetry[j]
        BY <2>1, ListIs DEF SampleInv, Takes
      <3>2. item = pool[turn \div 2 + 1].item /\ turn \div 2 + 1 \in 1 .. Len(pool)
        BY <2>1, <3>1 DEF ItemAt
      <3>3. QED
        BY <3>1, <3>2
    <2>5. Run(FileOf(item), spec, parameters, Ceiling) = DirectRun(FileOf(item), solver, Ceiling)
      BY DEF Run
    <2>6. faults' = 0 => run = DirectRun(FileOf(item), solver, Ceiling)
      BY <2>2, <2>5 DEF ShellInv
    <2> HIDE DEF item, solver
    <2>7. \E j \in DOMAIN telemetry' : telemetry'[j].split = "calibration" /\ item = telemetry'[j].item
      BY <2>1, <2>4
    <2>8. faults' = 0 => run = DirectRun(profile'[item.actual], solver, Ceiling)
      BY <2>1, <2>6 DEF FileOf
    <2>9. IsMeasured(row(run), telemetry', profile', faults')
      BY <2>3, <2>7, <2>8 DEF IsMeasured
    <2>10. /\ Listed(measured')
           /\ DOMAIN measured' = 1 .. Len(measured) + 1
           /\ DOMAIN measured = 1 .. Len(measured) /\ Len(measured) \in Nat
           /\ \A k \in DOMAIN measured : measured'[k] = measured[k]
           /\ measured'[Len(measured) + 1] = row(run)
      BY <2>2, ListAppend, ListIs DEF MeasuredInv
    <2> HIDE DEF row
    <2>11. \A k \in DOMAIN measured : IsMeasured(measured[k], telemetry', profile', faults')
      BY <2>1, <2>2, MeasuredStays DEF MeasuredInv
    <2>12. \A k \in DOMAIN measured' : IsMeasured(measured'[k], telemetry', profile', faults')
      BY <2>9, <2>10, <2>11
    <2>13. QED
      BY <2>1, <2>10, <2>12 DEF MeasuredInv
  <1>10. CASE EndCalibration
    <2>1. CASE stage' = "shell"
      BY <1>3, <1>10, <2>1 DEF EndCalibration
    <2>2. CASE stage' # "shell"
      <3>1. /\ stage = "calibration" /\ stage' = "selector_fit" /\ timeout' = ChooseTimeout
            /\ UNCHANGED <<measured, telemetry, profile, faults>>
        BY <1>10, <2>2 DEF EndCalibration
      <3>2. \A k \in DOMAIN measured : IsMeasured(measured[k], telemetry', profile', faults')
        BY <3>1, MeasuredStays DEF MeasuredInv
      <3>3. \A k \in DOMAIN measured' : IsMeasured(measured'[k], telemetry', profile', faults')
        BY <3>1, <3>2
      <3>4. QED
        BY <1>1, <3>1, <3>3 DEF MeasuredInv
    <2>3. QED
      BY <2>1, <2>2
  <1>11. CASE MeasureFallback \/ Evaluate \/ Ablate
    <2>1. UNCHANGED <<measured, telemetry, timeout>> /\ stage \in Later
      BY <1>11 DEF MeasureFallback, Evaluate, Ablate
    <2>2. QED
      BY <1>4, <1>11, <2>1, RunningIs DEF Running
  <1>12. CASE EndSelectorFit
    BY <1>4, <1>12 DEF EndSelectorFit
  <1>13. CASE CheckCorrectness
    BY <1>3, <1>4, <1>13 DEF CheckCorrectness
  <1>14. CASE Conclude
    BY <1>3, <1>14 DEF Conclude
  <1>15. CASE Take \/ EndPool
    BY <1>3, <1>15 DEF Take, EndPool
  <1>16. ASSUME NEW index \in working, Collect(index) \/ TaskRaises(index) \/ Drain(index)
         PROVE  MeasuredInv'
    BY <1>3, <1>16 DEF Collect, TaskRaises, Drain, RunOf
  <1>17. CASE Disturb \/ CampaignDone
    <2>1. /\ UNCHANGED <<measured, telemetry, profile, stage, timeout>>
          /\ faults' = faults \/ faults' = faults + 1
      BY <1>17 DEF Disturb, CampaignDone, campaignVars
    <2>2. CASE stage \in Later
      BY <1>4, <2>1, <2>2
    <2>3. CASE stage \notin Later
      BY <2>1, <2>3 DEF MeasuredInv
    <2>4. QED
      BY <2>2, <2>3
  <1>18. QED
    BY <1>5, <1>6, <1>7, <1>8, <1>9, <1>10, <1>11, <1>12, <1>13, <1>14, <1>15, <1>16, <1>17
       DEF CampaignNext, Main, ThreadPool

---------------------------------------------------------------------------
(* The evaluation: what the schedule of one seed has, it has once.         *)

LEMMA QuotientIs ==
    ASSUME NEW n \in Int, n > 0, NEW k \in Nat
    PROVE  k \div n \in Nat /\ k % n \in 0 .. n - 1 /\ n * (k \div n) <= k
  <1>1. k \div n \in Int /\ k \div n >= 0
    OBVIOUS
  <1>2. k % n \in 0 .. n - 1
    OBVIOUS
  <1>3. n * (k \div n) <= k
    OBVIOUS
  <1>4. QED
    BY <1>1, <1>2, <1>3

LEMMA QuotientAndRest ==
    ASSUME NEW n \in Int, n > 0, NEW j \in Int, NEW k \in Int,
           j \div n = k \div n, j % n = k % n
    PROVE  j = k
  OBVIOUS

LEMMA TurnedDiffers ==
    ASSUME NEW n \in Nat, n > 0, NEW r \in 0 .. n - 1,
           NEW x \in 0 .. n - 1, NEW y \in 0 .. n - 1, (x + r) % n = (y + r) % n
    PROVE  x = y
  <1>1. ASSUME NEW z \in 0 .. n - 1
        PROVE  (z + r) % n = IF z + r < n THEN z + r ELSE z + r - n
    <2>1. CASE z + r < n
      BY <2>1
    <2>2. CASE z + r >= n
      <3>1. z + r - n \in 0 .. n - 1
        BY <2>2
      <3>2. (z + r) % n = z + r - n
        BY <3>1
      <3>3. QED
        BY <2>2, <3>2
    <2>3. QED
      BY <2>1, <2>2
  <1>2. QED
    BY <1>1

\* Where the k-th run of one seed takes its mode from.
PlaceOf(k) ==
    (((k % Len(Modes)) + Rotation(k \div Len(Modes), Seeds[1], Len(Modes))) % Len(Modes)) + 1

LEMMA OneSeed == Len(Seeds) = 1 => Seeds[1] \in Int
  <1>1. Seeds \in Seq(Int)
    BY CampaignAssumption
  <1>2. QED
    BY <1>1

LEMMA ModesAre ==
    /\ Len(Modes) \in Nat /\ DOMAIN Modes = 1 .. Len(Modes)
    /\ \A j, k \in DOMAIN Modes : Modes[j].name = Modes[k].name => j = k
  <1>1. /\ Modes \in Seq(Range(Modes))
        /\ \A j, k \in DOMAIN Modes : Modes[j].name = Modes[k].name => j = k
    BY CampaignAssumption
  <1>2. Len(Modes) \in Nat /\ DOMAIN Modes = 1 .. Len(Modes)
    BY <1>1
  <1>3. QED
    BY <1>1, <1>2

LEMMA ScheduledIs ==
    ASSUME Len(Seeds) = 1, Len(Modes) > 0, Listed(pool),
           NEW k \in Nat, k < Len(pool) * Len(Modes)
    PROVE  /\ k \div Len(Modes) + 1 \in DOMAIN pool
           /\ PlaceOf(k) \in DOMAIN Modes
           /\ Scheduled(k, Modes).row = pool[k \div Len(Modes) + 1]
           /\ Scheduled(k, Modes).mode = Modes[PlaceOf(k)]
  <1> DEFINE n == Len(Modes)
             index == k \div n
  <1>1. /\ n \in Int /\ n > 0 /\ DOMAIN Modes = 1 .. n /\ Seeds[1] \in Int
        /\ Len(pool) \in Nat /\ DOMAIN pool = 1 .. Len(pool)
    BY OneSeed, ModesAre, ListIs
  <1>2. index \in Nat /\ k % n \in 0 .. n - 1 /\ n * index <= k
    BY <1>1, QuotientIs
  <1>3. n * Len(Seeds) = n /\ (k \div n) % Len(Seeds) = 0
    <2>1. \A x \in Int : x * 1 = x /\ x % 1 = 0
      OBVIOUS
    <2>2. n \in Int /\ index \in Int /\ index = k \div n
      BY <1>1, <1>2
    <2> HIDE DEF n, index
    <2>3. QED
      BY <2>1, <2>2
  <1> HIDE DEF n, index
  <1>4. index < Len(pool)
    <2>1. ASSUME NEW i \in Nat, NEW p \in Nat, NEW m \in Nat, m * i <= k, k < p * m
          PROVE  i < p
      <3>1. i >= p => m * i >= m * p
        OBVIOUS
      <3>2. m * p = p * m
        OBVIOUS
      <3>3. QED
        BY <2>1, <3>1, <3>2
    <2>2. k < Len(pool) * n /\ n \in Nat
      BY <1>1 DEF n
    <2>3. QED
      BY <1>1, <1>2, <2>1, <2>2
  <1>5. Rotation(index, Seeds[1], n) \in 0 .. n - 1
    BY <1>1, <1>2 DEF Rotation, n
  <1>6. PlaceOf(k) = (((k % n) + Rotation(index, Seeds[1], n)) % n) + 1
    BY DEF PlaceOf, n, index
  <1>7. PlaceOf(k) \in 1 .. n
    BY <1>1, <1>2, <1>5, <1>6 DEF n
  <1>8. /\ Scheduled(k, Modes).row = pool[index + 1]
        /\ Scheduled(k, Modes).mode = Modes[PlaceOf(k)]
    BY <1>3, <1>6 DEF Scheduled, n, index
  <1>9. QED
    BY <1>1, <1>2, <1>4, <1>7, <1>8 DEF index, n

LEMMA ScheduledOnce ==
    ASSUME Len(Seeds) = 1, Len(Modes) > 0, Listed(pool),
           \A x, y \in DOMAIN pool : pool[x].item = pool[y].item => x = y,
           NEW j \in Nat, NEW k \in Nat,
           j < Len(pool) * Len(Modes), k < Len(pool) * Len(Modes),
           Scheduled(j, Modes).row.item = Scheduled(k, Modes).row.item,
           Scheduled(j, Modes).mode.name = Scheduled(k, Modes).mode.name
    PROVE  j = k
  <1> DEFINE n == Len(Modes)
  <1>1. n \in Nat /\ n > 0 /\ Seeds[1] \in Int
    BY OneSeed, ModesAre
  <1>2. j \div n + 1 \in DOMAIN pool /\ k \div n + 1 \in DOMAIN pool
    BY ScheduledIs
  <1>3. pool[j \div n + 1].item = pool[k \div n + 1].item
    BY ScheduledIs
  <1>4. j \div n + 1 = k \div n + 1
    BY <1>2, <1>3
  <1>5. PlaceOf(j) \in DOMAIN Modes /\ PlaceOf(k) \in DOMAIN Modes
    BY ScheduledIs
  <1>6. Modes[PlaceOf(j)].name = Modes[PlaceOf(k)].name
    BY ScheduledIs
  <1>7. PlaceOf(j) = PlaceOf(k)
    BY <1>5, <1>6, ModesAre
  <1>8. /\ j \div n \in Nat /\ j % n \in 0 .. n - 1
        /\ k \div n \in Nat /\ k % n \in 0 .. n - 1
    BY <1>1, QuotientIs
  <1>9. j \div n = k \div n
    BY <1>4, <1>8
  <1> DEFINE r == Rotation(j \div n, Seeds[1], n)
  <1>10. r \in 0 .. n - 1
    BY <1>1, <1>8 DEF Rotation
  <1>11. /\ PlaceOf(j) = (((j % n) + r) % n) + 1
         /\ PlaceOf(k) = (((k % n) + r) % n) + 1
    BY <1>9 DEF PlaceOf
  <1> HIDE DEF n, r
  <1>12. ((j % n) + r) % n = ((k % n) + r) % n
    <2>1. \A x \in Int : x % n \in Int
      BY <1>1
    <2>2. ((j % n) + r) % n \in Int /\ ((k % n) + r) % n \in Int
      BY <1>1, <1>8, <1>10, <2>1
    <2>3. \A x, y \in Int : x + 1 = y + 1 => x = y
      OBVIOUS
    <2>4. QED
      BY <1>7, <1>11, <2>2, <2>3
  <1>13. j % n = k % n
    BY <1>1, <1>8, <1>10, <1>12, TurnedDiffers
  <1>14. QED
    BY <1>1, <1>9, <1>13, QuotientAndRest

LEMMA ItemsDiffer ==
    ASSUME ShellInv, NEW i \in DOMAIN corpus, NEW j \in DOMAIN corpus,
           corpus[i].instance = corpus[j].instance
    PROVE  i = j
  <1>1. PICK h \in [DOMAIN corpus -> DOMAIN manifest] :
               /\ \A k \in DOMAIN corpus : corpus[k] = manifest[h[k]]
               /\ \A x, y \in DOMAIN corpus : h[x] = h[y] => x = y
    BY CorpusIs DEF Takes
  <1>2. \A x, y \in DOMAIN manifest : manifest[x].instance = manifest[y].instance => x = y
    BY CampaignAssumption DEF ShellInv
  <1>3. QED
    BY <1>1, <1>2

LEMMA PoolIs ==
    ASSUME ShellInv, TelemetryInv, SampleInv, stage \in Later
    PROVE  /\ Listed(pool)
           /\ \A k \in DOMAIN pool : \E i \in DOMAIN corpus : pool[k].item = corpus[i]
           /\ \A x, y \in DOMAIN pool : pool[x].item = pool[y].item => x = y
  <1>1. PICK h \in [DOMAIN pool -> DOMAIN telemetry] :
               /\ \A k \in DOMAIN pool : pool[k] = telemetry[h[k]]
               /\ \A x, y \in DOMAIN pool : h[x] = h[y] => x = y
    BY DEF SampleInv, Takes
  <1>2. DOMAIN telemetry = DOMAIN corpus
    BY CorpusIs, ListIs DEF TelemetryInv
  <1>3. \A k \in DOMAIN telemetry : telemetry[k].item = corpus[k]
    BY DEF TelemetryInv, IsRowOf
  <1>4. \A k \in DOMAIN pool : h[k] \in DOMAIN corpus /\ pool[k].item = corpus[h[k]]
    BY <1>1, <1>2, <1>3
  <1>5. QED
    BY <1>1, <1>4, ItemsDiffer DEF SampleInv, Takes

LEMMA ResultsInit == CampaignInit => ResultsInv
  BY EmptyList DEF CampaignInit, ResultsInv

LEMMA ResultsNext ==
    Len(Seeds) = 1 /\ ShellInv /\ TelemetryInv /\ SampleInv /\ ResultsInv /\ CampaignNext
      => ResultsInv'
  <1> SUFFICES ASSUME Len(Seeds) = 1, ShellInv, TelemetryInv, SampleInv, ResultsInv, CampaignNext
               PROVE  ResultsInv'
    OBVIOUS
  <1> USE DEF inputs, session, shell, memory, poolVars, End
  <1>1. ASSUME UNCHANGED results
        PROVE  \A instance : Passed(instance)' <=> Passed(instance)
    BY <1>1 DEF Passed, Answers
  <1>2. CASE UNCHANGED <<results, stage, code, corpus, turn, pool>>
    <2>1. \A k : Scheduled(k, Modes)' = Scheduled(k, Modes)
      BY <1>2 DEF Scheduled
    <2>2. QED
      BY <1>1, <1>2, <2>1 DEF ResultsInv
  <1>3. CASE results' = <<>> /\ stage' \in {"shell", "telemetry", "pool"}
    BY <1>3, EmptyList DEF ResultsInv
  <1>4. CASE UNCHANGED <<results, corpus>> /\ stage' \notin {"evaluation", "ablation"}
             /\ (stage' # "shell" => results = <<>>) /\ (code' = "0" => results = <<>>)
    BY <1>4, EmptyList DEF ResultsInv
  <1>5. ASSUME NEW dir \in Dirs, StartCampaign(dir)
        PROVE  ResultsInv'
    BY <1>3, <1>5 DEF StartCampaign, Forget
  <1>6. CASE (\E dir \in Dirs : StartPool(dir)) \/ Kill
    BY <1>3, <1>6 DEF StartPool, Kill, Forget
  <1>7. CASE Telemeter \/ Calibrate \/ MeasureFallback \/ EndTelemetry \/ EndCalibration
    <2>1. stage \in {"telemetry", "calibration", "selector_fit"} /\ results = <<>> /\ code = "none"
      BY <1>7 DEF Telemeter, Calibrate, MeasureFallback, EndTelemetry, EndCalibration, ResultsInv,
                  ShellInv
    <2>2. UNCHANGED <<results, corpus>> /\ code' # "0"
          /\ stage' \in {"telemetry", "calibration", "selector_fit", "shell"}
      BY <1>7, <2>1 DEF Telemeter, Calibrate, MeasureFallback, EndTelemetry, EndCalibration
    <2>3. QED
      BY <1>4, <2>1, <2>2
  <1>8. CASE EndSelectorFit
    <2>1. results' = <<>> /\ stage' = "evaluation" /\ turn' = 0 /\ code' # "0"
      BY <1>8 DEF EndSelectorFit, ResultsInv, ShellInv
    <2>2. QED
      BY <2>1, EmptyList DEF ResultsInv
  <1>9. CASE Evaluate
    <2> DEFINE job == Scheduled(turn, Modes)
    <2>1. PICK run : results' = Append(results, ResultRow(job, run))
      BY <1>9 DEF Evaluate, RunOf
    <2> DEFINE row == ResultRow(job, run)
    <2>2. /\ stage = "evaluation" /\ turn' = turn + 1 /\ turn < Len(pool) * Len(Seeds) * Len(Modes)
          /\ UNCHANGED <<stage, corpus, pool, code>> /\ turn \in Nat /\ code = "none"
      BY <1>9 DEF Evaluate, ShellInv
    <2>3. /\ Listed(pool)
          /\ \A k \in DOMAIN pool : \E i \in DOMAIN corpus : pool[k].item = corpus[i]
          /\ \A x, y \in DOMAIN pool : pool[x].item = pool[y].item => x = y
      BY <2>2, PoolIs DEF Later
    <2>4. Len(pool) \in Nat /\ Len(Modes) \in Nat
      BY <2>3, ListIs, ModesAre
    <2>5. turn < Len(pool) * Len(Modes) /\ Len(Modes) > 0
      <3>1. Len(pool) * Len(Seeds) = Len(pool)
        BY <2>4
      <3>2. turn < Len(pool) * Len(Modes)
        BY <2>2, <3>1
      <3>3. Len(pool) * 0 = 0
        BY <2>4
      <3>4. QED
        BY <2>2, <2>4, <3>2, <3>3
    <2>6. row.item = job.row.item /\ row.mode = job.mode.name
      BY DEF ResultRow
    <2>7. \E i \in DOMAIN corpus : row.item = corpus[i]
      BY <2>2, <2>3, <2>5, <2>6, ScheduledIs
    <2> HIDE DEF row
    <2>8. /\ Listed(results')
          /\ DOMAIN results' = 1 .. Len(results) + 1 /\ Len(results') = Len(results) + 1
          /\ DOMAIN results = 1 .. Len(results) /\ Len(results) = turn
          /\ \A k \in DOMAIN results : results'[k] = results[k]
          /\ results'[Len(results) + 1] = row
      BY <2>1, <2>2, ListAppend, ListIs DEF ResultsInv, row
    <2>9. \A k \in DOMAIN results' : results'[k].item = Scheduled(k - 1, Modes).row.item
                                     /\ results'[k].mode = Scheduled(k - 1, Modes).mode.name
      <3>1. ASSUME NEW k \in DOMAIN results
            PROVE  /\ results'[k].item = Scheduled(k - 1, Modes).row.item
                   /\ results'[k].mode = Scheduled(k - 1, Modes).mode.name
        BY <2>2, <2>8, <3>1 DEF ResultsInv
      <3>2. (turn + 1) - 1 = turn
        BY <2>2
      <3>3. QED
        BY <2>2, <2>6, <2>8, <3>1, <3>2
    <2>10. ASSUME NEW j \in DOMAIN results', NEW k \in DOMAIN results',
                  results'[j].item = results'[k].item, results'[j].mode = results'[k].mode
           PROVE  j = k
      <3>1. /\ j - 1 \in Nat /\ j - 1 < Len(pool) * Len(Modes)
            /\ k - 1 \in Nat /\ k - 1 < Len(pool) * Len(Modes)
        <4>1. Len(pool) * Len(Modes) \in Int
          BY <2>4
        <4>2. QED
          BY <2>2, <2>5, <2>8, <4>1
      <3>2. /\ Scheduled(j - 1, Modes).row.item = Scheduled(k - 1, Modes).row.item
            /\ Scheduled(j - 1, Modes).mode.name = Scheduled(k - 1, Modes).mode.name
        BY <2>9, <2>10
      <3>3. j - 1 = k - 1
        BY <2>3, <2>5, <3>1, <3>2, ScheduledOnce
      <3>4. QED
        BY <2>8, <3>3
    <2>11. \A k : Scheduled(k, Modes)' = Scheduled(k, Modes)
      BY <2>2 DEF Scheduled
    <2>12. \A k \in DOMAIN results' : \E i \in DOMAIN corpus' : results'[k].item = corpus'[i]
      BY <2>2, <2>7, <2>8 DEF ResultsInv
    <2>13. QED
      BY <2>2, <2>8, <2>9, <2>10, <2>11, <2>12 DEF ResultsInv
  <1>10. CASE CheckCorrectness
    <2>1. UNCHANGED <<results, corpus>> /\ stage = "evaluation" /\ code = "none"
      BY <1>10 DEF CheckCorrectness, ShellInv
    <2>2. CASE stage' = "shell"
      <3>1. code' # "0"
        BY <1>10, <2>1, <2>2 DEF CheckCorrectness
      <3>2. QED
        BY <2>1, <2>2, <3>1 DEF ResultsInv
    <2>3. CASE stage' # "shell"
      <3>1. stage' = "ablation" /\ code' = code /\ Failures = {}
        BY <1>10, <2>3 DEF CheckCorrectness
      <3>2. \A k \in DOMAIN results : Passed(results[k].item.instance)
        BY <3>1 DEF Failures
      <3>3. \A k \in DOMAIN results' : Passed(results[k].item.instance)'
        BY <1>1, <2>1, <3>2
      <3>4. QED
        BY <1>1, <2>1, <3>1, <3>2 DEF ResultsInv
    <2>4. QED
      BY <2>2, <2>3
  <1>11. CASE Ablate \/ Conclude
    <2>1. UNCHANGED <<results, corpus>> /\ stage = "ablation"
      BY <1>11 DEF Ablate, Conclude
    <2>2. \A k \in DOMAIN results : Passed(results[k].item.instance)
      BY <2>1 DEF ResultsInv
    <2>3. stage' \in {"shell", "ablation"}
      BY <1>11, <2>1 DEF Ablate, Conclude
    <2>4. QED
      BY <1>1, <2>1, <2>2, <2>3 DEF ResultsInv
  <1>12. CASE Take \/ EndPool
    <2>1. stage \in {"pool", "draining"} /\ results = <<>> /\ UNCHANGED <<results, corpus>>
      BY <1>12 DEF Take, EndPool, ResultsInv
    <2>2. stage' \in {"pool", "draining", "shell"}
      BY <1>12, <2>1 DEF Take, EndPool
    <2>3. QED
      BY <1>4, <2>1, <2>2
  <1>13. ASSUME NEW index \in working, Collect(index) \/ TaskRaises(index) \/ Drain(index)
         PROVE  ResultsInv'
    <2>1. stage \in {"pool", "draining"} /\ results = <<>> /\ UNCHANGED <<results, corpus>>
      BY <1>13 DEF Collect, TaskRaises, Drain, ResultsInv
    <2>2. stage' \in {"pool", "draining"}
      BY <1>13, <2>1 DEF Collect, TaskRaises, Drain
    <2>3. QED
      BY <1>4, <2>1, <2>2
  <1>14. CASE Disturb \/ CampaignDone
    BY <1>2, <1>14 DEF Disturb, CampaignDone, campaignVars
  <1>15. QED
    BY <1>5, <1>6, <1>7, <1>8, <1>9, <1>10, <1>11, <1>12, <1>13, <1>14
       DEF CampaignNext, Main, ThreadPool

---------------------------------------------------------------------------
(* Both programs from one shell.                                           *)

both == <<campaignVars, harnessVars>>

MeasurementInv ==
    /\ AloneInv /\ AgreementInv
    /\ ShellInv /\ FilesInv /\ TelemetryInv /\ CollectInv /\ SampleInv /\ MeasuredInv

LEMMA MeasurementInitInv == MeasurementInit => MeasurementInv /\ ResultsInv
  BY AloneInit, AgreementInit, ShellInit, FilesInit, TelemetryInit, SampleInit, ResultsInit
     DEF MeasurementInit, MeasurementInv

LEMMA HarnessSame ==
    ASSUME UNCHANGED harnessVars
    PROVE  (AloneInv /\ AgreementInv) => (AloneInv /\ AgreementInv)'
  <1> USE DEF harnessVars
  <1>1. AloneInv => AloneInv'
    BY DEF AloneInv
  <1>2. /\ \A file : Unanimous(file)' <=> Unanimous(file)
        /\ \A row : Mistaken(row)' <=> Mistaken(row)
    BY DEF Unanimous, Mistaken, Verdict
  <1>3. AgreementInv => AgreementInv'
    BY <1>2 DEF AgreementInv
  <1>4. QED
    BY <1>1, <1>3

\* A step that leaves the campaign alone leaves what is known of it.
LEMMA CampaignSame ==
    ASSUME UNCHANGED campaignVars
    PROVE  /\ ShellInv => ShellInv'
           /\ FilesInv => FilesInv'
           /\ TelemetryInv => TelemetryInv'
           /\ CollectInv => CollectInv'
           /\ SampleInv => SampleInv'
           /\ MeasuredInv => MeasuredInv'
           /\ ResultsInv => ResultsInv'
  <1> USE DEF campaignVars, inputs, session, shell, memory, poolVars
  <1>1. ShellInv => ShellInv'
    BY DEF ShellInv, LoadCorpus
  <1>2. FilesInv => FilesInv'
    BY DEF FilesInv, NothingOlder
  <1>3. TelemetryInv => TelemetryInv'
    BY DEF TelemetryInv
  <1>4. CollectInv => CollectInv'
    BY DEF CollectInv
  <1>5. SampleInv => SampleInv'
    BY DEF SampleInv
  <1>6. MeasuredInv => MeasuredInv'
    BY DEF MeasuredInv, ChooseTimeout, Solved, Ceiling
  <1>7. ResultsInv => ResultsInv'
    <2>1. \A instance : Passed(instance)' <=> Passed(instance)
      BY DEF Passed, Answers
    <2>2. \A k : Scheduled(k, Modes)' = Scheduled(k, Modes)
      BY DEF Scheduled
    <2>3. QED
      BY <2>1, <2>2 DEF ResultsInv
  <1>8. QED
    BY <1>1, <1>2, <1>3, <1>4, <1>5, <1>6, <1>7

LEMMA MeasurementNextInv ==
    /\ MeasurementInv /\ [MeasurementNext]_both => MeasurementInv'
    /\ Len(Seeds) = 1 /\ MeasurementInv /\ ResultsInv /\ [MeasurementNext]_both => ResultsInv'
  <1> SUFFICES ASSUME MeasurementInv, [MeasurementNext]_both
               PROVE  /\ MeasurementInv'
                      /\ Len(Seeds) = 1 /\ ResultsInv => ResultsInv'
    OBVIOUS
  <1>1. CASE HarnessNext /\ UNCHANGED campaignVars
    <2>1. AloneInv' /\ AgreementInv'
      BY <1>1, AloneNext, AgreementNext DEF MeasurementInv
    <2>2. QED
      BY <1>1, <2>1, CampaignSame DEF MeasurementInv
  <1>2. CASE CampaignNext /\ UNCHANGED harnessVars
    <2>1. AloneInv' /\ AgreementInv'
      BY <1>2, HarnessSame DEF MeasurementInv
    <2>2. ShellInv' /\ FilesInv' /\ TelemetryInv' /\ CollectInv'
      BY <1>2, ShellNext, FilesNext, TelemetryNext, CollectNext DEF MeasurementInv
    <2>3. SampleInv' /\ MeasuredInv'
      BY <1>2, SampleNext, MeasuredNext DEF MeasurementInv
    <2>4. Len(Seeds) = 1 /\ ResultsInv => ResultsInv'
      BY <1>2, ResultsNext DEF MeasurementInv
    <2>5. QED
      BY <2>1, <2>2, <2>3, <2>4 DEF MeasurementInv
  <1>3. CASE UNCHANGED <<campaignVars, harnessVars>>
    BY <1>3, HarnessSame, CampaignSame DEF MeasurementInv
  <1>4. QED
    BY <1>1, <1>2, <1>3 DEF MeasurementNext, RunHarness, RunCampaign, HarnessOver, both

LEMMA MeasurementInvAlways == MeasurementSpec => []MeasurementInv
  <1>1. MeasurementInit => MeasurementInv
    BY MeasurementInitInv
  <1>2. MeasurementInv /\ [MeasurementNext]_both => MeasurementInv'
    BY MeasurementNextInv
  <1>3. QED
    BY <1>1, <1>2, PTL DEF MeasurementSpec, both

(* Whatever the solvers do and whenever an interrupt comes: no run is      *)
(* measured next to the solver of an earlier one, and the harness leaves   *)
(* none behind unless it is interrupted.                                   *)
THEOREM NoStrays == MeasurementSpec => []RunsAlone
  <1>1. MeasurementInv => RunsAlone
    BY DEF MeasurementInv, AloneInv, RunsAlone
  <1>2. QED
    BY <1>1, MeasurementInvAlways, PTL

(* However often campaigns and telemetry passes are killed and started     *)
(* again, on whatever directories: where a campaign wrote, it wrote first. *)
THEOREM CampaignBeginsEmpty == MeasurementSpec => []NothingOlder
  <1>1. MeasurementInv => NothingOlder
    BY DEF MeasurementInv, FilesInv
  <1>2. QED
    BY <1>1, MeasurementInvAlways, PTL

(* For every number of workers and in whatever order the threads end: a    *)
(* pass of the pool that returns 0 has the row of every item at the        *)
(* item's place, as the sequential stage has.                              *)
THEOREM PoolKeepsOrder == MeasurementSpec => []PoolIsSequential
  <1>1. MeasurementInv => PoolIsSequential
    <2> SUFFICES ASSUME MeasurementInv, code = "0"
                 PROVE  /\ Len(telemetry) = Len(corpus)
                        /\ \A k \in DOMAIN corpus : telemetry[k].item = corpus[k]
      BY DEF PoolIsSequential
    <2>1. ShellInv /\ TelemetryInv
      BY DEF MeasurementInv
    <2>2. DOMAIN telemetry = DOMAIN corpus /\ Len(telemetry) = Len(corpus)
      BY <2>1, CorpusIs, ListIs DEF TelemetryInv
    <2>3. QED
      BY <2>1, <2>2 DEF TelemetryInv, IsRowOf
  <1>2. QED
    BY <1>1, MeasurementInvAlways, PTL

(* Nothing was calibrated or fitted on a file that the evaluation uses:    *)
(* the split goes by the hash of the content, the hash in the manifest was *)
(* compared with the file's, and every sample keeps to its split.          *)
THEOREM EvaluationIsHeldOut == MeasurementSpec => []HeldOut
  <1>1. MeasurementInv => HeldOut
    <2> SUFFICES ASSUME MeasurementInv, stage = "evaluation",
                        NEW k \in DOMAIN measured, NEW p \in DOMAIN pool,
                        measured[k].item.actual = pool[p].item.actual
                 PROVE  FALSE
      BY DEF HeldOut
    <2> USE DEF MainStages, Later
    <2>1. ShellInv /\ TelemetryInv /\ SampleInv /\ MeasuredInv
      BY DEF MeasurementInv
    <2>2. \A i \in DOMAIN telemetry :
            /\ telemetry[i].split = SplitOf(telemetry[i].item)
            /\ telemetry[i].item.actual = telemetry[i].item.sha256
      <3>1. DOMAIN telemetry = DOMAIN corpus
        BY <2>1, CorpusIs, ListIs DEF TelemetryInv
      <3>2. QED
        BY <2>1, <3>1 DEF TelemetryInv, SampleInv, IsRowOf
    <2>3. PICK i \in DOMAIN telemetry :
                 telemetry[i].split = "calibration" /\ measured[k].item = telemetry[i].item
      BY <2>1 DEF MeasuredInv, IsMeasured
    <2>4. PICK j \in DOMAIN telemetry : pool[p] = telemetry[j]
      BY <2>1 DEF SampleInv, Takes
    <2>5. telemetry[j].split = "evaluation"
      BY <2>1, <2>4 DEF SampleInv
    <2>6. telemetry[i].item.sha256 = telemetry[j].item.sha256
      BY <2>2, <2>3, <2>4
    <2>7. QED
      BY <2>2, <2>3, <2>5, <2>6 DEF SplitOf
  <1>2. QED
    BY <1>1, MeasurementInvAlways, PTL

LEMMA GridIs ==
    /\ IsFiniteSet(Range(TimeoutGrid)) /\ Range(TimeoutGrid) \subseteq Nat
    /\ Ceiling \in Range(TimeoutGrid) /\ \A t \in Range(TimeoutGrid) : t <= Ceiling
  <1> DEFINE grid == Range(TimeoutGrid)
  <1>1. TimeoutGrid \in Seq(Nat) /\ TimeoutGrid # <<>>
    BY CampaignAssumption
  <1>2. DOMAIN TimeoutGrid = 1 .. Len(TimeoutGrid) /\ Len(TimeoutGrid) \in Nat
    BY <1>1
  <1>3. grid = {TimeoutGrid[x] : x \in DOMAIN TimeoutGrid} /\ grid \subseteq Nat
    BY <1>1 DEF Range
  <1>4. IsFiniteSet(grid)
    <2>1. IsFiniteSet(DOMAIN TimeoutGrid)
      BY <1>2, IntervalFinite
    <2>2. IsFiniteSet({TimeoutGrid[x] : x \in DOMAIN TimeoutGrid})
      BY <2>1, ImageFinite
    <2>3. QED
      BY <1>3, <2>2
  <1>5. grid # {}
    <2>1. 1 \in DOMAIN TimeoutGrid
      BY <1>1, <1>2
    <2>2. QED
      BY <1>3, <2>1
  <1> HIDE DEF grid
  <1>6. grid \subseteq Int
    BY <1>3
  <1>7. Max(grid) \in grid /\ \A t \in grid : Max(grid) >= t
    BY <1>4, <1>5, <1>6, MaxIsThere
  <1>8. \A t \in grid : t <= Max(grid)
    BY <1>6, <1>7
  <1>9. QED
    BY <1>3, <1>4, <1>7, <1>8 DEF grid, Ceiling

\* What a direct run at the ceiling says of a smaller timeout.
LEMMA DirectRunIs ==
    ASSUME NEW file, IsFile(file), NEW solver \in {"cadical", "kissat"},
           NEW t \in Nat, NEW top \in Nat, t <= top
    PROVE  /\ DirectRun(file, solver, top).status \in Definite
              /\ DirectRun(file, solver, top).runtime <= t
           <=> file.engines[solver].says \in Definite /\ file.engines[solver].takes <= t
  <1> DEFINE clean == Sanitized(file)
             e == file.engines[solver]
  <1>1. ~clean.trailer /\ clean.engines = file.engines /\ e.takes \in Nat
    BY DEF IsFile, Sanitized
  <1>2. DirectRun(file, solver, top) = Under(top, e.takes, e.says)
    BY <1>1 DEF DirectRun, Baseline
  <1> HIDE DEF e
  <1>3. Under(top, e.takes, e.says)
          = IF e.takes > top THEN [status |-> "TIMEOUT", runtime |-> top]
            ELSE [status |-> e.says, runtime |-> e.takes]
    BY DEF Under, Ended
  <1>4. "TIMEOUT" \notin Definite
    BY DEF Definite
  <1>5. CASE e.takes > top
    BY <1>1, <1>2, <1>3, <1>4, <1>5 DEF e
  <1>6. CASE ~(e.takes > top)
    BY <1>1, <1>2, <1>3, <1>6 DEF e
  <1>7. QED
    BY <1>5, <1>6

LEMMA RuntimeIs ==
    ASSUME NEW file, IsFile(file), NEW solver \in {"cadical", "kissat"}, NEW top \in Nat
    PROVE  DirectRun(file, solver, top).runtime \in Int
  <1>1. /\ ~Sanitized(file).trailer /\ Sanitized(file).engines = file.engines
        /\ file.engines[solver].takes \in Nat
    BY DEF IsFile, Sanitized
  <1>2. QED
    BY <1>1 DEF DirectRun, Baseline, Under, Ended

(* The runs at the ceiling stand for those at every timeout of the grid:   *)
(* the one that is chosen is the smallest that loses at most two in a      *)
(* hundred, also when the runs were made again at it.                      *)
THEOREM ChosenTimeoutSuffices == MeasurementSpec => []TimeoutSuffices
  <1>1. MeasurementInv => TimeoutSuffices
    <2> DEFINE able(t) == {k \in DOMAIN measured :
                             LET e == FileOf(measured[k].item).engines[measured[k].solver]
                             IN  e.says \in Definite /\ e.takes <= t}
               fine(t) == 100 * Cardinality(Solved(t)) + 2 * Len(measured)
                            >= 100 * Cardinality(Solved(Ceiling))
               grid == Range(TimeoutGrid)
               good == {t \in grid : fine(t)}
    <2>1. SUFFICES ASSUME MeasurementInv, stage = "selector_fit", faults = 0
                   PROVE  \A t \in grid : (100 * Cardinality(able(t)) + 2 * Len(measured)
                                             >= 100 * Cardinality(able(Ceiling)))
                                          <=> t >= timeout
      BY DEF TimeoutSuffices
    <2>2. ShellInv /\ TelemetryInv /\ MeasuredInv
      BY <2>1 DEF MeasurementInv
    <2>3. /\ IsFiniteSet(grid) /\ grid \subseteq Nat
          /\ Ceiling \in grid /\ \A t \in grid : t <= Ceiling
      BY GridIs
    <2>4. ASSUME NEW k \in DOMAIN measured
          PROVE  /\ IsFile(FileOf(measured[k].item)) /\ measured[k].solver \in {"cadical", "kissat"}
                 /\ measured[k].run = DirectRun(FileOf(measured[k].item), measured[k].solver, Ceiling)
      <3>1. IsMeasured(measured[k], telemetry, profile, faults)
        BY <2>1, <2>2 DEF MeasuredInv, Later
      <3>2. PICK j \in DOMAIN telemetry : measured[k].item = telemetry[j].item
        BY <3>1 DEF IsMeasured
      <3>3. j \in DOMAIN corpus /\ telemetry[j].item = corpus[j]
        <4>1. /\ DOMAIN telemetry = 1 .. Len(telemetry) /\ Len(telemetry) \in Nat
              /\ DOMAIN corpus = 1 .. Len(corpus) /\ Len(corpus) \in Nat
              /\ Len(telemetry) <= Len(corpus)
          BY <2>2, CorpusIs, ListIs DEF TelemetryInv
        <4>2. j \in DOMAIN corpus
          BY <4>1
        <4>3. QED
          BY <2>2, <4>2 DEF TelemetryInv, IsRowOf
      <3>4. IsFile(FileOf(measured[k].item))
        BY <2>2, <3>2, <3>3, CorpusIs
      <3>5. QED
        BY <2>1, <3>1, <3>4 DEF IsMeasured, FileOf
    <2>5. ASSUME NEW t \in grid
          PROVE  Solved(t) = able(t)
      <3>1. t \in Nat /\ Ceiling \in Nat /\ t <= Ceiling
        BY <2>3
      <3> HIDE DEF grid
      <3>2. \A k \in DOMAIN measured :
              measured[k].run.status \in Definite /\ measured[k].run.runtime <= t
              <=> /\ FileOf(measured[k].item).engines[measured[k].solver].says \in Definite
                  /\ FileOf(measured[k].item).engines[measured[k].solver].takes <= t
        BY <2>4, <3>1, DirectRunIs
      <3>3. QED
        BY <3>2 DEF Solved
    <2>6. /\ Len(measured) \in Nat /\ IsFiniteSet(DOMAIN measured)
      BY <2>2, ListIs, IntervalFinite DEF MeasuredInv
    <2>7. ASSUME NEW t
          PROVE  IsFiniteSet(Solved(t)) /\ Cardinality(Solved(t)) \in Nat
      BY <2>6, FS_Subset, FS_CardinalityType DEF Solved
    <2>8. Ceiling \in good
      BY <2>3, <2>6, <2>7
    <2>9. timeout = Min(good)
      BY <2>1, <2>2 DEF MeasuredInv, ChooseTimeout
    <2>10. timeout \in good /\ \A t \in good : timeout <= t
      <3>1. good \in SUBSET grid /\ grid \subseteq Int
        BY <2>3
      <3> HIDE DEF good, grid
      <3>2. IsFiniteSet(good) /\ good # {} /\ good \subseteq Int
        BY <2>3, <2>8, <3>1, FS_Subset
      <3>3. QED
        BY <2>9, <3>2, MinIsThere
    <2>11. ASSUME NEW t \in grid, t >= timeout
           PROVE  fine(t)
      <3>1. timeout \in Nat /\ t \in Nat
        BY <2>3, <2>10
      <3>2. \A k \in Solved(timeout) : measured[k].run.runtime <= t
        <4>1. ASSUME NEW k \in Solved(timeout)
              PROVE  measured[k].run.runtime \in Int
          <5>1. k \in DOMAIN measured /\ measured[k].run.status \in Definite
            BY DEF Solved
          <5>2. QED
            BY <2>3, <2>4, <5>1, RuntimeIs
        <4>2. QED
          BY <2>11, <3>1, <4>1 DEF Solved
      <3>3. Solved(timeout) \subseteq Solved(t)
        BY <3>2 DEF Solved
      <3>4. Cardinality(Solved(timeout)) <= Cardinality(Solved(t))
        BY <2>7, <3>3, FS_Subset
      <3>5. fine(timeout)
        BY <2>10
      <3>6. QED
        BY <2>6, <2>7, <3>4, <3>5
    <2> HIDE DEF able
    <2>12. ASSUME NEW t \in grid
           PROVE  fine(t) <=> t >= timeout
      BY <2>3, <2>10, <2>11
    <2>13. QED
      BY <2>3, <2>5, <2>12
  <1>2. QED
    BY <1>1, MeasurementInvAlways, PTL

LEMMA PairFinite == \A a, b : IsFiniteSet({a, b})
  <1>1. SUFFICES ASSUME NEW a, NEW b
                 PROVE  IsFiniteSet({a, b})
    OBVIOUS
  <1>2. IsFiniteSet({a} \cup {b})
    BY FS_Singleton, FS_Union
  <1>3. {a, b} = {a} \cup {b}
    OBVIOUS
  <1>4. QED
    BY <1>2, <1>3

LEMMA AgreedIs ==
    ASSUME AgreementInv, returned = "0", NEW file \in DOMAIN cnfs
    PROVE  LET rows == Range(validated) \cup Range(measurements)
               statuses == {row.status : row \in {r \in rows : r.file = file}}
           IN  Cardinality(statuses \cap Certain) = 1
  <1> DEFINE told == {validated[k].status : k \in {k \in DOMAIN validated :
                                                     validated[k].file = file}}
             rows == Range(validated) \cup Range(measurements)
             statuses == {row.status : row \in {r \in rows : r.file = file}}
  <1>1. Cardinality(told) = 1 /\ told \subseteq Certain
    BY DEF AgreementInv, Unanimous
  <1>2. IsFiniteSet(told)
    <2>1. IsFiniteSet(Certain)
      BY PairFinite DEF Certain
    <2>2. QED
      BY <1>1, <2>1, FS_Subset
  <1>3. PICK v : told = {v}
    BY <1>1, <1>2, FS_Singleton
  <1>4. v \in Certain
    BY <1>1, <1>3
  <1>5. PICK j \in DOMAIN validated : validated[j].file = file /\ validated[j].status = v
    BY <1>3
  <1>6. \A k \in DOMAIN validated : validated[k].file = file => validated[k].status = v
    BY <1>3
  <1>7. Verdict(file) = v
    BY <1>4, <1>5, <1>6 DEF Verdict
  <1>8. \A k \in DOMAIN measurements :
          measurements[k].file = file /\ measurements[k].status \in Certain
            => measurements[k].status = v
    BY <1>7 DEF AgreementInv, Mistaken
  <1>9. v \in statuses
    <2>1. validated[j] \in rows
      BY <1>5 DEF Range
    <2>2. QED
      BY <1>5, <2>1
  <1>10. \A r \in rows : r.file = file /\ r.status \in Certain => r.status = v
    BY <1>6, <1>8 DEF Range
  <1> HIDE DEF rows
  <1>11. statuses \cap Certain = {v}
    BY <1>4, <1>9, <1>10
  <1> HIDE DEF statuses
  <1>12. Cardinality({v}) = 1
    BY FS_Singleton
  <1>13. Cardinality(statuses \cap Certain) = 1
    BY <1>11, <1>12
  <1>14. QED
    BY <1>13 DEF statuses, rows

\* With one answer for a mode, the comparison sees all of them.
LEMMA AnswersAre ==
    ASSUME ShellInv, ResultsInv, NEW instance
    PROVE  Answers(instance)
             = {results[k].run.status : k \in {j \in DOMAIN results :
                                                 results[j].item.instance = instance}}
  <1> DEFINE runs == {k \in DOMAIN results : results[k].item.instance = instance}
             last(mode) == Max({k \in runs : results[k].mode = mode})
  <1>1. DOMAIN results \subseteq Int /\ IsFiniteSet(DOMAIN results)
    <2>1. Listed(results)
      BY DEF ResultsInv
    <2>2. DOMAIN results = 1 .. Len(results) /\ Len(results) \in Nat
      BY <2>1, ListIs
    <2>3. QED
      BY <2>2, IntervalFinite
  <1>2. \A j, k \in runs : results[j].item = results[k].item
    BY ItemsDiffer DEF ResultsInv
  <1>3. ASSUME NEW k \in runs
        PROVE  last(results[k].mode) = k
    <2> DEFINE S == {j \in runs : results[j].mode = results[k].mode}
    <2>1. S = {k}
      BY <1>2 DEF ResultsInv
    <2>2. S \in SUBSET DOMAIN results /\ S # {}
      BY <2>1
    <2> HIDE DEF S
    <2>3. IsFiniteSet(S) /\ S \subseteq Int
      BY <1>1, <2>2, FS_Subset
    <2>4. Max(S) \in S
      BY <2>2, <2>3, MaxIsThere
    <2>5. Max(S) = k
      BY <2>1, <2>4
    <2>6. QED
      BY <2>5 DEF S
  <1>4. Answers(instance)
          = {results[last(mode)].run.status : mode \in {results[k].mode : k \in runs}}
    BY DEF Answers
  <1> HIDE DEF last
  <1>5. {results[last(mode)].run.status : mode \in {results[k].mode : k \in runs}}
          = {results[k].run.status : k \in runs}
    BY <1>3
  <1>6. QED
    BY <1>4, <1>5

LEMMA AtMostOne ==
    ASSUME NEW S, IsFiniteSet(S), Cardinality(S) <= 1, NEW s \in S
    PROVE  S = {s}
  <1>1. Cardinality(S) \in Nat /\ (Cardinality(S) = 0 <=> S = {})
    BY FS_CardinalityType, FS_EmptySet
  <1>2. Cardinality(S) = 1
    BY <1>1
  <1>3. PICK x : S = {x}
    BY <1>2, FS_Singleton
  <1>4. QED
    BY <1>3

LEMMA PassedIsRight ==
    ASSUME ShellInv, ResultsInv, NEW i \in DOMAIN results, Passed(results[i].item.instance)
    PROVE  LET item == results[i].item
               seen == {j \in DOMAIN results : results[j].item = item}
               statuses == {results[j].run.status : j \in seen} \cup {item.declared}
           IN  FileOf(item).truth \in statuses => statuses \cap Definite = {FileOf(item).truth}
  <1> DEFINE item == results[i].item
             runs == {j \in DOMAIN results : results[j].item.instance = item.instance}
             seen == {j \in DOMAIN results : results[j].item = item}
             told == {results[j].run.status : j \in seen}
             definite == told \cap Definite
             truth == FileOf(item).truth
  <1>1. \A j \in DOMAIN results : \E c \in DOMAIN corpus : results[j].item = corpus[c]
    BY DEF ResultsInv
  <1>2. runs = seen
    BY <1>1, ItemsDiffer
  <1>3. Answers(item.instance) = told
    BY <1>2, AnswersAre
  <1>4. truth \in Definite
    BY <1>1, CorpusIs DEF IsFile
  <1>5. results[Min(runs)].item = item
    <2>1. runs \in SUBSET DOMAIN results /\ i \in runs
      OBVIOUS
    <2>2. DOMAIN results \subseteq Int /\ IsFiniteSet(DOMAIN results)
      <3>1. DOMAIN results = 1 .. Len(results) /\ Len(results) \in Nat
        BY ListIs DEF ResultsInv
      <3>2. QED
        BY <3>1, IntervalFinite
    <2> HIDE DEF runs, seen
    <2>3. IsFiniteSet(runs) /\ runs \subseteq Int /\ runs # {}
      BY <2>1, <2>2, FS_Subset
    <2>4. Min(runs) \in seen
      BY <1>2, <2>3, MinIsThere
    <2>5. QED
      BY <2>4 DEF seen
  <1>6. /\ Cardinality(definite) <= 1
        /\ ~(item.declared \in Definite /\ definite # {} /\ item.declared \notin definite)
    <2>1. Passed(item.instance)
      OBVIOUS
    <2>2. QED
      BY <1>3, <1>5, <2>1 DEF Passed
  <1>7. IsFiniteSet(definite)
    <2>1. IsFiniteSet(Definite)
      BY PairFinite DEF Definite
    <2>2. QED
      BY <2>1, FS_Subset
  <1> HIDE DEF told, truth, item
  <1>8. ASSUME NEW s \in definite
        PROVE  definite = {s}
    BY <1>6, <1>7, <1>8, AtMostOne
  <1>9. ASSUME truth \in told \cup {item.declared}
        PROVE  (told \cup {item.declared}) \cap Definite = {truth}
    <2>1. CASE truth \in told
      <3>1. definite = {truth}
        BY <1>4, <1>8, <2>1
      <3>2. QED
        BY <1>4, <1>6, <3>1
    <2>2. CASE truth = item.declared /\ definite = {}
      BY <1>4, <2>2
    <2>3. CASE truth = item.declared /\ definite # {}
      <3>1. truth \in definite
        BY <1>4, <1>6, <2>3
      <3>2. definite = {truth}
        BY <1>8, <3>1
      <3>3. QED
        BY <1>4, <2>3, <3>2
    <2>4. QED
      BY <1>9, <2>1, <2>2, <2>3
  <1>10. QED
    BY <1>9 DEF told, truth, item

(* With the one evaluation seed of the configuration: a campaign that ends *)
(* with 0 reports no wrong answer to an instance that any mode answered    *)
(* rightly, or whose answer the manifest declares; a harness that ends     *)
(* with 0 reports one answer for every file.                               *)
THEOREM NoWrongAnswerPasses ==
    ASSUME Len(Seeds) = 1
    PROVE  MeasurementSpec => []CleanExitIsRight
  <1>1. MeasurementInit => MeasurementInv /\ ResultsInv
    BY MeasurementInitInv
  <1>2. MeasurementInv /\ ResultsInv /\ [MeasurementNext]_both => (MeasurementInv /\ ResultsInv)'
    BY MeasurementNextInv
  <1>3. MeasurementInv /\ ResultsInv => CleanExitIsRight
    <2> SUFFICES ASSUME MeasurementInv, ResultsInv
                 PROVE  CleanExitIsRight
      OBVIOUS
    <2>1. ShellInv /\ AgreementInv
      BY DEF MeasurementInv
    <2>2. ASSUME code = "0", NEW k \in DOMAIN results
          PROVE  LET item == results[k].item
                     seen == {j \in DOMAIN results : results[j].item = item}
                     statuses == {results[j].run.status : j \in seen} \cup {item.declared}
                 IN  FileOf(item).truth \in statuses
                       => statuses \cap Definite = {FileOf(item).truth}
      <3>1. Passed(results[k].item.instance)
        BY <2>2 DEF ResultsInv
      <3>2. QED
        BY <2>1, <3>1, PassedIsRight
    <2>3. ASSUME returned = "0", NEW file \in DOMAIN cnfs
          PROVE  LET rows == Range(validated) \cup Range(measurements)
                     statuses == {row.status : row \in {r \in rows : r.file = file}}
                 IN  Cardinality(statuses \cap Certain) = 1
      BY <2>1, <2>3, AgreedIs
    <2>4. QED
      BY <2>2, <2>3, Zenon DEF CleanExitIsRight
  <1>4. QED
    BY <1>1, <1>2, <1>3, PTL DEF MeasurementSpec, both

---------------------------------------------------------------------------
(* The offline verification of lemmas: what it collects is well formed.   *)

\* The formula and the document stay those of one pair.
Chosen == \E d \in Documents : cnf = d[1] /\ doc = d[2]

Typed == TypeOK /\ Chosen

(* What DocumentsAssumption says of the document being verified. *)
LEMMA DocumentTyped ==
    ASSUME Chosen
    PROVE  /\ IsList(doc.database)
           /\ \A i \in DOMAIN doc.database :
                /\ doc.database[i].clause \in SUBSET Literal
                /\ IsFiniteSet(doc.database[i].clause)
           /\ IsList(doc.lemmas)
           /\ \A i \in DOMAIN doc.lemmas :
                /\ doc.lemmas[i].clause \in SUBSET Literal
                /\ IsFiniteSet(doc.lemmas[i].clause)
           /\ IsList(doc.boxes)
           /\ \A b \in DOMAIN doc.boxes :
                /\ doc.boxes[b].group \in SUBSET Literal
                /\ IsFiniteSet(doc.boxes[b].group)
                /\ doc.boxes[b].demand \in Int
           /\ IsList(doc.resources)
           /\ \A r \in DOMAIN doc.resources :
                /\ doc.resources[r].group \in SUBSET Literal
                /\ IsFiniteSet(doc.resources[r].group)
                /\ doc.resources[r].capacity \in Int
  <1>1. PICK d \in Documents : cnf = d[1] /\ doc = d[2]
    BY DEF Chosen
  <1>2. QED
    BY <1>1, DocumentsAssumption

(* A record or lemma that as_clause lets pass is a clause. *)
LEMMA PassingClauses ==
    ASSUME Typed
    PROVE  /\ Replaying /\ ~Tautology(Record.clause) => Record.clause \in Clause
           /\ Judging /\ ~Tautology(Lemma.clause) => Lemma.clause \in Clause
  <1>1. ASSUME Replaying, ~Tautology(Record.clause)
        PROVE  Record.clause \in Clause
    <2>1. at + 1 \in DOMAIN doc.database
      BY <1>1, DocumentTyped DEF Typed, TypeOK, Replaying, IsList
    <2>2. QED
      BY <1>1, <2>1, DocumentTyped DEF Typed, Record, Clause
  <1>2. ASSUME Judging, ~Tautology(Lemma.clause)
        PROVE  Lemma.clause \in Clause
    <2>1. at + 1 \in DOMAIN doc.lemmas
      BY <1>2, DocumentTyped DEF Typed, TypeOK, Judging, IsList
    <2>2. QED
      BY <1>2, <2>1, DocumentTyped DEF Typed, Lemma, Clause
  <1>3. QED
    BY <1>1, <1>2

(* The first state is well formed. *)
LEMMA TypedInit == Init => Typed
  BY DEF Init, Fresh, Typed, TypeOK, Chosen

(* Every action keeps the state well formed. *)
LEMMA TypedNext == Typed /\ [Next]_docVars => Typed'
  <1> SUFFICES ASSUME Typed, [Next]_docVars
               PROVE  Typed'
    OBVIOUS
  <1> USE DEF Typed, TypeOK, Chosen, subject, replayed, familied, verdicts
  <1>1. CASE UNCHANGED docVars
    BY <1>1 DEF docVars
  <1>2. ASSUME Raise
        PROVE  Typed'
    BY <1>2 DEF Raise
  <1>3. ASSUME NEW s \in {"replay", "boxes", "resources", "lemmas", "done"}, Proceed(s)
        PROVE  Typed'
    BY <1>3 DEF Proceed
  <1>4. CASE Parsed \/ ReplayDone \/ BoxesDone \/ ResourcesDone \/ LemmasDone
    BY <1>3, <1>4 DEF Parsed, ReplayDone, BoxesDone, ResourcesDone, LemmasDone
  <1>5. CASE \/ RaiseOnFormula \/ RaiseOnRecord \/ RaiseOnBox
             \/ RaiseOnResource \/ RaiseOnLemma
    BY <1>2, <1>5 DEF RaiseOnFormula, RaiseOnRecord, RaiseOnBox, RaiseOnResource, RaiseOnLemma
  <1>6. CASE VerificationBudget
    BY <1>2, <1>3, <1>6 DEF VerificationBudget
  <1>7. CASE ProveRecord
    <2>1. Record.clause \in Clause
      BY <1>7, PassingClauses DEF ProveRecord
    <2>2. proven' = proven \cup {Record.clause}
      BY <1>7 DEF ProveRecord
    <2>3. UNCHANGED <<cnf, doc, pc, replayErrors, supported, familyErrors, accepted, refuted>>
      BY <1>7 DEF ProveRecord
    <2>4. at' = at + 1
      BY <1>7 DEF ProveRecord
    <2>5. QED
      BY <2>1, <2>2, <2>3, <2>4
  <1>8. CASE ComplainAboutRecord
    BY <1>8 DEF ComplainAboutRecord
  <1>9. ASSUME NEW required, NEW name, JudgeFamily(required, name), at' = at + 1,
               UNCHANGED <<subject, pc, replayed, verdicts>>
        PROVE  Typed'
    BY <1>9 DEF JudgeFamily
  <1>10. CASE JudgeBox \/ JudgeResource
    BY <1>9, <1>10 DEF JudgeBox, JudgeResource
  <1>11. CASE AcceptLemma
    <2>1. Lemma.clause \in Clause
      BY <1>11, PassingClauses DEF AcceptLemma
    <2>2. accepted' = accepted \cup {Lemma.clause}
      BY <1>11 DEF AcceptLemma
    <2>3. UNCHANGED <<cnf, doc, pc, proven, replayErrors, supported, familyErrors, refuted>>
      BY <1>11 DEF AcceptLemma
    <2>4. at' = at + 1
      BY <1>11 DEF AcceptLemma
    <2>5. QED
      BY <2>1, <2>2, <2>3, <2>4
  <1>12. CASE RejectLemma
    BY <1>12 DEF RejectLemma
  <1>13. CASE RefuteLemma
    BY <1>13 DEF RefuteLemma
  <1>14. QED
    BY <1>1, <1>4, <1>5, <1>6, <1>7, <1>8, <1>10, <1>11, <1>12, <1>13
       DEF Next, Verify, Done

LEMMA AlwaysTyped == Spec => []Typed
  BY TypedInit, TypedNext, PTL DEF Spec

(* What the verifier collects are clauses, and the clauses of the families *)
(* it supports are proven ones, whatever the document holds.               *)
THEOREM TypeCorrect == Spec => []TypeOK
  BY AlwaysTyped, PTL DEF Typed

---------------------------------------------------------------------------
(* The replay. *)

\* Implied, over assignments to any set of variables.
Follows(C) == \A A : SatisfiesAll(A, ClausesOf(cnf)) => Satisfies(A, C)

(* Without a complaint so far, all records that were looked at are proven, *)
(* so that the parents of the next one, although they are looked up in the *)
(* document, are consequences of the CNF.                                  *)
CleanInv ==
    replayErrors = {} =>
        /\ \A C \in proven : Follows(C)
        /\ pc = "replay" => \A i \in 1 .. at : doc.database[i].clause \in proven

(* A record that is rederived from proven parents follows from the CNF. *)
LEMMA RederivedFollows ==
    ASSUME Typed, Replaying, Rederived(Record),
           \A C \in proven : Follows(C),
           \A i \in 1 .. at : doc.database[i].clause \in proven
    PROVE  Follows(Record.clause)
  <1> DEFINE r == Record
  <1> SUFFICES ASSUME NEW A, SatisfiesAll(A, ClausesOf(cnf))
               PROVE  Satisfies(A, r.clause)
    BY DEF Follows
  <1>1. CASE r.clause \in ClausesOf(cnf)
    BY <1>1 DEF SatisfiesAll
  <1>2. CASE IsResolvent(r)
    <2> DEFINE a == doc.database[r.parentA].clause
               b == doc.database[r.parentB].clause
    <2>1. a \in proven /\ b \in proven
      BY <1>2 DEF IsResolvent
    <2>2. a \in Clause /\ b \in Clause
      BY <2>1 DEF Typed, TypeOK
    <2>3. Satisfies(A, a) /\ Satisfies(A, b)
      BY <2>1 DEF Follows
    <2>4. r.pivot \in a /\ r.clause = Resolvent(a, b, r.pivot)
      BY <1>2 DEF IsResolvent
    <2>5. r.pivot \in Literal
      BY <2>2, <2>4 DEF Clause
    <2>6. QED
      BY <2>2, <2>3, <2>4, <2>5, ResolventHolds DEF Clause
  <1>3. QED
    BY <1>1, <1>2 DEF Rederived

(* Only the replay touches what is proven and the complaints about it, and *)
(* it begins at the first record.                                          *)
LEMMA ReplayOnly ==
    ASSUME Typed, [Next]_docVars, ~ProveRecord, ~ComplainAboutRecord
    PROVE  /\ UNCHANGED <<cnf, doc, proven, replayErrors>>
           /\ pc' = "replay" => at' = 0 \/ (pc = "replay" /\ at' = at)
  BY DEF Next, Verify, Done, docVars, subject, replayed, familied, verdicts, Raise, Proceed,
         Parsed, RaiseOnFormula, RaiseOnRecord, ReplayDone, JudgeBox, RaiseOnBox, BoxesDone,
         JudgeResource, RaiseOnResource, ResourcesDone, RaiseOnLemma, AcceptLemma, RejectLemma,
         RefuteLemma, VerificationBudget, LemmasDone, Judging, Boxing, Resourcing

(* Every step keeps what is proven among the consequences of the CNF. *)
LEMMA CleanNext == Typed /\ CleanInv /\ [Next]_docVars => CleanInv'
  <1> SUFFICES ASSUME Typed, CleanInv, [Next]_docVars, replayErrors' = {}
               PROVE  /\ \A C \in proven' : Follows(C)'
                      /\ pc' = "replay" =>
                           \A i \in 1 .. at' : doc'.database[i].clause \in proven'
    BY DEF CleanInv
  <1>1. CASE ProveRecord
    <2>1. /\ cnf' = cnf /\ doc' = doc /\ replayErrors = {} /\ pc = "replay"
          /\ at' = at + 1 /\ proven' = proven \cup {Record.clause}
      BY <1>1 DEF ProveRecord, Replaying, subject
    <2>2. /\ \A C \in proven : Follows(C)
          /\ \A i \in 1 .. at : doc.database[i].clause \in proven
      BY <2>1 DEF CleanInv
    <2>3. Follows(Record.clause)
      BY <1>1, <2>2, RederivedFollows DEF ProveRecord
    <2>4. \A C \in proven' : Follows(C)'
      BY <2>1, <2>2, <2>3 DEF Follows
    <2>5. ASSUME NEW i \in 1 .. at'
          PROVE  doc'.database[i].clause \in proven'
      BY <2>1, <2>2 DEF Record, Typed, TypeOK
    <2>6. QED
      BY <2>4, <2>5
  <1>2. CASE ComplainAboutRecord
    BY <1>2 DEF ComplainAboutRecord
  <1>3. CASE ~ProveRecord /\ ~ComplainAboutRecord
    <2>1. /\ cnf' = cnf /\ doc' = doc /\ proven' = proven /\ replayErrors = {}
          /\ pc' = "replay" => at' = 0 \/ (pc = "replay" /\ at' = at)
      BY <1>3, ReplayOnly
    <2>2. \A C \in proven' : Follows(C)'
      BY <2>1 DEF CleanInv, Follows
    <2>3. QED
      BY <2>1, <2>2 DEF CleanInv
  <1>4. QED
    BY <1>1, <1>2, <1>3

LEMMA AlwaysClean == Spec => []CleanInv
  <1>1. Init => CleanInv
    BY DEF Init, Fresh, CleanInv
  <1>2. QED
    BY <1>1, CleanNext, AlwaysTyped, PTL DEF Spec

(* Without a complaint, every clause the replay returns follows from the   *)
(* CNF, whoever wrote the document.                                        *)
THEOREM CleanReplay == Spec => []CleanReplayProves
  <1>1. CleanInv => CleanReplayProves
    BY DEF CleanInv, Follows, CleanReplayProves, Implied, Entails
  <1>2. QED
    BY <1>1, AlwaysClean, PTL

---------------------------------------------------------------------------
(* The families. *)

BoxHeld(b) ==
    ~BoxRaises(doc.boxes[b]) /\ ExactRFamily(doc.boxes[b].group, doc.boxes[b].demand) \subseteq proven

ResourceHeld(r) ==
    /\ ~ResourceRaises(doc.resources[r])
    /\ CapacityFamily(doc.resources[r].group, doc.resources[r].capacity) \subseteq proven

(* Without a complaint so far, all families that were looked at are held.  *)
FamilyInv ==
    familyErrors = {} =>
        /\ pc = "boxes" => \A b \in 1 .. at : BoxHeld(b)
        /\ pc \in {"resources", "lemmas"} => \A b \in DOMAIN doc.boxes : BoxHeld(b)
        /\ pc = "resources" => \A r \in 1 .. at : ResourceHeld(r)
        /\ pc = "lemmas" => \A r \in DOMAIN doc.resources : ResourceHeld(r)

(* Once the replay is over, what is proven stays. *)
LEMMA FamilyNext == Typed /\ FamilyInv /\ [Next]_docVars => FamilyInv'
  <1> SUFFICES ASSUME Typed, FamilyInv, [Next]_docVars, familyErrors' = {}
               PROVE  FamilyInv'
    BY DEF FamilyInv
  <1> USE DEF subject, replayed, familied, verdicts
  <1>0. /\ at \in Nat
        /\ DOMAIN doc.boxes = 1 .. Len(doc.boxes)
        /\ DOMAIN doc.resources = 1 .. Len(doc.resources)
    BY DocumentTyped DEF Typed, TypeOK, IsList
  <1>1. ASSUME doc' = doc, proven' = proven
        PROVE  /\ \A b : BoxHeld(b) <=> BoxHeld(b)'
               /\ \A r : ResourceHeld(r) <=> ResourceHeld(r)'
    BY <1>1 DEF BoxHeld, ResourceHeld
  <1>2. CASE JudgeBox
    <2>1. /\ pc = "boxes" /\ pc' = pc /\ at' = at + 1 /\ doc' = doc /\ proven' = proven
          /\ familyErrors = {} /\ BoxHeld(at + 1)
      BY <1>2 DEF JudgeBox, Boxing, JudgeFamily, BoxHeld
    <2>2. \A b \in 1 .. at' : BoxHeld(b)
      BY <1>0, <2>1 DEF FamilyInv
    <2>3. QED
      BY <1>1, <2>1, <2>2 DEF FamilyInv
  <1>3. CASE JudgeResource
    <2>1. /\ pc = "resources" /\ pc' = pc /\ at' = at + 1 /\ doc' = doc /\ proven' = proven
          /\ familyErrors = {} /\ ResourceHeld(at + 1)
      BY <1>3 DEF JudgeResource, Resourcing, JudgeFamily, ResourceHeld
    <2>2. \A r \in 1 .. at' : ResourceHeld(r)
      BY <1>0, <2>1 DEF FamilyInv
    <2>3. QED
      BY <1>1, <2>1, <2>2 DEF FamilyInv
  <1>4. CASE BoxesDone
    BY <1>0, <1>1, <1>4 DEF BoxesDone, Proceed, FamilyInv
  <1>5. CASE ResourcesDone
    BY <1>0, <1>1, <1>5 DEF ResourcesDone, Proceed, FamilyInv
  <1>6. CASE ReplayDone \/ Parsed \/ LemmasDone
    BY <1>6 DEF ReplayDone, Parsed, LemmasDone, Proceed, FamilyInv
  <1>7. CASE ProveRecord \/ ComplainAboutRecord
    BY <1>7 DEF ProveRecord, ComplainAboutRecord, Replaying, FamilyInv
  <1>8. CASE AcceptLemma \/ RejectLemma \/ RefuteLemma
    BY <1>1, <1>8 DEF AcceptLemma, RejectLemma, RefuteLemma, Judging, FamilyInv
  <1>9. CASE Raise
    BY <1>9 DEF Raise, FamilyInv
  <1>10. CASE UNCHANGED docVars
    BY <1>1, <1>10 DEF docVars, FamilyInv
  <1>11. CASE VerificationBudget
    BY <1>9, <1>11 DEF VerificationBudget, Proceed, FamilyInv
  <1>12. QED
    BY <1>2, <1>3, <1>4, <1>5, <1>6, <1>7, <1>8, <1>9, <1>10, <1>11
       DEF Next, Verify, Done, RaiseOnFormula, RaiseOnRecord, RaiseOnBox, RaiseOnResource,
           RaiseOnLemma

LEMMA AlwaysHeld == Spec => []FamilyInv
  <1>1. Init => FamilyInv
    BY DEF Init, Fresh, FamilyInv
  <1>2. QED
    BY <1>1, FamilyNext, AlwaysTyped, PTL DEF Spec

(* In every model of the CNF, a box that is held has as many true literals *)
(* as it demands, and a resource no more than its capacity.                *)
LEMMA HeldBounds ==
    ASSUME Typed, \A C \in proven : Follows(C), NEW A, SatisfiesAll(A, ClausesOf(cnf))
    PROVE  /\ \A b \in DOMAIN doc.boxes : BoxHeld(b) =>
                Count(A, doc.boxes[b].group) = doc.boxes[b].demand
           /\ \A r \in DOMAIN doc.resources : ResourceHeld(r) =>
                Count(A, doc.resources[r].group) <= doc.resources[r].capacity
  <1>1. \A C \in proven : Satisfies(A, C)
    BY DEF Follows
  <1>2. ASSUME NEW b \in DOMAIN doc.boxes, BoxHeld(b)
        PROVE  Count(A, doc.boxes[b].group) = doc.boxes[b].demand
    <2> DEFINE g == doc.boxes[b].group
               d == doc.boxes[b].demand
    <2>1. g \in SUBSET Literal /\ IsFiniteSet(g) /\ d \in Int
      BY DocumentTyped DEF Typed
    <2>2. d >= -1 /\ d <= Cardinality(g) + 1
      BY <1>2, <2>1, FS_CardinalityType DEF BoxHeld, BoxRaises
    <2>3. /\ \A C \in Combinations(g, d + 1, -1) : Satisfies(A, C)
          /\ \A C \in Combinations(g, Cardinality(g) - d + 1, 1) : Satisfies(A, C)
      BY <1>1, <1>2 DEF BoxHeld, ExactRFamily
    <2>4. Count(A, g) \in Nat
      BY <2>1, CountType
    <2> HIDE DEF g, d
    <2>5. Count(A, g) <= d /\ Count(A, g) >= d
      BY <2>1, <2>2, <2>3, UpperBoundHolds, LowerBoundHolds
    <2>6. Count(A, g) = d
      BY <2>1, <2>4, <2>5
    <2>7. QED
      BY <2>6 DEF g, d
  <1>3. ASSUME NEW r \in DOMAIN doc.resources, ResourceHeld(r)
        PROVE  Count(A, doc.resources[r].group) <= doc.resources[r].capacity
    <2> DEFINE g == doc.resources[r].group
               c == doc.resources[r].capacity
    <2>1. g \in SUBSET Literal /\ IsFiniteSet(g) /\ c \in Int
      BY DocumentTyped DEF Typed
    <2>2. c >= -1
      BY <1>3, <2>1 DEF ResourceHeld, ResourceRaises
    <2>3. \A C \in Combinations(g, c + 1, -1) : Satisfies(A, C)
      BY <1>1, <1>3 DEF ResourceHeld, CapacityFamily
    <2>4. QED
      BY <2>1, <2>2, <2>3, UpperBoundHolds
  <1>4. QED
    BY <1>2, <1>3

---------------------------------------------------------------------------
(* The structural checks. *)

LEMMA LeftAfter ==
    ASSUME NEW S, IsFiniteSet(S), NEW T \in SUBSET S
    PROVE  /\ IsFiniteSet(S \ T)
           /\ Cardinality(S \ T) = Cardinality(S) - Cardinality(T)
  <1>1. S \cap T = T
    OBVIOUS
  <1>2. QED
    BY <1>1, FS_Difference

(* A variable of a rebuilt box is held by the box that owns it and by the  *)
(* resource that is drawn from, as long as no two resources share an id.   *)
LEMMA HoldingGroups ==
    ASSUME Typed, OneIdEach
    PROVE  /\ \A b \in Rebuilt : \A v \in doc.boxes[b].group :
                /\ Charged(v) \in UsedResources
                /\ v \in doc.resources[Charged(v)].group
                /\ doc.resources[Charged(v)].id = Cover(v)
           /\ \A v \in RebuiltVariables :
                Owner(v) \in Rebuilt /\ v \in doc.boxes[Owner(v)].group
           /\ IsFiniteSet(Rebuilt) /\ Rebuilt \subseteq DOMAIN doc.boxes
           /\ IsFiniteSet(RebuiltVariables)
  <1>1. /\ DOMAIN doc.boxes = 1 .. Len(doc.boxes) /\ Len(doc.boxes) \in Nat
        /\ DOMAIN doc.resources = 1 .. Len(doc.resources) /\ Len(doc.resources) \in Nat
    BY DocumentTyped DEF Typed, IsList
  <1>2. IsFiniteSet(DOMAIN doc.boxes) /\ IsFiniteSet(DOMAIN doc.resources)
    <2>1. \A n \in Nat : IsFiniteSet(1 .. n)
      BY IntervalFinite
    <2> DEFINE n == Len(doc.boxes)
               m == Len(doc.resources)
    <2>2. n \in Nat /\ m \in Nat /\ DOMAIN doc.boxes = 1 .. n /\ DOMAIN doc.resources = 1 .. m
      BY <1>1
    <2> HIDE DEF n, m
    <2>3. IsFiniteSet(1 .. n) /\ IsFiniteSet(1 .. m)
      BY <2>1, <2>2, Zenon
    <2>4. QED
      BY <2>2, <2>3, Zenon
  <1>3. IsFiniteSet(Rebuilt) /\ Rebuilt \subseteq DOMAIN doc.boxes
    BY <1>2, FS_Subset DEF Rebuilt
  <1>4. ASSUME NEW b \in Rebuilt, NEW v \in doc.boxes[b].group
        PROVE  /\ Charged(v) \in UsedResources
               /\ v \in doc.resources[Charged(v)].group
               /\ doc.resources[Charged(v)].id = Cover(v)
    <2> DEFINE H == Holding(doc.resources, v)
               last == Max(H)
    <2>1. H # {}
      BY DEF Rebuilt, Survives
    <2>2. H \subseteq DOMAIN doc.resources /\ H \subseteq Int
      BY <1>1 DEF Holding
    <2>3. last \in H
      BY <1>2, <2>1, <2>2, FS_Subset, MaxIsThere
    <2>4. /\ last \in DOMAIN doc.resources /\ last \in Int
          /\ v \in doc.resources[last].group /\ doc.resources[last].id = Cover(v)
      BY <2>2, <2>3 DEF Cover, Holding
    <2> HIDE DEF last
    <2>5. {r \in DOMAIN doc.resources : doc.resources[r].id = Cover(v)} = {last}
      BY <2>4 DEF OneIdEach
    <2>6. Max({last}) \in {last}
      BY <2>4, FS_Singleton, MaxIsThere
    <2>7. Charged(v) = last
      BY <2>5, <2>6 DEF Charged
    <2>8. QED
      BY <2>4, <2>7 DEF UsedResources, RebuiltVariables
  <1>5. ASSUME NEW v \in RebuiltVariables
        PROVE  Owner(v) \in Rebuilt /\ v \in doc.boxes[Owner(v)].group
    <2> DEFINE H == Holding(doc.boxes, v) \cap Rebuilt
    <2>1. H # {} /\ H \subseteq Rebuilt /\ H \subseteq Int
      BY <1>1, <1>3 DEF RebuiltVariables, Holding
    <2>2. IsFiniteSet(H)
      BY <1>3, <2>1, FS_Subset
    <2> HIDE DEF H
    <2>3. Max(H) \in H
      BY <2>1, <2>2, MaxIsThere
    <2>4. QED
      BY <2>3 DEF Owner, Holding, H
  <1>6. IsFiniteSet(RebuiltVariables)
    <2> DEFINE F == [b \in Rebuilt |-> doc.boxes[b].group]
    <2>1. \A b \in Rebuilt : IsFiniteSet(F[b])
      BY <1>3, DocumentTyped DEF Typed
    <2>2. RebuiltVariables = UNION {F[b] : b \in Rebuilt}
      BY DEF RebuiltVariables
    <2> HIDE DEF F
    <2>3. QED
      BY <1>3, <2>1, <2>2, UnionIsBounded
  <1>7. QED
    BY <1>3, <1>4, <1>5, <1>6

\* All families of the document hold, and no two boxes share a variable.
Sound(A) ==
    /\ \A b \in DOMAIN doc.boxes : Count(A, doc.boxes[b].group) = doc.boxes[b].demand
    /\ \A r \in DOMAIN doc.resources :
         Count(A, doc.resources[r].group) <= doc.resources[r].capacity
    /\ \A b, c \in DOMAIN doc.boxes :
         b # c => doc.boxes[b].group \cap doc.boxes[c].group = {}

(* What a true support takes from a box or a resource leaves it enough.    *)
LEMMA Remaining ==
    ASSUME Typed, OneIdEach, NEW A, Sound(A), NEW S \in SUBSET RebuiltVariables,
           \A v \in S : LiteralTrue(A, v)
    PROVE  /\ \A b \in Rebuilt :
                LET left == {l \in doc.boxes[b].group :
                               LiteralTrue(A, l) /\ ~(l \in S /\ Owner(l) = b)}
                IN  IsFiniteSet(left) /\ RemainingDemand(b, S) = Cardinality(left)
           /\ \A r \in DOMAIN doc.resources :
                LET left == {l \in doc.resources[r].group :
                               LiteralTrue(A, l) /\ ~(l \in S /\ Charged(l) = r)}
                IN  /\ IsFiniteSet(left) /\ RemainingCapacity(r, S) \in Int
                    /\ Cardinality(left) <= RemainingCapacity(r, S)
  <1>1. ASSUME NEW b \in Rebuilt
        PROVE  LET left == {l \in doc.boxes[b].group :
                              LiteralTrue(A, l) /\ ~(l \in S /\ Owner(l) = b)}
               IN  IsFiniteSet(left) /\ RemainingDemand(b, S) = Cardinality(left)
    <2> DEFINE true == {l \in doc.boxes[b].group : LiteralTrue(A, l)}
               taken == {v \in S : Owner(v) = b}
               left == {l \in doc.boxes[b].group :
                          LiteralTrue(A, l) /\ ~(l \in S /\ Owner(l) = b)}
    <2>1. b \in DOMAIN doc.boxes /\ taken \subseteq true /\ left = true \ taken
      BY HoldingGroups
    <2>2. Cardinality(true) = doc.boxes[b].demand
      BY <2>1 DEF Sound, Count
    <2>3. IsFiniteSet(true)
      BY <2>1, DocumentTyped, FS_Subset DEF Typed
    <2>4. RemainingDemand(b, S) = Cardinality(true) - Cardinality(taken)
      BY <2>2 DEF RemainingDemand
    <2> HIDE DEF true, taken, left
    <2>5. IsFiniteSet(left) /\ Cardinality(left) = Cardinality(true) - Cardinality(taken)
      BY <2>1, <2>3, LeftAfter
    <2>6. QED
      BY <2>4, <2>5 DEF left
  <1>2. ASSUME NEW r \in DOMAIN doc.resources
        PROVE  LET left == {l \in doc.resources[r].group :
                              LiteralTrue(A, l) /\ ~(l \in S /\ Charged(l) = r)}
               IN  /\ IsFiniteSet(left) /\ RemainingCapacity(r, S) \in Int
                   /\ Cardinality(left) <= RemainingCapacity(r, S)
    <2> DEFINE true == {l \in doc.resources[r].group : LiteralTrue(A, l)}
               taken == {v \in S : Charged(v) = r}
               left == {l \in doc.resources[r].group :
                          LiteralTrue(A, l) /\ ~(l \in S /\ Charged(l) = r)}
    <2>1. taken \subseteq true /\ left = true \ taken
      BY HoldingGroups DEF RebuiltVariables
    <2>2. Cardinality(true) <= doc.resources[r].capacity /\ doc.resources[r].capacity \in Int
      BY DocumentTyped DEF Sound, Count, Typed
    <2>3. IsFiniteSet(true) /\ Cardinality(true) \in Nat
      BY DocumentTyped, FS_Subset, FS_CardinalityType DEF Typed
    <2>4. RemainingCapacity(r, S) = doc.resources[r].capacity - Cardinality(taken)
      BY DEF RemainingCapacity
    <2> HIDE DEF true, taken, left
    <2>5. /\ IsFiniteSet(left) /\ Cardinality(left) = Cardinality(true) - Cardinality(taken)
          /\ Cardinality(taken) \in Nat
      BY <2>1, <2>3, LeftAfter, FS_Subset, FS_CardinalityType
    <2>6. QED
      BY <2>2, <2>3, <2>4, <2>5 DEF left
  <1>3. QED
    BY <1>1, <1>2

(* Hall's condition on the instance that a true support leaves behind.     *)
LEMMA NoViolator ==
    ASSUME Typed, OneIdEach, NEW A, Sound(A), NEW S \in SUBSET RebuiltVariables,
           \A v \in S : LiteralTrue(A, v),
           NEW H \in SUBSET BoxesOf(SubModelInstance(S))
    PROVE  ~HallViolator(SubModelInstance(S), H)
  <1> DEFINE inst == SubModelInstance(S)
             left(b) == {l \in doc.boxes[b].group :
                           LiteralTrue(A, l) /\ ~(l \in S /\ Owner(l) = b)}
             spare(r) == {l \in doc.resources[r].group :
                            LiteralTrue(A, l) /\ ~(l \in S /\ Charged(l) = r)}
             T == [b \in H |-> left(b)]
             via == [v \in RebuiltVariables |-> Charged(v)]
             d == inst.demands
             most == [r \in UsedResources |-> Supply(inst, H, r)]
  <1>1. /\ H \subseteq Rebuilt
        /\ \A b \in H : d[b] = RemainingDemand(b, S)
        /\ \A b \in H : inst.reachable[b]
               = {Charged(v) : v \in {w \in doc.boxes[b].group : ~(w \in S /\ Owner(w) = b)}}
        /\ ResourcesOf(inst) = UsedResources
        /\ \A r \in UsedResources : inst.capacities[r] = RemainingCapacity(r, S)
    BY DEF SubModelInstance, BoxesOf, ResourcesOf
  <1>2. /\ IsFiniteSet(H) /\ IsFiniteSet(UsedResources)
        /\ UsedResources \subseteq DOMAIN doc.resources
    <2>1. UsedResources \subseteq DOMAIN doc.resources
      BY DEF UsedResources
    <2>2. IsFiniteSet(DOMAIN doc.resources)
      BY DocumentTyped, IntervalFinite DEF Typed, IsList
    <2>3. QED
      BY <1>1, <2>1, <2>2, HoldingGroups, FS_Subset
  <1>3. ASSUME NEW b \in H
        PROVE  /\ IsFiniteSet(T[b]) /\ T[b] \subseteq doc.boxes[b].group
               /\ T[b] \subseteq RebuiltVariables
               /\ d[b] = Cardinality(T[b]) /\ d[b] \in Int
               /\ \A v \in T[b] : via[v] = Charged(v) /\ Charged(v) \in inst.reachable[b]
               /\ inst.reachable[b] \subseteq UsedResources
    <2>1. IsFiniteSet(left(b)) /\ RemainingDemand(b, S) = Cardinality(left(b))
      BY <1>1, Remaining
    <2>2. left(b) \subseteq doc.boxes[b].group /\ doc.boxes[b].group \subseteq RebuiltVariables
      BY <1>1 DEF RebuiltVariables
    <2>3. inst.reachable[b] \subseteq UsedResources
      BY <1>1, HoldingGroups
    <2>4. \A v \in left(b) : Charged(v) \in inst.reachable[b]
      BY <1>1
    <2> HIDE DEF left, d, inst
    <2>5. QED
      BY <1>1, <2>1, <2>2, <2>3, <2>4, FS_CardinalityType
  <1>4. Draws(H, T, via, inst.reachable)
    <2>1. \A b \in H : IsFiniteSet(T[b]) /\ IsFiniteSet(inst.reachable[b])
      BY <1>2, <1>3, FS_Subset
    <2>2. \A b, c \in H : b # c => T[b] \cap T[c] = {}
      BY <1>1, <1>3, HoldingGroups DEF Sound
    <2>3. \A b \in H : \A v \in T[b] : via[v] \in inst.reachable[b]
      BY <1>3
    <2>4. \A b \in H : \A v, w \in T[b] : via[v] = via[w] => v = w
      <3>1. ASSUME NEW b \in H
            PROVE  /\ \A v, w \in doc.boxes[b].group : Charged(v) = Charged(w) => v = w
                   /\ \A v \in T[b] : v \in doc.boxes[b].group /\ via[v] = Charged(v)
        <4>1. b \in Rebuilt /\ \A v, w \in doc.boxes[b].group : Cover(v) = Cover(w) => v = w
          BY <1>1 DEF Rebuilt, Survives
        <4>2. \A v \in doc.boxes[b].group : doc.resources[Charged(v)].id = Cover(v)
          BY <4>1, HoldingGroups
        <4>3. \A v, w \in doc.boxes[b].group : Charged(v) = Charged(w) => v = w
          <5> HIDE DEF T, via, inst, d
          <5>1. QED
            BY <4>1, <4>2
        <4>4. \A v \in T[b] : v \in doc.boxes[b].group /\ via[v] = Charged(v)
          BY <1>3
        <4>5. QED
          BY <4>3, <4>4
      <3> HIDE DEF T, via
      <3>2. QED
        BY <3>1
    <2> HIDE DEF T, via, inst
    <2>5. QED
      BY <1>2, <2>1, <2>2, <2>3, <2>4 DEF Draws
  <1>5. ASSUME NEW r \in UsedResources
        PROVE  most[r] \in Int /\ Cardinality(GivenBy(H, T, via, r)) <= most[r]
    <2> DEFINE incident == Cardinality({b \in H : r \in inst.reachable[b]})
               given == GivenBy(H, T, via, r)
    <2>1. /\ IsFiniteSet(spare(r)) /\ RemainingCapacity(r, S) \in Int
          /\ Cardinality(spare(r)) <= RemainingCapacity(r, S)
      BY <1>2, Remaining
    <2>2. given \subseteq spare(r)
      <3> SUFFICES ASSUME NEW b \in H, NEW v \in T[b], via[v] = r
                   PROVE  v \in spare(r)
        BY DEF GivenBy
      <3>1. Charged(v) = r /\ v \in doc.boxes[b].group /\ LiteralTrue(A, v) /\ b \in Rebuilt
        BY <1>1, <1>3
      <3>2. v \in doc.resources[r].group
        BY <3>1, HoldingGroups
      <3>3. v \notin S
        <4>1. SUFFICES ASSUME v \in S
                       PROVE  FALSE
          OBVIOUS
        <4>2. Owner(v) \in DOMAIN doc.boxes /\ v \in doc.boxes[Owner(v)].group
              /\ b \in DOMAIN doc.boxes
          BY <3>1, <4>1, HoldingGroups
        <4>3. Owner(v) = b
          BY <3>1, <4>2 DEF Sound
        <4>4. QED
          BY <4>1, <4>3
      <3>4. QED
        BY <3>1, <3>2, <3>3
    <2>3. /\ Cardinality(given) \in Nat /\ Cardinality(spare(r)) \in Nat
          /\ Cardinality(given) <= Cardinality(spare(r))
      <3> HIDE DEF given, spare
      <3>1. QED
        BY <2>1, <2>2, FS_Subset, FS_CardinalityType
    <2>4. Cardinality(given) <= incident
      <3> HIDE DEF T, via, inst
      <3>1. QED
        BY <1>4, GivenIsIncident
    <2>5. incident \in Nat
      BY <1>2, FS_Subset, FS_CardinalityType
    <2>6. most[r] = IF incident < RemainingCapacity(r, S) THEN incident ELSE RemainingCapacity(r, S)
      BY <1>1 DEF Supply
    <2> HIDE DEF given, incident, most, spare
    <2>7. most[r] \in Int /\ Cardinality(given) <= most[r]
      BY <2>1, <2>3, <2>4, <2>5, <2>6
    <2>8. QED
      BY <2>7 DEF given
  <1>6. SumFunctionOnSet(d, H) <= SumFunctionOnSet(most, UsedResources)
    <2>1. \A b \in H : inst.reachable[b] \subseteq UsedResources /\ d[b] \in Int
      BY <1>3
    <2>2. \A b \in H : d[b] <= Cardinality(T[b])
      BY <1>3
    <2> HIDE DEF T, via, inst, d, most
    <2>3. QED
      BY <1>2, <1>4, <1>5, <2>1, <2>2, HallBound
  <1>7. /\ SumFunctionOnSet(d, H) \in Int
        /\ SumFunctionOnSet(most, UsedResources) \in Int
    <2>1. \A b \in H : d[b] \in Int
      BY <1>3
    <2> HIDE DEF inst, d, most
    <2>2. QED
      BY <1>2, <1>5, <2>1, SumInt
  <1>8. HallViolator(inst, H) <=> SumFunctionOnSet(d, H) > SumFunctionOnSet(most, UsedResources)
    <2> HIDE DEF inst
    <2>1. QED
      BY <1>1 DEF HallViolator, SumFunction
  <1> HIDE DEF d, most
  <1>9. QED
    BY <1>6, <1>7, <1>8

(* A conditional lemma that is confirmed holds in every model.             *)
LEMMA ConfirmedHolds ==
    ASSUME Typed, OneIdEach, NEW A, Sound(A), NEW l, Confirmed(l)
    PROVE  Satisfies(A, l.clause)
  <1> DEFINE S == l.support
  <1>1. SUFFICES ASSUME ~Satisfies(A, l.clause)
                 PROVE  FALSE
    OBVIOUS
  <1>2. S \in SUBSET RebuiltVariables /\ l.clause = {-v : v \in S}
    BY DEF Confirmed, Applicable
  <1>3. \A v \in S : LiteralTrue(A, v)
    <2> SUFFICES ASSUME NEW v \in S
                 PROVE  LiteralTrue(A, v)
      OBVIOUS
    <2>1. v \in Int /\ v # 0
      BY <1>2, DocumentTyped, HoldingGroups DEF RebuiltVariables, Literal, Typed
    <2>2. ~LiteralTrue(A, -v)
      BY <1>1, <1>2 DEF Satisfies
    <2>3. QED
      BY <2>1, <2>2 DEF LiteralTrue
  <1> HIDE DEF S
  <1>4. ~Exceeds(S)
    <2>1. ASSUME NEW b \in Rebuilt
          PROVE  ~(RemainingDemand(b, S) < 0)
      <3> DEFINE left == {k \in doc.boxes[b].group :
                            LiteralTrue(A, k) /\ ~(k \in S /\ Owner(k) = b)}
      <3>1. IsFiniteSet(left) /\ RemainingDemand(b, S) = Cardinality(left)
        BY <1>2, <1>3, Remaining
      <3> HIDE DEF left
      <3>2. QED
        BY <3>1, FS_CardinalityType
    <2>2. ASSUME NEW r \in UsedResources
          PROVE  ~(RemainingCapacity(r, S) < 0)
      <3>1. r \in DOMAIN doc.resources
        BY DEF UsedResources
      <3> DEFINE spare == {k \in doc.resources[r].group :
                             LiteralTrue(A, k) /\ ~(k \in S /\ Charged(k) = r)}
      <3>2. /\ IsFiniteSet(spare) /\ RemainingCapacity(r, S) \in Int
            /\ Cardinality(spare) <= RemainingCapacity(r, S)
        BY <1>2, <1>3, <3>1, Remaining
      <3> HIDE DEF spare
      <3>3. QED
        BY <3>2, FS_CardinalityType
    <2>3. QED
      BY <2>1, <2>2 DEF Exceeds
  <1>5. ExhaustiveBoxTest(SubModelInstance(S)) # "UNSAT"
    BY <1>2, <1>3, NoViolator DEF ExhaustiveBoxTest
  <1>6. QED
    BY <1>4, <1>5 DEF Confirmed, S

(* The structural checks confirm consequences of the CNF only, in every    *)
(* document without errors whose boxes do not overlap and whose resources  *)
(* have ids of their own.                                                  *)
THEOREM StructuralCheck == Spec => []StructuralCheckProves
  <1>1. Typed /\ CleanInv /\ FamilyInv => StructuralCheckProves
    <2> SUFFICES ASSUME Typed, CleanInv, FamilyInv, pc = "lemmas",
                        CleanAndDisjoint, OneIdEach,
                        NEW i \in DOMAIN doc.lemmas, StructurallyOk(doc.lemmas[i]),
                        NEW A, SatisfiesAll(A, ClausesOf(cnf))
                 PROVE  Satisfies(A, doc.lemmas[i].clause)
      BY DEF StructuralCheckProves, Implied, Entails
    <2>1. CASE doc.lemmas[i].clause \in proven
      BY <2>1 DEF CleanAndDisjoint, CleanInv, Follows
    <2>2. CASE Confirmed(doc.lemmas[i])
      <3>1. Sound(A)
        BY HeldBounds DEF CleanInv, FamilyInv, CleanAndDisjoint, Sound
      <3>2. QED
        BY <2>2, <3>1, ConfirmedHolds
    <2>3. QED
      BY <2>1, <2>2 DEF StructurallyOk
  <1>2. QED
    BY <1>1, AlwaysTyped, AlwaysClean, AlwaysHeld, PTL
=============================================================================
