------------------------------ MODULE Acquire ------------------------------
(***************************************************************************)
(* download and download_parallel (phase5/acquire.py): one archive fetched *)
(* as byte ranges by one thread per range, retried, assembled and checked  *)
(* against a published digest.  The process may be killed at any point and *)
(* be invoked again; the target and the part files stay on disk.           *)
(*                                                                         *)
(* A file is its size: ranges hold the right bytes, so a prefix of the     *)
(* archive is correct and the digest matches exactly the whole of it.      *)
(* NoFile is the size of a file that does not exist.                       *)
(***************************************************************************)
EXTENDS Integers, FiniteSets

CONSTANTS
    Total,           \* bytes of the archive
    Connections,     \* connections
    Attempts,        \* attempts
    RangesOffered,   \* the answers _content_length can get: a set of BOOLEAN
    DigestKnown,     \* expected_md5 is given
    MaxInvocations   \* bound: how often acquisition is run

ASSUME AcquireAssumption ==
    /\ Total \in Nat \ {0}
    /\ Connections \in Nat \ {0}
    /\ Attempts \in Nat \ {0}
    /\ RangesOffered \in (SUBSET BOOLEAN) \ {{}}
    /\ DigestKnown \in BOOLEAN
    /\ MaxInvocations \in Nat \ {0}

VARIABLES
    target,       \* size of the target file
    part,         \* size of the part file of each segment
    main,         \* where the calling thread is
    fetcher,      \* where the thread of each segment is
    attempt,      \* attempts started in this invocation
    errors,       \* segments that reported an error in this attempt
    piece,        \* segments already assembled, or removed
    failure,      \* why the last invocation raised
    invocations   \* invocations so far

disk == <<target, part>>
acquireVars == <<target, part, main, fetcher, attempt, errors, piece,
                 failure, invocations>>

NoFile == -1

---------------------------------------------------------------------------
(* bounds: segment k of span bytes, the last one shorter; segments that    *)
(* would start behind the end are dropped.                                 *)
Span == (Total + Connections - 1) \div Connections
First(k) == (k - 1) * Span
Final(k) == IF k * Span - 1 < Total - 1 THEN k * Span - 1 ELSE Total - 1
Segments == {k \in 1 .. Connections : First(k) <= Final(k)}
Want(k) == Final(k) - First(k) + 1

Complete(k) == part[k] = Want(k)

AcquireInit ==
    /\ target = NoFile
    /\ part = [k \in Segments |-> NoFile]
    /\ main = "idle"
    /\ fetcher = [k \in Segments |-> "none"]
    /\ attempt = 0
    /\ errors = {}
    /\ piece = 0
    /\ failure = "none"
    /\ invocations = 0

---------------------------------------------------------------------------
(* download: a target that exists and is not empty is not fetched again.   *)
Invoke ==
    /\ main = "idle" /\ invocations < MaxInvocations
    /\ invocations' = invocations + 1
    /\ failure' = "none"
    /\ attempt' = 0
    /\ piece' = 0
    /\ main' = IF target > 0 THEN "verify" ELSE "head"
    /\ UNCHANGED <<disk, fetcher, errors>>

RaiseFor(why) ==
    /\ main' = "raised"
    /\ failure' = why

(* _content_length: without ranges the archive comes as a single stream.   *)
AskLength ==
    /\ main = "head"
    /\ \E ranges \in RangesOffered : main' = IF ranges THEN "launch" ELSE "connect"
    /\ UNCHANGED <<disk, fetcher, attempt, errors, piece, failure, invocations>>

StreamOpen ==
    /\ main = "connect"
    /\ target' = 0
    /\ main' = "stream"
    /\ UNCHANGED <<part, fetcher, attempt, errors, piece, failure, invocations>>

StreamCopy ==
    /\ main = "stream" /\ target < Total
    /\ target' = target + 1
    /\ UNCHANGED <<part, main, fetcher, attempt, errors, piece, failure, invocations>>

\* The stream ends, early or not: copyfileobj does not tell the difference.
StreamEnd ==
    /\ main = "stream"
    /\ main' = "verify"
    /\ UNCHANGED <<disk, fetcher, attempt, errors, piece, failure, invocations>>

StreamFails ==
    /\ main \in {"connect", "stream"}
    /\ RaiseFor("network")
    /\ UNCHANGED <<disk, fetcher, attempt, errors, piece, invocations>>

(* The threads of one attempt, with a fresh list of errors.  Starting them *)
(* one by one lets nothing happen that starting them late does not.        *)
Launch ==
    /\ main = "launch"
    /\ attempt' = attempt + 1
    /\ errors' = {}
    /\ fetcher' = [k \in Segments |-> "started"]
    /\ main' = "join"
    /\ UNCHANGED <<disk, piece, failure, invocations>>

Joined == main = "join" /\ \A k \in Segments : fetcher[k] = "ended"

AttemptSucceeds ==
    /\ Joined /\ errors = {}
    /\ main' = "open"
    /\ UNCHANGED <<disk, fetcher, attempt, errors, piece, failure, invocations>>

AttemptFails ==
    /\ Joined /\ errors # {}
    /\ IF attempt = Attempts THEN RaiseFor("fetch")
       ELSE main' = "launch" /\ UNCHANGED failure
    /\ UNCHANGED <<disk, fetcher, attempt, errors, piece, invocations>>

---------------------------------------------------------------------------
(* _fetch_segment, in the thread of segment k. *)
SegmentSkip(k) ==
    /\ fetcher[k] = "started" /\ Complete(k)
    /\ fetcher' = [fetcher EXCEPT ![k] = "ended"]
    /\ UNCHANGED <<disk, main, attempt, errors, piece, failure, invocations>>

\* Mutation of SegmentOpen: a complete part is fetched again.
SegmentReopen(k) ==
    /\ fetcher[k] = "started"
    /\ part' = [part EXCEPT ![k] = 0]
    /\ fetcher' = [fetcher EXCEPT ![k] = "copying"]
    /\ UNCHANGED <<target, main, attempt, errors, piece, failure, invocations>>

\* open("wb") empties what an earlier attempt left.
SegmentOpen(k) ==
    /\ fetcher[k] = "started" /\ ~Complete(k)
    /\ part' = [part EXCEPT ![k] = 0]
    /\ fetcher' = [fetcher EXCEPT ![k] = "copying"]
    /\ UNCHANGED <<target, main, attempt, errors, piece, failure, invocations>>

\* One byte past the end stands for a server that sends more than asked.
SegmentCopy(k) ==
    /\ fetcher[k] = "copying" /\ part[k] <= Want(k)
    /\ part' = [part EXCEPT ![k] = @ + 1]
    /\ UNCHANGED <<target, main, fetcher, attempt, errors, piece, failure, invocations>>

\* Mutation of SegmentEnd: a short read is not reported.
SegmentEndQuietly(k) ==
    /\ fetcher[k] = "copying"
    /\ fetcher' = [fetcher EXCEPT ![k] = "ended"]
    /\ UNCHANGED <<disk, main, attempt, errors, piece, failure, invocations>>

SegmentEnd(k) ==
    /\ fetcher[k] = "copying"
    /\ fetcher' = [fetcher EXCEPT ![k] = "ended"]
    /\ errors' = IF Complete(k) THEN errors ELSE errors \cup {k}
    /\ UNCHANGED <<disk, main, attempt, piece, failure, invocations>>

\* Mutation of SegmentFails: the thread itself tries again.
SegmentRetries(k) ==
    /\ fetcher[k] = "copying"
    /\ fetcher' = [fetcher EXCEPT ![k] = "started"]
    /\ UNCHANGED <<disk, main, attempt, errors, piece, failure, invocations>>

\* An exception, from urlopen before the part is opened or later.
SegmentFails(k) ==
    /\ \/ fetcher[k] = "copying"
       \/ fetcher[k] = "started" /\ ~Complete(k)
    /\ fetcher' = [fetcher EXCEPT ![k] = "ended"]
    /\ errors' = errors \cup {k}
    /\ UNCHANGED <<disk, main, attempt, piece, failure, invocations>>

---------------------------------------------------------------------------
(* The parts are copied into the target, a part at a time, and removed.    *)
OpenTarget ==
    /\ main = "open"
    /\ target' = 0
    /\ main' = "assemble"
    /\ UNCHANGED <<part, fetcher, attempt, errors, piece, failure, invocations>>

AppendPart ==
    /\ main = "assemble" /\ piece + 1 \in Segments
    /\ target' = target + part[piece + 1]
    /\ piece' = piece + 1
    /\ UNCHANGED <<part, main, fetcher, attempt, errors, failure, invocations>>

CloseTarget ==
    /\ main = "assemble" /\ piece + 1 \notin Segments
    /\ main' = "remove"
    /\ piece' = 0
    /\ UNCHANGED <<disk, fetcher, attempt, errors, failure, invocations>>

RemovePart ==
    /\ main = "remove" /\ piece + 1 \in Segments
    /\ part' = [part EXCEPT ![piece + 1] = NoFile]
    /\ piece' = piece + 1
    /\ UNCHANGED <<target, main, fetcher, attempt, errors, failure, invocations>>

RemoveDirectory ==
    /\ main = "remove" /\ piece + 1 \notin Segments
    /\ main' = "verify"
    /\ UNCHANGED <<disk, fetcher, attempt, errors, piece, failure, invocations>>

(* The tail of download. *)
VerifyDigest ==
    /\ main = "verify"
    /\ IF DigestKnown /\ target # Total THEN RaiseFor("checksum")
       ELSE main' = "returned" /\ UNCHANGED failure
    /\ UNCHANGED <<disk, fetcher, attempt, errors, piece, invocations>>

---------------------------------------------------------------------------
(* The process dies and takes its threads along. *)
Crash ==
    /\ main \notin {"idle", "raised", "returned"}
    /\ main' = "idle"
    /\ fetcher' = [k \in Segments |-> "none"]
    /\ errors' = {}
    /\ UNCHANGED <<disk, attempt, piece, failure, invocations>>

\* Whoever started acquisition starts it again after an error.
Again ==
    /\ main = "raised" /\ invocations < MaxInvocations
    /\ main' = "idle"
    /\ fetcher' = [k \in Segments |-> "none"]
    /\ errors' = {}
    /\ UNCHANGED <<disk, attempt, piece, failure, invocations>>

Calling ==
    \/ AskLength \/ StreamOpen \/ StreamCopy \/ StreamEnd \/ StreamFails
    \/ Launch \/ AttemptSucceeds \/ AttemptFails
    \/ OpenTarget \/ AppendPart \/ CloseTarget \/ RemovePart \/ RemoveDirectory
    \/ VerifyDigest

Fetching(k) ==
    \/ SegmentSkip(k) \/ SegmentOpen(k) \/ SegmentCopy(k)
    \/ SegmentEnd(k) \/ SegmentFails(k)

AcquireNext == Invoke \/ Calling \/ (\E k \in Segments : Fetching(k)) \/ Crash \/ Again

\* Every thread keeps running; urlopen's timeout ends a silent connection.
\* Nothing obliges the process to crash, or anyone to run it again.
AcquireSpec ==
    /\ AcquireInit /\ [][AcquireNext]_acquireVars
    /\ WF_acquireVars(Calling)
    /\ \A k \in Segments : WF_acquireVars(Fetching(k))

---------------------------------------------------------------------------
(* Whatever an earlier attempt, or an earlier process, left in the part    *)
(* files: when the target is assembled each of them is whole and no thread *)
(* still writes, and they are removed only after the whole archive is in   *)
(* the target.                                                             *)
AssemblyIsWhole ==
    /\ main \in {"open", "assemble"} =>
         \A k \in Segments : Complete(k) /\ fetcher[k] = "ended"
    /\ main = "remove" => target = Total

(* "Completed segments survive an interrupted run": a segment on disk is   *)
(* not fetched again and goes only once the archive holds it.              *)
CompletedSegmentsSurvive ==
    [][\A k \in Segments : Complete(k) /\ fetcher[k] # "copying" =>
         part'[k] = part[k] \/ target = Total]_acquireVars

(* An attempt gives every thread up or in: an invocation that is not       *)
(* killed returns or raises.                                               *)
InvocationEnds ==
    main = "head" ~> main \in {"returned", "raised", "idle"}

(* acquire.py: "Completed segments survive an interrupted run, so          *)
(* re-invoking acquisition resumes rather than restarting."  A run that    *)
(* finds all it needs on disk, in the target or in the parts, returns.     *)
ResumesAfterInterruption == failure # "checksum"
=============================================================================
