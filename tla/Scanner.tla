------------------------------ MODULE Scanner ------------------------------
(***************************************************************************)
(* Telling a keyboard-wedge scanner from a person by the time between keys *)
(* (scanner/scanDetector.ts) and keeping the focused field clean of what   *)
(* was scanned (scanner/useScanner.ts).                                    *)
(*                                                                         *)
(* A key is known by its number.  Time is kept as differences: since the   *)
(* first and since the last key of the run.  The focus stays in one field. *)
(***************************************************************************)
EXTENDS Integers, Sequences

CONSTANTS
  minLength, maxInterKeyMs, maxAvgInterKeyMs, endTimeoutMs,  \* ScanDetectorOptions
  Gaps,     \* milliseconds between two keys
  MaxKeys   \* bound on the number of characters typed

ASSUME ScannerAssumption ==
  /\ minLength \in Nat /\ minLength > 1
  /\ maxInterKeyMs \in Nat /\ maxAvgInterKeyMs \in Nat /\ endTimeoutMs \in Nat
  /\ endTimeoutMs > maxInterKeyMs   \* the constructor throws otherwise
  /\ Gaps \subseteq Nat /\ MaxKeys \in Nat

VARIABLES
  chars,     \* the run: the keys seen so far
  span,      \* lastTime - firstTime
  maxGap,
  quick,     \* some gap of the run is at most maxAvgInterKeyMs
  field,     \* the focused input: the keys it shows
  snapshot,  \* its value when the run started, NoSnapshot if none
  scans,     \* what onScan was given
  typed,     \* number of characters so far
  eaten,     \* keys swallowed
  lapsed     \* swallowed keys whose run stopped being a scan

scannerVars == <<chars, span, maxGap, quick, field, snapshot, scans, typed, eaten, lapsed>>

NoSnapshot == <<0>>

Keys(s) == {s[i] : i \in DOMAIN s}

ScannerTypeOK ==
  /\ chars \in Seq(1 .. MaxKeys)
  /\ field \in Seq(1 .. MaxKeys)
  /\ typed \in 0 .. MaxKeys
  /\ Keys(chars) \cup Keys(field) \cup eaten \subseteq 1 .. typed
  /\ chars # <<>> => Keys(chars) = typed - Len(chars) + 1 .. typed

ScannerInit ==
  /\ chars = <<>> /\ span = 0 /\ maxGap = 0 /\ quick = FALSE
  /\ field = <<>> /\ snapshot = NoSnapshot
  /\ scans = <<>> /\ typed = 0 /\ eaten = {} /\ lapsed = {}

-----------------------------------------------------------------------------
(* ScanDetector *)

\* Mutant of recognizedRun: one fast pair of keys is enough.
recognizedRunSlow(n, total, gap) == n >= minLength /\ gap <= maxInterKeyMs

\* n characters over `total` milliseconds, the longest gap `gap`.
recognizedRun(n, total, gap) ==
  /\ n >= minLength
  /\ gap <= maxInterKeyMs
  /\ total <= maxAvgInterKeyMs * (n - 1)

recognized == recognizedRun(Len(chars), span, maxGap)

pending == chars # <<>>

reset == chars' = <<>> /\ maxGap' = 0 /\ span' = 0 /\ quick' = FALSE

-----------------------------------------------------------------------------
(* useScanner *)

\* Mutant of Restored: the field keeps what leaked into it.
RestoredNot(shown) == shown

\* deliver puts the field back to what it was before the run.
Restored(shown) == IF snapshot = NoSnapshot THEN shown ELSE snapshot

\* Keys that were swallowed and will not be part of a scan any more.
Lost == lapsed \cup (Keys(chars) \cap eaten)

\* Ends the run (finish and deliver); if it was no scan, nothing is delivered
\* and the snapshot is left for the next run to replace.
Finish(keepSnapshot) ==
  IF recognized
  THEN /\ scans' = Append(scans, chars)
       /\ field' = Restored(field)
       /\ snapshot' = NoSnapshot
       /\ UNCHANGED lapsed
  ELSE /\ lapsed' = Lost
       /\ snapshot' = IF keepSnapshot THEN snapshot ELSE NoSnapshot
       /\ UNCHANGED <<scans, field>>

Swallowed(n, total, gap) == recognizedRun(n, total, gap)

\* A character within the run's time: it joins the run.
JoinRun(gap) ==
  LET key == typed + 1
      widest == IF gap > maxGap THEN gap ELSE maxGap
      swallow == Swallowed(Len(chars) + 1, span + gap, widest)
  IN  /\ pending /\ gap <= maxInterKeyMs
      /\ chars' = Append(chars, key)
      /\ span' = span + gap
      /\ maxGap' = widest
      /\ quick' = (quick \/ gap <= maxAvgInterKeyMs)
      /\ field' = IF swallow THEN field ELSE Append(field, key)
      /\ eaten' = IF swallow THEN eaten \cup {key} ELSE eaten
      /\ UNCHANGED <<snapshot, scans, lapsed>>

\* The first character of a run; a run that went before has ended, and is
\* delivered if its timer has not done it.
StartRun(gap) ==
  /\ pending => gap > maxInterKeyMs
  /\ LET key == typed + 1
         shown == IF pending /\ recognized THEN Restored(field) ELSE field
     IN  /\ chars' = <<key>> /\ span' = 0 /\ maxGap' = 0 /\ quick' = FALSE
         /\ scans' = IF pending /\ recognized THEN Append(scans, chars) ELSE scans
         /\ lapsed' = IF pending /\ ~recognized THEN Lost ELSE lapsed
         /\ snapshot' = shown
         /\ field' = Append(shown, key)
  /\ UNCHANGED eaten

\* A printable character, `gap` after the last key.
TypeCharacter(gap) ==
  /\ typed < MaxKeys
  /\ typed' = typed + 1
  /\ JoinRun(gap) \/ StartRun(gap)

\* Enter or Tab soon after the run ends it.  (Without a run they do nothing
\* here, and whoever typed them sees them.)
Terminator(gap) ==
  /\ pending
  /\ IF gap >= endTimeoutMs
     THEN lapsed' = Lost /\ UNCHANGED <<scans, field, snapshot>>
     ELSE Finish(TRUE)
  /\ reset
  /\ UNCHANGED <<typed, eaten>>

\* A chord, a repeated key, a composition or an editing key resets the run.
Interrupt ==
  /\ pending
  /\ lapsed' = Lost
  /\ reset
  /\ UNCHANGED <<field, snapshot, scans, typed, eaten>>

\* The timer of onKeyDown: endTimeoutMs of silence.
Silence ==
  /\ pending
  /\ Finish(FALSE)
  /\ reset
  /\ UNCHANGED <<typed, eaten>>

ScannerNext ==
  \/ \E gap \in Gaps : TypeCharacter(gap) \/ Terminator(gap)
  \/ Interrupt
  \/ Silence

ScannerSpec == ScannerInit /\ [][ScannerNext]_scannerVars

-----------------------------------------------------------------------------
(* Properties *)

Scanned == UNION {Keys(scans[i]) : i \in DOMAIN scans}

\* Once the run is over, every character has ended in exactly one place: in the
\* field or in a scan.  Only keys swallowed in a run that stopped qualifying
\* are in neither.
KeysAccounted ==
  ~pending => /\ Keys(field) \cup Scanned \cup lapsed = 1 .. typed
              /\ Keys(field) \cap Scanned = {}
              /\ lapsed \cap (Keys(field) \cup Scanned) = {}

\* A person's keystroke is never eaten: a key is swallowed only in a run that
\* has two keys closer than maxAvgInterKeyMs.
SlowTypingUntouched == [][eaten' # eaten => quick']_scannerVars

\* The detector neither loses nor doubles a character, and leaves people alone.
KeysHandled ==
  /\ [](ScannerTypeOK /\ KeysAccounted)
  /\ SlowTypingUntouched

=============================================================================
