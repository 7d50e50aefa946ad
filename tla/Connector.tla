----------------------------- MODULE Connector ------------------------------
(***************************************************************************)
(* One connector: a process under a supervisor, and the state directory it *)
(* comes back to.  The directory has four files, written one at a time and *)
(* each atomically: the two halves of the key, the id of the request that  *)
(* is being waited on, and the bundle that was granted.                    *)
(*                                                                         *)
(* What the hub answered is a parameter of the actions; module Enrollment  *)
(* supplies it.  A call without an answer changes nothing here, so polling *)
(* a hub that cannot be reached is a stuttering step.                      *)
(***************************************************************************)
EXTENDS Naturals, FiniteSets

CONSTANTS
  RequestIds,   \* request identifiers the hub may hand out
  Certs,        \* certificates
  MaxStops,     \* bound on how often the process is stopped from outside
  None          \* no request, no bundle

VARIABLES
  files,        \* the state directory
  proc,         \* the process: where it is and what it holds in memory
  stops         \* how often it has been stopped

connVars == <<files, proc, stops>>

Bundle == [cert: Certs, blocked: SUBSET Certs]

Files == [keys: {"none", "private", "both"},
          request: RequestIds \cup {None},
          bundle: Bundle \cup {None}]

Process == [pc: {"down", "public", "submit", "save", "poll", "grant", "refused", "run"},
            request: RequestIds \cup {None},
            bundle: Bundle \cup {None},
            applied: SUBSET Certs]      \* what its nebula refuses

NoFiles == [keys |-> "none", request |-> None, bundle |-> None]
Down == [pc |-> "down", request |-> None, bundle |-> None, applied |-> {}]

ConnInit == files = NoFiles /\ proc = Down /\ stops = 0

-----------------------------------------------------------------------------
\* Wrong on purpose: a request that was saved is known to be there, and its
\* id is not read back.
LoadedWithoutId(f) ==
  [pc |-> IF f.bundle # None THEN "run" ELSE IF f.request # None THEN "poll" ELSE "submit",
   request |-> None,
   bundle |-> f.bundle,
   applied |-> IF f.bundle # None THEN f.bundle.blocked ELSE {}]

\* What Run makes of a directory with both halves of the key: a granted
\* connector connects, one that has asked keeps asking about that request.
Loaded(f) ==
  [pc |-> IF f.bundle # None THEN "run" ELSE IF f.request # None THEN "poll" ELSE "submit",
   request |-> f.request,
   bundle |-> f.bundle,
   applied |-> IF f.bundle # None THEN f.bundle.blocked ELSE {}]

\* A directory with a private key and no public one is an error, and the
\* process ends as it began.
Start ==
  /\ proc.pc = "down"
  /\ \/ /\ files.keys = "none"
        /\ files' = [files EXCEPT !.keys = "private"]
        /\ proc' = [proc EXCEPT !.pc = "public"]
     \/ /\ files.keys = "both"
        /\ proc' = Loaded(files)
        /\ UNCHANGED files
  /\ UNCHANGED stops

WritePublicKey ==
  /\ proc.pc = "public"
  /\ files' = [files EXCEPT !.keys = "both"]
  /\ proc' = Loaded(files')
  /\ UNCHANGED stops

\* The hub's answer to the request, and its refusal or silence.
submit(id) ==
  /\ proc.pc = "submit"
  /\ proc' = [proc EXCEPT !.pc = "save", !.request = id]
  /\ UNCHANGED <<files, stops>>

submitFailed ==
  /\ proc.pc = "submit"
  /\ proc' = [proc EXCEPT !.pc = "refused"]
  /\ UNCHANGED <<files, stops>>

SaveRequestID ==
  /\ proc.pc = "save"
  /\ files' = [files EXCEPT !.request = proc.request]
  /\ proc' = [proc EXCEPT !.pc = "poll"]
  /\ UNCHANGED stops

approved(cert, blocked) ==
  /\ proc.pc = "poll"
  /\ proc' = [proc EXCEPT !.pc = "grant", !.bundle = [cert |-> cert, blocked |-> blocked]]
  /\ UNCHANGED <<files, stops>>

rejected ==
  /\ proc.pc = "poll"
  /\ proc' = [proc EXCEPT !.pc = "refused"]
  /\ UNCHANGED <<files, stops>>

SaveBundle ==
  /\ proc.pc = "grant"
  /\ files' = [files EXCEPT !.bundle = proc.bundle]
  /\ proc' = [proc EXCEPT !.pc = "run", !.applied = proc.bundle.blocked]
  /\ UNCHANGED stops

\* The wait before a refused process ends is over.
refused ==
  /\ proc.pc = "refused"
  /\ proc' = Down
  /\ UNCHANGED <<files, stops>>

\* Wrong on purpose: the lists are compared by their length.
watchBlocklistByCount(blocked) ==
  LET fresh == blocked \ {proc.bundle.cert}
      updated == [proc.bundle EXCEPT !.blocked = fresh]
  IN  /\ proc.pc = "run"
      /\ Cardinality(fresh) # Cardinality(proc.bundle.blocked)
      /\ proc' = [proc EXCEPT !.bundle = updated, !.applied = fresh]
      /\ files' \in {files, [files EXCEPT !.bundle = updated]}
      /\ UNCHANGED stops

\* A tick that finds the list changed: nebula is handed the new one, and then
\* the bundle is saved, or not.  A reload that fails leaves everything for the
\* next tick.  A connector does not refuse itself.
watchBlocklist(blocked) ==
  LET fresh == blocked \ {proc.bundle.cert}
      updated == [proc.bundle EXCEPT !.blocked = fresh]
  IN  /\ proc.pc = "run"
      /\ fresh # proc.bundle.blocked
      /\ proc' = [proc EXCEPT !.bundle = updated, !.applied = fresh]
      /\ files' \in {files, [files EXCEPT !.bundle = updated]}
      /\ UNCHANGED stops

\* The process is killed, or ends because it could not write a file.
Stop ==
  /\ proc.pc # "down" /\ stops < MaxStops
  /\ stops' = stops + 1
  /\ proc' = Down
  /\ UNCHANGED files
=============================================================================
