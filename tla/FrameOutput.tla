----------------------------- MODULE FrameOutput -----------------------------
(***************************************************************************)
(* The callback protocol a lossy decoder promises the user of a VP8Io       *)
(* (src/dec/vp8_dec.h): setup() once; if it succeeded, put() for bands of   *)
(* rows from the top of the crop window downwards, without gap or overlap;  *)
(* then teardown() exactly once.  Decoding succeeds only if the whole       *)
(* window was delivered.                                                    *)
(***************************************************************************)
EXTENDS Naturals

VARIABLES
  total,               \* rows of the crop window
  phase,               \* "new", "open" (between setup and teardown), "closed"
  rows,                \* rows delivered by put() so far
  result               \* "none", then what the decoder returns

vars == <<total, phase, rows, result>>

Init ==
  /\ total \in Nat
  /\ phase = "new" /\ rows = 0 /\ result = "none"

Setup ==
  /\ phase = "new" /\ result = "none"
  /\ phase' = "open"
  /\ UNCHANGED <<total, rows, result>>

SetupFails ==
  /\ phase = "new" /\ result = "none"
  /\ result' = "failed"
  /\ UNCHANGED <<total, phase, rows>>

Put(n) ==
  /\ phase = "open" /\ result = "none"
  /\ rows + n <= total
  /\ rows' = rows + n
  /\ UNCHANGED <<total, phase, result>>

Teardown ==
  /\ phase = "open"
  /\ phase' = "closed"
  /\ UNCHANGED <<total, rows, result>>

Return(r) ==
  /\ phase = "closed" /\ result = "none"
  /\ r = "ok" => rows = total
  /\ result' = r
  /\ UNCHANGED <<total, phase, rows>>

Next ==
  \/ Setup \/ SetupFails \/ Teardown
  \/ \E n \in 1 .. total : Put(n)
  \/ \E r \in {"ok", "failed"} : Return(r)

SafeSpec == Init /\ [][Next]_vars

\* After a successful setup, teardown is called and the decoder returns.
Spec ==
  /\ SafeSpec
  /\ WF_vars(Teardown)
  /\ WF_vars(\E r \in {"ok", "failed"} : Return(r))
=============================================================================
