------------------------------ MODULE Utf8Cut ------------------------------
(***************************************************************************)
(* _utf8_cut of sessions.py: where recv() cuts a buffer.  A byte is a      *)
(* continuation byte ("cont") or it begins a character ("lead").           *)
(***************************************************************************)
EXTENDS Integers, Sequences, FiniteSetsExt

\* data[n] of the code is byte n + 1 of the sequence.
Continuation(data, n) == data[n + 1] = "cont"

\* Mutant: the last byte kept is looked at, not the first one left.
FaultyCut(data, limit) ==
  IF Len(data) <= limit THEN Len(data)
  ELSE LET end == Max({e \in 0..limit : e = 0 \/ limit - e >= 4 \/ ~Continuation(data, e - 1)})
       IN IF end > 0 /\ ~Continuation(data, end - 1) THEN end ELSE limit

\* _utf8_cut: all of it when it fits, whatever it ends with; else back from the
\* limit over at most four continuation bytes.
Cut(data, limit) ==
  IF Len(data) <= limit THEN Len(data)
  ELSE LET end == Max({e \in 0..limit : e = 0 \/ limit - e >= 4 \/ ~Continuation(data, e)})
       IN IF end > 0 /\ ~Continuation(data, end) THEN end ELSE limit
=============================================================================
