------------------------------- MODULE Checks -------------------------------
(* Chains of checks, as Rust's ? operator makes them: a check is Ok or an  *)
(* error code, and a ?? b goes on to b only when a is Ok.                  *)
EXTENDS Integers, Sequences

Ok == "ok"
a ?? b == IF a = Ok THEN b ELSE a
Check(holds, code) == IF holds THEN Ok ELSE code
FirstError(verdicts) ==
  LET bad == SelectSeq(verdicts, LAMBDA v : v # Ok)
  IN  IF bad = <<>> THEN Ok ELSE Head(bad)

Sum(s) == LET t[n \in 0..Len(s)] == IF n = 0 THEN 0 ELSE t[n - 1] + s[n] IN t[Len(s)]
=============================================================================
