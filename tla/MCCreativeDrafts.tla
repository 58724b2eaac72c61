------------------------- MODULE MCCreativeDrafts -------------------------
(* Instances of CreativeDrafts for TLC. *)
EXTENDS CreativeDrafts, TLC

CONSTANTS a, b, w1, w2, d1, d2, r1, r2

\* Workspaces, threads, deciders and requests are interchangeable.
Interchangeable ==
    Permutations({a, b}) \cup Permutations({w1, w2})
      \cup Permutations({d1, d2}) \cup Permutations({r1, r2})

\* What happens besides the jobs, one case at a time.
Nothing == [e \in Events |-> 0]
Cases == {
    [Nothing EXCEPT !["request"] = 2, !["decision"] = 2],
    [Nothing EXCEPT !["request"] = 3, !["purge"] = 1],
    [Nothing EXCEPT !["request"] = 2, !["purge"] = 1, !["fault"] = 1],
    [Nothing EXCEPT !["request"] = 2, !["day"] = 1, !["spend"] = 1],
    [Nothing EXCEPT !["request"] = 2, !["day"] = 1, !["fault"] = 1],
    [Nothing EXCEPT !["request"] = 2, !["fault"] = 1, !["spend"] = 1],
    [Nothing EXCEPT !["request"] = 2, !["override"] = 2, !["fault"] = 1] }

==========================================================================
