--------------------------- MODULE MCPathGeometry ---------------------------
(* Grid walks from the origin of up to MaxSteps unit steps.  The first    *)
(* step is fixed to +x: the function compares points only for equality,  *)
(* so rotations and reflections of a walk give the same result.           *)
EXTENDS PathGeometry

MaxSteps == 8

Dirs == {<< 1, 0 >>, << -1, 0 >>, << 0, 1 >>, << 0, -1 >>}

Plus(p, d) == << p[1] + d[1], p[2] + d[2] >>

\* The undirected edges a walk has traversed.
Edges(w) == {{w[k], w[k + 1]} : k \in 1..Len(w) - 1}

\* Walks of n steps that never traverse an edge twice.
RECURSIVE WalksOf(_)
WalksOf(n) ==
  IF n = 1 THEN {<< << 0, 0 >>, << 1, 0 >> >>}
  ELSE UNION {{Append(w, Plus(w[Len(w)], d)) :
                  d \in {e \in Dirs : {w[Len(w)], Plus(w[Len(w)], e)} \notin Edges(w)}} :
                w \in WalksOf(n - 1)}

MCLines == UNION {WalksOf(n) : n \in 1..MaxSteps}
====
